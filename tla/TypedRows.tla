------------------------------ MODULE TypedRows ------------------------------
(***************************************************************************)
(* What becomes of a typed value on its way through a table: the setter of *)
(* a typed module turns it into a Value (IntoValue), the backend binds it, *)
(* the column keeps it, the backend reads it back, and the typed row or    *)
(* the projection decodes it (FromValue).                                  *)
(*                                                                         *)
(* The application makes the same calls on a SQLite and on a PostgreSQL    *)
(* database.  The table has the columns id and a; b comes by ALTER TABLE   *)
(* ADD COLUMN when there may be rows already, and releases that do not set *)
(* it go on inserting.                                                     *)
(*                                                                         *)
(* The widths of the integers and of a byte are parameters; an f32 has two *)
(* bytes.                                                                  *)
(***************************************************************************)
EXTENDS Integers, Sequences

CONSTANTS
  Shapes,     \* the types the columns a and b may have: a set of
              \* [a, b : Type], where option says Option<base> and mixed that the
              \* name of the column has capitals
  Ids,        \* the keys of the rows
  Dim,        \* the dimension the FloatVec columns declare, or 0
  Half,       \* 2^63, where the negative half of 64 bits begins
  Half32,     \* 2^31
  Half8,      \* 2^7
  UuidLen,    \* the bytes of a Uuid
  Samples(_), \* of every type, the values the application uses
  MaxCalls    \* bound: inserts and updates

Bases == {"i64", "u64", "i32", "u32", "bool", "f64", "String", "Uuid", "FloatVec", "Int8Vec", "BitVec"}

Type == [base : Bases, option : BOOLEAN, mixed : BOOLEAN]

ASSUME ShapesAssumption == Shapes \subseteq [a : Type, b : Type]
ASSUME CallsAssumption == MaxCalls \in Nat

Byte == 0 .. 2 * Half8 - 1

Values(base) ==
  CASE base = "i64"             -> -Half .. Half - 1
    [] base = "u64"             -> 0 .. 2 * Half - 1
    [] base = "i32"             -> -Half32 .. Half32 - 1
    [] base = "u32"             -> 0 .. 2 * Half32 - 1
    [] base = "bool"            -> BOOLEAN
    [] base \in {"f64", "String"} -> STRING
    [] base = "Uuid"            -> [1 .. UuidLen -> Byte]
    [] base = "FloatVec"        -> Seq([1 .. 2 -> Byte])
    [] base = "Int8Vec"         -> Seq(-Half8 .. Half8 - 1)
    [] base = "BitVec"          -> Seq(Byte)

ASSUME WidthsAssumption ==
  /\ {Half, Half32, Half8} \subseteq Nat \ {0}
  /\ 2 * Half32 <= Half
  /\ UuidLen \in Nat
ASSUME SamplesAssumption == \A base \in Bases : Samples(base) \subseteq Values(base)

VARIABLES
  shape,    \* the types of the columns
  columns,  \* the columns besides id the table has
  store,    \* store[d]: what the columns hold in database d, by the ids of its rows
  wrote,    \* wrote[d]: what the application has set the fields of those rows to
  calls     \* how many calls there were

vars == <<shape, columns, store, wrote, calls>>

Databases == {"sqlite", "postgres"}

None == <<"None">>
Some(x) == <<"Some", x>>

\* What a setter of a column of type t accepts (ColumnInput): a value, or None.
Inputs(t) == {Some(x) : x \in Samples(t.base)} \cup (IF t.option THEN {None} ELSE {})

-----------------------------------------------------------------------------
(* Values *)

Null == <<"Null">>

\* Slip: a u32 goes through an i32.
AsI64Narrow(base, x) == IF base = "u32" /\ x >= Half32 THEN x - 2 * Half32 ELSE x

\* `as i64`: an i32 keeps its sign, a u32 its value, a u64 its bits.
AsI64(base, x) == IF base = "u64" /\ x >= Half THEN x - 2 * Half ELSE x

\* `as u8` of an i8, and back
AsU8(x) == IF x < 0 THEN x + 2 * Half8 ELSE x
AsI8(x) == IF x >= Half8 THEN x - 2 * Half8 ELSE x

IntoValue(t, input) ==
  IF input = None THEN Null
  ELSE LET x == input[2]
       IN  CASE t.base \in {"i64", "i32", "u32", "u64"} -> <<"Integer", AsI64(t.base, x)>>
             [] t.base = "bool"                         -> <<"Integer", IF x THEN 1 ELSE 0>>
             [] t.base = "f64"                          -> <<"Real", x>>
             [] t.base = "String"                       -> <<"Text", x>>
             [] t.base = "Uuid"                         -> <<"Uuid", x>>
             [] t.base = "FloatVec"                     -> <<"FloatVector", x>>
             [] t.base = "Int8Vec"                      -> <<"Blob", [i \in DOMAIN x |-> AsU8(x[i])]>>
             [] t.base = "BitVec"                       -> <<"Blob", x>>

Error == <<"Error">>

\* f32::to_le_bytes and f32::from_ne_bytes, on a host that is little-endian.
LittleEndian(f) == <<f[2], f[1]>>
FromBytes(b) == <<b[2], b[1]>>

\* Slip: the bytes are put in network order, as PgVector does.
BytesInOrder(floats) == [n \in 1 .. 2 * Len(floats) |-> floats[(n + 1) \div 2][2 - (n % 2)]]

float_vector_bytes(floats) ==
  [n \in 1 .. 2 * Len(floats) |-> LittleEndian(floats[(n + 1) \div 2])[2 - (n % 2)]]

Floats(bytes) == [i \in 1 .. Len(bytes) \div 2 |-> FromBytes(<<bytes[2 * i - 1], bytes[2 * i]>>)]

\* Slip: a Uuid comes as a Uuid only.
FromUuidOnly(v) == IF v[1] = "Uuid" THEN Some(v[2]) ELSE Error

\* parse_str reads a Uuid from the text that spells it, whose hyphens no property is about.
FromUuid(v) ==
  IF \/ v[1] = "Uuid"
     \/ v[1] = "Blob" /\ Len(v[2]) = UuidLen
     \/ v[1] = "Text" /\ v[2] \in Values("Uuid")
  THEN Some(v[2]) ELSE Error

FromFloatVec(v) ==
  CASE v[1] = "FloatVector"                     -> Some(v[2])
    [] v[1] = "Blob" /\ Len(v[2]) % 2 = 0       -> Some(Floats(v[2]))
    [] OTHER                                    -> Error

\* Slip: a u32 that does not fit an i32 is out of range.
FromIntegerAsI32(base, i) ==
  CASE base = "i64"                                         -> Some(i)
    [] base \in {"i32", "u32"} /\ i \in -Half32 .. Half32 - 1 -> Some(i)
    [] base = "u64" /\ i >= 0                               -> Some(i)
    [] base = "bool"                                        -> Some(i # 0)
    [] OTHER                                                -> Error

\* try_from: what the narrower type does not hold is an error.
FromInteger(base, i) ==
  CASE base = "i64"                                         -> Some(i)
    [] base = "i32" /\ i \in -Half32 .. Half32 - 1          -> Some(i)
    [] base = "u32" /\ i \in 0 .. 2 * Half32 - 1            -> Some(i)
    [] base = "u64" /\ i >= 0                               -> Some(i)
    [] base = "bool"                                        -> Some(i # 0)
    [] OTHER                                                -> Error

FromValue(t, v) ==
  IF v = Null THEN (IF t.option THEN None ELSE Error)
  ELSE CASE t.base = "f64" /\ v[1] = "Real"       -> Some(v[2])
         [] t.base = "String" /\ v[1] = "Text"    -> Some(v[2])
         [] t.base = "Uuid"                       -> FromUuid(v)
         [] t.base = "FloatVec"                   -> FromFloatVec(v)
         [] t.base = "BitVec" /\ v[1] = "Blob"    -> Some(v[2])
         [] t.base = "Int8Vec" /\ v[1] = "Blob"   -> Some([i \in DOMAIN v[2] |-> AsI8(v[2][i])])
         [] t.base \in {"i64", "i32", "u32", "u64", "bool"} /\ v[1] = "Integer" ->
              FromInteger(t.base, v[2])
         [] OTHER                                 -> Error

-----------------------------------------------------------------------------
(* The backends *)

\* Slip: a Uuid is bound as its text.
SqliteHoldsText(v) == IF v[1] = "Uuid" THEN <<"Text", v[2]>> ELSE v

\* What a column of SQLite holds after the bind: it has no type for a vector or a Uuid,
\* and no NaN.
SqliteHolds(v) ==
  CASE v[1] = "FloatVector"   -> <<"Blob", float_vector_bytes(v[2])>>
    [] v[1] = "Uuid"          -> <<"Blob", v[2]>>
    [] v = <<"Real", "NaN">>  -> Null
    [] OTHER                  -> v

\* PostgreSQL has a type for each; a vector refuses an empty one, a vector(dim) one of another
\* dimension.  dim 0 declares a vector of any.
PostgresHolds(v) ==
  IF v[1] = "FloatVector" /\ (v[2] = <<>> \/ (Dim # 0 /\ Len(v[2]) # Dim)) THEN Error ELSE v

Holds(d, v) == IF d = "sqlite" THEN SqliteHolds(v) ELSE PostgresHolds(v)

Written(d, c, input) == Holds(d, IntoValue(shape[c], input))

\* What column c holds for a field of an insert: a column that is not set stays NULL.
Unset == <<"Unset">>

Stored(d, c, field) == IF field = Unset THEN Null ELSE Written(d, c, field)

\* The row of a result, a map from the names of its columns: SQLite is read by the storage
\* class of the value, PostgreSQL by the type of the column, and each gives the kind of
\* Value that the column holds.  PostgreSQL has folded the unquoted names of the DDL and of
\* the query to lower case.
NameRead(d, c) == <<IF d = "postgres" /\ shape[c].mixed THEN "folded" ELSE "declared", c>>

RowRead(d, id) ==
  LET names == {NameRead(d, c) : c \in columns}
  IN  [n \in names |-> store[d][id][CHOOSE c \in columns : NameRead(d, c) = n]]

-----------------------------------------------------------------------------
(* The typed module *)

\* insert().a(..).b(..).execute(): a database that refuses one value, or has the
\* primary key already, does not insert the row.
Insert(id, fields) ==
  /\ calls < MaxCalls
  /\ calls' = calls + 1
  /\ LET Accepted(d) ==
           /\ id \notin DOMAIN store[d]
           /\ \A c \in columns : Stored(d, c, fields[c]) # Error
         With(rows, row) == [i \in DOMAIN rows \cup {id} |-> IF i = id THEN row ELSE rows[i]]
     IN  /\ store' = [d \in Databases |->
                        IF Accepted(d) THEN With(store[d], [c \in columns |-> Stored(d, c, fields[c])])
                                       ELSE store[d]]
         /\ wrote' = [d \in Databases |-> IF Accepted(d) THEN With(wrote[d], fields) ELSE wrote[d]]
  /\ UNCHANGED <<shape, columns>>

\* update().c(input).where_(id.eq(..)).execute(): the rows it finds, which may be none.
Update(id, c, input) ==
  /\ calls < MaxCalls
  /\ calls' = calls + 1
  /\ LET Done(d) == id \in DOMAIN store[d] /\ Written(d, c, input) # Error
     IN  /\ store' = [d \in Databases |->
                        IF Done(d) THEN [store[d] EXCEPT ![id][c] = Written(d, c, input)] ELSE store[d]]
         /\ wrote' = [d \in Databases |->
                        IF Done(d) THEN [wrote[d] EXCEPT ![id][c] = input] ELSE wrote[d]]
  /\ UNCHANGED <<shape, columns>>

\* ALTER TABLE ADD COLUMN b <type>: without a default, the rows there have NULL.
AddColumn ==
  /\ "b" \notin columns
  /\ columns' = columns \cup {"b"}
  /\ LET Extended(rows, new) ==
           [i \in DOMAIN rows |-> [c \in columns' |-> IF c = "b" THEN new ELSE rows[i][c]]]
     IN  /\ store' = [d \in Databases |-> Extended(store[d], Null)]
         /\ wrote' = [d \in Databases |-> Extended(wrote[d], Unset)]
  /\ UNCHANGED <<shape, calls>>

\* row.decode::<T>(name): a name the row does not have is an error.
Decoded(d, id, c) ==
  LET row == RowRead(d, id)
      name == <<"declared", c>>
  IN  IF name \in DOMAIN row THEN FromValue(shape[c], row[name]) ELSE Error

\* all(): the rows, with the fields of the typed module or of the projection; the first
\* field that does not decode fails the call.
All(d, cols) ==
  IF \E id \in DOMAIN store[d], c \in cols : Decoded(d, id, c) = Error THEN Error
  ELSE <<"Ok", [id \in DOMAIN store[d] |-> [c \in cols |-> Decoded(d, id, c)]]>>

\* Whether a row comes before another one in ORDER BY c ASC: SQLite puts NULL first,
\* PostgreSQL last.
Before(d, v, w) ==
  \/ v = Null /\ w # Null /\ d = "sqlite"
  \/ v # Null /\ w = Null /\ d = "postgres"
  \/ v # Null /\ w # Null /\ v[2] < w[2]

\* The rows order_by_asc(c).one() may return: it is limit(1).
One(d, c) ==
  {id \in DOMAIN store[d] :
     \A other \in DOMAIN store[d] : ~Before(d, store[d][other][c], store[d][id][c])}

\* What an insert may set column c to, if there is one.
Settings(c) == {Unset} \cup (IF c \in columns THEN Inputs(shape[c]) ELSE {})

Init ==
  /\ shape \in Shapes
  /\ columns = {"a"}
  /\ store = [d \in Databases |-> <<>>]
  /\ wrote = [d \in Databases |-> <<>>]
  /\ calls = 0

Next ==
  \/ \E id \in Ids, a \in Settings("a"), b \in Settings("b") :
       Insert(id, [c \in columns |-> IF c = "a" THEN a ELSE b])
  \/ \E id \in Ids, c \in columns : \E input \in Inputs(shape[c]) : Update(id, c, input)
  \/ AddColumn

Spec == Init /\ [][Next]_vars

-----------------------------------------------------------------------------
\* What a column of each type holds, besides NULL.
Kind(d, base) ==
  CASE base \in {"i64", "i32", "u32", "u64", "bool"}      -> "Integer"
    [] base = "f64"                                       -> "Real"
    [] base = "String"                                    -> "Text"
    [] base = "Uuid" /\ d = "postgres"                    -> "Uuid"
    [] base = "FloatVec" /\ d = "postgres"                -> "FloatVector"
    [] OTHER                                              -> "Blob"

\* Every field holds NULL or what the DDL of its type says (sql_type of both backends).
TypeOK ==
  /\ shape \in Shapes
  /\ columns \in {{"a"}, {"a", "b"}}
  /\ calls \in 0 .. MaxCalls
  /\ \A d \in Databases :
       /\ DOMAIN store[d] \subseteq Ids
       /\ DOMAIN wrote[d] = DOMAIN store[d]
       /\ \A id \in DOMAIN store[d] :
            /\ DOMAIN store[d][id] = columns
            /\ DOMAIN wrote[d][id] = columns
            /\ \A c \in columns :
                 /\ store[d][id][c] # Null => store[d][id][c][1] = Kind(d, shape[c].base)
                 /\ wrote[d][id][c] \in Inputs(shape[c]) \cup {Unset}

\* Every field holds what the last setter makes of it, and nothing that was refused: the
\* reason why what is read is what was written.
StoredIsWritten ==
  \A d \in Databases : \A id \in DOMAIN store[d], c \in columns :
    /\ store[d][id][c] = Stored(d, c, wrote[d][id][c])
    /\ store[d][id][c] # Error

RowsInv == TypeOK /\ StoredIsWritten

Projections == SUBSET columns \ {{}}

IsNaN(input) == input = Some("NaN")

\* A field that was not set is one that holds None.
Field(d, id, c) == IF wrote[d][id][c] = Unset THEN None ELSE wrote[d][id][c]

\* A u64 that the BIGINT column takes for a negative number.
Wraps(d, id, c) ==
  shape[c].base = "u64" /\ Field(d, id, c) # None /\ Field(d, id, c)[2] >= Half

SqliteNaN(d, id, c) == d = "sqlite" /\ shape[c].base = "f64" /\ IsNaN(Field(d, id, c))

\* What a typed select returns is what was last written to the rows: all of them, each
\* field the value it was set to, or None; only a NaN is None on SQLite.  So neither the
\* bytes of a vector, a Uuid or an i8, nor the sign or the width of an integer get lost
\* (into_value, execute_query, postgres_params, postgres_row, from_value).
DecodedIsWritten ==
  \A d \in Databases, cols \in Projections :
    LET answer == All(d, cols)
    IN  answer # Error =>
          /\ DOMAIN answer[2] = DOMAIN wrote[d]
          /\ \A id \in DOMAIN wrote[d], c \in cols :
               answer[2][id][c] = IF SqliteNaN(d, id, c) THEN None ELSE Field(d, id, c)

\* What can make a field unreadable: it is NULL without being an Option, because nobody
\* has set it, because the column was added later or because it is a NaN on SQLite; a u64
\* has its highest bit set; the name of the column has capitals on PostgreSQL.
Readable(d, id, c) ==
  /\ Field(d, id, c) = None \/ SqliteNaN(d, id, c) => shape[c].option
  /\ ~Wraps(d, id, c)
  /\ d = "postgres" => ~shape[c].mixed

\* Nothing else makes a typed select fail, and a projection fails for its own columns
\* only: the release before an ALTER TABLE, or a projection without the new column, goes
\* on reading (all, decode_row, decode).
ReadsSucceed ==
  \A d \in Databases, cols \in Projections :
    (\A id \in DOMAIN store[d], c \in cols : Readable(d, id, c)) => All(d, cols) # Error

\* Two databases that took the same writes answer every typed select alike, with the same
\* rows or with an error, whatever they hold them as; NaN and capitals aside
\* (the two execute_query and the two sql_type).
BackendsAgree ==
  \A cols \in Projections :
    /\ wrote["sqlite"] = wrote["postgres"]
    /\ \A c \in cols : ~shape[c].mixed
    /\ \A id \in DOMAIN wrote["sqlite"], c \in cols : ~SqliteNaN("sqlite", id, c)
    => All("sqlite", cols) = All("postgres", cols)

\* order_by_asc(c).one() returns a row whose number is the least, on both databases,
\* when every row has a number and none is a u64 that wraps (Select::order_by, one).
FirstIsLeast ==
  \A d \in Databases, c \in columns :
    /\ shape[c].base \in {"i64", "i32", "u32", "u64"}
    /\ \A id \in DOMAIN wrote[d] : Field(d, id, c) # None /\ ~Wraps(d, id, c)
    => \A id \in One(d, c), other \in DOMAIN wrote[d] :
         Field(d, id, c)[2] <= Field(d, other, c)[2]
=============================================================================
