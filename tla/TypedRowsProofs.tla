--------------------------- MODULE TypedRowsProofs ---------------------------
(***************************************************************************)
(* Theorems about TypedRows, for any types of the columns, any keys and    *)
(* dimension, any values of the types and widths of the integers, and any  *)
(* number of rows and calls.                                               *)
(***************************************************************************)
EXTENDS TypedRows, TLAPS

-----------------------------------------------------------------------------
(* Conversions *)

\* The bytes of a vector, read in pairs, are its floats: float_vector_bytes loses nothing,
\* whatever the length of the vector.
LEMMA FloatBytes ==
  ASSUME NEW x \in Seq([1 .. 2 -> Byte])
  PROVE  /\ Len(float_vector_bytes(x)) = 2 * Len(x)
         /\ Floats(float_vector_bytes(x)) = x
<1> DEFINE bytes == float_vector_bytes(x)
<1>1. /\ Len(bytes) = 2 * Len(x)
      /\ \A i \in 1 .. Len(x) : bytes[2 * i - 1] = x[i][2] /\ bytes[2 * i] = x[i][1]
  BY DEF float_vector_bytes, LittleEndian
<1> HIDE DEF bytes
<1>2. Len(bytes) \div 2 = Len(x)
  BY <1>1
<1>3. \A i \in 1 .. Len(x) : FromBytes(<<bytes[2 * i - 1], bytes[2 * i]>>) = x[i]
  BY <1>1 DEF FromBytes
<1>4. Floats(bytes) = [i \in 1 .. Len(x) |-> x[i]]
  BY <1>2, <1>3 DEF Floats
<1> QED
  BY <1>1, <1>4 DEF bytes

\* What the setter, the bind and the column make of a field.
Holding(d, t, field) == IF field = Unset THEN Null ELSE Holds(d, IntoValue(t, field))

\* What there is to read in a field.
Lost(d, t, field) ==
  \/ field \in {Unset, None}
  \/ d = "sqlite" /\ t.base = "f64" /\ field = Some("NaN")

Expected(d, t, field) ==
  IF Lost(d, t, field) THEN (IF t.option THEN None ELSE Error)
  ELSE IF t.base = "u64" /\ field[2] >= Half THEN Error
  ELSE field

Readback(d, t, field) ==
  LET v == Holding(d, t, field)
  IN  v # Error =>
        /\ FromValue(t, v) = Expected(d, t, field)
        /\ v # Null => v[1] = Kind(d, t.base)

LEMMA SamplesAre ==
  /\ Samples("i64") \subseteq -Half .. Half - 1
  /\ Samples("u64") \subseteq 0 .. 2 * Half - 1
  /\ Samples("i32") \subseteq -Half32 .. Half32 - 1
  /\ Samples("u32") \subseteq 0 .. 2 * Half32 - 1
  /\ Samples("bool") \subseteq BOOLEAN
  /\ Samples("Uuid") \subseteq [1 .. UuidLen -> Byte]
  /\ Samples("FloatVec") \subseteq Seq([1 .. 2 -> Byte])
  /\ Samples("Int8Vec") \subseteq Seq(-Half8 .. Half8 - 1)
  /\ Half \in Nat /\ Half32 \in Nat /\ Half8 \in Nat
  /\ Half > 0 /\ Half32 > 0 /\ Half8 > 0 /\ 2 * Half32 <= Half /\ UuidLen \in Nat
BY SamplesAssumption, WidthsAssumption DEF Values, Bases

\* An i8 is a byte and back.
LEMMA Int8Back ==
  ASSUME NEW x \in -Half8 .. Half8 - 1
  PROVE  AsI8(AsU8(x)) = x
BY SamplesAre DEF AsI8, AsU8

LEMMA Int8VecBack ==
  ASSUME NEW x \in Seq(-Half8 .. Half8 - 1), NEW y, y = [i \in DOMAIN x |-> AsU8(x[i])]
  PROVE  [i \in DOMAIN y |-> AsI8(y[i])] = x
<1>1. ASSUME NEW S, NEW z \in Seq(S), NEW i \in DOMAIN z PROVE z[i] \in S
  OBVIOUS
<1>2. ASSUME NEW i \in DOMAIN x PROVE AsI8(AsU8(x[i])) = x[i]
  BY <1>1, Int8Back
<1>3. [i \in DOMAIN y |-> AsI8(y[i])] = [i \in DOMAIN x |-> x[i]]
  BY <1>2
<1> QED
  BY <1>3

LEMMA NullBack ==
  ASSUME NEW d \in Databases, NEW t \in Type, NEW field \in {None, Unset}
  PROVE  Readback(d, t, field) /\ Holding(d, t, field) = Null
<1>1. Holding(d, t, field) = Null
  BY DEF Holding, IntoValue, Holds, SqliteHolds, PostgresHolds, Null, Databases, Unset, None
<1>2. Expected(d, t, field) = IF t.option THEN None ELSE Error
  BY DEF Expected, Lost
<1>3. FromValue(t, Null) = IF t.option THEN None ELSE Error
  BY DEF FromValue
<1> QED
  BY <1>1, <1>2, <1>3 DEF Readback

\* A field that holds something, with the value that was set.
LEMMA SomeIs ==
  ASSUME NEW x
  PROVE  Some(x)[1] = "Some" /\ Some(x)[2] = x /\ Some(x) # None /\ Some(x) # Unset /\ Some(x) # Null
BY DEF Some, None, Unset, Null

LEMMA ValueIs ==
  ASSUME NEW kind \in {"Integer", "Real", "Text", "Uuid", "FloatVector", "Blob"}, NEW x
  PROVE  /\ <<kind, x>>[1] = kind /\ <<kind, x>>[2] = x
         /\ <<kind, x>> # Null /\ <<kind, x>> # Error
         /\ \A k \in {"Integer", "Real", "Text", "Uuid", "FloatVector", "Blob"} : \A y :
              <<kind, x>> = <<k, y>> => kind = k /\ x = y
BY DEF Null, Error

LEMMA IntegerBack ==
  ASSUME NEW d \in Databases, NEW t \in Type, t.base \in {"i64", "i32", "u32", "u64"},
         NEW x \in Samples(t.base)
  PROVE  /\ Readback(d, t, Some(x))
         /\ x \in Int
         /\ Holding(d, t, Some(x)) = <<"Integer", AsI64(t.base, x)>>
<1> DEFINE v == <<"Integer", AsI64(t.base, x)>>
<1>1. Holding(d, t, Some(x)) = v
  <2>1. IntoValue(t, Some(x)) = v
    BY SomeIs DEF IntoValue
  <2>2. Holds(d, v) = v
    BY ValueIs DEF Holds, SqliteHolds, PostgresHolds
  <2> QED
    BY <2>1, <2>2, SomeIs DEF Holding
<1>2. x \in Int /\ (t.base = "u64" => x >= 0)
  BY SamplesAre
<1>3. FromValue(t, v) = FromInteger(t.base, AsI64(t.base, x))
  BY ValueIs DEF FromValue
<1>4. FromInteger(t.base, AsI64(t.base, x)) = Expected(d, t, Some(x))
  BY <1>2, SamplesAre, SomeIs DEF FromInteger, AsI64, Expected, Lost, Some, Error
<1>5. Kind(d, t.base) = "Integer"
  BY DEF Kind
<1> QED
  BY <1>1, <1>2, <1>3, <1>4, <1>5, ValueIs DEF Readback

\* The types both databases hold alike.
LEMMA PlainBack ==
  ASSUME NEW d \in Databases, NEW t \in Type, t.base \in {"bool", "String", "Int8Vec", "BitVec"},
         NEW x \in Samples(t.base)
  PROVE  Readback(d, t, Some(x))
<1> DEFINE kind == IF t.base = "bool" THEN "Integer" ELSE IF t.base = "String" THEN "Text" ELSE "Blob"
           y == IF t.base = "bool" THEN (IF x THEN 1 ELSE 0)
                ELSE IF t.base = "Int8Vec" THEN [i \in DOMAIN x |-> AsU8(x[i])]
                ELSE x
           v == <<kind, y>>
<1>1. IntoValue(t, Some(x)) = v
  BY SomeIs DEF IntoValue
<1>2. /\ v[1] = kind /\ v[2] = y /\ v # Null /\ v # <<"Real", "NaN">>
      /\ kind \in {"Integer", "Text", "Blob"}
  BY ValueIs
<1>3. FromValue(t, v) = Some(x)
  <2>1. CASE t.base = "bool"
    <3>1. x \in BOOLEAN
      BY <2>1, SamplesAre
    <3>2. FromValue(t, v) = FromInteger("bool", y)
      BY <1>2, <2>1 DEF FromValue
    <3>3. FromInteger("bool", y) = Some(y # 0)
      BY <2>1 DEF FromInteger
    <3>4. (y # 0) = x
      BY <2>1, <3>1
    <3> HIDE DEF v, y
    <3> QED
      BY <3>2, <3>3, <3>4
  <2>2. CASE t.base = "String"
    BY <1>2, <2>2 DEF FromValue
  <2>3. CASE t.base = "BitVec"
    BY <1>2, <2>3 DEF FromValue
  <2>4. CASE t.base = "Int8Vec"
    <3>1. x \in Seq(-Half8 .. Half8 - 1)
      BY <2>4, SamplesAre
    <3>2. FromValue(t, v) = Some([i \in DOMAIN y |-> AsI8(y[i])])
      BY <1>2, <2>4 DEF FromValue
    <3>3. y = [i \in DOMAIN x |-> AsU8(x[i])]
      BY <2>4
    <3> HIDE DEF v, y
    <3> QED
      BY <3>1, <3>2, <3>3, Int8VecBack
  <2> QED
    BY <2>1, <2>2, <2>3, <2>4
<1> HIDE DEF v, kind
<1>4. Holds(d, v) = v
  BY <1>2 DEF Holds, SqliteHolds, PostgresHolds
<1>5. Holding(d, t, Some(x)) = v
  BY <1>1, <1>4, SomeIs DEF Holding
<1>6. Expected(d, t, Some(x)) = Some(x)
  BY SomeIs DEF Expected, Lost
<1>7. Kind(d, t.base) = kind
  BY DEF Kind, kind
<1> QED
  BY <1>2, <1>3, <1>5, <1>6, <1>7 DEF Readback

\* SQLite has no NaN.
LEMMA RealBack ==
  ASSUME NEW d \in Databases, NEW t \in Type, t.base = "f64", NEW x \in Samples("f64")
  PROVE  Readback(d, t, Some(x))
<1> DEFINE v == <<"Real", x>>
<1>1. IntoValue(t, Some(x)) = v
  BY SomeIs DEF IntoValue
<1>2. v[1] = "Real" /\ v[2] = x /\ v # Null /\ (v = <<"Real", "NaN">> <=> x = "NaN")
  BY ValueIs
<1>3. FromValue(t, v) = Some(x) /\ FromValue(t, Null) = IF t.option THEN None ELSE Error
  BY <1>2 DEF FromValue
<1>4. x = "NaN" <=> Some(x) = Some("NaN")
  BY DEF Some
<1> HIDE DEF v
<1>5. Holds(d, v) = IF d = "sqlite" /\ x = "NaN" THEN Null ELSE v
  BY <1>2 DEF Holds, SqliteHolds, PostgresHolds
<1>6. Holding(d, t, Some(x)) = IF d = "sqlite" /\ x = "NaN" THEN Null ELSE v
  BY <1>1, <1>5, SomeIs DEF Holding
<1>7. Expected(d, t, Some(x)) = IF d = "sqlite" /\ x = "NaN" THEN (IF t.option THEN None ELSE Error)
                                ELSE Some(x)
  BY <1>4, SomeIs DEF Expected, Lost
<1>8. Kind(d, t.base) = "Real"
  BY DEF Kind
<1> QED
  BY <1>2, <1>3, <1>6, <1>7, <1>8 DEF Readback

\* A Uuid is a Blob of its bytes in SQLite, and a Uuid in PostgreSQL.
LEMMA UuidBack ==
  ASSUME NEW d \in Databases, NEW t \in Type, t.base = "Uuid", NEW x \in Samples("Uuid")
  PROVE  Readback(d, t, Some(x))
<1> DEFINE v == <<IF d = "sqlite" THEN "Blob" ELSE "Uuid", x>>
<1>1. IntoValue(t, Some(x)) = <<"Uuid", x>>
  BY SomeIs DEF IntoValue
<1>2. Holds(d, <<"Uuid", x>>) = v
  BY ValueIs DEF Holds, SqliteHolds, PostgresHolds
<1>3. Len(x) = UuidLen
  <2>1. x \in [1 .. UuidLen -> Byte] /\ UuidLen \in Nat
    BY SamplesAre
  <2> QED
    BY <2>1
<1>4. v[1] = (IF d = "sqlite" THEN "Blob" ELSE "Uuid") /\ v[2] = x /\ v # Null
  BY ValueIs
<1> HIDE DEF v
<1>5. FromValue(t, v) = Some(x)
  BY <1>3, <1>4 DEF FromValue, FromUuid
<1>6. Expected(d, t, Some(x)) = Some(x)
  BY SomeIs DEF Expected, Lost
<1>7. Kind(d, t.base) = IF d = "sqlite" THEN "Blob" ELSE "Uuid"
  BY DEF Kind, Databases
<1> QED
  BY <1>1, <1>2, <1>4, <1>5, <1>6, <1>7, SomeIs DEF Readback, Holding

\* A vector is a Blob of its bytes in SQLite, and a vector in PostgreSQL.
LEMMA FloatVecBack ==
  ASSUME NEW d \in Databases, NEW t \in Type, t.base = "FloatVec", NEW x \in Samples("FloatVec")
  PROVE  Readback(d, t, Some(x))
<1> DEFINE bytes == float_vector_bytes(x)
           v == <<IF d = "sqlite" THEN "Blob" ELSE "FloatVector", IF d = "sqlite" THEN bytes ELSE x>>
<1>1. IntoValue(t, Some(x)) = <<"FloatVector", x>>
  BY SomeIs DEF IntoValue
<1>2. Holds(d, <<"FloatVector", x>>) \in {v, Error}
  BY ValueIs DEF Holds, SqliteHolds, PostgresHolds
<1>3. x \in Seq([1 .. 2 -> Byte])
  BY SamplesAre
<1>4. Len(bytes) = 2 * Len(x) /\ Floats(bytes) = x
  BY <1>3, FloatBytes
<1>5. Len(bytes) % 2 = 0
  BY <1>3, <1>4
<1> HIDE DEF bytes
<1>6. /\ v[1] = (IF d = "sqlite" THEN "Blob" ELSE "FloatVector")
      /\ v[2] = (IF d = "sqlite" THEN bytes ELSE x)
      /\ v # Null
  BY ValueIs
<1> HIDE DEF v
<1>7. FromValue(t, v) = FromFloatVec(v)
  BY <1>6 DEF FromValue
<1>8. FromFloatVec(v) = Some(x)
  <2>1. CASE d = "sqlite"
    <3>1. v[1] = "Blob" /\ v[2] = bytes
      BY <1>6, <2>1
    <3> QED
      BY <1>4, <1>5, <3>1 DEF FromFloatVec
  <2>2. CASE d # "sqlite"
    <3>1. v[1] = "FloatVector" /\ v[2] = x
      BY <1>6, <2>2
    <3> QED
      BY <3>1 DEF FromFloatVec
  <2> QED
    BY <2>1, <2>2
<1>9. Expected(d, t, Some(x)) = Some(x)
  BY SomeIs DEF Expected, Lost
<1>10. Kind(d, t.base) = IF d = "sqlite" THEN "Blob" ELSE "FloatVector"
  BY DEF Kind, Databases
<1> QED
  BY <1>1, <1>2, <1>6, <1>7, <1>8, <1>9, <1>10, SomeIs DEF Readback, Holding

\* What a field of any type reads back as.
LEMMA EveryBack ==
  ASSUME NEW d \in Databases, NEW t \in Type, NEW field \in Inputs(t) \cup {Unset}
  PROVE  Readback(d, t, field)
<1>1. CASE field \in {None, Unset}
  BY <1>1, NullBack
<1>2. CASE field \notin {None, Unset}
  <2>1. PICK x \in Samples(t.base) : field = Some(x)
    BY <1>2 DEF Inputs
  <2>2. t.base \in Bases
    BY DEF Type
  <2> QED
    BY <2>1, <2>2, IntegerBack, PlainBack, RealBack, UuidBack, FloatVecBack DEF Bases
<1> QED
  BY <1>1, <1>2

-----------------------------------------------------------------------------
(* The rows of a database, said of one field, one row and one table *)

FieldOK(d, t, v, field) ==
  field \in Inputs(t) \cup {Unset} /\ v = Holding(d, t, field) /\ v # Error

RowOK(d, types, cols, row, given) ==
  /\ DOMAIN row = cols /\ DOMAIN given = cols
  /\ \A c \in cols : FieldOK(d, types[c], row[c], given[c])

RowsOK(types, cols, st, wr) ==
  \A d \in Databases :
    /\ DOMAIN st[d] \subseteq Ids
    /\ DOMAIN wr[d] = DOMAIN st[d]
    /\ \A id \in DOMAIN st[d] : RowOK(d, types, cols, st[d][id], wr[d][id])

ColumnsOK(types, cols, n) ==
  types \in Shapes /\ cols \in {{"a"}, {"a", "b"}} /\ n \in 0 .. MaxCalls

LEMMA TypesAre ==
  ASSUME NEW types \in Shapes, NEW c \in {"a", "b"}
  PROVE  types[c] \in Type
BY ShapesAssumption

LEMMA FieldKind ==
  ASSUME NEW d \in Databases, NEW t \in Type, NEW v, NEW field, FieldOK(d, t, v, field)
  PROVE  v # Null => v[1] = Kind(d, t.base)
BY EveryBack DEF FieldOK, Readback

LEMMA StoredIs ==
  ASSUME NEW d, NEW c, NEW field
  PROVE  Stored(d, c, field) = Holding(d, shape[c], field)
BY DEF Stored, Written, Holding

LEMMA RowsInvIs == RowsInv <=> ColumnsOK(shape, columns, calls) /\ RowsOK(shape, columns, store, wrote)
<1>1. ASSUME RowsInv PROVE ColumnsOK(shape, columns, calls) /\ RowsOK(shape, columns, store, wrote)
  BY <1>1, StoredIs DEF RowsInv, TypeOK, StoredIsWritten, ColumnsOK, RowsOK, RowOK, FieldOK
<1>2. ASSUME ColumnsOK(shape, columns, calls), RowsOK(shape, columns, store, wrote) PROVE RowsInv
  <2>1. \A c \in columns : shape[c] \in Type
    BY <1>2, TypesAre DEF ColumnsOK
  <2>2. TypeOK
    BY <1>2, <2>1, FieldKind DEF TypeOK, ColumnsOK, RowsOK, RowOK, FieldOK
  <2>3. StoredIsWritten
    BY <1>2, StoredIs DEF StoredIsWritten, RowsOK, RowOK, FieldOK
  <2> QED
    BY <2>2, <2>3 DEF RowsInv
<1> QED
  BY <1>1, <1>2

LEMMA RowsInvNext ==
  ASSUME ColumnsOK(shape', columns', calls'), RowsOK(shape', columns', store', wrote')
  PROVE  RowsInv'
<1>1. \A c \in columns' : shape'[c] \in Type
  BY TypesAre DEF ColumnsOK
<1>2. TypeOK'
  BY <1>1, FieldKind DEF TypeOK, ColumnsOK, RowsOK, RowOK, FieldOK
<1>3. ASSUME NEW d, NEW c, NEW field PROVE Stored(d, c, field)' = Holding(d, shape'[c], field)
  BY DEF Stored, Written, Holding
<1>4. StoredIsWritten'
  BY <1>3 DEF StoredIsWritten, RowsOK, RowOK, FieldOK
<1> QED
  BY <1>2, <1>4 DEF RowsInv

-----------------------------------------------------------------------------
(* Every step *)

\* A call changes the rows only.
LEMMA CallKeeps ==
  ASSUME ColumnsOK(shape, columns, calls), calls < MaxCalls, calls' = calls + 1,
         UNCHANGED <<shape, columns>>
  PROVE  ColumnsOK(shape', columns', calls')
BY CallsAssumption DEF ColumnsOK

LEMMA NullOK ==
  ASSUME NEW d \in Databases, NEW t \in Type
  PROVE  FieldOK(d, t, Null, Unset)
BY NullBack DEF FieldOK, Null, Error

LEMMA InsertKeeps ==
  ASSUME RowsInv, NEW id \in Ids, NEW a \in Settings("a"), NEW b \in Settings("b"),
         Insert(id, [c \in columns |-> IF c = "a" THEN a ELSE b])
  PROVE  RowsInv'
<1> DEFINE fields == [c \in columns |-> IF c = "a" THEN a ELSE b]
           row(d) == [c \in columns |-> Stored(d, c, fields[c])]
           accepted(d) == id \notin DOMAIN store[d] /\ \A c \in columns : Stored(d, c, fields[c]) # Error
           with(rows, new) == [i \in DOMAIN rows \cup {id} |-> IF i = id THEN new ELSE rows[i]]
<1>1. ColumnsOK(shape, columns, calls) /\ RowsOK(shape, columns, store, wrote)
  BY RowsInvIs
<1>2. /\ calls < MaxCalls /\ calls' = calls + 1 /\ UNCHANGED <<shape, columns>>
      /\ store' = [d \in Databases |-> IF accepted(d) THEN with(store[d], row(d)) ELSE store[d]]
      /\ wrote' = [d \in Databases |-> IF accepted(d) THEN with(wrote[d], fields) ELSE wrote[d]]
  BY DEF Insert
<1>3. ASSUME NEW c \in columns PROVE fields[c] \in Inputs(shape[c]) \cup {Unset}
  BY <1>1 DEF ColumnsOK, Settings
<1>4. ASSUME NEW d \in Databases, accepted(d) PROVE RowOK(d, shape, columns, row(d), fields)
  BY <1>3, <1>4, StoredIs DEF RowOK, FieldOK
<1>5. DOMAIN fields = columns
  OBVIOUS
<1> HIDE DEF fields, row, accepted
<1>6. ASSUME NEW d \in Databases
      PROVE  /\ DOMAIN store'[d] \subseteq Ids /\ DOMAIN wrote'[d] = DOMAIN store'[d]
             /\ \A i \in DOMAIN store'[d] : RowOK(d, shape, columns, store'[d][i], wrote'[d][i])
  <2>1. CASE accepted(d)
    <3>1. store'[d] = with(store[d], row(d)) /\ wrote'[d] = with(wrote[d], fields)
      BY <1>2, <2>1
    <3>2. /\ DOMAIN store[d] \subseteq Ids /\ DOMAIN wrote[d] = DOMAIN store[d]
          /\ \A i \in DOMAIN store[d] : RowOK(d, shape, columns, store[d][i], wrote[d][i])
      BY <1>1 DEF RowsOK
    <3>3. RowOK(d, shape, columns, row(d), fields)
      BY <1>4, <2>1
    <3> QED
      BY <3>1, <3>2, <3>3
  <2>2. CASE ~accepted(d)
    BY <1>1, <1>2, <2>2 DEF RowsOK
  <2> QED
    BY <2>1, <2>2
<1>7. RowsOK(shape', columns', store', wrote')
  BY <1>2, <1>6 DEF RowsOK
<1> QED
  BY <1>1, <1>2, <1>7, CallKeeps, RowsInvNext

LEMMA UpdateKeeps ==
  ASSUME RowsInv, NEW id \in Ids, NEW c \in columns, NEW input \in Inputs(shape[c]),
         Update(id, c, input)
  PROVE  RowsInv'
<1> DEFINE done(d) == id \in DOMAIN store[d] /\ Written(d, c, input) # Error
<1>1. ColumnsOK(shape, columns, calls) /\ RowsOK(shape, columns, store, wrote)
  BY RowsInvIs
<1>2. /\ calls < MaxCalls /\ calls' = calls + 1 /\ UNCHANGED <<shape, columns>>
      /\ store' = [d \in Databases |->
                     IF done(d) THEN [store[d] EXCEPT ![id][c] = Written(d, c, input)] ELSE store[d]]
      /\ wrote' = [d \in Databases |->
                     IF done(d) THEN [wrote[d] EXCEPT ![id][c] = input] ELSE wrote[d]]
  BY DEF Update
<1>3. input # Unset
  BY DEF Inputs, Some, None, Unset
<1>4. ASSUME NEW d \in Databases, done(d) PROVE FieldOK(d, shape[c], Written(d, c, input), input)
  BY <1>3, <1>4 DEF FieldOK, Holding, Written
<1>5. ASSUME NEW d \in Databases
      PROVE  /\ DOMAIN store'[d] \subseteq Ids /\ DOMAIN wrote'[d] = DOMAIN store'[d]
             /\ \A i \in DOMAIN store'[d] : RowOK(d, shape, columns, store'[d][i], wrote'[d][i])
  <2>1. /\ DOMAIN store[d] \subseteq Ids /\ DOMAIN wrote[d] = DOMAIN store[d]
        /\ \A i \in DOMAIN store[d] : RowOK(d, shape, columns, store[d][i], wrote[d][i])
    BY <1>1 DEF RowsOK
  <2>2. CASE done(d)
    <3> DEFINE v == Written(d, c, input)
    <3>1. store'[d] = [store[d] EXCEPT ![id][c] = v] /\ wrote'[d] = [wrote[d] EXCEPT ![id][c] = input]
      BY <1>2, <2>2
    <3>2. FieldOK(d, shape[c], v, input)
      BY <1>4, <2>2
    <3> HIDE DEF v
    <3>3. RowOK(d, shape, columns, [store[d][id] EXCEPT ![c] = v], [wrote[d][id] EXCEPT ![c] = input])
      BY <2>1, <2>2, <3>2 DEF RowOK
    <3>4. ASSUME NEW i \in DOMAIN store'[d] PROVE RowOK(d, shape, columns, store'[d][i], wrote'[d][i])
      <4>1. CASE i = id
        BY <2>1, <2>2, <3>1, <3>3, <4>1
      <4>2. CASE i # id
        BY <2>1, <3>1, <4>2
      <4> QED
        BY <4>1, <4>2
    <3> QED
      BY <2>1, <3>1, <3>4
  <2>3. CASE ~done(d)
    BY <1>2, <2>1, <2>3
  <2> QED
    BY <2>2, <2>3
<1>6. RowsOK(shape', columns', store', wrote')
  BY <1>2, <1>5 DEF RowsOK
<1> QED
  BY <1>1, <1>2, <1>6, CallKeeps, RowsInvNext

LEMMA AddColumnKeeps ==
  ASSUME RowsInv, AddColumn
  PROVE  RowsInv'
<1> DEFINE extended(rows, new) ==
             [i \in DOMAIN rows |-> [c \in columns' |-> IF c = "b" THEN new ELSE rows[i][c]]]
<1>1. ColumnsOK(shape, columns, calls) /\ RowsOK(shape, columns, store, wrote)
  BY RowsInvIs
<1>2. /\ columns = {"a"} /\ columns' = {"a", "b"} /\ shape' = shape /\ calls' = calls
      /\ store' = [d \in Databases |-> extended(store[d], Null)]
      /\ wrote' = [d \in Databases |-> extended(wrote[d], Unset)]
  BY <1>1 DEF AddColumn, ColumnsOK
<1>3. shape["b"] \in Type
  BY <1>1, TypesAre DEF ColumnsOK
<1>4. ASSUME NEW d \in Databases
      PROVE  /\ DOMAIN store'[d] \subseteq Ids /\ DOMAIN wrote'[d] = DOMAIN store'[d]
             /\ \A i \in DOMAIN store'[d] : RowOK(d, shape, columns', store'[d][i], wrote'[d][i])
  <2>1. /\ DOMAIN store[d] \subseteq Ids /\ DOMAIN wrote[d] = DOMAIN store[d]
        /\ \A i \in DOMAIN store[d] : RowOK(d, shape, columns, store[d][i], wrote[d][i])
    BY <1>1 DEF RowsOK
  <2>2. store'[d] = extended(store[d], Null) /\ wrote'[d] = extended(wrote[d], Unset)
    BY <1>2
  <2>3. FieldOK(d, shape["b"], Null, Unset)
    BY <1>3, NullOK
  <2>4. ASSUME NEW i \in DOMAIN store[d] PROVE RowOK(d, shape, columns', store'[d][i], wrote'[d][i])
    <3>1. /\ store'[d][i] = [c \in columns' |-> IF c = "b" THEN Null ELSE store[d][i][c]]
          /\ wrote'[d][i] = [c \in columns' |-> IF c = "b" THEN Unset ELSE wrote[d][i][c]]
      BY <2>1, <2>2
    <3>2. FieldOK(d, shape["a"], store[d][i]["a"], wrote[d][i]["a"])
      BY <1>2, <2>1 DEF RowOK
    <3> QED
      BY <1>2, <2>3, <3>1, <3>2 DEF RowOK
  <2> QED
    BY <2>1, <2>2, <2>4
<1>5. RowsOK(shape', columns', store', wrote')
  BY <1>2, <1>4 DEF RowsOK
<1>6. ColumnsOK(shape', columns', calls')
  BY <1>1, <1>2 DEF ColumnsOK
<1> QED
  BY <1>5, <1>6, RowsInvNext

\* Every column holds what the last setter of its field makes of it, a field that was never
\* set holds NULL, and what a database refuses changes nothing (insert, update, ALTER TABLE).
THEOREM RowsInvariant == Spec => []RowsInv
<1>1. ASSUME Init PROVE RowsInv
  BY <1>1, CallsAssumption DEF Init, RowsInv, TypeOK, StoredIsWritten
<1>2. ASSUME RowsInv, [Next]_vars PROVE RowsInv'
  <2>1. CASE Next
    BY <1>2, <2>1, InsertKeeps, UpdateKeeps, AddColumnKeeps DEF Next
  <2>2. CASE UNCHANGED vars
    BY <1>2, <2>2, RowsInvIs, RowsInvNext DEF vars
  <2> QED
    BY <1>2, <2>1, <2>2
<1> QED
  BY <1>1, <1>2, PTL DEF Spec

\* Every field holds NULL or what the DDL of its type says, on either database.
THEOREM RowTypes == Spec => []TypeOK
<1>1. RowsInv => TypeOK
  BY DEF RowsInv
<1> QED
  BY <1>1, RowsInvariant, PTL

-----------------------------------------------------------------------------
(* What a typed select returns *)

\* Of a row: the columns by their names, those PostgreSQL has folded excepted.
LEMMA DecodedIs ==
  ASSUME RowsInv, NEW d \in Databases, NEW id \in DOMAIN store[d], NEW c \in columns
  PROVE  /\ Decoded(d, id, c) = IF d = "postgres" /\ shape[c].mixed THEN Error
                                ELSE Expected(d, shape[c], wrote[d][id][c])
         /\ FieldOK(d, shape[c], store[d][id][c], wrote[d][id][c])
         /\ shape[c] \in Type
<1>1. ColumnsOK(shape, columns, calls) /\ RowsOK(shape, columns, store, wrote)
  BY RowsInvIs
<1>2. shape[c] \in Type
  BY <1>1, TypesAre DEF ColumnsOK
<1>3. FieldOK(d, shape[c], store[d][id][c], wrote[d][id][c])
  BY <1>1 DEF RowsOK, RowOK
<1>4. FromValue(shape[c], store[d][id][c]) = Expected(d, shape[c], wrote[d][id][c])
  BY <1>2, <1>3, EveryBack DEF FieldOK, Readback
<1> DEFINE name == <<"declared", c>>
<1>5. \A e \in columns : NameRead(d, e) = name <=> e = c /\ ~(d = "postgres" /\ shape[c].mixed)
  BY DEF NameRead
<1>6. CASE d = "postgres" /\ shape[c].mixed
  <2>1. name \notin {NameRead(d, e) : e \in columns}
    BY <1>5, <1>6
  <2> QED
    BY <1>2, <1>3, <1>6, <2>1 DEF Decoded, RowRead
<1>7. CASE ~(d = "postgres" /\ shape[c].mixed)
  <2>1. name \in {NameRead(d, e) : e \in columns}
    BY <1>5, <1>7
  <2>2. (CHOOSE e \in columns : NameRead(d, e) = name) = c
    BY <1>5, <1>7
  <2> HIDE DEF name
  <2>3. RowRead(d, id)[name] = store[d][id][c] /\ name \in DOMAIN RowRead(d, id)
    BY <2>1, <2>2 DEF RowRead
  <2>4. Decoded(d, id, c) = FromValue(shape[c], store[d][id][c])
    BY <2>3 DEF Decoded, name
  <2> QED
    BY <1>2, <1>3, <1>4, <1>7, <2>4
<1> QED
  BY <1>6, <1>7

\* Of all rows: each field, unless one does not decode.
LEMMA AllIs ==
  ASSUME NEW d, NEW cols
  PROVE  /\ All(d, cols) # Error <=> \A id \in DOMAIN store[d], c \in cols : Decoded(d, id, c) # Error
         /\ All(d, cols) # Error =>
              All(d, cols)[2] = [id \in DOMAIN store[d] |-> [c \in cols |-> Decoded(d, id, c)]]
BY DEF All, Error

\* What a field is expected to be, in the words of the properties.
LEMMA ExpectedIs ==
  ASSUME RowsInv, NEW d \in Databases, NEW id \in DOMAIN store[d], NEW c \in columns
  PROVE  /\ Expected(d, shape[c], wrote[d][id][c]) =
              IF Field(d, id, c) = None \/ SqliteNaN(d, id, c)
                THEN (IF shape[c].option THEN None ELSE Error)
              ELSE IF Wraps(d, id, c) THEN Error
              ELSE Field(d, id, c)
         /\ Field(d, id, c) # Error
<1>1. FieldOK(d, shape[c], store[d][id][c], wrote[d][id][c])
  BY DecodedIs
<1>2. wrote[d][id][c] \in Inputs(shape[c]) \cup {Unset}
  BY <1>1 DEF FieldOK
<1>3. Field(d, id, c) = None <=> wrote[d][id][c] \in {Unset, None}
  BY DEF Field
<1>4. Field(d, id, c) # Error
  BY <1>2 DEF Field, Inputs, Error, None, Unset, Some
<1>5. CASE wrote[d][id][c] \in {Unset, None}
  BY <1>3, <1>4, <1>5 DEF Expected, Lost
<1>6. CASE wrote[d][id][c] \notin {Unset, None}
  <2>1. Field(d, id, c) = wrote[d][id][c]
    BY <1>6 DEF Field
  <2> QED
    BY <1>3, <1>4, <1>6, <2>1 DEF Expected, Lost, SqliteNaN, IsNaN, Wraps
<1> QED
  BY <1>5, <1>6

LEMMA ColumnsAsked ==
  ASSUME NEW cols \in Projections
  PROVE  cols \subseteq columns
BY DEF Projections

LEMMA ReadIsWritten == RowsInv => DecodedIsWritten
<1> SUFFICES ASSUME RowsInv, NEW d \in Databases, NEW cols \in Projections, All(d, cols) # Error
             PROVE  /\ DOMAIN All(d, cols)[2] = DOMAIN wrote[d]
                    /\ \A id \in DOMAIN wrote[d], c \in cols :
                         All(d, cols)[2][id][c] =
                           IF SqliteNaN(d, id, c) THEN None ELSE Field(d, id, c)
  BY DEF DecodedIsWritten
<1>1. DOMAIN wrote[d] = DOMAIN store[d]
  BY RowsInvIs DEF RowsOK
<1>2. /\ All(d, cols)[2] = [id \in DOMAIN store[d] |-> [c \in cols |-> Decoded(d, id, c)]]
      /\ \A id \in DOMAIN store[d], c \in cols : Decoded(d, id, c) # Error
  BY AllIs
<1>3. ASSUME NEW id \in DOMAIN store[d], NEW c \in cols
      PROVE  Decoded(d, id, c) = IF SqliteNaN(d, id, c) THEN None ELSE Field(d, id, c)
  <2>1. c \in columns
    BY ColumnsAsked
  <2>2. Decoded(d, id, c) = Expected(d, shape[c], wrote[d][id][c])
    BY <1>2, <2>1, DecodedIs
  <2> QED
    BY <1>2, <2>1, <2>2, ExpectedIs
<1> QED
  BY <1>1, <1>2, <1>3

LEMMA ReadableDecodes == RowsInv => ReadsSucceed
<1> SUFFICES ASSUME RowsInv, NEW d \in Databases, NEW cols \in Projections,
                    \A id \in DOMAIN store[d], c \in cols : Readable(d, id, c)
             PROVE  All(d, cols) # Error
  BY DEF ReadsSucceed
<1>1. ASSUME NEW id \in DOMAIN store[d], NEW c \in cols PROVE Decoded(d, id, c) # Error
  <2>1. c \in columns /\ Readable(d, id, c)
    BY ColumnsAsked
  <2>2. Decoded(d, id, c) = Expected(d, shape[c], wrote[d][id][c])
    BY <2>1, DecodedIs DEF Readable
  <2>3. None # Error
    BY DEF None, Error
  <2> QED
    BY <2>1, <2>2, <2>3, ExpectedIs DEF Readable
<1> QED
  BY <1>1, AllIs

LEMMA SameAnswers == RowsInv => BackendsAgree
<1> DEFINE s == "sqlite"
           g == "postgres"
<1> SUFFICES ASSUME RowsInv, NEW cols \in Projections, wrote[s] = wrote[g],
                    \A c \in cols : ~shape[c].mixed,
                    \A id \in DOMAIN wrote[s], c \in cols : ~SqliteNaN(s, id, c)
             PROVE  All(s, cols) = All(g, cols)
  BY DEF BackendsAgree
<1>1. s \in Databases /\ g \in Databases
  BY DEF Databases
<1>2. DOMAIN store[s] = DOMAIN wrote[s] /\ DOMAIN store[g] = DOMAIN wrote[s]
  BY <1>1, RowsInvIs DEF RowsOK
<1>3. ASSUME NEW id \in DOMAIN wrote[s], NEW c \in cols PROVE Decoded(s, id, c) = Decoded(g, id, c)
  <2>1. c \in columns
    BY ColumnsAsked
  <2>2. /\ Decoded(s, id, c) = Expected(s, shape[c], wrote[s][id][c])
        /\ Decoded(g, id, c) = Expected(g, shape[c], wrote[s][id][c])
    BY <1>1, <1>2, <2>1, DecodedIs
  <2>3. /\ Field(s, id, c) = Field(g, id, c) /\ ~SqliteNaN(s, id, c) /\ ~SqliteNaN(g, id, c)
        /\ Wraps(s, id, c) <=> Wraps(g, id, c)
    BY DEF Field, SqliteNaN, Wraps
  <2> QED
    BY <1>1, <1>2, <2>1, <2>2, <2>3, ExpectedIs
<1> HIDE DEF s, g
<1>4. [id \in DOMAIN wrote[s] |-> [c \in cols |-> Decoded(s, id, c)]] =
        [id \in DOMAIN wrote[s] |-> [c \in cols |-> Decoded(g, id, c)]]
  BY <1>3
<1> QED
  BY <1>2, <1>3, <1>4 DEF All

LEMMA OneIsLeast == RowsInv => FirstIsLeast
<1> SUFFICES ASSUME RowsInv, NEW d \in Databases, NEW c \in columns,
                    shape[c].base \in {"i64", "i32", "u32", "u64"},
                    \A id \in DOMAIN wrote[d] : Field(d, id, c) # None /\ ~Wraps(d, id, c),
                    NEW id \in One(d, c), NEW other \in DOMAIN wrote[d]
             PROVE  Field(d, id, c)[2] <= Field(d, other, c)[2]
  BY DEF FirstIsLeast
<1>1. DOMAIN wrote[d] = DOMAIN store[d]
  BY RowsInvIs DEF RowsOK
<1>2. ASSUME NEW i \in DOMAIN store[d]
      PROVE  /\ store[d][i][c] # Null /\ store[d][i][c][2] = Field(d, i, c)[2]
             /\ Field(d, i, c)[2] \in Int
  <2>1. Field(d, i, c) = wrote[d][i][c] /\ wrote[d][i][c] \notin {None, Unset}
    BY <1>1 DEF Field
  <2>2. /\ FieldOK(d, shape[c], store[d][i][c], wrote[d][i][c])
        /\ shape[c] \in Type
    BY DecodedIs
  <2>3. PICK x \in Samples(shape[c].base) : wrote[d][i][c] = Some(x)
    BY <2>1, <2>2 DEF FieldOK, Inputs
  <2>4. x \in Int /\ store[d][i][c] = <<"Integer", AsI64(shape[c].base, x)>>
    BY <2>2, <2>3, IntegerBack DEF FieldOK
  <2>5. AsI64(shape[c].base, x) = x
    BY <1>1, <2>1, <2>3, SomeIs DEF AsI64, Wraps
  <2> QED
    BY <2>1, <2>3, <2>4, <2>5, SomeIs, ValueIs
<1>3. id \in DOMAIN store[d] /\ ~Before(d, store[d][other][c], store[d][id][c])
  BY <1>1 DEF One
<1> QED
  BY <1>1, <1>2, <1>3 DEF Before

-----------------------------------------------------------------------------
(* The properties *)

\* What a typed select or a projection returns is what was last written to the rows.
THEOREM ReadsAreWrites == Spec => []DecodedIsWritten
BY RowsInvariant, ReadIsWritten, PTL

\* A typed select fails for the reasons Readable names only, and for its own columns.
THEOREM ReadableIsRead == Spec => []ReadsSucceed
BY RowsInvariant, ReadableDecodes, PTL

\* Two databases that took the same writes answer alike, whatever they hold them as.
THEOREM BackendsAnswerAlike == Spec => []BackendsAgree
BY RowsInvariant, SameAnswers, PTL

\* order_by_asc(c).one() returns a row whose number is the least.
THEOREM FirstStaysLeast == Spec => []FirstIsLeast
BY RowsInvariant, OneIsLeast, PTL
=============================================================================
