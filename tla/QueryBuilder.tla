---------------------------- MODULE QueryBuilder ----------------------------
(***************************************************************************)
(* The typed builders: an author calls the methods of one builder, then    *)
(* executes it.  The builder turns into a text with placeholders and a     *)
(* list of parameters; the database reads them back.  What it reads must   *)
(* be what the author asked for.                                           *)
(*                                                                         *)
(* A text is a sequence of tokens; the names of the table and of the       *)
(* selected columns are left out of it, and the parentheses around the     *)
(* lists of an INSERT and the arguments of the distance.                   *)
(***************************************************************************)
EXTENDS Integers, Sequences, FiniteSets, SequencesExt

CONSTANTS
  Dialects,    \* the databases: "sqlite", "postgres"
  Kinds,       \* the builders: "select", "select_cols", "search",
               \* "insert", "update", "delete"
  Atoms,       \* the comparisons and null tests an author writes, and True
  MaxDepth,    \* bound: how deep AND, OR and NOT are nested
  Predicates,  \* the arguments of where_()
  Columns,     \* the columns an author compares, orders by or assigns to
  Values,      \* the values compared with or assigned
  Limits,      \* the arguments of limit()
  Offsets,     \* the arguments of offset()
  Half,        \* the first number an integer of the database has no room for, 2^63 in the code
  Rows,        \* how many rows there are; fewer than an integer can count
  MaxCalls     \* bound: how many methods an author calls

ASSUME KindsAssumption ==
  /\ Dialects \subseteq {"sqlite", "postgres"}
  /\ Kinds \subseteq {"select", "select_cols", "search", "insert", "update", "delete"}
ASSUME RangesAssumption ==
  /\ {Half, Rows, MaxDepth} \subseteq Nat
  /\ Rows < Half
  /\ Limits \subseteq 0 .. 2 * Half - 1
  /\ Offsets \subseteq 0 .. Half - 1

VARIABLES
  dialect,     \* the database of the pool
  builder,     \* the builder
  calls,       \* how many methods were called
  sent,        \* the statement sent: <<>> or <<[text, params, numbers]>>
  result       \* what execute, all or vector_search returned: "none", "ok" or "err"

vars == <<dialect, builder, calls, sent, result>>

-----------------------------------------------------------------------------
(* Predicates *)

Compare(c, op, v) == [kind |-> "compare", column |-> c, op |-> op, value |-> v]
IsNull(c) == [kind |-> "is_null", column |-> c]
IsNotNull(c) == [kind |-> "is_not_null", column |-> c]
And(a, b) == [kind |-> "and", left |-> a, right |-> b]
Or(a, b) == [kind |-> "or", left |-> a, right |-> b]
Not(a) == [kind |-> "not", of |-> a]
True == [kind |-> "true"]
NoExpr == [kind |-> "none"]

Operators == {"=", "!=", ">", ">=", "<", "<="}

\* The predicates built from atoms with AND, OR and NOT, down to a depth.
Expr(atoms, depth) ==
  LET built[d \in 0 .. depth] ==
        IF d = 0 THEN atoms
        ELSE LET smaller == built[d - 1]
             IN  smaller \cup {Not(a) : a \in smaller}
                         \cup {And(a, b) : a, b \in smaller}
                         \cup {Or(a, b) : a, b \in smaller}
  IN  built[depth]

Expressions == Expr(Atoms, MaxDepth)

Keywords == {"SELECT", "INSERT", "VALUES", "UPDATE", "SET", "DELETE", "WHERE", "ORDER BY", "LIMIT", "OFFSET"}
Reserved == Keywords \cup {"(", ")", "?", "AND", "OR", "NOT", "IS NULL", "IS NOT NULL", "1"}

\* No column is called like a word of SQL: the table could not have been created, as the
\* builders of the DDL do not quote a name either.
ASSUME NamesAssumption == Columns \cap Reserved = {}
ASSUME PredicatesAssumption ==
  /\ Atoms \subseteq {Compare(c, op, v) : c \in Columns, op \in Operators, v \in Values}
                     \cup {IsNull(c) : c \in Columns} \cup {IsNotNull(c) : c \in Columns} \cup {True}
  /\ Predicates \subseteq Expressions

-----------------------------------------------------------------------------
(* The text *)

\* A fragment of a statement: its tokens, and the parameters of its placeholders.
Words(tokens) == [text |-> tokens, params |-> <<>>]
Bind(tokens, value) == [text |-> tokens, params |-> <<value>>]
Put(f, g) == [text |-> f.text \o g.text, params |-> f.params \o g.params]
Nothing == Words(<<>>)

Grouped(f) == Put(Put(Words(<<"(">>), f), Words(<<")">>))
Joined(f, word, g) == Put(Put(f, Words(<<word>>)), g)

\* Slip: AND and OR are not put into parentheses.
PiecesBare(sql, e) ==
  CASE e.kind = "compare"     -> Bind(<<"(", e.column, e.op, "?", ")">>, e.value)
    [] e.kind = "is_null"     -> Words(<<"(", e.column, "IS NULL", ")">>)
    [] e.kind = "is_not_null" -> Words(<<"(", e.column, "IS NOT NULL", ")">>)
    [] e.kind = "and"         -> Joined(sql[e.left], "AND", sql[e.right])
    [] e.kind = "or"          -> Joined(sql[e.left], "OR", sql[e.right])
    [] e.kind = "not"         -> Put(Words(<<"NOT">>), Grouped(sql[e.of]))
    [] e.kind = "true"        -> Words(<<"1">>)

\* What Expr::to_sql adds to the text and the parameters, calling itself for the operands.
Pieces(sql, e) ==
  CASE e.kind = "compare"     -> Bind(<<"(", e.column, e.op, "?", ")">>, e.value)
    [] e.kind = "is_null"     -> Words(<<"(", e.column, "IS NULL", ")">>)
    [] e.kind = "is_not_null" -> Words(<<"(", e.column, "IS NOT NULL", ")">>)
    [] e.kind = "and"         -> Grouped(Joined(sql[e.left], "AND", sql[e.right]))
    [] e.kind = "or"          -> Grouped(Joined(sql[e.left], "OR", sql[e.right]))
    [] e.kind = "not"         -> Put(Words(<<"NOT">>), Grouped(sql[e.of]))
    [] e.kind = "true"        -> Words(<<"1">>)

ExprSql(e) == LET sql[x \in Expressions] == Pieces(sql, x) IN sql[e]

Where(b) == IF b.where = NoExpr THEN Nothing ELSE Put(Words(<<"WHERE">>), ExprSql(b.where))

\* u64 as i64
AsI64(n) == IF n < Half THEN n ELSE n - 2 * Half

\* Slip: the sign bit is cut off.
LimitMasked(b) == IF b.limit = <<>> THEN Nothing ELSE Bind(<<"LIMIT", "?">>, b.limit[1] % Half)

Limit(b) == IF b.limit = <<>> THEN Nothing ELSE Bind(<<"LIMIT", "?">>, AsI64(b.limit[1]))
Offset(b) == IF b.offset = <<>> THEN Nothing ELSE Bind(<<"OFFSET", "?">>, AsI64(b.offset[1]))
OrderBy(b) == IF b.order = <<>> THEN Nothing ELSE Words(<<"ORDER BY">> \o b.order)

\* Slip: LIMIT is added last.
SelectSqlOffsetFirstOf(b) == Put(Put(Put(Put(Words(<<"SELECT">>), Where(b)), OrderBy(b)), Offset(b)), Limit(b))

SelectSql(b) == Put(Put(Put(Put(Words(<<"SELECT">>), Where(b)), OrderBy(b)), Limit(b)), Offset(b))

\* A projection has a copy of the code of a select.
SelectColsSql(b) == Put(Put(Put(Put(Words(<<"SELECT">>), Where(b)), OrderBy(b)), Limit(b)), Offset(b))

\* "vector" is the vector column, the query vector a value of its own.
QueryVector == -1

SearchSql(b) ==
  LET embedded == Words(<<"vector", "IS NOT NULL">>)
      filter == IF b.where = NoExpr THEN Put(Words(<<"WHERE">>), embedded) ELSE Joined(Where(b), "AND", embedded)
      ordered == Words(<<"ORDER BY", "distance", "ASC">>)
  IN  Put(Put(Put(Bind(<<"SELECT", "distance", "vector", "?">>, QueryVector), filter), ordered), Limit(b))

\* Items of some length, with a comma between them.
Commas(items) ==
  LET period == Len(items[1]) + 1
  IN  [n \in 1 .. Len(items) * period - 1 |->
         IF n % period = 0 THEN "," ELSE items[(n - 1) \div period + 1][n % period]]

ValuesOf(b) == [n \in DOMAIN b.set |-> b.set[n][2]]

InsertSql(b) ==
  [text |-> <<"INSERT">> \o Commas([n \in DOMAIN b.set |-> <<b.set[n][1]>>]) \o
            <<"VALUES">> \o Commas([n \in DOMAIN b.set |-> <<"?">>]),
   params |-> ValuesOf(b)]

Assignments(b) ==
  [text |-> <<"SET">> \o Commas([n \in DOMAIN b.set |-> <<b.set[n][1], "=", "?">>]), params |-> ValuesOf(b)]

\* Slip: the values of the WHERE clause are bound first.
UpdateSqlSwapped(b) ==
  [Put(Put(Words(<<"UPDATE">>), Assignments(b)), Where(b)) EXCEPT !.params = Where(b).params \o ValuesOf(b)]

UpdateSql(b) == Put(Put(Words(<<"UPDATE">>), Assignments(b)), Where(b))

DeleteSql(b) == Put(Words(<<"DELETE">>), Where(b))

\* How often a word is among the first tokens.
Count(text, word, n) == Cardinality({m \in 1 .. n : text[m] = word})

\* postgres_placeholders; SQLite numbers its placeholders itself, in the same way.
Numbered(f) ==
  [text |-> f.text, params |-> f.params, numbers |-> [n \in DOMAIN f.text |-> Count(f.text, "?", n)]]

-----------------------------------------------------------------------------
(* The author *)

New(kind) ==
  [kind |-> kind, where |-> NoExpr, all |-> FALSE, set |-> <<>>,
   order |-> <<>>, limit |-> <<>>, offset |-> <<>>]

Init ==
  /\ dialect \in Dialects
  /\ builder \in {New(kind) : kind \in Kinds}
  /\ calls = 0
  /\ sent = <<>>
  /\ result = "none"

\* The author calls a method the builders of the given kinds have.
Call(kinds, b) ==
  /\ result = "none"
  /\ calls < MaxCalls
  /\ builder.kind \in kinds
  /\ builder' = b
  /\ calls' = calls + 1
  /\ UNCHANGED <<dialect, sent, result>>

\* A second predicate replaces the first.
CallWhere(e) == Call({"select", "select_cols", "search", "update", "delete"}, [builder EXCEPT !.where = e])
CallAll == Call({"update", "delete"}, [builder EXCEPT !.all = TRUE])
CallSet(c, v) == Call({"insert", "update"}, [builder EXCEPT !.set = Append(@, <<c, v>>)])
CallLimit(n) == Call({"select", "select_cols", "search"}, [builder EXCEPT !.limit = <<n>>])
CallOffset(n) == Call({"select", "select_cols"}, [builder EXCEPT !.offset = <<n>>])
CallOrderBy(c, direction) == Call({"select", "select_cols"}, [builder EXCEPT !.order = <<c, direction>>])

Sql(b) ==
  CASE b.kind = "select" -> SelectSql(b)
    [] b.kind = "select_cols" -> SelectColsSql(b)
    [] b.kind = "search" -> SearchSql(b)
    [] b.kind = "insert" -> InsertSql(b)
    [] b.kind = "update" -> UpdateSql(b)
    [] b.kind = "delete" -> DeleteSql(b)

\* Slip: an update without a predicate is confirmed by assigning something.
UnconfirmedIfEmpty(b) == b.kind \in {"update", "delete"} /\ b.where = NoExpr /\ ~b.all /\ b.set = <<>>

\* UPDATE and DELETE want a predicate or all().
Unconfirmed(b) == b.kind \in {"update", "delete"} /\ b.where = NoExpr /\ ~b.all

\* An INSERT and an UPDATE of nothing.
Empty(b) == b.kind \in {"insert", "update"} /\ b.set = <<>>

-----------------------------------------------------------------------------
(* The database *)

\* The value bound to the placeholder at a place in the text.
Value(s, n) == s.params[s.numbers[n]]

Depth(t, n) == Count(t, "(", n) - Count(t, ")", n)

\* The condition between two places, with the way to read the shorter ones in it: OR binds
\* weaker than AND, AND weaker than NOT, and both group to the left.
Reading(read, s, lo, hi) ==
  LET t == s.text
      Outside(word) == {n \in lo .. hi : t[n] = word /\ Depth(t, n) = Depth(t, lo - 1)}
      Left(word) == read[<<lo, Max(Outside(word)) - 1>>]
      Right(word) == read[<<Max(Outside(word)) + 1, hi>>]
  IN  IF lo > hi THEN NoExpr
      ELSE IF Outside("OR") # {} THEN Or(Left("OR"), Right("OR"))
      ELSE IF Outside("AND") # {} THEN And(Left("AND"), Right("AND"))
      ELSE IF t[lo] = "NOT" THEN Not(read[<<lo + 1, hi>>])
      ELSE IF t[lo] = "(" THEN read[<<lo + 1, hi - 1>>]
      ELSE IF lo = hi THEN True
      ELSE IF t[lo + 1] = "IS NULL" THEN IsNull(t[lo])
      ELSE IF t[lo + 1] = "IS NOT NULL" THEN IsNotNull(t[lo])
      ELSE Compare(t[lo], t[lo + 1], Value(s, lo + 2))

Parsed(s, first, last) ==
  LET read[span \in (1 .. Len(s.text) + 1) \X (0 .. Len(s.text))] == Reading(read, s, span[1], span[2])
  IN  read[<<first, last>>]

Has(t, word) == word \in Range(t)
Place(t, word) == SelectInSeq(t, LAMBDA token : token = word)

\* Where the tokens between a keyword and the next one begin and end.
FirstOf(t, word) == Place(t, word) + 1
LastOf(t, word) == Min({n \in FirstOf(t, word) .. Len(t) : t[n] \in Keywords} \cup {Len(t) + 1}) - 1

Condition(s) ==
  IF Has(s.text, "WHERE") THEN Parsed(s, FirstOf(s.text, "WHERE"), LastOf(s.text, "WHERE")) ELSE NoExpr

Number(s, word) == IF Has(s.text, word) THEN <<Value(s, FirstOf(s.text, word))>> ELSE <<>>

\* The columns and values an INSERT or an UPDATE assigns: every second token of two
\* clauses, or every fourth and the second one after it.
Assigned(s) ==
  LET t == s.text
      Items(word, period) == 1 .. (LastOf(t, word) - FirstOf(t, word) + 2) \div period
      Item(word, period, n) == FirstOf(t, word) + (n - 1) * period
  IN  IF Has(t, "INSERT")
        THEN [n \in Items("INSERT", 2) |-> <<t[Item("INSERT", 2, n)], Value(s, Item("VALUES", 2, n))>>]
        ELSE [n \in Items("SET", 4) |-> <<t[Item("SET", 4, n)], Value(s, Item("SET", 4, n) + 2)>>]

\* The statement assigns, and its pairs of a column and a value name one column twice.
Assigning(t) == Has(t, "INSERT") \/ Has(t, "SET")
NamedTwice(pairs) == \E m, n \in DOMAIN pairs : m # n /\ pairs[m][1] = pairs[n][1]

\* SQLite has no OFFSET but one that follows a LIMIT; PostgreSQL has no negative LIMIT, its
\* conditions are not numbers, and it assigns a column once.
Accepted(s) ==
  IF dialect = "sqlite" THEN Has(s.text, "OFFSET") => Place(s.text, "LIMIT") \in 1 .. Place(s.text, "OFFSET")
  ELSE /\ ~Has(s.text, "1")
       /\ \A n \in Range(Number(s, "LIMIT")) : n >= 0
       /\ Assigning(s.text) => ~NamedTwice(Assigned(s))

\* The rows a query leaves, by their position: a negative LIMIT of SQLite is none.
Window(limit, offset) ==
  {n \in 1 .. Rows : /\ \A m \in Range(offset) : n > m
                     /\ \A k \in Range(limit) :
                          k >= 0 => n <= k + (IF offset = <<>> THEN 0 ELSE offset[1])}

-----------------------------------------------------------------------------
Execute ==
  /\ result = "none"
  /\ ~Empty(builder)
  /\ ~Unconfirmed(builder)
  /\ sent' = <<Numbered(Sql(builder))>>
  /\ result' = IF Accepted(sent'[1]) THEN "ok" ELSE "err"
  /\ UNCHANGED <<dialect, builder, calls>>

\* Nothing is sent; an empty one is a success before it is unconfirmed.
ExecuteNothing ==
  /\ result = "none"
  /\ Empty(builder) \/ Unconfirmed(builder)
  /\ result' = IF Empty(builder) THEN "ok" ELSE "err"
  /\ UNCHANGED <<dialect, builder, calls, sent>>

Finished == result # "none" /\ UNCHANGED vars

Next ==
  \/ \E e \in Predicates : CallWhere(e)
  \/ CallAll
  \/ \E c \in Columns, v \in Values : CallSet(c, v)
  \/ \E n \in Limits : CallLimit(n)
  \/ \E n \in Offsets : CallOffset(n)
  \/ \E c \in Columns, direction \in {"ASC", "DESC"} : CallOrderBy(c, direction)
  \/ Execute
  \/ ExecuteNothing
  \/ Finished

Spec == Init /\ [][Next]_vars

-----------------------------------------------------------------------------
\* What the author asked for.
Asked(b) ==
  IF b.kind # "search" THEN b.where
  ELSE IF b.where = NoExpr THEN IsNotNull("vector")
  ELSE And(b.where, IsNotNull("vector"))

\* The database reads the predicate of the builder, with the values the author compares
\* with, whatever is bound before it (Expr::to_sql, append_where).
ConditionIsAsked ==
  \A s \in Range(sent) : Condition(s) = Asked(builder)

\* The text assigns what the author set, each column the value given with it, in the order of
\* the calls (Update::set, InsertBuilder).  A column set twice is in it twice: SQLite takes the
\* first of an INSERT and the last of an UPDATE, PostgreSQL neither.
AssignmentIsAsked ==
  \A s \in Range(sent) :
    builder.kind \in {"insert", "update"} => Assigned(s) = builder.set

\* The rows returned are those limit() and offset() ask for, and a limit too large for
\* the database is no limit (Select::to_sql).
WindowIsAsked ==
  \A s \in Range(sent) :
    result = "ok" => Window(Number(s, "LIMIT"), Number(s, "OFFSET"))
                       = Window(builder.limit, builder.offset)

\* No UPDATE and no DELETE without a WHERE reaches the database unless the author called
\* all() (Update::to_sql, Delete::to_sql).
NothingUnfiltered ==
  \A s \in Range(sent) :
    builder.kind \in {"update", "delete"} /\ Condition(s) = NoExpr => builder.all

\* A predicate with the expression that is always true.
Plain == Expr(Atoms \ {True}, MaxDepth)
HasTrue(e) == e \in Expressions \ Plain

\* The database accepts the form of what the builders build, with four exceptions: an offset
\* without a limit on SQLite; on PostgreSQL a limit that turns negative, the predicate that is
\* always true, and a column set twice, as a setter adds a pair and replaces none (the to_sql
\* functions, InsertBuilder and build_vector_search, one text for two databases).  The types
\* of the values and the sizes a database bounds are not in the text.
AcceptedOrKnown ==
  result = "err" /\ sent # <<>> =>
    \/ dialect = "sqlite" /\ builder.offset # <<>> /\ builder.limit = <<>>
    \/ dialect = "postgres" /\ \E n \in Range(builder.limit) : n >= Half
    \/ dialect = "postgres" /\ HasTrue(builder.where)
    \/ dialect = "postgres" /\ NamedTwice(builder.set)
=============================================================================
