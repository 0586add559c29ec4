----------------------------- MODULE SchemaFold -----------------------------
(***************************************************************************)
(* A schema block is used twice.  At compile time the macro replays its    *)
(* creates and alters on the tables it has parsed, and generates the typed *)
(* modules from what comes out; at run time apply_pending sends the        *)
(* database one statement for each of them.  Here an author declares one   *)
(* item after the other and both replays take it, up to the point where    *)
(* the database refuses a statement.                                       *)
(***************************************************************************)
EXTENDS Naturals, Sequences, FiniteSets, SequencesExt

CONSTANTS
  TableNames,   \* the identifiers of tables
  Idents,       \* the identifiers of columns
  Overrides,    \* the names `[column = "..."]` may give to a column
  MaxItems,     \* bound: how many items the author declares
  MaxActions    \* bound: how many actions an alter has

ASSUME BoundsAssumption == MaxItems \in Nat /\ MaxActions \in Nat

None == "none"  \* no [column = "..."]

VARIABLES
  typed,      \* the tables the macro has accumulated (final_tables)
  tables,     \* the tables of the database
  accepted,   \* whether the database took every statement so far
  items       \* how many items there are

vars == <<typed, tables, accepted, items>>

-----------------------------------------------------------------------------
ColumnNames == Idents \cup Overrides

\* A column of a parsed table, and the name it has in the database.
Column == [name : ColumnNames, column_name : Overrides \cup {None}]
DbName(c) == IF c.column_name = None THEN c.name ELSE c.column_name

Action ==
  [kind : {"add", "drop"}, name : ColumnNames] \cup
  [kind : {"rename"}, from : ColumnNames, to : ColumnNames] \cup
  [kind : {"rename_table"}, to : TableNames]

TypeOK ==
  /\ typed \in Seq([name : TableNames, columns : Seq(Column)])
  /\ tables \in SUBSET [name : TableNames, columns : SUBSET ColumnNames]
  /\ accepted \in BOOLEAN
  /\ items \in 0 .. MaxItems

Init ==
  /\ typed = <<>>
  /\ tables = {}
  /\ accepted = TRUE
  /\ items = 0

-----------------------------------------------------------------------------
(* The macro *)

\* The columns that do not have the name, in their order.
Retained(columns, name) ==
  LET kept[n \in 0 .. Len(columns)] ==
        IF n = 0 THEN <<>>
        ELSE IF columns[n].name = name THEN kept[n - 1] ELSE Append(kept[n - 1], columns[n])
  IN  kept[Len(columns)]

\* Slip: the typed table keeps its name.
ApplyActionKeepsTable(t, a) ==
  CASE a.kind = "add"    -> [t EXCEPT !.columns = Append(@, [name |-> a.name, column_name |-> None])]
    [] a.kind = "drop"   -> [t EXCEPT !.columns = Retained(@, a.name)]
    [] OTHER             -> t

\* Slip: a dropped column stays in the typed table.
ApplyActionKeepsColumn(t, a) ==
  IF a.kind = "add" THEN [t EXCEPT !.columns = Append(@, [name |-> a.name, column_name |-> None])] ELSE t

\* Slip: a renamed column keeps its old name in the database.
RenameFirstOverrides(columns, from, to) ==
  [n \in DOMAIN columns |->
     IF columns[n].name = from THEN [name |-> to, column_name |-> from] ELSE columns[n]]

\* The first column of that name gets the new one, and loses its column_name.
RenameFirst(columns, from, to) ==
  [n \in DOMAIN columns |->
     IF columns[n].name = from /\ \A m \in 1 .. n - 1 : columns[m].name # from
       THEN [name |-> to, column_name |-> None]
       ELSE columns[n]]

\* AlterTable::apply_to, one action: columns are found by their Rust identifier.
ApplyAction(t, a) ==
  CASE a.kind = "add"    -> [t EXCEPT !.columns = Append(@, [name |-> a.name, column_name |-> None])]
    [] a.kind = "drop"   -> [t EXCEPT !.columns = Retained(@, a.name)]
    [] a.kind = "rename" -> [t EXCEPT !.columns = RenameFirst(@, a.from, a.to)]
    [] a.kind = "rename_table" -> [t EXCEPT !.name = a.to]

\* AlterTable::apply_to, one action after the other.
ApplyTo(t, actions) ==
  LET after[n \in 0 .. Len(actions)] ==
        IF n = 0 THEN t ELSE ApplyAction(after[n - 1], actions[n])
  IN  after[Len(actions)]

\* Migrations::expand, one alter: it goes to the first table of that name, if any.
FoldAlter(ts, name, actions) ==
  LET n == SelectInSeq(ts, LAMBDA t : t.name = name)
  IN  IF n = 0 THEN ts ELSE [ts EXCEPT ![n] = ApplyTo(@, actions)]

-----------------------------------------------------------------------------
(* The database *)

\* What a statement makes of the tables: a set with one element, or an empty one when
\* the statement is refused.
Provided(condition, outcome) == IF condition THEN {outcome} ELSE {}

DbColumns(columns) == {DbName(c) : c \in Range(columns)}

\* build_table
CreateTable(ts, name, columns) ==
  Provided(/\ \A t \in ts : t.name # name
           /\ Cardinality(DbColumns(columns)) = Len(columns),
           ts \cup {[name |-> name, columns |-> DbColumns(columns)]})

\* The columns a statement leaves in the table it alters; it leaves one at least.
AlterColumns(columns, a) ==
  CASE a.kind = "add"    -> Provided(a.name \notin columns, columns \cup {a.name})
    [] a.kind = "drop"   -> Provided(a.name \in columns /\ columns # {a.name}, columns \ {a.name})
    [] a.kind = "rename" -> Provided(a.from \in columns /\ a.to \notin columns \ {a.from},
                                     (columns \ {a.from}) \cup {a.to})

Altered(t, a) == {[t EXCEPT !.columns = columns] : columns \in AlterColumns(t.columns, a)}

Renamed(ts, t, a) == Provided(\A u \in ts : u.name # a.to, [t EXCEPT !.name = a.to])

\* build_alter_statements, one action: every statement names the table as the alter
\* does, also after a statement that renamed it.
AlterStatement(ts, name, a) ==
  UNION {{(ts \ {t}) \cup {u} : u \in IF a.kind = "rename_table" THEN Renamed(ts, t, a)
                                      ELSE Altered(t, a)} :
         t \in {u \in ts : u.name = name}}

\* A statement after the refused one is not sent.
AlterTable(ts, name, actions) ==
  LET results[n \in 0 .. Len(actions)] ==
        IF n = 0 THEN {ts}
        ELSE UNION {AlterStatement(r, name, actions[n]) : r \in results[n - 1]}
  IN  results[Len(actions)]

-----------------------------------------------------------------------------
(* The author *)

Execute(results) ==
  /\ accepted' = (results # {})
  /\ tables' = IF results = {} THEN tables ELSE CHOOSE r \in results : TRUE

\* `table name { ... }`
DeclareTable(name, columns) ==
  /\ accepted
  /\ items < MaxItems
  /\ items' = items + 1
  /\ typed' = Append(typed, [name |-> name, columns |-> columns])
  /\ Execute(CreateTable(tables, name, columns))

\* `alter table name { ... }`
DeclareAlter(name, actions) ==
  /\ accepted
  /\ items < MaxItems
  /\ items' = items + 1
  /\ typed' = FoldAlter(typed, name, actions)
  /\ Execute(AlterTable(tables, name, actions))

Finished ==
  /\ items = MaxItems \/ ~accepted
  /\ UNCHANGED vars

\* A table is declared with one or two columns; its identifiers are Rust fields.
Declarations ==
  {cs \in UNION {[1 .. n -> Column] : n \in 1 .. 2} :
     /\ \A n \in DOMAIN cs : cs[n].name \in Idents
     /\ Cardinality({cs[n].name : n \in DOMAIN cs}) = Len(cs)}

Next ==
  \/ \E name \in TableNames :
       \/ \E columns \in Declarations : DeclareTable(name, columns)
       \/ \E n \in 1 .. MaxActions : \E actions \in [1 .. n -> Action] : DeclareAlter(name, actions)
  \/ Finished

Spec == Init /\ [][Next]_vars

-----------------------------------------------------------------------------
\* The generated modules are Rust: the fields of a Row have different names.
Compiles ==
  \A t \in Range(typed) : Cardinality({c.name : c \in Range(t.columns)}) = Len(t.columns)

\* While the database takes the migrations, the typed modules name its tables and its
\* columns exactly, one module for a table (apply_to, Migrations::expand).
TypedMatchesDatabase ==
  accepted /\ Compiles =>
    /\ tables = {[name |-> t.name, columns |-> DbColumns(t.columns)] : t \in Range(typed)}
    /\ Cardinality(tables) = Len(typed)

\* With no column_name in the schema, what the database takes also compiles.
AcceptedCompiles == accepted => Compiles
=============================================================================
