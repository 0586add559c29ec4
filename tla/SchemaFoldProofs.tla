-------------------------- MODULE SchemaFoldProofs --------------------------
(***************************************************************************)
(* Proofs about SchemaFold: for any tables, columns, items and actions,    *)
(* the typed modules are the tables of the database, as long as no column  *)
(* has a [column = "..."].  The macro and the database go through the      *)
(* actions of an alter in a loop each.  What the loops compute is proved   *)
(* by induction on the number of actions, as the absence of a least        *)
(* number for which it fails.                                              *)
(***************************************************************************)
EXTENDS SchemaFold, FiniteSetTheorems, WellFoundedInduction, TLAPS

-----------------------------------------------------------------------------
(* Natural numbers, and functions defined by recursion on them. *)

\* A set of natural numbers that has an element has a least one.
LEMMA LeastNumber ==
  ASSUME NEW T, T \subseteq Nat, T # {}
  PROVE  \E n \in T : \A m \in T : n <= m
<1> DEFINE R == StrictSubsetOrdering(Nat)
           U == {1 .. n : n \in T}
<1>1. IsWellFoundedOn(R, FiniteSubsetsOf(Nat))
  BY FS_StrictSubsetOrderingWellFounded
<1>2. ASSUME NEW n \in T
      PROVE  1 .. n \in FiniteSubsetsOf(Nat)
  <2>1. IsFiniteSet(1 .. n)
    BY FS_Interval
  <2>2. 1 .. n \in SUBSET Nat
    OBVIOUS
  <2> QED
    BY <2>1, <2>2 DEF FiniteSubsetsOf
<1>3. U \subseteq FiniteSubsetsOf(Nat) /\ U # {}
  BY <1>2
<1>4. PICK X \in U : \A Y \in U : ~ (<<Y, X>> \in R)
  <2> HIDE DEF R, U
  <2> QED
    BY <1>1, <1>3, WFMin
<1>5. PICK n \in T : X = 1 .. n
  OBVIOUS
<1>6. ASSUME NEW m \in T, m < n
      PROVE  FALSE
  <2>1. n \in 1 .. n /\ n \notin 1 .. m
    BY <1>6
  <2>2. 1 .. m \subseteq 1 .. n
    BY <1>6
  <2>3. <<1 .. m, X>> \in R
    BY <2>1, <2>2, <1>5 DEF StrictSubsetOrdering
  <2> QED
    BY <2>3, <1>4
<1> QED
  BY <1>6

\* Induction: what holds of 0, and of each number up to N if of the one before, holds of N.
LEMMA Induction ==
  ASSUME NEW N \in Nat, NEW H, 0 \in H,
         \A n \in 1 .. N : n - 1 \in H => n \in H
  PROVE  \A n \in 0 .. N : n \in H
<1> SUFFICES ASSUME NEW n \in 0 .. N, n \notin H
             PROVE  FALSE
  OBVIOUS
<1> DEFINE T == {i \in 0 .. N : i \notin H}
<1>1. T \subseteq Nat /\ T # {}
  OBVIOUS
<1>2. PICK m \in T : \A i \in T : m <= i
  <2> HIDE DEF T
  <2> QED
    BY <1>1, LeastNumber
<1>3. m # 0
  OBVIOUS
<1>4. m - 1 \in H
  BY <1>2, <1>3
<1> QED
  BY <1>3, <1>4

IsRun(run, base, N, F) ==
  run[0] = base /\ \A n \in 1 .. N : run[n] = F[<<run[n - 1], n>>]

\* A loop of N rounds over values of S has a run.
LEMMA RunExists ==
  ASSUME NEW S, NEW base \in S, NEW N \in Nat, NEW F \in [S \X (1 .. N) -> S]
  PROVE  \E run \in [0 .. N -> S] : IsRun(run, base, N, F)
<1> USE DEF IsRun
<1> DEFINE H == {k \in 0 .. N : \E run \in [0 .. k -> S] : IsRun(run, base, k, F)}
<1>1. 0 \in H
  <2> DEFINE run == [n \in 0 .. 0 |-> base]
  <2>1. run \in [0 .. 0 -> S] /\ IsRun(run, base, 0, F)
    OBVIOUS
  <2> HIDE DEF run
  <2> QED
    BY <2>1
<1>2. ASSUME NEW k \in 1 .. N, k - 1 \in H
      PROVE  k \in H
  <2>1. PICK run \in [0 .. k - 1 -> S] : IsRun(run, base, k - 1, F)
    BY <1>2
  <2> DEFINE longer == [n \in 0 .. k |-> IF n = k THEN F[<<run[k - 1], k>>] ELSE run[n]]
  <2>2. F[<<run[k - 1], k>>] \in S
    OBVIOUS
  <2>3. longer \in [0 .. k -> S]
    BY <2>2
  <2>4. longer[0] = base
    BY <2>1
  <2>5. ASSUME NEW n \in 1 .. k
        PROVE  longer[n] = F[<<longer[n - 1], n>>]
    <3>1. CASE n = k
      <4>1. n - 1 \in 0 .. k /\ n - 1 # k
        OBVIOUS
      <4>2. longer[n - 1] = run[n - 1]
        BY <4>1
      <4>3. longer[n] = F[<<run[k - 1], k>>]
        BY <3>1
      <4> HIDE DEF longer
      <4> QED
        BY <3>1, <4>2, <4>3
    <3>2. CASE n # k
      <4>1. n \in 1 .. k - 1 /\ n - 1 \in 0 .. k - 1 /\ n - 1 # k
        BY <3>2
      <4>2. longer[n] = run[n] /\ longer[n - 1] = run[n - 1]
        BY <4>1
      <4> QED
        BY <4>1, <4>2, <2>1
    <3> QED
      BY <3>1, <3>2
  <2> HIDE DEF longer
  <2> QED
    BY <2>3, <2>4, <2>5
<1>3. N \in H
  <2> HIDE DEF H
  <2> QED
    BY <1>1, <1>2, Induction
<1> QED
  BY <1>3

-----------------------------------------------------------------------------
(* What the loops of the code compute. *)

TypedTable == [name : TableNames, columns : Seq(Column)]
DbTable == [name : TableNames, columns : SUBSET ColumnNames]

\* Retained goes through the columns: the rounds of its loop.
IsRetained(kept, columns, name) ==
  /\ kept \in [0 .. Len(columns) -> Seq(Column)]
  /\ kept[0] = <<>>
  /\ \A n \in 1 .. Len(columns) :
       kept[n] = IF columns[n].name = name THEN kept[n - 1] ELSE Append(kept[n - 1], columns[n])

LEMMA RetainedRounds ==
  ASSUME NEW columns \in Seq(Column), NEW name
  PROVE  \E kept :
            /\ IsRetained(kept, columns, name)
            /\ Retained(columns, name) = kept[Len(columns)]
<1> DEFINE N == Len(columns)
           S == Seq(Column)
           Round(before, n) ==
             IF columns[n].name = name THEN before ELSE Append(before, columns[n])
           F == [p \in S \X (1 .. N) |-> Round(p[1], p[2])]
           IsKept(f) == f = [n \in 0 .. N |-> IF n = 0 THEN <<>> ELSE Round(f[n - 1], n)]
           kept == CHOOSE f : IsKept(f)
<1>1. N \in Nat /\ <<>> \in S
  OBVIOUS
<1>2. ASSUME NEW before \in S, NEW n \in 1 .. N
      PROVE  Round(before, n) \in S
  OBVIOUS
<1>3. Retained(columns, name) = kept[N]
  BY DEF Retained
<1> HIDE DEF N, S, Round, kept
<1>4. F \in [S \X (1 .. N) -> S]
  BY <1>2
<1>5. PICK run \in [0 .. N -> S] : IsRun(run, <<>>, N, F)
  <2> HIDE DEF F
  <2> QED
    BY <1>1, <1>4, RunExists
<1>6. ASSUME NEW n \in 0 .. N, n # 0
      PROVE  n \in 1 .. N /\ run[n] = Round(run[n - 1], n)
  <2>1. n \in 1 .. N /\ n - 1 \in 0 .. N
    BY <1>1, <1>6
  <2> QED
    BY <2>1, <1>5 DEF IsRun
<1>7. IsKept(run)
  <2>1. ASSUME NEW n \in 0 .. N
        PROVE  run[n] = IF n = 0 THEN <<>> ELSE Round(run[n - 1], n)
    BY <1>5, <1>6 DEF IsRun
  <2> DEFINE again == [n \in 0 .. N |-> IF n = 0 THEN <<>> ELSE Round(run[n - 1], n)]
  <2>2. \A n \in 0 .. N : run[n] = again[n]
    BY <2>1
  <2>3. run = again
    BY <2>2
  <2> QED
    BY <2>3
<1>8. IsKept(kept)
  BY <1>7, Zenon DEF kept
<1>9. kept[0] = <<>>
  BY <1>1, <1>8
<1>10. ASSUME NEW n \in 1 .. N
       PROVE  kept[n] = Round(kept[n - 1], n)
  BY <1>1, <1>8
<1>11. \A n \in 0 .. N : kept[n] \in S
  <2> DEFINE H == {n \in 0 .. N : kept[n] \in S}
  <2>1. 0 \in H
    BY <1>1, <1>9
  <2>2. ASSUME NEW n \in 1 .. N, n - 1 \in H
        PROVE  n \in H
    BY <2>2, <1>2, <1>10
  <2> HIDE DEF H
  <2>3. \A n \in 0 .. N : n \in H
    BY <1>1, <2>1, <2>2, Induction
  <2> QED
    BY <2>3 DEF H
<1>12. kept \in [0 .. N -> S]
  BY <1>8, <1>11
<1> QED
  BY <1>3, <1>9, <1>10, <1>12 DEF N, S, Round, IsRetained

LEMMA RetainedType ==
  ASSUME NEW columns \in Seq(Column), NEW name
  PROVE  Retained(columns, name) \in Seq(Column)
<1>1. PICK kept : IsRetained(kept, columns, name) /\ Retained(columns, name) = kept[Len(columns)]
  BY RetainedRounds
<1>2. Len(columns) \in 0 .. Len(columns)
  OBVIOUS
<1> QED
  BY <1>1, <1>2 DEF IsRetained

\* An action's fields, by its kind.
LEMMA ActionFields ==
  ASSUME NEW a \in Action
  PROVE  /\ a.kind \in {"add", "drop", "rename", "rename_table"}
         /\ a.kind \in {"add", "drop"} => a.name \in ColumnNames
         /\ a.kind = "rename" => a.from \in ColumnNames /\ a.to \in ColumnNames
         /\ a.kind = "rename_table" => a.to \in TableNames
BY DEF Action

\* What ApplyAction makes of a table, by the kind of the action.
LEMMA ApplyActionIs ==
  ASSUME NEW t \in TypedTable, NEW a \in Action
  PROVE  /\ a.kind = "add" =>
              ApplyAction(t, a) =
                [name |-> t.name,
                 columns |-> Append(t.columns, [name |-> a.name, column_name |-> None])]
         /\ a.kind = "drop" =>
              ApplyAction(t, a) = [name |-> t.name, columns |-> Retained(t.columns, a.name)]
         /\ a.kind = "rename" =>
              ApplyAction(t, a) = [name |-> t.name, columns |-> RenameFirst(t.columns, a.from, a.to)]
         /\ a.kind = "rename_table" =>
              ApplyAction(t, a) = [name |-> a.to, columns |-> t.columns]
BY DEF ApplyAction, TypedTable

LEMMA RenameFirstType ==
  ASSUME NEW columns \in Seq(Column), NEW from, NEW to \in ColumnNames
  PROVE  RenameFirst(columns, from, to) \in Seq(Column)
<1>1. [name |-> to, column_name |-> None] \in Column
  BY DEF Column
<1>2. ASSUME NEW n \in DOMAIN columns
      PROVE  RenameFirst(columns, from, to)[n] \in Column
  BY <1>1 DEF RenameFirst
<1>3. RenameFirst(columns, from, to) \in [1 .. Len(columns) -> Column]
  BY <1>2 DEF RenameFirst
<1> QED
  BY <1>3

LEMMA ApplyActionType ==
  ASSUME NEW t \in TypedTable, NEW a \in Action
  PROVE  ApplyAction(t, a) \in TypedTable
<1>1. t.name \in TableNames /\ t.columns \in Seq(Column)
  BY DEF TypedTable
<1>2. ASSUME NEW name \in TableNames, NEW columns \in Seq(Column)
      PROVE  [name |-> name, columns |-> columns] \in TypedTable
  BY DEF TypedTable
<1>3. CASE a.kind = "add"
  <2>1. [name |-> a.name, column_name |-> None] \in Column
    BY <1>3, ActionFields DEF Column
  <2>2. Append(t.columns, [name |-> a.name, column_name |-> None]) \in Seq(Column)
    BY <1>1, <2>1
  <2> QED
    BY <1>1, <1>2, <1>3, <2>2, ApplyActionIs
<1>4. CASE a.kind = "drop"
  <2>1. Retained(t.columns, a.name) \in Seq(Column)
    BY <1>1, RetainedType
  <2> QED
    BY <1>1, <1>2, <1>4, <2>1, ApplyActionIs
<1>5. CASE a.kind = "rename"
  <2>1. RenameFirst(t.columns, a.from, a.to) \in Seq(Column)
    BY <1>1, <1>5, ActionFields, RenameFirstType
  <2> QED
    BY <1>1, <1>2, <1>5, <2>1, ApplyActionIs
<1>6. CASE a.kind = "rename_table"
  BY <1>1, <1>2, <1>6, ActionFields, ApplyActionIs
<1> QED
  BY <1>3, <1>4, <1>5, <1>6, ActionFields

\* apply_to goes through the actions: the rounds of its loop.
IsApplied(after, t, actions) ==
  /\ after \in [0 .. Len(actions) -> TypedTable]
  /\ after[0] = t
  /\ \A n \in 1 .. Len(actions) : after[n] = ApplyAction(after[n - 1], actions[n])

LEMMA ApplyToRounds ==
  ASSUME NEW t \in TypedTable, NEW actions \in Seq(Action)
  PROVE  \E after :
            /\ IsApplied(after, t, actions)
            /\ ApplyTo(t, actions) = after[Len(actions)]
<1> DEFINE N == Len(actions)
           S == TypedTable
           Round(before, n) == ApplyAction(before, actions[n])
           F == [p \in S \X (1 .. N) |-> Round(p[1], p[2])]
           IsAfter(f) == f = [n \in 0 .. N |-> IF n = 0 THEN t ELSE Round(f[n - 1], n)]
           after == CHOOSE f : IsAfter(f)
<1>1. N \in Nat /\ t \in S
  OBVIOUS
<1>2. ASSUME NEW before \in S, NEW n \in 1 .. N
      PROVE  Round(before, n) \in S
  BY ApplyActionType
<1>3. ApplyTo(t, actions) = after[N]
  BY DEF ApplyTo
<1> HIDE DEF N, S, Round, after
<1>4. F \in [S \X (1 .. N) -> S]
  BY <1>2
<1>5. PICK run \in [0 .. N -> S] : IsRun(run, t, N, F)
  <2> HIDE DEF F
  <2> QED
    BY <1>1, <1>4, RunExists
<1>6. IsAfter(run)
  <2>1. ASSUME NEW n \in 0 .. N
        PROVE  run[n] = IF n = 0 THEN t ELSE Round(run[n - 1], n)
    <3>1. CASE n = 0
      BY <3>1, <1>5 DEF IsRun
    <3>2. CASE n # 0
      <4>1. n \in 1 .. N /\ n - 1 \in 0 .. N
        BY <1>1, <3>2
      <4> QED
        BY <4>1, <3>2, <1>5 DEF IsRun
    <3> QED
      BY <3>1, <3>2
  <2> DEFINE again == [n \in 0 .. N |-> IF n = 0 THEN t ELSE Round(run[n - 1], n)]
  <2>2. run = again
    BY <2>1
  <2> QED
    BY <2>2
<1>7. IsAfter(after)
  BY <1>6, Zenon DEF after
<1>8. after[0] = t
  BY <1>1, <1>7
<1>9. ASSUME NEW n \in 1 .. N
      PROVE  after[n] = Round(after[n - 1], n)
  BY <1>1, <1>7
<1>10. \A n \in 0 .. N : after[n] \in S
  <2> DEFINE H == {n \in 0 .. N : after[n] \in S}
  <2>1. 0 \in H
    BY <1>1, <1>8
  <2>2. ASSUME NEW n \in 1 .. N, n - 1 \in H
        PROVE  n \in H
    BY <2>2, <1>2, <1>9
  <2> HIDE DEF H
  <2>3. \A n \in 0 .. N : n \in H
    BY <1>1, <2>1, <2>2, Induction
  <2> QED
    BY <2>3 DEF H
<1>11. after \in [0 .. N -> S]
  BY <1>7, <1>10
<1> QED
  BY <1>3, <1>8, <1>9, <1>11 DEF N, S, Round, IsApplied

LEMMA ApplyToType ==
  ASSUME NEW t \in TypedTable, NEW actions \in Seq(Action)
  PROVE  ApplyTo(t, actions) \in TypedTable
<1>1. PICK after : IsApplied(after, t, actions) /\ ApplyTo(t, actions) = after[Len(actions)]
  BY ApplyToRounds
<1>2. Len(actions) \in 0 .. Len(actions)
  OBVIOUS
<1> QED
  BY <1>1, <1>2 DEF IsApplied

\* The first table of a name, by its index.
FirstNamed(ts, name) == SelectInSeq(ts, LAMBDA t : t.name = name)

LEMMA FirstNamedIs ==
  ASSUME NEW ts \in Seq(TypedTable), NEW name
  PROVE  \/ FirstNamed(ts, name) = 0 /\ \A n \in DOMAIN ts : ts[n].name # name
         \/ FirstNamed(ts, name) \in DOMAIN ts /\ ts[FirstNamed(ts, name)].name = name
<1> DEFINE I == {i \in 1 .. Len(ts) : ts[i].name = name}
<1>1. FirstNamed(ts, name) = IF I # {} THEN Min(I) ELSE 0
  BY DEF FirstNamed, SelectInSeq
<1>2. CASE I = {}
  BY <1>1, <1>2
<1>3. CASE I # {}
  <2>1. PICK n \in I : \A m \in I : n <= m
    <3>1. I \subseteq Nat
      OBVIOUS
    <3> HIDE DEF I
    <3> QED
      BY <3>1, <1>3, LeastNumber
  <2>2. Min(I) \in I
    BY <2>1 DEF Min
  <2> QED
    BY <1>1, <1>3, <2>2
<1> QED
  BY <1>2, <1>3

LEMMA FoldAlterIs ==
  ASSUME NEW ts \in Seq(TypedTable), NEW name, NEW actions
  PROVE  FoldAlter(ts, name, actions) =
           IF FirstNamed(ts, name) = 0 THEN ts
           ELSE [ts EXCEPT ![FirstNamed(ts, name)] = ApplyTo(ts[FirstNamed(ts, name)], actions)]
BY DEF FoldAlter, FirstNamed

LEMMA FoldAlterType ==
  ASSUME NEW ts \in Seq(TypedTable), NEW name, NEW actions \in Seq(Action)
  PROVE  FoldAlter(ts, name, actions) \in Seq(TypedTable)
<1> DEFINE k == FirstNamed(ts, name)
<1>1. CASE k = 0
  BY <1>1, FoldAlterIs
<1>2. CASE k \in DOMAIN ts
  <2>1. ApplyTo(ts[k], actions) \in TypedTable
    <3>1. ts[k] \in TypedTable
      BY <1>2
    <3> HIDE DEF k
    <3> QED
      BY <3>1, ApplyToType
  <2>2. FoldAlter(ts, name, actions) = [ts EXCEPT ![k] = ApplyTo(ts[k], actions)]
    BY <1>2, FoldAlterIs
  <2> HIDE DEF k
  <2>3. ts \in [1 .. Len(ts) -> TypedTable]
    OBVIOUS
  <2>4. [ts EXCEPT ![k] = ApplyTo(ts[k], actions)] \in [1 .. Len(ts) -> TypedTable]
    BY <2>1, <2>3
  <2> QED
    BY <2>2, <2>4
<1> QED
  BY <1>1, <1>2, FirstNamedIs

LEMMA DbColumnsType ==
  ASSUME NEW columns \in Seq(Column)
  PROVE  DbColumns(columns) \in SUBSET ColumnNames
<1> SUFFICES ASSUME NEW n \in DOMAIN columns
             PROVE  DbName(columns[n]) \in ColumnNames
  BY DEF DbColumns, Range
<1>1. columns[n] \in Column
  OBVIOUS
<1> QED
  BY <1>1 DEF DbName, Column, ColumnNames

LEMMA AlterColumnsIs ==
  ASSUME NEW columns, NEW a \in Action, NEW result \in AlterColumns(columns, a),
         a.kind # "rename_table"
  PROVE  \/ a.kind = "add" /\ a.name \notin columns /\ result = columns \cup {a.name}
         \/ a.kind = "drop" /\ a.name \in columns /\ result = columns \ {a.name}
         \/ /\ a.kind = "rename"
            /\ a.from \in columns /\ a.to \notin columns \ {a.from}
            /\ result = (columns \ {a.from}) \cup {a.to}
BY ActionFields DEF AlterColumns, Provided

\* A statement alters one table that has the name.
LEMMA AlterStatementIs ==
  ASSUME NEW ts, NEW name, NEW a \in Action, NEW result \in AlterStatement(ts, name, a)
  PROVE  \E t \in ts :
           /\ t.name = name
           /\ \/ /\ a.kind = "rename_table"
                 /\ \A u \in ts : u.name # a.to
                 /\ result = (ts \ {t}) \cup {[t EXCEPT !.name = a.to]}
              \/ /\ a.kind # "rename_table"
                 /\ \E columns \in AlterColumns(t.columns, a) :
                      result = (ts \ {t}) \cup {[t EXCEPT !.columns = columns]}
BY DEF AlterStatement, Renamed, Altered, Provided

LEMMA AlterStatementType ==
  ASSUME NEW ts \in SUBSET DbTable, NEW name, NEW a \in Action
  PROVE  AlterStatement(ts, name, a) \in SUBSET SUBSET DbTable
<1> SUFFICES ASSUME NEW result \in AlterStatement(ts, name, a)
             PROVE  result \in SUBSET DbTable
  OBVIOUS
<1>1. PICK t \in ts :
        \/ /\ a.kind = "rename_table"
           /\ result = (ts \ {t}) \cup {[t EXCEPT !.name = a.to]}
        \/ /\ a.kind # "rename_table"
           /\ \E columns \in AlterColumns(t.columns, a) :
                result = (ts \ {t}) \cup {[t EXCEPT !.columns = columns]}
  BY AlterStatementIs
<1>2. t \in DbTable
  OBVIOUS
<1>3. CASE a.kind = "rename_table"
  <2>1. [t EXCEPT !.name = a.to] \in DbTable
    BY <1>2, <1>3, ActionFields DEF DbTable
  <2> QED
    BY <1>1, <1>3, <2>1
<1>4. CASE a.kind # "rename_table"
  <2>1. PICK columns \in AlterColumns(t.columns, a) :
          result = (ts \ {t}) \cup {[t EXCEPT !.columns = columns]}
    BY <1>1, <1>4
  <2>2. t.columns \in SUBSET ColumnNames
    BY <1>2 DEF DbTable
  <2>3. columns \in SUBSET ColumnNames
    BY <1>4, <2>2, AlterColumnsIs, ActionFields
  <2>4. [t EXCEPT !.columns = columns] \in DbTable
    BY <1>2, <2>3 DEF DbTable
  <2> QED
    BY <2>1, <2>4
<1> QED
  BY <1>3, <1>4

\* The statements of an alter are sent one after the other: the rounds of that loop.
AreResults(results, ts, name, actions) ==
  /\ results \in [0 .. Len(actions) -> SUBSET SUBSET DbTable]
  /\ results[0] = {ts}
  /\ \A n \in 1 .. Len(actions) :
       results[n] = UNION {AlterStatement(r, name, actions[n]) : r \in results[n - 1]}

LEMMA AlterTableRounds ==
  ASSUME NEW ts \in SUBSET DbTable, NEW name, NEW actions \in Seq(Action)
  PROVE  \E results :
            /\ AreResults(results, ts, name, actions)
            /\ AlterTable(ts, name, actions) = results[Len(actions)]
<1> DEFINE N == Len(actions)
           S == SUBSET SUBSET DbTable
           Round(before, n) == UNION {AlterStatement(r, name, actions[n]) : r \in before}
           F == [p \in S \X (1 .. N) |-> Round(p[1], p[2])]
           IsResults(f) == f = [n \in 0 .. N |-> IF n = 0 THEN {ts} ELSE Round(f[n - 1], n)]
           results == CHOOSE f : IsResults(f)
<1>1. N \in Nat /\ {ts} \in S
  OBVIOUS
<1>2. ASSUME NEW before \in S, NEW n \in 1 .. N
      PROVE  Round(before, n) \in S
  BY AlterStatementType
<1>3. AlterTable(ts, name, actions) = results[N]
  BY DEF AlterTable
<1> HIDE DEF N, S, Round, results
<1>4. F \in [S \X (1 .. N) -> S]
  BY <1>2
<1>5. PICK run \in [0 .. N -> S] : IsRun(run, {ts}, N, F)
  <2> HIDE DEF F
  <2> QED
    BY <1>1, <1>4, RunExists
<1>6. IsResults(run)
  <2>1. ASSUME NEW n \in 0 .. N
        PROVE  run[n] = IF n = 0 THEN {ts} ELSE Round(run[n - 1], n)
    <3>1. CASE n = 0
      BY <3>1, <1>5 DEF IsRun
    <3>2. CASE n # 0
      <4>1. n \in 1 .. N /\ n - 1 \in 0 .. N
        BY <1>1, <3>2
      <4> QED
        BY <4>1, <3>2, <1>5 DEF IsRun
    <3> QED
      BY <3>1, <3>2
  <2> DEFINE again == [n \in 0 .. N |-> IF n = 0 THEN {ts} ELSE Round(run[n - 1], n)]
  <2>2. run = again
    BY <2>1
  <2> QED
    BY <2>2
<1>7. IsResults(results)
  BY <1>6, Zenon DEF results
<1>8. results[0] = {ts}
  BY <1>1, <1>7
<1>9. ASSUME NEW n \in 1 .. N
      PROVE  results[n] = Round(results[n - 1], n)
  <2>1. n \in 0 .. N /\ n # 0
    BY <1>1
  <2> QED
    BY <2>1, <1>7, Zenon
<1>10. \A n \in 0 .. N : results[n] \in S
  <2> DEFINE H == {n \in 0 .. N : results[n] \in S}
  <2>1. 0 \in H
    BY <1>1, <1>8
  <2>2. ASSUME NEW n \in 1 .. N, n - 1 \in H
        PROVE  n \in H
    BY <2>2, <1>2, <1>9
  <2> HIDE DEF H
  <2>3. \A n \in 0 .. N : n \in H
    BY <1>1, <2>1, <2>2, Induction
  <2> QED
    BY <2>3 DEF H
<1>11. results \in [0 .. N -> S]
  BY <1>7, <1>10
<1> QED
  BY <1>3, <1>8, <1>9, <1>11 DEF N, S, Round, AreResults

-----------------------------------------------------------------------------
(* Types *)

\* What the database does with the statements of an item.
LEMMA ExecuteIs ==
  ASSUME NEW results, Execute(results)
  PROVE  \/ ~accepted' /\ tables' = tables
         \/ accepted' /\ tables' \in results
<1>1. CASE results = {}
  BY <1>1 DEF Execute
<1>2. CASE results # {}
  BY <1>2 DEF Execute
<1> QED
  BY <1>1, <1>2

LEMMA ExecuteType ==
  ASSUME NEW results \in SUBSET SUBSET DbTable, Execute(results), tables \in SUBSET DbTable
  PROVE  accepted' \in BOOLEAN /\ tables' \in SUBSET DbTable
<1>1. accepted' \in BOOLEAN
  BY DEF Execute
<1> QED
  BY <1>1, ExecuteIs

LEMMA DeclarationsType ==
  ASSUME NEW columns \in Declarations
  PROVE  columns \in Seq(Column)
<1>1. PICK n \in 1 .. 2 : columns \in [1 .. n -> Column]
  BY DEF Declarations
<1> QED
  BY <1>1

LEMMA CreateTableIs ==
  ASSUME NEW ts, NEW name, NEW columns, NEW result \in CreateTable(ts, name, columns)
  PROVE  /\ \A t \in ts : t.name # name
         /\ Cardinality(DbColumns(columns)) = Len(columns)
         /\ result = ts \cup {[name |-> name, columns |-> DbColumns(columns)]}
BY DEF CreateTable, Provided

LEMMA CreateTableType ==
  ASSUME NEW ts \in SUBSET DbTable, NEW name \in TableNames, NEW columns \in Seq(Column)
  PROVE  CreateTable(ts, name, columns) \in SUBSET SUBSET DbTable
<1>1. [name |-> name, columns |-> DbColumns(columns)] \in DbTable
  BY DbColumnsType DEF DbTable
<1> QED
  BY <1>1, CreateTableIs

LEMMA AlterTableType ==
  ASSUME NEW ts \in SUBSET DbTable, NEW name, NEW actions \in Seq(Action)
  PROVE  AlterTable(ts, name, actions) \in SUBSET SUBSET DbTable
<1>1. PICK results : /\ AreResults(results, ts, name, actions)
                     /\ AlterTable(ts, name, actions) = results[Len(actions)]
  BY AlterTableRounds
<1>2. Len(actions) \in 0 .. Len(actions)
  OBVIOUS
<1> QED
  BY <1>1, <1>2 DEF AreResults

\* TypeOK, in the words of this module.
LEMMA TypeIs ==
  TypeOK <=> /\ typed \in Seq(TypedTable)
             /\ tables \in SUBSET DbTable
             /\ accepted \in BOOLEAN
             /\ items \in 0 .. MaxItems
BY DEF TypeOK, TypedTable, DbTable

LEMMA TypeNext ==
  TypeOK' <=> /\ typed' \in Seq(TypedTable)
              /\ tables' \in SUBSET DbTable
              /\ accepted' \in BOOLEAN
              /\ items' \in 0 .. MaxItems
BY DEF TypeOK, TypedTable, DbTable

LEMMA DeclareTableType ==
  ASSUME TypeOK, NEW name \in TableNames, NEW columns \in Declarations,
         DeclareTable(name, columns)
  PROVE  TypeOK'
<1>1. columns \in Seq(Column)
  BY DeclarationsType
<1>2. typed' \in Seq(TypedTable)
  <2>1. [name |-> name, columns |-> columns] \in TypedTable
    BY <1>1 DEF TypedTable
  <2> QED
    BY <2>1, TypeIs DEF DeclareTable
<1>3. accepted' \in BOOLEAN /\ tables' \in SUBSET DbTable
  <2>1. CreateTable(tables, name, columns) \in SUBSET SUBSET DbTable
    BY <1>1, CreateTableType, TypeIs
  <2> QED
    BY <2>1, ExecuteType, TypeIs DEF DeclareTable
<1>4. items' \in 0 .. MaxItems
  BY BoundsAssumption, TypeIs DEF DeclareTable
<1> QED
  BY <1>2, <1>3, <1>4, TypeNext

LEMMA DeclareAlterType ==
  ASSUME TypeOK, NEW name \in TableNames, NEW actions \in Seq(Action),
         DeclareAlter(name, actions)
  PROVE  TypeOK'
<1>1. typed' \in Seq(TypedTable)
  BY FoldAlterType, TypeIs DEF DeclareAlter
<1>2. accepted' \in BOOLEAN /\ tables' \in SUBSET DbTable
  <2>1. AlterTable(tables, name, actions) \in SUBSET SUBSET DbTable
    BY AlterTableType, TypeIs
  <2> QED
    BY <2>1, ExecuteType, TypeIs DEF DeclareAlter
<1>3. items' \in 0 .. MaxItems
  BY BoundsAssumption, TypeIs DEF DeclareAlter
<1> QED
  BY <1>1, <1>2, <1>3, TypeNext

\* The steps of the author.
LEMMA Steps ==
  ASSUME [Next]_vars
  PROVE  \/ \E name \in TableNames, columns \in Declarations : DeclareTable(name, columns)
         \/ \E name \in TableNames, actions \in Seq(Action) : DeclareAlter(name, actions)
         \/ UNCHANGED vars
<1>1. ASSUME NEW n \in 1 .. MaxActions, NEW actions \in [1 .. n -> Action]
      PROVE  actions \in Seq(Action)
  BY BoundsAssumption
<1> QED
  BY <1>1 DEF Next, Finished

\* The typed tables and the tables of the database are what TypeOK says (the state of the fold).
THEOREM FoldTypes == Spec => []TypeOK
<1>1. Init => TypeOK
  BY BoundsAssumption DEF Init, TypeOK
<1>2. TypeOK /\ [Next]_vars => TypeOK'
  <2> SUFFICES ASSUME TypeOK, [Next]_vars
               PROVE  TypeOK'
    OBVIOUS
  <2>1. ASSUME NEW name \in TableNames, NEW columns \in Declarations, DeclareTable(name, columns)
        PROVE  TypeOK'
    BY <2>1, DeclareTableType
  <2>2. ASSUME NEW name \in TableNames, NEW actions \in Seq(Action), DeclareAlter(name, actions)
        PROVE  TypeOK'
    BY <2>2, DeclareAlterType
  <2>3. CASE UNCHANGED vars
    BY <2>3, TypeIs, TypeNext DEF vars
  <2> QED
    BY <2>1, <2>2, <2>3, Steps
<1> QED
  BY <1>1, <1>2, PTL DEF Spec

-----------------------------------------------------------------------------
(* Names *)

DistinctNames(s) == \A i, j \in DOMAIN s : s[i].name = s[j].name => i = j

NamesOf(s) == {s[n].name : n \in DOMAIN s}

\* As many values as indices: the values are different.
LEMMA CountIsDistinct ==
  ASSUME NEW N \in Nat, NEW f, DOMAIN f = 1 .. N
  PROVE  Cardinality({f[i] : i \in 1 .. N}) = N <=> \A i, j \in 1 .. N : f[i] = f[j] => i = j
<1> DEFINE T == {f[i] : i \in 1 .. N}
           g == [i \in 1 .. N |-> f[i]]
<1>1. g \in Surjection(1 .. N, T)
  BY DEF Surjection
<1>2. g \in Injection(1 .. N, T) <=> \A i, j \in 1 .. N : f[i] = f[j] => i = j
  BY DEF Injection, IsInjective
<1>3. IsFiniteSet(1 .. N) /\ Cardinality(1 .. N) = N
  BY FS_Interval
<1> HIDE DEF g, T
<1>4. Cardinality(T) = Cardinality(1 .. N) <=> g \in Injection(1 .. N, T)
  BY <1>1, <1>3, FS_Surjection
<1> QED
  BY <1>2, <1>3, <1>4 DEF T

LEMMA NamesCount ==
  ASSUME NEW S, NEW s \in Seq(S)
  PROVE  Cardinality(NamesOf(s)) = Len(s) <=> DistinctNames(s)
<1> DEFINE f == [n \in 1 .. Len(s) |-> s[n].name]
<1>1. Cardinality({f[i] : i \in 1 .. Len(s)}) = Len(s)
        <=> \A i, j \in 1 .. Len(s) : f[i] = f[j] => i = j
  <2>1. Len(s) \in Nat /\ DOMAIN f = 1 .. Len(s)
    OBVIOUS
  <2> HIDE DEF f
  <2> QED
    BY <2>1, CountIsDistinct
<1>2. NamesOf(s) = {f[i] : i \in 1 .. Len(s)}
  BY DEF NamesOf
<1>3. DistinctNames(s) <=> \A i, j \in 1 .. Len(s) : f[i] = f[j] => i = j
  BY DEF DistinctNames
<1> QED
  BY <1>1, <1>2, <1>3

LEMMA AppendNames ==
  ASSUME NEW S, NEW s \in Seq(S), NEW e \in S
  PROVE  /\ NamesOf(Append(s, e)) = NamesOf(s) \cup {e.name}
         /\ DistinctNames(s) /\ e.name \notin NamesOf(s) => DistinctNames(Append(s, e))
<1> DEFINE z == Append(s, e)
<1>1. DOMAIN z = (DOMAIN s) \cup {Len(s) + 1} /\ Len(s) + 1 \notin DOMAIN s
  OBVIOUS
<1>2. z[Len(s) + 1] = e /\ \A n \in DOMAIN s : z[n] = s[n]
  OBVIOUS
<1> HIDE DEF z
<1>3. NamesOf(z) = NamesOf(s) \cup {e.name}
  BY <1>1, <1>2 DEF NamesOf
<1>4. ASSUME DistinctNames(s), e.name \notin NamesOf(s)
      PROVE  DistinctNames(z)
  <2>1. \A n \in DOMAIN s : z[n].name # e.name
    BY <1>2, <1>4 DEF NamesOf
  <2> QED
    BY <1>1, <1>2, <1>4, <2>1 DEF DistinctNames
<1> QED
  BY <1>3, <1>4 DEF z

\* retain takes one name away.
LEMMA RetainedNames ==
  ASSUME NEW columns \in Seq(Column), NEW name, DistinctNames(columns)
  PROVE  /\ NamesOf(Retained(columns, name)) = NamesOf(columns) \ {name}
         /\ DistinctNames(Retained(columns, name))
<1>1. PICK kept : IsRetained(kept, columns, name) /\ Retained(columns, name) = kept[Len(columns)]
  BY RetainedRounds
<1> DEFINE N == Len(columns)
           Before(n) == {columns[i].name : i \in 1 .. n}
           H == {n \in 0 .. N : NamesOf(kept[n]) = Before(n) \ {name} /\ DistinctNames(kept[n])}
<1>2. N \in Nat
  OBVIOUS
<1>3. 0 \in H
  <2>1. kept[0] = <<>>
    BY <1>1 DEF IsRetained
  <2>2. Before(0) = {}
    OBVIOUS
  <2> QED
    BY <2>1, <2>2, <1>2 DEF NamesOf, DistinctNames
<1>4. ASSUME NEW n \in 1 .. N, n - 1 \in H
      PROVE  n \in H
  <2>1. columns[n] \in Column /\ kept[n - 1] \in Seq(Column)
    BY <1>1 DEF IsRetained
  <2>2. Before(n) = Before(n - 1) \cup {columns[n].name}
    <3>1. 1 .. n = (1 .. n - 1) \cup {n}
      OBVIOUS
    <3> QED
      BY <3>1
  <2>3. columns[n].name \notin Before(n - 1)
    <3>1. \A i \in 1 .. n - 1 : i \in DOMAIN columns /\ n \in DOMAIN columns /\ i # n
      OBVIOUS
    <3> QED
      BY <3>1 DEF DistinctNames
  <2>4. CASE columns[n].name = name
    <3>1. kept[n] = kept[n - 1]
      BY <1>1, <2>4 DEF IsRetained
    <3> HIDE DEF Before
    <3> QED
      BY <3>1, <2>2, <2>4, <1>4
  <2>5. CASE columns[n].name # name
    <3>1. kept[n] = Append(kept[n - 1], columns[n])
      BY <1>1, <2>5 DEF IsRetained
    <3> HIDE DEF Before
    <3>2. columns[n].name \notin NamesOf(kept[n - 1])
      BY <2>3, <1>4
    <3>3. NamesOf(kept[n]) = NamesOf(kept[n - 1]) \cup {columns[n].name} /\ DistinctNames(kept[n])
      BY <2>1, <3>1, <3>2, <1>4, AppendNames
    <3> QED
      BY <3>3, <2>2, <2>5, <1>4
  <2> QED
    BY <2>4, <2>5
<1>5. N \in H
  <2> HIDE DEF H, N
  <2>1. \A n \in 1 .. N : n - 1 \in H => n \in H
    BY <1>4
  <2>2. \A n \in 0 .. N : n \in H
    BY <1>2, <1>3, <2>1, Induction
  <2> QED
    BY <1>2, <2>2
<1>6. Before(N) = NamesOf(columns)
  BY DEF NamesOf
<1> QED
  BY <1>1, <1>5, <1>6

\* A rename changes one name.
LEMMA RenameFirstNames ==
  ASSUME NEW columns \in Seq(Column), NEW from, NEW to, DistinctNames(columns),
         from \in NamesOf(columns), to \notin NamesOf(columns) \ {from}
  PROVE  /\ NamesOf(RenameFirst(columns, from, to)) = (NamesOf(columns) \ {from}) \cup {to}
         /\ DistinctNames(RenameFirst(columns, from, to))
<1> DEFINE z == RenameFirst(columns, from, to)
<1>1. PICK k \in DOMAIN columns : columns[k].name = from
  BY DEF NamesOf
<1>2. \A n \in DOMAIN columns : n # k => columns[n].name # from
  BY <1>1 DEF DistinctNames
<1>3. \A m \in 1 .. k - 1 : m \in DOMAIN columns /\ m # k
  BY <1>1
<1>4. DOMAIN z = DOMAIN columns
  BY DEF RenameFirst
<1>5. z[k].name = to
  BY <1>1, <1>2, <1>3 DEF RenameFirst
<1>6. \A n \in DOMAIN columns : n # k => z[n] = columns[n]
  BY <1>2 DEF RenameFirst
<1> HIDE DEF z
<1>7. \A n \in DOMAIN columns : n # k => columns[n].name # to
  BY <1>2 DEF NamesOf
<1>8. NamesOf(z) = (NamesOf(columns) \ {from}) \cup {to}
  BY <1>1, <1>2, <1>4, <1>5, <1>6 DEF NamesOf
<1>9. DistinctNames(z)
  BY <1>4, <1>5, <1>6, <1>7 DEF DistinctNames
<1> QED
  BY <1>8, <1>9 DEF z

-----------------------------------------------------------------------------
(* The typed tables and the tables of the database *)

Image(t) == [name |-> t.name, columns |-> NamesOf(t.columns)]

\* The inductive invariant: no two tables of a name, no two columns of a name in a table,
\* and the database has what the typed tables say.
Matches(ts, db) ==
  /\ DistinctNames(ts)
  /\ \A n \in DOMAIN ts : DistinctNames(ts[n].columns)
  /\ db = {Image(ts[n]) : n \in DOMAIN ts}

\* The two readings of one action agree on the columns.
LEMMA ActionMatches ==
  ASSUME NEW t \in TypedTable, NEW a \in Action, DistinctNames(t.columns),
         a.kind # "rename_table", NEW result \in AlterColumns(NamesOf(t.columns), a)
  PROVE  /\ DistinctNames(ApplyAction(t, a).columns)
         /\ Image(ApplyAction(t, a)) = [name |-> t.name, columns |-> result]
<1> DEFINE columns == ApplyAction(t, a).columns
<1>1. t.columns \in Seq(Column)
  BY DEF TypedTable
<1>2. /\ ApplyAction(t, a).name = t.name
      /\ a.kind = "add" => columns = Append(t.columns, [name |-> a.name, column_name |-> None])
      /\ a.kind = "drop" => columns = Retained(t.columns, a.name)
      /\ a.kind = "rename" => columns = RenameFirst(t.columns, a.from, a.to)
  BY ActionFields DEF ApplyAction, TypedTable
<1> HIDE DEF columns
<1>3. DistinctNames(columns) /\ NamesOf(columns) = result
  <2>1. CASE a.kind = "add"
    <3> DEFINE c == [name |-> a.name, column_name |-> None]
    <3>1. c \in Column /\ c.name = a.name
      BY <2>1, ActionFields DEF Column
    <3>2. a.name \notin NamesOf(t.columns) /\ result = NamesOf(t.columns) \cup {a.name}
      BY <2>1, AlterColumnsIs
    <3>3. columns = Append(t.columns, c)
      BY <2>1, <1>2
    <3> HIDE DEF c
    <3> QED
      BY <1>1, <3>1, <3>2, <3>3, AppendNames
  <2>2. CASE a.kind = "drop"
    <3>1. result = NamesOf(t.columns) \ {a.name}
      BY <2>2, AlterColumnsIs
    <3>2. columns = Retained(t.columns, a.name)
      BY <2>2, <1>2
    <3> QED
      BY <1>1, <3>1, <3>2, RetainedNames
  <2>3. CASE a.kind = "rename"
    <3>1. /\ a.from \in NamesOf(t.columns) /\ a.to \notin NamesOf(t.columns) \ {a.from}
          /\ result = (NamesOf(t.columns) \ {a.from}) \cup {a.to}
      BY <2>3, AlterColumnsIs
    <3>2. columns = RenameFirst(t.columns, a.from, a.to)
      BY <2>3, <1>2
    <3> QED
      BY <1>1, <3>1, <3>2, RenameFirstNames
  <2> QED
    BY <2>1, <2>2, <2>3, ActionFields
<1> QED
  BY <1>2, <1>3 DEF Image, columns

\* A table put in the place of another, of a name no other table has.
LEMMA ReplaceMatches ==
  ASSUME NEW ts \in Seq(TypedTable), NEW db, Matches(ts, db), NEW k \in DOMAIN ts,
         NEW t \in TypedTable, DistinctNames(t.columns),
         \A n \in DOMAIN ts : n # k => ts[n].name # t.name
  PROVE  Matches([ts EXCEPT ![k] = t], (db \ {Image(ts[k])}) \cup {Image(t)})
<1> DEFINE z == [ts EXCEPT ![k] = t]
<1>1. DOMAIN z = DOMAIN ts
  OBVIOUS
<1>2. z[k] = t
  OBVIOUS
<1>3. \A n \in DOMAIN ts : n # k => z[n] = ts[n]
  OBVIOUS
<1> HIDE DEF z
<1>4. DistinctNames(z)
  BY <1>1, <1>2, <1>3 DEF DistinctNames, Matches
<1>5. \A n \in DOMAIN z : DistinctNames(z[n].columns)
  BY <1>1, <1>2, <1>3 DEF Matches
<1>6. \A n \in DOMAIN ts : n # k => Image(ts[n]) # Image(ts[k])
  <2>1. \A n \in DOMAIN ts : n # k => ts[n].name # ts[k].name
    BY DEF Matches, DistinctNames
  <2> QED
    BY <2>1 DEF Image
<1>7. (db \ {Image(ts[k])}) \cup {Image(t)} = {Image(z[n]) : n \in DOMAIN z}
  <2>1. db = {Image(ts[n]) : n \in DOMAIN ts}
    BY DEF Matches
  <2>2. ASSUME NEW x
        PROVE  x \in (db \ {Image(ts[k])}) \cup {Image(t)} <=> \E n \in DOMAIN ts : x = Image(z[n])
    BY <2>1, <1>2, <1>3, <1>6
  <2> QED
    BY <2>2, <1>1
<1> QED
  BY <1>4, <1>5, <1>7 DEF Matches, z

\* A statement the database takes changes the table that the macro changes, alike.
ActionFollows(ts, name, a, result) ==
  \E k \in DOMAIN ts :
    ts[k].name = name /\ Matches([ts EXCEPT ![k] = ApplyAction(ts[k], a)], result)

LEMMA StatementMatches ==
  ASSUME NEW ts \in Seq(TypedTable), NEW db, Matches(ts, db), NEW name, NEW a \in Action,
         NEW result \in AlterStatement(db, name, a)
  PROVE  ActionFollows(ts, name, a, result)
<1>1. PICK u \in db :
        /\ u.name = name
        /\ \/ /\ a.kind = "rename_table"
              /\ \A v \in db : v.name # a.to
              /\ result = (db \ {u}) \cup {[u EXCEPT !.name = a.to]}
           \/ /\ a.kind # "rename_table"
              /\ \E columns \in AlterColumns(u.columns, a) :
                   result = (db \ {u}) \cup {[u EXCEPT !.columns = columns]}
  BY AlterStatementIs
<1>2. PICK k \in DOMAIN ts : u = Image(ts[k])
  BY DEF Matches
<1>3. ts[k] \in TypedTable /\ ApplyAction(ts[k], a) \in TypedTable
  <2>1. ts[k] \in TypedTable
    OBVIOUS
  <2> QED
    BY <2>1, ApplyActionType
<1>4. u.name = ts[k].name /\ u.columns = NamesOf(ts[k].columns)
  BY <1>2 DEF Image
<1>5. DistinctNames(ts[k].columns)
  BY DEF Matches
<1>6. \A n \in DOMAIN ts : n # k => ts[n].name # ts[k].name
  BY DEF Matches, DistinctNames
<1> DEFINE t == ApplyAction(ts[k], a)
<1>7. /\ DistinctNames(t.columns)
      /\ \A n \in DOMAIN ts : n # k => ts[n].name # t.name
      /\ result = (db \ {u}) \cup {Image(t)}
  <2>1. CASE a.kind = "rename_table"
    <3>1. t = [name |-> a.to, columns |-> ts[k].columns]
      BY <1>3, <2>1, ApplyActionIs
    <3>2. \A n \in DOMAIN ts : ts[n].name # a.to
      <4>1. \A v \in db : v.name # a.to
        BY <1>1, <2>1
      <4>2. ASSUME NEW n \in DOMAIN ts
            PROVE  ts[n].name # a.to
        <5>1. Image(ts[n]) \in db
          BY DEF Matches
        <5> QED
          BY <4>1, <5>1 DEF Image
      <4> QED
        BY <4>2
    <3>3. [u EXCEPT !.name = a.to] = Image(t)
      BY <1>2, <3>1 DEF Image
    <3> QED
      BY <1>1, <1>5, <2>1, <3>1, <3>2, <3>3
  <2>2. CASE a.kind # "rename_table"
    <3>1. PICK columns \in AlterColumns(u.columns, a) :
            result = (db \ {u}) \cup {[u EXCEPT !.columns = columns]}
      BY <1>1, <2>2
    <3>2. DistinctNames(t.columns) /\ Image(t) = [name |-> ts[k].name, columns |-> columns]
      BY <1>3, <1>4, <1>5, <2>2, ActionMatches
    <3>3. t.name = ts[k].name
      BY <3>2 DEF Image
    <3>4. [u EXCEPT !.columns = columns] = Image(t)
      BY <1>2, <3>2 DEF Image
    <3> HIDE DEF t
    <3> QED
      BY <1>6, <3>1, <3>2, <3>3, <3>4
  <2> QED
    BY <2>1, <2>2
<1>8. Matches([ts EXCEPT ![k] = t], result)
  <2> HIDE DEF t
  <2>1. t \in TypedTable
    BY <1>3 DEF t
  <2> QED
    BY <1>2, <1>7, <2>1, ReplaceMatches
<1> QED
  BY <1>1, <1>4, <1>8 DEF ActionFollows

\* Both loops, action by action: what the database ends up with is what the macro does.
LEMMA AlterMatches ==
  ASSUME NEW ts \in Seq(TypedTable), NEW db \in SUBSET DbTable, Matches(ts, db), NEW name,
         NEW actions \in Seq(Action), NEW k \in DOMAIN ts, ts[k].name = name,
         NEW result \in AlterTable(db, name, actions)
  PROVE  Matches([ts EXCEPT ![k] = ApplyTo(ts[k], actions)], result)
<1> DEFINE N == Len(actions)
<1>1. PICK results : AreResults(results, db, name, actions) /\ AlterTable(db, name, actions) = results[N]
  BY AlterTableRounds
<1>2. PICK after : IsApplied(after, ts[k], actions) /\ ApplyTo(ts[k], actions) = after[N]
  <2>1. ts[k] \in TypedTable
    OBVIOUS
  <2> QED
    BY <2>1, ApplyToRounds
<1> DEFINE At(n) == [ts EXCEPT ![k] = after[n]]
           H == {n \in 0 .. N : \A r \in results[n] : Matches(At(n), r)}
<1>3. N \in Nat
  OBVIOUS
<1>4. 0 \in H
  <2>1. At(0) = ts
    BY <1>2 DEF IsApplied
  <2>2. \A r \in results[0] : r = db
    BY <1>1 DEF AreResults
  <2> QED
    BY <2>1, <2>2, <1>3
<1>5. ASSUME NEW n \in 1 .. N, n - 1 \in H
      PROVE  n \in H
  <2> HIDE DEF At
  <2>1. n \in 0 .. N
    BY <1>3
  <2> SUFFICES ASSUME NEW r \in results[n]
               PROVE  Matches(At(n), r)
    BY <2>1
  <2>2. PICK before \in results[n - 1] : r \in AlterStatement(before, name, actions[n])
    BY <1>1 DEF AreResults
  <2> DEFINE us == At(n - 1)
  <2>3. Matches(us, before)
    BY <1>5
  <2>4. after[n - 1] \in TypedTable /\ actions[n] \in Action /\ after[n] = ApplyAction(after[n - 1], actions[n])
    <3>1. n - 1 \in 0 .. N /\ n \in DOMAIN actions
      BY <1>3
    <3> QED
      BY <3>1, <1>2 DEF IsApplied
  <2>5. /\ us \in Seq(TypedTable) /\ DOMAIN us = DOMAIN ts
        /\ us[k] = after[n - 1] /\ \A j \in DOMAIN ts : j # k => us[j] = ts[j]
    <3>1. ts \in [1 .. Len(ts) -> TypedTable]
      OBVIOUS
    <3>2. us \in [1 .. Len(ts) -> TypedTable]
      BY <2>4, <3>1 DEF At
    <3> QED
      BY <3>2 DEF At
  <2>6. [us EXCEPT ![k] = ApplyAction(us[k], actions[n])] = At(n)
    BY <2>4, <2>5 DEF At
  <2> HIDE DEF us
  <2>7. PICK j \in DOMAIN us :
          us[j].name = name /\ Matches([us EXCEPT ![j] = ApplyAction(us[j], actions[n])], r)
    <3>1. ActionFollows(us, name, actions[n], r)
      BY <2>2, <2>3, <2>4, <2>5, StatementMatches
    <3> QED
      BY <3>1 DEF ActionFollows
  <2>8. j = k
    BY <2>5, <2>7 DEF Matches, DistinctNames
  <2> QED
    BY <2>6, <2>7, <2>8
<1>6. N \in H
  <2> HIDE DEF H, N
  <2>1. \A n \in 1 .. N : n - 1 \in H => n \in H
    BY <1>5
  <2>2. \A n \in 0 .. N : n \in H
    BY <1>3, <1>4, <2>1, Induction
  <2> QED
    BY <1>3, <2>2
<1> QED
  BY <1>1, <1>2, <1>6

\* No alter succeeds on a table that is not there.
LEMMA NoSuchTable ==
  ASSUME NEW ts \in Seq(TypedTable), NEW db \in SUBSET DbTable, Matches(ts, db), NEW name,
         \A n \in DOMAIN ts : ts[n].name # name,
         NEW actions \in Seq(Action), NEW result \in AlterTable(db, name, actions)
  PROVE  result = db
<1> DEFINE N == Len(actions)
<1>1. PICK results : AreResults(results, db, name, actions) /\ AlterTable(db, name, actions) = results[N]
  BY AlterTableRounds
<1> DEFINE H == {n \in 0 .. N : results[n] \subseteq {db}}
<1>2. N \in Nat
  OBVIOUS
<1>3. 0 \in H
  BY <1>1, <1>2 DEF AreResults
<1>4. ASSUME NEW n \in 1 .. N, n - 1 \in H
      PROVE  n \in H
  <2>1. results[n] = UNION {AlterStatement(r, name, actions[n]) : r \in results[n - 1]}
    BY <1>1 DEF AreResults
  <2>2. actions[n] \in Action
    OBVIOUS
  <2>3. \A u \in db : u.name # name
    BY DEF Matches, Image
  <2>4. AlterStatement(db, name, actions[n]) = {}
    BY <2>2, <2>3, AlterStatementIs
  <2>5. results[n] = {}
    BY <1>4, <2>1, <2>4
  <2> QED
    BY <1>2, <2>5
<1>5. N \in H
  <2> HIDE DEF H, N
  <2>1. \A n \in 1 .. N : n - 1 \in H => n \in H
    BY <1>4
  <2>2. \A n \in 0 .. N : n \in H
    BY <1>2, <1>3, <2>1, Induction
  <2> QED
    BY <1>2, <2>2
<1> QED
  BY <1>1, <1>5

-----------------------------------------------------------------------------
(* Schemas without [column = "..."] *)

\* Then a column has in the database the name of its field.
LEMMA PlainColumns ==
  ASSUME Overrides = {}, NEW columns \in Seq(Column)
  PROVE  DbColumns(columns) = NamesOf(columns)
<1>1. ASSUME NEW n \in DOMAIN columns
      PROVE  DbName(columns[n]) = columns[n].name
  <2>1. columns[n] \in Column
    OBVIOUS
  <2> QED
    BY <2>1 DEF Column, DbName
<1> QED
  BY <1>1 DEF DbColumns, NamesOf, Range

FoldInv == TypeOK /\ (accepted => Matches(typed, tables))

LEMMA DeclareTableMatches ==
  ASSUME Overrides = {}, FoldInv, NEW name \in TableNames, NEW columns \in Declarations,
         DeclareTable(name, columns), accepted'
  PROVE  Matches(typed', tables')
<1> DEFINE t == [name |-> name, columns |-> columns]
<1>1. columns \in Seq(Column) /\ t \in TypedTable
  BY DeclarationsType DEF TypedTable
<1>2. typed \in Seq(TypedTable) /\ Matches(typed, tables) /\ typed' = Append(typed, t)
  BY TypeIs DEF FoldInv, DeclareTable
<1>3. /\ \A u \in tables : u.name # name
      /\ Cardinality(DbColumns(columns)) = Len(columns)
      /\ tables' = tables \cup {[name |-> name, columns |-> DbColumns(columns)]}
  <2>1. tables' \in CreateTable(tables, name, columns)
    BY ExecuteIs DEF DeclareTable
  <2> QED
    BY <2>1, CreateTableIs
<1>4. DistinctNames(columns)
  <2>1. DbColumns(columns) = NamesOf(columns)
    BY <1>1, PlainColumns
  <2> QED
    BY <1>1, <1>3, <2>1, NamesCount
<1>5. \A n \in DOMAIN typed : typed[n].name # name
  <2> SUFFICES ASSUME NEW n \in DOMAIN typed
               PROVE  typed[n].name # name
    OBVIOUS
  <2>1. Image(typed[n]) \in tables
    BY <1>2 DEF Matches
  <2> QED
    BY <1>3, <2>1 DEF Image
<1>6. tables' = tables \cup {Image(t)}
  BY <1>1, <1>3, PlainColumns DEF Image
<1>7. /\ DOMAIN typed' = (DOMAIN typed) \cup {Len(typed) + 1} /\ Len(typed) + 1 \notin DOMAIN typed
      /\ typed'[Len(typed) + 1] = t /\ \A n \in DOMAIN typed : typed'[n] = typed[n]
  BY <1>1, <1>2
<1>8. DistinctNames(typed')
  <2>1. name \notin NamesOf(typed) /\ DistinctNames(typed)
    BY <1>2, <1>5 DEF NamesOf, Matches
  <2> QED
    BY <1>1, <1>2, <2>1, AppendNames
<1>9. \A n \in DOMAIN typed' : DistinctNames(typed'[n].columns)
  BY <1>2, <1>4, <1>7 DEF Matches
<1>10. tables' = {Image(typed'[n]) : n \in DOMAIN typed'}
  <2> HIDE DEF t
  <2>1. tables = {Image(typed[n]) : n \in DOMAIN typed}
    BY <1>2 DEF Matches
  <2> QED
    BY <1>6, <1>7, <2>1
<1> QED
  BY <1>8, <1>9, <1>10 DEF Matches

LEMMA DeclareAlterMatches ==
  ASSUME FoldInv, NEW name \in TableNames, NEW actions \in Seq(Action),
         DeclareAlter(name, actions), accepted'
  PROVE  Matches(typed', tables')
<1> DEFINE k == FirstNamed(typed, name)
<1>1. typed \in Seq(TypedTable) /\ tables \in SUBSET DbTable /\ Matches(typed, tables)
  BY TypeIs DEF FoldInv, DeclareAlter
<1>2. typed' = IF k = 0 THEN typed ELSE [typed EXCEPT ![k] = ApplyTo(typed[k], actions)]
  BY <1>1, FoldAlterIs DEF DeclareAlter
<1>3. tables' \in AlterTable(tables, name, actions)
  BY ExecuteIs DEF DeclareAlter
<1> HIDE DEF k
<1>4. CASE k = 0 /\ \A n \in DOMAIN typed : typed[n].name # name
  BY <1>1, <1>2, <1>3, <1>4, NoSuchTable
<1>5. CASE k \in DOMAIN typed /\ typed[k].name = name
  <2>1. k # 0
    BY <1>1, <1>5
  <2> QED
    BY <1>1, <1>2, <1>3, <1>5, <2>1, AlterMatches
<1> QED
  BY <1>1, <1>4, <1>5, FirstNamedIs DEF k

\* The author writes no [column = "..."]: whatever is declared and altered, the fold and the
\* database go on alike (Migrations::expand beside the statements of apply_pending).
THEOREM FoldInvariant ==
  ASSUME Overrides = {}
  PROVE  Spec => []FoldInv
<1>1. Init => FoldInv
  <2> SUFFICES ASSUME Init
               PROVE  FoldInv
    OBVIOUS
  <2>1. TypeOK
    BY BoundsAssumption DEF Init, TypeOK
  <2>2. Matches(typed, tables)
    BY DEF Init, Matches, DistinctNames
  <2> QED
    BY <2>1, <2>2 DEF FoldInv
<1>2. FoldInv /\ [Next]_vars => FoldInv'
  <2> SUFFICES ASSUME FoldInv, [Next]_vars
               PROVE  TypeOK' /\ (accepted' => Matches(typed', tables'))
    BY DEF FoldInv, Matches
  <2>1. ASSUME NEW name \in TableNames, NEW columns \in Declarations, DeclareTable(name, columns)
        PROVE  TypeOK' /\ (accepted' => Matches(typed', tables'))
    BY <2>1, DeclareTableType, DeclareTableMatches DEF FoldInv
  <2>2. ASSUME NEW name \in TableNames, NEW actions \in Seq(Action), DeclareAlter(name, actions)
        PROVE  TypeOK' /\ (accepted' => Matches(typed', tables'))
    BY <2>2, DeclareAlterType, DeclareAlterMatches DEF FoldInv
  <2>3. CASE UNCHANGED vars
    <3>1. TypeOK'
      BY <2>3, TypeIs, TypeNext DEF vars, FoldInv
    <3> QED
      BY <2>3, <3>1 DEF vars, FoldInv
  <2> QED
    BY <2>1, <2>2, <2>3, Steps
<1> QED
  BY <1>1, <1>2, PTL DEF Spec

\* Compiles counts the names of a table's fields.
LEMMA CompilesIs ==
  ASSUME NEW columns \in Seq(Column)
  PROVE  Cardinality({c.name : c \in Range(columns)}) = Len(columns) <=> DistinctNames(columns)
<1>1. {c.name : c \in Range(columns)} = NamesOf(columns)
  BY DEF Range, NamesOf
<1> QED
  BY <1>1, NamesCount

\* AcceptedCompiles, for any tables and columns and any number of items and actions.
THEOREM PlainCompiles ==
  ASSUME Overrides = {}
  PROVE  Spec => []AcceptedCompiles
<1>1. FoldInv => AcceptedCompiles
  <2> SUFFICES ASSUME FoldInv, accepted, NEW n \in DOMAIN typed
               PROVE  Cardinality({c.name : c \in Range(typed[n].columns)}) = Len(typed[n].columns)
    BY DEF AcceptedCompiles, Compiles, Range
  <2>1. typed[n].columns \in Seq(Column)
    <3>1. typed[n] \in TypedTable
      BY TypeIs DEF FoldInv
    <3> QED
      BY <3>1 DEF TypedTable
  <2>2. DistinctNames(typed[n].columns)
    BY DEF FoldInv, Matches
  <2> QED
    BY <2>1, <2>2, CompilesIs
<1> QED
  BY <1>1, FoldInvariant, PTL

\* TypedMatchesDatabase, likewise: the typed modules are the tables of the database.
THEOREM TypedIsDatabase ==
  ASSUME Overrides = {}
  PROVE  Spec => []TypedMatchesDatabase
<1>1. FoldInv => TypedMatchesDatabase
  <2> SUFFICES ASSUME FoldInv, accepted
               PROVE  /\ tables = {[name |-> t.name, columns |-> DbColumns(t.columns)] : t \in Range(typed)}
                      /\ Cardinality(tables) = Len(typed)
    BY DEF TypedMatchesDatabase
  <2>1. typed \in Seq(TypedTable) /\ Matches(typed, tables)
    BY TypeIs DEF FoldInv
  <2>2. tables = {Image(typed[n]) : n \in DOMAIN typed}
    BY <2>1 DEF Matches
  <2>3. ASSUME NEW n \in DOMAIN typed
        PROVE  Image(typed[n]) =
                 [name |-> typed[n].name, columns |-> DbColumns(typed[n].columns)]
    <3>1. typed[n] \in TypedTable
      BY <2>1
    <3>2. typed[n].columns \in Seq(Column)
      BY <3>1 DEF TypedTable
    <3> QED
      BY <3>2, PlainColumns DEF Image
  <2>4. tables = {[name |-> t.name, columns |-> DbColumns(t.columns)] : t \in Range(typed)}
    BY <2>2, <2>3 DEF Range
  <2>5. Cardinality(tables) = Len(typed)
    <3> DEFINE f == [n \in 1 .. Len(typed) |-> Image(typed[n])]
    <3>1. Len(typed) \in Nat /\ DOMAIN f = 1 .. Len(typed) /\ DOMAIN typed = 1 .. Len(typed)
      BY <2>1
    <3>2. \A i, j \in 1 .. Len(typed) : f[i] = f[j] => i = j
      BY <2>1, <3>1 DEF Image, Matches, DistinctNames
    <3>3. tables = {f[n] : n \in 1 .. Len(typed)}
      BY <2>2, <3>1
    <3> HIDE DEF f
    <3> QED
      BY <3>1, <3>2, <3>3, CountIsDistinct
  <2> QED
    BY <2>4, <2>5
<1> QED
  BY <1>1, FoldInvariant, PTL
=============================================================================
