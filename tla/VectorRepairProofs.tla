------------------------- MODULE VectorRepairProofs -------------------------
(***************************************************************************)
(* What is true at every moment of a repair, for any number of processes,  *)
(* rows, columns and faults (RepairInv), and, where two processes at most  *)
(* repair at once, that no vector is lost (VectorInv).                     *)
(***************************************************************************)
EXTENDS VectorRepair, FiniteSetTheorems, TLAPS

-----------------------------------------------------------------------------
(* The table *)

\* A table has a type and cells for every column, and a helper column or none.
LEMMA TableFacts ==
  ASSUME NEW t \in Table
  PROVE  /\ t = [columns |-> t.columns, helper |-> t.helper]
         /\ t.columns \in [Columns -> [type : {"bytea", "vector", "none"}, cells : [Ids -> Cells]]]
         /\ t.helper = <<>> \/ (t.helper = <<t.helper[1]>> /\ t.helper[1] \in [Ids -> Cells])
BY DEF Table

\* One cell that holds a vector is not an empty sequence of tables, and so on.
LEMMA OneIsNotNone == \A x : <<x>> # <<>> /\ <<x>>[1] = x
OBVIOUS

\* A column without values is one.
LEMMA NoCellsTyped == NoCells \in [Ids -> Cells]
BY DEF NoCells, Cells

\* A table in which one column has been replaced.
LEMMA ColumnReplaced ==
  ASSUME NEW t \in Table, NEW c \in Columns,
         NEW column \in [type : {"bytea", "vector", "none"}, cells : [Ids -> Cells]]
  PROVE  /\ [t EXCEPT !.columns[c] = column] \in Table
         /\ [t EXCEPT !.columns[c] = column].helper = t.helper
         /\ [t EXCEPT !.columns[c] = column].columns[c] = column
         /\ \A d \in Columns \ {c} : [t EXCEPT !.columns[c] = column].columns[d] = t.columns[d]
BY DEF Table

\* A table with another helper column.
LEMMA HelperReplaced ==
  ASSUME NEW t \in Table, NEW h \in {<<>>} \cup {<<cells>> : cells \in [Ids -> Cells]}
  PROVE  /\ [t EXCEPT !.helper = h] \in Table
         /\ [t EXCEPT !.helper = h].helper = h
         /\ [t EXCEPT !.helper = h].columns = t.columns
BY DEF Table

\* The table after DROP COLUMN.
LEMMA DroppedFacts ==
  ASSUME table \in Table, NEW c \in Columns
  PROVE  /\ Dropped(c) \in Table
         /\ Dropped(c).helper = table.helper
         /\ Dropped(c).columns[c] = [type |-> "none", cells |-> NoCells]
         /\ \A d \in Columns \ {c} : Dropped(c).columns[d] = table.columns[d]
BY ColumnReplaced, NoCellsTyped DEF Dropped

\* The table after RENAME COLUMN: the helper column has become the vector column.
LEMMA ExchangedFacts ==
  ASSUME table \in Table, table.helper # <<>>, NEW c \in Columns
  PROVE  /\ Exchanged(c) \in Table
         /\ Exchanged(c).helper = <<>>
         /\ Exchanged(c).columns[c] = [type |-> "vector", cells |-> table.helper[1]]
         /\ \A d \in Columns \ {c} : Exchanged(c).columns[d] = table.columns[d]
<1> DEFINE t == [table EXCEPT !.columns[c] = [type |-> "vector", cells |-> table.helper[1]]]
<1>1. table.helper[1] \in [Ids -> Cells]
  BY TableFacts
<1>2. /\ t \in Table /\ t.columns[c] = [type |-> "vector", cells |-> table.helper[1]]
      /\ \A d \in Columns \ {c} : t.columns[d] = table.columns[d]
  BY <1>1, ColumnReplaced
<1>3. Exchanged(c) = [t EXCEPT !.helper = <<>>]
  BY DEF Exchanged
<1> HIDE DEF t
<1> QED
  BY <1>2, <1>3, HelperReplaced

\* RENAME COLUMN in a transaction that has dropped the column makes the exchange complete.
LEMMA DroppedIsExchanged ==
  ASSUME table \in Table, NEW c \in Columns
  PROVE  [Dropped(c) EXCEPT !.columns[c] = [type |-> "vector", cells |-> Dropped(c).helper[1]],
                            !.helper = <<>>] = Exchanged(c)
BY DEF Dropped, Exchanged, Table

-----------------------------------------------------------------------------
(* Statements *)

\* The session of a process outside a transaction answers a statement so (StatementOutcomes).
LEMMA StatementAlone ==
  ASSUME NEW d, NEW t, NEW after, NEW s,
         s = [dialect |-> d, txn |-> "none", durable |-> t, working |-> t],
         NEW o \in StatementOutcomes(s, after)
  PROVE  \/ o.reply = "ok" /\ o.session.txn = "none" /\ o.session.durable = after
         \/ o.reply = "err" /\ o.session.txn = "none" /\ o.session.durable = t
<1> DEFINE u == [s EXCEPT !.working = after]
           v == [u EXCEPT !.durable = after]
<1>1. s.txn = "none" /\ s.durable = t
  OBVIOUS
<1>2. u = [dialect |-> d, txn |-> "none", durable |-> t, working |-> after]
  OBVIOUS
<1>3. v = [s EXCEPT !.working = after, !.durable = after]
  OBVIOUS
<1>4. v.txn = "none" /\ v.durable = after
  <2> HIDE DEF u
  <2> QED BY <1>2
<1> HIDE DEF u, v
<1>5. o \in {Outcome(v, "ok"), Outcome(s, "err")}
  BY <1>1, <1>3 DEF StatementOutcomes, Failing
<1> QED
  BY <1>1, <1>4, <1>5 DEF Outcome

\* Inside a PostgreSQL transaction it answers so.
LEMMA StatementInside ==
  ASSUME NEW t, NEW u, NEW after, NEW s,
         s = [dialect |-> "postgres", txn |-> "open", durable |-> t, working |-> u],
         NEW o \in StatementOutcomes(s, after)
  PROVE  \/ /\ o.reply = "ok"
            /\ o.session = [dialect |-> "postgres", txn |-> "open", durable |-> t, working |-> after]
         \/ /\ o.reply = "err"
            /\ o.session = [dialect |-> "postgres", txn |-> "failed", durable |-> t, working |-> u]
<1>1. s.txn = "open" /\ s.dialect = "postgres"
  OBVIOUS
<1>2. /\ [s EXCEPT !.working = after] =
           [dialect |-> "postgres", txn |-> "open", durable |-> t, working |-> after]
      /\ [s EXCEPT !.txn = "failed"] =
           [dialect |-> "postgres", txn |-> "failed", durable |-> t, working |-> u]
  OBVIOUS
<1>3. o \in {Outcome([s EXCEPT !.working = after], "ok"), Outcome([s EXCEPT !.txn = "failed"], "err")}
  BY <1>1 DEF StatementOutcomes, Failing
<1> QED
  BY <1>2, <1>3 DEF Outcome

\* COMMIT of an open PostgreSQL transaction is answered so (CommitOutcomes).
LEMMA CommitInside ==
  ASSUME NEW t, NEW u, NEW s,
         s = [dialect |-> "postgres", txn |-> "open", durable |-> t, working |-> u],
         NEW o \in CommitOutcomes(s)
  PROVE  /\ o.session.txn = "none"
         /\ \/ o.reply = "ok" /\ o.session.durable = u
            \/ o.reply = "err" /\ o.session.durable = t
<1> DEFINE r == [s EXCEPT !.txn = "none"]
           a == [r EXCEPT !.durable = u]
           b == [r EXCEPT !.working = t]
<1>1. s.txn = "open" /\ s.dialect = "postgres" /\ s.working = u /\ s.durable = t
  OBVIOUS
<1>2. r = [dialect |-> "postgres", txn |-> "none", durable |-> t, working |-> u]
  OBVIOUS
<1>3. a = [s EXCEPT !.txn = "none", !.durable = u] /\ b = [s EXCEPT !.txn = "none", !.working = t]
  OBVIOUS
<1>4. a.txn = "none" /\ a.durable = u /\ b.txn = "none" /\ b.durable = t
  <2> HIDE DEF r
  <2> QED BY <1>2
<1> HIDE DEF r, a, b
<1>5. Published(s) = a /\ Discarded(s) = b
  BY <1>1, <1>3 DEF Published, Discarded
<1>6. o \in {Outcome(a, "ok"), Outcome(b, "err")}
  BY <1>1, <1>5 DEF CommitOutcomes, Failing
<1> QED
  BY <1>4, <1>6 DEF Outcome

\* What a statement leaves behind, whatever it is.
LEMMA DoFacts ==
  ASSUME TypeOK, NEW p \in Processes, NEW outcomes, NEW next, Do(p, outcomes, next)
  PROVE  /\ faults' \in 0 .. MaxFaults
         /\ \E o \in outcomes :
              /\ table' = o.session.durable
              /\ conn' = [conn EXCEPT ![p] =
                            [txn |-> o.session.txn,
                             draft |-> IF o.session.txn # "none" /\ o.session.working # o.session.durable
                                         THEN <<o.session.working>> ELSE <<>>]]
              /\ pc' = [pc EXCEPT ![p] =
                          IF o.reply = "ok" THEN next
                          ELSE IF pc[p] \in {"drop_column", "rename", "commit"} THEN "drop" ELSE "idle"]
<1>1. PICK o \in outcomes :
        /\ table' = o.session.durable
        /\ conn' = [conn EXCEPT ![p] =
                      [txn |-> o.session.txn,
                       draft |-> IF o.session.txn # "none" /\ o.session.working # o.session.durable
                                   THEN <<o.session.working>> ELSE <<>>]]
        /\ pc' = [pc EXCEPT ![p] =
                    IF o.reply = "ok" THEN next
                    ELSE IF pc[p] \in {"drop_column", "rename", "commit"} THEN "drop" ELSE "idle"]
        /\ faults' = faults + (IF o.reply = "err" /\ \E k \in outcomes : k.reply = "ok" THEN 1 ELSE 0)
        /\ faults' <= MaxFaults
  BY Zenon DEF Do
<1>2. faults' = faults \/ faults' = faults + 1
  BY <1>1, BoundsAssumption DEF TypeOK
<1>3. faults' \in 0 .. MaxFaults
  BY <1>1, <1>2, BoundsAssumption DEF TypeOK
<1> QED
  BY <1>1, <1>3

\* A statement in autocommit changes the table or fails and changes nothing.
LEMMA DoAlone ==
  ASSUME TypeOK, NEW p \in Processes, conn[p].txn = "none", conn[p].draft = <<>>,
         pc[p] \notin {"drop_column", "rename", "commit"},
         NEW possible, NEW after, NEW next, Do(p, Change(p, possible, after), next)
  PROVE  /\ conn' = conn
         /\ faults' \in 0 .. MaxFaults
         /\ \/ possible /\ pc' = [pc EXCEPT ![p] = next] /\ table' = after
            \/ pc' = [pc EXCEPT ![p] = "idle"] /\ table' = table
<1>1. Session(p) = [dialect |-> dialect, txn |-> "none", durable |-> table, working |-> table]
  BY DEF Session, View, Locks
<1>2. PICK o \in Change(p, possible, after) :
        /\ table' = o.session.durable
        /\ conn' = [conn EXCEPT ![p] =
                      [txn |-> o.session.txn,
                       draft |-> IF o.session.txn # "none" /\ o.session.working # o.session.durable
                                   THEN <<o.session.working>> ELSE <<>>]]
        /\ pc' = [pc EXCEPT ![p] = IF o.reply = "ok" THEN next ELSE "idle"]
  BY DoFacts
<1>3. /\ o.session.txn = "none"
      /\ \/ possible /\ o.reply = "ok" /\ o.session.durable = after
         \/ o.reply = "err" /\ o.session.durable = table
  <2>1. CASE possible
    BY <1>1, <1>2, <2>1, StatementAlone DEF Change
  <2>2. CASE ~possible
    <3>1. [Session(p) EXCEPT !.txn = IF @ = "none" THEN @ ELSE "failed"] = Session(p)
      BY <1>1
    <3> QED
      BY <1>1, <1>2, <2>2, <3>1 DEF Change, Outcome
  <2> QED
    BY <2>1, <2>2
<1>4. conn[p] = [txn |-> "none", draft |-> <<>>] /\ conn = [conn EXCEPT ![p] = conn[p]]
  BY DEF TypeOK
<1>5. conn' = conn
  BY <1>2, <1>3, <1>4
<1>6. faults' \in 0 .. MaxFaults
  BY DoFacts
<1> QED
  BY <1>2, <1>3, <1>5, <1>6

\* A statement in the transaction changes the draft, or the transaction has failed.
LEMMA DoInside ==
  ASSUME TypeOK, NEW p \in Processes, conn[p].txn = "open", dialect = "postgres",
         pc[p] \in {"drop_column", "rename"},
         NEW possible, NEW after, NEW next, Do(p, Change(p, possible, after), next)
  PROVE  /\ table' = table
         /\ faults' \in 0 .. MaxFaults
         /\ \/ /\ possible /\ pc' = [pc EXCEPT ![p] = next]
               /\ conn' = [conn EXCEPT ![p] =
                             [txn |-> "open", draft |-> IF after # table THEN <<after>> ELSE <<>>]]
            \/ /\ pc' = [pc EXCEPT ![p] = "drop"]
               /\ conn' = [conn EXCEPT ![p] =
                             [txn |-> "failed", draft |-> IF View(p) # table THEN <<View(p)>> ELSE <<>>]]
<1>1. Session(p) = [dialect |-> "postgres", txn |-> "open", durable |-> table, working |-> View(p)]
  BY DEF Session
<1>2. PICK o \in Change(p, possible, after) :
        /\ table' = o.session.durable
        /\ conn' = [conn EXCEPT ![p] =
                      [txn |-> o.session.txn,
                       draft |-> IF o.session.txn # "none" /\ o.session.working # o.session.durable
                                   THEN <<o.session.working>> ELSE <<>>]]
        /\ pc' = [pc EXCEPT ![p] = IF o.reply = "ok" THEN next ELSE "drop"]
  BY DoFacts
<1>3. \/ /\ possible
         /\ o.session = [dialect |-> "postgres", txn |-> "open", durable |-> table, working |-> after]
         /\ o.reply = "ok"
      \/ /\ o.session = [dialect |-> "postgres", txn |-> "failed", durable |-> table, working |-> View(p)]
         /\ o.reply = "err"
  <2>1. CASE possible
    BY <1>1, <1>2, <2>1, StatementInside DEF Change
  <2>2. CASE ~possible
    <3>1. [Session(p) EXCEPT !.txn = IF @ = "none" THEN @ ELSE "failed"] =
            [dialect |-> "postgres", txn |-> "failed", durable |-> table, working |-> View(p)]
      BY <1>1
    <3> QED
      BY <1>1, <1>2, <2>2, <3>1 DEF Change, Outcome
  <2> QED
    BY <2>1, <2>2
<1>4. /\ o.session.durable = table
      /\ \/ /\ possible /\ o.reply = "ok"
            /\ o.session.txn = "open" /\ o.session.working = after
         \/ /\ o.reply = "err"
            /\ o.session.txn = "failed" /\ o.session.working = View(p)
  BY <1>3
<1>5. faults' \in 0 .. MaxFaults
  BY DoFacts
<1> QED
  BY <1>2, <1>4, <1>5

\* A statement that changes nothing is a change into the same.
LEMMA SameIsChange ==
  ASSUME NEW p \in Processes
  PROVE  Same(p) = Change(p, TRUE, View(p))
BY DEF Same, Change

\* BEGIN opens the transaction or fails.
LEMMA DoBegin ==
  ASSUME TypeOK, NEW p \in Processes, conn[p].txn = "none", conn[p].draft = <<>>,
         NEW next, Do(p, BeginOutcomes(Session(p)), next)
  PROVE  /\ table' = table
         /\ faults' \in 0 .. MaxFaults
         /\ pc' = [pc EXCEPT ![p] = next]
         /\ conn' = [conn EXCEPT ![p] = [txn |-> "open", draft |-> <<>>]]
<1>1. Session(p) = [dialect |-> dialect, txn |-> "none", durable |-> table, working |-> table]
  BY DEF Session, View, Locks
<1>2. BeginOutcomes(Session(p)) =
        {[session |-> [dialect |-> dialect, txn |-> "open", durable |-> table, working |-> table],
          reply |-> "ok"]}
  BY <1>1 DEF BeginOutcomes, Outcome
<1>3. faults' \in 0 .. MaxFaults
  BY DoFacts
<1> QED
  <2>1. PICK o \in BeginOutcomes(Session(p)) :
          /\ table' = o.session.durable
          /\ conn' = [conn EXCEPT ![p] =
                        [txn |-> o.session.txn,
                         draft |-> IF o.session.txn # "none" /\ o.session.working # o.session.durable
                                     THEN <<o.session.working>> ELSE <<>>]]
          /\ pc' = [pc EXCEPT ![p] =
                      IF o.reply = "ok" THEN next
                      ELSE IF pc[p] \in {"drop_column", "rename", "commit"} THEN "drop" ELSE "idle"]
    BY DoFacts
  <2>2. o.session.durable = table /\ o.session.txn = "open" /\ o.session.working = table /\ o.reply = "ok"
    BY <1>2
  <2> QED
    BY <1>3, <2>1, <2>2

\* COMMIT publishes the draft or, when it fails, throws it away.
LEMMA DoCommit ==
  ASSUME TypeOK, NEW p \in Processes, conn[p].txn = "open", dialect = "postgres",
         pc[p] = "commit", NEW next, Do(p, CommitOutcomes(Session(p)), next)
  PROVE  /\ faults' \in 0 .. MaxFaults
         /\ conn' = [conn EXCEPT ![p] = [txn |-> "none", draft |-> <<>>]]
         /\ \/ pc' = [pc EXCEPT ![p] = next] /\ table' = View(p)
            \/ pc' = [pc EXCEPT ![p] = "drop"] /\ table' = table
<1>1. Session(p) = [dialect |-> "postgres", txn |-> "open", durable |-> table, working |-> View(p)]
  BY DEF Session
<1>2. PICK o \in CommitOutcomes(Session(p)) :
        /\ table' = o.session.durable
        /\ conn' = [conn EXCEPT ![p] =
                      [txn |-> o.session.txn,
                       draft |-> IF o.session.txn # "none" /\ o.session.working # o.session.durable
                                   THEN <<o.session.working>> ELSE <<>>]]
        /\ pc' = [pc EXCEPT ![p] = IF o.reply = "ok" THEN next ELSE "drop"]
  BY DoFacts
<1>3. \/ /\ o.session.txn = "none" /\ o.session.durable = View(p) /\ o.reply = "ok"
      \/ /\ o.session.txn = "none" /\ o.session.durable = table /\ o.reply = "err"
  BY <1>1, <1>2, CommitInside
<1>4. faults' \in 0 .. MaxFaults
  BY DoFacts
<1> QED
  BY <1>2, <1>3, <1>4

-----------------------------------------------------------------------------
(* What is true at every moment of a repair *)

Swapping == {"drop_column", "rename", "commit", "drop"}
OnPostgres == {"extension", "type", "select", "add", "copy", "drop_column", "rename", "commit",
               "end", "drop"}
PastSwap == {"end", "ensure", "lookup", "insert", "update", "return"}

\* The column a process repairs is one of the columns.
LEMMA TargetFacts ==
  ASSUME TypeOK, NEW p \in Processes
  PROVE  /\ job[p] \in Seq(Columns) /\ done[p] \in Nat
         /\ done[p] < Len(job[p]) => Target(p) \in Columns /\ done[p] + 1 \in 1 .. Len(job[p])
         /\ \A n \in 1 .. done[p] : job[p][n] \in Columns
BY JobsAssumption DEF TypeOK, Target

\* A process that is in no transaction has no draft, and reads the committed table.
LEMMA OutsideFacts ==
  ASSUME RepairInv, NEW p \in Processes, pc[p] \notin Swapping
  PROVE  /\ conn[p].txn = "none" /\ conn[p].draft = <<>>
         /\ conn[p] = [txn |-> "none", draft |-> <<>>]
         /\ ~Locks(p) /\ View(p) = table
BY DEF RepairInv, ConnSound, Swapping, Locks, View, TypeOK

\* A process between DROP COLUMN and COMMIT has the table to itself.
LEMMA LockingFacts ==
  ASSUME RepairInv, NEW p \in Processes, pc[p] \in {"rename", "commit"}
  PROVE  /\ Locks(p) /\ Free(p)
         /\ pc[p] = "rename" => View(p) = Dropped(Target(p))
         /\ pc[p] = "commit" => View(p) = Exchanged(Target(p)) /\ table.helper # <<>>
<1>1. Locks(p)
  BY OneIsNotNone DEF RepairInv, ConnSound, Locks
<1>2. Free(p)
  BY <1>1 DEF RepairInv, ConnSound, Free
<1> QED
  BY <1>1, <1>2 DEF RepairInv, ConnSound, View

\* What belongs to a process p at statement l with connection k.
Fits(p, l, k) ==
  /\ l \in Statement \cup {"idle"}
  /\ k \in [txn : {"none", "open", "failed"}, draft : Seq(Table)]
  /\ l \notin Swapping => k = [txn |-> "none", draft |-> <<>>]
  /\ l = "drop_column" => k = [txn |-> "open", draft |-> <<>>]
  /\ l = "rename" => k = [txn |-> "open", draft |-> <<Dropped(Target(p))>>]
  /\ l = "commit" => k = [txn |-> "open", draft |-> <<Exchanged(Target(p))>>] /\ table.helper # <<>>
  /\ k.draft # <<>> => Free(p)
  /\ l # "idle" => done[p] < Len(job[p])
  /\ l = "select_nothing" => dialect = "sqlite"
  /\ l \in OnPostgres => dialect = "postgres"
  /\ l \in PastSwap => Repaired(Target(p))
  /\ l = "return" => HashIsPresent'

\* A step of one process that leaves the table keeps what is true at every moment, if it
\* brings the process to a statement with the connection that belongs to it.
LEMMA TableStays ==
  ASSUME RepairInv, NEW p \in Processes, NEW l, NEW k, Fits(p, l, k),
         pc' = [pc EXCEPT ![p] = l], conn' = [conn EXCEPT ![p] = k],
         UNCHANGED <<dialect, table, job, done, truth, writes>>,
         faults' \in 0 .. MaxFaults, copies' \in [Processes -> SUBSET (Ids \X Vectors)],
         ledger' = ledger \/ HashIsPresent',
         DOMAIN ledger' \subseteq Nat, Range(ledger') \subseteq Range(History) \cup {LegacyHash}
  PROVE  RepairInv'
<1> USE DEF Fits
<1>1. /\ pc[p] \in Statement \cup {"idle"} /\ pc' \in [Processes -> Statement \cup {"idle"}]
      /\ pc'[p] = l /\ \A q \in Processes : q # p => pc'[q] = pc[q]
  BY DEF RepairInv, TypeOK
<1>2. /\ conn' \in [Processes -> [txn : {"none", "open", "failed"}, draft : Seq(Table)]]
      /\ conn'[p] = k /\ \A q \in Processes : q # p => conn'[q] = conn[q]
  BY DEF RepairInv, TypeOK
<1>3. /\ \A q \in Processes : Target(q)' = Target(q)
      /\ \A c : Dropped(c)' = Dropped(c) /\ Exchanged(c)' = Exchanged(c) /\ Repaired(c)' = Repaired(c)
      /\ HashIsPresent => HashIsPresent'
  BY DEF Target, Dropped, Exchanged, Repaired, HashIsPresent
<1>4. TypeOK'
  BY <1>1, <1>2 DEF RepairInv, TypeOK
<1>5. ConnSound'
  <2>1. ASSUME NEW q \in Processes
        PROVE  LET open(draft) == conn[q].txn = "open" /\ conn[q].draft = draft
               IN  (/\ pc[q] \notin {"drop_column", "rename", "commit", "drop"} =>
                         conn[q].txn = "none" /\ conn[q].draft = <<>>
                    /\ pc[q] = "drop_column" => open(<<>>)
                    /\ pc[q] = "rename" => open(<<Dropped(Target(q))>>)
                    /\ pc[q] = "commit" => open(<<Exchanged(Target(q))>>) /\ table.helper # <<>>)'
    <3>1. CASE q = p
      BY <1>1, <1>2, <1>3, <3>1 DEF Swapping
    <3>2. CASE q # p
      BY <1>1, <1>2, <1>3, <3>2 DEF RepairInv, ConnSound
    <3> QED
      BY <3>1, <3>2
  <2>2. ASSUME NEW q \in Processes, NEW r \in Processes, Locks(q)', Locks(r)'
        PROVE  q = r
    BY <1>2, <2>2 DEF Locks, Free, RepairInv, ConnSound
  <2> QED
    BY <2>1, <2>2 DEF ConnSound
<1>6. DialectSound'
  BY <1>1 DEF RepairInv, DialectSound, OnPostgres
<1>7. StageSound'
  <2>1. ASSUME NEW q \in Processes
        PROVE  (/\ pc[q] \in PastSwap => Repaired(Target(q))
                /\ pc[q] = "return" => HashIsPresent
                /\ \A n \in 1 .. done[q] : Repaired(job[q][n]) /\ HashIsPresent)'
    BY <1>1, <1>3 DEF RepairInv, StageSound, PastSwap
  <2> QED
    BY <2>1 DEF StageSound, PastSwap
<1> QED
  BY <1>4, <1>5, <1>6, <1>7 DEF RepairInv

\* A statement outside the exchange keeps what is true at every moment.
LEMMA OutsideStep ==
  ASSUME RepairInv, NEW p \in Processes, NEW l \in (Statement \cup {"idle"}) \ Swapping,
         pc[p] \notin Swapping, pc' = [pc EXCEPT ![p] = l],
         UNCHANGED <<dialect, table, conn, ledger, job, done, truth, writes>>,
         faults' \in 0 .. MaxFaults, copies' \in [Processes -> SUBSET (Ids \X Vectors)],
         l # "idle" => done[p] < Len(job[p]),
         l = "select_nothing" => dialect = "sqlite",
         l \in OnPostgres => dialect = "postgres",
         l \in PastSwap => Repaired(Target(p)),
         l = "return" => HashIsPresent
  PROVE  RepairInv'
<1>1. conn[p] = [txn |-> "none", draft |-> <<>>]
  BY OutsideFacts
<1>2. /\ conn' = [conn EXCEPT ![p] = [txn |-> "none", draft |-> <<>>]]
      /\ [txn |-> "none", draft |-> <<>>] \in [txn : {"none", "open", "failed"}, draft : Seq(Table)]
  BY <1>1 DEF RepairInv, TypeOK
<1>3. /\ DOMAIN ledger' \subseteq Nat /\ Range(ledger') \subseteq Range(History) \cup {LegacyHash}
      /\ HashIsPresent' = HashIsPresent
  BY DEF RepairInv, TypeOK, HashIsPresent, Range
<1> DEFINE k == [txn |-> "none", draft |-> <<>>]
<1>4. Fits(p, l, k)
  BY <1>1, <1>3 DEF Fits, Swapping
<1> HIDE DEF k
<1> QED
  BY <1>2, <1>3, <1>4, TableStays DEF k

\* A statement that only reads leaves the table and the connection (Change, Same).
LEMMA DoReading ==
  ASSUME RepairInv, NEW p \in Processes, pc[p] \notin Swapping, pc[p] # "idle",
         NEW possible, NEW next,
         Do(p, Change(p, possible, View(p)), next), UNCHANGED rest
  PROVE  /\ UNCHANGED <<dialect, table, conn, job, done, truth, writes>>
         /\ faults' \in 0 .. MaxFaults
         /\ done[p] < Len(job[p])
         /\ \/ possible /\ pc' = [pc EXCEPT ![p] = next]
            \/ pc' = [pc EXCEPT ![p] = "idle"]
<1>1. TypeOK /\ View(p) = table /\ conn[p].txn = "none" /\ conn[p].draft = <<>>
  BY OutsideFacts DEF RepairInv
<1>2. done[p] < Len(job[p])
  BY DEF RepairInv, DialectSound
<1>3. pc[p] \notin {"drop_column", "rename", "commit"}
  BY DEF Swapping
<1>4. /\ conn' = conn /\ faults' \in 0 .. MaxFaults
      /\ \/ possible /\ pc' = [pc EXCEPT ![p] = next] /\ table' = View(p)
         \/ pc' = [pc EXCEPT ![p] = "idle"] /\ table' = table
  BY <1>1, <1>3, DoAlone
<1> QED
  BY <1>1, <1>2, <1>4 DEF rest

\* SELECT ... LIMIT 0, on SQLite (repair_legacy_vector_column).
LEMMA SelectNothingStep ==
  ASSUME RepairInv, NEW p \in Processes, SelectNothing(p)
  PROVE  /\ RepairInv' /\ UNCHANGED <<table, job, done, truth, copies>>
         /\ pc' = [pc EXCEPT ![p] = "ensure"] \/ pc' = [pc EXCEPT ![p] = "idle"]
<1>1. pc[p] = "select_nothing" /\ dialect = "sqlite" /\ pc[p] \notin Swapping /\ pc[p] # "idle"
  BY DEF SelectNothing, At, RepairInv, DialectSound, Swapping
<1>2. Do(p, Change(p, Type(p) # "none", View(p)), "ensure") /\ UNCHANGED <<rest, ledger, copies>>
  BY DEF SelectNothing
<1>3. /\ UNCHANGED <<dialect, table, conn, job, done, truth, writes>>
      /\ faults' \in 0 .. MaxFaults /\ done[p] < Len(job[p])
      /\ \/ Type(p) # "none" /\ pc' = [pc EXCEPT ![p] = "ensure"]
         \/ pc' = [pc EXCEPT ![p] = "idle"]
  BY <1>1, <1>2, DoReading
<1>4. UNCHANGED <<ledger, copies>> /\ copies' \in [Processes -> SUBSET (Ids \X Vectors)]
  BY <1>2 DEF RepairInv, TypeOK
<1>5. CASE Type(p) # "none" /\ pc' = [pc EXCEPT ![p] = "ensure"]
  <2>1. Target(p) \in Columns
    BY <1>3, TargetFacts DEF RepairInv
  <2>2. table.columns[Target(p)].type # "none"
    BY <1>1, <1>5, OutsideFacts DEF Type
  <2>3. table.columns[Target(p)].type \in {"bytea", "vector", "none"}
    BY <2>1, TableFacts DEF RepairInv, TypeOK
  <2>4. Repaired(Target(p))
    BY <1>1, <2>1, <2>2, <2>3 DEF Repaired, RepairInv, DialectSound
  <2>5. RepairInv'
    BY <1>1, <1>3, <1>4, <1>5, <2>4, OutsideStep DEF Statement, Swapping, OnPostgres
  <2> QED
    BY <1>3, <1>4, <1>5, <2>5
<1>6. CASE pc' = [pc EXCEPT ![p] = "idle"]
  <2>1. RepairInv'
    BY <1>1, <1>3, <1>4, <1>6, OutsideStep DEF Statement, Swapping, OnPostgres, PastSwap
  <2> QED
    BY <1>3, <1>4, <1>6, <2>1
<1> QED
  BY <1>3, <1>5, <1>6

\* CREATE EXTENSION (repair_postgres_legacy_vector_column).
LEMMA CreateExtensionStep ==
  ASSUME RepairInv, NEW p \in Processes, CreateExtension(p)
  PROVE  /\ RepairInv' /\ UNCHANGED <<table, job, done, truth, copies>>
         /\ pc' = [pc EXCEPT ![p] = "type"] \/ pc' = [pc EXCEPT ![p] = "idle"]
<1>1. pc[p] = "extension" /\ dialect = "postgres" /\ pc[p] \notin Swapping /\ pc[p] # "idle"
  BY DEF CreateExtension, At, RepairInv, DialectSound, Swapping
<1>2. Do(p, Change(p, TRUE, View(p)), "type") /\ UNCHANGED <<rest, ledger, copies>>
  BY SameIsChange DEF CreateExtension
<1>3. /\ UNCHANGED <<dialect, table, conn, job, done, truth, writes>>
      /\ faults' \in 0 .. MaxFaults /\ done[p] < Len(job[p])
      /\ pc' = [pc EXCEPT ![p] = "type"] \/ pc' = [pc EXCEPT ![p] = "idle"]
  BY <1>1, <1>2, DoReading
<1>4. UNCHANGED <<ledger, copies>> /\ copies' \in [Processes -> SUBSET (Ids \X Vectors)]
  BY <1>2 DEF RepairInv, TypeOK
<1>5. PICK l \in {"type", "idle"} : pc' = [pc EXCEPT ![p] = l]
  BY <1>3
<1>6. RepairInv'
  BY <1>1, <1>3, <1>4, <1>5, OutsideStep DEF Statement, Swapping, PastSwap
<1> QED
  BY <1>3, <1>4, <1>6

\* SELECT udt_name (repair_postgres_legacy_vector_column).
LEMMA ReadTypeStep ==
  ASSUME RepairInv, NEW p \in Processes, ReadType(p)
  PROVE  /\ RepairInv' /\ UNCHANGED <<table, job, done, truth, copies>>
         /\ dialect = "postgres"
         /\ \/ table.columns[Target(p)].type = "vector" /\ pc' = [pc EXCEPT ![p] = "ensure"]
            \/ table.columns[Target(p)].type # "vector" /\ pc' = [pc EXCEPT ![p] = "select"]
            \/ pc' = [pc EXCEPT ![p] = "idle"]
<1> DEFINE next == IF TypeRepaired(Type(p)) THEN "ensure" ELSE "select"
<1>1. pc[p] = "type" /\ dialect = "postgres" /\ pc[p] \notin Swapping /\ pc[p] # "idle"
  BY DEF ReadType, At, RepairInv, DialectSound, Swapping
<1>2. Do(p, Change(p, Type(p) # "none", View(p)), next) /\ UNCHANGED <<rest, ledger, copies>>
  BY DEF ReadType
<1>n. /\ next = "ensure" => Repaired(Target(p)) /\ table.columns[Target(p)].type = "vector"
      /\ next = "select" => table.columns[Target(p)].type # "vector"
      /\ next \in {"ensure", "select"}
  BY <1>1, OutsideFacts DEF TypeRepaired, Type, Repaired
<1> HIDE DEF next
<1>3. /\ UNCHANGED <<dialect, table, conn, job, done, truth, writes>>
      /\ faults' \in 0 .. MaxFaults /\ done[p] < Len(job[p])
      /\ pc' = [pc EXCEPT ![p] = next] \/ pc' = [pc EXCEPT ![p] = "idle"]
  BY <1>1, <1>2, DoReading
<1>4. UNCHANGED <<ledger, copies>> /\ copies' \in [Processes -> SUBSET (Ids \X Vectors)]
  BY <1>2 DEF RepairInv, TypeOK
<1>5. PICK l \in {next, "idle"} : pc' = [pc EXCEPT ![p] = l]
  BY <1>3
<1>6. RepairInv'
  BY <1>1, <1>3, <1>4, <1>5, <1>n, OutsideStep DEF Statement, Swapping, PastSwap
<1> QED
  BY <1>1, <1>3, <1>4, <1>6, <1>n

\* Convertible rows hold vectors or nothing, and what is converted of them are vectors
\* (legacy_float_vector).
LEMMA ConvertedFacts ==
  ASSUME NEW cells \in [Ids -> Cells], Convertible(cells)
  PROVE  /\ Converted(cells) \in SUBSET (Ids \X Vectors)
         /\ \A copy \in Converted(cells) : copy[1] \in Ids /\ copy[2] = cells[copy[1]].value /\ copy[2] # "null"
         /\ \A i \in Ids : cells[i].value = "null" \/ <<i, cells[i].value>> \in Converted(cells)
<1>1. ASSUME NEW i \in Ids
      PROVE  /\ cells[i].kind = "blob" => cells[i].value \in Vectors
             /\ cells[i].kind # "blob" => cells[i].value = "null"
  BY DEF Convertible, Cells, Cell, Null
<1>2. "null" \notin Vectors
  BY VectorsAssumption
<1> QED
  BY <1>1, <1>2 DEF Converted

\* SELECT id, vector: the rows are read and converted (repair_postgres_legacy_vector_column).
LEMMA SelectRowsStep ==
  ASSUME RepairInv, NEW p \in Processes, SelectRows(p)
  PROVE  /\ RepairInv' /\ UNCHANGED <<table, job, done, truth>>
         /\ pc[p] = "select" /\ done[p] < Len(job[p])
         /\ \/ /\ pc' = [pc EXCEPT ![p] = "add"]
               /\ Convertible(table.columns[Target(p)].cells)
               /\ copies' = [copies EXCEPT ![p] = Converted(table.columns[Target(p)].cells)]
            \/ /\ pc' = [pc EXCEPT ![p] = "idle"]
               /\ copies' = [copies EXCEPT ![p] = {}]
<1> DEFINE cells == CellsOf(p)
<1>1. pc[p] = "select" /\ dialect = "postgres" /\ pc[p] \notin Swapping /\ pc[p] # "idle"
  BY DEF SelectRows, At, RepairInv, DialectSound, Swapping
<1>2. /\ Do(p, Change(p, Convertible(cells), View(p)), "add") /\ UNCHANGED <<rest, ledger>>
      /\ copies' = [copies EXCEPT ![p] = IF pc'[p] = "add" THEN Converted(cells) ELSE {}]
  BY DEF SelectRows
<1>3. /\ UNCHANGED <<dialect, table, conn, job, done, truth, writes>>
      /\ faults' \in 0 .. MaxFaults /\ done[p] < Len(job[p])
      /\ \/ Convertible(cells) /\ pc' = [pc EXCEPT ![p] = "add"]
         \/ pc' = [pc EXCEPT ![p] = "idle"]
  <2> HIDE DEF cells
  <2> QED
    BY <1>1, <1>2, DoReading
<1>4. /\ cells = table.columns[Target(p)].cells /\ cells \in [Ids -> Cells]
      /\ copies \in [Processes -> SUBSET (Ids \X Vectors)] /\ pc \in [Processes -> Statement \cup {"idle"}]
  BY <1>1, <1>3, OutsideFacts, TargetFacts, TableFacts DEF CellsOf, RepairInv, TypeOK
<1> HIDE DEF cells
<1>5. CASE Convertible(cells) /\ pc' = [pc EXCEPT ![p] = "add"]
  <2>1. copies' = [copies EXCEPT ![p] = Converted(cells)]
    BY <1>2, <1>4, <1>5
  <2>2. copies' \in [Processes -> SUBSET (Ids \X Vectors)]
    BY <1>4, <1>5, <2>1, ConvertedFacts
  <2>3. RepairInv'
    BY <1>1, <1>2, <1>3, <1>5, <2>2, OutsideStep DEF Statement, Swapping, PastSwap
  <2> QED
    BY <1>1, <1>3, <1>4, <1>5, <2>1, <2>3
<1>6. CASE pc' = [pc EXCEPT ![p] = "idle"]
  <2>1. copies' = [copies EXCEPT ![p] = {}] /\ copies' \in [Processes -> SUBSET (Ids \X Vectors)]
    BY <1>2, <1>4, <1>6
  <2>2. RepairInv'
    <3>1. ledger' = ledger
      BY <1>2
    <3>2. "idle" \in (Statement \cup {"idle"}) \ Swapping /\ "idle" \notin OnPostgres /\ "idle" \notin PastSwap
      BY DEF Swapping, OnPostgres, PastSwap
    <3> QED
      BY <1>1, <1>3, <1>6, <2>1, <3>1, <3>2, OutsideStep
  <2> QED
    BY <1>1, <1>3, <1>6, <2>1, <2>2
<1> QED
  BY <1>3, <1>5, <1>6

\* A statement on the helper column keeps what is true at every moment: nobody is in the
\* middle of an exchange, so the table a process has in its transaction is nobody's.
LEMMA HelperStep ==
  ASSUME RepairInv, NEW p \in Processes, NEW l \in {"copy", "idle"},
         pc[p] \in {"add", "copy"}, pc' = [pc EXCEPT ![p] = l],
         UNCHANGED <<dialect, conn, ledger, job, done, truth, writes>>,
         faults' \in 0 .. MaxFaults, copies' \in [Processes -> SUBSET (Ids \X Vectors)],
         table' \in Table, table'.columns = table.columns, Free(p)
  PROVE  RepairInv'
<1>1. /\ pc' \in [Processes -> Statement \cup {"idle"}] /\ dialect = "postgres" /\ done[p] < Len(job[p])
      /\ pc'[p] = l /\ \A q \in Processes : q # p => pc'[q] = pc[q]
  BY DEF RepairInv, TypeOK, DialectSound, Statement
<1>2. /\ \A q \in Processes : Target(q)' = Target(q)
      /\ \A c : Repaired(c)' = Repaired(c)
      /\ HashIsPresent' = HashIsPresent
  BY DEF Target, Repaired, HashIsPresent
<1>3. \A q \in Processes : pc[q] \notin {"rename", "commit"}
  BY LockingFacts DEF Free
<1>4. TypeOK'
  BY <1>1 DEF RepairInv, TypeOK
<1>5. ConnSound'
  BY <1>1, <1>3 DEF RepairInv, ConnSound, Locks
<1>6. DialectSound'
  BY <1>1 DEF RepairInv, DialectSound
<1>7. StageSound'
  BY <1>1, <1>2 DEF RepairInv, StageSound
<1> QED
  BY <1>4, <1>5, <1>6, <1>7 DEF RepairInv

\* ADD COLUMN IF NOT EXISTS (repair_postgres_legacy_vector_column).
LEMMA AddColumnStep ==
  ASSUME RepairInv, NEW p \in Processes, AddColumn(p)
  PROVE  /\ RepairInv' /\ UNCHANGED <<job, done, truth, copies>>
         /\ pc[p] = "add" /\ table'.columns = table.columns
         /\ \/ /\ pc' = [pc EXCEPT ![p] = "copy"]
               /\ table'.helper = IF table.helper = <<>> THEN <<NoCells>> ELSE table.helper
            \/ /\ pc' = [pc EXCEPT ![p] = "idle"]
               /\ table' = table
<1> DEFINE h == IF table.helper = <<>> THEN <<NoCells>> ELSE table.helper
           t == [table EXCEPT !.helper = h]
<1>1. pc[p] = "add" /\ pc[p] \notin Swapping /\ pc[p] \notin {"drop_column", "rename", "commit"}
  BY DEF AddColumn, At, Swapping
<1>2. TypeOK /\ View(p) = table /\ conn[p].txn = "none" /\ conn[p].draft = <<>>
  BY <1>1, OutsideFacts DEF RepairInv
<1>3. t = [View(p) EXCEPT !.helper = IF @ = <<>> THEN <<NoCells>> ELSE @]
  BY <1>2 DEF TypeOK, Table
<1>4. Do(p, Change(p, TRUE, t), "copy") /\ Free(p) /\ UNCHANGED <<rest, ledger, copies>>
  <2> HIDE DEF t
  <2> QED
    BY <1>3 DEF AddColumn
<1>5. h \in {<<>>} \cup {<<cells>> : cells \in [Ids -> Cells]}
  BY <1>2, NoCellsTyped, TableFacts DEF TypeOK
<1> HIDE DEF h
<1>6. t \in Table /\ t.helper = h /\ t.columns = table.columns
  BY <1>2, <1>5, HelperReplaced DEF TypeOK
<1> HIDE DEF t
<1>7. /\ conn' = conn /\ faults' \in 0 .. MaxFaults
      /\ \/ pc' = [pc EXCEPT ![p] = "copy"] /\ table' = t
         \/ pc' = [pc EXCEPT ![p] = "idle"] /\ table' = table
  BY <1>1, <1>2, <1>4, DoAlone
<1>8. UNCHANGED <<dialect, conn, ledger, job, done, truth, writes, copies>>
  BY <1>4, <1>7 DEF rest
<1>9. table' \in Table /\ table'.columns = table.columns
      /\ copies' \in [Processes -> SUBSET (Ids \X Vectors)]
  BY <1>2, <1>6, <1>7, <1>8 DEF TypeOK
<1>10. PICK l \in {"copy", "idle"} : pc' = [pc EXCEPT ![p] = l]
  BY <1>7
<1>11. RepairInv'
  BY <1>1, <1>4, <1>7, <1>8, <1>9, <1>10, HelperStep
<1> QED
  BY <1>1, <1>6, <1>7, <1>8, <1>9, <1>11 DEF h

\* Replacing what a sequence of one holds.
LEMMA OneReplaced == \A x, y : [<<x>> EXCEPT ![1] = y] = <<y>>
OBVIOUS

\* One cell of the helper column has been written.
LEMMA HelperCell ==
  ASSUME NEW t \in Table, t.helper # <<>>, NEW i \in Ids, NEW cell \in Cells
  PROVE  /\ [t EXCEPT !.helper[1][i] = cell] = [t EXCEPT !.helper = <<[t.helper[1] EXCEPT ![i] = cell]>>]
         /\ <<[t.helper[1] EXCEPT ![i] = cell]>> \in {<<>>} \cup {<<c>> : c \in [Ids -> Cells]}
<1> DEFINE h == <<[t.helper[1] EXCEPT ![i] = cell]>>
           u == [t EXCEPT !.helper[1][i] = cell]
<1>1. t.helper = <<t.helper[1]>> /\ t.helper[1] \in [Ids -> Cells]
  BY TableFacts
<1>2. [t.helper[1] EXCEPT ![i] = cell] \in [Ids -> Cells]
  BY <1>1
<1>3. h \in {<<>>} \cup {<<c>> : c \in [Ids -> Cells]}
  BY <1>2
<1>4. [t.helper EXCEPT ![1] = [t.helper[1] EXCEPT ![i] = cell]] = h
  <2> DEFINE x == t.helper[1]
             y == [t.helper[1] EXCEPT ![i] = cell]
  <2>1. t.helper = <<x>>
    BY <1>1
  <2>2. h = <<y>>
    OBVIOUS
  <2>3. [<<x>> EXCEPT ![1] = y] = <<y>>
    <3> HIDE DEF x, y
    <3> QED BY OneReplaced
  <2> SUFFICES [t.helper EXCEPT ![1] = y] = h
    OBVIOUS
  <2> HIDE DEF x, y, h
  <2> QED
    BY <2>1, <2>2, <2>3
<1>5. u = [t EXCEPT !.helper = [t.helper EXCEPT ![1] = [t.helper[1] EXCEPT ![i] = cell]]]
  BY Zenon
<1>6. u = [t EXCEPT !.helper = h]
  <2> DEFINE g == [t.helper EXCEPT ![1] = [t.helper[1] EXCEPT ![i] = cell]]
  <2>1. u = [t EXCEPT !.helper = g]
    BY <1>5, Zenon
  <2>2. g = h
    BY <1>4
  <2> HIDE DEF g, h, u
  <2> QED
    BY <2>1, <2>2
<1> QED
  BY <1>3, <1>6, Zenon

\* UPDATE of the helper column (repair_postgres_legacy_vector_column).
LEMMA CopyStep ==
  ASSUME RepairInv, NEW p \in Processes, Copy(p)
  PROVE  /\ RepairInv' /\ UNCHANGED <<job, done, truth>>
         /\ pc[p] = "copy" /\ table'.columns = table.columns
         /\ \E copy \in copies[p] :
              \/ /\ pc' = pc /\ copies' = [copies EXCEPT ![p] = @ \ {copy}]
                 /\ table.helper # <<>>
                 /\ table'.helper = <<[table.helper[1] EXCEPT ![copy[1]] = Cell("vector", copy[2])]>>
              \/ /\ pc' = [pc EXCEPT ![p] = "idle"] /\ copies' = [copies EXCEPT ![p] = {}]
                 /\ table' = table
<1>1. pc[p] = "copy" /\ pc[p] \notin Swapping /\ pc[p] \notin {"drop_column", "rename", "commit"}
  BY DEF Copy, At, Swapping
<1>2. /\ TypeOK /\ View(p) = table /\ conn[p].txn = "none" /\ conn[p].draft = <<>>
      /\ table \in Table /\ pc \in [Processes -> Statement \cup {"idle"}]
      /\ copies \in [Processes -> SUBSET (Ids \X Vectors)]
  BY <1>1, OutsideFacts DEF RepairInv, TypeOK
<1>3. PICK copy \in copies[p] :
        /\ Do(p, Change(p, View(p).helper # <<>>,
                        [View(p) EXCEPT !.helper[1][copy[1]] = Cell("vector", copy[2])]), "copy")
        /\ copies' = [copies EXCEPT ![p] = IF pc'[p] = "copy" THEN @ \ {copy} ELSE {}]
  BY DEF Copy
<1>4. Free(p) /\ UNCHANGED <<rest, ledger>>
  BY DEF Copy
<1> DEFINE t == [table EXCEPT !.helper[1][copy[1]] = Cell("vector", copy[2])]
<1>5. Do(p, Change(p, table.helper # <<>>, t), "copy")
  BY <1>2, <1>3
<1>6. copy[1] \in Ids /\ copy[2] \in Vectors /\ Cell("vector", copy[2]) \in Cells
  BY <1>2 DEF Cells
<1>7. table.helper # <<>> =>
        /\ t \in Table /\ t.columns = table.columns
        /\ t.helper = <<[table.helper[1] EXCEPT ![copy[1]] = Cell("vector", copy[2])]>>
  <2> SUFFICES ASSUME table.helper # <<>>
               PROVE  /\ t \in Table /\ t.columns = table.columns
                      /\ t.helper = <<[table.helper[1] EXCEPT ![copy[1]] = Cell("vector", copy[2])]>>
    BY Zenon
  <2> DEFINE h == <<[table.helper[1] EXCEPT ![copy[1]] = Cell("vector", copy[2])]>>
  <2>1. \A i \in Ids, cell \in Cells :
          /\ [table EXCEPT !.helper[1][i] = cell] =
               [table EXCEPT !.helper = <<[table.helper[1] EXCEPT ![i] = cell]>>]
          /\ <<[table.helper[1] EXCEPT ![i] = cell]>> \in {<<>>} \cup {<<c>> : c \in [Ids -> Cells]}
    <3>1. table \in Table
      BY <1>2
    <3> QED
      BY <3>1, HelperCell, Zenon
  <2>2. t = [table EXCEPT !.helper = h] /\ h \in {<<>>} \cup {<<c>> : c \in [Ids -> Cells]}
    <3>1. copy[1] \in Ids /\ Cell("vector", copy[2]) \in Cells
      BY <1>6
    <3> QED
      BY <2>1, <3>1, Zenon
  <2> HIDE DEF t, h
  <2>3. t \in Table /\ t.columns = table.columns /\ t.helper = h
    BY <1>2, <2>2, HelperReplaced
  <2> QED
    BY <2>3 DEF h
<1> HIDE DEF t
<1>8. /\ conn' = conn /\ faults' \in 0 .. MaxFaults
      /\ \/ table.helper # <<>> /\ pc' = [pc EXCEPT ![p] = "copy"] /\ table' = t
         \/ pc' = [pc EXCEPT ![p] = "idle"] /\ table' = table
  BY <1>1, <1>2, <1>5, DoAlone
<1>9. UNCHANGED <<dialect, conn, ledger, job, done, truth, writes>>
  BY <1>4, <1>8 DEF rest
<1>10. CASE table.helper # <<>> /\ pc' = [pc EXCEPT ![p] = "copy"] /\ table' = t
  <2>1. copies' = [copies EXCEPT ![p] = @ \ {copy}] /\ copies' \in [Processes -> SUBSET (Ids \X Vectors)]
    BY <1>2, <1>3, <1>10
  <2>2. RepairInv'
    BY <1>1, <1>4, <1>7, <1>8, <1>9, <1>10, <2>1, HelperStep
  <2>3. pc' = pc
    BY <1>1, <1>2, <1>10
  <2> QED
    BY <1>1, <1>7, <1>9, <1>10, <2>1, <2>2, <2>3
<1>11. CASE pc' = [pc EXCEPT ![p] = "idle"] /\ table' = table
  <2>1. copies' = [copies EXCEPT ![p] = {}] /\ copies' \in [Processes -> SUBSET (Ids \X Vectors)]
    BY <1>2, <1>3, <1>11
  <2>2. RepairInv'
    BY <1>1, <1>2, <1>4, <1>8, <1>9, <1>11, <2>1, HelperStep
  <2> QED
    BY <1>1, <1>9, <1>11, <2>1, <2>2
<1> QED
  BY <1>8, <1>10, <1>11

\* The transaction of the exchange is begun (transaction).
LEMMA BeginSwapStep ==
  ASSUME RepairInv, NEW p \in Processes, BeginSwap(p)
  PROVE  /\ RepairInv' /\ UNCHANGED <<table, job, done, truth, copies>>
         /\ pc[p] = "copy" /\ copies[p] = {}
         /\ pc' = [pc EXCEPT ![p] = "drop_column"]
<1> DEFINE k == [txn |-> "open", draft |-> <<>>]
<1>1. /\ pc[p] = "copy" /\ pc[p] \notin Swapping /\ copies[p] = {}
      /\ dialect = "postgres" /\ done[p] < Len(job[p])
  BY DEF BeginSwap, At, Swapping, RepairInv, DialectSound
<1>2. Do(p, BeginOutcomes(Session(p)), "drop_column") /\ UNCHANGED <<rest, ledger, copies>>
  BY DEF BeginSwap
<1>3. /\ table' = table /\ faults' \in 0 .. MaxFaults
      /\ pc' = [pc EXCEPT ![p] = "drop_column"] /\ conn' = [conn EXCEPT ![p] = k]
  BY <1>1, <1>2, OutsideFacts, DoBegin DEF RepairInv
<1>4. /\ UNCHANGED <<dialect, table, ledger, job, done, truth, writes, copies>>
      /\ copies' \in [Processes -> SUBSET (Ids \X Vectors)]
      /\ DOMAIN ledger' \subseteq Nat /\ Range(ledger') \subseteq Range(History) \cup {LegacyHash}
  BY <1>2, <1>3 DEF rest, RepairInv, TypeOK
<1>5. k \in [txn : {"none", "open", "failed"}, draft : Seq(Table)] /\ k.draft = <<>>
      /\ k = [txn |-> "open", draft |-> <<>>]
  OBVIOUS
<1> HIDE DEF k
<1>6. Fits(p, "drop_column", k)
  BY <1>1, <1>5 DEF Fits, Statement, Swapping, PastSwap
<1>7. RepairInv'
  BY <1>3, <1>4, <1>6, TableStays
<1> QED
  BY <1>1, <1>3, <1>4, <1>7

\* ALTER TABLE DROP COLUMN in the transaction.
LEMMA DropColumnStep ==
  ASSUME RepairInv, NEW p \in Processes, DropColumn(p)
  PROVE  /\ RepairInv' /\ UNCHANGED <<table, job, done, truth, copies>>
         /\ pc[p] = "drop_column"
         /\ pc' = [pc EXCEPT ![p] = "rename"] \/ pc' = [pc EXCEPT ![p] = "drop"]
<1> DEFINE after == [View(p) EXCEPT !.columns[Target(p)] = [type |-> "none", cells |-> NoCells]]
           possible == Type(p) # "none"
<1>1. /\ pc[p] = "drop_column" /\ dialect = "postgres" /\ done[p] < Len(job[p]) /\ Target(p) \in Columns
      /\ conn[p].txn = "open" /\ conn[p].draft = <<>> /\ TypeOK /\ table \in Table
  BY TargetFacts DEF DropColumn, At, RepairInv, DialectSound, ConnSound, TypeOK
<1>2. View(p) = table
  BY <1>1 DEF View, Locks
<1>3. after = Dropped(Target(p))
  BY <1>2, Zenon DEF Dropped
<1>4. possible => Dropped(Target(p)) # table
  BY <1>1, <1>2, DroppedFacts DEF Type
<1>5. Do(p, Change(p, possible, after), "rename") /\ Free(p) /\ UNCHANGED <<rest, ledger, copies>>
  BY DEF DropColumn
<1> HIDE DEF after, possible
<1>6. /\ table' = table /\ faults' \in 0 .. MaxFaults
      /\ \/ /\ possible /\ pc' = [pc EXCEPT ![p] = "rename"]
            /\ conn' = [conn EXCEPT ![p] =
                          [txn |-> "open", draft |-> IF after # table THEN <<after>> ELSE <<>>]]
         \/ /\ pc' = [pc EXCEPT ![p] = "drop"]
            /\ conn' = [conn EXCEPT ![p] =
                          [txn |-> "failed", draft |-> IF View(p) # table THEN <<View(p)>> ELSE <<>>]]
  <2>1. pc[p] \in {"drop_column", "rename"}
    BY <1>1
  <2> QED
    BY <1>1, <1>5, <2>1, DoInside
<1>7. /\ UNCHANGED <<dialect, table, ledger, job, done, truth, writes, copies>>
      /\ copies' \in [Processes -> SUBSET (Ids \X Vectors)]
      /\ DOMAIN ledger' \subseteq Nat /\ Range(ledger') \subseteq Range(History) \cup {LegacyHash}
  BY <1>1, <1>5, <1>6 DEF rest, TypeOK
<1>8. CASE pc' = [pc EXCEPT ![p] = "rename"] /\ possible
           /\ conn' = [conn EXCEPT ![p] =
                         [txn |-> "open", draft |-> IF after # table THEN <<after>> ELSE <<>>]]
  <2> DEFINE k == [txn |-> "open", draft |-> <<Dropped(Target(p))>>]
  <2>1. conn' = [conn EXCEPT ![p] = k]
    BY <1>3, <1>4, <1>8
  <2>2. /\ k \in [txn : {"none", "open", "failed"}, draft : Seq(Table)]
        /\ k = [txn |-> "open", draft |-> <<Dropped(Target(p))>>]
    BY <1>1, DroppedFacts
  <2> HIDE DEF k
  <2>3. Fits(p, "rename", k)
    BY <1>1, <1>5, <2>1, <2>2 DEF Fits, Statement, Swapping, OnPostgres, PastSwap
  <2>4. RepairInv'
    BY <1>6, <1>7, <1>8, <2>1, <2>3, TableStays
  <2> QED
    BY <1>1, <1>7, <1>8, <2>4
<1>9. CASE pc' = [pc EXCEPT ![p] = "drop"]
           /\ conn' = [conn EXCEPT ![p] =
                         [txn |-> "failed", draft |-> IF View(p) # table THEN <<View(p)>> ELSE <<>>]]
  <2> DEFINE k == [txn |-> "failed", draft |-> <<>>]
  <2>1. conn' = [conn EXCEPT ![p] = k]
    BY <1>2, <1>9
  <2>2. /\ k \in [txn : {"none", "open", "failed"}, draft : Seq(Table)]
        /\ k.draft = <<>>
    OBVIOUS
  <2> HIDE DEF k
  <2>3. Fits(p, "drop", k)
    BY <1>1, <1>5, <2>1, <2>2 DEF Fits, Statement, Swapping, OnPostgres, PastSwap
  <2>4. RepairInv'
    BY <1>6, <1>7, <1>9, <2>1, <2>3, TableStays
  <2> QED
    BY <1>1, <1>7, <1>9, <2>4
<1> QED
  BY <1>6, <1>8, <1>9

\* ALTER TABLE RENAME COLUMN in the transaction.
LEMMA RenameColumnStep ==
  ASSUME RepairInv, NEW p \in Processes, RenameColumn(p)
  PROVE  /\ RepairInv' /\ UNCHANGED <<table, job, done, truth, copies>>
         /\ pc[p] = "rename"
         /\ pc' = [pc EXCEPT ![p] = "commit"] \/ pc' = [pc EXCEPT ![p] = "drop"]
<1> DEFINE after == [View(p) EXCEPT !.columns[Target(p)] = [type |-> "vector", cells |-> View(p).helper[1]],
                                    !.helper = <<>>]
           possible == View(p).helper # <<>> /\ Type(p) = "none"
<1>1. /\ pc[p] = "rename" /\ dialect = "postgres" /\ done[p] < Len(job[p]) /\ Target(p) \in Columns
      /\ conn[p].txn = "open" /\ TypeOK /\ table \in Table
  BY TargetFacts DEF RenameColumn, At, RepairInv, DialectSound, ConnSound, TypeOK
<1>2. View(p) = Dropped(Target(p)) /\ Free(p)
  BY <1>1, LockingFacts
<1>3. after = Exchanged(Target(p))
  <2>1. \A c \in Columns :
          [Dropped(c) EXCEPT !.columns[c] = [type |-> "vector", cells |-> Dropped(c).helper[1]],
                             !.helper = <<>>] = Exchanged(c)
    BY <1>1, DroppedIsExchanged, Zenon
  <2> QED
    BY <1>1, <1>2, <2>1, Zenon
<1>4. possible => table.helper # <<>> /\ Exchanged(Target(p)) # table
  BY <1>1, <1>2, DroppedFacts, ExchangedFacts
<1>5. Do(p, Change(p, possible, after), "commit") /\ UNCHANGED <<rest, ledger, copies>>
  BY DEF RenameColumn
<1> HIDE DEF after, possible
<1>6. /\ table' = table /\ faults' \in 0 .. MaxFaults
      /\ \/ /\ possible /\ pc' = [pc EXCEPT ![p] = "commit"]
            /\ conn' = [conn EXCEPT ![p] =
                          [txn |-> "open", draft |-> IF after # table THEN <<after>> ELSE <<>>]]
         \/ /\ pc' = [pc EXCEPT ![p] = "drop"]
            /\ conn' = [conn EXCEPT ![p] =
                          [txn |-> "failed", draft |-> IF View(p) # table THEN <<View(p)>> ELSE <<>>]]
  <2>1. pc[p] \in {"drop_column", "rename"}
    BY <1>1
  <2> QED
    BY <1>1, <1>5, <2>1, DoInside
<1>7. /\ UNCHANGED <<dialect, table, ledger, job, done, truth, writes, copies>>
      /\ copies' \in [Processes -> SUBSET (Ids \X Vectors)]
      /\ DOMAIN ledger' \subseteq Nat /\ Range(ledger') \subseteq Range(History) \cup {LegacyHash}
  BY <1>1, <1>5, <1>6 DEF rest, TypeOK
<1>8. CASE pc' = [pc EXCEPT ![p] = "commit"] /\ possible
           /\ conn' = [conn EXCEPT ![p] =
                         [txn |-> "open", draft |-> IF after # table THEN <<after>> ELSE <<>>]]
  <2> DEFINE k == [txn |-> "open", draft |-> <<Exchanged(Target(p))>>]
  <2>1. conn' = [conn EXCEPT ![p] = k] /\ table.helper # <<>>
    BY <1>3, <1>4, <1>8
  <2>2. /\ k \in [txn : {"none", "open", "failed"}, draft : Seq(Table)]
        /\ k = [txn |-> "open", draft |-> <<Exchanged(Target(p))>>]
    BY <1>1, <2>1, ExchangedFacts
  <2> HIDE DEF k
  <2>3. Fits(p, "commit", k)
    BY <1>1, <1>2, <2>1, <2>2 DEF Fits, Statement, Swapping, OnPostgres, PastSwap
  <2>4. RepairInv'
    BY <1>6, <1>7, <1>8, <2>1, <2>3, TableStays
  <2> QED
    BY <1>1, <1>7, <1>8, <2>4
<1>9. CASE pc' = [pc EXCEPT ![p] = "drop"]
           /\ conn' = [conn EXCEPT ![p] =
                         [txn |-> "failed", draft |-> IF View(p) # table THEN <<View(p)>> ELSE <<>>]]
  <2> DEFINE k == [txn |-> "failed", draft |-> IF View(p) # table THEN <<View(p)>> ELSE <<>>]
  <2>1. conn' = [conn EXCEPT ![p] = k]
    BY <1>9
  <2>2. k \in [txn : {"none", "open", "failed"}, draft : Seq(Table)]
    <3>1. View(p) \in Table
      BY <1>1, <1>2, DroppedFacts
    <3> QED
      BY <3>1
  <2> HIDE DEF k
  <2>3. Fits(p, "drop", k)
    BY <1>1, <1>2, <2>1, <2>2 DEF Fits, Statement, Swapping, OnPostgres, PastSwap
  <2>4. RepairInv'
    BY <1>6, <1>7, <1>9, <2>1, <2>3, TableStays
  <2> QED
    BY <1>1, <1>7, <1>9, <2>4
<1> QED
  BY <1>6, <1>8, <1>9

\* COMMIT: the exchange is durable, or nothing of it is (commit).
LEMMA CommitSwapStep ==
  ASSUME RepairInv, NEW p \in Processes, CommitSwap(p)
  PROVE  /\ RepairInv' /\ UNCHANGED <<job, done, truth, copies>>
         /\ pc[p] = "commit" /\ table.helper # <<>> /\ Target(p) \in Columns /\ done[p] < Len(job[p])
         /\ \/ pc' = [pc EXCEPT ![p] = "end"] /\ table' = Exchanged(Target(p))
            \/ pc' = [pc EXCEPT ![p] = "drop"] /\ table' = table
<1> DEFINE k == [txn |-> "none", draft |-> <<>>]
<1>1. /\ pc[p] = "commit" /\ dialect = "postgres" /\ done[p] < Len(job[p]) /\ Target(p) \in Columns
      /\ conn[p].txn = "open" /\ TypeOK /\ table \in Table /\ pc[p] \in Statement
  BY TargetFacts DEF CommitSwap, At, RepairInv, DialectSound, ConnSound, TypeOK, Statement
<1>2. View(p) = Exchanged(Target(p)) /\ table.helper # <<>> /\ Locks(p)
  BY <1>1, LockingFacts
<1>3. Do(p, CommitOutcomes(Session(p)), "end") /\ UNCHANGED <<rest, ledger, copies>>
  BY DEF CommitSwap
<1>4. /\ faults' \in 0 .. MaxFaults /\ conn' = [conn EXCEPT ![p] = k]
      /\ \/ pc' = [pc EXCEPT ![p] = "end"] /\ table' = View(p)
         \/ pc' = [pc EXCEPT ![p] = "drop"] /\ table' = table
  BY <1>1, <1>3, DoCommit
<1>5. /\ UNCHANGED <<dialect, ledger, job, done, truth, writes, copies>>
      /\ copies' \in [Processes -> SUBSET (Ids \X Vectors)]
      /\ DOMAIN ledger' \subseteq Nat /\ Range(ledger') \subseteq Range(History) \cup {LegacyHash}
  BY <1>1, <1>3 DEF rest, TypeOK
<1>6. k \in [txn : {"none", "open", "failed"}, draft : Seq(Table)] /\ k = [txn |-> "none", draft |-> <<>>]
  OBVIOUS
<1> HIDE DEF k
<1>7. CASE pc' = [pc EXCEPT ![p] = "drop"] /\ table' = table
  <2>1. Fits(p, "drop", k)
    BY <1>1, <1>6 DEF Fits, Statement, Swapping, PastSwap
  <2>2. RepairInv'
    BY <1>4, <1>5, <1>7, <2>1, TableStays
  <2> QED
    BY <1>1, <1>2, <1>5, <1>7, <2>2
<1>8. CASE pc' = [pc EXCEPT ![p] = "end"] /\ table' = View(p)
  <2>1. /\ table' \in Table /\ table'.helper = <<>>
        /\ table'.columns[Target(p)].type = "vector"
        /\ \A d \in Columns \ {Target(p)} : table'.columns[d] = table.columns[d]
    BY <1>1, <1>2, <1>8, ExchangedFacts
  <2>2. /\ pc' \in [Processes -> Statement \cup {"idle"}] /\ pc'[p] = "end"
        /\ \A q \in Processes : q # p => pc'[q] = pc[q]
        /\ conn' \in [Processes -> [txn : {"none", "open", "failed"}, draft : Seq(Table)]]
        /\ conn'[p] = k /\ \A q \in Processes : q # p => conn'[q] = conn[q]
    BY <1>1, <1>4, <1>6, <1>8 DEF TypeOK, Statement
  <2>3. \A q \in Processes : q # p => pc[q] \notin {"rename", "commit"} /\ ~Locks(q)
    BY <1>2, LockingFacts DEF RepairInv, ConnSound
  <2>4. /\ \A q \in Processes : Target(q)' = Target(q)
        /\ HashIsPresent' = HashIsPresent
        /\ \A c \in Columns : Repaired(c) => Repaired(c)'
        /\ Repaired(Target(p))'
    BY <1>1, <1>5, <2>1 DEF Target, Repaired, HashIsPresent
  <2>5. TypeOK'
    BY <1>1, <1>4, <1>5, <2>1, <2>2 DEF TypeOK
  <2>6. ConnSound'
    <3>1. ASSUME NEW q \in Processes
          PROVE  LET open(draft) == conn[q].txn = "open" /\ conn[q].draft = draft
                 IN  (/\ pc[q] \notin {"drop_column", "rename", "commit", "drop"} =>
                           conn[q].txn = "none" /\ conn[q].draft = <<>>
                      /\ pc[q] = "drop_column" => open(<<>>)
                      /\ pc[q] = "rename" => open(<<Dropped(Target(q))>>)
                      /\ pc[q] = "commit" => open(<<Exchanged(Target(q))>>) /\ table.helper # <<>>)'
      <4>1. CASE q = p
        BY <1>6, <2>2, <4>1
      <4>2. CASE q # p
        BY <2>2, <2>3, <4>2 DEF RepairInv, ConnSound
      <4> QED
        BY <4>1, <4>2
    <3>2. \A q \in Processes : ~Locks(q)'
      BY <1>6, <2>2, <2>3 DEF Locks
    <3> QED
      BY <3>1, <3>2 DEF ConnSound
  <2>7. DialectSound'
    BY <1>1, <1>5, <2>2 DEF RepairInv, DialectSound
  <2>8. StageSound'
    <3>1. ASSUME NEW q \in Processes
          PROVE  (/\ pc[q] \in {"end", "ensure", "lookup", "insert", "update", "return"} => Repaired(Target(q))
                  /\ pc[q] = "return" => HashIsPresent
                  /\ \A n \in 1 .. done[q] : Repaired(job[q][n]) /\ HashIsPresent)'
      <4>1. /\ done[q] < Len(job[q]) => Target(q) \in Columns
            /\ \A n \in 1 .. done[q] : job[q][n] \in Columns
            /\ pc[q] # "idle" => done[q] < Len(job[q])
        BY <1>1, TargetFacts DEF RepairInv, DialectSound
      <4>2. CASE q = p
        BY <1>5, <2>2, <2>4, <4>1, <4>2 DEF RepairInv, StageSound
      <4>3. CASE q # p
        BY <1>5, <2>2, <2>4, <4>1, <4>3 DEF RepairInv, StageSound
      <4> QED
        BY <4>2, <4>3
    <3> QED
      BY <3>1 DEF StageSound
  <2>9. RepairInv'
    BY <2>5, <2>6, <2>7, <2>8 DEF RepairInv
  <2> QED
    BY <1>1, <1>2, <1>5, <1>8, <2>9
<1> QED
  BY <1>4, <1>7, <1>8

\* The Transaction is dropped (impl Drop for Transaction).
LEMMA EndSwapStep ==
  ASSUME RepairInv, NEW p \in Processes, EndSwap(p)
  PROVE  /\ RepairInv' /\ UNCHANGED <<table, job, done, truth, copies>>
         /\ pc' = [pc EXCEPT ![p] = "ensure"] \/ pc' = [pc EXCEPT ![p] = "idle"]
<1> DEFINE k == [txn |-> "none", draft |-> <<>>]
           l == IF pc[p] = "end" THEN "ensure" ELSE "idle"
<1>1. /\ pc[p] \in {"end", "drop"} /\ done[p] < Len(job[p])
      /\ UNCHANGED <<rest, ledger, table, copies, faults>>
      /\ TypeOK /\ pc' = [pc EXCEPT ![p] = l] /\ conn' = [conn EXCEPT ![p] = k]
  BY DEF EndSwap, Ended, RepairInv, DialectSound, TypeOK
<1>2. /\ UNCHANGED <<dialect, table, ledger, job, done, truth, writes, copies>> /\ faults' \in 0 .. MaxFaults
      /\ copies' \in [Processes -> SUBSET (Ids \X Vectors)]
      /\ DOMAIN ledger' \subseteq Nat /\ Range(ledger') \subseteq Range(History) \cup {LegacyHash}
  BY <1>1 DEF rest, TypeOK
<1>3. k \in [txn : {"none", "open", "failed"}, draft : Seq(Table)] /\ k = [txn |-> "none", draft |-> <<>>]
  OBVIOUS
<1>4. (l = "ensure" /\ Repaired(Target(p))) \/ l = "idle"
  BY <1>1 DEF RepairInv, StageSound
<1> HIDE DEF k, l
<1>5. Fits(p, l, k)
  BY <1>1, <1>3, <1>4 DEF Fits, Statement, Swapping, OnPostgres, PastSwap
<1>6. RepairInv'
  BY <1>1, <1>2, <1>5, TableStays
<1> QED
  BY <1>1, <1>2, <1>4, <1>6

\* A process dies: its transaction is rolled back (impl Drop for Transaction).
LEMMA CrashStep ==
  ASSUME RepairInv, NEW p \in Processes, Crash(p)
  PROVE  /\ RepairInv' /\ UNCHANGED <<table, job, done, truth>>
         /\ pc' = [pc EXCEPT ![p] = "idle"]
         /\ copies' = [copies EXCEPT ![p] = {}]
<1> DEFINE k == [txn |-> "none", draft |-> <<>>]
<1>1. /\ UNCHANGED <<rest, ledger, table>> /\ faults < MaxFaults /\ faults' = faults + 1
      /\ TypeOK /\ pc' = [pc EXCEPT ![p] = "idle"] /\ conn' = [conn EXCEPT ![p] = k]
      /\ copies' = [copies EXCEPT ![p] = {}]
  BY DEF Crash, Ended, RepairInv
<1>2. /\ UNCHANGED <<dialect, table, ledger, job, done, truth, writes>> /\ faults' \in 0 .. MaxFaults
      /\ copies' \in [Processes -> SUBSET (Ids \X Vectors)]
      /\ DOMAIN ledger' \subseteq Nat /\ Range(ledger') \subseteq Range(History) \cup {LegacyHash}
  BY <1>1, BoundsAssumption DEF rest, TypeOK
<1>3. k \in [txn : {"none", "open", "failed"}, draft : Seq(Table)] /\ k = [txn |-> "none", draft |-> <<>>]
  OBVIOUS
<1> HIDE DEF k
<1>4. Fits(p, "idle", k)
  BY <1>1, <1>3 DEF Fits, Statement, Swapping, OnPostgres, PastSwap
<1>5. RepairInv'
  BY <1>1, <1>2, <1>4, TableStays
<1> QED
  BY <1>1, <1>2, <1>5

\* The repair of a column is started (repair_legacy_vector_column).
LEMMA StartStep ==
  ASSUME RepairInv, NEW p \in Processes, Start(p)
  PROVE  /\ RepairInv' /\ UNCHANGED <<table, job, done, truth, copies>>
         /\ pc' = [pc EXCEPT ![p] = "select_nothing"] \/ pc' = [pc EXCEPT ![p] = "extension"]
<1> DEFINE l == IF dialect = "sqlite" THEN "select_nothing" ELSE "extension"
<1>1. /\ pc[p] = "idle" /\ done[p] < Len(job[p]) /\ TypeOK /\ pc' = [pc EXCEPT ![p] = l]
      /\ UNCHANGED <<rest, ledger, table, conn, copies, faults>> /\ pc[p] \notin Swapping
  BY DEF Start, At, RepairInv, Swapping
<1>2. /\ UNCHANGED <<dialect, table, conn, ledger, job, done, truth, writes, copies>>
      /\ faults' \in 0 .. MaxFaults /\ copies' \in [Processes -> SUBSET (Ids \X Vectors)]
  BY <1>1 DEF rest, TypeOK
<1>3. (l = "select_nothing" /\ dialect = "sqlite") \/ (l = "extension" /\ dialect = "postgres")
  BY <1>1, DialectsAssumption DEF TypeOK
<1> HIDE DEF l
<1>4. /\ l \in (Statement \cup {"idle"}) \ Swapping /\ l \notin PastSwap
      /\ l \in OnPostgres => dialect = "postgres"
  BY <1>3 DEF Statement, Swapping, PastSwap, OnPostgres
<1>5. RepairInv'
  BY <1>1, <1>2, <1>3, <1>4, OutsideStep DEF PastSwap
<1> QED
  BY <1>1, <1>2, <1>3, <1>5

\* CREATE TABLE IF NOT EXISTS __migrations (ensure_migrations_table).
LEMMA EnsureLedgerStep ==
  ASSUME RepairInv, NEW p \in Processes, EnsureLedger(p)
  PROVE  /\ RepairInv' /\ UNCHANGED <<table, job, done, truth, copies>>
         /\ pc' = [pc EXCEPT ![p] = "lookup"] \/ pc' = [pc EXCEPT ![p] = "idle"]
<1>1. pc[p] = "ensure" /\ pc[p] \notin Swapping /\ pc[p] # "idle" /\ Repaired(Target(p))
  BY DEF EnsureLedger, At, RepairInv, StageSound, Swapping
<1>2. Do(p, Change(p, TRUE, View(p)), "lookup") /\ UNCHANGED <<rest, ledger, copies>>
  BY SameIsChange DEF EnsureLedger
<1>3. /\ UNCHANGED <<dialect, table, conn, job, done, truth, writes>>
      /\ faults' \in 0 .. MaxFaults /\ done[p] < Len(job[p])
      /\ pc' = [pc EXCEPT ![p] = "lookup"] \/ pc' = [pc EXCEPT ![p] = "idle"]
  BY <1>1, <1>2, DoReading
<1>4. UNCHANGED <<ledger, copies>> /\ copies' \in [Processes -> SUBSET (Ids \X Vectors)]
  BY <1>2 DEF RepairInv, TypeOK
<1>5. PICK l \in {"lookup", "idle"} : pc' = [pc EXCEPT ![p] = l]
  BY <1>3
<1>6. RepairInv'
  BY <1>1, <1>3, <1>4, <1>5, OutsideStep DEF Statement, Swapping, OnPostgres
<1> QED
  BY <1>3, <1>4, <1>6

\* SELECT hash (repair_migration_hash).
LEMMA LookUpHashStep ==
  ASSUME RepairInv, NEW p \in Processes, LookUpHash(p)
  PROVE  /\ RepairInv' /\ UNCHANGED <<table, job, done, truth, copies>>
         /\ \E l \in {"update", "insert", "idle"} : pc' = [pc EXCEPT ![p] = l]
<1> DEFINE next == IF MigrationId \in DOMAIN ledger THEN "update" ELSE "insert"
<1>1. pc[p] = "lookup" /\ pc[p] \notin Swapping /\ pc[p] # "idle" /\ Repaired(Target(p))
  BY DEF LookUpHash, At, RepairInv, StageSound, Swapping
<1>2. Do(p, Change(p, TRUE, View(p)), next) /\ UNCHANGED <<rest, ledger, copies>>
  BY SameIsChange DEF LookUpHash
<1>n. next \in {"update", "insert"}
  OBVIOUS
<1> HIDE DEF next
<1>3. /\ UNCHANGED <<dialect, table, conn, job, done, truth, writes>>
      /\ faults' \in 0 .. MaxFaults /\ done[p] < Len(job[p])
      /\ pc' = [pc EXCEPT ![p] = next] \/ pc' = [pc EXCEPT ![p] = "idle"]
  BY <1>1, <1>2, DoReading
<1>4. UNCHANGED <<ledger, copies>> /\ copies' \in [Processes -> SUBSET (Ids \X Vectors)]
  BY <1>2 DEF RepairInv, TypeOK
<1>5. PICK l \in {"update", "insert", "idle"} : pc' = [pc EXCEPT ![p] = l]
  BY <1>3, <1>n
<1>6. RepairInv'
  BY <1>1, <1>3, <1>4, <1>5, OutsideStep DEF Statement, Swapping, OnPostgres
<1> QED
  BY <1>3, <1>4, <1>5, <1>6

\* A ledger in which one migration has been given the present hash.
LEMMA LedgerWritten ==
  ASSUME NEW l, DOMAIN l \subseteq Nat, Range(l) \subseteq Range(History) \cup {LegacyHash},
         NEW m, m = [id \in DOMAIN l \cup {MigrationId} |-> IF id = MigrationId THEN PresentHash ELSE l[id]]
  PROVE  /\ DOMAIN m \subseteq Nat /\ Range(m) \subseteq Range(History) \cup {LegacyHash}
         /\ MigrationId \in DOMAIN m /\ m[MigrationId] = PresentHash
<1>1. MigrationId \in Nat /\ PresentHash \in Range(History)
  BY MigrationIdAssumption DEF PresentHash, Range
<1>2. ASSUME NEW id \in DOMAIN m
      PROVE  m[id] \in Range(History) \cup {LegacyHash}
  BY <1>1 DEF Range
<1> QED
  BY <1>1, <1>2 DEF Range

\* The entry is written under the present hash (repair_migration_hash).
LEMMA WriteHashStep ==
  ASSUME RepairInv, NEW p \in Processes, InsertHash(p) \/ UpdateHash(p)
  PROVE  /\ RepairInv' /\ UNCHANGED <<table, job, done, truth, copies>>
         /\ pc' = [pc EXCEPT ![p] = "return"] \/ pc' = [pc EXCEPT ![p] = "idle"]
<1>1. pc[p] \in {"insert", "update"} /\ pc[p] \notin Swapping /\ pc[p] # "idle" /\ Repaired(Target(p))
  BY DEF InsertHash, UpdateHash, At, RepairInv, StageSound, Swapping
<1> DEFINE written == [id \in DOMAIN ledger \cup {MigrationId} |->
                         IF id = MigrationId THEN PresentHash ELSE ledger[id]]
           k == [txn |-> "none", draft |-> <<>>]
<1>2. PICK possible \in BOOLEAN : WriteHash(p, possible)
  BY DEF InsertHash, UpdateHash
<1>3. /\ Do(p, Change(p, possible, View(p)), "return") /\ UNCHANGED <<rest, copies>>
      /\ ledger' = IF pc'[p] = "return" THEN written ELSE ledger
  BY <1>2 DEF WriteHash
<1>4. /\ UNCHANGED <<dialect, table, conn, job, done, truth, writes>>
      /\ faults' \in 0 .. MaxFaults /\ done[p] < Len(job[p])
      /\ pc' = [pc EXCEPT ![p] = "return"] \/ pc' = [pc EXCEPT ![p] = "idle"]
  BY <1>1, <1>3, DoReading
<1>5. /\ UNCHANGED copies /\ copies' \in [Processes -> SUBSET (Ids \X Vectors)]
      /\ DOMAIN ledger \subseteq Nat /\ Range(ledger) \subseteq Range(History) \cup {LegacyHash}
      /\ pc \in [Processes -> Statement \cup {"idle"}]
  BY <1>3 DEF RepairInv, TypeOK
<1>6. /\ conn' = [conn EXCEPT ![p] = k]
      /\ k \in [txn : {"none", "open", "failed"}, draft : Seq(Table)] /\ k = [txn |-> "none", draft |-> <<>>]
  BY <1>1, <1>4, OutsideFacts DEF RepairInv, TypeOK
<1>7. written = [id \in DOMAIN ledger \cup {MigrationId} |-> IF id = MigrationId THEN PresentHash ELSE ledger[id]]
  OBVIOUS
<1> HIDE DEF k, written
<1>8. CASE pc' = [pc EXCEPT ![p] = "return"]
  <2>1. ledger' = written
    BY <1>3, <1>5, <1>8
  <2>2. /\ DOMAIN ledger' \subseteq Nat /\ Range(ledger') \subseteq Range(History) \cup {LegacyHash}
        /\ HashIsPresent'
    BY <1>5, <1>7, <2>1, LedgerWritten DEF HashIsPresent, PresentHash
  <2>3. Fits(p, "return", k)
    BY <1>1, <1>4, <1>6, <2>2 DEF Fits, Statement, Swapping, OnPostgres
  <2>4. RepairInv'
    BY <1>4, <1>5, <1>6, <1>8, <2>2, <2>3, TableStays
  <2> QED
    BY <1>4, <1>5, <1>8, <2>4
<1>9. CASE pc' = [pc EXCEPT ![p] = "idle"]
  <2>1. ledger' = ledger
    BY <1>3, <1>5, <1>9
  <2>2. DOMAIN ledger' \subseteq Nat /\ Range(ledger') \subseteq Range(History) \cup {LegacyHash}
    BY <1>5, <2>1
  <2>3. Fits(p, "idle", k)
    BY <1>6 DEF Fits, Statement, Swapping, OnPostgres, PastSwap
  <2>4. RepairInv'
    BY <1>4, <1>5, <1>6, <1>9, <2>1, <2>2, <2>3, TableStays
  <2> QED
    BY <1>4, <1>5, <1>9, <2>4
<1> QED
  BY <1>4, <1>8, <1>9

\* Ok(()): the process goes on with its next column (repair_legacy_vector_column).
LEMMA ReturnStep ==
  ASSUME RepairInv, NEW p \in Processes, Return(p)
  PROVE  /\ RepairInv' /\ UNCHANGED <<dialect, table, job, truth, copies>>
         /\ pc[p] = "return" /\ done[p] < Len(job[p]) /\ Repaired(Target(p))
         /\ pc' = [pc EXCEPT ![p] = "idle"]
         /\ done' = [done EXCEPT ![p] = @ + 1]
<1>1. /\ pc[p] = "return" /\ pc' = [pc EXCEPT ![p] = "idle"] /\ done' = [done EXCEPT ![p] = @ + 1]
      /\ UNCHANGED <<dialect, ledger, table, conn, copies, job, faults, writes, truth>>
      /\ TypeOK /\ done[p] < Len(job[p]) /\ Repaired(Target(p)) /\ HashIsPresent
  BY DEF Return, At, RepairInv, DialectSound, StageSound
<1>2. /\ pc' \in [Processes -> Statement \cup {"idle"}] /\ pc'[p] = "idle"
      /\ \A q \in Processes : q # p => pc'[q] = pc[q]
  BY <1>1 DEF TypeOK
<1>3. done'[p] = done[p] + 1 /\ \A q \in Processes : q # p => done'[q] = done[q]
  BY <1>1 DEF TypeOK
<1>4. /\ \A q \in Processes : q # p => Target(q)' = Target(q)
      /\ HashIsPresent' /\ \A c : Repaired(c)' = Repaired(c) /\ Dropped(c)' = Dropped(c) /\ Exchanged(c)' = Exchanged(c)
  BY <1>1, <1>3 DEF Target, HashIsPresent, Repaired, Dropped, Exchanged
<1>5. /\ job[p] \in Seq(Columns) /\ done[p] \in Nat /\ Len(job[p]) \in Nat
      /\ done \in [Processes -> Nat] /\ \A q \in Processes : done[q] <= Len(job[q])
  BY <1>1, TargetFacts DEF TypeOK
<1>6. /\ done' \in [Processes -> Nat] /\ \A q \in Processes : done'[q] <= Len(job'[q])
  <2>1. done[p] + 1 \in Nat /\ done[p] + 1 <= Len(job[p])
    BY <1>1, <1>5
  <2> QED
    BY <1>1, <1>3, <1>5, <2>1
<1>7. TypeOK'
  BY <1>1, <1>2, <1>6 DEF TypeOK
<1>8. ConnSound'
  <2>1. conn[p].txn = "none" /\ conn[p].draft = <<>>
    BY <1>1 DEF RepairInv, ConnSound
  <2>2. ASSUME NEW q \in Processes
        PROVE  LET open(draft) == conn[q].txn = "open" /\ conn[q].draft = draft
               IN  (/\ pc[q] \notin {"drop_column", "rename", "commit", "drop"} =>
                         conn[q].txn = "none" /\ conn[q].draft = <<>>
                    /\ pc[q] = "drop_column" => open(<<>>)
                    /\ pc[q] = "rename" => open(<<Dropped(Target(q))>>)
                    /\ pc[q] = "commit" => open(<<Exchanged(Target(q))>>) /\ table.helper # <<>>)'
    <3>1. CASE q = p
      BY <1>1, <1>2, <2>1, <3>1
    <3>2. CASE q # p
      BY <1>1, <1>2, <1>4, <3>2 DEF RepairInv, ConnSound
    <3> QED
      BY <3>1, <3>2
  <2>3. \A q, r \in Processes : Locks(q)' /\ Locks(r)' => q = r
    BY <1>1 DEF RepairInv, ConnSound, Locks
  <2> QED
    BY <2>2, <2>3 DEF ConnSound
<1>9. DialectSound'
  BY <1>1, <1>2, <1>3 DEF RepairInv, DialectSound
<1>10. StageSound'
  <2>1. ASSUME NEW q \in Processes
        PROVE  (/\ pc[q] \in {"end", "ensure", "lookup", "insert", "update", "return"} => Repaired(Target(q))
                /\ pc[q] = "return" => HashIsPresent
                /\ \A n \in 1 .. done[q] : Repaired(job[q][n]) /\ HashIsPresent)'
    <3>1. CASE q = p
      <4>1. \A n \in 1 .. done'[p] : n \in 1 .. done[p] \/ n = done[p] + 1
        BY <1>3, <1>5
      <4>2. Target(p) = job[p][done[p] + 1]
        BY DEF Target
      <4>3. \A n \in 1 .. done'[p] : Repaired(job[p][n])
        BY <1>1, <4>1, <4>2 DEF RepairInv, StageSound
      <4> QED
        BY <1>1, <1>2, <1>4, <3>1, <4>3
    <3>2. CASE q # p
      BY <1>1, <1>2, <1>3, <1>4, <3>2 DEF RepairInv, StageSound
    <3> QED
      BY <3>1, <3>2
  <2> QED
    BY <2>1 DEF StageSound
<1>11. RepairInv'
  BY <1>7, <1>8, <1>9, <1>10 DEF RepairInv
<1> QED
  BY <1>1, <1>11

\* A table in which one cell of one column has been written.
CellWritten(t, c, i, cell) == [t EXCEPT !.columns[c].cells[i] = cell]

\* Only that cell has changed.
LEMMA CellReplaced ==
  ASSUME NEW t \in Table, NEW c \in Columns, NEW i \in Ids, NEW cell \in Cells
  PROVE  /\ CellWritten(t, c, i, cell) \in Table
         /\ CellWritten(t, c, i, cell).helper = t.helper
         /\ \A d \in Columns : CellWritten(t, c, i, cell).columns[d].type = t.columns[d].type
         /\ \A d \in Columns : d # c => CellWritten(t, c, i, cell).columns[d] = t.columns[d]
         /\ CellWritten(t, c, i, cell).columns[c].cells = [t.columns[c].cells EXCEPT ![i] = cell]
<1> DEFINE u == [t EXCEPT !.columns[c].cells[i] = cell]
           old == t.columns[c]
           column == [old EXCEPT !.cells[i] = cell]
           v == [t EXCEPT !.columns[c] = column]
<1>1. /\ t.columns \in [Columns -> [type : {"bytea", "vector", "none"}, cells : [Ids -> Cells]]]
      /\ old \in [type : {"bytea", "vector", "none"}, cells : [Ids -> Cells]]
  BY TableFacts
<1>2. column \in [type : {"bytea", "vector", "none"}, cells : [Ids -> Cells]]
      /\ column.type = old.type /\ column.cells = [old.cells EXCEPT ![i] = cell]
  <2> HIDE DEF old
  <2> QED
    BY <1>1
<1>3. u = v
  BY Zenon
<1> HIDE DEF u, column
<1>4. /\ v \in Table /\ v.helper = t.helper /\ v.columns[c] = column
      /\ \A d \in Columns \ {c} : v.columns[d] = t.columns[d]
  BY <1>2, ColumnReplaced
<1> HIDE DEF v
<1>5. /\ u \in Table /\ u.helper = t.helper
      /\ \A d \in Columns : u.columns[d].type = t.columns[d].type
      /\ \A d \in Columns : d # c => u.columns[d] = t.columns[d]
      /\ u.columns[c].cells = [t.columns[c].cells EXCEPT ![i] = cell]
  BY <1>2, <1>3, <1>4
<1>6. CellWritten(t, c, i, cell) = u
  BY Zenon DEF CellWritten, u
<1> QED
  BY <1>5, <1>6

\* The application stores a vector or NULL while nobody exchanges the columns.
LEMMA ApplicationStep ==
  ASSUME RepairInv, NEW c \in Columns, NEW i \in Ids, NEW v \in Vectors \cup {"null"},
         ApplicationWrites(c, i, v)
  PROVE  /\ RepairInv' /\ UNCHANGED <<dialect, pc, copies, job, done>>
         /\ Disciplined => WriteIsSafe(v)
         /\ table'.helper = table.helper
         /\ \A d \in Columns : table'.columns[d].type = table.columns[d].type
         /\ \A d \in Columns, j \in Ids :
              /\ truth'[d][j] = IF d = c /\ j = i THEN v ELSE truth[d][j]
              /\ table'.columns[d].cells[j].value =
                   IF d = c /\ j = i THEN v ELSE table.columns[d].cells[j].value
<1> DEFINE cell == IF v = "null" THEN Null
                   ELSE Cell(IF table.columns[c].type = "bytea" THEN "blob" ELSE "vector", v)
<1>1. /\ \A q \in Processes : ~Locks(q)
      /\ Disciplined => WriteIsSafe(v)
      /\ table' = [table EXCEPT !.columns[c].cells[i] = cell]
      /\ truth' = [truth EXCEPT ![c][i] = v]
      /\ writes < MaxWrites /\ writes' = writes + 1
      /\ UNCHANGED <<dialect, ledger, conn, pc, copies, job, done, faults>>
  BY DEF ApplicationWrites
<1>2. TypeOK /\ table \in Table
  BY DEF RepairInv, TypeOK
<1>3. cell \in Cells /\ cell.value = v
  BY DEF Cells, Cell, Null
<1> HIDE DEF cell
<1>4. /\ table' \in Table /\ table'.helper = table.helper
      /\ \A d \in Columns : table'.columns[d].type = table.columns[d].type
      /\ \A d \in Columns : d # c => table'.columns[d] = table.columns[d]
      /\ table'.columns[c].cells = [table.columns[c].cells EXCEPT ![i] = cell]
  <2>1. table \in Table /\ cell \in Cells
    BY <1>2, <1>3
  <2>2. table' = CellWritten(table, c, i, cell)
    BY <1>1, Zenon DEF CellWritten
  <2> QED
    BY <2>1, <2>2, CellReplaced
<1>5. table.columns[c].cells \in [Ids -> Cells]
  BY <1>2, TableFacts
<1>6. \A d \in Columns, j \in Ids :
        table'.columns[d].cells[j].value =
          IF d = c /\ j = i THEN v ELSE table.columns[d].cells[j].value
  BY <1>3, <1>4, <1>5
<1>7. /\ truth' \in [Columns -> [Ids -> Stored]]
      /\ \A d \in Columns, j \in Ids : truth'[d][j] = IF d = c /\ j = i THEN v ELSE truth[d][j]
  BY <1>1, <1>2 DEF TypeOK, Stored
<1>8. TypeOK'
  BY <1>1, <1>2, <1>4, <1>7, BoundsAssumption DEF TypeOK
<1>9. \A q \in Processes : pc[q] \notin {"rename", "commit"}
  BY <1>1, LockingFacts
<1>10. ConnSound'
  BY <1>1, <1>9 DEF RepairInv, ConnSound, Locks
<1>11. DialectSound'
  BY <1>1, <1>4 DEF RepairInv, DialectSound
<1>12. StageSound'
  <2>1. \A d \in Columns : Repaired(d)' = Repaired(d)
    BY <1>1, <1>4 DEF Repaired
  <2>2. HashIsPresent' = HashIsPresent /\ \A q \in Processes : Target(q)' = Target(q)
    BY <1>1 DEF HashIsPresent, Target
  <2>3. ASSUME NEW q \in Processes
        PROVE  (/\ pc[q] \in {"end", "ensure", "lookup", "insert", "update", "return"} => Repaired(Target(q))
                /\ pc[q] = "return" => HashIsPresent
                /\ \A n \in 1 .. done[q] : Repaired(job[q][n]) /\ HashIsPresent)'
    <3>1. /\ done[q] < Len(job[q]) => Target(q) \in Columns
          /\ \A n \in 1 .. done[q] : job[q][n] \in Columns
          /\ pc[q] # "idle" => done[q] < Len(job[q])
      BY <1>2, TargetFacts DEF RepairInv, DialectSound
    <3> QED
      BY <1>1, <2>1, <2>2, <3>1 DEF RepairInv, StageSound
  <2> QED
    BY <2>3 DEF StageSound
<1>13. RepairInv'
  BY <1>8, <1>10, <1>11, <1>12 DEF RepairInv
<1> QED
  BY <1>1, <1>4, <1>6, <1>7, <1>13

\* A repair starts from the ledger and the columns of an older release (Init).
LEMMA InitRepair == ASSUME Init PROVE RepairInv /\ VectorsKept
<1>1. /\ dialect \in Dialects /\ job \in Jobs /\ faults = 0 /\ writes = 0
      /\ conn = [p \in Processes |-> [txn |-> "none", draft |-> <<>>]]
      /\ pc = [p \in Processes |-> "idle"]
      /\ copies = [p \in Processes |-> {}]
      /\ done = [p \in Processes |-> 0]
  BY DEF Init
<1>2. /\ truth \in [Columns -> [Ids -> Stored]]
      /\ \E n \in 0 .. Len(History), type \in {"bytea", "none"} : Initial(n, type)
  <2>1. Len(History) \in Nat /\ MigrationId \in 0 .. Len(History) /\ 0 \in 0 .. Len(History)
        /\ \A n \in MigrationId + 1 .. Len(History) : n \in 0 .. Len(History)
    BY HistoryAssumption, MigrationIdAssumption
  <2>2. CASE /\ truth \in Contents
             /\ \E n \in {0} \cup MigrationId + 1 .. Len(History) : Initial(n, "bytea")
    BY <2>1, <2>2, ContentsAssumption
  <2>3. CASE truth = [c \in Columns |-> [i \in Ids |-> "null"]] /\ Initial(MigrationId, "none")
    BY <2>1, <2>3 DEF Stored
  <2> QED
    BY <2>2, <2>3 DEF Init
<1>3. PICK n \in 0 .. Len(History), type \in {"bytea", "none"} : Initial(n, type)
  BY <1>2
<1>4. /\ ledger = LedgerOf(n)
      /\ table = [columns |-> [c \in Columns |->
                                 [type |-> type,
                                  cells |-> [i \in Ids |-> IF truth[c][i] = "null" THEN Null
                                                           ELSE Cell("blob", truth[c][i])]]],
                  helper |-> <<>>]
  BY <1>3 DEF Initial
<1>5. \A c \in Columns, i \in Ids :
        LET cell == IF truth[c][i] = "null" THEN Null ELSE Cell("blob", truth[c][i])
        IN  cell \in Cells /\ cell.value = truth[c][i]
  BY <1>2 DEF Stored, Cells, Cell, Null
<1>6. table \in Table /\ table.helper = <<>> /\ \A c \in Columns : table.columns[c].type # "vector"
  BY <1>4, <1>5 DEF Table
<1>7. VectorsKept
  BY <1>4, <1>5 DEF VectorsKept
<1>8. DOMAIN ledger \subseteq Nat /\ Range(ledger) \subseteq Range(History) \cup {LegacyHash}
  <2>1. \A id \in 0 .. n - 1 : id \in Nat /\ id + 1 \in DOMAIN History
    BY <1>3, HistoryAssumption
  <2>2. \A m \in DOMAIN History : LegacyHistory[m] \in Range(History) \cup {LegacyHash}
    BY DEF LegacyHistory, Range
  <2> QED
    BY <1>4, <2>1, <2>2 DEF LedgerOf, Range
<1>9. TypeOK
  <2>1. \A p \in Processes : Len(job[p]) \in Nat
    BY <1>1, JobsAssumption
  <2> QED
    BY <1>1, <1>2, <1>6, <1>8, <2>1, BoundsAssumption DEF TypeOK
<1>10. ConnSound
  BY <1>1 DEF ConnSound, Locks
<1>11. DialectSound
  BY <1>1, <1>6 DEF DialectSound
<1>12. StageSound
  BY <1>1 DEF StageSound
<1> QED
  BY <1>7, <1>9, <1>10, <1>11, <1>12 DEF RepairInv

\* No step of a process or of the application breaks what is true at every moment.
LEMMA RepairStep == ASSUME RepairInv, [Next]_vars PROVE RepairInv'
<1>1. ASSUME NEW p \in Processes, Start(p) \/ Statements(p) \/ Crash(p)
      PROVE  RepairInv'
  BY <1>1, StartStep, SelectNothingStep, CreateExtensionStep, ReadTypeStep, SelectRowsStep,
     AddColumnStep, CopyStep, BeginSwapStep, DropColumnStep, RenameColumnStep, CommitSwapStep,
     EndSwapStep, EnsureLedgerStep, LookUpHashStep, WriteHashStep, ReturnStep, CrashStep, Zenon
     DEF Statements
<1>2. ASSUME NEW c \in Columns, NEW i \in Ids, NEW v \in Vectors \cup {"null"},
             ApplicationWrites(c, i, v)
      PROVE  RepairInv'
  BY <1>2, ApplicationStep, Zenon
<1>3. ASSUME UNCHANGED vars
      PROVE  RepairInv'
  BY <1>3 DEF vars, RepairInv, TypeOK, ConnSound, DialectSound, StageSound, Locks, Dropped,
     Exchanged, Repaired, HashIsPresent, Target
<1> QED
  BY <1>1, <1>2, <1>3 DEF Next, Finished

\* What is true at every moment of a repair, for any number of processes and columns.
THEOREM RepairInvariant == Spec => []RepairInv
<1>1. Init => RepairInv
  BY InitRepair
<1>2. RepairInv /\ [Next]_vars => RepairInv'
  BY RepairStep
<1> QED
  BY <1>1, <1>2, PTL DEF Spec

\* Every variable keeps its type (repair_legacy_vector_column, repair_migration_hash).
THEOREM RepairTypes == Spec => []TypeOK
<1>1. RepairInv => TypeOK
  BY DEF RepairInv
<1> QED
  BY <1>1, RepairInvariant, PTL

\* Whoever was answered with Ok finds the column and the ledger repaired, whatever the
\* other processes and the application have done since (repair_legacy_vector_column).
THEOREM OkStaysRepaired == Spec => []OkMeansRepaired
<1>1. RepairInv => OkMeansRepaired
  BY DEF RepairInv, StageSound, OkMeansRepaired, Repaired, HashIsPresent
<1> QED
  BY <1>1, RepairInvariant, PTL

-----------------------------------------------------------------------------
(* No vector is lost *)

\* At most two processes repair at once, and then the same column; the application does
\* not write what a repair has read already.
Ordered == Disciplined /\ \A j \in Jobs : Apart(j)

\* Who has a column left to repair is busy; two busy processes repair the same column.
LEMMA ApartFacts ==
  ASSUME Ordered, TypeOK
  PROVE  /\ \A p \in Processes : done[p] < Len(job[p]) => p \in Busy(job)
         /\ \A p, q \in Busy(job) : p # q => ~Alone(job)
         /\ \A p, q \in Processes :
              p # q /\ done[p] < Len(job[p]) /\ done[q] < Len(job[q]) => Target(p) = Target(q)
         /\ \A p, q, r \in Busy(job) : p = q \/ q = r \/ p = r
         /\ ~Alone(job) => \A p, q \in Busy(job) :
              \A m \in DOMAIN job[p], n \in DOMAIN job[q] : job[p][m] = job[q][n]
<1>1. job \in [Processes -> Seq(Columns)] /\ Apart(job) /\ done \in [Processes -> Nat]
  BY JobsAssumption DEF Ordered, TypeOK
<1>2. ASSUME NEW p \in Processes, done[p] < Len(job[p])
      PROVE  p \in Busy(job) /\ done[p] + 1 \in DOMAIN job[p]
  <2>1. job[p] \in Seq(Columns) /\ done[p] \in Nat
    BY <1>1
  <2>2. job[p] # <<>> /\ done[p] + 1 \in DOMAIN job[p]
    BY <1>2, <2>1
  <2> QED
    BY <2>2 DEF Busy
<1>3. \A p, q \in Busy(job) : p # q => ~Alone(job)
  BY DEF Alone
<1>4. ~Alone(job) => \A p, q \in Busy(job) :
         \A m \in DOMAIN job[p], n \in DOMAIN job[q] : job[p][m] = job[q][n]
  BY <1>1 DEF Apart
<1>5. \A p, q, r \in Busy(job) : p = q \/ q = r \/ p = r
  BY <1>1 DEF Apart, Alone
<1>6. ASSUME NEW p \in Processes, NEW q \in Processes, p # q,
             done[p] < Len(job[p]), done[q] < Len(job[q])
      PROVE  Target(p) = Target(q)
  BY <1>2, <1>3, <1>4, <1>6 DEF Target
<1> QED
  BY <1>2, <1>3, <1>4, <1>5, <1>6

\* A step of one process that leaves the table, and after which it holds what the rows
\* hold, loses no vector.
LEMMA KeptFrame ==
  ASSUME Ordered, VectorInv, RepairInv', NEW p \in Processes, NEW l,
         pc' = [pc EXCEPT ![p] = l], UNCHANGED <<table, job, done, truth>>,
         \A q \in Processes : q # p => copies'[q] = copies[q],
         CopiesTrue(p)',
         l \in Repairing => pc[p] \in Repairing \/ table.columns[Target(p)].type # "vector"
  PROVE  VectorInv'
<1>1. /\ TypeOK /\ pc'[p] = l /\ \A q \in Processes : q # p => pc'[q] = pc[q]
      /\ \A q \in Processes : Target(q)' = Target(q)
  BY DEF VectorInv, RepairInv, TypeOK, Target
<1>2. CopiesSound'
  <2>1. ASSUME NEW q \in Processes, q # p
        PROVE  CopiesTrue(q)'
    BY <1>1, <2>1 DEF VectorInv, CopiesSound, CopiesTrue, Covers
  <2> QED
    BY <2>1 DEF CopiesSound
<1>3. HelperSound'
  BY <1>1 DEF VectorInv, HelperSound
<1>4. SecondSound'
  <2>1. ASSUME NEW q \in Processes, pc'[q] \in Repairing, table.columns[Target(q)].type = "vector"
        PROVE  ~Alone(job) /\ \A r \in Processes : pc'[r] \in Repairing => r = q
    <3>1. \A r \in Processes : pc'[r] \in Repairing => done[r] < Len(job[r])
      BY DEF RepairInv, DialectSound, Repairing, Window
    <3>2. pc[q] \in Repairing
      BY <1>1, <2>1
    <3>3. ~Alone(job) /\ \A r \in Processes : pc[r] \in Repairing => r = q
      BY <2>1, <3>2 DEF VectorInv, SecondSound
    <3>4. ASSUME p # q, pc'[p] \in Repairing
          PROVE  pc[p] \in Repairing
      BY <1>1, <2>1, <3>1, <3>4, ApartFacts
    <3> QED
      BY <1>1, <3>3, <3>4
  <2> QED
    BY <1>1, <2>1 DEF SecondSound
<1>5. HelperEnds'
  BY DEF VectorInv, HelperEnds
<1>6. VectorsKept'
  BY DEF VectorInv, VectorsKept
<1> QED
  BY <1>2, <1>3, <1>4, <1>5, <1>6 DEF VectorInv

\* A step outside the window between the SELECT of the rows and the end of the exchange.
LEMMA KeptOutside ==
  ASSUME Ordered, VectorInv, RepairInv', NEW p \in Processes, NEW l, l \notin Window,
         pc' = [pc EXCEPT ![p] = l], UNCHANGED <<table, job, done, truth>>,
         \A q \in Processes : q # p => copies'[q] = copies[q],
         l = "select" => table.columns[Target(p)].type # "vector"
  PROVE  VectorInv'
<1>1. pc'[p] = l
  BY DEF VectorInv, RepairInv, TypeOK
<1>2. CopiesTrue(p)'
  BY <1>1 DEF CopiesTrue, Window
<1>3. l \in Repairing => table.columns[Target(p)].type # "vector"
  BY DEF Repairing
<1> QED
  BY <1>2, <1>3, KeptFrame

\* What is read and converted is what the rows hold (legacy_float_vector).
LEMMA SelectRowsKeeps ==
  ASSUME Ordered, VectorInv, NEW p \in Processes, SelectRows(p)
  PROVE  VectorInv'
<1> DEFINE cells == table.columns[Target(p)].cells
<1>1. RepairInv /\ TypeOK /\ table \in Table /\ copies \in [Processes -> SUBSET (Ids \X Vectors)]
      /\ pc \in [Processes -> Statement \cup {"idle"}]
  BY DEF VectorInv, RepairInv, TypeOK
<1>2. /\ RepairInv' /\ UNCHANGED <<table, job, done, truth>>
      /\ pc[p] = "select" /\ done[p] < Len(job[p])
      /\ \/ /\ pc' = [pc EXCEPT ![p] = "add"]
            /\ Convertible(cells) /\ copies' = [copies EXCEPT ![p] = Converted(cells)]
         \/ /\ pc' = [pc EXCEPT ![p] = "idle"] /\ copies' = [copies EXCEPT ![p] = {}]
  BY <1>1, SelectRowsStep
<1>3. Target(p) \in Columns /\ cells \in [Ids -> Cells] /\ Target(p)' = Target(p)
      /\ \A q \in Processes : q # p => copies'[q] = copies[q]
  BY <1>1, <1>2, TargetFacts, TableFacts DEF Target
<1>4. \A i \in Ids : cells[i].value = truth[Target(p)][i]
  BY <1>3 DEF VectorInv, VectorsKept
<1> HIDE DEF cells
<1>5. CASE /\ pc' = [pc EXCEPT ![p] = "add"]
           /\ Convertible(cells) /\ copies' = [copies EXCEPT ![p] = Converted(cells)]
  <2>1. pc'[p] = "add" /\ copies'[p] = Converted(cells)
    BY <1>1, <1>5
  <2>2. /\ \A copy \in Converted(cells) : copy[2] = truth[Target(p)][copy[1]] /\ copy[2] # "null"
        /\ \A i \in Ids : truth[Target(p)][i] = "null" \/ <<i, truth[Target(p)][i]>> \in Converted(cells)
    BY <1>3, <1>4, <1>5, ConvertedFacts
  <2>3. CopiesTrue(p)'
    BY <1>2, <1>3, <2>1, <2>2 DEF CopiesTrue, Window
  <2>4. pc[p] \in Repairing
    BY <1>2 DEF Repairing
  <2> QED
    BY <1>2, <1>3, <1>5, <2>3, <2>4, KeptFrame
<1>6. CASE pc' = [pc EXCEPT ![p] = "idle"]
  BY <1>2, <1>3, <1>6, KeptOutside DEF Window
<1> QED
  BY <1>2, <1>5, <1>6

\* The transaction of the exchange begins when every copy is written.
LEMMA ExchangeKeeps ==
  ASSUME Ordered, VectorInv, NEW p \in Processes,
         BeginSwap(p) \/ DropColumn(p) \/ RenameColumn(p)
  PROVE  VectorInv'
<1>1. RepairInv /\ pc \in [Processes -> Statement \cup {"idle"}]
  BY DEF VectorInv, RepairInv, TypeOK
<1>2. /\ RepairInv' /\ UNCHANGED <<table, job, done, truth, copies>>
      /\ \E l \in {"drop_column", "rename", "commit", "drop"} : pc' = [pc EXCEPT ![p] = l]
      /\ (pc[p] = "copy" /\ copies[p] = {}) \/ pc[p] \in {"drop_column", "rename"}
  BY <1>1, BeginSwapStep, DropColumnStep, RenameColumnStep
<1>3. PICK l \in {"drop_column", "rename", "commit", "drop"} : pc' = [pc EXCEPT ![p] = l]
  BY <1>2
<1>4. pc'[p] = l /\ pc[p] \in Repairing /\ copies[p] = {} /\ Target(p)' = Target(p)
      /\ IF table.helper = <<>> THEN table.columns[Target(p)].type = "vector" ELSE Covers(p)
  BY <1>1, <1>2, <1>3 DEF Repairing, Window, VectorInv, CopiesSound, CopiesTrue, Target
<1>5. CopiesTrue(p)'
  BY <1>2, <1>4 DEF CopiesTrue, Covers
<1> QED
  BY <1>2, <1>3, <1>4, <1>5, KeptFrame

\* ADD COLUMN: nobody is past it with its copies when there is no helper column, so an
\* empty one misses nothing, and what an earlier repair left in one is still true.
LEMMA AddColumnKeeps ==
  ASSUME Ordered, VectorInv, NEW p \in Processes, AddColumn(p)
  PROVE  VectorInv'
<1>1. RepairInv /\ TypeOK /\ pc \in [Processes -> Statement \cup {"idle"}]
  BY DEF VectorInv, RepairInv, TypeOK
<1>2. /\ RepairInv' /\ UNCHANGED <<job, done, truth, copies>>
      /\ pc[p] = "add" /\ table'.columns = table.columns
      /\ \/ /\ pc' = [pc EXCEPT ![p] = "copy"]
            /\ table'.helper = IF table.helper = <<>> THEN <<NoCells>> ELSE table.helper
         \/ /\ pc' = [pc EXCEPT ![p] = "idle"]
            /\ table' = table
  BY <1>1, AddColumnStep
<1>3. done[p] < Len(job[p]) /\ pc[p] \in Repairing /\ p \in Busy(job)
  BY <1>1, <1>2, ApartFacts DEF RepairInv, DialectSound, Repairing, Window
<1>4. CASE pc' = [pc EXCEPT ![p] = "idle"] /\ table' = table
  BY <1>2, <1>4, KeptOutside DEF Window
<1>5. CASE /\ pc' = [pc EXCEPT ![p] = "copy"]
           /\ table'.helper = IF table.helper = <<>> THEN <<NoCells>> ELSE table.helper
  <2>1. /\ pc'[p] = "copy" /\ \A q \in Processes : q # p => pc'[q] = pc[q]
        /\ \A q \in Processes : Target(q)' = Target(q)
    BY <1>1, <1>2, <1>5 DEF Target
  <2>2. /\ table'.helper # <<>>
        /\ table.helper = <<>> => table'.helper[1] = NoCells
        /\ table.helper # <<>> => table'.helper = table.helper
    BY <1>5
  <2>3. \A i \in Ids : NoCells[i] = Null
    BY DEF NoCells
  <2>4. ASSUME NEW q \in Processes, q # p
        PROVE  CopiesTrue(q)'
    <3>1. CASE table.helper = <<>>
      <4>1. pc[q] \notin Window \ {"add"}
        <5>1. pc[q] \in Window \ {"add"} => table.columns[Target(q)].type = "vector"
          BY <3>1 DEF VectorInv, CopiesSound, CopiesTrue
        <5>2. pc[q] \in Window \ {"add"} => pc[q] \in Repairing
          BY DEF Repairing
        <5> QED
          BY <1>3, <2>4, <5>1, <5>2 DEF VectorInv, SecondSound
      <4> QED
        BY <1>2, <2>1, <2>4, <4>1 DEF VectorInv, CopiesSound, CopiesTrue, Window
    <3>2. CASE table.helper # <<>>
      BY <1>2, <2>1, <2>2, <2>4, <3>2 DEF VectorInv, CopiesSound, CopiesTrue, Covers
    <3> QED
      BY <3>1, <3>2
  <2>5. CopiesTrue(p)'
    <3>1. /\ \A copy \in copies[p] : copy[2] = truth[Target(p)][copy[1]] /\ copy[2] # "null"
          /\ \A i \in Ids : truth[Target(p)][i] = "null" \/ <<i, truth[Target(p)][i]>> \in copies[p]
      BY <1>2 DEF VectorInv, CopiesSound, CopiesTrue, Window
    <3>2. \A i \in Ids : truth[Target(p)][i] = "null" => table'.helper[1][i] = Null
      BY <1>3, <2>2, <2>3 DEF VectorInv, HelperSound
    <3>3. Covers(p)'
      BY <1>2, <2>1, <3>1, <3>2 DEF Covers
    <3> QED
      BY <1>2, <2>1, <2>2, <3>1, <3>3 DEF CopiesTrue
  <2>6. CopiesSound'
    BY <2>4, <2>5 DEF CopiesSound
  <2>7. HelperSound'
    <3>1. ASSUME NEW q \in Processes, done[q] < Len(job[q])
          PROVE  /\ \A i \in Ids : truth[Target(q)][i] = "null" => table'.helper[1][i] = Null
                 /\ Alone(job) => table.columns[Target(q)].type # "vector"
      <4>1. CASE table.helper = <<>>
        <5>1. Alone(job) => q = p
          BY <1>1, <1>3, <3>1, ApartFacts
        <5> QED
          BY <1>3, <2>2, <2>3, <4>1, <5>1 DEF VectorInv, SecondSound
      <4>2. CASE table.helper # <<>>
        BY <2>2, <3>1, <4>2 DEF VectorInv, HelperSound
      <4> QED
        BY <4>1, <4>2
    <3> QED
      BY <1>2, <2>1, <3>1 DEF HelperSound
  <2>8. SecondSound'
    <3>1. \A q \in Processes : pc'[q] \in Repairing <=> pc[q] \in Repairing
      BY <1>3, <2>1 DEF Repairing, Window
    <3> QED
      BY <1>2, <2>1, <3>1 DEF VectorInv, SecondSound
  <2>9. HelperEnds'
    BY <1>1, <1>2, <1>3, ApartFacts DEF HelperEnds
  <2>10. VectorsKept'
    BY <1>2 DEF VectorInv, VectorsKept
  <2> QED
    BY <1>2, <2>6, <2>7, <2>8, <2>9, <2>10 DEF VectorInv
<1> QED
  BY <1>2, <1>4, <1>5

\* UPDATE of the helper column: the value is that of the row, whoever writes it.
LEMMA CopyKeeps ==
  ASSUME Ordered, VectorInv, NEW p \in Processes, Copy(p)
  PROVE  VectorInv'
<1>1. /\ RepairInv /\ TypeOK /\ pc \in [Processes -> Statement \cup {"idle"}] /\ table \in Table
      /\ copies \in [Processes -> SUBSET (Ids \X Vectors)]
  BY DEF VectorInv, RepairInv, TypeOK
<1>2. /\ RepairInv' /\ UNCHANGED <<job, done, truth>>
      /\ pc[p] = "copy" /\ table'.columns = table.columns
      /\ \E copy \in copies[p] :
           \/ /\ pc' = pc /\ copies' = [copies EXCEPT ![p] = @ \ {copy}]
              /\ table.helper # <<>>
              /\ table'.helper = <<[table.helper[1] EXCEPT ![copy[1]] = Cell("vector", copy[2])]>>
           \/ /\ pc' = [pc EXCEPT ![p] = "idle"] /\ copies' = [copies EXCEPT ![p] = {}]
              /\ table' = table
  BY <1>1, CopyStep
<1>3. done[p] < Len(job[p]) /\ \A q \in Processes : Target(q)' = Target(q)
  BY <1>1, <1>2 DEF RepairInv, DialectSound, Target
<1>4. PICK copy \in copies[p] :
        \/ /\ pc' = pc /\ copies' = [copies EXCEPT ![p] = @ \ {copy}]
           /\ table.helper # <<>>
           /\ table'.helper = <<[table.helper[1] EXCEPT ![copy[1]] = Cell("vector", copy[2])]>>
        \/ /\ pc' = [pc EXCEPT ![p] = "idle"] /\ copies' = [copies EXCEPT ![p] = {}]
           /\ table' = table
  BY <1>2
<1>5. CASE /\ pc' = [pc EXCEPT ![p] = "idle"] /\ copies' = [copies EXCEPT ![p] = {}]
           /\ table' = table
  <2>1. \A q \in Processes : q # p => copies'[q] = copies[q]
    BY <1>1, <1>5
  <2> QED
    BY <1>2, <1>5, <2>1, KeptOutside DEF Window
<1>6. CASE /\ pc' = pc /\ copies' = [copies EXCEPT ![p] = @ \ {copy}]
           /\ table.helper # <<>>
           /\ table'.helper = <<[table.helper[1] EXCEPT ![copy[1]] = Cell("vector", copy[2])]>>
  <2> DEFINE i == copy[1]
             v == copy[2]
  <2>1. copy = <<i, v>> /\ i \in Ids /\ v \in Vectors
    BY <1>1
  <2>2. v = truth[Target(p)][i] /\ v # "null" /\ Covers(p)
    BY <1>2, <1>6 DEF VectorInv, CopiesSound, CopiesTrue, Window
  <2> HIDE DEF i, v
  <2>3. /\ table'.helper # <<>>
        /\ \A j \in Ids : table'.helper[1][j] = IF j = i THEN Cell("vector", v) ELSE table.helper[1][j]
    <3>1. table.helper[1] \in [Ids -> Cells]
      BY <1>1, <1>6, TableFacts
    <3>2. table'.helper = <<[table.helper[1] EXCEPT ![i] = Cell("vector", v)]>>
      BY <1>6 DEF i, v
    <3> QED
      BY <3>1, <3>2
  <2>4. \A q \in Processes : done[q] < Len(job[q]) => Target(q) = Target(p)
    BY <1>1, <1>3, ApartFacts
  <2>5. /\ copies'[p] = copies[p] \ {<<i, v>>}
        /\ \A q \in Processes : q # p => copies'[q] = copies[q]
    BY <1>1, <1>6, <2>1
  <2>6. ASSUME NEW q \in Processes
        PROVE  CopiesTrue(q)'
    <3>1. pc[q] \in Window => Target(q) = Target(p)
      BY <1>1, <2>4 DEF RepairInv, DialectSound, Window
    <3>2. pc[q] \in Window \ {"add"} => Covers(q)
      BY <1>6 DEF VectorInv, CopiesSound, CopiesTrue
    <3>3. pc[q] \in Window \ {"add"} => Covers(q)'
      BY <1>2, <1>3, <2>2, <2>3, <2>5, <3>1, <3>2 DEF Covers, Window
    <3>4. copies'[q] \subseteq copies[q] /\ (pc[q] = "add" => copies'[q] = copies[q])
      BY <1>2, <2>5
    <3> QED
      BY <1>2, <1>3, <1>6, <2>3, <3>3, <3>4 DEF VectorInv, CopiesSound, CopiesTrue
  <2>7. CopiesSound'
    BY <2>6 DEF CopiesSound
  <2>8. HelperSound'
    BY <1>2, <1>3, <1>6, <2>2, <2>3, <2>4 DEF VectorInv, HelperSound
  <2>9. SecondSound'
    BY <1>2, <1>3, <1>6 DEF VectorInv, SecondSound
  <2>10. HelperEnds'
    BY <1>2, <1>6 DEF VectorInv, HelperEnds
  <2>11. VectorsKept'
    BY <1>2 DEF VectorInv, VectorsKept
  <2> QED
    BY <1>2, <2>7, <2>8, <2>9, <2>10, <2>11 DEF VectorInv
<1> QED
  BY <1>4, <1>5, <1>6

\* COMMIT: the helper column holds every vector, since nothing is left to copy.
LEMMA CommitKeeps ==
  ASSUME Ordered, VectorInv, NEW p \in Processes, CommitSwap(p)
  PROVE  VectorInv'
<1>1. RepairInv /\ TypeOK /\ pc \in [Processes -> Statement \cup {"idle"}] /\ table \in Table
  BY DEF VectorInv, RepairInv, TypeOK
<1>2. /\ RepairInv' /\ UNCHANGED <<job, done, truth, copies>>
      /\ pc[p] = "commit" /\ table.helper # <<>> /\ Target(p) \in Columns /\ done[p] < Len(job[p])
      /\ \/ pc' = [pc EXCEPT ![p] = "end"] /\ table' = Exchanged(Target(p))
         \/ pc' = [pc EXCEPT ![p] = "drop"] /\ table' = table
  BY <1>1, CommitSwapStep
<1>3. CASE pc' = [pc EXCEPT ![p] = "drop"] /\ table' = table
  BY <1>2, <1>3, KeptOutside DEF Window
<1>4. CASE pc' = [pc EXCEPT ![p] = "end"] /\ table' = Exchanged(Target(p))
  <2>1. /\ table'.helper = <<>>
        /\ table'.columns[Target(p)] = [type |-> "vector", cells |-> table.helper[1]]
        /\ \A d \in Columns \ {Target(p)} : table'.columns[d] = table.columns[d]
    BY <1>1, <1>2, <1>4, ExchangedFacts
  <2>2. /\ pc'[p] = "end" /\ \A q \in Processes : q # p => pc'[q] = pc[q]
        /\ \A q \in Processes : Target(q)' = Target(q)
    BY <1>1, <1>2, <1>4 DEF Target
  <2>3. copies[p] = {} /\ Covers(p)
    BY <1>2 DEF VectorInv, CopiesSound, CopiesTrue, Window
  <2>4. \A i \in Ids : table.helper[1][i].value = truth[Target(p)][i]
    <3>1. ASSUME NEW i \in Ids
          PROVE  \/ truth[Target(p)][i] = "null" /\ table.helper[1][i] = Null
                 \/ table.helper[1][i] = Cell("vector", truth[Target(p)][i])
      BY <2>3, Zenon DEF Covers
    <3>2. Null.value = "null" /\ \A v : Cell("vector", v).value = v
      BY DEF Cell, Null
    <3> QED
      BY <3>1, <3>2
  <2>5. \A q \in Processes : done[q] < Len(job[q]) => Target(q) = Target(p)
    BY <1>1, <1>2, ApartFacts
  <2>6. \A q \in Processes : pc'[q] \in Repairing => q # p /\ pc[q] \in Repairing /\ done[q] < Len(job[q])
    BY <1>1, <2>2 DEF RepairInv, DialectSound, Repairing, Window
  <2>7. CopiesSound'
    <3>1. ASSUME NEW q \in Processes
          PROVE  CopiesTrue(q)'
      <4>1. pc'[q] \in Window => q # p /\ Target(q) = Target(p)
        BY <2>5, <2>6 DEF Repairing
      <4> QED
        BY <1>2, <2>1, <2>2, <4>1 DEF VectorInv, CopiesSound, CopiesTrue
    <3> QED
      BY <3>1 DEF CopiesSound
  <2>8. HelperSound' /\ HelperEnds'
    BY <2>1 DEF HelperSound, HelperEnds
  <2>9. SecondSound'
    BY <1>1, <1>2, <2>6, ApartFacts DEF SecondSound
  <2>10. VectorsKept'
    BY <1>2, <2>1, <2>4 DEF VectorInv, VectorsKept
  <2> QED
    BY <1>2, <2>7, <2>8, <2>9, <2>10 DEF VectorInv
<1> QED
  BY <1>2, <1>3, <1>4

\* Ok(()): a process that repairs alone leaves no helper column to its next one.
LEMMA ReturnKeeps ==
  ASSUME Ordered, VectorInv, NEW p \in Processes, Return(p)
  PROVE  VectorInv'
<1>1. /\ RepairInv /\ TypeOK /\ pc \in [Processes -> Statement \cup {"idle"}]
      /\ done \in [Processes -> Nat] /\ job \in [Processes -> Seq(Columns)]
  BY JobsAssumption DEF VectorInv, RepairInv, TypeOK
<1>2. /\ RepairInv' /\ UNCHANGED <<dialect, table, job, truth, copies>>
      /\ pc[p] = "return" /\ done[p] < Len(job[p]) /\ Repaired(Target(p))
      /\ pc' = [pc EXCEPT ![p] = "idle"]
      /\ done' = [done EXCEPT ![p] = @ + 1]
  BY <1>1, ReturnStep
<1>3. /\ pc'[p] = "idle" /\ done'[p] = done[p] + 1
      /\ \A q \in Processes : q # p => pc'[q] = pc[q] /\ done'[q] = done[q] /\ Target(q)' = Target(q)
  BY <1>1, <1>2 DEF Target
<1>4. p \in Busy(job)
  BY <1>1, <1>2, ApartFacts
<1>5. CopiesSound'
  <2>1. ASSUME NEW q \in Processes
        PROVE  CopiesTrue(q)'
    <3>1. CASE q = p
      BY <1>3, <3>1 DEF CopiesTrue, Window
    <3>2. CASE q # p
      BY <1>2, <1>3, <3>2 DEF VectorInv, CopiesSound, CopiesTrue, Covers
    <3> QED
      BY <3>1, <3>2
  <2> QED
    BY <2>1 DEF CopiesSound
<1>6. Alone(job) => table.helper = <<>>
  BY <1>2 DEF VectorInv, HelperSound, Repaired, RepairInv, DialectSound
<1>7. HelperSound'
  <2>1. ASSUME table.helper # <<>>, NEW q \in Processes, done'[q] < Len(job[q])
        PROVE  \A i \in Ids : truth[Target(q)'][i] = "null" => table.helper[1][i] = Null
    <3>1. CASE q = p
      <4>1. done[p] + 2 \in DOMAIN job[p] /\ done[p] + 1 \in DOMAIN job[p]
        BY <1>1, <1>3, <2>1, <3>1
      <4>2. Target(p)' = Target(p)
        BY <1>1, <1>2, <1>3, <1>4, <1>6, <2>1, <4>1, ApartFacts DEF Target
      <4> QED
        BY <1>2, <2>1, <3>1, <4>2 DEF VectorInv, HelperSound
    <3>2. CASE q # p
      BY <1>3, <2>1, <3>2 DEF VectorInv, HelperSound
    <3> QED
      BY <3>1, <3>2
  <2> QED
    BY <1>2, <1>6, <2>1 DEF HelperSound
<1>8. SecondSound'
  BY <1>2, <1>3 DEF VectorInv, SecondSound, Repairing, Window
<1>9. HelperEnds'
  BY <1>2, <1>6 DEF HelperEnds
<1>10. VectorsKept'
  BY <1>2 DEF VectorInv, VectorsKept
<1> QED
  BY <1>2, <1>5, <1>7, <1>8, <1>9, <1>10 DEF VectorInv

\* The application writes while no repair has read rows it has not exchanged.
LEMMA ApplicationKeeps ==
  ASSUME Ordered, VectorInv, NEW c \in Columns, NEW i \in Ids, NEW v \in Vectors \cup {"null"},
         ApplicationWrites(c, i, v)
  PROVE  VectorInv'
<1>1. RepairInv /\ TypeOK
  BY DEF VectorInv, RepairInv
<1>2. /\ RepairInv' /\ UNCHANGED <<dialect, pc, copies, job, done>>
      /\ WriteIsSafe(v)
      /\ table'.helper = table.helper
      /\ \A d \in Columns : table'.columns[d].type = table.columns[d].type
      /\ \A d \in Columns, j \in Ids :
           /\ truth'[d][j] = IF d = c /\ j = i THEN v ELSE truth[d][j]
           /\ table'.columns[d].cells[j].value =
                IF d = c /\ j = i THEN v ELSE table.columns[d].cells[j].value
  BY <1>1, ApplicationStep DEF Ordered
<1>3. /\ \A q \in Processes : pc[q] \notin Window
      /\ v = "null" => table.helper = <<>>
  BY <1>2 DEF WriteIsSafe
<1>4. \A q \in Processes : Target(q)' = Target(q) /\ (done[q] < Len(job[q]) => Target(q) \in Columns)
  BY <1>1, <1>2, TargetFacts DEF Target
<1>5. CopiesSound'
  BY <1>2, <1>3 DEF CopiesSound, CopiesTrue, Window
<1>6. HelperSound'
  BY <1>2, <1>3, <1>4 DEF VectorInv, HelperSound
<1>7. SecondSound'
  <2>1. \A q \in Processes : pc[q] \in Repairing => Target(q) \in Columns
    BY <1>1, <1>4 DEF RepairInv, DialectSound, Repairing, Window
  <2> QED
    BY <1>2, <1>4, <2>1 DEF VectorInv, SecondSound
<1>8. HelperEnds'
  BY <1>2 DEF VectorInv, HelperEnds
<1>9. VectorsKept'
  BY <1>2 DEF VectorInv, VectorsKept
<1> QED
  BY <1>2, <1>5, <1>6, <1>7, <1>8, <1>9 DEF VectorInv

\* The steps around the window: no one of them touches the table.
LEMMA AroundKeeps ==
  ASSUME Ordered, VectorInv, NEW p \in Processes,
         \/ Start(p) \/ SelectNothing(p) \/ CreateExtension(p) \/ ReadType(p) \/ EndSwap(p)
         \/ EnsureLedger(p) \/ LookUpHash(p) \/ InsertHash(p) \/ UpdateHash(p) \/ Crash(p)
  PROVE  VectorInv'
<1>1. RepairInv /\ copies \in [Processes -> SUBSET (Ids \X Vectors)]
  BY DEF VectorInv, RepairInv, TypeOK
<1>2. CASE Crash(p)
  <2>1. /\ RepairInv' /\ UNCHANGED <<table, job, done, truth>>
        /\ pc' = [pc EXCEPT ![p] = "idle"] /\ copies' = [copies EXCEPT ![p] = {}]
    BY <1>1, <1>2, CrashStep
  <2>2. \A q \in Processes : q # p => copies'[q] = copies[q]
    BY <1>1, <2>1
  <2> QED
    BY <2>1, <2>2, KeptOutside DEF Window
<1>3. CASE ReadType(p)
  <2>1. /\ RepairInv' /\ UNCHANGED <<table, job, done, truth, copies>>
        /\ \/ pc' = [pc EXCEPT ![p] = "ensure"] \/ pc' = [pc EXCEPT ![p] = "idle"]
           \/ table.columns[Target(p)].type # "vector" /\ pc' = [pc EXCEPT ![p] = "select"]
    BY <1>1, <1>3, ReadTypeStep
  <2>2. PICK l \in {"ensure", "idle", "select"} :
          pc' = [pc EXCEPT ![p] = l] /\ (l = "select" => table.columns[Target(p)].type # "vector")
    BY <2>1
  <2> QED
    BY <2>1, <2>2, KeptOutside DEF Window
<1>4. CASE ~Crash(p) /\ ~ReadType(p)
  <2>1. RepairInv' /\ UNCHANGED <<table, job, done, truth, copies>>
    BY <1>1, <1>4, StartStep, SelectNothingStep, CreateExtensionStep, EndSwapStep, EnsureLedgerStep,
       LookUpHashStep, WriteHashStep, Zenon
  <2>2. \E l \in {"select_nothing", "extension", "ensure", "type", "lookup", "update", "insert",
                  "return", "idle"} : pc' = [pc EXCEPT ![p] = l]
    BY <1>1, <1>4, StartStep, SelectNothingStep, CreateExtensionStep, EndSwapStep, EnsureLedgerStep,
       LookUpHashStep, WriteHashStep
  <2>3. PICK l \in {"select_nothing", "extension", "ensure", "type", "lookup", "update", "insert",
                    "return", "idle"} : pc' = [pc EXCEPT ![p] = l]
    BY <2>2
  <2> QED
    BY <2>1, <2>3, KeptOutside DEF Window
<1> QED
  BY <1>2, <1>3, <1>4

\* No step loses a vector.
LEMMA VectorStep == ASSUME Ordered, VectorInv, [Next]_vars PROVE VectorInv'
<1>1. ASSUME NEW p \in Processes, Start(p) \/ Statements(p) \/ Crash(p)
      PROVE  VectorInv'
  BY <1>1, AroundKeeps, SelectRowsKeeps, ExchangeKeeps, AddColumnKeeps, CopyKeeps, CommitKeeps,
     ReturnKeeps, Zenon DEF Statements
<1>2. ASSUME NEW c \in Columns, NEW i \in Ids, NEW v \in Vectors \cup {"null"},
             ApplicationWrites(c, i, v)
      PROVE  VectorInv'
  BY <1>2, ApplicationKeeps, Zenon
<1>3. ASSUME UNCHANGED vars
      PROVE  VectorInv'
  <2>1. RepairInv'
    BY <1>3, RepairStep DEF VectorInv
  <2>2. CopiesSound'
    BY <1>3 DEF vars, VectorInv, CopiesSound, CopiesTrue, Covers, Target
  <2>3. HelperSound' /\ SecondSound' /\ HelperEnds' /\ VectorsKept'
    BY <1>3 DEF vars, VectorInv, HelperSound, SecondSound, HelperEnds, VectorsKept, Target
  <2> QED
    BY <2>1, <2>2, <2>3 DEF VectorInv
<1> QED
  BY <1>1, <1>2, <1>3 DEF Next, Finished

\* What keeps the vectors is true when a repair starts.
LEMMA InitVectors == ASSUME Init PROVE VectorInv
<1>1. RepairInv /\ VectorsKept /\ table.helper = <<>> /\ \A p \in Processes : pc[p] = "idle"
  BY InitRepair DEF Init, Initial
<1> QED
  BY <1>1 DEF VectorInv, CopiesSound, CopiesTrue, HelperSound, SecondSound, HelperEnds, Repairing, Window

\* Every row keeps the vector the application has last stored in it, whatever fails or
\* dies, if two processes at most repair at once and the application does not write in
\* between (repair_postgres_legacy_vector_column).
THEOREM VectorsStay ==
  ASSUME Disciplined, \A j \in Jobs : Apart(j)
  PROVE  Spec => []VectorsKept
<1>1. Ordered
  BY DEF Ordered
<1>2. Init => VectorInv
  BY InitVectors
<1>3. VectorInv /\ [Next]_vars => VectorInv'
  BY <1>1, VectorStep
<1>4. VectorInv => VectorsKept
  BY DEF VectorInv
<1> QED
  BY <1>2, <1>3, <1>4, PTL DEF Spec
-----------------------------------------------------------------------------
(* The ledger the next start reads *)

\* The ledger holds the first migrations of the release, the repaired one among them or
\* next, or nothing but the repaired one; the others have the hashes the release declares.
LedgerSound ==
  /\ \/ \E n \in {0} \cup MigrationId .. Len(History) : DOMAIN ledger = 0 .. n - 1
     \/ DOMAIN ledger = {MigrationId}
  /\ \A id \in DOMAIN ledger \ {MigrationId} : ledger[id] = History[id + 1]

LEMMA HistoryFacts ==
  /\ MigrationId \in Nat /\ Len(History) \in Nat /\ MigrationId + 1 <= Len(History)
  /\ DOMAIN History = 1 .. Len(History)
BY HistoryAssumption, MigrationIdAssumption

\* Only the entry of the repaired migration is ever written.
LEMMA LedgerSteps ==
  ASSUME [Next]_vars
  PROVE  \/ ledger' = ledger
         \/ ledger' = [id \in DOMAIN ledger \cup {MigrationId} |->
                         IF id = MigrationId THEN PresentHash ELSE ledger[id]]
<1>1. ASSUME NEW p \in Processes, Start(p) \/ Statements(p) \/ Crash(p)
      PROVE  \/ ledger' = ledger
             \/ ledger' = [id \in DOMAIN ledger \cup {MigrationId} |->
                             IF id = MigrationId THEN PresentHash ELSE ledger[id]]
  <2>1. CASE InsertHash(p) \/ UpdateHash(p)
    BY <2>1 DEF InsertHash, UpdateHash, WriteHash
  <2>2. CASE ~(InsertHash(p) \/ UpdateHash(p))
    BY <1>1, <2>2 DEF Start, Crash, Statements, SelectNothing, CreateExtension, ReadType, SelectRows,
       AddColumn, Copy, BeginSwap, DropColumn, RenameColumn, CommitSwap, EndSwap, EnsureLedger,
       LookUpHash, Return
  <2> QED
    BY <2>1, <2>2
<1>2. ASSUME NEW c \in Columns, NEW i \in Ids, NEW v \in Vectors \cup {"null"}, ApplicationWrites(c, i, v)
      PROVE  ledger' = ledger
  BY <1>2 DEF ApplicationWrites
<1>3. CASE UNCHANGED vars
  BY <1>3 DEF vars
<1> QED
  BY <1>1, <1>2, <1>3 DEF Next, Finished

LEMMA LedgerInit ==
  ASSUME Init
  PROVE  LedgerSound
<1>1. PICK n \in {0} \cup MigrationId .. Len(History) : ledger = LedgerOf(n)
  BY HistoryFacts DEF Init, Initial
<1>2. DOMAIN ledger = 0 .. n - 1
  BY <1>1 DEF LedgerOf
<1>3. ASSUME NEW id \in DOMAIN ledger \ {MigrationId}
      PROVE  ledger[id] = History[id + 1]
  <2>1. id \in 0 .. n - 1 /\ id + 1 \in DOMAIN History /\ id + 1 # MigrationId + 1
    BY <1>1, <1>2, <1>3, HistoryFacts
  <2>2. ledger[id] = LegacyHistory[id + 1]
    BY <1>1, <2>1 DEF LedgerOf
  <2> QED
    BY <2>1, <2>2 DEF LegacyHistory
<1> QED
  BY <1>1, <1>2, <1>3 DEF LedgerSound

LEMMA LedgerStep ==
  ASSUME LedgerSound, [Next]_vars
  PROVE  LedgerSound'
<1>1. CASE ledger' = ledger
  BY <1>1 DEF LedgerSound
<1>2. CASE ledger' = [id \in DOMAIN ledger \cup {MigrationId} |->
                        IF id = MigrationId THEN PresentHash ELSE ledger[id]]
  <2>1. DOMAIN ledger' = DOMAIN ledger \cup {MigrationId}
    BY <1>2
  <2>2. \A id \in DOMAIN ledger' \ {MigrationId} : ledger'[id] = History[id + 1]
    BY <1>2, <2>1 DEF LedgerSound
  <2>3. \/ \E n \in {0} \cup MigrationId .. Len(History) : DOMAIN ledger' = 0 .. n - 1
        \/ DOMAIN ledger' = {MigrationId}
    <3>1. CASE DOMAIN ledger = {MigrationId}
      BY <2>1, <3>1
    <3>2. ASSUME NEW n \in {0} \cup MigrationId .. Len(History), DOMAIN ledger = 0 .. n - 1
          PROVE  \/ \E m \in {0} \cup MigrationId .. Len(History) : DOMAIN ledger' = 0 .. m - 1
                 \/ DOMAIN ledger' = {MigrationId}
      <4>1. CASE n = 0
        BY <2>1, <3>2, <4>1
      <4>2. CASE n = MigrationId
        <5>1. DOMAIN ledger' = 0 .. (MigrationId + 1) - 1
          BY <2>1, <3>2, <4>2, HistoryFacts
        <5> QED
          BY <5>1, HistoryFacts
      <4>3. CASE n > MigrationId
        <5>1. DOMAIN ledger' = 0 .. n - 1
          BY <2>1, <3>2, <4>3, HistoryFacts
        <5> QED
          BY <5>1
      <4> QED
        BY <4>1, <4>2, <4>3, HistoryFacts
    <3> QED
      BY <3>1, <3>2 DEF LedgerSound
  <2> QED
    BY <2>2, <2>3 DEF LedgerSound
<1> QED
  BY <1>1, <1>2, LedgerSteps

\* In a ledger without gaps, apply_pending reads the entry of an id at its place.
LEMMA ExistingFacts ==
  ASSUME NEW k \in Nat, DOMAIN ledger = 0 .. k - 1
  PROVE  DOMAIN Existing = 1 .. k /\ \A n \in 1 .. k : Existing[n] = ledger[n - 1]
<1> DEFINE Before(id) == {m \in DOMAIN ledger : m < id}
<1>1. Cardinality(DOMAIN ledger) = k
  BY FS_Interval
<1>2. ASSUME NEW id \in DOMAIN ledger
      PROVE  Cardinality(Before(id)) = id
  <2>1. Before(id) = 0 .. id - 1
    OBVIOUS
  <2>2. id \in Nat /\ Cardinality(0 .. id - 1) = id
    BY FS_Interval
  <2> HIDE DEF Before
  <2> QED
    BY <2>1, <2>2
<1>3. Existing = [n \in 1 .. k |->
                    ledger[CHOOSE id \in DOMAIN ledger : Cardinality(Before(id)) = n - 1]]
  BY <1>1 DEF Existing
<1> HIDE DEF Before
<1>4. ASSUME NEW n \in 1 .. k
      PROVE  Existing[n] = ledger[n - 1]
  <2>1. n - 1 \in DOMAIN ledger
    OBVIOUS
  <2>2. (CHOOSE id \in DOMAIN ledger : Cardinality(Before(id)) = n - 1) = n - 1
    BY <1>2, <2>1
  <2> QED
    BY <1>3, <2>2
<1> QED
  BY <1>3, <1>4

\* RepairedLedgerIsTaken, for any release and any number of processes and faults: the
\* history a repair leaves is one the release takes.
THEOREM LedgerIsTaken == Spec => []RepairedLedgerIsTaken
<1>1. RepairInv /\ LedgerSound => RepairedLedgerIsTaken
  <2> SUFFICES ASSUME RepairInv, LedgerSound, NEW p \in Processes, done[p] > 0,
                      0 .. MigrationId - 1 \subseteq DOMAIN ledger,
                      NEW n \in DOMAIN Existing \cap DOMAIN History
               PROVE  Existing[n] = History[n]
    BY DEF RepairedLedgerIsTaken
  <2>1. MigrationId \in DOMAIN ledger /\ ledger[MigrationId] = History[MigrationId + 1]
    <3>1. done[p] \in Nat
      BY DEF RepairInv, TypeOK
    <3>2. 1 \in 1 .. done[p]
      BY <3>1
    <3> QED
      BY <3>2 DEF RepairInv, StageSound, HashIsPresent, PresentHash
  <2>2. \A id \in DOMAIN ledger : ledger[id] = History[id + 1]
    BY <2>1 DEF LedgerSound
  <2>3. PICK k \in Nat : DOMAIN ledger = 0 .. k - 1
    <3>1. CASE DOMAIN ledger = {MigrationId}
      <4>1. MigrationId = 0
        <5>1. MigrationId # 0 => 0 \in 0 .. MigrationId - 1
          BY HistoryFacts
        <5> QED
          BY <3>1, <5>1
      <4>2. DOMAIN ledger = 0 .. 1 - 1
        BY <3>1, <4>1
      <4> QED
        BY <4>2
    <3>2. CASE \E m \in {0} \cup MigrationId .. Len(History) : DOMAIN ledger = 0 .. m - 1
      BY <3>2, HistoryFacts
    <3> QED
      BY <3>1, <3>2 DEF LedgerSound
  <2>4. n \in 1 .. k /\ Existing[n] = ledger[n - 1] /\ n - 1 \in DOMAIN ledger
    BY <2>3, ExistingFacts
  <2> QED
    BY <2>2, <2>4
<1>2. Init => LedgerSound
  BY LedgerInit
<1>3. LedgerSound /\ [Next]_vars => LedgerSound'
  BY LedgerStep
<1> QED
  BY <1>1, <1>2, <1>3, RepairInvariant, PTL DEF Spec
=============================================================================
