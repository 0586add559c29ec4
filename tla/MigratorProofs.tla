--------------------------- MODULE MigratorProofs ---------------------------
(***************************************************************************)
(* Theorems about Migrator that hold whatever the processes bring: the     *)
(* types, who holds which transaction and lock, and what a process reads.  *)
(***************************************************************************)
EXTENDS Migrator, FiniteSetTheorems, TLAPS

-----------------------------------------------------------------------------
(* Connections and what a step makes of them *)

Link(txn, lock, view) == [txn |-> txn, lock |-> lock, view |-> view]

Data(ledger, rows, renamed, applied) ==
  [ledger |-> ledger, rows |-> rows, renamed |-> renamed, applied |-> applied]

\* Each variable has its type, in the form the steps below use it.
LEMMA Typed ==
  ASSUME TypeOK, NEW p \in Processes
  PROVE  /\ db \in Database
         /\ conn[p].view \in Database
         /\ conn[p].txn \in {"none", "open", "failed"}
         /\ conn[p].lock \in {"none", "shared", "written", "exclusive"}
         /\ conn[p] = Link(conn[p].txn, conn[p].lock, conn[p].view)
         /\ db = Data(db.ledger, db.rows, db.renamed, db.applied)
         /\ db.applied = [e \in Migration \X Steps |-> db.applied[e]]
BY DEF TypeOK, Database, Link, Data

\* A view of what was "base" and has become "after": what the view has added stays.
Merged(v, base, after) ==
  Data(v.ledger, after.rows \cup (v.rows \ base.rows), v.renamed,
       [e \in Migration \X Steps |-> after.applied[e] + (v.applied[e] - base.applied[e])])

\* The view of a connection after another process has made "committed" durable.
RebasedView(q, committed) ==
  IF conn[q].lock = "none" THEN committed
  ELSE IF conn[q].lock = "exclusive" THEN conn[q].view
  ELSE Merged(conn[q].view, db, committed)

\* Rebased changes the view and nothing else (Rebased).
LEMMA RebasedIs ==
  ASSUME TypeOK, NEW q \in Processes, NEW committed
  PROVE  Rebased(q, committed) = Link(conn[q].txn, conn[q].lock, RebasedView(q, committed))
<1>1. conn[q] \in [txn : {"none", "open", "failed"},
                   lock : {"none", "shared", "written", "exclusive"}, view : Database]
  BY DEF TypeOK
<1>2. conn[q].view \in Database
  BY <1>1
<1>3. DOMAIN conn[q].view.applied = Migration \X Steps
  BY <1>2 DEF Database
<1>4. Rebased(q, committed) = [conn[q] EXCEPT !.view = RebasedView(q, committed)]
  BY <1>3 DEF Rebased, RebasedView, Merged, Data
<1>5. \A w : [conn[q] EXCEPT !.view = w] = Link(conn[q].txn, conn[q].lock, w)
  BY <1>1 DEF Link
<1> QED
  BY <1>4, <1>5

\* Nothing changes for the others when nothing becomes durable.
LEMMA RebasedViewSame ==
  ASSUME TypeOK, ViewsSound, NEW q \in Processes
  PROVE  RebasedView(q, db) = conn[q].view
<1>1. CASE conn[q].lock \in {"none", "exclusive"}
  BY <1>1 DEF RebasedView, ViewsSound
<1>2. CASE conn[q].lock \in {"shared", "written"}
  <2>1. /\ conn[q].view \in Database
        /\ db \in Database
        /\ db.rows \subseteq conn[q].view.rows
    BY <1>2, Typed DEF ViewsSound
  <2>2. db.rows \cup (conn[q].view.rows \ db.rows) = conn[q].view.rows
    BY <2>1
  <2>3. \A e \in Migration \X Steps : conn[q].view.applied[e] \in Nat /\ db.applied[e] \in Nat
    BY <2>1 DEF Database
  <2>4. \A e \in Migration \X Steps :
          db.applied[e] + (conn[q].view.applied[e] - db.applied[e]) = conn[q].view.applied[e]
    BY <2>3
  <2>5. [e \in Migration \X Steps |-> db.applied[e] + (conn[q].view.applied[e] - db.applied[e])]
          = conn[q].view.applied
    BY <2>1, <2>4 DEF Database
  <2> QED
    BY <1>2, <2>1, <2>2, <2>5 DEF RebasedView, Merged, Data, Database
<1> QED
  BY <1>1, <1>2, Typed

\* So the connections of the others stay as they are.
LEMMA RebasedSame ==
  ASSUME TypeOK, ViewsSound, NEW q \in Processes
  PROVE  Rebased(q, db) = conn[q]
<1>1. Rebased(q, db) = Link(conn[q].txn, conn[q].lock, conn[q].view)
  BY RebasedViewSame, RebasedIs, Typed
<1> QED
  BY <1>1, Typed

\* What p reads is its own view (View).
LEMMA ViewIs ==
  ASSUME TypeOK, ViewsSound, NEW p \in Processes
  PROVE  View(p) = conn[p].view
BY DEF View, ViewsSound

-----------------------------------------------------------------------------
(* Outcomes *)

\* The statement was refused, or has done what it was to do.
ErrOutcome(p, o) ==
  /\ o.reply = "err"
  /\ o.session.durable = db
  /\ \/ o.session.txn = "none" /\ o.session.working = db
     \/ o.session.txn \in {"open", "failed"} /\ o.session.working = conn[p].view

OkOutcome(p, o, after) ==
  /\ o.reply = "ok"
  /\ o.session.txn = "open"
  /\ o.session.durable = db
  /\ o.session.working = after

\* A statement inside a transaction (StatementOutcomes).
LEMMA StatementIs ==
  ASSUME TypeOK, ViewsSound, NEW p \in Processes, conn[p].txn = "open",
         scenario.dialect \in {"sqlite", "postgres"},
         NEW after, NEW o \in StatementOutcomes(Session(p), after)
  PROVE  ErrOutcome(p, o) \/ OkOutcome(p, o, after)
<1> DEFINE s == Session(p)
<1>1. /\ s = [dialect |-> scenario.dialect, txn |-> "open", durable |-> db, working |-> conn[p].view]
      /\ s.txn = "open"
  BY ViewIs DEF Session
<1>2. \/ o = Outcome([s EXCEPT !.working = after], "ok")
      \/ o = Outcome(s, "err")
      \/ o = Outcome(Discarded(s), "err")
      \/ o = Outcome([s EXCEPT !.txn = "failed"], "err")
  BY <1>1 DEF StatementOutcomes, Failing
<1> HIDE DEF s
<1>3. LET x == [s EXCEPT !.working = after]
      IN  x.txn = "open" /\ x.durable = db /\ x.working = after
  BY <1>1
<1>4. LET x == [s EXCEPT !.txn = "failed"]
      IN  x.txn = "failed" /\ x.durable = db /\ x.working = conn[p].view
  BY <1>1
<1>5. LET x == Discarded(s)
      IN  x.txn = "none" /\ x.durable = db /\ x.working = db
  BY <1>1 DEF Discarded
<1>6. s.durable = db /\ s.working = conn[p].view
  BY <1>1
<1> QED
  BY <1>1, <1>2, <1>3, <1>4, <1>5, <1>6 DEF Outcome, ErrOutcome, OkOutcome

\* A statement that is refused at once (RefusedAtOnce), or whose wait ends with an error.
LEMMA RefusedIs ==
  ASSUME TypeOK, ViewsSound, NEW p \in Processes, conn[p].txn = "open",
         scenario.dialect \in {"sqlite", "postgres"},
         NEW o \in Refused(p) \cup RefusedAtOnce(p)
  PROVE  ErrOutcome(p, o)
<1>1. CASE o \in Refused(p)
  <2>1. o \in StatementOutcomes(Session(p), View(p)) /\ o.reply = "err"
    BY <1>1 DEF Refused
  <2> QED
    BY <2>1, StatementIs DEF OkOutcome
<1>2. CASE o \in RefusedAtOnce(p)
  <2>1. Session(p) = [dialect |-> scenario.dialect, txn |-> "open", durable |-> db,
                      working |-> conn[p].view]
    BY ViewIs DEF Session
  <2> QED
    BY <1>2, <2>1 DEF RefusedAtOnce, Outcome, ErrOutcome
<1> QED
  BY <1>1, <1>2

\* The statement happens only when it need not wait and is possible (WriteOutcomes).
LEMMA WriteIs ==
  ASSUME TypeOK, ViewsSound, NEW p \in Processes, conn[p].txn = "open",
         scenario.dialect \in {"sqlite", "postgres"},
         NEW waits \in BOOLEAN, NEW possible \in BOOLEAN, NEW after,
         NEW o \in WriteOutcomes(p, waits, possible, after)
  PROVE  \/ ErrOutcome(p, o)
         \/ OkOutcome(p, o, after) /\ ~waits /\ possible /\ ~FileBusy(p)
<1>1. CASE waits \/ FileBusy(p) \/ ~possible
  BY <1>1, RefusedIs DEF WriteOutcomes
<1>2. CASE ~(waits \/ FileBusy(p) \/ ~possible)
  BY <1>2, StatementIs DEF WriteOutcomes
<1> QED
  BY <1>1, <1>2

\* The same for a statement that reads (ReadOutcomes).
LEMMA ReadIs ==
  ASSUME TypeOK, ViewsSound, NEW p \in Processes, conn[p].txn = "open",
         scenario.dialect \in {"sqlite", "postgres"},
         NEW waits \in BOOLEAN, NEW o \in ReadOutcomes(p, waits)
  PROVE  \/ ErrOutcome(p, o)
         \/ OkOutcome(p, o, conn[p].view) /\ ~waits
<1>1. CASE waits
  BY <1>1, RefusedIs DEF ReadOutcomes
<1>2. CASE ~waits
  BY <1>2, StatementIs, ViewIs DEF ReadOutcomes
<1> QED
  BY <1>1, <1>2
-----------------------------------------------------------------------------
(* Steps *)

\* Nothing becomes durable, and the others have what they had.
Unmoved(p) ==
  /\ db' = db
  /\ conn' = [q \in Processes |-> conn'[q]]
  /\ \A q \in Others(p) : conn'[q] = conn[q]

\* What an error leaves of the transaction of p.
Hurt(p) ==
  /\ Unmoved(p)
  /\ \/ conn'[p] = Link("none", "none", db)
     \/ \E t \in {"open", "failed"} : conn'[p] = Link(t, conn[p].lock, conn[p].view)

Failed(p) ==
  /\ Hurt(p)
  /\ pc' = [pc EXCEPT ![p] = "drop"]
  /\ result' = [result EXCEPT ![p] = "err"]

Worked(p, lock, after, next) ==
  /\ Unmoved(p)
  /\ conn'[p] = Link("open", lock, after)
  /\ pc' = [pc EXCEPT ![p] = next]
  /\ result' = result

\* "after" becomes durable, and p is in no transaction.
Settled(p, after) ==
  /\ db' = after
  /\ conn' = [q \in Processes |-> conn'[q]]
  /\ conn'[p] = Link("none", "none", after)
  /\ \A q \in Others(p) : conn'[q] = Link(conn[q].txn, conn[q].lock, RebasedView(q, after))

\* What executing a statement means (Do).
LEMMA DoIs ==
  ASSUME NEW p \in Processes, NEW outcomes, NEW lock, NEW next, Do(p, outcomes, lock, next)
  PROVE  \E o \in outcomes :
           /\ db' = o.session.durable
           /\ conn' = Connections(p, o, lock)
           /\ pc' = [pc EXCEPT ![p] =
                       IF o.reply = "ok" THEN next
                       ELSE IF pc[p] \in {"create_ledger", "begin_upgrade", "begin"} THEN "idle"
                       ELSE "drop"]
           /\ result' = IF o.reply = "ok" THEN result ELSE [result EXCEPT ![p] = "err"]
           /\ scenario' = scenario
BY Zenon DEF Do

\* The connections after an outcome (Connections), when nothing becomes durable.
LEMMA ConnectionsUnmoved ==
  ASSUME TypeOK, ViewsSound, NEW p \in Processes, NEW o, NEW lock,
         o.session.durable = db, db' = db, conn' = Connections(p, o, lock)
  PROVE  /\ Unmoved(p)
         /\ conn'[p] = Link(o.session.txn, Lock(p, o, lock),
                            IF o.session.txn = "none" THEN db ELSE o.session.working)
<1>1. \A q \in Processes :
        conn'[q] = IF q = p THEN Link(o.session.txn, Lock(p, o, lock),
                                      IF o.session.txn = "none" THEN db ELSE o.session.working)
                   ELSE Rebased(q, db)
  BY DEF Connections, Link
<1>2. conn' = [q \in Processes |-> conn'[q]]
  BY DEF Connections
<1>3. \A q \in Processes : Rebased(q, db) = conn[q]
  BY RebasedSame
<1> QED
  BY <1>1, <1>2, <1>3 DEF Unmoved, Others

\* The same when something does.
LEMMA ConnectionsSettled ==
  ASSUME TypeOK, NEW p \in Processes, NEW o, NEW lock, NEW after,
         o.session.durable = after, o.session.txn = "none",
         db' = after, conn' = Connections(p, o, lock)
  PROVE  Settled(p, after)
<1>1. \A q \in Processes :
        conn'[q] = IF q = p THEN Link("none", "none", after) ELSE Rebased(q, after)
  BY DEF Connections, Link, Lock
<1>2. conn' = [q \in Processes |-> conn'[q]]
  BY DEF Connections
<1>3. \A q \in Processes : Rebased(q, after) = Link(conn[q].txn, conn[q].lock, RebasedView(q, after))
  BY RebasedIs
<1> QED
  BY <1>1, <1>2, <1>3 DEF Settled, Others

\* An error inside a transaction.
LEMMA ErrStep ==
  ASSUME TypeOK, ViewsSound, NEW p \in Processes, conn[p].txn = "open", NEW o, NEW lock,
         ErrOutcome(p, o), db' = o.session.durable, conn' = Connections(p, o, lock)
  PROVE  Hurt(p)
<1>1. o.session.durable = db /\ db' = db /\ o.reply = "err"
  BY DEF ErrOutcome
<1>2. /\ Unmoved(p)
      /\ conn'[p] = Link(o.session.txn, Lock(p, o, lock),
                         IF o.session.txn = "none" THEN db ELSE o.session.working)
  BY <1>1, ConnectionsUnmoved
<1>3. Lock(p, o, lock) = IF o.session.txn = "none" THEN "none" ELSE conn[p].lock
  BY <1>1 DEF Lock
<1>4. CASE o.session.txn = "none" /\ o.session.working = db
  BY <1>2, <1>3, <1>4 DEF Hurt
<1>5. CASE o.session.txn \in {"open", "failed"} /\ o.session.working = conn[p].view
  BY <1>2, <1>3, <1>5 DEF Hurt
<1> QED
  BY <1>4, <1>5 DEF ErrOutcome

\* A statement that writes inside the transaction of p.
LEMMA WriteStep ==
  ASSUME SessionsInv, NEW p \in Processes, pc[p] \in Upgrading \cup Migrating,
         NEW waits \in BOOLEAN, NEW possible \in BOOLEAN, NEW after, NEW next,
         NEW lock \in {"written", "exclusive"},
         Do(p, WriteOutcomes(p, waits, possible, after), lock, next)
  PROVE  \/ Failed(p)
         \/ /\ Worked(p, IF conn[p].lock = "exclusive" THEN "exclusive" ELSE lock, after, next)
            /\ ~waits /\ possible /\ ~FileBusy(p)
<1>1. /\ TypeOK /\ ViewsSound /\ conn[p].txn = "open"
      /\ scenario.dialect \in {"sqlite", "postgres"}
  BY DEF SessionsInv, ConnSound
<1>2. PICK o \in WriteOutcomes(p, waits, possible, after) :
           /\ db' = o.session.durable
           /\ conn' = Connections(p, o, lock)
           /\ pc' = [pc EXCEPT ![p] =
                       IF o.reply = "ok" THEN next
                       ELSE IF pc[p] \in {"create_ledger", "begin_upgrade", "begin"} THEN "idle"
                       ELSE "drop"]
           /\ result' = IF o.reply = "ok" THEN result ELSE [result EXCEPT ![p] = "err"]
  BY DoIs
<1>3. pc[p] \notin {"create_ledger", "begin_upgrade", "begin"}
  BY DEF Upgrading, Migrating
<1>4. CASE ErrOutcome(p, o)
  <2>1. Hurt(p)
    BY <1>1, <1>2, <1>4, ErrStep
  <2> QED
    BY <1>2, <1>3, <1>4, <2>1 DEF Failed, ErrOutcome
<1>5. CASE OkOutcome(p, o, after) /\ ~waits /\ possible /\ ~FileBusy(p)
  <2>1. o.session.durable = db /\ db' = db /\ o.reply = "ok" /\ o.session.txn = "open"
        /\ o.session.working = after
    BY <1>2, <1>5 DEF OkOutcome
  <2>2. Unmoved(p) /\ conn'[p] = Link("open", Lock(p, o, lock), after)
    BY <1>1, <1>2, <2>1, ConnectionsUnmoved
  <2>3. Lock(p, o, lock) = IF conn[p].lock = "exclusive" THEN "exclusive" ELSE lock
    BY <2>1 DEF Lock
  <2> QED
    BY <1>2, <1>5, <2>1, <2>2, <2>3 DEF Worked
<1> QED
  BY <1>1, <1>4, <1>5, WriteIs

\* A statement that reads inside the transaction of run.
LEMMA ReadStep ==
  ASSUME SessionsInv, NEW p \in Processes, pc[p] \in Migrating,
         NEW waits \in BOOLEAN, NEW next, Do(p, ReadOutcomes(p, waits), "shared", next)
  PROVE  \/ Failed(p)
         \/ /\ Worked(p, IF conn[p].lock = "written" THEN "written" ELSE "shared", conn[p].view, next)
            /\ ~waits
<1>1. /\ TypeOK /\ ViewsSound /\ conn[p].txn = "open" /\ conn[p].lock # "exclusive"
      /\ scenario.dialect \in {"sqlite", "postgres"}
  BY DEF SessionsInv, ConnSound
<1>2. PICK o \in ReadOutcomes(p, waits) :
           /\ db' = o.session.durable
           /\ conn' = Connections(p, o, "shared")
           /\ pc' = [pc EXCEPT ![p] =
                       IF o.reply = "ok" THEN next
                       ELSE IF pc[p] \in {"create_ledger", "begin_upgrade", "begin"} THEN "idle"
                       ELSE "drop"]
           /\ result' = IF o.reply = "ok" THEN result ELSE [result EXCEPT ![p] = "err"]
  BY DoIs
<1>3. pc[p] \notin {"create_ledger", "begin_upgrade", "begin"}
  BY DEF Migrating
<1>4. CASE ErrOutcome(p, o)
  <2>1. Hurt(p)
    BY <1>1, <1>2, <1>4, ErrStep
  <2> QED
    BY <1>2, <1>3, <1>4, <2>1 DEF Failed, ErrOutcome
<1>5. CASE OkOutcome(p, o, conn[p].view) /\ ~waits
  <2>1. o.session.durable = db /\ db' = db /\ o.reply = "ok" /\ o.session.txn = "open"
        /\ o.session.working = conn[p].view
    BY <1>2, <1>5 DEF OkOutcome
  <2>2. Unmoved(p) /\ conn'[p] = Link("open", Lock(p, o, "shared"), conn[p].view)
    BY <1>1, <1>2, <2>1, ConnectionsUnmoved
  <2>3. Lock(p, o, "shared") = IF conn[p].lock = "written" THEN "written" ELSE "shared"
    BY <1>1, <2>1 DEF Lock
  <2> QED
    BY <1>2, <1>5, <2>1, <2>2, <2>3 DEF Worked
<1> QED
  BY <1>1, <1>4, <1>5, ReadIs

\* A BEGIN, which the connection is never in a transaction for.
LEMMA BeginStep ==
  ASSUME SessionsInv, NEW p \in Processes, pc[p] \in {"begin", "begin_upgrade"}, NEW next,
         Do(p, BeginOutcomes(Session(p)), "none", next)
  PROVE  Worked(p, "none", db, next)
<1>1. /\ TypeOK /\ ViewsSound /\ conn[p].txn = "none" /\ conn[p].lock = "none"
  BY DEF SessionsInv, ConnSound
<1>2. Session(p) = [dialect |-> scenario.dialect, txn |-> "none", durable |-> db, working |-> db]
  BY <1>1 DEF Session, View
<1>3. PICK o \in BeginOutcomes(Session(p)) :
           /\ db' = o.session.durable
           /\ conn' = Connections(p, o, "none")
           /\ pc' = [pc EXCEPT ![p] =
                       IF o.reply = "ok" THEN next
                       ELSE IF pc[p] \in {"create_ledger", "begin_upgrade", "begin"} THEN "idle"
                       ELSE "drop"]
           /\ result' = IF o.reply = "ok" THEN result ELSE [result EXCEPT ![p] = "err"]
  BY DoIs
<1>4. o = Outcome([Session(p) EXCEPT !.txn = "open"], "ok")
  BY <1>2, <1>3 DEF BeginOutcomes
<1>5. /\ o.session.durable = db /\ o.session.txn = "open" /\ o.session.working = db /\ o.reply = "ok"
  BY <1>2, <1>4 DEF Outcome
<1>6. Unmoved(p) /\ conn'[p] = Link("open", Lock(p, o, "none"), db)
  BY <1>1, <1>3, <1>5, ConnectionsUnmoved
<1>7. Lock(p, o, "none") = "none"
  BY <1>1, <1>5 DEF Lock
<1> QED
  BY <1>3, <1>5, <1>6, <1>7 DEF Worked

\* The COMMIT of a transaction: what p has seen becomes durable, or it has failed.
LEMMA CommitStep ==
  ASSUME SessionsInv, NEW p \in Processes, conn[p].txn = "open",
         NEW o \in CommitOutcome(p), db' = o.session.durable, conn' = Connections(p, o, "none")
  PROVE  \/ o.reply = "ok" /\ ~CommitBusy(p) /\ Settled(p, conn[p].view)
         \/ o.reply = "err" /\ Hurt(p)
<1>1. /\ TypeOK /\ ViewsSound
      /\ Session(p) = [dialect |-> scenario.dialect, txn |-> "open", durable |-> db,
                       working |-> conn[p].view]
  BY ViewIs DEF SessionsInv, Session
<1> DEFINE s == Session(p)
<1>2. \/ o = Outcome(Published(s), "ok") /\ ~CommitBusy(p)
      \/ o = Outcome(Discarded(s), "err")
      \/ o = Outcome(s, "err")
  BY <1>1 DEF CommitOutcome, CommitOutcomes, Failing
<1>3. LET x == Discarded(s)
      IN  x.txn = "none" /\ x.durable = db /\ x.working = db
  BY <1>1 DEF Discarded
<1>4. LET x == Published(s)
      IN  x.txn = "none" /\ x.durable = conn[p].view
  BY <1>1 DEF Published
<1>5. s.durable = db /\ s.working = conn[p].view /\ s.txn = "open"
  BY <1>1
<1> HIDE DEF s
<1>6. CASE o = Outcome(Published(s), "ok") /\ ~CommitBusy(p)
  <2>1. o.session.durable = conn[p].view /\ o.session.txn = "none" /\ o.reply = "ok"
    BY <1>4, <1>6 DEF Outcome
  <2>2. Settled(p, conn[p].view)
    BY <1>1, <2>1, ConnectionsSettled
  <2> QED
    BY <1>6, <2>1, <2>2
<1>7. CASE o = Outcome(Discarded(s), "err") \/ o = Outcome(s, "err")
  <2>1. ErrOutcome(p, o)
    BY <1>3, <1>5, <1>7 DEF Outcome, ErrOutcome
  <2>2. Hurt(p)
    BY <1>1, <2>1, ErrStep
  <2> QED
    BY <2>1, <2>2 DEF ErrOutcome
<1> QED
  BY <1>2, <1>6, <1>7
-----------------------------------------------------------------------------
(* The database and the connections after a step *)

Connection == [txn : {"none", "open", "failed"},
               lock : {"none", "shared", "written", "exclusive"}, view : Database]

DataInv ==
  /\ db \in Database
  /\ conn \in [Processes -> Connection]
  /\ RowsFinite
  /\ LocksSound
  /\ ViewsSound

\* What a transaction that has written reads.
Extends(v, base) ==
  /\ v.ledger = base.ledger
  /\ v.renamed = base.renamed
  /\ base.rows \subseteq v.rows
  /\ \A e \in Migration \X Steps : v.applied[e] >= base.applied[e]

Finite(d) == IsFiniteSet(d.rows) /\ IsFiniteSet(d.renamed)

\* The parts of DataInv about one process, and about two.
LinkSound(c, base) ==
  /\ c \in Connection
  /\ Finite(c.view)
  /\ c.lock \in {"none", "shared"} => c.view = base
  /\ c.lock = "written" => Extends(c.view, base)

Writing(c) == c.lock \in {"written", "exclusive"}

PairSound(c, d) ==
  /\ scenario.dialect = "sqlite" => ~(Writing(c) /\ Writing(d))
  /\ scenario.dialect = "postgres" =>
       (c.lock = "exclusive" => d.lock = "none") /\ (d.lock = "exclusive" => c.lock = "none")

DataParts ==
  /\ db \in Database /\ Finite(db)
  /\ conn = [q \in Processes |-> conn[q]]
  /\ \A q \in Processes : LinkSound(conn[q], db)
  /\ \A q, r \in Processes : q # r => PairSound(conn[q], conn[r])

\* DataInv, one process and one pair of processes at a time.
LEMMA DataInvIs == DataParts <=> DataInv
<1>1. ASSUME DataInv PROVE DataParts
  <2>1. \A q \in Processes : LinkSound(conn[q], db)
    BY <1>1 DEF DataInv, LinkSound, RowsFinite, ViewsSound, Finite, Extends
  <2>2. \A q, r \in Processes : q # r => PairSound(conn[q], conn[r])
    BY <1>1 DEF DataInv, LocksSound, PairSound, Writing, Wrote
  <2> QED
    BY <1>1, <2>1, <2>2 DEF DataInv, RowsFinite, Finite, DataParts
<1>2. ASSUME DataParts PROVE DataInv
  <2>1. conn \in [Processes -> Connection]
    BY <1>2 DEF LinkSound, DataParts
  <2>2. RowsFinite
    BY <1>2 DEF LinkSound, RowsFinite, Finite, DataParts
  <2>3. ViewsSound
    BY <1>2 DEF LinkSound, ViewsSound, Extends, DataParts
  <2>4. LocksSound
    BY <1>2 DEF PairSound, LocksSound, Writing, Wrote, DataParts
  <2> QED
    BY <1>2, <2>1, <2>2, <2>3, <2>4 DEF DataInv, DataParts
<1> QED
  BY <1>1, <1>2

\* DataInv is a part of the invariant.
LEMMA DataOf ==
  ASSUME SessionsInv
  PROVE  DataInv
BY DEF SessionsInv, DataInv, TypeOK, Connection

\* The type of the database is that of the scenario.
LEMMA SameTypes ==
  ASSUME scenario' = scenario
  PROVE  /\ Database' = Database /\ Connection' = Connection
         /\ (Migration \X Steps)' = Migration \X Steps
BY DEF Database, Connection, Row, Names, Hashes, Known, Brought, Plan, Migration, Steps

\* When nothing becomes durable it is enough to look at the connection of p.
LEMMA UnmovedData ==
  ASSUME DataInv, NEW p \in Processes, scenario' = scenario, Unmoved(p),
         LinkSound(conn'[p], db),
         \A q \in Others(p) : PairSound(conn'[p], conn[q])
  PROVE  DataInv'
<1>1. /\ db' \in Database' /\ Finite(db')
      /\ conn' = [q \in Processes |-> conn'[q]]
  BY SameTypes DEF Unmoved, DataInv, RowsFinite, Finite
<1>2. \A q \in Processes : LinkSound(conn'[q], db')
  BY DataInvIs DEF DataParts, Unmoved, Others
<1>3. \A q, r \in Processes : q # r => PairSound(conn'[q], conn'[r])
  <2>1. \A q \in Others(p) : PairSound(conn'[q], conn'[p])
    BY DEF PairSound, Unmoved
  <2> QED
    BY <2>1, DataInvIs DEF DataParts, Unmoved, Others
<1>4. /\ \A q \in Processes : LinkSound(conn[q], db)'
      /\ \A q, r \in Processes : q # r => PairSound(conn[q], conn[r])'
  BY <1>2, <1>3, SameTypes DEF LinkSound, PairSound, Writing, Extends, Finite
<1>5. DataParts'
  BY <1>1, <1>4 DEF DataParts, Finite
<1> QED
  BY <1>5, DataInvIs, PTL

\* A view rebased on what another process has added to what is durable.
LEMMA RebasedExtends ==
  ASSUME NEW base \in Database, NEW after \in Database, NEW v \in Database,
         Extends(after, base), Extends(v, base), Finite(after), Finite(v),
         NEW w, w = Merged(v, base, after)
  PROVE  /\ w \in Database
         /\ Finite(w)
         /\ Extends(w, after)
         /\ v = base => w = after
<1>1. \A e \in Migration \X Steps :
        /\ after.applied[e] \in Nat /\ v.applied[e] \in Nat /\ base.applied[e] \in Nat
        /\ v.applied[e] >= base.applied[e]
  BY DEF Database, Extends
<1>2. \A e \in Migration \X Steps :
        /\ after.applied[e] + (v.applied[e] - base.applied[e]) \in Nat
        /\ after.applied[e] + (v.applied[e] - base.applied[e]) >= after.applied[e]
        /\ v = base => after.applied[e] + (v.applied[e] - base.applied[e]) = after.applied[e]
  BY <1>1
<1> DEFINE applied == [e \in Migration \X Steps |-> after.applied[e] + (v.applied[e] - base.applied[e])]
<1>3. applied \in [Migration \X Steps -> Nat]
  BY <1>2
<1>4. after.rows \cup (v.rows \ base.rows) \in SUBSET Row
  BY DEF Database
<1>5. w \in Database
  BY <1>3, <1>4 DEF Merged, Data, Database
<1>6. Finite(w)
  <2>1. IsFiniteSet(v.rows \ base.rows)
    BY FS_Difference DEF Finite
  <2>2. IsFiniteSet(after.rows \cup (v.rows \ base.rows))
    BY <2>1, FS_Union DEF Finite
  <2> QED
    BY <2>2 DEF Finite, Merged, Data
<1>7. Extends(w, after)
  <2>1. \A e \in Migration \X Steps : w.applied[e] >= after.applied[e]
    BY <1>2 DEF Merged, Data
  <2> QED
    BY <2>1 DEF Extends, Merged, Data
<1>8. ASSUME v = base PROVE w = after
  <2>1. v.rows \ base.rows = {}
    BY <1>8
  <2>2. after.rows \cup (v.rows \ base.rows) = after.rows
    BY <2>1
  <2>3. applied = after.applied
    BY <1>2, <1>8 DEF Database
  <2>4. v.ledger = after.ledger /\ v.renamed = after.renamed
    BY <1>8 DEF Extends
  <2> HIDE DEF applied
  <2>5. w = Data(after.ledger, after.rows, after.renamed, after.applied)
    BY <2>2, <2>3, <2>4 DEF applied, Merged
  <2>6. after = Data(after.ledger, after.rows, after.renamed, after.applied)
    BY DEF Database, Data
  <2> QED
    BY <2>5, <2>6
<1> QED
  BY <1>5, <1>6, <1>7, <1>8

\* What p has made durable reaches the others: it was durable, or they have no locks, or
\* they have written something else.
LEMMA SettledData ==
  ASSUME TypeOK, DataInv, NEW p \in Processes, scenario' = scenario,
         scenario.dialect \in {"sqlite", "postgres"},
         NEW after \in Database, Finite(after), Settled(p, after),
         \/ after = db
         \/ \A q \in Others(p) : conn[q].lock = "none"
         \/ scenario.dialect = "postgres" /\ conn[p].lock = "written" /\ after = conn[p].view
  PROVE  DataInv'
<1>1. /\ \A q \in Processes : LinkSound(conn[q], db)
      /\ \A q, r \in Processes : q # r => PairSound(conn[q], conn[r])
  BY DataInvIs DEF DataParts
<1>2. \A q \in Processes : conn[q] \in Connection /\ conn[q].view \in Database
  BY DEF DataInv, Connection
<1>3. \A q \in Others(p) : LinkSound(conn'[q], after)
  <2> TAKE q \in Others(p)
  <2>1. q \in Processes /\ q # p /\ LinkSound(conn[q], db)
    BY <1>1 DEF Others
  <2> DEFINE v == RebasedView(q, after)
  <2>2. conn'[q] = Link(conn[q].txn, conn[q].lock, v)
    BY DEF Settled
  <2>3. /\ v \in Database /\ Finite(v)
        /\ conn[q].lock \in {"none", "shared"} => v = after
        /\ conn[q].lock = "written" => Extends(v, after)
    <3>1. CASE conn[q].lock = "none"
      BY <3>1 DEF RebasedView
    <3>2. CASE after = db
      <4>1. v = conn[q].view
        BY <2>1, <3>2, RebasedViewSame DEF DataInv
      <4> QED
        BY <1>2, <2>1, <3>2, <4>1 DEF LinkSound
    <3>3. CASE /\ conn[q].lock # "none" /\ scenario.dialect = "postgres"
               /\ conn[p].lock = "written" /\ after = conn[p].view
      <4>1. conn[q].lock \in {"shared", "written"}
        BY <1>1, <1>2, <2>1, <3>3 DEF PairSound, Connection
      <4>2. Extends(after, db)
        BY <1>1, <3>3 DEF LinkSound
      <4>3. /\ Extends(conn[q].view, db) /\ Finite(conn[q].view)
            /\ conn[q].lock = "shared" => conn[q].view = db
        BY <2>1, <4>1 DEF LinkSound, Extends, DataInv, Database
      <4>4. v = Merged(conn[q].view, db, after)
        BY <4>1 DEF RebasedView
      <4>5. db \in Database
        BY DEF DataInv
      <4> HIDE DEF v
      <4> QED
        BY <1>2, <2>1, <4>1, <4>2, <4>3, <4>4, <4>5, RebasedExtends
    <3> QED
      BY <3>1, <3>2, <3>3
  <2> HIDE DEF v
  <2>4. conn'[q] \in Connection
    BY <1>2, <2>1, <2>2, <2>3 DEF Link, Connection
  <2>5. conn'[q].lock = conn[q].lock /\ conn'[q].view = v
    BY <2>2 DEF Link
  <2> QED
    BY <2>3, <2>4, <2>5 DEF LinkSound
<1>4. LinkSound(conn'[p], after)
  BY DEF Settled, LinkSound, Link, Connection
<1>5. \A q, r \in Processes : q # r => PairSound(conn'[q], conn'[r])
  <2>1. \A q \in Processes : conn'[q].lock = IF q = p THEN "none" ELSE conn[q].lock
    BY DEF Settled, Link, Others
  <2> QED
    BY <1>1, <2>1 DEF PairSound, Writing
<1>6. /\ \A q \in Processes : LinkSound(conn[q], db)'
      /\ \A q, r \in Processes : q # r => PairSound(conn[q], conn[r])'
  <2>1. \A q \in Processes : LinkSound(conn'[q], db')
    BY <1>3, <1>4 DEF Settled, Others
  <2> QED
    BY <1>5, <2>1, SameTypes DEF LinkSound, PairSound, Writing, Extends, Finite
<1>7. DataParts'
  <2>1. db' \in Database' /\ Finite(db') /\ conn' = [q \in Processes |-> conn'[q]]
    BY SameTypes DEF Settled, Finite
  <2> QED
    BY <1>6, <2>1 DEF DataParts, Finite
<1> QED
  BY <1>7, DataInvIs, PTL

\* A transaction that is not there, or has ended without a commit.
LEMMA QuietData ==
  ASSUME DataInv, NEW p \in Processes, scenario' = scenario, Unmoved(p),
         conn'[p] = Link("none", "none", db)
  PROVE  DataInv'
<1>1. LinkSound(conn'[p], db)
  BY DEF DataInv, LinkSound, Link, Connection, RowsFinite, Finite, ViewsSound
<1>2. \A q \in Others(p) : PairSound(conn'[p], conn[q])
  BY DEF PairSound, Link, Writing
<1> QED
  BY <1>1, <1>2, UnmovedData

\* A transaction that an error has left as it was, or poisoned, or ended.
LEMMA HurtData ==
  ASSUME DataInv, NEW p \in Processes, scenario' = scenario, Hurt(p)
  PROVE  DataInv'
<1>0. Unmoved(p)
  BY DEF Hurt
<1>1. CASE conn'[p] = Link("none", "none", db)
  BY <1>0, <1>1, QuietData
<1>2. CASE \E t \in {"open", "failed"} : conn'[p] = Link(t, conn[p].lock, conn[p].view)
  <2>1. LinkSound(conn[p], db) /\ \A q \in Others(p) : PairSound(conn[p], conn[q])
    BY DataInvIs DEF DataParts, Others
  <2>2. LinkSound(conn'[p], db)
    BY <1>2, <2>1 DEF LinkSound, Link, Connection
  <2>3. \A q \in Others(p) : PairSound(conn'[p], conn[q])
    BY <1>2, <2>1 DEF PairSound, Link, Writing
  <2> QED
    BY <1>0, <2>2, <2>3, UnmovedData
<1> QED
  BY <1>1, <1>2 DEF Hurt

\* A statement that was executed, with the lock it needs.
LEMMA WorkedData ==
  ASSUME DataInv, NEW p \in Processes, scenario' = scenario,
         scenario.dialect \in {"sqlite", "postgres"}, conn[p].txn = "open",
         NEW lock \in {"none", "shared", "written", "exclusive"}, NEW after \in Database, NEW next,
         Worked(p, lock, after, next),
         Finite(after),
         lock \in {"none", "shared"} => after = db,
         lock = "written" => Extends(after, db),
         lock \in {"written", "exclusive"} => Writing(conn[p]) \/ ~FileBusy(p),
         lock = "exclusive" => conn[p].lock = "exclusive" \/ ~LedgerInUse(p),
         lock \in {"shared", "written"} => conn[p].lock \in {"shared", "written"} \/ ~LedgerLocked(p)
  PROVE  DataInv'
<1>1. Unmoved(p) /\ conn'[p] = Link("open", lock, after)
  BY DEF Worked
<1>2. LinkSound(conn'[p], db)
  BY <1>1 DEF LinkSound, Link, Connection
<1>3. \A q \in Others(p) : PairSound(conn'[p], conn[q])
  <2> TAKE q \in Others(p)
  <2>1. PairSound(conn[p], conn[q]) /\ conn[q].lock \in {"none", "shared", "written", "exclusive"}
    BY DataInvIs DEF DataParts, Others, DataInv, Connection
  <2>2. ~FileBusy(p) => ~(scenario.dialect = "sqlite" /\ Writing(conn[q]))
    BY DEF FileBusy, Wrote, Writing
  <2>3. ~LedgerInUse(p) => ~(scenario.dialect = "postgres" /\ conn[q].lock # "none")
    BY DEF LedgerInUse
  <2>4. ~LedgerLocked(p) => ~(scenario.dialect = "postgres" /\ conn[q].lock = "exclusive")
    BY DEF LedgerLocked
  <2>5. conn'[p].lock = lock
    BY <1>1 DEF Link
  <2> QED
    BY <2>1, <2>2, <2>3, <2>4, <2>5 DEF PairSound, Writing
<1> QED
  BY <1>1, <1>2, <1>3, UnmovedData

-----------------------------------------------------------------------------
(* The invariant, one process at a time *)

Shaped ==
  /\ pc = [q \in Processes |-> pc[q]]
  /\ set = [q \in Processes |-> set[q]]
  /\ idx = [q \in Processes |-> idx[q]]
  /\ step = [q \in Processes |-> step[q]]
  /\ result = [q \in Processes |-> result[q]]
  /\ runs = [q \in Processes |-> runs[q]]

\* Where p is, and what it may have there.
PlaceSound(p) ==
  /\ pc[p] \in Statement \cup {"idle"}
  /\ set[p] \in Nat \ {0}
  /\ idx[p] \in Nat
  /\ step[p] \in Steps
  /\ result[p] \in {"none", "ok", "err", "panic", "crashed"}
  /\ runs[p] \in 0 .. MaxRuns
  /\ pc[p] \notin Migrating \cup {"drop", "idle"} => set[p] = 1
  /\ pc[p] \in {"read", "apply", "record"} => set[p] \in DOMAIN Plan[p]
  /\ pc[p] \in {"apply", "record"} => idx[p] + 1 \in DOMAIN Fragment(p).migrations
  /\ pc[p] = "record" => step[p] = 1

HoldsSound(p) ==
  /\ pc[p] \in {"idle", "create_ledger", "probe", "begin_upgrade", "end_upgrade", "begin"} =>
       conn[p].txn = "none"
  /\ conn[p].txn = "none" => conn[p].lock = "none"
  /\ pc[p] \in Upgrading \cup Migrating => conn[p].txn = "open"
  /\ pc[p] = "rename" => conn[p].lock = "none"
  /\ pc[p] \in Upgrading \ {"rename"} => conn[p].lock = "exclusive"
  /\ pc[p] \in Migrating => conn[p].lock # "exclusive"
  /\ pc[p] = "apply" => conn[p].lock # "none"
  /\ pc[p] = "record" => conn[p].lock = "written"
  /\ pc[p] \notin {"idle", "create_ledger", "drop"} \/ conn[p].lock # "none" => db.ledger # "absent"
  /\ pc[p] \in {"copy", "drop_legacy", "commit_upgrade"} => conn[p].view.ledger = "current"

SessionsParts ==
  /\ WellFormed(scenario)
  /\ scenario.dialect \in {"sqlite", "postgres"}
  /\ DataInv
  /\ Shaped
  /\ \A p \in Processes : PlaceSound(p) /\ HoldsSound(p)

\* SessionsInv, one process at a time.
LEMMA SessionsInvIs == SessionsParts <=> SessionsInv
<1>1. ASSUME SessionsInv PROVE SessionsParts
  <2>1. Shaped
    BY <1>1 DEF SessionsInv, TypeOK, Shaped
  <2>2. \A p \in Processes : PlaceSound(p)
    BY <1>1 DEF SessionsInv, TypeOK, Positions, PlaceSound
  <2>3. \A p \in Processes : HoldsSound(p)
    BY <1>1 DEF SessionsInv, ConnSound, LedgerThere, HoldsSound
  <2> QED
    BY <1>1, <2>1, <2>2, <2>3, DataOf DEF SessionsInv, SessionsParts
<1>2. ASSUME SessionsParts PROVE SessionsInv
  <2>1. TypeOK
    <3>1. \A p \in Processes : PlaceSound(p)
      BY <1>2 DEF SessionsParts
    <3>2. pc \in [Processes -> Statement \cup {"idle"}]
      BY <1>2, <3>1 DEF SessionsParts, Shaped, PlaceSound
    <3>3. set \in [Processes -> Nat] /\ idx \in [Processes -> Nat] /\ step \in [Processes -> Steps]
      BY <1>2, <3>1 DEF SessionsParts, Shaped, PlaceSound
    <3>4. /\ result \in [Processes -> {"none", "ok", "err", "panic", "crashed"}]
          /\ runs \in [Processes -> 0 .. MaxRuns]
      BY <1>2, <3>1 DEF SessionsParts, Shaped, PlaceSound
    <3> QED
      BY <1>2, <3>2, <3>3, <3>4 DEF TypeOK, SessionsParts, DataInv, Connection
  <2>2. Positions
    BY <1>2 DEF SessionsParts, PlaceSound, Positions
  <2>3. ConnSound /\ LedgerThere
    BY <1>2 DEF SessionsParts, HoldsSound, ConnSound, LedgerThere
  <2> QED
    BY <1>2, <2>1, <2>2, <2>3 DEF SessionsInv, SessionsParts, DataInv
<1> QED
  BY <1>1, <1>2

\* Only p has moved.
Elsewhere(p) ==
  /\ Shaped'
  /\ scenario' = scenario
  /\ \A q \in Others(p) :
       /\ pc'[q] = pc[q] /\ set'[q] = set[q] /\ idx'[q] = idx[q] /\ step'[q] = step[q]
       /\ result'[q] = result[q] /\ runs'[q] = runs[q]

\* What the others find after a step of p.
LinksKept(p) ==
  \A q \in Others(p) :
    /\ conn'[q].txn = conn[q].txn
    /\ conn'[q].lock = conn[q].lock
    /\ conn[q].lock = "exclusive" => conn'[q].view = conn[q].view

\* So the invariant is that of p, and the database.
LEMMA StepSound ==
  ASSUME SessionsInv, NEW p \in Processes, Elsewhere(p), DataInv', LinksKept(p),
         db.ledger # "absent" => db'.ledger # "absent",
         PlaceSound(p)', HoldsSound(p)'
  PROVE  SessionsInv'
<1>1. SessionsParts
  BY SessionsInvIs
<1>2. WellFormed(scenario)' /\ scenario'.dialect \in {"sqlite", "postgres"}
  BY <1>1 DEF SessionsParts, Elsewhere, WellFormed
<1>3. \A q \in Others(p) : PlaceSound(q)'
  BY <1>1 DEF SessionsParts, Elsewhere, Others, PlaceSound, Plan, Fragment, Steps
<1>4. \A q \in Others(p) : HoldsSound(q)'
  BY <1>1 DEF SessionsParts, Elsewhere, LinksKept, Others, HoldsSound, Upgrading, Migrating
<1>5. SessionsParts'
  BY <1>2, <1>3, <1>4 DEF SessionsParts, Elsewhere, Others
<1> QED
  BY <1>5, SessionsInvIs, PTL

-----------------------------------------------------------------------------
(* The steps of ensure_migrations_table and run *)

Moved(y, x, p) == y = x \/ \E v : y = [x EXCEPT ![p] = v]

\* Only p has moved.
LEMMA OnlyMoved ==
  ASSUME TypeOK, NEW p \in Processes, scenario' = scenario,
         Moved(pc', pc, p), Moved(set', set, p), Moved(idx', idx, p),
         Moved(step', step, p), Moved(result', result, p), Moved(runs', runs, p)
  PROVE  Elsewhere(p)
<1>1. Shaped
  BY DEF TypeOK, Shaped
<1>2. \A q \in Others(p) : pc'[q] = pc[q] /\ set'[q] = set[q]
  BY DEF Others, Moved, TypeOK
<1>3. \A q \in Others(p) : idx'[q] = idx[q] /\ step'[q] = step[q]
  BY DEF Others, Moved, TypeOK
<1>4. \A q \in Others(p) : result'[q] = result[q] /\ runs'[q] = runs[q]
  BY DEF Others, Moved, TypeOK
<1>5. pc' = [q \in Processes |-> pc'[q]] /\ set' = [q \in Processes |-> set'[q]]
  BY <1>1 DEF Moved, Shaped
<1>6. idx' = [q \in Processes |-> idx'[q]] /\ step' = [q \in Processes |-> step'[q]]
  BY <1>1 DEF Moved, Shaped
<1>7. result' = [q \in Processes |-> result'[q]] /\ runs' = [q \in Processes |-> runs'[q]]
  BY <1>1 DEF Moved, Shaped
<1> QED
  BY <1>2, <1>3, <1>4, <1>5, <1>6, <1>7 DEF Elsewhere, Shaped

\* A variable that is left alone, or changed at p.
LEMMA Kept == \A x, p : Moved(x, x, p)
BY DEF Moved

\* The same for one that is changed.
LEMMA Changed == \A x, p, v : Moved([x EXCEPT ![p] = v], x, p)
BY DEF Moved

\* An error inside a transaction.
LEMMA FailedSound ==
  ASSUME SessionsInv, NEW p \in Processes, Elsewhere(p), Hurt(p),
         pc[p] \in Upgrading \cup Migrating, pc'[p] = "drop",
         result'[p] \in {"err", "panic"}, runs'[p] = runs[p], idx'[p] \in Nat, step'[p] \in Steps,
         set'[p] \in Nat \ {0}
  PROVE  SessionsInv'
<1>1. SessionsParts
  BY SessionsInvIs
<1>2. DataInv'
  BY <1>1, HurtData DEF SessionsParts, Elsewhere
<1>3. LinksKept(p) /\ db' = db
  BY DEF Hurt, Unmoved, LinksKept
<1>4. PlaceSound(p)'
  BY <1>1 DEF SessionsParts, PlaceSound, Elsewhere, Statement, Steps
<1>5. HoldsSound(p)'
  BY <1>1, <1>3 DEF SessionsParts, HoldsSound, Hurt, Link, Upgrading, Migrating
<1> QED
  BY <1>2, <1>3, <1>4, <1>5, StepSound

\* A step without a transaction, before or after it.
LEMMA QuietSound ==
  ASSUME SessionsInv, NEW p \in Processes, Elsewhere(p), Unmoved(p),
         conn'[p] = Link("none", "none", db), PlaceSound(p)',
         pc'[p] \in {"idle", "create_ledger", "probe", "begin_upgrade", "end_upgrade", "begin", "drop"},
         pc'[p] \notin {"idle", "create_ledger", "drop"} => db.ledger # "absent"
  PROVE  SessionsInv'
<1>1. DataInv'
  BY DataOf, QuietData DEF Elsewhere
<1>2. LinksKept(p) /\ db' = db
  BY DEF Unmoved, LinksKept
<1>3. HoldsSound(p)'
  BY <1>2 DEF HoldsSound, Link, Upgrading, Migrating
<1> QED
  BY <1>1, <1>2, <1>3, StepSound

\* A statement in autocommit (StatementOutcomes).
LEMMA StatementAlone ==
  ASSUME NEW d, NEW t, NEW after, NEW s,
         s = [dialect |-> d, txn |-> "none", durable |-> t, working |-> t],
         NEW o \in StatementOutcomes(s, after)
  PROVE  \/ o.reply = "ok" /\ o.session.txn = "none" /\ o.session.durable = after
         \/ o.reply = "err" /\ o.session.txn = "none" /\ o.session.durable = t
<1> DEFINE u == [s EXCEPT !.working = after]
           v == [u EXCEPT !.durable = after]
<1>1. s.txn = "none" /\ s.durable = t
  OBVIOUS
<1>2. u = [dialect |-> d, txn |-> "none", durable |-> t, working |-> after]
  OBVIOUS
<1>3. v = [s EXCEPT !.working = after, !.durable = after]
  OBVIOUS
<1>4. v.txn = "none" /\ v.durable = after
  <2> HIDE DEF u
  <2> QED BY <1>2
<1> HIDE DEF u, v
<1>5. o \in {Outcome(v, "ok"), Outcome(s, "err")}
  BY <1>1, <1>3 DEF StatementOutcomes, Failing
<1> QED
  BY <1>1, <1>4, <1>5 DEF Outcome

\* CREATE TABLE IF NOT EXISTS finds a table, fails, or makes one that is empty.
LEMMA CreateStep ==
  ASSUME SessionsInv, NEW p \in Processes, CreateLedger(p)
  PROVE  /\ Elsewhere(p)
         /\ set' = set /\ idx' = idx /\ step' = step /\ runs' = runs
         /\ result'[p] \in {result[p], "err"}
         /\ \/ /\ Unmoved(p) /\ conn'[p] = Link("none", "none", db)
               /\ pc'[p] = "idle" \/ (pc'[p] = "probe" /\ db.ledger # "absent")
            \/ /\ db.ledger = "absent" /\ pc'[p] = "probe"
               /\ Settled(p, Data("current", db.rows, db.renamed, db.applied))
<1>1. /\ TypeOK /\ ViewsSound /\ conn[p].txn = "none" /\ conn[p].lock = "none"
      /\ pc[p] = "create_ledger" /\ scenario.dialect \in {"sqlite", "postgres"}
  BY DEF SessionsInv, ConnSound, CreateLedger, At
<1>2. /\ Session(p) = [dialect |-> scenario.dialect, txn |-> "none", durable |-> db, working |-> db]
      /\ View(p) = db
  BY <1>1 DEF Session, View
<1> DEFINE s == Session(p)
           created == Data("current", db.rows, db.renamed, db.applied)
           outcomes == IF db.ledger = "absent"
                         THEN WriteOutcomes(p, FALSE, TRUE, [View(p) EXCEPT !.ledger = "current"])
                         ELSE ReadOutcomes(p, FALSE)
<1>3. Do(p, outcomes, "none", "probe") /\ set' = set /\ idx' = idx /\ step' = step /\ runs' = runs
  BY <1>2 DEF CreateLedger, position
<1>4. [View(p) EXCEPT !.ledger = "current"] = created
  <2>1. \A l, r, n, a : [Data(l, r, n, a) EXCEPT !.ledger = "current"] = Data("current", r, n, a)
    BY DEF Data
  <2>2. View(p) = Data(db.ledger, db.rows, db.renamed, db.applied)
    BY <1>1, <1>2, Typed
  <2> QED
    BY <2>1, <2>2
<1>5. PICK o \in outcomes :
           /\ db' = o.session.durable
           /\ conn' = Connections(p, o, "none")
           /\ pc' = [pc EXCEPT ![p] = IF o.reply = "ok" THEN "probe" ELSE "idle"]
           /\ result' = IF o.reply = "ok" THEN result ELSE [result EXCEPT ![p] = "err"]
           /\ scenario' = scenario
  <2> HIDE DEF outcomes
  <2> QED
    BY <1>1, <1>3, DoIs
<1>6. Elsewhere(p)
  <2>1. Moved(pc', pc, p) /\ Moved(result', result, p)
    BY <1>5 DEF Moved
  <2> QED
    BY <1>1, <1>3, <1>5, <2>1, OnlyMoved, Kept
<1>7. result'[p] \in {result[p], "err"} /\ pc'[p] = IF o.reply = "ok" THEN "probe" ELSE "idle"
  BY <1>1, <1>5 DEF TypeOK
<1>8. \A after : \A k \in StatementOutcomes(s, after) :
        \/ k.reply = "ok" /\ k.session.txn = "none" /\ k.session.durable = after
        \/ k.reply = "err" /\ k.session.txn = "none" /\ k.session.durable = db
  BY <1>2, StatementAlone
<1>11. CASE db.ledger # "absent"
  <2>1. o.session.txn = "none" /\ o.session.durable = db
    <3>1. o \in StatementOutcomes(s, db)
      BY <1>2, <1>5, <1>11 DEF ReadOutcomes
    <3> HIDE DEF s
    <3> QED
      BY <1>8, <3>1
  <2>2. Unmoved(p) /\ conn'[p] = Link("none", Lock(p, o, "none"), db)
    BY <1>1, <1>5, <2>1, ConnectionsUnmoved
  <2>3. Lock(p, o, "none") = "none"
    BY <2>1 DEF Lock
  <2> QED
    BY <1>3, <1>6, <1>7, <1>11, <2>2, <2>3
<1>12. CASE db.ledger = "absent"
  <2>1. o \in RefusedAtOnce(p) \cup StatementOutcomes(s, created)
    BY <1>4, <1>5, <1>12 DEF WriteOutcomes
  <2>2. CASE o \in RefusedAtOnce(p)
    <3>1. [Session(p) EXCEPT !.txn = IF @ = "open" /\ scenario.dialect = "postgres"
                                       THEN "failed" ELSE @] = Session(p)
      BY <1>2
    <3>2. o.reply = "err" /\ o.session = Session(p)
      BY <2>2, <3>1 DEF RefusedAtOnce, Outcome
    <3>3. o.session.txn = "none" /\ o.session.durable = db
      BY <1>2, <3>2
    <3>4. Unmoved(p) /\ conn'[p] = Link("none", Lock(p, o, "none"), db)
      BY <1>1, <1>5, <3>3, ConnectionsUnmoved
    <3>5. Lock(p, o, "none") = "none"
      BY <3>3 DEF Lock
    <3> QED
      BY <1>3, <1>6, <1>7, <3>2, <3>4, <3>5
  <2>3. CASE o \in StatementOutcomes(s, created) /\ o.reply = "err"
    <3>2. o.session.txn = "none" /\ o.session.durable = db
      <4> HIDE DEF s, created
      <4> QED
        BY <1>8, <2>3
    <3>3. Unmoved(p) /\ conn'[p] = Link("none", Lock(p, o, "none"), db)
      BY <1>1, <1>5, <3>2, ConnectionsUnmoved
    <3>4. Lock(p, o, "none") = "none"
      BY <3>2 DEF Lock
    <3> QED
      BY <1>3, <1>6, <1>7, <2>3, <3>3, <3>4
  <2>4. CASE o \in StatementOutcomes(s, created) /\ o.reply # "err"
    <3>1. o.reply = "ok" /\ o.session.txn = "none" /\ o.session.durable = created
      <4> HIDE DEF s, created
      <4> QED
        BY <1>8, <2>4
    <3>2. Settled(p, created)
      BY <1>1, <1>5, <3>1, ConnectionsSettled
    <3> QED
      BY <1>3, <1>6, <1>7, <1>12, <3>1, <3>2
  <2> QED
    BY <2>1, <2>2, <2>3, <2>4
<1> QED
  BY <1>11, <1>12

\* The step keeps the invariant.
LEMMA CreateSound ==
  ASSUME SessionsInv, NEW p \in Processes, CreateLedger(p)
  PROVE  SessionsInv'
<1>1. /\ Elsewhere(p)
      /\ set' = set /\ idx' = idx /\ step' = step /\ runs' = runs
      /\ result'[p] \in {result[p], "err"}
      /\ \/ /\ Unmoved(p) /\ conn'[p] = Link("none", "none", db)
            /\ pc'[p] = "idle" \/ (pc'[p] = "probe" /\ db.ledger # "absent")
         \/ /\ db.ledger = "absent" /\ pc'[p] = "probe"
            /\ Settled(p, Data("current", db.rows, db.renamed, db.applied))
  BY CreateStep
<1>2. SessionsParts
  BY SessionsInvIs
<1>3. PlaceSound(p)'
  BY <1>1, <1>2 DEF SessionsParts, PlaceSound, Elsewhere, Statement, Steps, Migrating, CreateLedger, At
<1>4. CASE /\ Unmoved(p) /\ conn'[p] = Link("none", "none", db)
           /\ pc'[p] = "idle" \/ (pc'[p] = "probe" /\ db.ledger # "absent")
  BY <1>1, <1>3, <1>4, QuietSound
<1>5. CASE /\ db.ledger = "absent" /\ pc'[p] = "probe"
           /\ Settled(p, Data("current", db.rows, db.renamed, db.applied))
  <2> DEFINE created == Data("current", db.rows, db.renamed, db.applied)
  <2>1. db \in Database /\ Finite(db) /\ TypeOK
    BY DEF SessionsInv, TypeOK, RowsFinite, Finite
  <2>2. created \in Database
    BY <2>1 DEF Data, Database
  <2>3. Finite(created)
    BY <2>1 DEF Data, Finite
  <2>4. \A q \in Others(p) : conn[q].lock = "none"
    BY <1>5 DEF SessionsInv, LedgerThere, Others
  <2>5. DataInv'
    <3> HIDE DEF created
    <3>1. Settled(p, created) /\ scenario' = scenario /\ scenario.dialect \in {"sqlite", "postgres"}
      BY <1>1, <1>5 DEF created, Elsewhere, SessionsInv
    <3> QED
      BY <2>1, <2>2, <2>3, <2>4, <3>1, DataOf, SettledData
  <2>6. LinksKept(p)
    <3> HIDE DEF created
    <3>1. \A q \in Others(p) : conn'[q] = Link(conn[q].txn, conn[q].lock, RebasedView(q, created))
      BY <1>5 DEF Settled, created
    <3>2. ASSUME NEW q \in Others(p)
          PROVE  conn'[q].txn = conn[q].txn /\ conn'[q].lock = conn[q].lock
      <4>1. conn'[q] = Link(conn[q].txn, conn[q].lock, RebasedView(q, created))
        BY <3>1
      <4> QED
        BY <4>1 DEF Link
    <3>3. \A q \in Others(p) : conn[q].lock # "exclusive"
      BY <2>4
    <3> QED
      BY <3>2, <3>3 DEF LinksKept
  <2>7. db'.ledger = "current" /\ conn'[p] = Link("none", "none", created)
    BY <1>5 DEF Settled, Data
  <2>8. HoldsSound(p)'
    BY <1>5, <2>7 DEF HoldsSound, Link, Upgrading, Migrating
  <2> QED
    BY <1>1, <1>3, <2>5, <2>6, <2>7, <2>8, StepSound
<1> QED
  BY <1>1, <1>4, <1>5

\* A statement that was executed, with what its place needs.
LEMMA WorkedSound ==
  ASSUME SessionsInv, NEW p \in Processes, Elsewhere(p), DataInv', PlaceSound(p)',
         NEW lock, NEW after, NEW next \in Upgrading \cup Migrating, Worked(p, lock, after, next),
         pc'[p] = next, db.ledger # "absent",
         next = "rename" => lock = "none",
         next \in Upgrading \ {"rename"} => lock = "exclusive",
         next \in Migrating => lock # "exclusive",
         next = "apply" => lock # "none",
         next = "record" => lock = "written",
         next \in {"copy", "drop_legacy", "commit_upgrade"} => after.ledger = "current"
  PROVE  SessionsInv'
<1>1. Unmoved(p) /\ conn'[p] = Link("open", lock, after)
  BY DEF Worked
<1>2. LinksKept(p) /\ db' = db
  BY <1>1 DEF Unmoved, LinksKept
<1>3. HoldsSound(p)'
  BY <1>1, <1>2 DEF HoldsSound, Link, Upgrading, Migrating
<1> QED
  BY <1>2, <1>3, StepSound

\* The parts of the invariant that concern p.
LEMMA HereSound ==
  ASSUME SessionsInv, NEW p \in Processes
  PROVE  /\ TypeOK /\ ViewsSound /\ DataInv /\ PlaceSound(p) /\ HoldsSound(p)
         /\ scenario.dialect \in {"sqlite", "postgres"}
         /\ conn[p].view \in Database /\ Finite(conn[p].view) /\ db \in Database /\ Finite(db)
         /\ View(p) = conn[p].view
         /\ LinkSound(conn[p], db)
<1>1. TypeOK /\ ViewsSound /\ DataInv /\ scenario.dialect \in {"sqlite", "postgres"}
  BY DataOf DEF SessionsInv
<1>2. PlaceSound(p) /\ HoldsSound(p)
  BY SessionsInvIs DEF SessionsParts
<1>3. LinkSound(conn[p], db) /\ db \in Database /\ Finite(db)
  BY <1>1, DataInvIs DEF DataParts
<1> QED
  BY <1>1, <1>2, <1>3, ViewIs DEF LinkSound, Connection

\* A statement of the upgrade, or the error that ends it.
UpgradeStep(p, lock, after, next) ==
  /\ Elsewhere(p)
  /\ set' = set /\ idx' = idx /\ step' = step /\ runs' = runs
  /\ \/ Failed(p)
     \/ Worked(p, lock, after, next)

\* The upgrade (Rename, CreateCurrent, CopyRows, DropLegacy).
LEMMA UpgradeDo ==
  ASSUME SessionsInv, NEW p \in Processes, pc[p] \in Upgrading,
         NEW waits \in BOOLEAN, NEW possible \in BOOLEAN, NEW after, NEW next,
         Do(p, WriteOutcomes(p, waits, possible, after), "exclusive", next),
         set' = set, idx' = idx, step' = step, runs' = runs
  PROVE  /\ UpgradeStep(p, "exclusive", after, next)
         /\ Failed(p) \/ (~waits /\ possible /\ ~FileBusy(p))
<1>1. \/ Failed(p)
      \/ Worked(p, "exclusive", after, next) /\ ~waits /\ possible /\ ~FileBusy(p)
  BY WriteStep
<1>2. scenario' = scenario
  BY DoIs
<1>3. Moved(pc', pc, p) /\ Moved(result', result, p)
  BY <1>1 DEF Failed, Worked, Moved
<1>4. Elsewhere(p)
  BY <1>2, <1>3, OnlyMoved, Kept DEF SessionsInv
<1> QED
  BY <1>1, <1>4 DEF UpgradeStep

\* The rename takes the ledger away, with its rows.
Renamed(v) == Data("absent", {}, v.rows, v.applied)

LEMMA RenameStep ==
  ASSUME SessionsInv, NEW p \in Processes, Rename(p)
  PROVE  /\ pc[p] = "rename" /\ UpgradeStep(p, "exclusive", Renamed(db), "create")
         /\ Failed(p) \/ (~LedgerInUse(p) /\ ~FileBusy(p))
<1>1. /\ pc[p] = "rename" /\ View(p) = db
      /\ Do(p, WriteOutcomes(p, LedgerInUse(p), View(p).ledger # "absent",
                             [ledger |-> "absent", rows |-> {}, renamed |-> View(p).rows,
                              applied |-> View(p).applied]),
            "exclusive", "create")
      /\ set' = set /\ idx' = idx /\ step' = step /\ runs' = runs
  BY HereSound DEF Rename, At, position, HoldsSound, ViewsSound
<1>2. [ledger |-> "absent", rows |-> {}, renamed |-> View(p).rows, applied |-> View(p).applied]
        = Renamed(db)
  BY <1>1 DEF Renamed, Data
<1>3. LedgerInUse(p) \in BOOLEAN /\ (View(p).ledger # "absent") \in BOOLEAN
  BY DEF LedgerInUse
<1>4. pc[p] \in Upgrading
  BY <1>1 DEF Upgrading
<1> QED
  BY <1>1, <1>2, <1>3, <1>4, UpgradeDo

\* What the other statements of the upgrade make of the view.
Created(v) == Data("current", v.rows, v.renamed, v.applied)
Copied(v) == Data(v.ledger, Flattened(v.renamed), v.renamed, v.applied)
Emptied(v) == Data(v.ledger, v.rows, {}, v.applied)

\* One field of a database is changed.
LEMMA Excepts ==
  ASSUME NEW v \in Database, NEW x
  PROVE  /\ [v EXCEPT !.ledger = x] = Data(x, v.rows, v.renamed, v.applied)
         /\ [v EXCEPT !.rows = x] = Data(v.ledger, x, v.renamed, v.applied)
         /\ [v EXCEPT !.renamed = x] = Data(v.ledger, v.rows, x, v.applied)
         /\ [v EXCEPT !.applied = x] = Data(v.ledger, v.rows, v.renamed, x)
<1>1. v = Data(v.ledger, v.rows, v.renamed, v.applied)
  BY DEF Database, Data
<1>2. \A l, r, n, a : /\ [Data(l, r, n, a) EXCEPT !.ledger = x] = Data(x, r, n, a)
                      /\ [Data(l, r, n, a) EXCEPT !.rows = x] = Data(l, x, n, a)
                      /\ [Data(l, r, n, a) EXCEPT !.renamed = x] = Data(l, r, x, a)
                      /\ [Data(l, r, n, a) EXCEPT !.applied = x] = Data(l, r, n, x)
  BY DEF Data
<1> QED
  BY <1>1, <1>2

\* The steps of CreateCurrent, CopyRows and DropLegacy.
LEMMA CreateCurrentStep ==
  ASSUME SessionsInv, NEW p \in Processes, CreateCurrent(p)
  PROVE  /\ pc[p] = "create" /\ UpgradeStep(p, "exclusive", Created(conn[p].view), "copy")
         /\ Failed(p) \/ ~FileBusy(p)
<1>1. /\ pc[p] = "create"
      /\ Do(p, WriteOutcomes(p, FALSE, View(p).ledger = "absent", [View(p) EXCEPT !.ledger = "current"]),
            "exclusive", "copy")
      /\ set' = set /\ idx' = idx /\ step' = step /\ runs' = runs
  BY DEF CreateCurrent, At, position
<1>2. [View(p) EXCEPT !.ledger = "current"] = Created(conn[p].view)
  BY HereSound, Excepts DEF Created
<1>3. (View(p).ledger = "absent") \in BOOLEAN /\ pc[p] \in Upgrading
  BY <1>1 DEF Upgrading
<1> QED
  BY <1>1, <1>2, <1>3, UpgradeDo

\* It succeeds only when no two rows have the same id.
LEMMA CopyRowsStep ==
  ASSUME SessionsInv, NEW p \in Processes, CopyRows(p)
  PROVE  /\ pc[p] = "copy" /\ UpgradeStep(p, "exclusive", Copied(conn[p].view), "drop_legacy")
         /\ Failed(p) \/ (UniqueIds(conn[p].view.renamed) /\ ~FileBusy(p))
<1>1. /\ pc[p] = "copy"
      /\ Do(p, WriteOutcomes(p, FALSE, UniqueIds(View(p).renamed),
                             [View(p) EXCEPT !.rows = Flattened(View(p).renamed)]),
            "exclusive", "drop_legacy")
      /\ set' = set /\ idx' = idx /\ step' = step /\ runs' = runs
  BY DEF CopyRows, At, position
<1>2. /\ [View(p) EXCEPT !.rows = Flattened(View(p).renamed)] = Copied(conn[p].view)
      /\ View(p) = conn[p].view
  BY HereSound, Excepts DEF Copied
<1>3. UniqueIds(View(p).renamed) \in BOOLEAN /\ pc[p] \in Upgrading
  BY <1>1 DEF Upgrading, UniqueIds
<1> QED
  BY <1>1, <1>2, <1>3, UpgradeDo

\* It always can be executed.
LEMMA DropLegacyStep ==
  ASSUME SessionsInv, NEW p \in Processes, DropLegacy(p)
  PROVE  /\ pc[p] = "drop_legacy"
         /\ UpgradeStep(p, "exclusive", Emptied(conn[p].view), "commit_upgrade")
         /\ Failed(p) \/ ~FileBusy(p)
<1>1. /\ pc[p] = "drop_legacy"
      /\ Do(p, WriteOutcomes(p, FALSE, TRUE, [View(p) EXCEPT !.renamed = {}]),
            "exclusive", "commit_upgrade")
      /\ set' = set /\ idx' = idx /\ step' = step /\ runs' = runs
  BY DEF DropLegacy, At, position
<1>2. [View(p) EXCEPT !.renamed = {}] = Emptied(conn[p].view)
  BY HereSound, Excepts DEF Emptied
<1>3. pc[p] \in Upgrading
  BY <1>1 DEF Upgrading
<1> QED
  BY <1>1, <1>2, <1>3, UpgradeDo

\* Every row of a ledger is a row when it is moved to the default namespace.
LEMMA FlattenedRows ==
  ASSUME NEW rows \in SUBSET Row, IsFiniteSet(rows)
  PROVE  Flattened(rows) \in SUBSET Row /\ IsFiniteSet(Flattened(rows))
<1> DEFINE f == [r \in rows |-> [r EXCEPT !.namespace = ""]]
<1>1. \A r \in rows : [r EXCEPT !.namespace = ""] \in Row
  BY DEF Row, Names
<1>2. f \in Surjection(rows, Flattened(rows))
  BY DEF Surjection, Flattened
<1>3. IsFiniteSet(Flattened(rows))
  <2> HIDE DEF f
  <2> QED
    BY <1>2, FS_Surjection
<1> QED
  BY <1>1, <1>3 DEF Flattened

\* The steps of the upgrade keep the invariant.
LEMMA UpgradeStepSound ==
  ASSUME SessionsInv, NEW p \in Processes, pc[p] \in Upgrading,
         NEW after \in Database, Finite(after), NEW next \in Upgrading \ {"rename"},
         next \in {"copy", "drop_legacy", "commit_upgrade"} => after.ledger = "current",
         UpgradeStep(p, "exclusive", after, next),
         Failed(p) \/ ~FileBusy(p),
         Failed(p) \/ conn[p].lock = "exclusive" \/ ~LedgerInUse(p)
  PROVE  SessionsInv'
<1>1. Elsewhere(p) /\ set' = set /\ idx' = idx /\ step' = step /\ runs' = runs
  BY DEF UpgradeStep
<1>2. /\ TypeOK /\ DataInv /\ PlaceSound(p) /\ HoldsSound(p)
      /\ scenario.dialect \in {"sqlite", "postgres"} /\ scenario' = scenario
  BY <1>1, HereSound DEF Elsewhere
<1>3. CASE Failed(p)
  <2>1. Hurt(p) /\ pc'[p] = "drop" /\ result'[p] = "err"
    BY <1>2, <1>3 DEF Failed, TypeOK
  <2>2. idx'[p] \in Nat /\ step'[p] \in Steps /\ set'[p] \in Nat \ {0} /\ runs'[p] = runs[p]
    BY <1>1, <1>2 DEF PlaceSound
  <2> QED
    BY <1>1, <2>1, <2>2, FailedSound
<1>4. CASE ~Failed(p)
  <2>1. Worked(p, "exclusive", after, next)
    BY <1>4 DEF UpgradeStep
  <2>2. pc'[p] = next /\ result'[p] = result[p]
    BY <1>2, <2>1 DEF Worked, TypeOK
  <2>3. conn[p].txn = "open" /\ db.ledger # "absent"
    BY <1>2 DEF HoldsSound, Upgrading
  <2>4. DataInv'
    BY <1>2, <1>4, <2>1, <2>3, WorkedData
  <2>5. PlaceSound(p)'
    BY <1>1, <1>2, <2>2 DEF PlaceSound, Upgrading, Migrating, Statement, Steps
  <2> QED
    BY <1>1, <2>1, <2>2, <2>3, <2>4, <2>5, WorkedSound DEF Upgrading, Migrating
<1> QED
  BY <1>3, <1>4

\* Rename, CreateCurrent, CopyRows and DropLegacy.
LEMMA RebuildSound ==
  ASSUME SessionsInv, NEW p \in Processes,
         Rename(p) \/ CreateCurrent(p) \/ CopyRows(p) \/ DropLegacy(p)
  PROVE  SessionsInv'
<1>1. /\ conn[p].view \in Database /\ Finite(conn[p].view) /\ db \in Database /\ Finite(db)
      /\ HoldsSound(p)
  BY HereSound
<1> DEFINE v == conn[p].view
<1>2. CASE Rename(p)
  <2>1. Renamed(db) \in Database
    BY <1>1 DEF Renamed, Data, Database
  <2>2. Finite(Renamed(db))
    BY <1>1, FS_EmptySet DEF Renamed, Data, Finite
  <2>3. /\ pc[p] = "rename" /\ UpgradeStep(p, "exclusive", Renamed(db), "create")
        /\ Failed(p) \/ (~LedgerInUse(p) /\ ~FileBusy(p))
    BY <1>2, RenameStep
  <2> QED
    BY <2>1, <2>2, <2>3, UpgradeStepSound DEF Upgrading
<1>3. CASE CreateCurrent(p)
  <2>1. Created(v) \in Database
    BY <1>1 DEF Created, Data, Database
  <2>2. Finite(Created(v)) /\ Created(v).ledger = "current"
    BY <1>1 DEF Created, Data, Finite
  <2>3. /\ pc[p] = "create" /\ UpgradeStep(p, "exclusive", Created(v), "copy")
        /\ Failed(p) \/ ~FileBusy(p)
    BY <1>3, CreateCurrentStep
  <2>4. conn[p].lock = "exclusive"
    BY <1>1, <2>3 DEF HoldsSound, Upgrading
  <2> QED
    BY <2>1, <2>2, <2>3, <2>4, UpgradeStepSound DEF Upgrading
<1>4. CASE CopyRows(p)
  <2>0. /\ Flattened(v.renamed) \in SUBSET Row
        /\ IsFiniteSet(Flattened(v.renamed))
    BY <1>1, FlattenedRows DEF Database, Finite
  <2>1. Copied(v) \in Database
    BY <1>1, <2>0 DEF Copied, Data, Database
  <2>2. Finite(Copied(v)) /\ Copied(v).ledger = v.ledger
    BY <1>1, <2>0 DEF Copied, Data, Finite
  <2>3. /\ pc[p] = "copy" /\ UpgradeStep(p, "exclusive", Copied(v), "drop_legacy")
        /\ Failed(p) \/ ~FileBusy(p)
    BY <1>4, CopyRowsStep
  <2>4. conn[p].lock = "exclusive" /\ v.ledger = "current"
    BY <1>1, <2>3 DEF HoldsSound, Upgrading
  <2> QED
    BY <2>1, <2>2, <2>3, <2>4, UpgradeStepSound DEF Upgrading
<1>5. CASE DropLegacy(p)
  <2>1. Emptied(v) \in Database
    BY <1>1 DEF Emptied, Data, Database
  <2>2. Finite(Emptied(v)) /\ Emptied(v).ledger = v.ledger
    BY <1>1, FS_EmptySet DEF Emptied, Data, Finite
  <2>3. /\ pc[p] = "drop_legacy" /\ UpgradeStep(p, "exclusive", Emptied(v), "commit_upgrade")
        /\ Failed(p) \/ ~FileBusy(p)
    BY <1>5, DropLegacyStep
  <2>4. conn[p].lock = "exclusive" /\ v.ledger = "current"
    BY <1>1, <2>3 DEF HoldsSound, Upgrading
  <2> QED
    BY <2>1, <2>2, <2>3, <2>4, UpgradeStepSound DEF Upgrading
<1> QED
  BY <1>2, <1>3, <1>4, <1>5

\* A process that is in no transaction.
LEMMA NoneIs ==
  ASSUME SessionsInv, NEW p \in Processes,
         pc[p] \in {"idle", "create_ledger", "probe", "begin_upgrade", "end_upgrade", "begin"}
  PROVE  conn[p] = Link("none", "none", db)
BY HereSound, Typed DEF HoldsSound, ViewsSound

\* The ROLLBACK of a dropped Transaction, or the end of the connection (Ended).
LEMMA EndedStep ==
  ASSUME SessionsInv, NEW p \in Processes, db' = db, conn' = Ended(p)
  PROVE  Unmoved(p) /\ conn'[p] = Link("none", "none", db)
BY DEF Ended, Unmoved, Link, Others, SessionsInv, TypeOK

\* The steps that leave p without a transaction: Start, Probe, EndUpgrade, Drop, Crash.
LEMMA QuietStep ==
  ASSUME SessionsInv, NEW p \in Processes,
         Start(p) \/ Probe(p) \/ EndUpgrade(p) \/ Drop(p) \/ Crash(p)
  PROVE  Elsewhere(p) /\ Unmoved(p) /\ conn'[p] = Link("none", "none", db)
<1>0. TypeOK
  BY DEF SessionsInv
<1>1. CASE Start(p)
  <2>1. pc[p] = "idle" /\ scenario' = scenario /\ db' = db /\ conn' = conn
    BY <1>1 DEF Start, At
  <2>2. conn[p] = Link("none", "none", db)
    BY <2>1, NoneIs
  <2>3. Elsewhere(p)
    BY <1>0, <1>1, <2>1, OnlyMoved, Changed DEF Start
  <2> QED
    BY <1>0, <2>1, <2>2, <2>3 DEF Unmoved, TypeOK
<1>2. CASE Probe(p)
  <2>1. /\ pc[p] = "probe" /\ scenario' = scenario /\ db' = db /\ conn' = conn
        /\ set' = set /\ idx' = idx /\ step' = step /\ runs' = runs /\ result' = result
    BY <1>2 DEF Probe, At, position
  <2>2. conn[p] = Link("none", "none", db)
    BY <2>1, NoneIs
  <2>3. Moved(pc', pc, p)
    BY <1>2 DEF Probe, Moved
  <2>4. Elsewhere(p)
    BY <1>0, <2>1, <2>3, OnlyMoved, Kept
  <2> QED
    BY <1>0, <2>1, <2>2, <2>4 DEF Unmoved, TypeOK
<1>3. CASE EndUpgrade(p) \/ Drop(p) \/ Crash(p)
  <2>1. /\ scenario' = scenario /\ db' = db /\ conn' = Ended(p)
        /\ set' = set /\ idx' = idx /\ step' = step /\ runs' = runs
        /\ Moved(pc', pc, p) /\ Moved(result', result, p)
    BY <1>3 DEF EndUpgrade, Drop, Crash, position, Moved
  <2>2. Elsewhere(p)
    BY <1>0, <2>1, OnlyMoved, Kept
  <2> QED
    BY <2>1, <2>2, EndedStep
<1> QED
  BY <1>1, <1>2, <1>3

\* They keep the invariant.
LEMMA QuietStepSound ==
  ASSUME SessionsInv, NEW p \in Processes,
         Start(p) \/ Probe(p) \/ EndUpgrade(p) \/ Drop(p) \/ Crash(p)
  PROVE  SessionsInv'
<1>1. Elsewhere(p) /\ Unmoved(p) /\ conn'[p] = Link("none", "none", db)
  BY QuietStep
<1>2. TypeOK /\ PlaceSound(p) /\ HoldsSound(p) /\ WellFormed(scenario)
  BY HereSound DEF SessionsInv
<1>3. Steps' = Steps /\ 1 \in Steps
  BY <1>1, <1>2 DEF Elsewhere, Steps, WellFormed
<1>4. CASE Start(p)
  <2>1. /\ pc'[p] = "create_ledger" /\ result'[p] = "none" /\ set'[p] = 1 /\ idx'[p] = 0 /\ step'[p] = 1
        /\ runs'[p] = runs[p] + 1 /\ runs[p] < MaxRuns
    BY <1>2, <1>4 DEF Start, TypeOK
  <2>2. runs'[p] \in 0 .. MaxRuns
    BY <1>2, <2>1, RunsAssumption DEF PlaceSound
  <2>3. PlaceSound(p)'
    BY <1>3, <2>1, <2>2 DEF PlaceSound, Statement
  <2> QED
    BY <1>1, <2>1, <2>3, QuietSound
<1>5. CASE Probe(p)
  <2>1. /\ pc'[p] \in {"begin_upgrade", "begin"} /\ pc[p] = "probe"
        /\ set' = set /\ idx' = idx /\ step' = step /\ runs' = runs /\ result' = result
    BY <1>2, <1>5 DEF Probe, position, TypeOK, At
  <2>2. PlaceSound(p)'
    BY <1>2, <1>3, <2>1 DEF PlaceSound, Statement, Migrating
  <2>3. db.ledger # "absent"
    BY <1>2, <2>1 DEF HoldsSound
  <2> QED
    BY <1>1, <2>1, <2>2, <2>3, QuietSound
<1>6. CASE EndUpgrade(p)
  <2>1. /\ pc'[p] = "begin" /\ pc[p] = "end_upgrade"
        /\ set' = set /\ idx' = idx /\ step' = step /\ runs' = runs /\ result' = result
    BY <1>2, <1>6 DEF EndUpgrade, position, TypeOK, At
  <2>2. PlaceSound(p)'
    BY <1>2, <1>3, <2>1 DEF PlaceSound, Statement, Migrating
  <2>3. db.ledger # "absent"
    BY <1>2, <2>1 DEF HoldsSound
  <2> QED
    BY <1>1, <2>1, <2>2, <2>3, QuietSound
<1>7. CASE Drop(p) \/ Crash(p)
  <2>1. /\ pc'[p] = "idle" /\ result'[p] \in {result[p], "crashed"}
        /\ set' = set /\ idx' = idx /\ step' = step /\ runs' = runs
    BY <1>2, <1>7 DEF Drop, Crash, position, TypeOK, At
  <2>2. PlaceSound(p)'
    BY <1>2, <1>3, <2>1 DEF PlaceSound, Statement
  <2> QED
    BY <1>1, <2>1, <2>2, QuietSound
<1> QED
  BY <1>4, <1>5, <1>6, <1>7

\* The two BEGINs.
LEMMA BeginsStep ==
  ASSUME SessionsInv, NEW p \in Processes, BeginUpgrade(p) \/ Begin(p)
  PROVE  /\ Elsewhere(p)
         /\ set' = set /\ idx' = idx /\ step' = step /\ runs' = runs /\ result' = result
         /\ BeginUpgrade(p) => Worked(p, "none", db, "rename") /\ pc[p] = "begin_upgrade"
         /\ Begin(p) =>
              Worked(p, "none", db, IF Plan[p] = <<>> THEN "commit" ELSE "read") /\ pc[p] = "begin"
<1> DEFINE next == IF Plan[p] = <<>> THEN "commit" ELSE "read"
<1>0. TypeOK
  BY DEF SessionsInv
<1>1. CASE BeginUpgrade(p)
  <2>1. /\ pc[p] = "begin_upgrade" /\ Do(p, BeginOutcomes(Session(p)), "none", "rename")
        /\ set' = set /\ idx' = idx /\ step' = step /\ runs' = runs
    BY <1>1 DEF BeginUpgrade, At, position
  <2>2. Worked(p, "none", db, "rename") /\ scenario' = scenario
    BY <2>1, BeginStep, DoIs
  <2>3. Elsewhere(p)
    BY <1>0, <2>1, <2>2, OnlyMoved, Kept, Changed DEF Worked
  <2> QED
    BY <1>1, <2>1, <2>2, <2>3 DEF Worked, Begin, At
<1>2. CASE Begin(p)
  <2>1. /\ pc[p] = "begin" /\ Do(p, BeginOutcomes(Session(p)), "none", next)
        /\ set' = set /\ idx' = idx /\ step' = step /\ runs' = runs
    BY <1>2 DEF Begin, At, position
  <2> HIDE DEF next
  <2>2. Worked(p, "none", db, next) /\ scenario' = scenario
    BY <2>1, BeginStep, DoIs
  <2>3. Elsewhere(p)
    BY <1>0, <2>1, <2>2, OnlyMoved, Kept, Changed DEF Worked
  <2> USE DEF next
  <2> QED
    BY <1>2, <2>1, <2>2, <2>3 DEF Worked, BeginUpgrade, At
<1> QED
  BY <1>1, <1>2

\* They keep the invariant.
LEMMA BeginsSound ==
  ASSUME SessionsInv, NEW p \in Processes, BeginUpgrade(p) \/ Begin(p)
  PROVE  SessionsInv'
<1>1. PICK next \in {"rename", "commit", "read"} :
        /\ Worked(p, "none", db, next) /\ pc[p] \in {"begin_upgrade", "begin"}
        /\ next = "read" => Plan[p] # <<>>
        /\ next # "rename" => Begin(p)
  BY BeginsStep
<1>2. /\ Elsewhere(p)
      /\ set' = set /\ idx' = idx /\ step' = step /\ runs' = runs /\ result' = result
  BY BeginsStep

<1>3. /\ TypeOK /\ DataInv /\ PlaceSound(p) /\ HoldsSound(p) /\ WellFormed(scenario)
      /\ db \in Database /\ Finite(db)
      /\ scenario.dialect \in {"sqlite", "postgres"} /\ scenario' = scenario
  BY <1>2, HereSound DEF SessionsInv, Elsewhere
<1>4. conn[p].txn = "none" /\ db.ledger # "absent"
  BY <1>1, <1>3 DEF HoldsSound
<1>5. pc'[p] = next /\ Unmoved(p) /\ conn'[p] = Link("open", "none", db)
  BY <1>1, <1>3 DEF Worked, TypeOK
<1>6. DataInv'
  <2>1. LinkSound(conn'[p], db)
    BY <1>3, <1>5 DEF LinkSound, Link, Connection
  <2>2. \A q \in Others(p) : PairSound(conn'[p], conn[q])
    BY <1>5 DEF PairSound, Link, Writing
  <2> QED
    BY <1>3, <1>5, <2>1, <2>2, UnmovedData
<1>7. set[p] = 1
  BY <1>1, <1>3 DEF PlaceSound, Migrating
<1>8. next = "read" => set[p] \in DOMAIN Plan[p]
  <2>1. Plan[p] \in Seq(Range(Plan[p]))
    BY <1>3 DEF WellFormed, Plan
  <2> QED
    BY <1>1, <1>7, <2>1
<1>9. PlaceSound(p)'
  BY <1>2, <1>3, <1>5, <1>7, <1>8 DEF PlaceSound, Statement, Steps, Plan
<1> QED
  BY <1>1, <1>2, <1>4, <1>5, <1>6, <1>9, WorkedSound DEF Upgrading, Migrating

\* The two COMMITs.
LEMMA CommitsStep ==
  ASSUME SessionsInv, NEW p \in Processes, CommitUpgrade(p) \/ Commit(p)
  PROVE  /\ Elsewhere(p)
         /\ set' = set /\ idx' = idx /\ step' = step /\ runs' = runs
         /\ \/ Hurt(p) /\ pc'[p] = "drop" /\ result'[p] = "err"
            \/ /\ Settled(p, conn[p].view) /\ ~CommitBusy(p)
               /\ \/ CommitUpgrade(p) /\ pc'[p] = "end_upgrade" /\ result'[p] = result[p]
                  \/ Commit(p) /\ pc'[p] = "drop" /\ result'[p] = "ok"
<1>0. /\ TypeOK
      /\ pc[p] \in {"commit_upgrade", "commit"} => conn[p].txn = "open"
  BY DEF SessionsInv, ConnSound, Upgrading, Migrating
<1>1. CASE CommitUpgrade(p)
  <2>1. /\ pc[p] = "commit_upgrade" /\ Do(p, CommitOutcome(p), "none", "end_upgrade")
        /\ set' = set /\ idx' = idx /\ step' = step /\ runs' = runs
    BY <1>1 DEF CommitUpgrade, At, position
  <2>2. PICK o \in CommitOutcome(p) :
           /\ db' = o.session.durable
           /\ conn' = Connections(p, o, "none")
           /\ pc' = [pc EXCEPT ![p] =
                       IF o.reply = "ok" THEN "end_upgrade"
                       ELSE IF pc[p] \in {"create_ledger", "begin_upgrade", "begin"} THEN "idle"
                       ELSE "drop"]
           /\ result' = IF o.reply = "ok" THEN result ELSE [result EXCEPT ![p] = "err"]
           /\ scenario' = scenario
    BY <2>1, DoIs
  <2>3. Elsewhere(p)
    <3>1. Moved(pc', pc, p) /\ Moved(result', result, p)
      BY <2>2 DEF Moved
    <3> QED
      BY <1>0, <2>1, <2>2, <3>1, OnlyMoved, Kept
  <2>4. \/ o.reply = "ok" /\ ~CommitBusy(p) /\ Settled(p, conn[p].view)
        \/ o.reply = "err" /\ Hurt(p)
    BY <1>0, <2>1, <2>2, CommitStep
  <2>5. /\ pc'[p] = IF o.reply = "ok" THEN "end_upgrade" ELSE "drop"
        /\ result'[p] = IF o.reply = "ok" THEN result[p] ELSE "err"
    BY <1>0, <2>1, <2>2 DEF TypeOK
  <2> QED
    BY <1>1, <2>1, <2>3, <2>4, <2>5
<1>2. CASE Commit(p)
  <2>1. /\ pc[p] = "commit" /\ scenario' = scenario
        /\ set' = set /\ idx' = idx /\ step' = step /\ runs' = runs
        /\ pc' = [pc EXCEPT ![p] = "drop"]
    BY <1>2 DEF Commit, At, position
  <2>2. PICK o \in CommitOutcome(p) :
           /\ db' = o.session.durable
           /\ conn' = Connections(p, o, "none")
           /\ result' = [result EXCEPT ![p] = o.reply]
    BY <1>2 DEF Commit
  <2>3. Elsewhere(p)
    BY <1>0, <2>1, <2>2, OnlyMoved, Kept, Changed
  <2>4. \/ o.reply = "ok" /\ ~CommitBusy(p) /\ Settled(p, conn[p].view)
        \/ o.reply = "err" /\ Hurt(p)
    BY <1>0, <2>1, <2>2, CommitStep
  <2>5. pc'[p] = "drop" /\ result'[p] = o.reply
    BY <1>0, <2>1, <2>2 DEF TypeOK
  <2> QED
    BY <1>2, <2>1, <2>3, <2>4, <2>5
<1> QED
  BY <1>1, <1>2

\* What a commit makes durable, the others can have seen none of, or it was written
\* beside what they have.
LEMMA CommitsAlone ==
  ASSUME SessionsInv, NEW p \in Processes, conn[p].txn = "open", ~CommitBusy(p)
  PROVE  \/ conn[p].view = db
         \/ \A q \in Others(p) : conn[q].lock = "none"
         \/ scenario.dialect = "postgres" /\ conn[p].lock = "written"
<1>1. /\ conn[p].lock \in {"none", "shared", "written", "exclusive"}
      /\ conn[p].lock \in {"none", "shared"} => conn[p].view = db
      /\ scenario.dialect \in {"sqlite", "postgres"}
      /\ scenario.dialect = "postgres" /\ conn[p].lock = "exclusive" =>
           \A q \in Others(p) : conn[q].lock = "none"
  BY DEF SessionsInv, TypeOK, ViewsSound, LocksSound, Others
<1>2. conn[p].lock \in {"written", "exclusive"} /\ scenario.dialect = "sqlite" =>
        \A q \in Others(p) : conn[q].lock = "none"
  BY DEF CommitBusy, Wrote
<1> QED
  BY <1>1, <1>2

\* What a commit leaves of the connections of the others.
LEMMA SettledLinks ==
  ASSUME NEW p \in Processes, NEW after, Settled(p, after)
  PROVE  LinksKept(p)
<1>1. ASSUME NEW q \in Others(p)
      PROVE  /\ conn'[q].txn = conn[q].txn /\ conn'[q].lock = conn[q].lock
             /\ conn[q].lock = "exclusive" => conn'[q].view = conn[q].view
  <2>1. conn'[q] = Link(conn[q].txn, conn[q].lock, RebasedView(q, after))
    BY DEF Settled
  <2> QED
    BY <2>1 DEF Link, RebasedView
<1> QED
  BY <1>1 DEF LinksKept

\* The commits keep the invariant.
LEMMA CommitsSound ==
  ASSUME SessionsInv, NEW p \in Processes, CommitUpgrade(p) \/ Commit(p)
  PROVE  SessionsInv'
<1>1. /\ Elsewhere(p)
      /\ set' = set /\ idx' = idx /\ step' = step /\ runs' = runs
      /\ \/ Hurt(p) /\ pc'[p] = "drop" /\ result'[p] = "err"
         \/ /\ Settled(p, conn[p].view) /\ ~CommitBusy(p)
            /\ \/ CommitUpgrade(p) /\ pc'[p] = "end_upgrade" /\ result'[p] = result[p]
               \/ Commit(p) /\ pc'[p] = "drop" /\ result'[p] = "ok"
  BY CommitsStep
<1> DEFINE v == conn[p].view
<1>2. /\ TypeOK /\ DataInv /\ PlaceSound(p) /\ HoldsSound(p) /\ LinkSound(conn[p], db)
      /\ conn[p].view \in Database /\ Finite(conn[p].view)
      /\ scenario.dialect \in {"sqlite", "postgres"} /\ scenario' = scenario
  BY <1>1, HereSound DEF Elsewhere
<1>3. pc[p] = IF CommitUpgrade(p) THEN "commit_upgrade" ELSE "commit"
  BY DEF CommitUpgrade, Commit, At
<1>4. conn[p].txn = "open" /\ db.ledger # "absent"
  BY <1>2, <1>3 DEF HoldsSound, Upgrading, Migrating
<1>5. CASE Hurt(p) /\ pc'[p] = "drop" /\ result'[p] = "err"
  <2>1. idx'[p] \in Nat /\ step'[p] \in Steps /\ set'[p] \in Nat \ {0} /\ runs'[p] = runs[p]
    BY <1>1, <1>2 DEF PlaceSound
  <2> QED
    BY <1>1, <1>3, <1>5, <2>1, FailedSound DEF Upgrading, Migrating
<1>6. CASE /\ Settled(p, v) /\ ~CommitBusy(p)
           /\ \/ CommitUpgrade(p) /\ pc'[p] = "end_upgrade" /\ result'[p] = result[p]
              \/ Commit(p) /\ pc'[p] = "drop" /\ result'[p] = "ok"
  <2>1. \/ v = db
        \/ \A q \in Others(p) : conn[q].lock = "none"
        \/ scenario.dialect = "postgres" /\ conn[p].lock = "written"
    BY <1>4, <1>6, CommitsAlone
  <2>2. DataInv'
    BY <1>2, <1>6, <2>1, SettledData
  <2>3. LinksKept(p)
    BY <1>6, SettledLinks
  <2>4. db' = v /\ conn'[p] = Link("none", "none", v)
    BY <1>6 DEF Settled
  <2>5. v.ledger # "absent"
    <3>1. CASE conn[p].lock \in {"none", "shared", "written"}
      BY <1>2, <1>4, <3>1 DEF LinkSound, Extends
    <3>2. CASE conn[p].lock = "exclusive"
      BY <1>2, <1>3, <3>2 DEF HoldsSound, Migrating
    <3> QED
      BY <1>2, <3>1, <3>2 DEF TypeOK
  <2>6. PlaceSound(p)'
    BY <1>1, <1>2, <1>3, <1>6 DEF PlaceSound, Statement, Steps, Migrating, CommitUpgrade, Commit, At
  <2>7. HoldsSound(p)'
    BY <1>6, <2>4, <2>5 DEF HoldsSound, Link, Upgrading, Migrating
  <2> QED
    BY <1>1, <2>2, <2>3, <2>4, <2>5, <2>6, <2>7, StepSound
<1> QED
  BY <1>1, <1>5, <1>6

-----------------------------------------------------------------------------
(* The steps of apply_pending *)

\* The fragment and the migration p is at are among what it brings.
LEMMA FragmentIs ==
  ASSUME WellFormed(scenario), NEW p \in Processes, set[p] \in DOMAIN Plan[p]
  PROVE  /\ Fragment(p) \in Range(Plan[p])
         /\ Fragment(p).migrations \in Seq(Range(Fragment(p).migrations))
         /\ Plan[p] \in Seq(Range(Plan[p]))
         /\ DOMAIN Plan[p] = 1 .. Len(Plan[p]) /\ Len(Plan[p]) \in Nat
         /\ DOMAIN Fragment(p).migrations = 1 .. Len(Fragment(p).migrations)
         /\ Len(Fragment(p).migrations) \in Nat
<1>1. Fragment(p) \in Range(Plan[p])
  BY DEF Fragment, Range
<1>2. /\ Plan[p] \in Seq(Range(Plan[p]))
      /\ Fragment(p).migrations \in Seq(Range(Fragment(p).migrations))
  BY <1>1 DEF WellFormed, Plan
<1> QED
  BY <1>1, <1>2

\* What p records is a row, of a migration p brings.
LEMMA EntryIs ==
  ASSUME WellFormed(scenario), NEW p \in Processes, set[p] \in DOMAIN Plan[p],
         idx[p] \in Nat, idx[p] + 1 \in DOMAIN Fragment(p).migrations
  PROVE  /\ <<Fragment(p).name, Hash(p)>> \in Brought(p)
         /\ <<Fragment(p).name, Hash(p)>> \in Migration
         /\ Entry(p) \in Row
<1>1. Fragment(p) \in Range(Plan[p])
  BY FragmentIs
<1>2. Hash(p) \in Range(Fragment(p).migrations)
  BY DEF Hash, Range
<1>3. <<Fragment(p).name, Hash(p)>> \in Brought(p)
  BY <1>1, <1>2 DEF Brought
<1>4. <<Fragment(p).name, Hash(p)>> \in Known
  BY <1>3 DEF Known
<1>5. Fragment(p).name \in Names /\ Hash(p) \in Hashes
  <2>1. <<Fragment(p).name, Hash(p)>>[1] = Fragment(p).name
        /\ <<Fragment(p).name, Hash(p)>>[2] = Hash(p)
    OBVIOUS
  <2> QED
    BY <1>4, <2>1 DEF Names, Hashes
<1> QED
  BY <1>3, <1>4, <1>5 DEF Migration, Row, Entry

\* The ledger of a namespace is a sequence.
LEMMA LedgerLength ==
  ASSUME NEW rows, IsFiniteSet(rows), NEW name
  PROVE  /\ Len(Ledger(rows, name)) = Cardinality(Of(rows, name))
         /\ DOMAIN Ledger(rows, name) = 1 .. Len(Ledger(rows, name))
         /\ Len(Ledger(rows, name)) \in Nat
<1>1. IsFiniteSet(Of(rows, name))
  BY FS_Subset DEF Of
<1>2. Cardinality(Of(rows, name)) \in Nat
  BY <1>1, FS_CardinalityType
<1>3. DOMAIN Ledger(rows, name) = 1 .. Cardinality(Of(rows, name))
  BY DEF Ledger
<1>4. Ledger(rows, name) = [n \in 1 .. Cardinality(Of(rows, name)) |-> Ledger(rows, name)[n]]
  BY DEF Ledger
<1>5. Len(Ledger(rows, name)) = Cardinality(Of(rows, name))
  BY <1>2, <1>4
<1> QED
  BY <1>2, <1>3, <1>5

Existing(p) == Ledger(conn[p].view.rows, Fragment(p).name)

\* The history in the ledger differs from that of p, whose run panics.
Panicked(p) ==
  /\ Hurt(p)
  /\ Mismatched(Existing(p), Fragment(p).migrations)
  /\ pc' = [pc EXCEPT ![p] = "drop"]
  /\ result' = [result EXCEPT ![p] = "panic"]
  /\ set' = set /\ idx' = idx /\ step' = step

\* The fragment p is at is there, or p goes on where its history ends.
Compared(p) ==
  /\ ~Mismatched(Existing(p), Fragment(p).migrations)
  /\ \/ /\ UpToDate(Existing(p), Fragment(p).migrations)
        /\ set' = [set EXCEPT ![p] = set[p] + 1] /\ idx' = idx /\ step' = step
     \/ /\ ~UpToDate(Existing(p), Fragment(p).migrations)
        /\ set' = set
        /\ idx' = [idx EXCEPT ![p] = Len(Existing(p))] /\ step' = [step EXCEPT ![p] = 1]

ComparedNext(p) == IF UpToDate(Existing(p), Fragment(p).migrations) THEN SetAfter(p) ELSE "apply"

Seen(p) == IF conn[p].lock = "written" THEN "written" ELSE "shared"

\* The SELECT and the comparison.
LEMMA ReadLedgerStep ==
  ASSUME SessionsInv, NEW p \in Processes, ReadLedger(p)
  PROVE  /\ pc[p] = "read" /\ Elsewhere(p) /\ runs' = runs
         /\ \/ Panicked(p)
            \/ Failed(p) /\ Compared(p)
            \/ Worked(p, Seen(p), conn[p].view, ComparedNext(p)) /\ Compared(p) /\ ~LedgerLocked(p)
<1> DEFINE migrations == Fragment(p).migrations
<1>1. TypeOK /\ View(p) = conn[p].view /\ HoldsSound(p)
  BY HereSound
<1>2. pc[p] = "read" /\ runs' = runs
  BY DEF ReadLedger, At
<1>3. /\ conn[p].txn = "open" /\ pc[p] \in Migrating
      /\ conn[p] = Link(conn[p].txn, conn[p].lock, conn[p].view)
  BY <1>1, <1>2, Typed DEF HoldsSound, Migrating
<1>4. Ledger(View(p).rows, Fragment(p).name) = Existing(p)
  BY <1>1 DEF Existing
<1>5. LedgerLocked(p) \in BOOLEAN
  BY DEF LedgerLocked
<1>6. CASE /\ Mismatched(Existing(p), migrations)
           /\ pc' = [pc EXCEPT ![p] = "drop"]
           /\ result' = [result EXCEPT ![p] = "panic"]
           /\ UNCHANGED <<scenario, db, conn, position>>
  <2>1. Hurt(p)
    BY <1>1, <1>3, <1>6 DEF Hurt, Unmoved, TypeOK
  <2>2. Elsewhere(p)
    BY <1>1, <1>2, <1>6, OnlyMoved, Kept, Changed DEF position
  <2> QED
    BY <1>2, <1>6, <2>1, <2>2 DEF Panicked, position
<1>7. ASSUME NEW next, Do(p, ReadOutcomes(p, LedgerLocked(p)), "shared", next),
             next = ComparedNext(p), Compared(p)
      PROVE  /\ Elsewhere(p)
             /\ \/ Failed(p)
                \/ Worked(p, Seen(p), conn[p].view, ComparedNext(p)) /\ ~LedgerLocked(p)
  <2>1. \/ Failed(p)
        \/ Worked(p, Seen(p), conn[p].view, next) /\ ~LedgerLocked(p)
    BY <1>3, <1>5, <1>7, ReadStep DEF Seen
  <2>2. scenario' = scenario
    BY <1>7, DoIs
  <2>3. Moved(pc', pc, p) /\ Moved(result', result, p)
    BY <2>1 DEF Failed, Worked, Moved
  <2>4. Moved(set', set, p) /\ Moved(idx', idx, p) /\ Moved(step', step, p)
    BY <1>7 DEF Compared, Moved
  <2> QED
    BY <1>1, <1>2, <1>7, <2>1, <2>2, <2>3, <2>4, OnlyMoved, Kept
<1>8. CASE /\ ~Mismatched(Existing(p), migrations)
           /\ UpToDate(Existing(p), migrations)
           /\ Do(p, ReadOutcomes(p, LedgerLocked(p)), "shared", SetAfter(p))
           /\ set' = [set EXCEPT ![p] = @ + 1]
           /\ UNCHANGED <<idx, step>>
  <2>1. Compared(p) /\ ComparedNext(p) = SetAfter(p)
    BY <1>8 DEF Compared, ComparedNext
  <2> QED
    BY <1>2, <1>7, <1>8, <2>1
<1>9. CASE /\ ~Mismatched(Existing(p), migrations)
           /\ ~UpToDate(Existing(p), migrations)
           /\ Do(p, ReadOutcomes(p, LedgerLocked(p)), "shared", "apply")
           /\ idx' = [idx EXCEPT ![p] = Len(Existing(p))]
           /\ step' = [step EXCEPT ![p] = 1]
           /\ UNCHANGED set
  <2>1. Compared(p) /\ ComparedNext(p) = "apply"
    BY <1>9 DEF Compared, ComparedNext
  <2> QED
    BY <1>2, <1>7, <1>9, <2>1
<1> QED
  BY <1>4, <1>6, <1>8, <1>9 DEF ReadLedger

\* Where p is after it has compared its history.
LEMMA ComparedPlace ==
  ASSUME SessionsInv, NEW p \in Processes, pc[p] = "read", Compared(p)
  PROVE  /\ set'[p] \in Nat \ {0} /\ idx'[p] \in Nat /\ step'[p] \in Steps
         /\ ComparedNext(p) \in {"read", "apply", "commit"}
         /\ ComparedNext(p) = "read" => set'[p] \in DOMAIN Plan[p]
         /\ ComparedNext(p) = "apply" =>
              set'[p] = set[p] /\ idx'[p] + 1 \in DOMAIN Fragment(p).migrations
<1>1. /\ TypeOK /\ PlaceSound(p) /\ Finite(conn[p].view) /\ WellFormed(scenario)
      /\ set[p] \in DOMAIN Plan[p]
  BY HereSound DEF SessionsInv, PlaceSound
<1>2. Len(Existing(p)) \in Nat
  BY <1>1, LedgerLength DEF Existing, Finite
<1>3. /\ DOMAIN Plan[p] = 1 .. Len(Plan[p]) /\ Len(Plan[p]) \in Nat
      /\ DOMAIN Fragment(p).migrations = 1 .. Len(Fragment(p).migrations)
      /\ Len(Fragment(p).migrations) \in Nat
  BY <1>1, FragmentIs
<1>4. 1 \in Steps
  BY <1>1 DEF Steps, WellFormed
<1>5. CASE UpToDate(Existing(p), Fragment(p).migrations)
  <2>1. set'[p] = set[p] + 1 /\ idx'[p] = idx[p] /\ step'[p] = step[p]
    BY <1>1, <1>5 DEF Compared, TypeOK
  <2>2. ComparedNext(p) = IF set[p] < Len(Plan[p]) THEN "read" ELSE "commit"
    BY <1>5 DEF ComparedNext, SetAfter
  <2> QED
    BY <1>1, <1>3, <2>1, <2>2 DEF PlaceSound
<1>6. CASE ~UpToDate(Existing(p), Fragment(p).migrations)
  <2>1. set'[p] = set[p] /\ idx'[p] = Len(Existing(p)) /\ step'[p] = 1
    BY <1>1, <1>6 DEF Compared, TypeOK
  <2>2. ComparedNext(p) = "apply" /\ Len(Existing(p)) < Len(Fragment(p).migrations)
    BY <1>2, <1>3, <1>6 DEF ComparedNext, UpToDate
  <2> QED
    BY <1>1, <1>2, <1>3, <1>4, <2>1, <2>2 DEF PlaceSound
<1> QED
  BY <1>5, <1>6

\* The comparison keeps the invariant.
LEMMA ReadLedgerSound ==
  ASSUME SessionsInv, NEW p \in Processes, ReadLedger(p)
  PROVE  SessionsInv'
<1>1. /\ pc[p] = "read" /\ Elsewhere(p) /\ runs' = runs
      /\ \/ Panicked(p)
         \/ Failed(p) /\ Compared(p)
         \/ Worked(p, Seen(p), conn[p].view, ComparedNext(p)) /\ Compared(p) /\ ~LedgerLocked(p)
  BY ReadLedgerStep
<1>2. /\ TypeOK /\ DataInv /\ PlaceSound(p) /\ HoldsSound(p) /\ LinkSound(conn[p], db)
      /\ conn[p].view \in Database /\ Finite(conn[p].view)
      /\ scenario.dialect \in {"sqlite", "postgres"} /\ scenario' = scenario
      /\ pc[p] \in Migrating /\ runs'[p] = runs[p]
  BY <1>1, HereSound DEF Elsewhere, Migrating
<1>3. CASE Panicked(p)
  <2>1. Hurt(p) /\ pc'[p] = "drop" /\ result'[p] = "panic"
    BY <1>2, <1>3 DEF Panicked, TypeOK
  <2>2. idx'[p] \in Nat /\ step'[p] \in Steps /\ set'[p] \in Nat \ {0}
    BY <1>2, <1>3 DEF PlaceSound, Panicked
  <2> QED
    BY <1>1, <1>2, <2>1, <2>2, FailedSound
<1>4. CASE Failed(p) /\ Compared(p)
  <2>1. Hurt(p) /\ pc'[p] = "drop" /\ result'[p] = "err"
    BY <1>2, <1>4 DEF Failed, TypeOK
  <2>2. idx'[p] \in Nat /\ step'[p] \in Steps /\ set'[p] \in Nat \ {0}
    BY <1>1, <1>4, ComparedPlace
  <2> QED
    BY <1>1, <1>2, <2>1, <2>2, FailedSound
<1>5. CASE Worked(p, Seen(p), conn[p].view, ComparedNext(p)) /\ Compared(p) /\ ~LedgerLocked(p)
  <2> DEFINE next == ComparedNext(p)
  <2>1. /\ set'[p] \in Nat \ {0} /\ idx'[p] \in Nat /\ step'[p] \in Steps
        /\ next \in {"read", "apply", "commit"}
        /\ next = "read" => set'[p] \in DOMAIN Plan[p]
        /\ next = "apply" =>
             set'[p] = set[p] /\ idx'[p] + 1 \in DOMAIN Fragment(p).migrations
    BY <1>1, <1>5, ComparedPlace
  <2>2. pc'[p] = next /\ result'[p] = result[p]
    BY <1>2, <1>5 DEF Worked, TypeOK
  <2>3. conn[p].txn = "open" /\ db.ledger # "absent" /\ conn[p].lock # "exclusive"
    BY <1>1, <1>2 DEF HoldsSound, Migrating
  <2>4. /\ Seen(p) \in {"shared", "written"}
        /\ Seen(p) = "shared" => conn[p].view = db
        /\ Seen(p) = "written" => conn[p].lock = "written" /\ Extends(conn[p].view, db)
    BY <1>2, <2>3 DEF Seen, LinkSound, TypeOK
  <2>5. DataInv'
    BY <1>2, <1>5, <2>3, <2>4, WorkedData DEF Writing
  <2> HIDE DEF next
  <2>6. PlaceSound(p)'
    <3>1. next = "apply" => (idx[p] + 1 \in DOMAIN Fragment(p).migrations)'
      <4> SUFFICES ASSUME next = "apply" PROVE (idx[p] + 1 \in DOMAIN Fragment(p).migrations)'
        OBVIOUS
      <4>1. Fragment(p)' = Fragment(p)
        BY <1>2, <2>1 DEF Fragment, Plan
      <4> QED
        BY <2>1, <4>1
    <3>2. next = "read" => (set[p] \in DOMAIN Plan[p])'
      BY <1>2, <2>1 DEF Plan
    <3>3. next = "apply" => (set[p] \in DOMAIN Plan[p])'
      BY <1>1, <1>2, <2>1 DEF Plan, PlaceSound
    <3>4. Steps' = Steps
      BY <1>2 DEF Steps
    <3> QED
      BY <1>2, <2>1, <2>2, <3>1, <3>2, <3>3, <3>4 DEF PlaceSound, Statement, Migrating
  <2>7. Worked(p, Seen(p), conn[p].view, next)
    BY <1>5 DEF next
  <2> QED
    BY <1>1, <2>1, <2>2, <2>3, <2>4, <2>5, <2>6, <2>7, WorkedSound DEF Upgrading, Migrating
<1> QED
  BY <1>1, <1>3, <1>4, <1>5

\* The statement that p applies.
Current(p) == <<<<Fragment(p).name, Hash(p)>>, step[p]>>

Advanced(v, e) == Data(v.ledger, v.rows, v.renamed, [v.applied EXCEPT ![e] = @ + 1])

ApplyNext(p) == IF step[p] < scenario.statements THEN "apply" ELSE "record"

\* A statement of a migration is executed for the first time, or is one that can be repeated.
LEMMA ApplyStep ==
  ASSUME SessionsInv, NEW p \in Processes, Apply(p)
  PROVE  /\ pc[p] = "apply" /\ Elsewhere(p) /\ set' = set /\ idx' = idx /\ runs' = runs
         /\ step' = [step EXCEPT ![p] = IF step[p] < scenario.statements THEN step[p] + 1 ELSE 1]
         /\ \/ Failed(p)
            \/ /\ Worked(p, "written", Advanced(conn[p].view, Current(p)), ApplyNext(p))
               /\ ~FileBusy(p)
               /\ Hash(p) \in Repeatable \/ ~StatementPending(p, Current(p))
               /\ Hash(p) \in Repeatable \/ conn[p].view.applied[Current(p)] = 0
<1> DEFINE e == Current(p)
           waits == Hash(p) \notin Repeatable /\ StatementPending(p, e)
           possible == Hash(p) \in Repeatable \/ View(p).applied[e] = 0
           after == [View(p) EXCEPT !.applied[e] = @ + 1]
<1>1. TypeOK /\ View(p) = conn[p].view /\ conn[p].view \in Database /\ HoldsSound(p)
  BY HereSound
<1>2. /\ pc[p] = "apply" /\ runs' = runs /\ set' = set /\ idx' = idx
      /\ Do(p, WriteOutcomes(p, waits, possible, after), "written", ApplyNext(p))
      /\ step' = [step EXCEPT ![p] = IF step[p] < scenario.statements THEN step[p] + 1 ELSE 1]
  BY DEF Apply, At, Current, ApplyNext
<1>3. after = Advanced(conn[p].view, e)
  <2> DEFINE v == conn[p].view
             counted == [v.applied EXCEPT ![e] = @ + 1]
  <2>1. [v EXCEPT !.applied[e] = @ + 1] = [v EXCEPT !.applied = [v.applied EXCEPT ![e] = @ + 1]]
    <3> HIDE DEF v, e
    <3> QED OBVIOUS
  <2>2. [v EXCEPT !.applied = counted] = Data(v.ledger, v.rows, v.renamed, counted)
    <3> HIDE DEF counted
    <3> QED
      BY <1>1, Excepts
  <2> QED
    BY <1>1, <2>1, <2>2 DEF Advanced
<1>4. waits \in BOOLEAN /\ possible \in BOOLEAN
  OBVIOUS
<1>5. pc[p] \in Upgrading \cup Migrating /\ conn[p].lock # "exclusive"
  BY <1>1, <1>2 DEF HoldsSound, Migrating
<1> HIDE DEF waits, possible, after, e
<1>6. \/ Failed(p)
      \/ /\ Worked(p, "written", after, ApplyNext(p))
         /\ ~waits /\ possible /\ ~FileBusy(p)
  BY <1>2, <1>4, <1>5, WriteStep
<1>7. scenario' = scenario
  BY <1>2, DoIs
<1>8. Moved(pc', pc, p) /\ Moved(result', result, p) /\ Moved(step', step, p)
  BY <1>2, <1>6 DEF Failed, Worked, Moved
<1>9. Elsewhere(p)
  BY <1>1, <1>2, <1>7, <1>8, OnlyMoved, Kept
<1> QED
  BY <1>1, <1>2, <1>3, <1>6, <1>9 DEF waits, possible, e

\* One of the counts goes up.
LEMMA CountedOnce ==
  ASSUME NEW D, NEW f \in [D -> Nat], NEW e
  PROVE  /\ [f EXCEPT ![e] = @ + 1] \in [D -> Nat]
         /\ \A d \in D : [f EXCEPT ![e] = @ + 1][d] = IF d = e THEN f[d] + 1 ELSE f[d]
<1>1. \A d \in D : [f EXCEPT ![e] = @ + 1][d] = IF d = e THEN f[d] + 1 ELSE f[d]
  OBVIOUS
<1>2. \A d \in D : (IF d = e THEN f[d] + 1 ELSE f[d]) \in Nat
  OBVIOUS
<1>3. [f EXCEPT ![e] = @ + 1] = [d \in D |-> IF d = e THEN f[d] + 1 ELSE f[d]]
  OBVIOUS
<1> QED
  BY <1>1, <1>2, <1>3

\* The step keeps the invariant.
LEMMA ApplySound ==
  ASSUME SessionsInv, NEW p \in Processes, Apply(p)
  PROVE  SessionsInv'
<1> DEFINE after == Advanced(conn[p].view, Current(p))
           next == ApplyNext(p)
<1>1. /\ pc[p] = "apply" /\ Elsewhere(p) /\ set' = set /\ idx' = idx /\ runs' = runs
      /\ step' = [step EXCEPT ![p] = IF step[p] < scenario.statements THEN step[p] + 1 ELSE 1]
      /\ \/ Failed(p)
         \/ Worked(p, "written", after, next) /\ ~FileBusy(p)
  BY ApplyStep
<1>2. /\ TypeOK /\ DataInv /\ PlaceSound(p) /\ HoldsSound(p) /\ LinkSound(conn[p], db)
      /\ conn[p].view \in Database /\ Finite(conn[p].view) /\ db \in Database
      /\ scenario.dialect \in {"sqlite", "postgres"} /\ scenario' = scenario
      /\ pc[p] \in Migrating /\ runs'[p] = runs[p] /\ set'[p] = set[p] /\ idx'[p] = idx[p]
      /\ scenario.statements \in Nat \ {0}
  BY <1>1, HereSound DEF Elsewhere, Migrating, SessionsInv, WellFormed
<1>3. step'[p] \in Steps /\ (step[p] >= scenario.statements => step'[p] = 1)
  BY <1>1, <1>2 DEF TypeOK, Steps
<1>4. CASE Failed(p)
  <2>1. Hurt(p) /\ pc'[p] = "drop" /\ result'[p] = "err"
    BY <1>2, <1>4 DEF Failed, TypeOK
  <2>2. idx'[p] \in Nat /\ set'[p] \in Nat \ {0}
    BY <1>2 DEF PlaceSound
  <2> QED
    BY <1>1, <1>2, <1>3, <2>1, <2>2, FailedSound
<1>5. CASE Worked(p, "written", after, next) /\ ~FileBusy(p)
  <2>1. /\ conn[p].txn = "open" /\ db.ledger # "absent"
        /\ conn[p].lock \in {"shared", "written"}
    BY <1>1, <1>2 DEF HoldsSound, Migrating, TypeOK
  <2>2. Extends(conn[p].view, db)
    BY <1>2, <2>1 DEF LinkSound, Extends, Database
  <2>3. after \in Database
    <3> DEFINE counted == [conn[p].view.applied EXCEPT ![Current(p)] = @ + 1]
    <3>1. conn[p].view.applied \in [Migration \X Steps -> Nat]
      BY <1>2 DEF Database
    <3>2. counted \in [Migration \X Steps -> Nat]
      <4> DEFINE D == Migration \X Steps
                 f == conn[p].view.applied
      <4>1. f \in [D -> Nat]
        BY <3>1
      <4> HIDE DEF D, f
      <4>2. [f EXCEPT ![Current(p)] = @ + 1] \in [D -> Nat]
        BY <4>1, CountedOnce
      <4> USE DEF D, f
      <4> QED
        BY <4>2
    <3> HIDE DEF counted
    <3>3. after = Data(conn[p].view.ledger, conn[p].view.rows, conn[p].view.renamed, counted)
      BY DEF Advanced, counted
    <3> QED
      BY <1>2, <3>2, <3>3 DEF Data, Database
  <2>4. Finite(after)
    BY <1>2 DEF Advanced, Data, Finite
  <2>5. Extends(after, db)
    <3>1. \A d \in Migration \X Steps : conn[p].view.applied[d] \in Nat /\ db.applied[d] \in Nat
      BY <1>2 DEF Database
    <3>2. after.applied = [conn[p].view.applied EXCEPT ![Current(p)] = @ + 1]
      BY DEF Advanced, Data
    <3>3. \A d \in Migration \X Steps : after.applied[d] >= conn[p].view.applied[d]
      <4>1. conn[p].view.applied \in [Migration \X Steps -> Nat]
        BY <1>2 DEF Database
      <4> HIDE DEF after
      <4> QED
        BY <3>1, <3>2, <4>1, CountedOnce
    <3>4. \A d \in Migration \X Steps : after.applied[d] \in Nat
      BY <2>3 DEF Database
    <3> HIDE DEF after
    <3>5. \A d \in Migration \X Steps : after.applied[d] >= db.applied[d]
      BY <2>2, <3>1, <3>3, <3>4 DEF Extends
    <3> QED
      BY <2>2, <3>5 DEF Extends, after, Advanced, Data
  <2> HIDE DEF after
  <2>6. DataInv'
    BY <1>2, <1>5, <2>1, <2>3, <2>4, <2>5, WorkedData
  <2>7. pc'[p] = next /\ next \in {"apply", "record"} /\ result'[p] = result[p]
    BY <1>2, <1>5 DEF Worked, TypeOK, ApplyNext
  <2>8. pc'[p] = "record" => step'[p] = 1
    BY <1>2, <1>3, <2>7 DEF ApplyNext, TypeOK, Steps
  <2>9. PlaceSound(p)'
    <3>1. (idx[p] + 1 \in DOMAIN Fragment(p).migrations)' /\ (set[p] \in DOMAIN Plan[p])'
      BY <1>1, <1>2 DEF PlaceSound, Fragment, Plan
    <3>2. Steps' = Steps
      BY <1>2 DEF Steps
    <3> QED
      BY <1>2, <1>3, <2>7, <2>8, <3>1, <3>2 DEF PlaceSound, Statement, Migrating
  <2> HIDE DEF next
  <2> QED
    BY <1>1, <1>5, <2>1, <2>6, <2>7, <2>9, WorkedSound DEF Upgrading, Migrating
<1> QED
  BY <1>1, <1>4, <1>5

Enlarged(v, r) == Data(v.ledger, v.rows \cup {r}, v.renamed, v.applied)

\* p is at the last migration of its fragment.
AtLast(p) == idx[p] + 1 = Len(Fragment(p).migrations)

RecordNext(p) == IF AtLast(p) THEN SetAfter(p) ELSE "apply"

\* The entry of a migration, whose key nobody has taken.
LEMMA RecordStep ==
  ASSUME SessionsInv, NEW p \in Processes, Record(p)
  PROVE  /\ pc[p] = "record" /\ Elsewhere(p) /\ step' = step /\ runs' = runs
         /\ set' = IF AtLast(p) THEN [set EXCEPT ![p] = set[p] + 1] ELSE set
         /\ idx' = [idx EXCEPT ![p] = idx[p] + 1]
         /\ \/ Failed(p)
            \/ /\ Worked(p, "written", Enlarged(conn[p].view, Entry(p)), RecordNext(p))
               /\ ~FileBusy(p)
               /\ ~KeyPending(p, Entry(p))
               /\ ~KeyTaken(conn[p].view.rows, Entry(p))
<1> DEFINE after == [View(p) EXCEPT !.rows = @ \cup {Entry(p)}]
<1>1. TypeOK /\ View(p) = conn[p].view /\ conn[p].view \in Database /\ HoldsSound(p)
  BY HereSound
<1>2. /\ pc[p] = "record" /\ runs' = runs /\ step' = step
      /\ Do(p, WriteOutcomes(p, KeyPending(p, Entry(p)), ~KeyTaken(View(p).rows, Entry(p)), after),
            "written", RecordNext(p))
      /\ set' = IF AtLast(p) THEN [set EXCEPT ![p] = set[p] + 1] ELSE set
      /\ idx' = [idx EXCEPT ![p] = idx[p] + 1]
  BY DEF Record, At, AtLast, RecordNext
<1>3. after = Enlarged(conn[p].view, Entry(p))
  BY <1>1, Excepts DEF Enlarged
<1>4. KeyPending(p, Entry(p)) \in BOOLEAN /\ (~KeyTaken(View(p).rows, Entry(p))) \in BOOLEAN
  BY DEF KeyPending, KeyTaken
<1>5. pc[p] \in Upgrading \cup Migrating /\ conn[p].lock # "exclusive"
  BY <1>1, <1>2 DEF HoldsSound, Migrating
<1> HIDE DEF after
<1>6. \/ Failed(p)
      \/ /\ Worked(p, "written", after, RecordNext(p))
         /\ ~KeyPending(p, Entry(p)) /\ ~KeyTaken(View(p).rows, Entry(p)) /\ ~FileBusy(p)
  BY <1>2, <1>4, <1>5, WriteStep
<1>7. scenario' = scenario
  BY <1>2, DoIs
<1>8. /\ Moved(pc', pc, p) /\ Moved(result', result, p)
      /\ Moved(set', set, p) /\ Moved(idx', idx, p)
  BY <1>2, <1>6 DEF Failed, Worked, Moved
<1>9. Elsewhere(p)
  BY <1>1, <1>2, <1>7, <1>8, OnlyMoved, Kept
<1> QED
  BY <1>1, <1>2, <1>3, <1>6, <1>9

\* Where p is after it has recorded a migration.
LEMMA RecordPlace ==
  ASSUME SessionsInv, NEW p \in Processes, pc[p] = "record",
         set' = IF AtLast(p) THEN [set EXCEPT ![p] = set[p] + 1] ELSE set,
         idx' = [idx EXCEPT ![p] = idx[p] + 1]
  PROVE  /\ set'[p] \in Nat \ {0} /\ idx'[p] \in Nat
         /\ RecordNext(p) \in {"read", "apply", "commit"}
         /\ RecordNext(p) = "read" => set'[p] \in DOMAIN Plan[p]
         /\ RecordNext(p) = "apply" =>
              set'[p] = set[p] /\ idx'[p] + 1 \in DOMAIN Fragment(p).migrations
<1>1. /\ TypeOK /\ PlaceSound(p) /\ WellFormed(scenario)
      /\ set[p] \in DOMAIN Plan[p] /\ idx[p] + 1 \in DOMAIN Fragment(p).migrations
  BY HereSound DEF SessionsInv, PlaceSound
<1>2. /\ DOMAIN Plan[p] = 1 .. Len(Plan[p]) /\ Len(Plan[p]) \in Nat
      /\ DOMAIN Fragment(p).migrations = 1 .. Len(Fragment(p).migrations)
      /\ Len(Fragment(p).migrations) \in Nat
  BY <1>1, FragmentIs
<1>3. set'[p] = (IF AtLast(p) THEN set[p] + 1 ELSE set[p]) /\ idx'[p] = idx[p] + 1
  BY <1>1 DEF TypeOK
<1>4. CASE AtLast(p)
  <2>1. RecordNext(p) = IF set[p] < Len(Plan[p]) THEN "read" ELSE "commit"
    BY <1>4 DEF RecordNext, SetAfter
  <2> QED
    BY <1>1, <1>2, <1>3, <1>4, <2>1 DEF PlaceSound
<1>5. CASE ~AtLast(p)
  <2>1. RecordNext(p) = "apply" /\ idx[p] + 1 < Len(Fragment(p).migrations)
    BY <1>1, <1>2, <1>5 DEF RecordNext, AtLast, PlaceSound
  <2> QED
    BY <1>1, <1>2, <1>3, <1>5, <2>1 DEF PlaceSound
<1> QED
  BY <1>4, <1>5

\* The entry keeps the invariant.
LEMMA RecordSound ==
  ASSUME SessionsInv, NEW p \in Processes, Record(p)
  PROVE  SessionsInv'
<1> DEFINE after == Enlarged(conn[p].view, Entry(p))
           next == RecordNext(p)
<1>1. /\ pc[p] = "record" /\ Elsewhere(p) /\ step' = step /\ runs' = runs
      /\ set' = IF AtLast(p) THEN [set EXCEPT ![p] = set[p] + 1] ELSE set
      /\ idx' = [idx EXCEPT ![p] = idx[p] + 1]
      /\ \/ Failed(p)
         \/ Worked(p, "written", after, next) /\ ~FileBusy(p)
  BY RecordStep
<1>2. /\ TypeOK /\ DataInv /\ PlaceSound(p) /\ HoldsSound(p) /\ LinkSound(conn[p], db)
      /\ conn[p].view \in Database /\ Finite(conn[p].view) /\ db \in Database
      /\ scenario.dialect \in {"sqlite", "postgres"} /\ scenario' = scenario
      /\ pc[p] \in Migrating /\ runs'[p] = runs[p] /\ step'[p] = step[p]
      /\ WellFormed(scenario)
  BY <1>1, HereSound DEF Elsewhere, Migrating, SessionsInv
<1>3. /\ set'[p] \in Nat \ {0} /\ idx'[p] \in Nat
      /\ next \in {"read", "apply", "commit"}
      /\ next = "read" => set'[p] \in DOMAIN Plan[p]
      /\ next = "apply" => set'[p] = set[p] /\ idx'[p] + 1 \in DOMAIN Fragment(p).migrations
  BY <1>1, RecordPlace
<1>4. step'[p] \in Steps
  BY <1>2 DEF PlaceSound
<1>5. CASE Failed(p)
  <2>1. Hurt(p) /\ pc'[p] = "drop" /\ result'[p] = "err"
    BY <1>2, <1>5 DEF Failed, TypeOK
  <2> QED
    BY <1>1, <1>2, <1>3, <1>4, <2>1, FailedSound
<1>6. CASE Worked(p, "written", after, next) /\ ~FileBusy(p)
  <2>1. /\ conn[p].txn = "open" /\ db.ledger # "absent" /\ conn[p].lock = "written"
    BY <1>1, <1>2 DEF HoldsSound, Migrating
  <2>2. Extends(conn[p].view, db)
    BY <1>2, <2>1 DEF LinkSound
  <2>3. Entry(p) \in Row
    BY <1>1, <1>2, EntryIs DEF PlaceSound
  <2>4. after \in Database
    BY <1>2, <2>3 DEF Enlarged, Data, Database
  <2>5. Finite(after)
    <3>1. IsFiniteSet(conn[p].view.rows \cup {Entry(p)})
      BY <1>2, FS_AddElement DEF Finite
    <3> QED
      BY <1>2, <3>1 DEF Enlarged, Data, Finite
  <2>6. Extends(after, db)
    BY <2>2 DEF Extends, Enlarged, Data
  <2> HIDE DEF after, next
  <2>7. DataInv'
    BY <1>2, <1>6, <2>1, <2>4, <2>5, <2>6, WorkedData
  <2>8. pc'[p] = next /\ result'[p] = result[p]
    BY <1>2, <1>6 DEF Worked, TypeOK
  <2>9. PlaceSound(p)'
    <3>1. next = "apply" => (idx[p] + 1 \in DOMAIN Fragment(p).migrations)'
      <4> SUFFICES ASSUME next = "apply" PROVE (idx[p] + 1 \in DOMAIN Fragment(p).migrations)'
        OBVIOUS
      <4>1. Fragment(p)' = Fragment(p)
        BY <1>2, <1>3 DEF Fragment, Plan
      <4> QED
        BY <1>3, <4>1
    <3>2. next = "read" => (set[p] \in DOMAIN Plan[p])'
      BY <1>2, <1>3 DEF Plan
    <3>3. next = "apply" => (set[p] \in DOMAIN Plan[p])'
      BY <1>1, <1>2, <1>3 DEF Plan, PlaceSound
    <3>4. Steps' = Steps
      BY <1>2 DEF Steps
    <3> QED
      BY <1>2, <1>3, <1>4, <2>8, <3>1, <3>2, <3>3, <3>4 DEF PlaceSound, Statement, Migrating
  <2> QED
    BY <1>1, <1>3, <1>6, <2>1, <2>7, <2>8, <2>9, WorkedSound DEF Upgrading, Migrating
<1> QED
  BY <1>1, <1>5, <1>6

-----------------------------------------------------------------------------
(* The theorems *)

\* A step that changes nothing.
LEMMA Unchanged ==
  ASSUME SessionsInv, UNCHANGED vars
  PROVE  SessionsInv'
<1>1. /\ scenario' = scenario /\ db' = db /\ conn' = conn /\ pc' = pc /\ set' = set
      /\ idx' = idx /\ step' = step /\ result' = result /\ runs' = runs
  BY DEF vars
<1>2. TypeOK' /\ Positions' /\ WellFormed(scenario)'
  BY <1>1, SameTypes DEF SessionsInv, TypeOK, Positions, WellFormed, Steps, Plan, Fragment
<1>3. RowsFinite' /\ ConnSound' /\ LocksSound' /\ LedgerThere'
  BY <1>1 DEF SessionsInv, RowsFinite, ConnSound, LocksSound, LedgerThere, Wrote
<1>4. ViewsSound'
  BY <1>1, SameTypes DEF SessionsInv, ViewsSound
<1> QED
  BY <1>1, <1>2, <1>3, <1>4 DEF SessionsInv

\* Every step of a process keeps the invariant.
LEMMA NextSound ==
  ASSUME SessionsInv, Next
  PROVE  SessionsInv'
<1>1. CASE Finished
  BY <1>1, Unchanged DEF Finished
<1>2. ASSUME NEW p \in Processes, Start(p) \/ Ensure(p) \/ Run(p) \/ Crash(p)
      PROVE  SessionsInv'
  <2>1. CASE Start(p) \/ Probe(p) \/ EndUpgrade(p) \/ Drop(p) \/ Crash(p)
    BY <2>1, QuietStepSound
  <2>2. CASE CreateLedger(p)
    BY <2>2, CreateSound
  <2>3. CASE BeginUpgrade(p) \/ Begin(p)
    BY <2>3, BeginsSound
  <2>4. CASE Rename(p) \/ CreateCurrent(p) \/ CopyRows(p) \/ DropLegacy(p)
    BY <2>4, RebuildSound
  <2>5. CASE CommitUpgrade(p) \/ Commit(p)
    BY <2>5, CommitsSound
  <2>6. CASE ReadLedger(p)
    BY <2>6, ReadLedgerSound
  <2>7. CASE Apply(p)
    BY <2>7, ApplySound
  <2>8. CASE Record(p)
    BY <2>8, RecordSound
  <2> QED
    BY <1>2, <2>1, <2>2, <2>3, <2>4, <2>5, <2>6, <2>7, <2>8 DEF Ensure, Run
<1> QED
  BY <1>1, <1>2 DEF Next

\* The database a scenario begins with.
LEMMA InitSound ==
  ASSUME Init
  PROVE  SessionsInv
<1>1. PICK chosen \in Scenarios, dialect \in Dialects :
        scenario = [plan |-> chosen.plan, statements |-> chosen.statements, ledger |-> chosen.ledger,
                    legacy |-> chosen.legacy, dialect |-> dialect]
  BY DEF Init
<1>2. /\ scenario.plan = chosen.plan /\ scenario.statements = chosen.statements
      /\ scenario.ledger = chosen.ledger /\ scenario.legacy = chosen.legacy
      /\ scenario.dialect \in {"sqlite", "postgres"}
  BY <1>1, DialectsAssumption
<1>3. WellFormed(scenario)
  BY <1>2, ScenariosAssumption DEF WellFormed
<1>4. 1 \in Steps
  BY <1>3 DEF Steps, WellFormed
<1>5. LegacyRows \in SUBSET Row /\ IsFiniteSet(LegacyRows)
  <2> DEFINE h == scenario.legacy
             entry == [i \in 1 .. Len(h) |-> [namespace |-> "", id |-> i - 1, hash |-> h[i]]]
  <2>1. h \in Seq(Range(h)) /\ Len(h) \in Nat
    BY <1>3 DEF WellFormed
  <2>2. LegacyRows = {[namespace |-> "", id |-> i - 1, hash |-> h[i]] : i \in 1 .. Len(h)}
    BY DEF LegacyRows, Lines
  <2>3. \A i \in 1 .. Len(h) : [namespace |-> "", id |-> i - 1, hash |-> h[i]] \in Row
    BY <2>1 DEF Row, Names, Hashes
  <2>4. entry \in Surjection(1 .. Len(h), LegacyRows)
    BY <2>2 DEF Surjection
  <2>5. IsFiniteSet(1 .. Len(h))
    BY <2>1, FS_Interval
  <2> HIDE DEF h, entry
  <2>6. IsFiniteSet(LegacyRows)
    BY <2>4, <2>5, FS_Surjection
  <2> QED
    BY <2>2, <2>3, <2>6
<1>6. db \in Database /\ Finite(db)
  <2>1. db.applied \in [Migration \X Steps -> Nat]
    BY DEF Init
  <2>2. /\ db = [ledger |-> scenario.ledger, rows |-> LegacyRows, renamed |-> {},
                 applied |-> db.applied]
    BY DEF Init
  <2>3. scenario.ledger \in {"absent", "legacy", "current"}
    BY <1>3 DEF WellFormed
  <2>4. db.rows = LegacyRows /\ db.renamed = {}
    BY <2>2
  <2>5. db \in Database
    BY <1>5, <2>1, <2>2, <2>3 DEF Database
  <2> QED
    BY <1>5, <2>4, <2>5, FS_EmptySet DEF Finite
<1>7. \A p \in Processes : conn[p] = Link("none", "none", db)
  BY DEF Init, Link
<1>8. DataParts
  <2>1. \A q \in Processes : LinkSound(conn[q], db)
    BY <1>6, <1>7 DEF LinkSound, Link, Connection
  <2>2. \A q, r \in Processes : PairSound(conn[q], conn[r])
    BY <1>7 DEF PairSound, Link, Writing
  <2>3. conn = [q \in Processes |-> conn[q]]
    BY DEF Init
  <2> QED
    BY <1>6, <2>1, <2>2, <2>3 DEF DataParts
<1>9. Shaped
  BY DEF Init, Shaped
<1>10. \A p \in Processes : PlaceSound(p)
  <2> TAKE p \in Processes
  <2>1. /\ pc[p] = "idle" /\ set[p] = 1 /\ idx[p] = 0 /\ step[p] = 1
        /\ result[p] = "none" /\ runs[p] = 0
    BY DEF Init
  <2> QED
    BY <1>4, <2>1, RunsAssumption DEF PlaceSound
<1>11. \A p \in Processes : HoldsSound(p)
  BY <1>7 DEF Init, HoldsSound, Link, Upgrading, Migrating
<1>12. SessionsParts
  BY <1>2, <1>3, <1>8, <1>9, <1>10, <1>11, DataInvIs DEF SessionsParts
<1> QED
  BY <1>12, SessionsInvIs

\* At every moment, whatever the processes bring and however their statements interleave,
\* fail or crash: the types, the place of each process and the transaction and the locks
\* it has there; one process writes the SQLite file, one rebuilds the ledger of PostgreSQL;
\* who has not written reads what is committed, who has written at least that; and every
\* transaction of run finds a ledger (run, ensure_migrations_table).
THEOREM SessionsInvariant == Spec => []SessionsInv
<1>1. Init => SessionsInv
  BY InitSound
<1>2. SessionsInv /\ [Next]_vars => SessionsInv'
  <2> SUFFICES ASSUME SessionsInv, [Next]_vars PROVE SessionsInv'
    OBVIOUS
  <2>1. CASE Next
    BY <2>1, NextSound
  <2>2. CASE UNCHANGED vars
    BY <2>2, Unchanged
  <2> QED
    BY <2>1, <2>2
<1> QED
  BY <1>1, <1>2, PTL DEF Spec

\* So each variable keeps its type.
THEOREM MigratorTypes == Spec => []TypeOK
<1>1. SessionsInv => TypeOK
  BY DEF SessionsInv
<1> QED
  BY <1>1, SessionsInvariant, PTL
=============================================================================
