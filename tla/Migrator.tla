------------------------------ MODULE Migrator ------------------------------
(***************************************************************************)
(* Migrator::run, ensure_migrations_table and apply_pending, run by        *)
(* processes that share one database.  Each process has a connection of    *)
(* its own and waits for every statement, so that a step of this module is *)
(* one statement of one process; between two of them other processes       *)
(* execute theirs, fail, or crash.                                         *)
(*                                                                         *)
(* A SQLite file is in the default journal mode and the code sets no busy  *)
(* timeout: a connection that has read in its transaction keeps others     *)
(* from committing, one that has written keeps others from writing, and    *)
(* who is kept out gets SQLITE_BUSY at once.                               *)
(*                                                                         *)
(* PostgreSQL runs each statement on what is committed by then and what    *)
(* its transaction has done itself.  Transactions of several processes go  *)
(* on together and wait for each other: at the ledger, which the upgrade   *)
(* locks exclusively, at the creation of the same table, and at the same   *)
(* key of the ledger.                                                      *)
(***************************************************************************)
EXTENDS SqlSession, Naturals, Sequences, FiniteSets, SequencesExt

CONSTANTS
  Processes,
  Scenarios,      \* what the processes bring and find, a set of records
                  \*   plan        plan[p]: the SchemaSets p applies, a sequence of
                  \*               [name, migrations], the migrations a sequence of hashes
                  \*   statements  how many a migration has before its ledger entry
                  \*   ledger      "absent", "legacy" or "current"
                  \*   legacy      the hashes an older release has left in it, in order
  Repeatable,     \* the hashes of migrations whose statements succeed again (raw SQL)
  ProbeReliable,  \* TRUE: the probe of the column fails only when there is none
  MaxRuns         \* bound: how often a process starts

\* A scenario is one the program can meet: histories are sequences, a migration has a
\* statement, and there are no rows without a table.
WellFormed(s) ==
  /\ \A p \in Processes :
       /\ s.plan[p] \in Seq(Range(s.plan[p]))
       /\ \A f \in Range(s.plan[p]) : f.migrations \in Seq(Range(f.migrations))
  /\ s.statements \in Nat \ {0}
  /\ s.ledger \in {"absent", "legacy", "current"}
  /\ s.legacy \in Seq(Range(s.legacy))
  /\ s.ledger = "absent" => s.legacy = <<>>

ASSUME ScenariosAssumption == \A s \in Scenarios : WellFormed(s)
ASSUME RunsAssumption == MaxRuns \in Nat

VARIABLES
  scenario, \* which of the scenarios this is, and the dialect of the database
  db,       \* what the database holds
  conn,     \* conn[p]: the transaction, the locks and the view of p
  pc,       \* pc[p]: the statement p executes next
  set,      \* set[p]: the SchemaSet p is at
  idx,      \* idx[p]: the migration of it p applies, counted from 0
  step,     \* step[p]: the statement of that migration
  result,   \* result[p]: what the last run of p returned
  runs      \* runs[p]: how often p was started

vars == <<scenario, db, conn, pc, set, idx, step, result, runs>>

-----------------------------------------------------------------------------
Plan == scenario.plan

Fragments == UNION {Range(Plan[p]) : p \in Processes}

\* The migrations p brings, by namespace and hash, and those somebody brings.
Brought(p) == UNION {{<<f.name, h>> : h \in Range(f.migrations)} : f \in Range(Plan[p])}
Known == UNION {Brought(p) : p \in Processes}

Hashes == Range(scenario.legacy) \cup {m[2] : m \in Known}

Names == {""} \cup {m[1] : m \in Known}

Row == [namespace : Names, id : Nat, hash : Hashes]

\* The legacy migrations belong to the default namespace.
Migration == {<<"", h>> : h \in Range(scenario.legacy)} \cup Known

Steps == 1 .. scenario.statements

\* ledger   whether __migrations exists, and with which columns
\* rows     its rows (a legacy row has no namespace; "" stands for that)
\* renamed  the rows of __migrations_legacy
\* applied  how often each statement of each migration has been executed
Database == [ledger : {"absent", "legacy", "current"},
             rows : SUBSET Row,
             renamed : SUBSET Row,
             applied : [Migration \X Steps -> Nat]]

Statement == {"create_ledger", "probe", "begin_upgrade", "rename", "create", "copy", "drop_legacy",
              "commit_upgrade", "end_upgrade", "begin", "read", "apply", "record", "commit", "drop"}

TypeOK ==
  /\ db \in Database
  /\ conn \in [Processes -> [txn : {"none", "open", "failed"},
                             lock : {"none", "shared", "written", "exclusive"},
                             view : Database]]
  /\ pc \in [Processes -> Statement \cup {"idle"}]
  /\ set \in [Processes -> Nat]
  /\ idx \in [Processes -> Nat]
  /\ step \in [Processes -> Steps]
  /\ result \in [Processes -> {"none", "ok", "err", "panic", "crashed"}]
  /\ runs \in [Processes -> 0 .. MaxRuns]

\* The first n entries of a history in the ledger, and the ledger of a namespace.
Lines(name, hashes, n) ==
  {[namespace |-> name, id |-> i - 1, hash |-> hashes[i]] : i \in 1 .. n}

Of(rows, name) == {r \in rows : r.namespace = name}

LegacyRows == Lines("", scenario.legacy, Len(scenario.legacy))

Init ==
  /\ \E chosen \in Scenarios, dialect \in Dialects :
       scenario = [plan |-> chosen.plan, statements |-> chosen.statements, ledger |-> chosen.ledger,
                   legacy |-> chosen.legacy, dialect |-> dialect]
  /\ db = [ledger |-> scenario.ledger, rows |-> LegacyRows, renamed |-> {},
           applied |-> [e \in Migration \X Steps |->
                          IF e[1][1] = "" /\ e[1][2] \in Range(scenario.legacy) THEN 1 ELSE 0]]
  /\ conn = [p \in Processes |-> [txn |-> "none", lock |-> "none", view |-> db]]
  /\ pc = [p \in Processes |-> "idle"]
  /\ set = [p \in Processes |-> 1]
  /\ idx = [p \in Processes |-> 0]
  /\ step = [p \in Processes |-> 1]
  /\ result = [p \in Processes |-> "none"]
  /\ runs = [p \in Processes |-> 0]

-----------------------------------------------------------------------------
(* The database *)

\* What p reads: what is committed until it holds a lock, then its own view.
View(p) == IF conn[p].lock = "none" THEN db ELSE conn[p].view

Session(p) ==
  [dialect |-> scenario.dialect, txn |-> conn[p].txn, durable |-> db, working |-> View(p)]

Others(p) == Processes \ {p}

Wrote(q) == conn[q].lock \in {"written", "exclusive"}

\* A write to the SQLite file needs it alone: no other connection has written and, when
\* it commits at once, none has read.  So does the commit of what was written.
FileBusy(p) ==
  /\ scenario.dialect = "sqlite"
  /\ \E q \in Others(p) : Wrote(q) \/ (conn[p].txn = "none" /\ conn[q].lock # "none")

CommitBusy(p) ==
  /\ scenario.dialect = "sqlite"
  /\ Wrote(p)
  /\ \E q \in Others(p) : conn[q].lock # "none"

\* What PostgreSQL waits for: the end of a transaction that rebuilds the ledger; for the
\* rebuilding, the end of every transaction that has read it.
LedgerLocked(p) ==
  scenario.dialect = "postgres" /\ \E q \in Others(p) : conn[q].lock = "exclusive"

LedgerInUse(p) ==
  scenario.dialect = "postgres" /\ \E q \in Others(p) : conn[q].lock # "none"

\* The end of one that has executed the same DDL, and of one that has inserted the same key.
StatementPending(p, e) ==
  /\ scenario.dialect = "postgres"
  /\ \E q \in Others(p) : View(q).applied[e] > db.applied[e]

KeyTaken(rows, row) == \E r \in rows : r.namespace = row.namespace /\ r.id = row.id

KeyPending(p, row) ==
  /\ scenario.dialect = "postgres"
  /\ \E q \in Others(p) : KeyTaken(View(q).rows \ db.rows, row)

\* The statement is refused; it would poison a PostgreSQL transaction.
Refused(p) == {o \in StatementOutcomes(Session(p), View(p)) : o.reply = "err"}

RefusedAtOnce(p) ==
  {Outcome([Session(p) EXCEPT !.txn = IF @ = "open" /\ scenario.dialect = "postgres"
                                        THEN "failed" ELSE @], "err")}

\* A statement that reads, and one that turns the view of p into "after" when it is
\* possible at all.  One that waits does not happen yet; the deadlock detector or the
\* server may end its wait with an error.
ReadOutcomes(p, waits) ==
  IF waits THEN Refused(p) ELSE StatementOutcomes(Session(p), View(p))

WriteOutcomes(p, waits, possible, after) ==
  IF waits THEN Refused(p)
  ELSE IF FileBusy(p) \/ ~possible THEN RefusedAtOnce(p)
  ELSE StatementOutcomes(Session(p), after)

CommitOutcome(p) ==
  IF CommitBusy(p) THEN {Outcome(Session(p), "err")} ELSE CommitOutcomes(Session(p))

\* The connection of p after outcome o of a statement that takes the given lock.
Lock(p, o, lock) ==
  IF o.session.txn = "none" THEN "none"
  ELSE IF o.reply = "err" \/ conn[p].lock = "exclusive" THEN conn[p].lock
  ELSE IF conn[p].lock = "written" /\ lock = "shared" THEN "written"
  ELSE lock

\* The connection of another process when "committed" becomes what the database holds:
\* what its transaction has done itself stays on top.  Who rebuilds the ledger keeps
\* everybody else from committing to it.
Rebased(q, committed) ==
  LET v == conn[q].view
  IN  [conn[q] EXCEPT !.view =
         IF conn[q].lock = "none" THEN committed
         ELSE IF conn[q].lock = "exclusive" THEN v
         ELSE [ledger |-> v.ledger,
               rows |-> committed.rows \cup (v.rows \ db.rows),
               renamed |-> v.renamed,
               applied |-> [e \in DOMAIN v.applied |->
                              committed.applied[e] + (v.applied[e] - db.applied[e])]]]

\* The connections after outcome o of a statement of p.
Connections(p, o, lock) ==
  [q \in Processes |->
     IF q = p THEN [txn |-> o.session.txn, lock |-> Lock(p, o, lock),
                    view |-> IF o.session.txn = "none" THEN o.session.durable ELSE o.session.working]
              ELSE Rebased(q, o.session.durable)]

\* p executes a statement: on Ok it goes on at "next"; an error is handed up by `?`,
\* which drops the Transaction if there is one.
Do(p, outcomes, lock, next) ==
  \E o \in outcomes :
    /\ db' = o.session.durable
    /\ conn' = Connections(p, o, lock)
    /\ pc' = [pc EXCEPT ![p] =
                 IF o.reply = "ok" THEN next
                 ELSE IF @ \in {"create_ledger", "begin_upgrade", "begin"} THEN "idle"
                 ELSE "drop"]
    /\ result' = IF o.reply = "ok" THEN result ELSE [result EXCEPT ![p] = "err"]
    /\ UNCHANGED scenario

At(p, label) == pc[p] = label

position == <<set, idx, step>>

-----------------------------------------------------------------------------
(* ensure_migrations_table *)

\* CREATE TABLE IF NOT EXISTS writes only when the table is missing.
CreateLedger(p) ==
  /\ At(p, "create_ledger")
  /\ IF View(p).ledger = "absent"
       THEN Do(p, WriteOutcomes(p, FALSE, TRUE, [View(p) EXCEPT !.ledger = "current"]), "none", "probe")
       ELSE Do(p, ReadOutcomes(p, FALSE), "none", "probe")
  /\ UNCHANGED <<position, runs>>

\* SELECT namespace FROM __migrations: any error means that an upgrade is needed.
Probe(p) ==
  /\ At(p, "probe")
  /\ ~LedgerLocked(p)
  /\ \E failed \in {View(p).ledger # "current"} \cup (IF ProbeReliable THEN {} ELSE {TRUE}) :
       pc' = [pc EXCEPT ![p] = IF failed THEN "begin_upgrade" ELSE "begin"]
  /\ UNCHANGED <<scenario, db, conn, position, result, runs>>

BeginUpgrade(p) ==
  /\ At(p, "begin_upgrade")
  /\ Do(p, BeginOutcomes(Session(p)), "none", "rename")
  /\ UNCHANGED <<position, runs>>

\* ALTER TABLE __migrations RENAME TO __migrations_legacy
Rename(p) ==
  /\ At(p, "rename")
  /\ Do(p, WriteOutcomes(p, LedgerInUse(p), View(p).ledger # "absent",
                         [ledger |-> "absent", rows |-> {}, renamed |-> View(p).rows,
                          applied |-> View(p).applied]),
        "exclusive", "create")
  /\ UNCHANGED <<position, runs>>

CreateCurrent(p) ==
  /\ At(p, "create")
  /\ Do(p, WriteOutcomes(p, FALSE, View(p).ledger = "absent", [View(p) EXCEPT !.ledger = "current"]),
        "exclusive", "copy")
  /\ UNCHANGED <<position, runs>>

\* Slip: the rows of the old ledger are not copied.
FlattenedNone(rows) == {}

\* INSERT INTO __migrations SELECT '', id, hash FROM __migrations_legacy: every row goes
\* to the default namespace.
Flattened(rows) == {[r EXCEPT !.namespace = ""] : r \in rows}

UniqueIds(rows) == \A r, t \in rows : r.id = t.id => r = t

CopyRows(p) ==
  /\ At(p, "copy")
  /\ Do(p, WriteOutcomes(p, FALSE, UniqueIds(View(p).renamed),
                         [View(p) EXCEPT !.rows = Flattened(View(p).renamed)]),
        "exclusive", "drop_legacy")
  /\ UNCHANGED <<position, runs>>

DropLegacy(p) ==
  /\ At(p, "drop_legacy")
  /\ Do(p, WriteOutcomes(p, FALSE, TRUE, [View(p) EXCEPT !.renamed = {}]), "exclusive", "commit_upgrade")
  /\ UNCHANGED <<position, runs>>

CommitUpgrade(p) ==
  /\ At(p, "commit_upgrade")
  /\ Do(p, CommitOutcome(p), "none", "end_upgrade")
  /\ UNCHANGED <<position, runs>>

\* The ROLLBACK that the drop of a Transaction queues; it ends the transaction of p.
Ended(p) == [conn EXCEPT ![p] = [txn |-> "none", lock |-> "none", view |-> db]]

EndUpgrade(p) ==
  /\ At(p, "end_upgrade")
  /\ conn' = Ended(p)
  /\ pc' = [pc EXCEPT ![p] = "begin"]
  /\ UNCHANGED <<scenario, db, position, result, runs>>

-----------------------------------------------------------------------------
(* run, apply_pending *)

Fragment(p) == Plan[p][set[p]]
Hash(p) == Fragment(p).migrations[idx[p] + 1]
\* Slip: the next fragment starts with a transaction of its own.
SetAfterCommit(p) == "commit"

SetAfter(p) == IF set[p] < Len(Plan[p]) THEN "read" ELSE "commit"

\* Slip: the migrations run in autocommit.
BeginNothing(p) ==
  /\ At(p, "begin")
  /\ pc' = [pc EXCEPT ![p] = IF Plan[p] = <<>> THEN "commit" ELSE "read"]
  /\ UNCHANGED <<scenario, db, conn, position, result, runs>>

Begin(p) ==
  /\ At(p, "begin")
  /\ Do(p, BeginOutcomes(Session(p)), "none", IF Plan[p] = <<>> THEN "commit" ELSE "read")
  /\ UNCHANGED <<position, runs>>

\* SELECT hash ... WHERE namespace = ? ORDER BY id: what counts is the order of the
\* ids, not the ids.
Ledger(rows, name) ==
  LET mine == Of(rows, name)
      Nth(n) == CHOOSE r \in mine : Cardinality({t \in mine : t.id < r.id}) = n - 1
  IN  [n \in 1 .. Cardinality(mine) |-> Nth(n).hash]

\* Slip: the histories are not compared.
MismatchedNever(existing, migrations) == FALSE

Mismatched(existing, migrations) ==
  \E n \in DOMAIN existing \cap DOMAIN migrations : existing[n] # migrations[n]

\* Slip: a namespace that has a ledger is taken to be complete.
UpToDateOnceApplied(existing, migrations) == existing # <<>>

UpToDate(existing, migrations) == Len(existing) >= Len(migrations)

\* The SELECT of apply_pending, with the comparison: a history that differs panics, and
\* the unwinding drops the Transaction.
ReadLedger(p) ==
  /\ At(p, "read")
  /\ LET existing == Ledger(View(p).rows, Fragment(p).name)
         migrations == Fragment(p).migrations
     IN  \/ /\ Mismatched(existing, migrations)
            /\ ~LedgerLocked(p)
            /\ pc' = [pc EXCEPT ![p] = "drop"]
            /\ result' = [result EXCEPT ![p] = "panic"]
            /\ UNCHANGED <<scenario, db, conn, position>>
         \/ /\ ~Mismatched(existing, migrations)
            /\ UpToDate(existing, migrations)
            /\ Do(p, ReadOutcomes(p, LedgerLocked(p)), "shared", SetAfter(p))
            /\ set' = [set EXCEPT ![p] = @ + 1]
            /\ UNCHANGED <<idx, step>>
         \/ /\ ~Mismatched(existing, migrations)
            /\ ~UpToDate(existing, migrations)
            /\ Do(p, ReadOutcomes(p, LedgerLocked(p)), "shared", "apply")
            /\ idx' = [idx EXCEPT ![p] = Len(existing)]
            /\ step' = [step EXCEPT ![p] = 1]
            /\ UNCHANGED set
  /\ UNCHANGED runs

\* Slip: the counter of the statements is not reset after the last one.
ApplyRunsOn(p) ==
  /\ At(p, "apply")
  /\ LET e == <<<<Fragment(p).name, Hash(p)>>, step[p]>>
     IN  Do(p, WriteOutcomes(p, Hash(p) \notin Repeatable /\ StatementPending(p, e),
                            Hash(p) \in Repeatable \/ View(p).applied[e] = 0,
                            [View(p) EXCEPT !.applied[e] = @ + 1]),
            "written", IF step[p] < scenario.statements THEN "apply" ELSE "record")
  /\ step' = [step EXCEPT ![p] = @ + 1]
  /\ UNCHANGED <<set, idx, runs>>

\* A statement of the migration: its tables, its alters and its raw queries, in order.
Apply(p) ==
  /\ At(p, "apply")
  /\ LET e == <<<<Fragment(p).name, Hash(p)>>, step[p]>>
     IN  Do(p, WriteOutcomes(p, Hash(p) \notin Repeatable /\ StatementPending(p, e),
                            Hash(p) \in Repeatable \/ View(p).applied[e] = 0,
                            [View(p) EXCEPT !.applied[e] = @ + 1]),
            "written", IF step[p] < scenario.statements THEN "apply" ELSE "record")
  /\ step' = [step EXCEPT ![p] = IF @ < scenario.statements THEN @ + 1 ELSE 1]
  /\ UNCHANGED <<set, idx, runs>>

\* Slip: the ledger counts from 1.
EntryFromOne(p) == [namespace |-> Fragment(p).name, id |-> idx[p] + 1, hash |-> Hash(p)]

Entry(p) == [namespace |-> Fragment(p).name, id |-> idx[p], hash |-> Hash(p)]

\* INSERT INTO __migrations, under the primary key (namespace, id).
Record(p) ==
  /\ At(p, "record")
  /\ LET last == idx[p] + 1 = Len(Fragment(p).migrations)
     IN  /\ Do(p, WriteOutcomes(p, KeyPending(p, Entry(p)), ~KeyTaken(View(p).rows, Entry(p)),
                                [View(p) EXCEPT !.rows = @ \cup {Entry(p)}]),
               "written", IF last THEN SetAfter(p) ELSE "apply")
         /\ set' = IF last THEN [set EXCEPT ![p] = @ + 1] ELSE set
         /\ idx' = [idx EXCEPT ![p] = @ + 1]
  /\ UNCHANGED <<step, runs>>

\* transaction.commit(), whose Ok is the Ok of run.
Commit(p) ==
  /\ At(p, "commit")
  /\ \E o \in CommitOutcome(p) :
       /\ db' = o.session.durable
       /\ conn' = Connections(p, o, "none")
       /\ result' = [result EXCEPT ![p] = o.reply]
  /\ pc' = [pc EXCEPT ![p] = "drop"]
  /\ UNCHANGED <<scenario, position, runs>>

\* The Transaction of run is dropped: after the commit, by `?`, or by the panic.
Drop(p) ==
  /\ At(p, "drop")
  /\ conn' = Ended(p)
  /\ pc' = [pc EXCEPT ![p] = "idle"]
  /\ UNCHANGED <<scenario, db, position, result, runs>>

-----------------------------------------------------------------------------
\* A process starts, or starts again after a failure, a crash or a success.
Start(p) ==
  /\ At(p, "idle")
  /\ runs[p] < MaxRuns
  /\ runs' = [runs EXCEPT ![p] = @ + 1]
  /\ pc' = [pc EXCEPT ![p] = "create_ledger"]
  /\ result' = [result EXCEPT ![p] = "none"]
  /\ set' = [set EXCEPT ![p] = 1]
  /\ idx' = [idx EXCEPT ![p] = 0]
  /\ step' = [step EXCEPT ![p] = 1]
  /\ UNCHANGED <<scenario, db, conn>>

\* A process dies; the next connection finds the file without what it had not committed.
Crash(p) ==
  /\ ~At(p, "idle")
  /\ conn' = Ended(p)
  /\ pc' = [pc EXCEPT ![p] = "idle"]
  /\ result' = [result EXCEPT ![p] = "crashed"]
  /\ UNCHANGED <<scenario, db, position, runs>>

Ensure(p) ==
  \/ CreateLedger(p) \/ Probe(p) \/ BeginUpgrade(p) \/ Rename(p) \/ CreateCurrent(p)
  \/ CopyRows(p) \/ DropLegacy(p) \/ CommitUpgrade(p) \/ EndUpgrade(p)

Run(p) == Begin(p) \/ ReadLedger(p) \/ Apply(p) \/ Record(p) \/ Commit(p) \/ Drop(p)

Finished ==
  /\ \A p \in Processes : At(p, "idle") /\ runs[p] = MaxRuns
  /\ UNCHANGED vars

Next == (\E p \in Processes : Start(p) \/ Ensure(p) \/ Run(p) \/ Crash(p)) \/ Finished

Spec == Init /\ [][Next]_vars

-----------------------------------------------------------------------------
\* The schema and the ledger agree in the file: a migration is recorded exactly when all
\* of its statements have been executed, once (apply_pending inside the transaction of
\* run).
Recorded(rows, m) == \E r \in rows : r.namespace = m[1] /\ r.hash = m[2]

AppliedOnceAndRecorded ==
  \A m \in Migration, k \in Steps :
    db.applied[<<m, k>>] = IF Recorded(db.rows, m) THEN 1 ELSE 0

\* The ledger of a namespace is a beginning of the history some process brings, or the
\* legacy one, under the ids 0, 1, 2, ...
LedgerIsHistory ==
  \A name \in Names :
    /\ {r.id : r \in Of(db.rows, name)} =
         {i - 1 : i \in DOMAIN Ledger(db.rows, name)}
    /\ \/ name = "" /\ Ledger(db.rows, name) = scenario.legacy
       \/ \E f \in Fragments : f.name = name /\ IsPrefix(Ledger(db.rows, name), f.migrations)
       \/ Ledger(db.rows, name) = <<>>

\* After run returned Ok everything the process brought is in the ledger, whatever the
\* other processes have done since.
OkMeansApplied ==
  \A p \in Processes :
    result[p] = "ok" =>
      \A f \in Range(Plan[p]) : IsPrefix(f.migrations, Ledger(db.rows, f.name))

\* Each namespace keeps its history: no step, the upgrade of a legacy ledger included,
\* loses an entry.
HistoryKept == [][db.rows \subseteq db'.rows]_vars

\* The fragments of a process arrive together: what a step adds to the ledger is brought
\* by one process, and with it everything that process brings is there (the transaction
\* of run spans all of its fragments).
AllSetsTogether ==
  [][LET added == db'.rows \ db.rows
     IN  added # {} =>
           \E p \in Processes :
             /\ \A r \in added : <<r.namespace, r.hash>> \in Brought(p)
             /\ \A f \in Range(Plan[p]) : IsPrefix(f.migrations, Ledger(db'.rows, f.name))]_vars

-----------------------------------------------------------------------------
(* Why: what is true at every moment, whatever the processes bring *)

Upgrading == {"rename", "create", "copy", "drop_legacy", "commit_upgrade"}
Migrating == {"read", "apply", "record", "commit"}

Positions ==
  \A p \in Processes :
    /\ set[p] >= 1
    /\ pc[p] \notin Migrating \cup {"drop", "idle"} => set[p] = 1
    /\ pc[p] \in {"read", "apply", "record"} => set[p] \in DOMAIN Plan[p]
    /\ pc[p] \in {"apply", "record"} => idx[p] + 1 \in DOMAIN Fragment(p).migrations
    /\ pc[p] = "record" => step[p] = 1

RowsFinite ==
  /\ IsFiniteSet(db.rows) /\ IsFiniteSet(db.renamed)
  /\ \A p \in Processes : IsFiniteSet(conn[p].view.rows) /\ IsFiniteSet(conn[p].view.renamed)

\* Where a process is tells which transaction and lock it has.
ConnSound ==
  \A p \in Processes :
    LET at(labels) == pc[p] \in labels
        lock == conn[p].lock
    IN  /\ at({"idle", "create_ledger", "probe", "begin_upgrade", "end_upgrade", "begin"}) =>
             conn[p].txn = "none"
        /\ conn[p].txn = "none" => lock = "none"
        /\ at(Upgrading \cup Migrating) => conn[p].txn = "open"
        /\ at({"rename"}) => lock = "none"
        /\ at(Upgrading \ {"rename"}) => lock = "exclusive"
        /\ at(Migrating) => lock # "exclusive"
        /\ at({"apply"}) => lock # "none"
        /\ at({"record"}) => lock = "written"

\* One process writes at a time in SQLite; in PostgreSQL one that rebuilds the ledger has
\* it for itself.
LocksSound ==
  \A p, q \in Processes : p # q =>
    /\ scenario.dialect = "sqlite" => ~(Wrote(p) /\ Wrote(q))
    /\ scenario.dialect = "postgres" /\ conn[p].lock = "exclusive" => conn[q].lock = "none"

\* Who has not written reads what is committed, who has written at least that.
ViewsSound ==
  \A p \in Processes :
    LET v == conn[p].view
    IN  /\ conn[p].lock \in {"none", "shared"} => v = db
        /\ conn[p].lock = "written" =>
             /\ v.ledger = db.ledger
             /\ v.renamed = db.renamed
             /\ db.rows \subseteq v.rows
             /\ \A e \in Migration \X Steps : v.applied[e] >= db.applied[e]

LedgerThere ==
  \A p \in Processes :
    /\ pc[p] \notin {"idle", "create_ledger", "drop"} \/ conn[p].lock # "none" =>
         db.ledger # "absent"
    /\ pc[p] \in {"copy", "drop_legacy", "commit_upgrade"} => conn[p].view.ledger = "current"

SessionsInv ==
  /\ WellFormed(scenario)
  /\ scenario.dialect \in {"sqlite", "postgres"}
  /\ TypeOK
  /\ Positions
  /\ RowsFinite
  /\ ConnSound
  /\ LocksSound
  /\ ViewsSound
  /\ LedgerThere

-----------------------------------------------------------------------------
(* Why the ledger is a history, where an upgrade happens only to a legacy ledger, which *)
(* has rows, and nobody brings a migration twice in one fragment                         *)

Regular(s) ==
  /\ s.ledger = "legacy" => s.legacy # <<>>
  /\ \A p \in Processes : \A f \in Range(s.plan[p]) :
       IsInjective(f.migrations)

\* Each namespace holds the beginning of a history.
Begun(lines, name) ==
  \/ lines = {}
  \/ name = "" /\ lines = LegacyRows
  \/ \E f \in Fragments : \E n \in DOMAIN f.migrations :
       f.name = name /\ lines = Lines(name, f.migrations, n)

Laid(rows) == \A name \in Names : Begun(Of(rows, name), name)

Arrived(f, rows) == Lines(f.name, f.migrations, Len(f.migrations)) \subseteq rows

\* What p has added and not committed.
Own(p) == conn[p].view.rows \ db.rows

\* The upgrade changes nothing but the form of the ledger.
UpgradeSound(p) ==
  LET v == conn[p].view
  IN  /\ pc[p] \in Upgrading \cup {"begin_upgrade"} => scenario.ledger = "legacy"
      /\ pc[p] \in Upgrading => v.applied = db.applied
      /\ pc[p] \in {"create", "copy"} => v.rows = {}
      /\ pc[p] \in {"create", "copy", "drop_legacy"} => v.renamed = db.rows
      /\ pc[p] \in {"drop_legacy", "commit_upgrade"} =>
           UniqueIds(db.rows) /\ v.rows = Flattened(db.rows)
      /\ pc[p] = "commit_upgrade" => v.renamed = {}

\* The statements of the current migration that p has executed and not recorded.
Half(p, m, k) ==
  /\ pc[p] \in {"apply", "record"}
  /\ m = <<Fragment(p).name, Hash(p)>>
  /\ pc[p] = "apply" => k < step[p]

Counts(p) ==
  \A m \in Migration, k \in Steps :
    conn[p].view.applied[<<m, k>>] =
      (IF Recorded(conn[p].view.rows, m) THEN 1 ELSE 0) + (IF Half(p, m, k) THEN 1 ELSE 0)

\* p continues the history of its fragment, or somebody has been faster and the entry of p
\* will be refused.
MigrationSound(p) ==
  pc[p] \in Migrating =>
    /\ Counts(p)
    /\ \A n \in 1 .. set[p] - 1 : n \in DOMAIN Plan[p] /\ Arrived(Plan[p][n], conn[p].view.rows)
    /\ \A r \in Own(p) : <<r.namespace, r.hash>> \in Brought(p)
    /\ pc[p] \in {"apply", "record"} =>
         \/ Of(conn[p].view.rows, Fragment(p).name) =
              Lines(Fragment(p).name, Fragment(p).migrations, idx[p])
         \/ KeyTaken(db.rows, Entry(p))
    /\ pc[p] = "commit" => set[p] = Len(Plan[p]) + 1

\* Two processes do not have entries of one namespace at the same time.
NamespacesApart ==
  \A p, q \in Processes :
    p # q /\ conn[p].lock = "written" /\ conn[q].lock = "written" =>
      \A r \in Own(p), t \in Own(q) : r.namespace # t.namespace

DatabaseSound ==
  /\ LegacyRows \subseteq db.rows
  /\ db.renamed = {}
  /\ scenario.ledger # "legacy" => db.ledger # "legacy"
  /\ Laid(db.rows)
  /\ AppliedOnceAndRecorded
  /\ \A p \in Processes :
       result[p] = "ok" => \A f \in Range(Plan[p]) : Arrived(f, db.rows)

HistoryInv ==
  /\ SessionsInv
  /\ Regular(scenario)
  /\ DatabaseSound
  /\ \A p \in Processes : conn[p].lock = "written" => Laid(conn[p].view.rows)
  /\ \A p \in Processes : UpgradeSound(p) /\ MigrationSound(p)
  /\ NamespacesApart
=============================================================================
