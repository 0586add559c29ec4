---------------------------- MODULE VectorRepair ----------------------------
(***************************************************************************)
(* repair_legacy_vector_column: a column that an older release declared as *)
(* bytes becomes a vector column, and the ledger entry of the migration    *)
(* that declared it gets the hash of the present declaration.              *)
(*                                                                         *)
(* A step is one statement of one process.  The copies are written to a    *)
(* helper column in autocommit; only the exchange of the two columns is a  *)
(* transaction.  Processes repair, fail, die and try again beside each     *)
(* other and beside the application, which goes on writing vectors.        *)
(*                                                                         *)
(* On PostgreSQL the exchange locks the table until its transaction ends,  *)
(* and who needs the table waits.  On SQLite there is nothing to convert.  *)
(***************************************************************************)
EXTENDS SqlSession, Naturals, FiniteSets, Functions, SequencesExt

CONSTANTS
  Processes,
  Ids,            \* the rows of the table
  Columns,        \* its vector columns
  Vectors,        \* the vectors an application stores
  Contents,       \* what the columns may hold before the repair
  Jobs,           \* the ways to divide the work: job[p] is the sequence of columns p repairs
  History,        \* the hashes of the schema's migrations, as this release declares them
  MigrationId,    \* the migration that declares the columns, counted from 0
  LegacyHash,     \* its hash as the older release declared it
  Disciplined,    \* TRUE: the application keeps to WriteIsSafe
  MaxFaults,      \* bound: how many statements fail or processes die
  MaxWrites       \* bound: how often the application writes

Stored == Vectors \cup {"bad", "null"}

ASSUME ContentsAssumption == Contents \subseteq [Columns -> [Ids -> Stored]]
ASSUME VectorsAssumption == Vectors \cap {"bad", "null"} = {}
ASSUME JobsAssumption == Jobs \subseteq [Processes -> Seq(Columns)]
ASSUME BoundsAssumption == MaxFaults \in Nat /\ MaxWrites \in Nat
ASSUME HistoryAssumption == History \in Seq(Range(History))
ASSUME MigrationIdAssumption == MigrationId \in Nat /\ MigrationId + 1 \in DOMAIN History

VARIABLES
  dialect,   \* the database
  table,     \* the table as it is committed
  ledger,    \* __migrations: the hash of each id of the schema's namespace
  conn,      \* conn[p]: the transaction of p, and the table it has in it
  pc,        \* pc[p]: the statement p executes next
  copies,    \* copies[p]: the converted vectors p has still to write
  job,       \* job[p]: the columns p repairs, one after the other
  done,      \* done[p]: how many of them were answered with Ok
  faults,    \* how many faults there were
  writes,    \* how often the application wrote
  truth      \* history: the vector the application has last stored in a row

vars == <<dialect, table, ledger, conn, pc, copies, job, done, faults, writes, truth>>

-----------------------------------------------------------------------------
\* What a row holds in a column: nothing, bytes, or a vector.  "bad" are bytes whose
\* number is not that of whole floats.
Cell(kind, value) == [kind |-> kind, value |-> value]
Null == Cell("null", "null")

Cells == {Null} \cup {Cell("blob", v) : v \in Vectors \cup {"bad"}}
                \cup {Cell("vector", v) : v \in Vectors}

\* columns[c]: its type, "none" if there is no such column, and its cells
\* helper: <<>>, or <<cells>> when there is a column __almostsql_vector_repair
Table == [columns : [Columns -> [type : {"bytea", "vector", "none"}, cells : [Ids -> Cells]]],
          helper : {<<>>} \cup {<<cells>> : cells \in [Ids -> Cells]}]

Statement == {"select_nothing", "extension", "type", "select", "add", "copy", "begin", "drop_column",
              "rename", "commit", "end", "ensure", "lookup", "insert", "update", "return", "drop"}

TypeOK ==
  /\ dialect \in Dialects
  /\ table \in Table
  /\ DOMAIN ledger \subseteq Nat /\ Range(ledger) \subseteq Range(History) \cup {LegacyHash}
  /\ conn \in [Processes -> [txn : {"none", "open", "failed"}, draft : Seq(Table)]]
  /\ pc \in [Processes -> Statement \cup {"idle"}]
  /\ copies \in [Processes -> SUBSET (Ids \X Vectors)]
  /\ job \in Jobs
  /\ done \in [Processes -> Nat] /\ \A p \in Processes : done[p] <= Len(job[p])
  /\ faults \in 0 .. MaxFaults
  /\ writes \in 0 .. MaxWrites
  /\ truth \in [Columns -> [Ids -> Stored]]

LegacyHistory == [History EXCEPT ![MigrationId + 1] = LegacyHash]

\* The ledgers a database may have: the first n migrations of the older release; without
\* the migration that declares the columns there are no columns, unless the ledger counts
\* it under another namespace than the schema's.
LedgerOf(n) == [id \in 0 .. n - 1 |-> LegacyHistory[id + 1]]

Initial(n, type) ==
  /\ ledger = LedgerOf(n)
  /\ table = [columns |-> [c \in Columns |->
                             [type |-> type,
                              cells |-> [i \in Ids |-> IF truth[c][i] = "null" THEN Null
                                                       ELSE Cell("blob", truth[c][i])]]],
              helper |-> <<>>]

Init ==
  /\ dialect \in Dialects
  /\ \/ /\ truth \in Contents
        /\ \E n \in {0} \cup MigrationId + 1 .. Len(History) : Initial(n, "bytea")
     \/ /\ truth = [c \in Columns |-> [i \in Ids |-> "null"]]
        /\ Initial(MigrationId, "none")
  /\ conn = [p \in Processes |-> [txn |-> "none", draft |-> <<>>]]
  /\ pc = [p \in Processes |-> "idle"]
  /\ copies = [p \in Processes |-> {}]
  /\ job \in Jobs
  /\ done = [p \in Processes |-> 0]
  /\ faults = 0
  /\ writes = 0

-----------------------------------------------------------------------------
(* The database *)

\* A transaction that has changed the columns keeps the table to itself.
Locks(q) == conn[q].draft # <<>>

View(p) == IF Locks(p) THEN conn[p].draft[1] ELSE table

Session(p) ==
  [dialect |-> dialect, txn |-> conn[p].txn, durable |-> table, working |-> View(p)]

Free(p) == \A q \in Processes \ {p} : ~Locks(q)

\* What a statement of p answers that makes "after" of its view, when that is possible.
Change(p, possible, after) ==
  IF possible THEN StatementOutcomes(Session(p), after)
  ELSE {Outcome([Session(p) EXCEPT !.txn = IF @ = "none" THEN @ ELSE "failed"], "err")}

Same(p) == StatementOutcomes(Session(p), View(p))

\* p executes a statement: on Ok it goes on at "next"; an error is handed up by `?`, which
\* drops the Transaction if there is one.  A failure nothing in the state explains is a fault.
Do(p, outcomes, next) ==
  \E o \in outcomes :
    /\ table' = o.session.durable
    /\ conn' = [conn EXCEPT ![p] =
                  [txn |-> o.session.txn,
                   draft |-> IF o.session.txn # "none" /\ o.session.working # o.session.durable
                               THEN <<o.session.working>> ELSE <<>>]]
    /\ pc' = [pc EXCEPT ![p] = IF o.reply = "ok" THEN next
                              ELSE IF @ \in {"drop_column", "rename", "commit"} THEN "drop" ELSE "idle"]
    /\ faults' = faults + (IF o.reply = "err" /\ \E k \in outcomes : k.reply = "ok" THEN 1 ELSE 0)
    /\ faults' <= MaxFaults

At(p, label) == pc[p] = label

\* The column p repairs.
Target(p) == job[p][done[p] + 1]
Type(p) == View(p).columns[Target(p)].type
CellsOf(p) == View(p).columns[Target(p)].cells

rest == <<dialect, job, done, writes, truth>>

-----------------------------------------------------------------------------
(* repair_legacy_vector_column *)

\* SQLite keeps the bytes: SELECT ... LIMIT 0 only asks whether the column is there.
SelectNothing(p) ==
  /\ At(p, "select_nothing")
  /\ Do(p, Change(p, Type(p) # "none", View(p)), "ensure")
  /\ UNCHANGED <<rest, ledger, copies>>

\* CREATE EXTENSION IF NOT EXISTS vector
CreateExtension(p) ==
  /\ At(p, "extension")
  /\ Do(p, Same(p), "type")
  /\ UNCHANGED <<rest, ledger, copies>>

\* Slip: bytes are taken for a repaired column.
TypeSuffices(type) == type # "none"

TypeRepaired(type) == type = "vector"

\* SELECT udt_name: the catalog is read past every lock.  A missing column is an error; so is
\* one of a third type, which no column here has.
ReadType(p) ==
  /\ At(p, "type")
  /\ Do(p, Change(p, Type(p) # "none", View(p)), IF TypeRepaired(Type(p)) THEN "ensure" ELSE "select")
  /\ UNCHANGED <<rest, ledger, copies>>

\* legacy_float_vector
Converted(cells) == {<<i, cells[i].value>> : i \in {j \in Ids : cells[j].kind = "blob"}}

\* Slip: a rest of fewer than four bytes is ignored.
ConvertibleTruncated(cells) == \A i \in Ids : cells[i].kind # "vector"

Convertible(cells) ==
  \A i \in Ids : cells[i].kind # "vector" /\ cells[i] # Cell("blob", "bad")

\* SELECT id, vector: the rows are converted in memory; NULL is passed over.  A row the
\* code cannot convert, a vector among them, is an error.
SelectRows(p) ==
  /\ At(p, "select")
  /\ Free(p)
  /\ Do(p, Change(p, Convertible(CellsOf(p)), View(p)), "add")
  /\ copies' = [copies EXCEPT ![p] = IF pc'[p] = "add" THEN Converted(CellsOf(p)) ELSE {}]
  /\ UNCHANGED <<rest, ledger>>

NoCells == [i \in Ids |-> Null]

\* Slip: ADD COLUMN without IF NOT EXISTS.
AddColumnOnce(p) ==
  /\ At(p, "add")
  /\ Free(p)
  /\ Do(p, Change(p, View(p).helper = <<>>, [View(p) EXCEPT !.helper = <<NoCells>>]), "copy")
  /\ UNCHANGED <<rest, ledger, copies>>

\* ALTER TABLE ADD COLUMN IF NOT EXISTS: what an earlier repair left there stays.
AddColumn(p) ==
  /\ At(p, "add")
  /\ Free(p)
  /\ Do(p, Change(p, TRUE, [View(p) EXCEPT !.helper = IF @ = <<>> THEN <<NoCells>> ELSE @]), "copy")
  /\ UNCHANGED <<rest, ledger, copies>>

\* UPDATE ... SET helper = ? WHERE id = ?, for one of the copies, in the order in which
\* the database returned the rows.
Copy(p) ==
  /\ At(p, "copy")
  /\ Free(p)
  /\ \E copy \in copies[p] :
       /\ Do(p, Change(p, View(p).helper # <<>>,
                       [View(p) EXCEPT !.helper[1][copy[1]] = Cell("vector", copy[2])]), "copy")
       /\ copies' = [copies EXCEPT ![p] = IF pc'[p] = "copy" THEN @ \ {copy} ELSE {}]
  /\ UNCHANGED <<rest, ledger>>

\* Slip: the columns are exchanged in autocommit.
BeginSwapNothing(p) ==
  /\ At(p, "copy")
  /\ copies[p] = {}
  /\ pc' = [pc EXCEPT ![p] = "drop_column"]
  /\ UNCHANGED <<rest, ledger, table, conn, copies, faults>>

\* transaction(), when every copy is written.
BeginSwap(p) ==
  /\ At(p, "copy")
  /\ copies[p] = {}
  /\ Do(p, BeginOutcomes(Session(p)), "drop_column")
  /\ UNCHANGED <<rest, ledger, copies>>

\* ALTER TABLE DROP COLUMN
DropColumn(p) ==
  /\ At(p, "drop_column")
  /\ Free(p)
  /\ Do(p, Change(p, Type(p) # "none",
                  [View(p) EXCEPT !.columns[Target(p)] = [type |-> "none", cells |-> NoCells]]), "rename")
  /\ UNCHANGED <<rest, ledger, copies>>

\* ALTER TABLE RENAME COLUMN
RenameColumn(p) ==
  /\ At(p, "rename")
  /\ Free(p)
  /\ Do(p, Change(p, View(p).helper # <<>> /\ Type(p) = "none",
                  [View(p) EXCEPT !.columns[Target(p)] = [type |-> "vector", cells |-> View(p).helper[1]],
                                  !.helper = <<>>]), "commit")
  /\ UNCHANGED <<rest, ledger, copies>>

CommitSwap(p) ==
  /\ At(p, "commit")
  /\ Do(p, CommitOutcomes(Session(p)), "end")
  /\ UNCHANGED <<rest, ledger, copies>>

Ended(p) == [conn EXCEPT ![p] = [txn |-> "none", draft |-> <<>>]]

\* The drop of the Transaction: after the commit, or by `?`.
EndSwap(p) ==
  /\ pc[p] \in {"end", "drop"}
  /\ conn' = Ended(p)
  /\ pc' = [pc EXCEPT ![p] = IF @ = "end" THEN "ensure" ELSE "idle"]
  /\ UNCHANGED <<rest, ledger, table, copies, faults>>

-----------------------------------------------------------------------------
(* repair_migration_hash *)

\* ensure_migrations_table, where there is no older ledger to upgrade.
EnsureLedger(p) ==
  /\ At(p, "ensure")
  /\ Do(p, Same(p), "lookup")
  /\ UNCHANGED <<rest, ledger, copies>>

\* SELECT hash ... WHERE namespace = ? AND id = ?
LookUpHash(p) ==
  /\ At(p, "lookup")
  /\ Do(p, Same(p), IF MigrationId \in DOMAIN ledger THEN "update" ELSE "insert")
  /\ UNCHANGED <<rest, ledger, copies>>

\* Slip: the migrations are counted from 1.
PresentHashFromOne == History[MigrationId]

PresentHash == History[MigrationId + 1]

\* p writes the entry of the migration, if the statement is possible and succeeds.
WriteHash(p, possible) ==
  /\ Do(p, Change(p, possible, View(p)), "return")
  /\ ledger' = IF pc'[p] = "return"
                 THEN [id \in DOMAIN ledger \cup {MigrationId} |->
                         IF id = MigrationId THEN PresentHash ELSE ledger[id]]
                 ELSE ledger
  /\ UNCHANGED <<rest, copies>>

\* INSERT, under the primary key (namespace, id)
InsertHash(p) == At(p, "insert") /\ WriteHash(p, MigrationId \notin DOMAIN ledger)

UpdateHash(p) == At(p, "update") /\ WriteHash(p, TRUE)

\* Ok(())
Return(p) ==
  /\ At(p, "return")
  /\ pc' = [pc EXCEPT ![p] = "idle"]
  /\ done' = [done EXCEPT ![p] = @ + 1]
  /\ UNCHANGED <<dialect, ledger, table, conn, copies, job, faults, writes, truth>>

-----------------------------------------------------------------------------
(* The processes and the application *)

\* A process starts the repair of its next column, or starts it again after an error.
Start(p) ==
  /\ At(p, "idle")
  /\ done[p] < Len(job[p])
  /\ pc' = [pc EXCEPT ![p] = IF dialect = "sqlite" THEN "select_nothing" ELSE "extension"]
  /\ UNCHANGED <<rest, ledger, table, conn, copies, faults>>

\* A process dies, or the future of the repair is dropped after its Transaction exists:
\* what it had not committed is rolled back, what it knew is gone.
Crash(p) ==
  /\ ~At(p, "idle")
  /\ faults < MaxFaults
  /\ faults' = faults + 1
  /\ conn' = Ended(p)
  /\ pc' = [pc EXCEPT ![p] = "idle"]
  /\ copies' = [copies EXCEPT ![p] = {}]
  /\ UNCHANGED <<rest, ledger, table>>

\* The statements between the SELECT of the rows and the end of the exchange.
Window == {"add", "copy", "drop_column", "rename", "commit"}

\* What the application must not do: store a vector that a repair has read already, or
\* take a vector away of which an unfinished repair may have left a copy behind.
WriteIsSafe(v) ==
  /\ \A p \in Processes : pc[p] \notin Window
  /\ v = "null" => table.helper = <<>>

\* The application stores a vector, or NULL, in whatever form the column has.
ApplicationWrites(c, i, v) ==
  /\ writes < MaxWrites
  /\ table.columns[c].type # "none"
  /\ \A q \in Processes : ~Locks(q)
  /\ Disciplined => WriteIsSafe(v)
  /\ table' = [table EXCEPT !.columns[c].cells[i] =
                 IF v = "null" THEN Null
                 ELSE Cell(IF table.columns[c].type = "bytea" THEN "blob" ELSE "vector", v)]
  /\ truth' = [truth EXCEPT ![c][i] = v]
  /\ writes' = writes + 1
  /\ UNCHANGED <<dialect, ledger, conn, pc, copies, job, done, faults>>

Statements(p) ==
  \/ SelectNothing(p) \/ CreateExtension(p) \/ ReadType(p) \/ SelectRows(p) \/ AddColumn(p)
  \/ Copy(p) \/ BeginSwap(p) \/ DropColumn(p) \/ RenameColumn(p) \/ CommitSwap(p) \/ EndSwap(p)
  \/ EnsureLedger(p) \/ LookUpHash(p) \/ InsertHash(p) \/ UpdateHash(p) \/ Return(p)

AllDone == \A p \in Processes : done[p] = Len(job[p])

Finished == AllDone /\ UNCHANGED vars

Next ==
  \/ \E p \in Processes : Start(p) \/ Statements(p) \/ Crash(p)
  \/ \E c \in Columns, i \in Ids, v \in Vectors \cup {"null"} : ApplicationWrites(c, i, v)
  \/ Finished

Spec == Init /\ [][Next]_vars

\* A statement the database can execute is executed, and who got an error tries again.
FairSpec == Spec /\ \A p \in Processes : WF_vars(Start(p) \/ Statements(p))

-----------------------------------------------------------------------------
\* Every row keeps the vector the application has last stored in it, in whatever form the
\* column has: no failure, no death between two statements and no second repair beside
\* the first loses one, or brings an older one back (the order of the statements in
\* repair_postgres_legacy_vector_column).
VectorsKept ==
  \A c \in Columns, i \in Ids : table.columns[c].cells[i].value = truth[c][i]

\* Whoever was answered with Ok finds a vector column, or bytes on SQLite, under the hash
\* of the present declaration, whatever the others have done since.
OkMeansRepaired ==
  \A p \in Processes : \A n \in 1 .. done[p] :
    /\ table.columns[job[p][n]].type = (IF dialect = "sqlite" THEN "bytea" ELSE "vector")
    /\ MigrationId \in DOMAIN ledger /\ ledger[MigrationId] = PresentHash

(* Why: what is true at every moment *)

Dropped(c) == [table EXCEPT !.columns[c] = [type |-> "none", cells |-> NoCells]]

Exchanged(c) == [table EXCEPT !.columns[c] = [type |-> "vector", cells |-> table.helper[1]],
                              !.helper = <<>>]

\* A process is in a transaction only for the exchange, and has made of the table what the
\* statements so far make of it: nobody else changes the table meanwhile.
ConnSound ==
  /\ \A p \in Processes :
       LET open(draft) == conn[p].txn = "open" /\ conn[p].draft = draft
       IN  /\ pc[p] \notin {"drop_column", "rename", "commit", "drop"} =>
                conn[p].txn = "none" /\ conn[p].draft = <<>>
           /\ pc[p] = "drop_column" => open(<<>>)
           /\ pc[p] = "rename" => open(<<Dropped(Target(p))>>)
           /\ pc[p] = "commit" => open(<<Exchanged(Target(p))>>) /\ table.helper # <<>>
  /\ \A p, q \in Processes : Locks(p) /\ Locks(q) => p = q

\* What the two databases execute of a repair.
DialectSound ==
  /\ \A p \in Processes :
       /\ pc[p] # "idle" => done[p] < Len(job[p])
       /\ pc[p] = "select_nothing" => dialect = "sqlite"
       /\ pc[p] \in {"extension", "type", "select", "add", "copy", "drop_column", "rename", "commit",
                     "end", "drop"} => dialect = "postgres"
  /\ dialect = "sqlite" => table.helper = <<>> /\ \A c \in Columns : table.columns[c].type # "vector"

Repaired(c) == table.columns[c].type = (IF dialect = "sqlite" THEN "bytea" ELSE "vector")
HashIsPresent == MigrationId \in DOMAIN ledger /\ ledger[MigrationId] = PresentHash

\* Whoever has come past the exchange finds it done, before and after it has its Ok.
StageSound ==
  \A p \in Processes :
    /\ pc[p] \in {"end", "ensure", "lookup", "insert", "update", "return"} => Repaired(Target(p))
    /\ pc[p] = "return" => HashIsPresent
    /\ \A n \in 1 .. done[p] : Repaired(job[p][n]) /\ HashIsPresent

RepairInv == TypeOK /\ ConnSound /\ DialectSound /\ StageSound

\* At most two processes repair at once, and then the same column.
Busy(j) == {p \in Processes : j[p] # <<>>}
Alone(j) == \A p, q \in Busy(j) : p = q
Apart(j) ==
  \/ Alone(j)
  \/ /\ \A p, q, r \in Busy(j) : p = q \/ q = r \/ p = r
     /\ \A p, q \in Busy(j) : \A m \in DOMAIN j[p], n \in DOMAIN j[q] : j[p][m] = j[q][n]

Repairing == Window \cup {"select"}

\* Every vector is among the copies p has still to write, or in the helper column.
Covers(p) ==
  \A i \in Ids :
    LET v == truth[Target(p)][i]
    IN  \/ v = "null" /\ table.helper[1][i] = Null
        \/ <<i, v>> \in copies[p]
        \/ table.helper[1][i] = Cell("vector", v)

\* What p holds in memory, and what is in the helper column, is what the rows hold.  The
\* helper column disappears under p only when the other one has exchanged the columns.
CopiesTrue(p) ==
  /\ pc[p] \in Window =>
       \A copy \in copies[p] : copy[2] = truth[Target(p)][copy[1]] /\ copy[2] # "null"
  /\ pc[p] = "add" =>
       \A i \in Ids : LET v == truth[Target(p)][i] IN v = "null" \/ <<i, v>> \in copies[p]
  /\ pc[p] \in Window \ {"add", "copy"} => copies[p] = {}
  /\ pc[p] \in Window \ {"add"} =>
       IF table.helper = <<>> THEN table.columns[Target(p)].type = "vector" ELSE Covers(p)

CopiesSound == \A p \in Processes : CopiesTrue(p)

\* What a dead repair has left behind is in rows that still have a vector.
HelperSound ==
  table.helper # <<>> =>
    \A p \in Processes : done[p] < Len(job[p]) =>
      /\ \A i \in Ids : truth[Target(p)][i] = "null" => table.helper[1][i] = Null
      /\ Alone(job) => table.columns[Target(p)].type # "vector"

\* When the columns are exchanged one process at most is still repairing, the second one.
SecondSound ==
  \A p \in Processes :
    pc[p] \in Repairing /\ table.columns[Target(p)].type = "vector" =>
      ~Alone(job) /\ \A q \in Processes : pc[q] \in Repairing => q = p

\* The helper column of a process that repairs alone ends with its work.
HelperEnds ==
  Alone(job) /\ table.helper # <<>> => \A p \in Busy(job) : done[p] < Len(job[p])

VectorInv ==
  /\ RepairInv
  /\ CopiesSound
  /\ HelperSound
  /\ SecondSound
  /\ HelperEnds
  /\ VectorsKept

\* What apply_pending reads: the hashes in the order of their ids.
Existing ==
  LET Before(id) == {m \in DOMAIN ledger : m < id}
  IN  [n \in 1 .. Cardinality(DOMAIN ledger) |->
         ledger[CHOOSE id \in DOMAIN ledger : Cardinality(Before(id)) = n - 1]]

\* The next start of the release finds a history it takes: after a repair no hash differs
\* from the declared one, if the migrations before the repaired one are in the ledger of
\* its namespace (repair_migration_hash, apply_pending).
RepairedLedgerIsTaken ==
  (\E p \in Processes : done[p] > 0) /\ 0 .. MigrationId - 1 \subseteq DOMAIN ledger =>
    \A n \in DOMAIN Existing \cap DOMAIN History : Existing[n] = History[n]

\* Every repair of an existing column whose bytes can be converted is answered with Ok in
\* the end, however often it failed or died before: nothing a repair leaves behind stops
\* the next one.
RepairFinishes ==
  (\A c \in Columns : table.columns[c].type # "none" /\ \A i \in Ids : truth[c][i] # "bad")
    => <>AllDone
=============================================================================
