# almostsql in TLA+

A verification development for almostsql, an async Rust library that puts a
connection pool, transactions, append-only migrations, a schema macro and typed
query builders on SQLite and PostgreSQL. Paths below are relative to the
repository; line numbers are those of the modelled commit.

## The system

| component | source | state | operations |
| --- | --- | --- | --- |
| pool and transactions | `src/connection_pool.rs`, `src/query.rs` | an `Arc<Backend>` per clone; a `Transaction` holds nothing but that | `query`, `query_with_params`, `transaction`, `commit`, drop |
| SQLite worker | `src/sqlite.rs` | unbounded request queue, one thread, one connection | `send_query`, the loop, `rollback_transaction_fire_and_forget` |
| PostgreSQL worker | `src/postgres.rs` | the same, with a `Rollback` request nobody waits for | the same, `run_query`, `postgres_placeholders` |
| migrator and ledger | `src/connection_pool.rs`, `src/migration.rs` | the table `__migrations (namespace, id, hash)` | `ensure_migrations_table`, `apply_pending`, `run` |
| repair of vector columns | `src/connection_pool.rs` | a column being rewritten, its ledger entry | `repair_legacy_vector_column`, `repair_migration_hash` |
| schema macro | `almostsql-macros/src/lib.rs` | the tables accumulated over a schema block | `apply_to`, `Migrations::expand`, `expand_module` |
| DDL builders | `src/sql_builder.rs`, `src/sqlite.rs`, `src/postgres.rs` | none | `build_table`, `build_alter_statements` |
| query builders | `src/dsl.rs` | one builder value | `where_`, `set`, `all`, `limit`, `offset`, `order_by`, `to_sql`, `execute` |
| values | `src/query.rs`, `src/dsl.rs`, the two `execute_query` | none | `IntoValue`, `FromValue`, `decode`, binding and reading a row |

How they meet: every call on a pool, also those of the migrator and of the typed
builders, is one request in the queue of one worker and one oneshot answer.
`transaction()` and `commit()` are such requests too. A `Transaction` does not
reserve the connection; dropping it queues a ROLLBACK that nobody waits for.
The macro is the only part that runs at compile time: it replays the alters that
the database will execute at run time and must arrive at the same tables.

What is hard here:

* one connection, many tasks: whose transaction does a statement, a COMMIT or a
  late ROLLBACK meet?
* a future dropped between its request and its answer;
* a worker that dies, or a connection that is lost, with requests in its queue;
* answers that are not errors but do not mean success (COMMIT in PostgreSQL);
* several processes that migrate one database at once, failing, waiting for each
  other or crashing anywhere;
* a repair whose copies are written one by one, outside of a transaction;
* one typed value that two databases hold in two forms;
* two replays of one schema, and two halves (text and parameters) of one query,
  that have to agree.

`PROJECT.json` lists each hazard at its line with the properties aimed at it, or
why none is yet.

What makes each part correct:

* *pool*: no orphaned transaction; atomicity, isolation and durability for tasks
  that keep to themselves; every call returns;
* *ledger*: schema and ledger never disagree; a namespace's ledger is a prefix of
  some release's history; nothing is lost by the upgrade; fragments arrive together;
* *repair*: no vector is lost, whatever it dies of; Ok means repaired; a retry ends
  what another attempt began;
* *values*: what is read is what was written, on both databases alike;
* *macro*: typed modules = tables; what the database takes also compiles;
* *query builders*: the database reads what was written; no unfiltered change
  that was not confirmed.

## Modules

| module | models |
| --- | --- |
| `SqlSession` | what a database answers to BEGIN, a statement, COMMIT, ROLLBACK (external: modelled from what the workers send) |
| `ConnectionPool` | tasks, queue, worker, faults; the core module |
| `AtomicStore` | abstract: writes are staged by a client and become durable together, by its own commit |
| `ConnectionPoolProofs` | theorems about `ConnectionPool` that hold whatever the tasks do |
| `DisciplinedPoolProofs` | theorems about `ConnectionPool` with disciplined tasks: the worker's turns, then the tasks' steps, the invariant and the refinement of `AtomicStore` |
| `Migrator` | processes that run the migrator on one SQLite file or one PostgreSQL database |
| `MigratorProofs`, `MigratorHistoryProofs` | theorems about `Migrator`: types, transactions, locks and views, whatever the processes bring; then the histories in the ledger |
| `VectorRepair` | processes that repair vector columns and the ledger entry, beside an application that writes |
| `VectorRepairProofs` | theorems about `VectorRepair` |
| `TypedRows` | typed values through a SQLite and a PostgreSQL table and back |
| `TypedRowsProofs` | theorems about `TypedRows` |
| `SchemaFold` | the macro's replay beside the database's |
| `SchemaFoldProofs` | theorems about `SchemaFold` |
| `QueryBuilder` | builders to text and parameters, and the database's reading of them |
| `QueryBuilderProofs` | theorems about `QueryBuilder` |
| `MC...` | values for TLC |

`ConnectionPool`, `Migrator` and `VectorRepair` extend `SqlSession`, whose sessions
carry the dialect of their database, so that one run covers both; `ConnectionPool` instantiates
`AtomicStore` with a refinement mapping (`Store`).

Definitions that begin with the comment *Slip* are variants of the definition
that follows, as a plausible bug would have it; no specification uses them. They
serve to show that each property would notice: with the slip in place of the
definition, TLC finds the property violated. `PROJECT.json` pairs them.

### ConnectionPool

State: `queue` is the channel of `WorkerRequest`s, `worker` whether the loop runs,
`session` its connection, `handles` the tasks whose sender is alive, `awaiting`
and `reply` the future a task is suspended in and its oneshot channel, `tx` the
life of a task's `Transaction`. `issued`, `acked`, `committed`, `applied`,
`doomed` and `abandoned` are history variables; no guard reads them.

| action | code |
| --- | --- |
| `Begin`, `Write`, `Commit` (all `Send`) | `transaction` (`begin_transaction`), `query`, `commit`, up to the `await` in `send_query` |
| `BeginReturns`, `WriteReturns`, `CommitReturns` | the rest of the same functions after the answer |
| `DropTransaction` | `Drop for Transaction` |
| `Cancel` | the caller drops the future of one of them |
| `Close` | the task drops its pool |
| `WorkerStep` | one turn of the worker loop |
| `ConnectionLost`, `WorkerStepLost` | the server goes away; every later request fails, nobody reconnects |
| `WorkerDies` | the thread ends; queue and oneshot senders are dropped |
| `WorkerExits` | the last sender is gone, `request_rx.next()` returns `None` |

Reads are left out: they change nothing, and what a read may see is `working`.
Every write has a name of its own, so that sets of names are a database precise
enough to say which write survived.

Four constants say how the tasks behave. `Exclusive`: a task starts nothing
between another's `transaction()` and the drop of its `Transaction` (what a user
with a lock, or with one task, has). `Propagate`: errors leave a transaction by
`?`. `Cancellable`: which futures are dropped. `Faults`: what may go wrong below.
Without `Propagate` a task also goes on writing after a
`commit()` whose answer it does not know, and commits one `Transaction` a second time,
which `commit(&self)` permits; with it a task commits once, as the tests of the
repository do. `InSection` and `MayEnter` are the discipline, not code of the library.
The library enforces none of it, so the runs check both sides: with discipline
the pool is an atomic store; without it, what still holds is in `PoolShared` and
what fails in `PoolStrayRollback` and `PoolFailedCommit`.

### Migrator

One step is one statement of one process; the labels of `pc` are the statements of
`ensure_migrations_table`, `apply_pending` and `run` in order. Each process has
its own connection (`conn`: transaction, locks, view). `?` and the `panic!` of a
mismatched history drop the `Transaction` (`Drop`). `Crash` may happen at any
label; a `run` whose future is dropped ends in the same state, since the
`Transaction` in it queues its ROLLBACK (that a dropped `transaction()` may leave
none is the business of `ConnectionPool`). `db.applied` counts the executions of
each statement of each migration, which is the schema as far as the ledger is
concerned. A statement that was executed already is refused (CREATE TABLE),
unless its migration is `Repeatable` (raw SQL). `scenario` is fixed by `Init`: what
the processes bring, what they find, and on which database.

The two databases differ in how processes meet. The SQLite file is in the
rollback-journal mode the code leaves it in, with no busy timeout, so that a
process that is kept out gets an error at once (`FileBusy`, `CommitBusy`) and two
writers never go on together. In PostgreSQL a statement reads what is committed by
then (`Rebased`; only a process that rebuilds the ledger keeps its own view of it,
since it keeps everybody else out), transactions that write go on side by side, and
they wait: for a
ledger that is being rebuilt (`LedgerLocked`, `LedgerInUse`), for a table of the same
name (`StatementPending`), for the same key of the ledger (`KeyPending`). A wait may
end with an error, which stands for the deadlock detector: two releases that bring
their sets in a different order do deadlock. An entry whose key `(namespace, id)` is in the
ledger is refused (`KeyTaken`), also when its hash is the same: the process that was
slower gets an error and rolls back.

### VectorRepair

A step is one statement of `repair_postgres_legacy_vector_column`,
`repair_migration_hash` or their callers. The helper column, the copies and the
ledger entry are written in autocommit; only the exchange of the two columns is a
transaction. `copies` is what the code holds in memory between the SELECT and the
UPDATEs, and what a death forgets. `truth` is the history variable against which
the column is compared. An application writes vectors meanwhile; with
`Disciplined` it keeps to `WriteIsSafe`, the rule under which the repair loses
nothing: no write while a repair holds copies it has read, and no vector set to
NULL while an unfinished repair may have left a copy of it in the helper column.
Without the rule TLC finds a vector lost; nothing in the repository
states it. `Jobs` divides the columns among the processes: two processes on one
column, or one process on two columns. Two processes on two columns are left out,
since the helper column has the same name for both and one takes the copies of the
other, and so are three processes on one column: when two of them have copied and
are about to exchange, and the third is about to add the helper, the first exchanges,
the third adds an empty helper, and the second drops the repaired column and puts
the empty one in its place. The hazards are listed at `src/connection_pool.rs:307` and `:319`.

Three errors have no action of their own: a name that is no identifier, a column that is
neither `bytea` nor `vector`, and an index for which the schema has no migration. Such a
call fails on every attempt, so it is no job of the run and `RepairFinishes` does not speak
of it. What it leaves behind is what a statement that fails at that point leaves, and `Do`
may fail there: nothing for the first two, but the index is looked up after the columns have
been exchanged (`src/connection_pool.rs:335`), so that its error leaves a repaired column
with its old entry.

### TypedRows

The application makes the same calls on two databases at once. `store[d]` is what
the columns hold there (in SQLite the bytes of a vector or a `Uuid`, in PostgreSQL
a value of that type), `wrote[d]` what the application has set the fields to.
`shape` is fixed by `Init`: any of the eleven types, with and without `Option`, for
the first column, and one that comes by ALTER TABLE ADD COLUMN when there may be
rows. Reads are operators (`All`, `One`) and the properties quantify over them.
The widths of the integers and of a byte, the length of a `Uuid` and the values the
application uses are constants; only an `f32` is fixed, to two bytes. TLC takes 4 bits
for 64, 2 for 32, 3 for a byte and the values `Edges`: as in the program `u64` and `i64` are
as wide as the column, the narrower types are not, and a vector is several elements.
The proofs take any. What the properties
exempt is what the code loses: an unset field that is no `Option`, a `u64` from 2^63
on, a NaN on SQLite, a column name with capitals on PostgreSQL. The properties delimit
these losses and do not catch them. The host is little-endian. A `Uuid` is decoded from a
text as well, which no column of a typed module holds. PostgreSQL takes more in the model
than in fact: it refuses a vector with a NaN or an infinity and a text with a NUL. A text
is kept and read as it is; the driver of SQLite reads it through a C string
(`src/sqlite.rs:172`), and what that makes of a NUL inside of a text is not covered.

### SchemaFold

An author declares tables and alters one by one. `typed` is `final_tables` of
`Migrations::expand`, `tables` the database after the statements of the same
items. Within one migration the macro and the migrator both take tables first and
alters second, so a sequence of items stands for any division into migrations.
Raw SQL is not replayed by the macro and is left out.

### QueryBuilder

`builder` is the builder value, one action per method; `Execute` builds the text
and the parameters as `to_sql` does and the operators under *The database* read
them back with the grammar of SQL: precedence, clauses, numbered placeholders.
The text is a sequence of tokens without the names of table and selected columns, the
parentheses around the lists of an INSERT and those of the distance function.
`Expr(Atoms, MaxDepth)` is what the author can nest with `and`, `or` and `!`; a run takes
some of them (`Predicates`). `Pieces` is one call of `Expr::to_sql`, `ExprSql` all of them.
The database reads a condition between two places of the text (`Reading`): at an OR outside
of parentheses, else at an AND, else by its first token. A fragment (`Words`, `Bind`, `Put`)
carries its parameters along, as `to_sql` pushes both; `Numbered` counts the placeholders,
and the value of one is found by its number only.
`all` and `execute` are one action, and `one` is `limit(1)` before it; what they do with
the rows is in `TypedRows`. `Accepted` is what the database says to the form of a text:
the types of the values, and how many parameters or how deep an expression a database
takes, are not in it. Of the forms the builders build a database refuses four, which
`AcceptedOrKnown` names: OFFSET without LIMIT on SQLite; on PostgreSQL a limit that turned
negative, `Expr::True`, and a column set twice. The setters push a pair each time
(`almostsql-macros/src/lib.rs:563`, `src/dsl.rs:478`), so that a column set twice is in the
text twice. `AssignmentIsAsked` is about these pairs: what becomes of two for one column is
the database's, the first of them in an INSERT and the last in an UPDATE of SQLite, an
error in PostgreSQL. `Half` is 2^63, scaled down in the run. An offset
is less, and so is the number of rows (`RangesAssumption`): from 2^63 on an offset turns
negative and skips nothing, which is listed as a hazard; no table holds as many rows. The database of the pool,
`dialect`, is fixed by `Init`; the builders of queries do not look at it.

## Runs

| run | question | bounds |
| --- | --- | --- |
| `PoolDisciplined` | are the transactions of disciplined tasks atomic, isolated, durable, with a worker that dies or a connection that is lost, cancelled writes and commits; does the pool implement `AtomicStore`? | both databases, 2 tasks, 4 calls each |
| `PoolShared` | what holds whatever the tasks do: no orphaned transaction, no forgotten waiter | 2 tasks, 3 calls, all faults and cancellations |
| `PoolLiveness` | does every call return, every transaction end? | 2 tasks, 3 calls, both faults |
| `PoolStrayRollback` | *violation*: a dropped transaction rolls back (`tests/transactions.rs:23`) | 2 tasks, 3 calls |
| `PoolFailedCommit` | *violation*: a committed transaction persists (`tests/transactions.rs:6`) | 1 task, 4 calls |
| `MigratorReleases` | two releases migrate at once: an empty database, or one with the ledger of an older release of which they bring contradicting histories, in a different order of their sets | both databases, 2 processes, 2 runs each, 2 namespaces, 2 statements per migration (1 with the older ledger), 2 of the migrations raw SQL that may be repeated |
| `MigratorProbe` | *violation*: each namespace keeps its history (`connection_pool.rs:427`), when the probe may fail by itself | 1 namespace |
| `FoldPlain` | do typed modules match the tables? | 2 tables, 2 columns, 4 items, 2 actions per alter |
| `FoldOverride` | *violation*: the same with `[column = "..."]` (`almostsql-macros/src/lib.rs:361`) | 2 items |
| `RepairVectors` | does a repair keep every vector, whatever fails or dies, with a second repair and an application beside it; does a retry finish? | both databases, 2 processes, 2 columns, 2 rows, 2 faults, 1 write |
| `TypedValues` | is what is read what was written, and the same on both databases? | 22 types, 3 types added later, 2 rows, 3 calls |
| `QueryCalls` | is every clause read as written and guarded, and which forms does a database refuse? | both databases, 3 calls, 2 atoms nested 2 levels, and TRUE nested once; 64 bits scaled to 3 |

Why the bounds are enough to be worth something: the hazards of the pool are between
two tasks, and three calls are a begin, a write and a commit, while a fourth lets
the same task go on after its drop. Two runs of two processes are the smallest
case in which a crashed process comes back and finds what the other one did. Two
faults let a repair die, and die again on what the first death has left. Two
levels of nesting hold every pair of connectives, and an update with two
assignments and a predicate is three calls. `MaxCalls` bounds `calls`, `MaxRuns`
bounds `runs`, `MaxFaults` and `MaxWrites` the faults and the writes of the
application, `MaxItems` and `MaxActions` the declarations, `Predicates` the
arguments of `where_`; nothing else is cut.

`SYMMETRY` permutes the tasks where it is used; no liveness run uses it. Deadlock
is checked in every run but `TypedValues`, where the application stops after its last
call; `Finished` is the state in which everything is closed.

### Violations

* `PoolStrayRollback`: c1 commits; before c1 drops its `Transaction`, c2's BEGIN is
  executed; c1's drop ROLLBACKs it; c2's write is in autocommit now, and survives
  although c2 drops its transaction (`src/query.rs:142`).
* `PoolFailedCommit`: a statement fails, its error is ignored, `commit()` is Ok
  because PostgreSQL answers `ROLLBACK` without an error (`src/postgres.rs:120`).
* `MigratorProbe`: any error of the probe counts as "legacy"; a current ledger is
  rebuilt and the entries of a named namespace move to `''`
  (`src/connection_pool.rs:90`). The next run applies them again. The same loss
  needs no error when two processes find a legacy ledger without rows and one of
  them migrates between the probe and the rename of the other
  (`src/connection_pool.rs:100`); TLC finds it with `Named` changed to such a ledger and a
  reliable probe. With rows in it the copy collides and fails, which is why
  `HistoryKept` holds in `MigratorReleases`.
* `FoldOverride`: an alter names a column of the database, the macro looks for a
  Rust identifier (`almostsql-macros/src/lib.rs:363`).

### Fairness

`FairSpec` assumes: a running worker loop takes the next request while there is one
(it is a loop on a thread of its own that awaits nothing but its queue); an
answered task is polled again (the executor's duty); a task drops its
`Transaction` eventually (it is a local variable of an async block that ends).
Nothing is assumed of faults, of new calls, or of `Close`. `PoolLiveness` cancels nothing: a
cancelled `transaction()` does leave the connection in a transaction nobody ends. A statement is assumed
to return, as nothing in the code times it out.

`VectorRepair` has a `FairSpec` of its own: a process executes the next statement
when the database can execute it, and a caller who got an error calls again. The
first is the same assumption as above; the second is not the library's but its
user's, and `RepairFinishes` is worth what it is: nothing that an attempt leaves
behind stops the next one, provided that faults end (`MaxFaults`).

## Proofs

Every theorem holds for all values of the constants, from the named assumptions of
the module it is about; where it needs more of the constants, the hypothesis is
written in its `ASSUME`.

### The pool, whatever its tasks do

`ConnectionPoolProofs`: `TypeCorrect` (`TypeOK`), `WaitersStayQueued`
(`WaitersAreQueued`), `NoTransactionIsOrphaned` (`NoOrphanTransaction`) and the
inductive invariant behind them, `PoolInvariant`, for every set of tasks, every
`MaxCalls`, any set of dialects, every discipline and every set of faults.

`WaitersAreQueued` is not inductive: when the worker takes the head of the queue
and answers it, another waiter must not lose its request, nor may an old request
of the same task be taken for the new one. Hence `QueueOrdered` (the requests of a
task carry increasing numbers, at most its last), `AnsweredIsTaken` (an answered
call has left the queue) and `IdleHasNoReply`. The queue lemmas treat what a step
can do to the queue (`StepKinds`): append a call, append a ROLLBACK, take the head,
drop everything, or leave it and wake somebody up. For `NoOrphanTransaction` the
crucial step is a BEGIN that succeeds: its task must be waiting for it, or have
cancelled (`BeginsAreAwaited`), and must not hold an older `Transaction`
(`BeginsOutside`); `TaskHolds` shows that a task hands the open transaction on (to
its `Transaction`, or to a queued ROLLBACK), `WorkerHolds` that the worker ends it
or leaves it with its holder. A lost or closed connection is in no transaction
(`GoneIsClosed`).

### The pool of disciplined tasks

`DisciplinedPoolProofs`, the turns of the worker first and then the steps of the tasks, under
three hypotheses: `Exclusive`, `Propagate`, and no future of `transaction()` is
dropped (`"begin" \notin Cancellable`). Nothing is assumed of the number of tasks,
the calls, the databases or the faults, and the futures of writes and of `commit()`
may be dropped. `ActiveStaysOpen` (`ActiveIsOpen`), `CommitsPersist`
(`CommitPersists`), `AutocommitsPersist` (`AutocommitPersists`), `DropsUndo`
(`DropUndoes`), and `PoolImplementsStore`: `Spec => ImplementsStore`.

Each of the five is about a connection that is behind its queue, and none follows
from itself. `DisciplineInv` says what the queue, the connection and the unread
answers say of each other:

* one section at a time: only one task has a `Transaction` or waits for one, and
  what others had queued before its BEGIN is outside of any transaction;
* nothing is queued behind a BEGIN that is not answered yet, so its task is the first
  to learn of it; the statements of a transaction are queued only while it is
  open, with no BEGIN, COMMIT or ROLLBACK in front of them;
* a ROLLBACK of a dropped `Transaction` may have anything behind it, but the
  transaction open when it is executed is the one it is meant for, or there is none:
  writes outside wait behind it, and the next BEGIN as well;
* what is staged on the connection belongs to the task whose transaction is open;
* an unread Ok means what its task will conclude from it (a BEGIN: the connection is
  in a transaction of that task; a COMMIT: what was acknowledged is durable).

TLC checked `DisciplineInv` before it was proved, for two tasks with three calls each
(198,000 states) and with four (2.85 million). The proof takes a worker step apart by
the kind of its request and a task step by its action; the refinement maps each step
by its effect on the connection (`Effect`: stage, publish, discard, autocommit, or
nothing) to a step of `AtomicStore` or a stutter.

### The repair of vector columns

`VectorRepairProofs`, for any set of rows, vectors and columns, any faults and any
application.

* `RepairInvariant`, `RepairTypes` (`TypeOK`) and `OkStaysRepaired` (`OkMeansRepaired`)
  hold for any number of processes, on whatever columns. That Ok stays true is the
  difficult part: the process that was answered Ok must find its column repaired
  whatever the others are about to do with it. `RepairInv` says that nobody changes
  the table while another holds its transaction (`Exchanged`, `ConnSound`), and that
  the column of a process past the exchange is of the new type from then on, since
  a helper column always has that type (`Repaired`, `StageSound`).
* `VectorsStay` (`VectorsKept`) has the hypotheses `Disciplined` (the application
  writes only when `WriteIsSafe`) and `Apart`: at most two processes on one column, or
  one process. `VectorInv` follows the vectors where the column cannot be seen to
  keep them: the copies in the memory of a process, together with what it has
  written to the helper column already, cover every vector of the column
  (`CopiesSound`, `HelperSound`); the helper of a process disappears only by the
  exchange of the other (`SecondSound`), and whoever is still repairing then is the
  only one and finds no helper column to rename (`HelperEnds`), so its transaction
  fails and is rolled back. TLC checked `VectorInv` on the run's constants (127,945
  states).
* `LedgerIsTaken` (`RepairedLedgerIsTaken`) assumes nothing but the constants'
  assumptions. Its invariant `LedgerSound` says that the ids of the ledger have no gap,
  or hold the repaired migration alone, and that only that entry may differ from the
  declared history; `ExistingFacts` that reading a ledger without a gap in the order of
  its ids gives its entry `n - 1` in place `n`, for which the cardinality of an initial
  interval is all that is needed.

`Apart` was found by the proof: a first version without it left one case open, and
TLC turned it into the three processes described under *VectorRepair*.

### The migrator

Both modules are about any set of processes that bring any histories to any database
the assumptions of `Migrator` allow: `ScenariosAssumption` (a history is a sequence, a
migration has a statement, and there are rows only in a table) and `RunsAssumption`.

`MigratorProofs` assumes nothing else. `SessionsInvariant` is the part of the story
that does not depend on what the ledger says, also where the probe is unreliable;
`MigratorTypes` (`TypeOK`) follows. `SessionsInv` says which transaction and lock a
process has at each of its statements (`ConnSound`), that one process at a time
writes a SQLite file and one at a time has the ledger of PostgreSQL while it rebuilds
it (`LocksSound`), and what a view is worth (`ViewsSound`): who has not written sees what
is committed, who has written at least that. The difficult step is a commit, which
changes the view of everybody else: in SQLite the file lock leaves nobody else with a view, in
PostgreSQL what another transaction has done itself is carried over (`Rebased`), and the
lock of the upgrade excludes the case in which carrying over would be wrong.

`MigratorHistoryProofs` has the hypothesis `Regularity`, in three parts, each of which is
needed:

* `ProbeReliable`; without it `MigratorProbe` shows the histories lost;
* a legacy ledger has rows; without it they are lost as described under *Violations*;
* no fragment brings the same hash twice. The ledger cannot tell equal migrations
  apart, so that *recorded* and *executed once* would have no meaning for them.

From it follow `RecordedOnceApplied` (`AppliedOnceAndRecorded`), `LedgerStaysHistory`
(`LedgerIsHistory`), `OkIsApplied` (`OkMeansApplied`), `HistoryIsKept` (`HistoryKept`) and
`SetsArriveTogether` (`AllSetsTogether`), for any number of processes and releases. None
of them is inductive, and `HistoryInvariant` (`HistoryInv`) says why they hold:

* what is committed, and what a run has in view, holds the beginning of a history in
  each namespace (`Laid`), and the namespaces in which two transactions have added
  entries differ (`NamespacesApart`), so that merging them gives beginnings again;
* a run that is in the middle of a migration continues the beginning it has read, or
  somebody has been faster and has committed the very key it is about to insert; then the
  entry is refused and the run rolls back (`MigrationSound`). This is the only thing
  that stops two processes which have both read the ledger before either has written;
* in the view of a run each statement counts once if its migration is recorded there, and
  once more if the run is in the middle of that migration (`Counts`, `Half`). A merge
  adds both up: raw SQL that two runs have executed counts twice for the slower one,
  whose entry will be refused;
* the upgrade changes nothing but the form of the ledger (`UpgradeSound`): the first legacy
  row has the id 0, as has the first entry of every other namespace, so that the copy
  succeeds only if there is nothing but the default namespace, and then it is the
  identity (`FlattenedSame`).

With that, only a commit adds to the ledger (`LedgerGrows`), and what it adds is what its
run has brought. TLC checked `HistoryInv` on the constants of `MigratorReleases` (32,624
states) and `SessionsInv` with an unreliable probe (42,952) before they were proved.

### The typed rows

`TypedRowsProofs`, for any shapes, keys, dimension and number of calls, any values of the
types (`SamplesAssumption`) and any widths, provided that 32 bits fit 64
(`WidthsAssumption`): those of the program are among them. `RowsInvariant`: a column holds
what the last setter of its field makes of it (`StoredIsWritten`). That is inductive, and
what remains is the way from a setter to the column and back, type by type and database by
database (`EveryBack`); of these lemmas `FloatBytes` says that a vector of any length comes
back from its bytes. The four properties of the run follow: `ReadsAreWrites`
(`DecodedIsWritten`), `ReadableIsRead` (`ReadsSucceed`), `BackendsAnswerAlike`
(`BackendsAgree`), `FirstStaysLeast` (`FirstIsLeast`), and `RowTypes` (`TypeOK`). Not covered is an
`f32` of four bytes; the conversion is the same for each byte.

### The schema fold

`SchemaFoldProofs`, for any names, columns, items and actions and any `MaxItems` and
`MaxActions` in `Nat` (`BoundsAssumption`). `FoldTypes` (`TypeOK`) assumes no more.
`TypedIsDatabase` (`TypedMatchesDatabase`), `PlainCompiles` (`AcceptedCompiles`) and the
inductive invariant behind them, `FoldInvariant` (`FoldInv`), have the hypothesis
`Overrides = {}`, that of the run `FoldPlain`; why it is needed is what `FoldOverride`
shows. `FoldInv` says that no two typed tables and no two columns of one have a name in
common and that the database has the `Image` of each (`Matches`). Both properties are
weaker: without the distinct names an action could hit another column in the macro
(which takes the first of the name) than in the database.

An alter is a loop over its actions, in the macro over the typed table (`ApplyTo`), in
the database over what each statement may leave (`AlterTable`), and dropping a column is
a loop over the columns (`Retained`). These are recursive functions. The induction
theorems of the library take an operator and cannot be used; instead, the numbers for
which a statement about the loop fails are a set, and a set of numbers that is not empty
has a least element (`LeastNumber`, from the well-founded order of strict subsets on
the intervals `1 .. n`; `Induction`). From it follow that a loop has a run
(`RunExists`), hence that the recursive functions satisfy their equations
(`RetainedRounds`, `ApplyToRounds`, `AlterTableRounds`), and what they compute:
`RetainedNames`, and `AlterMatches`, which takes both loops action by action. TLC checked
`FoldInv` on the constants of `FoldPlain` before it was proved.

### The query builders

`QueryBuilderProofs`, for any columns, values, atoms, depth of nesting, number of calls,
and any size of integers. What is assumed: the two dialects and the six builders
(`KindsAssumption`); fewer rows and smaller offsets than `Half`, and limits below twice of it,
which is a `u64` (`RangesAssumption`); no column has the name of a word of SQL, as no builder
quotes a name (`NamesAssumption`); predicates come from the methods of `Column` and `Expr`
(`PredicatesAssumption`). All five invariants of the run are theorems: `ConditionAsked`
(`ConditionIsAsked`), `AssignmentAsked` (`AssignmentIsAsked`), `NothingUnfilteredSent`
(`NothingUnfiltered`), `WindowAsked` (`WindowIsAsked`), `AcceptedOrKnownCause`
(`AcceptedOrKnown`): no form but the four above is refused.

The inductive invariant (`IInv`, theorem `Invariant`) is small. It says that the builder is
one its methods can make (`IsBuilder`: no `where_` on an insert, no `limit` on an update) and
that what was sent is its text (`SentIsBuilt`: a builder does not change once it is sent).
None of the five is inductive without it: they speak of a statement and a builder, and
nothing in them ties one to the other. What is hard is that this text, for every builder, is
read as it was meant (`SqlIsRead`):

* a fragment stands somewhere in a statement (`At`), and binds as many parameters as it has
  placeholders (`Binds`). So the number of a placeholder depends on nothing but the
  fragments before it, and `AtPut` takes a text apart into its fragments;
* the text of an expression is closed (`Closed`, `ExprShape`): its parentheses match and it
  has no AND and no OR outside of them. So the joining word `to_sql` has put between two
  operands is the only one the database finds between them, and it reads both operands in
  their own places (`JoinedRead`, `JoinedSense`). `ExprSense`: each expression is read as
  itself, wherever it stands and whatever was bound before it. The condition a search adds of
  its own is joined to a closed one in the same way (`FilterClause`);
* a statement is made of clauses (`Laid`), each with a keyword of its own that is in no
  other (`HasClause`). So the database finds each clause from its first token to its last, and no
  clause that is not there (`Stated`);
* a list has items of one length with commas between them: blocks of two tokens in an INSERT,
  of four in an UPDATE (`Periods`), with a placeholder at the end of each. Its n-th
  placeholder is the n-th of the clause (`ListClause`), hence the n-th value is assigned to
  the n-th column (`SetClause`, `InsertClauses`). A query has no such clause
  (`NotAssigning`), so that PostgreSQL refuses a repeated column only where the author set
  it twice.

Expressions, their text and the reading of a text are recursive functions. As for the schema
fold, numbers take the place of the induction theorems: what holds of the atoms and, if it
holds of one level of nesting, of the next, holds of every expression (`ExprInduction`); the
text of an expression exists by levels of nesting (`ExprSqlRounds`), the reading of a span
by its width (`ParsedRounds`). TLC checked `IInv` on the constants of `QueryCalls` before it
was proved.

### What stays with TLC

Liveness under fairness (`PoolLiveness`, `RepairFinishes`): the prover has no rule
for it. That every process which goes on trying has its migrations applied in the end is
neither checked nor proved: nothing in the library calls the migrator again.

## Not modelled

* a migrator on a pool that other tasks use: its statements are those of any task,
  and `PoolStrayRollback` shows what a stray ROLLBACK does to them;
* a raw migration of several statements, of which SQLite executes the first only
  (`src/sqlite.rs:126`), and columns that raw migrations give other types;
* the macro's parser, keys and foreign keys of the DDL, which no property is about;
* the sizes and value types a database refuses in a query, and a NUL in a text;
* the choice of features at compile time, and the hash function of the fingerprint
  (a migration is identified with its hash);
* reads in the modules of the pool and the migrator, because they change nothing.

## Plan

Written so far, in this order: the pool and its abstract store, its proofs, the
migrator, the schema fold, the query builders; then the repair, the migrator on
PostgreSQL, the typed rows; then the proofs about the repair, the typed rows, the
migrator, the schema fold and the query builders. Next:

1. Multi-statement raw texts in `Migrator`, and `run` as one of the tasks of
   `ConnectionPool`.
