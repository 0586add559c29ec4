--------------------------- MODULE ConnectionPool ---------------------------
(***************************************************************************)
(* The pool: every task that holds a ConnectionPool, or a Transaction, has *)
(* a sender of one unbounded queue; one worker thread owns one connection  *)
(* and executes the requests in the order they were queued, answering each *)
(* over a oneshot channel of its own.                                      *)
(*                                                                         *)
(* A Transaction is only a token: while it is alive nothing keeps other    *)
(* tasks off the connection, commit() takes it by reference, and dropping  *)
(* it queues a ROLLBACK whether or not it was committed.                   *)
(***************************************************************************)
EXTENDS SqlSession, Naturals, Sequences

CONSTANTS
  Clients,      \* the tasks
  MaxCalls,     \* bound: how many requests a task sends and awaits
  Exclusive,    \* TRUE: a task starts nothing while another one is between the
                \* call of transaction() and the drop of its Transaction
  Propagate,    \* TRUE: a task hands the error of a statement up with `?`, so it
                \* neither writes nor commits in that transaction any more
  Cancellable,  \* the calls whose future a task may drop before it is answered
  Faults        \* "lost": the server closes the connection;
                \* "stopped": the worker thread dies

Calls == {"begin", "write", "commit"}

ASSUME MaxCallsAssumption == MaxCalls \in Nat
ASSUME SwitchAssumption ==
  Exclusive \in BOOLEAN /\ Propagate \in BOOLEAN /\ MayFail \in BOOLEAN
ASSUME CancellableAssumption == Cancellable \subseteq Calls
ASSUME FaultsAssumption == Faults \subseteq {"lost", "stopped"}

VARIABLES
  queue,        \* the requests the worker has not taken yet
  worker,       \* "running", "lost" (its connection is gone) or "stopped"
  session,      \* the connection (SqlSession)
  handles,      \* the tasks that still hold a pool
  calls,        \* calls[c]: how many calls task c has made
  awaiting,     \* awaiting[c]: the call task c is suspended in, or "none"
  reply,        \* reply[c]: the answer in its oneshot channel, or "none"
  tx,           \* tx[c]: the Transaction of task c, see TxState
  issued,       \* history: the writes of c inside its transaction
  acked,        \* history: those of them answered with Ok
  committed,    \* history: those of them whose commit() returned Ok
  applied,      \* history: writes answered with Ok outside any transaction
  doomed,       \* history: writes of transactions dropped without a commit
  abandoned     \* history: tasks whose transaction() was cancelled

program == <<queue, worker, session, handles, calls, awaiting, reply, tx>>
history == <<issued, acked, committed, applied, doomed, abandoned>>
vars == <<program, history>>

-----------------------------------------------------------------------------
\* A write is named by the call that issues it.
Token == Clients \X (1 .. MaxCalls)

Session == [dialect : Dialects, txn : {"none", "open", "failed"},
            durable : SUBSET Token, working : SUBSET Token]

Request == [op : Calls, client : Clients, call : 1 .. MaxCalls] \cup
           [op : {"rollback"}, client : Clients, call : {0}]

\* none      no Transaction is alive
\* active    alive, every statement so far answered with Ok
\* failed    alive, a statement failed or nobody waited for its answer
\* unknown   alive, its COMMIT failed or the wait for it was cancelled
\* committed alive, its COMMIT was answered with Ok
TxState == {"none", "active", "failed", "unknown", "committed"}

TypeOK ==
  /\ queue \in Seq(Request)
  /\ worker \in {"running", "lost", "stopped"}
  /\ session \in Session
  /\ handles \in SUBSET Clients
  /\ calls \in [Clients -> 0 .. MaxCalls]
  /\ awaiting \in [Clients -> Calls \cup {"none"}]
  /\ \A c \in Clients : awaiting[c] # "none" => calls[c] # 0
  /\ reply \in [Clients -> {"none", "ok", "err"}]
  /\ tx \in [Clients -> TxState]
  /\ issued \in [Clients -> SUBSET Token]
  /\ acked \in [Clients -> SUBSET Token]
  /\ committed \in SUBSET Token
  /\ applied \in SUBSET Token
  /\ doomed \in SUBSET Token
  /\ abandoned \in SUBSET Clients

\* ConnectionPool::new: the URL decides about the backend; its worker has connected.
Opened ==
  {[dialect |-> d, txn |-> "none", durable |-> {}, working |-> {}] : d \in Dialects}

Init ==
  /\ queue = <<>>
  /\ worker = "running"
  /\ session \in Opened
  /\ handles = Clients
  /\ calls = [c \in Clients |-> 0]
  /\ awaiting = [c \in Clients |-> "none"]
  /\ reply = [c \in Clients |-> "none"]
  /\ tx = [c \in Clients |-> "none"]
  /\ issued = [c \in Clients |-> {}]
  /\ acked = [c \in Clients |-> {}]
  /\ committed = {}
  /\ applied = {}
  /\ doomed = {}
  /\ abandoned = {}

-----------------------------------------------------------------------------
(* The tasks *)

Idle(c) == c \in handles /\ awaiting[c] = "none"

\* Slip: the section ends with the commit, not with the drop of the Transaction.
InSectionUntilCommit(c) == tx[c] \notin {"none", "committed"} \/ awaiting[c] = "begin"

InSection(c) == tx[c] # "none" \/ awaiting[c] = "begin"

MayEnter(c) == Exclusive => \A d \in Clients \ {c} : ~InSection(d)

\* The write that call number n of c issues; the one c is suspended in.
WriteOf(c, n) == <<c, n>>
Current(c) == WriteOf(c, calls[c])

\* send_query: queue the request and suspend.  When the worker is gone the send
\* fails and the call is answered at once with an error.
Send(c, op) ==
  /\ Idle(c)
  /\ calls[c] < MaxCalls
  /\ calls' = [calls EXCEPT ![c] = @ + 1]
  /\ awaiting' = [awaiting EXCEPT ![c] = op]
  /\ IF worker = "stopped"
       THEN reply' = [reply EXCEPT ![c] = "err"] /\ UNCHANGED queue
       ELSE /\ queue' = Append(queue, [op |-> op, client |-> c, call |-> calls[c] + 1])
            /\ UNCHANGED reply
  /\ UNCHANGED <<worker, session, handles, tx>>

\* pool.transaction()
Begin(c) ==
  /\ tx[c] = "none"
  /\ MayEnter(c)
  /\ Send(c, "begin")
  /\ UNCHANGED history

\* pool.query() of a statement that writes.  A Transaction that has been committed
\* may still be alive; its task writes outside any transaction then.
Write(c) ==
  /\ tx[c] \in {"none", "active", "committed"} \cup (IF Propagate THEN {} ELSE {"failed", "unknown"})
  /\ tx[c] = "none" => MayEnter(c)
  /\ Send(c, "write")
  /\ issued' = IF tx[c] \in {"active", "failed"}
                 THEN [issued EXCEPT ![c] = @ \cup {WriteOf(c, calls[c] + 1)}]
                 ELSE issued
  /\ UNCHANGED <<acked, committed, applied, doomed, abandoned>>

\* transaction.commit().  It borrows the Transaction: nothing but the habit of the task keeps
\* it from being called again.
Commit(c) ==
  /\ tx[c] \in {"active"} \cup (IF Propagate THEN {} ELSE {"failed", "committed", "unknown"})
  /\ Send(c, "commit")
  /\ UNCHANGED history

\* The task wakes up with the answer of the call it is suspended in.
Resume(c, op) ==
  /\ awaiting[c] = op
  /\ reply[c] # "none"
  /\ awaiting' = [awaiting EXCEPT ![c] = "none"]
  /\ reply' = [reply EXCEPT ![c] = "none"]
  /\ UNCHANGED <<queue, worker, session, handles, calls>>

BeginReturns(c) ==
  /\ Resume(c, "begin")
  /\ tx' = [tx EXCEPT ![c] = IF reply[c] = "ok" THEN "active" ELSE "none"]
  /\ UNCHANGED history

WriteReturns(c) ==
  /\ Resume(c, "write")
  /\ tx' = [tx EXCEPT ![c] = IF reply[c] = "err" /\ @ = "active" THEN "failed" ELSE @]
  /\ acked' = IF reply[c] = "ok" /\ tx[c] \in {"active", "failed"}
                THEN [acked EXCEPT ![c] = @ \cup {Current(c)}]
                ELSE acked
  /\ applied' = IF reply[c] = "ok" /\ tx[c] \in {"none", "committed"}
                  THEN applied \cup {Current(c)}
                  ELSE applied
  /\ UNCHANGED <<issued, committed, doomed, abandoned>>

\* Slip: what the task notes is the answer, not what it means.
CommitReturnsRaw(c) ==
  /\ Resume(c, "commit")
  /\ tx' = [tx EXCEPT ![c] = reply[c]]
  /\ UNCHANGED history

CommitReturns(c) ==
  /\ Resume(c, "commit")
  /\ tx' = [tx EXCEPT ![c] = IF reply[c] = "ok" THEN "committed" ELSE "unknown"]
  /\ committed' = IF reply[c] = "ok" THEN committed \cup acked[c] ELSE committed
  /\ UNCHANGED <<issued, acked, applied, doomed, abandoned>>

Rollback(c) == [op |-> "rollback", client |-> c, call |-> 0]

\* Slip: only an unharmed Transaction asks for the ROLLBACK.
QueueWithRollbackIfActive(c) ==
  IF worker # "stopped" /\ tx[c] = "active" THEN Append(queue, Rollback(c)) ELSE queue

\* Slip: the Transaction is forgotten (mem::forget), its drop never runs.
QueueWithoutRollback(c) == queue

\* rollback_transaction_fire_and_forget: the request is sent, its answer ignored.
QueueWithRollback(c) ==
  IF worker # "stopped" THEN Append(queue, Rollback(c)) ELSE queue

\* Drop of the Transaction: at the end of its scope, by `?`, by a panic or with the
\* future that owns it.  It queues a ROLLBACK in every case and waits for nothing.
DropTransaction(c) ==
  /\ tx[c] # "none"
  /\ awaiting[c] = "none"
  /\ tx' = [tx EXCEPT ![c] = "none"]
  /\ queue' = QueueWithRollback(c)
  /\ doomed' = IF tx[c] \in {"active", "failed"} THEN doomed \cup issued[c] ELSE doomed
  /\ issued' = [issued EXCEPT ![c] = {}]
  /\ acked' = [acked EXCEPT ![c] = {}]
  /\ UNCHANGED <<worker, session, handles, calls, awaiting, reply,
                 committed, applied, abandoned>>

\* The task drops the future of a call (a timeout, a select!).  The request is in
\* the queue already and will be executed; its answer goes nowhere.  A dropped
\* transaction() leaves no Transaction behind that could roll back.
Cancel(c) ==
  /\ awaiting[c] \in Cancellable
  /\ awaiting' = [awaiting EXCEPT ![c] = "none"]
  /\ reply' = [reply EXCEPT ![c] = "none"]
  /\ tx' = [tx EXCEPT ![c] = CASE awaiting[c] = "commit"                -> "unknown"
                                [] awaiting[c] = "write" /\ @ = "active" -> "failed"
                                [] OTHER                                -> @]
  /\ abandoned' = IF awaiting[c] = "begin" THEN abandoned \cup {c} ELSE abandoned
  /\ UNCHANGED <<queue, worker, session, handles, calls,
                 issued, acked, committed, applied, doomed>>

\* The task drops its pool; its sender of the queue goes with it.
Close(c) ==
  /\ Idle(c)
  /\ tx[c] = "none"
  /\ handles' = handles \ {c}
  /\ UNCHANGED <<queue, worker, session, calls, awaiting, reply, tx, history>>

-----------------------------------------------------------------------------
(* The worker *)

\* Slip: the drop of a Transaction commits it.
ExecuteDropCommits(s, r) ==
  CASE r.op = "begin"                -> BeginOutcomes(s)
    [] r.op = "write"                -> StatementOutcomes(s, s.working \cup {WriteOf(r.client, r.call)})
    [] r.op \in {"commit", "rollback"} -> CommitOutcomes(s)

\* execute_query, run_query
Execute(s, r) ==
  CASE r.op = "begin"    -> BeginOutcomes(s)
    [] r.op = "write"    -> StatementOutcomes(s, s.working \cup {WriteOf(r.client, r.call)})
    [] r.op = "commit"   -> CommitOutcomes(s)
    [] r.op = "rollback" -> RollbackOutcomes(s)

Listening(r) ==
  r.op # "rollback" /\ awaiting[r.client] # "none" /\ calls[r.client] = r.call

\* Slip: an error is not sent back.
AnsweredIfOk(r, answer) ==
  IF Listening(r) /\ answer = "ok" THEN [reply EXCEPT ![r.client] = answer] ELSE reply

\* Slip: the error of the database is swallowed.
AnsweredOk(r, answer) ==
  IF Listening(r) THEN [reply EXCEPT ![r.client] = "ok"] ELSE reply

\* response.send: the answer arrives unless the receiver is gone.
Answered(r, answer) ==
  IF Listening(r) THEN [reply EXCEPT ![r.client] = answer] ELSE reply

\* The worker takes the next request, executes it and answers.
WorkerStep ==
  /\ worker = "running"
  /\ queue # <<>>
  /\ \E o \in Execute(session, Head(queue)) :
       /\ session' = o.session
       /\ reply' = Answered(Head(queue), o.reply)
  /\ queue' = Tail(queue)
  /\ UNCHANGED <<worker, handles, calls, awaiting, tx, history>>

\* Slip: a request is kept until the connection is back, which nobody brings about.
WorkerStepLostRetries ==
  /\ worker = "lost"
  /\ queue # <<>>
  /\ UNCHANGED vars

\* Nobody reconnects: once the connection is lost every request fails.
WorkerStepLost ==
  /\ worker = "lost"
  /\ queue # <<>>
  /\ reply' = Answered(Head(queue), "err")
  /\ queue' = Tail(queue)
  /\ UNCHANGED <<worker, session, handles, calls, awaiting, tx, history>>

\* What the database holds when a request is interrupted, before or after it took
\* effect: the open transaction is rolled back in both cases.
Interrupted(s, r) ==
  {Discarded(s)} \cup {Discarded(o.session) : o \in Execute(s, r)}

\* The server goes away while a request executes.  SQLite has none.
ConnectionLost ==
  /\ "lost" \in Faults
  /\ session.dialect = "postgres"
  /\ worker = "running"
  /\ queue # <<>>
  /\ worker' = "lost"
  /\ session' \in Interrupted(session, Head(queue))
  /\ reply' = Answered(Head(queue), "err")
  /\ queue' = Tail(queue)
  /\ UNCHANGED <<handles, calls, awaiting, tx, history>>

\* The sender of every answer is dropped: each suspended task wakes up with an error.
WakeAll ==
  [c \in Clients |-> IF awaiting[c] # "none" /\ reply[c] = "none" THEN "err" ELSE reply[c]]

\* The worker dies while a request executes.  The queue goes with it.
WorkerDies ==
  /\ "stopped" \in Faults
  /\ worker \in {"running", "lost"}
  /\ queue # <<>>
  /\ worker' = "stopped"
  /\ session' \in IF worker = "running" THEN Interrupted(session, Head(queue)) ELSE {session}
  /\ reply' = WakeAll
  /\ queue' = <<>>
  /\ UNCHANGED <<handles, calls, awaiting, tx, history>>

\* The last sender is gone and the queue is drained: the loop ends and the
\* connection is closed.
WorkerExits ==
  /\ worker # "stopped"
  /\ handles = {}
  /\ queue = <<>>
  /\ worker' = "stopped"
  /\ session' = Discarded(session)
  /\ UNCHANGED <<queue, handles, calls, awaiting, reply, tx, history>>

\* Everything is closed; the only state in which nothing more happens.
Finished ==
  /\ worker = "stopped"
  /\ handles = {}
  /\ UNCHANGED vars

-----------------------------------------------------------------------------
Worker == WorkerStep \/ WorkerStepLost \/ ConnectionLost \/ WorkerDies \/ WorkerExits

Returns(c) == BeginReturns(c) \/ WriteReturns(c) \/ CommitReturns(c)

Task(c) ==
  \/ Begin(c) \/ Write(c) \/ Commit(c)
  \/ Returns(c)
  \/ DropTransaction(c) \/ Cancel(c) \/ Close(c)

Next == Worker \/ (\E c \in Clients : Task(c)) \/ Finished

Spec == Init /\ [][Next]_vars

\* The worker loop runs as long as there are requests, a task that was answered is
\* polled again, and a task gives its Transaction up eventually.
Fairness ==
  /\ WF_vars(WorkerStep \/ WorkerStepLost)
  /\ \A c \in Clients : WF_vars(Returns(c)) /\ WF_vars(DropTransaction(c))

FairSpec == Spec /\ Fairness

-----------------------------------------------------------------------------
(* What the pool promises whatever its tasks do *)

\* An open transaction is never forgotten: somebody holds the Transaction whose drop
\* will roll it back, or is about to receive it, or the ROLLBACK is queued already.
\* The exception is a transaction() call that was cancelled (transaction, Drop for
\* Transaction).
NoOrphanTransaction ==
  session.txn # "none" =>
    \/ abandoned # {}
    \/ \E c \in Clients : tx[c] # "none"
    \/ \E c \in Clients : awaiting[c] = "begin" /\ reply[c] = "ok"
    \/ \E i \in 1 .. Len(queue) : queue[i].op = "rollback"

\* A suspended task has its answer or the worker still has its request: no path of
\* the worker loop, of a lost connection or of a dead worker loses one (send_query).
WaitersAreQueued ==
  \A c \in Clients :
    awaiting[c] # "none" /\ reply[c] = "none" =>
      \E i \in 1 .. Len(queue) :
        queue[i] = [op |-> awaiting[c], client |-> c, call |-> calls[c]]

\* Every call is answered.
EveryCallReturns ==
  \A c \in Clients : awaiting[c] # "none" ~> awaiting[c] = "none"

\* The connection leaves every transaction again.
TransactionsEnd == session.txn # "none" ~> session.txn = "none"

(* Why: what is true of the queue at every moment *)

\* The requests of a task are queued in the order it made them, each under a number
\* of its own; its last call is the highest.
QueueOrdered ==
  /\ \A i \in 1 .. Len(queue) :
       queue[i].op # "rollback" => queue[i].call <= calls[queue[i].client]
  /\ \A i, j \in 1 .. Len(queue) :
       i < j /\ queue[i].op # "rollback" /\ queue[j].op # "rollback"
             /\ queue[i].client = queue[j].client => queue[i].call < queue[j].call

\* A task that has its answer has no such request in the queue any more.
AnsweredIsTaken ==
  \A i \in 1 .. Len(queue) : Listening(queue[i]) => reply[queue[i].client] = "none"

\* A task that is not suspended has no answer left to read.
IdleHasNoReply == \A c \in Clients : awaiting[c] = "none" => reply[c] = "none"

\* The task that queued a BEGIN waits for it, or has cancelled a transaction().
BeginsAreAwaited ==
  \A i \in 1 .. Len(queue) :
    queue[i].op = "begin" =>
      \/ queue[i].client \in abandoned
      \/ awaiting[queue[i].client] = "begin" /\ calls[queue[i].client] = queue[i].call

\* A task that waits for transaction() has no Transaction.
BeginsOutside == \A c \in Clients : awaiting[c] = "begin" => tx[c] = "none"

\* A connection that is gone is in no transaction.
GoneIsClosed == worker # "running" => session.txn = "none"

PoolInv ==
  /\ TypeOK
  /\ QueueOrdered
  /\ AnsweredIsTaken
  /\ IdleHasNoReply
  /\ BeginsAreAwaited
  /\ BeginsOutside
  /\ GoneIsClosed
  /\ NoOrphanTransaction
  /\ WaitersAreQueued

(* What it promises tasks that keep to themselves (Exclusive, Propagate) *)

\* A Transaction that is alive and unharmed is a transaction of the connection: no
\* ROLLBACK of an earlier one reaches it (Drop for Transaction).
ActiveIsOpen ==
  \A c \in Clients :
    tx[c] = "active" /\ awaiting[c] = "none" /\ worker = "running" => session.txn = "open"

\* When commit() returns Ok, every write of the transaction that was answered with Ok
\* is durable, and stays so (commit, Drop for Transaction).
CommitPersists == committed \subseteq session.durable

\* A write answered with Ok outside any transaction of its task is durable: it was
\* not taken into the transaction of another task (query, transaction).
AutocommitPersists == applied \subseteq session.durable

\* No write of a Transaction dropped without a commit is ever durable.
DropUndoes == doomed \cap session.durable = {}

(* Why: what is true of tasks that keep to themselves *)

\* How they do: one section at a time, errors are handed up, transaction() is awaited.
Disciplined == Exclusive /\ Propagate /\ "begin" \notin Cancellable

Staged == session.working \ session.durable
OwnedBy(c) == \A w \in Staged : w[1] = c

\* A queued write of a transaction, alive or dropped; one outside of any.
Inside(r) == r.op = "write" /\ WriteOf(r.client, r.call) \in issued[r.client] \cup doomed
Outside(r) == r.op = "write" /\ ~Inside(r)

OneSection == \A c, d \in Clients : InSection(c) /\ InSection(d) => c = d

\* What is staged is on top of what is durable, is one task's, and ends with the transaction.
SessionSound ==
  /\ session.durable \subseteq session.working
  /\ session.txn = "none" => Staged = {}
  /\ \A v, w \in Staged : v[1] = w[1]

\* Nothing is queued behind a BEGIN until it is answered; the statements of a transaction
\* meet it first, while it is open; a write outside of any waits for the ROLLBACK of the
\* transaction before it.
QueueSound ==
  /\ worker = "stopped" => queue = <<>>
  /\ \A i \in 1 .. Len(queue) :
       /\ queue[i].op = "begin" => i = Len(queue)
       /\ Inside(queue[i]) \/ queue[i].op = "commit" =>
            i = 1 /\ (worker = "running" => session.txn = "open") /\ OwnedBy(queue[i].client)
       /\ queue[i].op = "commit" => doomed \cap session.working = {}
       /\ Outside(queue[i]) /\ session.txn # "none" => \E j \in 1 .. i - 1 : queue[j].op = "rollback"

\* The queue while c is in its section.
SectionQueue(c) ==
  /\ awaiting[c] = "begin" /\ reply[c] # "none" => queue = <<>>
  /\ tx[c] = "active" =>
       \A i \in 1 .. Len(queue) :
         /\ i = 1 /\ awaiting[c] # "none" /\ reply[c] = "none"
         /\ queue[i] = [op |-> awaiting[c], client |-> c, call |-> calls[c]]
  /\ tx[c] = "failed" =>
       /\ awaiting[c] = "none"
       /\ \A i \in 1 .. Len(queue) : i = 1 /\ queue[i].client = c /\ Inside(queue[i])
  /\ tx[c] = "unknown" =>
       /\ awaiting[c] = "none"
       /\ \A i \in 1 .. Len(queue) : i = 1 /\ queue[i].client = c /\ queue[i].op = "commit"
  /\ tx[c] = "committed" =>
       /\ awaiting[c] \in {"none", "write"}
       /\ \A i \in 1 .. Len(queue) : queue[i].client = c /\ Outside(queue[i])

\* What the history says of the writes of c.
Bookkeeping(c) ==
  /\ tx[c] = "none" => issued[c] = {} /\ acked[c] = {}
  /\ \A w \in issued[c] : w[1] = c /\ w[2] <= calls[c]
  /\ issued[c] \cap doomed = {}
  /\ awaiting[c] = "commit" => tx[c] = "active"
  /\ awaiting[c] = "write" => /\ Current(c) \notin doomed
                              /\ (Current(c) \in issued[c]) = (tx[c] = "active")

\* Nothing the task has been told says otherwise.
Healthy(c) == tx[c] = "active" /\ reply[c] # "err" /\ ~(awaiting[c] = "commit" /\ reply[c] = "ok")

\* What the connection holds of the section of c.
SectionHolds(c) ==
  /\ tx[c] = "active" => OwnedBy(c) /\ doomed \cap session.working = {}
  /\ tx[c] \in {"active", "failed"} /\ awaiting[c] # "commit" => issued[c] \cap session.durable = {}
  /\ tx[c] = "committed" => session.txn = "none"
  /\ Healthy(c) /\ worker = "running" => session.txn = "open" /\ acked[c] \subseteq session.working

\* What an answer that c has not read yet means.
AnswerMeans(c) ==
  reply[c] = "ok" =>
    /\ awaiting[c] = "begin" => Staged = {} /\ (worker = "running" => session.txn = "open")
    /\ awaiting[c] = "write" /\ tx[c] = "active" /\ worker = "running" => Current(c) \in session.working
    /\ awaiting[c] = "write" /\ tx[c] \in {"none", "committed"} => Current(c) \in session.durable
    /\ awaiting[c] = "commit" => session.txn = "none" /\ acked[c] \subseteq session.durable

\* A write that was stored, or dropped with its transaction, has been made.
WritesAreMade == \A w \in doomed \cup session.working : w[2] <= calls[w[1]]

DisciplineInv ==
  /\ PoolInv
  /\ abandoned = {}
  /\ OneSection
  /\ SessionSound
  /\ QueueSound
  /\ WritesAreMade
  /\ \A c \in Clients : SectionQueue(c) /\ Bookkeeping(c) /\ SectionHolds(c) /\ AnswerMeans(c)
  /\ CommitPersists
  /\ AutocommitPersists
  /\ DropUndoes

\* The writes of client c that the connection has not made durable.
PendingOf == [c \in Clients |-> {w \in session.working \ session.durable : w[1] = c}]

Store == INSTANCE AtomicStore
           WITH Writes <- Token, durable <- session.durable, pending <- PendingOf

\* The pool implements a store of atomic, isolated transactions.
ImplementsStore == Store!Spec
=============================================================================
