------------------------ MODULE ConnectionPoolProofs ------------------------
(***************************************************************************)
(* What holds of the pool for every set of tasks, every number of calls,   *)
(* both dialects, and whatever tasks share the connection: its types, that *)
(* no suspended task is forgotten and no open transaction is orphaned.     *)
(***************************************************************************)
EXTENDS ConnectionPool, TLAPS

Answers == {"ok", "err"}
Results == [session : Session, reply : Answers]

-----------------------------------------------------------------------------
(* The connection *)

\* A statement leaves a session, whatever its effect (StatementOutcomes).
LEMMA StatementType ==
  ASSUME NEW s \in Session, NEW e \in SUBSET Token
  PROVE  StatementOutcomes(s, e) \subseteq Results
<1> USE DEF Results, Answers, Session, Outcome
<1>1. Discarded(s) \in Session
  BY DEF Discarded
<1>2. [s EXCEPT !.working = e, !.durable = e] \in Session
  OBVIOUS
<1>3. [s EXCEPT !.working = e] \in Session /\ [s EXCEPT !.txn = "failed"] \in Session
  OBVIOUS
<1>4. \A t \in Session, a \in Answers : Outcome(t, a) \in Results
  OBVIOUS
<1> HIDE DEF Results, Outcome, Session
<1>5. s.txn \in {"none", "open", "failed"}
  BY DEF Session
<1> QED
  BY <1>1, <1>2, <1>3, <1>4, <1>5 DEF StatementOutcomes, Failing

\* A statement outside a transaction opens none (StatementOutcomes).
LEMMA StatementStaysOutside ==
  ASSUME NEW s \in Session, s.txn = "none", NEW e, NEW o \in StatementOutcomes(s, e)
  PROVE  o.session.txn = "none"
<1>1. PICK t \in {s, [s EXCEPT !.working = e, !.durable = e]}, a \in Answers : o = Outcome(t, a)
  BY DEF StatementOutcomes, Failing, Answers
<1>2. t.txn = "none"
  BY <1>1 DEF Session
<1> QED
  BY <1>1, <1>2 DEF Outcome

\* Whatever a session is asked, it stays a session (Execute).
LEMMA ExecuteType ==
  ASSUME NEW s \in Session, NEW r \in Request
  PROVE  Execute(s, r) \subseteq Results
<1> USE DEF Results, Answers, Session, Outcome
<1>1. Discarded(s) \in Session /\ Published(s) \in Session
  BY DEF Discarded, Published
<1>2. BeginOutcomes(s) \subseteq Results
  BY DEF BeginOutcomes
<1>3. CommitOutcomes(s) \subseteq Results
  BY <1>1 DEF CommitOutcomes, Failing
<1>4. RollbackOutcomes(s) \subseteq Results
  BY <1>1 DEF RollbackOutcomes
<1>5. ASSUME r.op = "write"
      PROVE  StatementOutcomes(s, s.working \cup {WriteOf(r.client, r.call)}) \subseteq Results
  <2>1. s.working \cup {WriteOf(r.client, r.call)} \in SUBSET Token
    BY <1>5 DEF Request, Calls, WriteOf, Token
  <2> QED
    BY <2>1, StatementType
<1> QED
  BY <1>2, <1>3, <1>4, <1>5 DEF Execute, Request, Calls

\* Only a BEGIN opens a transaction, and then it answers Ok; a ROLLBACK leaves none.
LEMMA ExecuteOpens ==
  ASSUME NEW s \in Session, NEW r \in Request, NEW o \in Execute(s, r),
         o.session.txn # "none"
  PROVE  /\ r.op # "rollback"
         /\ s.txn = "none" => r.op = "begin" /\ o.reply = "ok"
<1> USE DEF Session, Outcome, Request, Calls
<1>1. Discarded(s).txn = "none" /\ Published(s).txn = "none"
  BY DEF Discarded, Published
<1>2. CASE r.op = "begin"
  BY <1>2 DEF Execute, BeginOutcomes
<1>3. CASE r.op = "write"
  <2>1. o \in StatementOutcomes(s, s.working \cup {WriteOf(r.client, r.call)})
    BY <1>3 DEF Execute
  <2>2. s.txn = "none" => o.session.txn = "none"
    BY <2>1, StatementStaysOutside
  <2> QED BY <1>3, <2>2
<1>4. CASE r.op = "commit"
  BY <1>1, <1>4 DEF Execute, CommitOutcomes, Failing
<1>5. CASE r.op = "rollback"
  BY <1>1, <1>5 DEF Execute, RollbackOutcomes
<1> QED
  BY <1>2, <1>3, <1>4, <1>5

\* An interrupted connection is a session in no transaction (Interrupted).
LEMMA InterruptedType ==
  ASSUME NEW s \in Session, NEW r \in Request, NEW t \in Interrupted(s, r)
  PROVE  t \in Session /\ t.txn = "none"
<1>1. \A u \in Session : Discarded(u) \in Session /\ Discarded(u).txn = "none"
  BY DEF Discarded, Session
<1>2. \A o \in Execute(s, r) : o.session \in Session
  BY ExecuteType DEF Results
<1> QED
  BY <1>1, <1>2 DEF Interrupted

-----------------------------------------------------------------------------
(* The queue *)

\* A request is appended behind the others (unbounded_send).
LEMMA AppendFacts ==
  ASSUME NEW q \in Seq(Request), NEW r \in Request
  PROVE  /\ Append(q, r) \in Seq(Request)
         /\ Len(Append(q, r)) = Len(q) + 1
         /\ \A i \in 1 .. Len(q) : Append(q, r)[i] = q[i]
         /\ Append(q, r)[Len(q) + 1] = r
OBVIOUS

\* The worker takes the first request and leaves the others (request_rx.next).
LEMMA TailFacts ==
  ASSUME NEW q \in Seq(Request), q # <<>>
  PROVE  /\ Head(q) \in Request /\ Head(q) = q[1] /\ 1 \in 1 .. Len(q)
         /\ Tail(q) \in Seq(Request)
         /\ Len(Tail(q)) = Len(q) - 1
         /\ \A i \in 1 .. Len(Tail(q)) : Tail(q)[i] = q[i + 1] /\ i + 1 \in 1 .. Len(q)
OBVIOUS

\* An answer goes to one task at most (response.send).
LEMMA AnsweredType ==
  ASSUME TypeOK, NEW r \in Request, NEW a \in Answers
  PROVE  Answered(r, a) \in [Clients -> {"none", "ok", "err"}]
BY DEF TypeOK, Answered, Request, Answers

-----------------------------------------------------------------------------
(* Types *)

\* The pool starts with every variable in its type (new, spawn of the worker).
LEMMA InitType == ASSUME Init PROVE TypeOK
BY MaxCallsAssumption DEF Init, Opened, TypeOK, Session, Request, TxState

\* A call keeps the types (Send).
LEMMA SendType ==
  ASSUME TypeOK, NEW c \in Clients, NEW op \in Calls, Send(c, op)
  PROVE  /\ queue' \in Seq(Request)
         /\ calls' \in [Clients -> 0 .. MaxCalls]
         /\ awaiting' \in [Clients -> Calls \cup {"none"}]
         /\ \A d \in Clients : awaiting'[d] # "none" => calls'[d] # 0
         /\ reply' \in [Clients -> {"none", "ok", "err"}]
         /\ UNCHANGED <<worker, session, handles, tx>>
<1>1. calls[c] + 1 \in 1 .. MaxCalls
  BY MaxCallsAssumption DEF TypeOK, Send
<1>2. [op |-> op, client |-> c, call |-> calls[c] + 1] \in Request
  BY <1>1 DEF Request
<1>3. queue' \in Seq(Request)
  <2>1. CASE worker = "stopped"
    BY <2>1 DEF Send, TypeOK
  <2>2. CASE worker # "stopped"
    <3>1. queue' = Append(queue, [op |-> op, client |-> c, call |-> calls[c] + 1])
      BY <2>2 DEF Send
    <3>2. queue \in Seq(Request)
      BY DEF TypeOK
    <3> QED
      BY <1>2, <3>1, <3>2, AppendFacts
  <2> QED
    BY <2>1, <2>2
<1>4. calls' \in [Clients -> 0 .. MaxCalls] /\ awaiting' \in [Clients -> Calls \cup {"none"}]
  BY <1>1 DEF Send, TypeOK
<1>5. \A d \in Clients : awaiting'[d] # "none" => calls'[d] # 0
  BY <1>1 DEF Send, TypeOK
<1>6. reply' \in [Clients -> {"none", "ok", "err"}]
  BY DEF Send, TypeOK
<1> QED
  BY <1>3, <1>4, <1>5, <1>6 DEF Send

\* Every step of a task or of the worker keeps the types.
LEMMA NextType == ASSUME TypeOK, [Next]_vars PROVE TypeOK'
<1>1. ASSUME NEW c \in Clients, Begin(c) PROVE TypeOK'
  <2>1. Send(c, "begin") /\ UNCHANGED history
    BY <1>1 DEF Begin
  <2> QED
    BY <2>1, SendType DEF TypeOK, history, Calls
<1>2. ASSUME NEW c \in Clients, Write(c) PROVE TypeOK'
  <2>1. Send(c, "write") /\ UNCHANGED <<acked, committed, applied, doomed, abandoned>>
    BY <1>2 DEF Write
  <2>2. WriteOf(c, calls[c] + 1) \in Token
    BY <2>1, MaxCallsAssumption DEF Send, TypeOK, WriteOf, Token
  <2>3. issued' \in [Clients -> SUBSET Token]
    BY <1>2, <2>2 DEF Write, TypeOK
  <2> QED
    BY <2>1, <2>3, SendType DEF TypeOK, Calls
<1>3. ASSUME NEW c \in Clients, Commit(c) PROVE TypeOK'
  <2>1. Send(c, "commit") /\ UNCHANGED history
    BY <1>3 DEF Commit
  <2> QED
    BY <2>1, SendType DEF TypeOK, history, Calls
<1>4. ASSUME NEW c \in Clients, BeginReturns(c) PROVE TypeOK'
  BY <1>4 DEF BeginReturns, Resume, TypeOK, TxState, history
<1>5. ASSUME NEW c \in Clients, WriteReturns(c) PROVE TypeOK'
  <2>1. reply[c] = "ok" \/ reply[c] = "err"
    BY <1>5 DEF WriteReturns, Resume, TypeOK
  <2>2. Current(c) \in Token
    BY <1>5, MaxCallsAssumption DEF WriteReturns, Resume, TypeOK, Current, WriteOf, Token
  <2> QED
    BY <1>5, <2>1, <2>2 DEF WriteReturns, Resume, TypeOK, TxState
<1>6. ASSUME NEW c \in Clients, CommitReturns(c) PROVE TypeOK'
  BY <1>6 DEF CommitReturns, Resume, TypeOK, TxState
<1>7. ASSUME NEW c \in Clients, DropTransaction(c) PROVE TypeOK'
  <2>1. Rollback(c) \in Request
    BY DEF Rollback, Request
  <2>2. queue' \in Seq(Request)
    BY <1>7, <2>1, AppendFacts DEF DropTransaction, QueueWithRollback, TypeOK
  <2> QED
    BY <1>7, <2>2 DEF DropTransaction, TypeOK, TxState
<1>8. ASSUME NEW c \in Clients, Cancel(c) PROVE TypeOK'
  BY <1>8 DEF Cancel, TypeOK, TxState
<1>9. ASSUME NEW c \in Clients, Close(c) PROVE TypeOK'
  BY <1>9 DEF Close, TypeOK, history
<1>10. ASSUME WorkerStep PROVE TypeOK'
  <2>1. PICK o \in Execute(session, Head(queue)) :
          session' = o.session /\ reply' = Answered(Head(queue), o.reply)
    BY <1>10 DEF WorkerStep
  <2>2. Head(queue) \in Request /\ queue' \in Seq(Request)
    BY <1>10, TailFacts DEF WorkerStep, TypeOK
  <2>3. o \in Results
    BY <2>2, ExecuteType DEF TypeOK
  <2>4. session' \in Session /\ reply' \in [Clients -> {"none", "ok", "err"}]
    BY <2>1, <2>2, <2>3, AnsweredType DEF Results
  <2> QED
    BY <1>10, <2>2, <2>4 DEF WorkerStep, TypeOK, history
<1>11. ASSUME WorkerStepLost PROVE TypeOK'
  <2>1. Head(queue) \in Request /\ queue' \in Seq(Request)
    BY <1>11, TailFacts DEF WorkerStepLost, TypeOK
  <2>2. reply' \in [Clients -> {"none", "ok", "err"}]
    BY <1>11, <2>1, AnsweredType DEF WorkerStepLost, Answers
  <2> QED
    BY <1>11, <2>1, <2>2 DEF WorkerStepLost, TypeOK, history
<1>12. ASSUME ConnectionLost PROVE TypeOK'
  <2>1. Head(queue) \in Request /\ queue' \in Seq(Request)
    BY <1>12, TailFacts DEF ConnectionLost, TypeOK
  <2>2. reply' \in [Clients -> {"none", "ok", "err"}]
    BY <1>12, <2>1, AnsweredType DEF ConnectionLost, Answers
  <2>3. session' \in Session
    BY <1>12, <2>1, InterruptedType DEF ConnectionLost, TypeOK
  <2> QED
    BY <1>12, <2>1, <2>2, <2>3 DEF ConnectionLost, TypeOK, history
<1>13. ASSUME WorkerDies PROVE TypeOK'
  <2>1. Head(queue) \in Request
    BY <1>13, TailFacts DEF WorkerDies, TypeOK
  <2>2. session' \in Session
    BY <1>13, <2>1, InterruptedType DEF WorkerDies, TypeOK
  <2>3. reply' \in [Clients -> {"none", "ok", "err"}]
    BY <1>13 DEF WorkerDies, WakeAll, TypeOK
  <2> QED
    BY <1>13, <2>2, <2>3 DEF WorkerDies, TypeOK, history
<1>14. ASSUME WorkerExits PROVE TypeOK'
  <2>1. Discarded(session) \in Session
    BY DEF Discarded, Session, TypeOK
  <2> QED
    BY <1>14, <2>1 DEF WorkerExits, TypeOK, history
<1>15. ASSUME UNCHANGED vars PROVE TypeOK'
  BY <1>15 DEF vars, program, history, TypeOK
<1> QED
  BY <1>1, <1>2, <1>3, <1>4, <1>5, <1>6, <1>7, <1>8, <1>9, <1>10, <1>11, <1>12,
     <1>13, <1>14, <1>15 DEF Next, Task, Returns, Worker, Finished

\* The variables of the pool keep their types whatever its tasks do.
THEOREM TypeCorrect == Spec => []TypeOK
<1>1. Init => TypeOK
  BY InitType
<1>2. TypeOK /\ [Next]_vars => TypeOK'
  BY NextType
<1> QED
  BY <1>1, <1>2, PTL DEF Spec

-----------------------------------------------------------------------------
(* The queue and the tasks that wait on it *)

\* The worker takes the first request and answers it with a.
Take(a) ==
  /\ queue # <<>>
  /\ queue' = Tail(queue)
  /\ reply' = Answered(Head(queue), a)
  /\ UNCHANGED <<calls, awaiting, abandoned>>

\* The queue is gone; nobody is left waiting for it.
Hangup ==
  /\ queue' = <<>>
  /\ \/ queue = <<>> /\ reply' = reply
     \/ reply' = WakeAll
  /\ UNCHANGED <<calls, awaiting, abandoned>>

waiting == <<queue, calls, awaiting, reply, abandoned>>

\* What a step can do to the queue and to those who wait on it.
LEMMA StepKinds ==
  ASSUME TypeOK, [Next]_vars
  PROVE  \/ \E c \in Clients, op \in Calls : Send(c, op) /\ UNCHANGED abandoned
         \/ \E c \in Clients, op \in Calls : Resume(c, op) /\ UNCHANGED abandoned
         \/ \E c \in Clients : DropTransaction(c) \/ Cancel(c)
         \/ \E a \in Answers : Take(a)
         \/ Hangup
         \/ UNCHANGED waiting
<1>1. ASSUME NEW c \in Clients, Begin(c) \/ Write(c) \/ Commit(c)
      PROVE  \E op \in Calls : Send(c, op) /\ UNCHANGED abandoned
  BY <1>1 DEF Begin, Write, Commit, Calls, history
<1>2. ASSUME NEW c \in Clients, Returns(c)
      PROVE  \E op \in Calls : Resume(c, op) /\ UNCHANGED abandoned
  BY <1>2 DEF Returns, BeginReturns, WriteReturns, CommitReturns, Calls, history
<1>3. ASSUME NEW c \in Clients, Close(c) PROVE UNCHANGED waiting
  BY <1>3 DEF Close, history, waiting
<1>4. ASSUME WorkerStep PROVE \E a \in Answers : Take(a)
  <2>1. PICK o \in Execute(session, Head(queue)) : reply' = Answered(Head(queue), o.reply)
    BY <1>4 DEF WorkerStep
  <2>2. o.reply \in Answers
    BY <1>4, <2>1, TailFacts, ExecuteType DEF WorkerStep, TypeOK, Results
  <2> QED
    BY <1>4, <2>1, <2>2 DEF WorkerStep, Take, history
<1>5. ASSUME WorkerStepLost \/ ConnectionLost PROVE \E a \in Answers : Take(a)
  BY <1>5 DEF WorkerStepLost, ConnectionLost, Take, Answers, history
<1>6. ASSUME WorkerDies \/ WorkerExits PROVE Hangup
  BY <1>6 DEF WorkerDies, WorkerExits, Hangup, history
<1>7. ASSUME Finished \/ UNCHANGED vars PROVE UNCHANGED waiting
  BY <1>7 DEF Finished, vars, program, history, waiting
<1> QED
  BY <1>1, <1>2, <1>3, <1>4, <1>5, <1>6, <1>7 DEF Next, Task, Worker

\* The part of PoolInv that is about the queue.
QueueInv ==
  /\ TypeOK
  /\ QueueOrdered
  /\ AnsweredIsTaken
  /\ IdleHasNoReply
  /\ BeginsAreAwaited
  /\ WaitersAreQueued

\* A call puts its request last, under a number higher than those before it (Send).
LEMMA SendQueue ==
  ASSUME QueueInv, NEW c \in Clients, NEW op \in Calls, Send(c, op), UNCHANGED abandoned,
         TypeOK'
  PROVE  QueueInv'
<1> DEFINE r == [op |-> op, client |-> c, call |-> calls[c] + 1]
<1>1. r \in Request
  BY MaxCallsAssumption DEF QueueInv, TypeOK, Send, Request
<1>2. awaiting[c] = "none" /\ reply[c] = "none" /\ op # "none" /\ op # "rollback"
  BY DEF QueueInv, IdleHasNoReply, Send, Idle, Calls
<1>3. /\ calls'[c] = calls[c] + 1 /\ awaiting'[c] = op
      /\ \A d \in Clients \ {c} : calls'[d] = calls[d] /\ awaiting'[d] = awaiting[d] /\ reply'[d] = reply[d]
      /\ \A d \in Clients : calls[d] \in Nat /\ calls'[d] \in Nat /\ calls[d] <= calls'[d]
  BY MaxCallsAssumption DEF QueueInv, TypeOK, Send
<1>4. queue \in Seq(Request) /\ Len(queue) \in Nat
  BY DEF QueueInv, TypeOK
<1>5. \A i \in 1 .. Len(queue) : queue[i] \in Request /\ queue[i].client \in Clients
  BY <1>4 DEF Request
<1>6. IdleHasNoReply'
  BY <1>2, <1>3 DEF QueueInv, IdleHasNoReply
<1>7. \A i \in 1 .. Len(queue) : queue[i].op # "rollback" =>
        queue[i].call \in Nat /\ queue[i].call <= calls[queue[i].client]
  BY <1>5, MaxCallsAssumption DEF QueueInv, QueueOrdered, Request
<1>8. \A i \in 1 .. Len(queue) :
        queue[i].op # "rollback" /\ awaiting'[queue[i].client] # "none"
                                 /\ calls'[queue[i].client] = queue[i].call
          => Listening(queue[i]) /\ queue[i].client # c
  BY <1>3, <1>5, <1>7 DEF Listening
<1>9. CASE worker = "stopped"
  <2>1. queue' = queue
    BY <1>9 DEF Send
  <2>2. QueueOrdered'
    BY <1>3, <1>5, <1>7, <2>1 DEF QueueInv, QueueOrdered
  <2>3. AnsweredIsTaken'
    BY <1>3, <1>5, <1>8, <2>1 DEF QueueInv, AnsweredIsTaken, Listening
  <2>4. BeginsAreAwaited'
    BY <1>2, <1>3, <1>5, <2>1 DEF QueueInv, BeginsAreAwaited
  <2>5. reply'[c] = "err"
    BY <1>9 DEF Send, QueueInv, TypeOK
  <2>6. WaitersAreQueued'
    BY <1>3, <2>1, <2>5 DEF QueueInv, WaitersAreQueued
  <2> QED
    BY <1>6, <2>2, <2>3, <2>4, <2>6 DEF QueueInv
<1>10. CASE worker # "stopped"
  <2>1. queue' = Append(queue, r) /\ reply' = reply
    BY <1>10 DEF Send
  <2>2. /\ Len(queue') = Len(queue) + 1 /\ queue'[Len(queue) + 1] = r
        /\ \A i \in 1 .. Len(queue) : queue'[i] = queue[i]
    BY <1>1, <1>4, <2>1, AppendFacts
  <2>3. \A i \in 1 .. Len(queue') : i \in 1 .. Len(queue) \/ i = Len(queue) + 1
    BY <1>4, <2>2
  <2>4. r.op = op /\ r.client = c /\ r.call = calls'[c]
    BY <1>3
  <2> HIDE DEF r
  <2>5. QueueOrdered'
    <3>1. ASSUME NEW i \in 1 .. Len(queue'), queue'[i].op # "rollback"
          PROVE  queue'[i].call <= calls'[queue'[i].client]
      BY <1>3, <1>5, <1>7, <2>2, <2>3, <2>4, <3>1
    <3>2. ASSUME NEW i \in 1 .. Len(queue'), NEW j \in 1 .. Len(queue'), i < j,
                 queue'[i].op # "rollback", queue'[j].op # "rollback",
                 queue'[i].client = queue'[j].client
          PROVE  queue'[i].call < queue'[j].call
      <4>1. i \in 1 .. Len(queue)
        BY <1>4, <2>2, <3>2
      <4>2. CASE j \in 1 .. Len(queue)
        BY <2>2, <3>2, <4>1, <4>2 DEF QueueInv, QueueOrdered
      <4>3. CASE j = Len(queue) + 1
        BY <1>3, <1>7, <2>2, <2>4, <3>2, <4>1, <4>3
      <4> QED
        BY <2>3, <4>2, <4>3
    <3> QED
      BY <3>1, <3>2 DEF QueueOrdered
  <2>6. AnsweredIsTaken'
    <3>1. ASSUME NEW i \in 1 .. Len(queue'), queue'[i].op # "rollback",
                 awaiting'[queue'[i].client] # "none",
                 calls'[queue'[i].client] = queue'[i].call
          PROVE  reply'[queue'[i].client] = "none"
      <4>1. CASE i \in 1 .. Len(queue)
        BY <1>8, <2>1, <2>2, <3>1, <4>1 DEF QueueInv, AnsweredIsTaken
      <4>2. CASE i = Len(queue) + 1
        BY <1>2, <2>1, <2>2, <2>4, <4>2
      <4> QED
        BY <2>3, <4>1, <4>2
    <3> QED
      BY <3>1 DEF AnsweredIsTaken, Listening
  <2>7. BeginsAreAwaited'
    BY <1>2, <1>3, <1>5, <2>2, <2>3, <2>4 DEF QueueInv, BeginsAreAwaited
  <2>8. WaitersAreQueued'
    <3>1. ASSUME NEW d \in Clients, awaiting'[d] # "none", reply'[d] = "none"
          PROVE  \E i \in 1 .. Len(queue') :
                   queue'[i] = [op |-> awaiting'[d], client |-> d, call |-> calls'[d]]
      <4>1. CASE d = c
        BY <1>3, <1>4, <2>2, <4>1 DEF r
      <4>2. CASE d # c
        <5>1. PICK i \in 1 .. Len(queue) :
                queue[i] = [op |-> awaiting[d], client |-> d, call |-> calls[d]]
          BY <1>3, <2>1, <3>1, <4>2 DEF QueueInv, WaitersAreQueued
        <5> QED
          BY <1>3, <1>4, <2>2, <4>2, <5>1
      <4> QED
        BY <4>1, <4>2
    <3> QED
      BY <3>1 DEF WaitersAreQueued
  <2> QED
    BY <1>6, <2>5, <2>6, <2>7, <2>8 DEF QueueInv
<1> QED
  BY <1>9, <1>10

\* A task that stops waiting leaves the queue as it is (Resume, Cancel).
LEMMA WakeQueue ==
  ASSUME QueueInv, TypeOK', NEW c \in Clients, awaiting[c] # "none",
         awaiting' = [awaiting EXCEPT ![c] = "none"], reply' = [reply EXCEPT ![c] = "none"],
         UNCHANGED <<queue, calls>>, abandoned \subseteq abandoned',
         reply[c] # "none" \/ (awaiting[c] = "begin" => c \in abandoned')
  PROVE  QueueInv'
<1>1. /\ awaiting'[c] = "none" /\ reply'[c] = "none"
      /\ \A d \in Clients \ {c} : awaiting'[d] = awaiting[d] /\ reply'[d] = reply[d]
  BY DEF QueueInv, TypeOK
<1>2. \A i \in 1 .. Len(queue) : queue[i] \in Request /\ queue[i].client \in Clients
  BY DEF QueueInv, TypeOK, Request
<1>3. QueueOrdered'
  BY DEF QueueInv, QueueOrdered
<1>4. AnsweredIsTaken'
  BY <1>1, <1>2 DEF QueueInv, AnsweredIsTaken, Listening
<1>5. IdleHasNoReply'
  BY <1>1 DEF QueueInv, IdleHasNoReply
<1>6. BeginsAreAwaited'
  <2>1. ASSUME NEW i \in 1 .. Len(queue), queue[i].op = "begin", queue[i].client = c
        PROVE  c \in abandoned'
    <3>1. CASE c \in abandoned
      BY <3>1
    <3>2. CASE c \notin abandoned
      <4>1. awaiting[c] = "begin" /\ Listening(queue[i])
        BY <2>1, <3>2 DEF QueueInv, BeginsAreAwaited, Listening
      <4>2. reply[c] = "none"
        BY <2>1, <4>1 DEF QueueInv, AnsweredIsTaken
      <4> QED
        BY <4>1, <4>2
    <3> QED
      BY <3>1, <3>2
  <2>2. ASSUME NEW i \in 1 .. Len(queue), queue[i].op = "begin", queue[i].client # c
        PROVE  \/ queue[i].client \in abandoned'
               \/ awaiting'[queue[i].client] = "begin" /\ calls[queue[i].client] = queue[i].call
    BY <1>1, <1>2, <2>2 DEF QueueInv, BeginsAreAwaited
  <2> QED
    BY <2>1, <2>2 DEF BeginsAreAwaited
<1>7. WaitersAreQueued'
  BY <1>1 DEF QueueInv, WaitersAreQueued
<1> QED
  BY <1>3, <1>4, <1>5, <1>6, <1>7 DEF QueueInv

\* A dropped Transaction puts its ROLLBACK last; nobody waits for it.
LEMMA DropQueue ==
  ASSUME QueueInv, TypeOK', NEW c \in Clients, DropTransaction(c)
  PROVE  QueueInv'
<1>1. UNCHANGED <<calls, awaiting, reply, abandoned>>
  BY DEF DropTransaction
<1>2. queue \in Seq(Request) /\ Len(queue) \in Nat
  BY DEF QueueInv, TypeOK
<1>3. CASE queue' = queue
  BY <1>1, <1>3 DEF QueueInv, QueueOrdered, AnsweredIsTaken, IdleHasNoReply, BeginsAreAwaited,
                    WaitersAreQueued, Listening
<1>4. CASE queue' = Append(queue, Rollback(c))
  <2>1. Rollback(c) \in Request /\ Rollback(c).op = "rollback"
    BY DEF Rollback, Request
  <2>2. /\ Len(queue') = Len(queue) + 1 /\ queue'[Len(queue) + 1].op = "rollback"
        /\ \A i \in 1 .. Len(queue) : queue'[i] = queue[i]
    BY <1>2, <1>4, <2>1, AppendFacts
  <2>3. \A i \in 1 .. Len(queue') : queue'[i].op # "rollback" => i \in 1 .. Len(queue)
    BY <1>2, <2>2
  <2>4. QueueOrdered'
    BY <1>1, <2>2, <2>3 DEF QueueInv, QueueOrdered
  <2>5. AnsweredIsTaken'
    BY <1>1, <2>2, <2>3 DEF QueueInv, AnsweredIsTaken, Listening
  <2>6. BeginsAreAwaited'
    BY <1>1, <2>2, <2>3 DEF QueueInv, BeginsAreAwaited
  <2>7. WaitersAreQueued'
    BY <1>1, <1>2, <2>2 DEF QueueInv, WaitersAreQueued
  <2> QED
    BY <1>1, <2>4, <2>5, <2>6, <2>7 DEF QueueInv, IdleHasNoReply
<1> QED
  BY <1>3, <1>4 DEF DropTransaction, QueueWithRollback

\* A request taken is a request answered, and it is nobody else's (Take).
LEMMA TakeQueue ==
  ASSUME QueueInv, TypeOK', NEW a \in Answers, Take(a)
  PROVE  QueueInv'
<1>1. UNCHANGED <<calls, awaiting, abandoned>>
  BY DEF Take
<1>2. /\ Head(queue) = queue[1] /\ Head(queue) \in Request /\ 1 \in 1 .. Len(queue)
      /\ Len(queue') = Len(queue) - 1
      /\ \A i \in 1 .. Len(queue') : queue'[i] = queue[i + 1] /\ i + 1 \in 1 .. Len(queue)
  BY TailFacts DEF Take, QueueInv, TypeOK
<1>3. queue \in Seq(Request) /\ Len(queue) \in Nat
  BY DEF QueueInv, TypeOK
<1>4. \A i \in 1 .. Len(queue) : queue[i] \in Request /\ queue[i].client \in Clients
  BY <1>3 DEF Request
<1>5. ASSUME NEW d \in Clients
      PROVE  reply'[d] = IF Listening(queue[1]) /\ queue[1].client = d THEN a ELSE reply[d]
  BY <1>2, <1>4 DEF Take, Answered, QueueInv, TypeOK
<1>6. QueueOrdered'
  <2>1. ASSUME NEW i \in 1 .. Len(queue'), queue'[i].op # "rollback"
        PROVE  queue'[i].call <= calls[queue'[i].client]
    BY <1>2, <2>1 DEF QueueInv, QueueOrdered
  <2>2. ASSUME NEW i \in 1 .. Len(queue'), NEW j \in 1 .. Len(queue'), i < j,
               queue'[i].op # "rollback", queue'[j].op # "rollback",
               queue'[i].client = queue'[j].client
        PROVE  queue'[i].call < queue'[j].call
    <3>1. i + 1 \in 1 .. Len(queue) /\ j + 1 \in 1 .. Len(queue) /\ i + 1 < j + 1
      BY <1>2, <1>3, <2>2
    <3>2. queue'[i] = queue[i + 1] /\ queue'[j] = queue[j + 1]
      BY <1>2
    <3> QED
      BY <2>2, <3>1, <3>2 DEF QueueInv, QueueOrdered
  <2> QED
    BY <1>1, <2>1, <2>2 DEF QueueOrdered
<1>7. AnsweredIsTaken'
  <2>1. ASSUME NEW i \in 1 .. Len(queue'), queue'[i].op # "rollback",
               awaiting[queue'[i].client] # "none", calls[queue'[i].client] = queue'[i].call
        PROVE  reply'[queue'[i].client] = "none"
    <3>1. Listening(queue[i + 1]) /\ reply[queue[i + 1].client] = "none"
      BY <1>2, <2>1 DEF QueueInv, AnsweredIsTaken, Listening
    <3>2. ~(Listening(queue[1]) /\ queue[1].client = queue[i + 1].client)
      <4>1. SUFFICES ASSUME Listening(queue[1]), queue[1].client = queue[i + 1].client
                     PROVE  FALSE
        OBVIOUS
      <4>2. queue[1].call < queue[i + 1].call
        BY <1>2, <1>3, <2>1, <3>1, <4>1 DEF QueueInv, QueueOrdered, Listening
      <4>3. queue[1].call = queue[i + 1].call
        BY <3>1, <4>1 DEF Listening
      <4>4. queue[1].call \in Nat
        BY <1>2, <1>4, MaxCallsAssumption DEF Request
      <4> QED
        BY <4>2, <4>3, <4>4
    <3> QED
      BY <1>2, <1>4, <1>5, <2>1, <3>1, <3>2
  <2> QED
    BY <1>1, <2>1 DEF AnsweredIsTaken, Listening
<1>8. IdleHasNoReply'
  BY <1>1, <1>5 DEF QueueInv, IdleHasNoReply, Listening
<1>9. BeginsAreAwaited'
  BY <1>1, <1>2 DEF QueueInv, BeginsAreAwaited
<1>10. WaitersAreQueued'
  <2>1. ASSUME NEW d \in Clients, awaiting[d] # "none", reply'[d] = "none"
        PROVE  \E i \in 1 .. Len(queue') :
                 queue'[i] = [op |-> awaiting[d], client |-> d, call |-> calls[d]]
    <3>1. reply[d] = "none" /\ ~(Listening(queue[1]) /\ queue[1].client = d)
      BY <1>5, <2>1 DEF Answers
    <3>2. PICK i \in 1 .. Len(queue) :
            queue[i] = [op |-> awaiting[d], client |-> d, call |-> calls[d]]
      BY <2>1, <3>1 DEF QueueInv, WaitersAreQueued
    <3>3. Listening(queue[i]) /\ queue[i].client = d
      <4>1. awaiting[d] \in Calls
        BY <2>1 DEF QueueInv, TypeOK
      <4>2. awaiting[d] # "rollback"
        BY <4>1 DEF Calls
      <4> QED
        BY <2>1, <3>2, <4>2 DEF Listening
    <3>4. i # 1 /\ i - 1 \in 1 .. Len(queue') /\ queue'[i - 1] = queue[i]
      BY <1>2, <1>3, <3>1, <3>3
    <3> QED
      BY <3>2, <3>4
  <2> QED
    BY <1>1, <2>1 DEF WaitersAreQueued
<1> QED
  BY <1>6, <1>7, <1>8, <1>9, <1>10 DEF QueueInv

\* When the queue goes, everybody who waited on it is told (WakeAll).
LEMMA HangupQueue ==
  ASSUME QueueInv, TypeOK', Hangup
  PROVE  QueueInv'
<1>1. UNCHANGED <<calls, awaiting, abandoned>> /\ Len(queue') = 0
  BY DEF Hangup
<1>2. IdleHasNoReply' /\ WaitersAreQueued'
  <2>1. CASE queue = <<>> /\ reply' = reply
    BY <1>1, <2>1 DEF QueueInv, IdleHasNoReply, WaitersAreQueued
  <2>2. CASE reply' = WakeAll
    BY <1>1, <2>2 DEF WakeAll, QueueInv, IdleHasNoReply, WaitersAreQueued
  <2> QED
    BY <2>1, <2>2 DEF Hangup
<1> QED
  BY <1>1, <1>2 DEF QueueInv, QueueOrdered, AnsweredIsTaken, BeginsAreAwaited

\* Every step keeps what is true of the queue and of those who wait on it.
LEMMA QueueStep == ASSUME QueueInv, [Next]_vars PROVE QueueInv'
<1> USE DEF QueueInv
<1>1. TypeOK'
  BY NextType
<1>2. ASSUME NEW c \in Clients, NEW op \in Calls, Send(c, op), UNCHANGED abandoned
      PROVE  QueueInv'
  BY <1>1, <1>2, SendQueue
<1>3. ASSUME NEW c \in Clients, NEW op \in Calls, Resume(c, op), UNCHANGED abandoned
      PROVE  QueueInv'
  BY <1>1, <1>3, WakeQueue DEF Resume, Calls
<1>4. ASSUME NEW c \in Clients, Cancel(c) PROVE QueueInv'
  BY <1>1, <1>4, WakeQueue, CancellableAssumption DEF Cancel, Calls
<1>5. ASSUME UNCHANGED waiting PROVE QueueInv'
  BY <1>1, <1>5 DEF waiting, QueueOrdered, AnsweredIsTaken, IdleHasNoReply, BeginsAreAwaited,
                    WaitersAreQueued, Listening
<1> QED
  BY <1>1, <1>2, <1>3, <1>4, <1>5, StepKinds, DropQueue, TakeQueue, HangupQueue

\* It is true of the empty queue nobody waits on.
LEMMA InitQueue == ASSUME Init PROVE QueueInv
BY InitType DEF Init, QueueInv, QueueOrdered, AnsweredIsTaken, IdleHasNoReply,
                BeginsAreAwaited, WaitersAreQueued

\* No task waits for a request that is neither queued nor answered: neither the worker
\* loop nor the loss of the connection or of the worker forgets one.
THEOREM WaitersStayQueued == Spec => []WaitersAreQueued
<1>1. Init => QueueInv
  BY InitQueue
<1>2. QueueInv /\ [Next]_vars => QueueInv'
  BY QueueStep
<1>3. QueueInv => WaitersAreQueued
  BY DEF QueueInv
<1> QED
  BY <1>1, <1>2, <1>3, PTL DEF Spec

-----------------------------------------------------------------------------
(* The open transaction *)

\* A connection that is lost, or closed, has left its transaction.
LEMMA GoneStep == ASSUME TypeOK, GoneIsClosed, [Next]_vars PROVE GoneIsClosed'
<1>1. ASSUME ConnectionLost \/ WorkerDies PROVE GoneIsClosed'
  BY <1>1, TailFacts, InterruptedType DEF ConnectionLost, WorkerDies, TypeOK, GoneIsClosed
<1>2. ASSUME WorkerExits PROVE GoneIsClosed'
  BY <1>2 DEF WorkerExits, Discarded, GoneIsClosed, TypeOK, Session
<1>3. ASSUME WorkerStep PROVE GoneIsClosed'
  BY <1>3 DEF WorkerStep, GoneIsClosed
<1>4. ASSUME UNCHANGED <<worker, session>> PROVE GoneIsClosed'
  BY <1>4 DEF GoneIsClosed
<1>5. ASSUME NEW c \in Clients, Task(c) PROVE UNCHANGED <<worker, session>>
  BY <1>5 DEF Task, Begin, Write, Commit, Send, Returns, BeginReturns, WriteReturns,
              CommitReturns, Resume, DropTransaction, Cancel, Close
<1>6. ASSUME WorkerStepLost \/ Finished \/ UNCHANGED vars PROVE UNCHANGED <<worker, session>>
  BY <1>6 DEF WorkerStepLost, Finished, vars, program
<1> QED
  BY <1>1, <1>2, <1>3, <1>4, <1>5, <1>6 DEF Next, Worker

\* Who will roll the open transaction back; NoOrphanTransaction is
\* session.txn # "none" => Held.
Held ==
  \/ abandoned # {}
  \/ \E c \in Clients : tx[c] # "none"
  \/ \E c \in Clients : awaiting[c] = "begin" /\ reply[c] = "ok"
  \/ \E i \in 1 .. Len(queue) : queue[i].op = "rollback"

\* A step of a task leaves the transaction open and hands it on.
LEMMA TaskHolds ==
  ASSUME PoolInv, TypeOK', NEW c \in Clients, Task(c), session.txn # "none"
  PROVE  Held'
<1>1. Held
  BY DEF PoolInv, NoOrphanTransaction, Held
<1>2. worker = "running"
  BY DEF PoolInv, GoneIsClosed
<1>3. queue \in Seq(Request) /\ Len(queue) \in Nat
  BY DEF PoolInv, TypeOK
<1>4. ASSUME NEW op \in Calls, Send(c, op), UNCHANGED abandoned PROVE Held'
  <2>1. \A i \in 1 .. Len(queue) : i \in 1 .. Len(queue') /\ queue'[i] = queue[i]
    <3>1. [op |-> op, client |-> c, call |-> calls[c] + 1] \in Request
      BY <1>4, MaxCallsAssumption DEF PoolInv, TypeOK, Send, Request
    <3>2. queue' = Append(queue, [op |-> op, client |-> c, call |-> calls[c] + 1])
      BY <1>2, <1>4 DEF Send
    <3> QED
      BY <1>3, <3>1, <3>2, AppendFacts
  <2>2. ASSUME NEW d \in Clients, awaiting[d] = "begin"
        PROVE  awaiting'[d] = "begin" /\ reply'[d] = reply[d]
    BY <1>2, <1>4, <2>2 DEF Send, Idle, PoolInv, TypeOK
  <2> QED
    BY <1>1, <1>4, <2>1, <2>2 DEF Held, Send
<1>5. ASSUME BeginReturns(c) PROVE Held'
  <2>1. CASE awaiting[c] = "begin" /\ reply[c] = "ok"
    BY <1>5, <2>1 DEF BeginReturns, Held, PoolInv, TypeOK
  <2>2. CASE reply[c] # "ok"
    <3>1. tx' = tx /\ UNCHANGED <<queue, abandoned>>
      BY <1>5, <2>2 DEF BeginReturns, Resume, history, PoolInv, TypeOK, BeginsOutside
    <3>2. \A d \in Clients : awaiting[d] = "begin" /\ reply[d] = "ok"
            => awaiting'[d] = "begin" /\ reply'[d] = "ok"
      BY <1>5, <2>2 DEF BeginReturns, Resume, PoolInv, TypeOK
    <3> QED
      BY <1>1, <3>1, <3>2 DEF Held
  <2> QED
    BY <1>5, <2>1, <2>2 DEF BeginReturns, Resume
<1>6. ASSUME WriteReturns(c) \/ CommitReturns(c) PROVE Held'
  <2>1. tx'[c] # "none" \/ tx' = tx
    BY <1>6 DEF WriteReturns, CommitReturns, PoolInv, TypeOK
  <2>2. \A d \in Clients : awaiting[d] = "begin" => awaiting'[d] = "begin" /\ reply'[d] = reply[d]
    BY <1>6 DEF WriteReturns, CommitReturns, Resume, PoolInv, TypeOK
  <2>3. UNCHANGED <<queue, abandoned>>
    BY <1>6 DEF WriteReturns, CommitReturns, Resume
  <2> QED
    BY <1>1, <2>1, <2>2, <2>3 DEF Held
<1>7. ASSUME DropTransaction(c) PROVE Held'
  <2>1. Rollback(c) \in Request /\ Rollback(c).op = "rollback"
    BY DEF Rollback, Request
  <2>2. queue' = Append(queue, Rollback(c))
    BY <1>2, <1>7 DEF DropTransaction, QueueWithRollback
  <2> QED
    BY <1>3, <2>1, <2>2, AppendFacts DEF Held
<1>8. ASSUME Cancel(c) PROVE Held'
  <2>1. CASE awaiting[c] = "begin"
    BY <1>8, <2>1 DEF Cancel, Held
  <2>2. CASE awaiting[c] # "begin"
    BY <1>1, <1>8, <2>2 DEF Cancel, Held, PoolInv, TypeOK, TxState
  <2> QED
    BY <2>1, <2>2
<1>9. ASSUME Close(c) PROVE Held'
  BY <1>1, <1>9 DEF Close, history, Held
<1> QED
  BY <1>4, <1>5, <1>6, <1>7, <1>8, <1>9
     DEF Task, Begin, Write, Commit, Returns, Calls, history

\* A step of the worker ends the transaction, opens it for the task that waits for
\* the BEGIN, or leaves it to those who hold it.
LEMMA WorkerHolds ==
  ASSUME PoolInv, TypeOK', Worker, session'.txn # "none", GoneIsClosed'
  PROVE  Held'
<1>1. WorkerStep
  BY DEF Worker, WorkerStepLost, ConnectionLost, WorkerDies, WorkerExits, GoneIsClosed, PoolInv
<1>2. PICK o \in Execute(session, Head(queue)) :
        session' = o.session /\ reply' = Answered(Head(queue), o.reply)
  BY <1>1 DEF WorkerStep
<1>3. /\ Head(queue) = queue[1] /\ Head(queue) \in Request /\ 1 \in 1 .. Len(queue)
      /\ Len(queue') = Len(queue) - 1
      /\ \A i \in 1 .. Len(queue') : queue'[i] = queue[i + 1]
      /\ Len(queue) \in Nat
  BY <1>1, TailFacts DEF WorkerStep, PoolInv, TypeOK
<1>4. UNCHANGED <<tx, awaiting, calls, abandoned>>
  BY <1>1 DEF WorkerStep, history
<1>5. /\ queue[1].op # "rollback"
      /\ session.txn = "none" => queue[1].op = "begin" /\ o.reply = "ok"
  BY <1>2, <1>3, ExecuteOpens DEF PoolInv, TypeOK
<1>6. queue[1].client \in Clients
  BY <1>3 DEF Request
<1>7. CASE session.txn = "none"
  <2>1. queue[1].client \in abandoned \/ (Listening(queue[1]) /\ awaiting[queue[1].client] = "begin")
    BY <1>3, <1>5, <1>7 DEF PoolInv, BeginsAreAwaited, Listening
  <2>2. Listening(queue[1]) => reply'[queue[1].client] = "ok"
    BY <1>2, <1>3, <1>5, <1>6, <1>7 DEF Answered, PoolInv, TypeOK
  <2> QED
    BY <1>4, <1>6, <2>1, <2>2 DEF Held
<1>8. CASE session.txn # "none"
  <2>1. Held
    BY <1>8 DEF PoolInv, NoOrphanTransaction, Held
  <2>2. ASSUME NEW i \in 1 .. Len(queue), queue[i].op = "rollback" PROVE Held'
    <3>1. i # 1 /\ i - 1 \in 1 .. Len(queue') /\ queue'[i - 1] = queue[i]
      BY <1>3, <1>5, <2>2
    <3> QED
      BY <2>2, <3>1 DEF Held
  <2>3. ASSUME NEW d \in Clients, awaiting[d] = "begin", reply[d] = "ok" PROVE Held'
    <3>1. ~(Listening(queue[1]) /\ queue[1].client = d)
      BY <1>3, <2>3 DEF PoolInv, AnsweredIsTaken
    <3>2. reply'[d] = "ok"
      BY <1>2, <1>3, <1>6, <2>3, <3>1 DEF Answered, PoolInv, TypeOK
    <3> QED
      BY <1>4, <2>3, <3>2 DEF Held
  <2> QED
    BY <1>4, <2>1, <2>2, <2>3 DEF Held
<1> QED
  BY <1>7, <1>8

\* A task asks for a transaction only when it holds none, and is given one only then.
LEMMA BeginsOutsideStep == ASSUME TypeOK, BeginsOutside, [Next]_vars PROVE BeginsOutside'
<1>1. ASSUME NEW c \in Clients, Begin(c) \/ Write(c) \/ Commit(c) PROVE BeginsOutside'
  BY <1>1 DEF Begin, Write, Commit, Send, BeginsOutside, TypeOK
<1>2. ASSUME NEW c \in Clients, Returns(c) \/ Cancel(c) PROVE BeginsOutside'
  BY <1>2 DEF Returns, BeginReturns, WriteReturns, CommitReturns, Resume, Cancel, BeginsOutside, TypeOK
<1>3. ASSUME NEW c \in Clients, DropTransaction(c) \/ Close(c) PROVE BeginsOutside'
  BY <1>3 DEF DropTransaction, Close, BeginsOutside, TypeOK
<1>4. ASSUME Worker \/ Finished \/ UNCHANGED vars PROVE BeginsOutside'
  BY <1>4 DEF Worker, WorkerStep, WorkerStepLost, ConnectionLost, WorkerDies, WorkerExits,
              Finished, vars, program, BeginsOutside
<1> QED
  BY <1>1, <1>2, <1>3, <1>4 DEF Next, Task

\* Every step keeps the inductive invariant of the pool.
LEMMA PoolInvStep == ASSUME PoolInv, [Next]_vars PROVE PoolInv'
<1>1. QueueInv' /\ TypeOK'
  BY QueueStep DEF PoolInv, QueueInv
<1>2. GoneIsClosed'
  BY GoneStep DEF PoolInv
<1>3. BeginsOutside'
  BY BeginsOutsideStep DEF PoolInv
<1>4. NoOrphanTransaction'
  <2>1. SUFFICES ASSUME session'.txn # "none" PROVE Held'
    BY DEF NoOrphanTransaction, Held
  <2>2. ASSUME NEW c \in Clients, Task(c) PROVE session' = session
    BY <2>2 DEF Task, Begin, Write, Commit, Send, Returns, BeginReturns, WriteReturns,
                CommitReturns, Resume, DropTransaction, Cancel, Close
  <2>3. ASSUME NEW c \in Clients, Task(c) PROVE Held'
    BY <1>1, <2>1, <2>2, <2>3, TaskHolds
  <2>4. CASE Worker
    BY <1>1, <1>2, <2>1, <2>4, WorkerHolds
  <2>5. CASE UNCHANGED vars
    BY <2>1, <2>5 DEF vars, program, history, PoolInv, NoOrphanTransaction, Held
  <2> QED
    BY <2>3, <2>4, <2>5 DEF Next, Finished
<1> QED
  BY <1>1, <1>2, <1>3, <1>4 DEF PoolInv, QueueInv

\* The inductive invariant of the pool.
THEOREM PoolInvariant == Spec => []PoolInv
<1>1. Init => PoolInv
  BY InitQueue DEF Init, Opened, PoolInv, QueueInv, GoneIsClosed, BeginsOutside, NoOrphanTransaction
<1>2. PoolInv /\ [Next]_vars => PoolInv'
  BY PoolInvStep
<1> QED
  BY <1>1, <1>2, PTL DEF Spec

\* No transaction of the connection is left without somebody who will roll it back,
\* unless a transaction() call was cancelled: the ROLLBACK of the drop is enough.
THEOREM NoTransactionIsOrphaned == Spec => []NoOrphanTransaction
<1>1. PoolInv => NoOrphanTransaction
  BY DEF PoolInv
<1> QED
  BY <1>1, PoolInvariant, PTL
=============================================================================
