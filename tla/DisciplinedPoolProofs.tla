------------------------ MODULE DisciplinedPoolProofs ------------------------
(***************************************************************************)
(* What holds of the pool when its tasks keep to themselves (Disciplined): *)
(* an unharmed Transaction is a transaction of the connection, what was    *)
(* answered with Ok is durable, what was dropped is not, and the pool      *)
(* implements a store of atomic, isolated transactions.  For every set of  *)
(* tasks, every number of calls, both dialects and all faults.             *)
(***************************************************************************)
EXTENDS ConnectionPoolProofs

-----------------------------------------------------------------------------
(* The worker: what each request does to the connection. *)

W(r) == WriteOf(r.client, r.call)

\* What the request at the head of the queue, answered with a, does to the connection,
\* be it executed, interrupted, or refused because the connection is gone.
Effect(r, a) ==
  /\ r.op = "begin" =>
       /\ Staged = {} /\ session'.working = session.working /\ session'.durable = session.durable
       /\ a = "ok" => session'.txn = "open"
  /\ r.op = "rollback" =>
       session'.txn = "none" /\ session'.working = session.durable /\ session'.durable = session.durable
  /\ Outside(r) =>
       /\ Staged = {} /\ session'.txn = "none" /\ session'.working = session'.durable
       /\ session'.durable \in {session.durable, session.durable \cup {W(r)}}
       /\ a = "ok" => session'.durable = session.durable \cup {W(r)}
  /\ Inside(r) =>
       /\ session'.durable = session.durable
       /\ \/ a = "ok" /\ session'.txn = "open" /\ session'.working = session.working \cup {W(r)}
          \/ a = "err" /\ session'.txn # "none" /\ session'.working = session.working
          \/ a = "err" /\ session'.txn = "none" /\ session'.working = session.durable
  /\ r.op = "commit" =>
       \/ /\ session'.txn = "none"
          /\ session'.working = session.working /\ session'.durable = session.working
       \/ /\ a = "err" /\ session'.txn = "none"
          /\ session'.working = session.durable /\ session'.durable = session.durable
       \/ /\ a = "err" /\ session'.txn = "open"
          /\ session'.working = session.working /\ session'.durable = session.durable

-----------------------------------------------------------------------------
(* The connection *)

\* What a session answers, in its fields (Execute).
LEMMA ExecuteFields ==
  ASSUME NEW s \in Session, NEW r \in Request, NEW o \in Execute(s, r)
  PROVE  /\ r.op = "begin" /\ s.txn = "none" =>
              /\ o.reply = "ok" /\ o.session.txn = "open"
              /\ o.session.working = s.working /\ o.session.durable = s.durable
         /\ r.op = "rollback" =>
              /\ o.session.txn = "none"
              /\ o.session.working = s.durable /\ o.session.durable = s.durable
         /\ r.op = "write" /\ s.txn = "none" =>
              /\ o.session.txn = "none"
              /\ \/ /\ o.reply = "ok" /\ o.session.working = s.working \cup {W(r)}
                    /\ o.session.durable = s.working \cup {W(r)}
                 \/ o.reply = "err" /\ o.session = s
         /\ r.op = "write" /\ s.txn = "open" =>
              /\ o.session.durable = s.durable
              /\ \/ o.reply = "ok" /\ o.session.txn = "open" /\ o.session.working = s.working \cup {W(r)}
                 \/ o.reply = "err" /\ o.session.txn # "none" /\ o.session.working = s.working
                 \/ o.reply = "err" /\ o.session.txn = "none" /\ o.session.working = s.durable
         /\ r.op = "commit" /\ s.txn = "open" =>
              \/ /\ o.reply = "ok" /\ o.session.txn = "none"
                 /\ o.session.working = s.working /\ o.session.durable = s.working
              \/ /\ o.reply = "err" /\ o.session.txn = "none"
                 /\ o.session.working = s.durable /\ o.session.durable = s.durable
              \/ o.reply = "err" /\ o.session = s
<1> USE DEF Outcome, Failing
<1>1. /\ Discarded(s).txn = "none" /\ Discarded(s).working = s.durable
      /\ Discarded(s).durable = s.durable
  BY DEF Discarded, Session
<1>2. /\ Published(s).txn = "none" /\ Published(s).working = s.working
      /\ Published(s).durable = s.working
  BY DEF Published, Session
<1>3. CASE r.op = "begin"
  BY <1>3 DEF Execute, BeginOutcomes, Session
<1>4. CASE r.op = "rollback"
  BY <1>1, <1>4 DEF Execute, RollbackOutcomes
<1>5. CASE r.op = "commit"
  BY <1>1, <1>2, <1>5 DEF Execute, CommitOutcomes
<1>6. CASE r.op = "write"
  <2>1. o \in StatementOutcomes(s, s.working \cup {W(r)})
    BY <1>6 DEF Execute, W
  <2>2. CASE s.txn = "none"
    <3> DEFINE e == s.working \cup {W(r)}
               t == [s EXCEPT !.working = e, !.durable = e]
    <3>1. t.txn = s.txn /\ t.working = e /\ t.durable = e
      BY DEF Session
    <3> HIDE DEF t
    <3>2. o = Outcome(t, "ok") \/ o = Outcome(s, "err")
      BY <2>1, <2>2 DEF StatementOutcomes, t
    <3> QED
      BY <1>6, <2>2, <3>1, <3>2
  <2>3. CASE s.txn = "open"
    BY <1>1, <1>6, <2>1, <2>3 DEF StatementOutcomes, Session
  <2> QED BY <1>6, <2>2, <2>3
<1> QED
  BY <1>3, <1>4, <1>5, <1>6 DEF Request, Calls

\* What is left of an interrupted connection, in its fields (Interrupted).
LEMMA InterruptedFields ==
  ASSUME NEW s \in Session, NEW r \in Request, NEW t \in Interrupted(s, r)
  PROVE  /\ t.txn = "none" /\ t.working = t.durable
         /\ \/ t.durable = s.durable
            \/ \E o \in Execute(s, r) : t.durable = o.session.durable
<1>1. \A u \in Session : /\ Discarded(u).txn = "none" /\ Discarded(u).working = Discarded(u).durable
                         /\ Discarded(u).durable = u.durable
  BY DEF Discarded, Session
<1>2. \A o \in Execute(s, r) : o.session \in Session
  BY ExecuteType DEF Results
<1> QED
  BY <1>1, <1>2 DEF Interrupted

-----------------------------------------------------------------------------
(* The head of the queue *)

\* Who has a Transaction, or was given one, while a request is at the head of the queue.
LEMMA HeadFacts ==
  ASSUME DisciplineInv, queue # <<>>
  PROVE  /\ queue[1] \in Request /\ 1 \in 1 .. Len(queue) /\ Len(queue) \in Nat
         /\ \A c \in Clients : awaiting[c] = "begin" => reply[c] = "none"
         /\ queue[1].op = "begin" =>
              /\ awaiting[queue[1].client] = "begin" /\ Listening(queue[1])
              /\ \A c \in Clients : tx[c] = "none"
              /\ Len(queue) = 1
         /\ queue[1].op = "rollback" => \A c \in Clients : tx[c] = "none"
         /\ Outside(queue[1]) => \A c \in Clients : tx[c] \in {"none", "committed"}
         /\ Inside(queue[1]) =>
              /\ \A c \in Clients : tx[c] # "none" =>
                   /\ c = queue[1].client /\ tx[c] \in {"active", "failed"}
                   /\ tx[c] = "active" => Listening(queue[1]) /\ awaiting[c] = "write"
              /\ worker = "running" => session.txn = "open"
              /\ OwnedBy(queue[1].client)
         /\ queue[1].op = "commit" =>
              /\ \A c \in Clients : tx[c] # "none" =>
                   /\ c = queue[1].client /\ tx[c] \in {"active", "unknown"}
                   /\ tx[c] = "active" => Listening(queue[1]) /\ awaiting[c] = "commit"
              /\ worker = "running" => session.txn = "open"
              /\ OwnedBy(queue[1].client)
              /\ doomed \cap session.working = {}
<1>1. queue \in Seq(Request) /\ queue[1] \in Request /\ 1 \in 1 .. Len(queue) /\ Len(queue) \in Nat
  BY TailFacts DEF DisciplineInv, PoolInv, TypeOK
<1>2. queue[1].client \in Clients
  BY <1>1 DEF Request
<1>3. \A c \in Clients : awaiting[c] = "begin" => reply[c] = "none"
  BY DEF DisciplineInv, SectionQueue
<1>4. ASSUME NEW c \in Clients
      PROVE  /\ tx[c] = "active" => queue[1] = [op |-> awaiting[c], client |-> c, call |-> calls[c]]
                                    /\ awaiting[c] # "none"
             /\ tx[c] = "failed" => queue[1].client = c /\ Inside(queue[1])
             /\ tx[c] = "unknown" => queue[1].client = c /\ queue[1].op = "commit"
             /\ tx[c] = "committed" => queue[1].client = c /\ Outside(queue[1])
  BY <1>1 DEF DisciplineInv, SectionQueue
<1>5. \A c \in Clients : tx[c] \in TxState
  BY DEF DisciplineInv, PoolInv, TypeOK
<1>6. ASSUME NEW c \in Clients, tx[c] = "active"
      PROVE  /\ awaiting[c] \in {"write", "commit"} /\ queue[1].client = c /\ queue[1].op = awaiting[c]
             /\ Listening(queue[1])
             /\ awaiting[c] = "write" => Inside(queue[1])
  <2>1. queue[1] = [op |-> awaiting[c], client |-> c, call |-> calls[c]] /\ awaiting[c] # "none"
    BY <1>4, <1>6
  <2>2. awaiting[c] \in Calls
    BY <2>1 DEF DisciplineInv, PoolInv, TypeOK
  <2>3. awaiting[c] # "begin"
    BY <1>6 DEF DisciplineInv, PoolInv, BeginsOutside
  <2>4. Listening(queue[1])
    BY <2>1, <2>2 DEF Listening, Calls
  <2>5. awaiting[c] = "write" => Current(c) \in issued[c]
    BY <1>6 DEF DisciplineInv, Bookkeeping
  <2> QED
    BY <2>1, <2>2, <2>3, <2>4, <2>5 DEF Calls, Inside, Current
<1>7. ASSUME queue[1].op = "begin"
      PROVE  /\ awaiting[queue[1].client] = "begin" /\ Listening(queue[1])
             /\ \A c \in Clients : tx[c] = "none"
             /\ Len(queue) = 1
  <2>1. awaiting[queue[1].client] = "begin" /\ Listening(queue[1])
    BY <1>1, <1>7 DEF DisciplineInv, PoolInv, BeginsAreAwaited, Listening
  <2>2. \A c \in Clients : tx[c] = "none"
    BY <1>2, <2>1 DEF DisciplineInv, OneSection, InSection, PoolInv, BeginsOutside
  <2> QED
    BY <1>1, <1>7, <2>1, <2>2 DEF DisciplineInv, QueueSound
<1>8. /\ Inside(queue[1]) => queue[1].op = "write"
      /\ Outside(queue[1]) => queue[1].op = "write" /\ ~Inside(queue[1])
  BY DEF Inside, Outside
<1>9. queue[1].op = "rollback" => \A c \in Clients : tx[c] = "none"
  BY <1>4, <1>5, <1>6, <1>8 DEF TxState
<1>10. Outside(queue[1]) => \A c \in Clients : tx[c] \in {"none", "committed"}
  BY <1>4, <1>5, <1>6, <1>8 DEF TxState
<1>11. Inside(queue[1]) =>
         \A c \in Clients : tx[c] # "none" =>
           /\ c = queue[1].client /\ tx[c] \in {"active", "failed"}
           /\ tx[c] = "active" => Listening(queue[1]) /\ awaiting[c] = "write"
  BY <1>4, <1>5, <1>6, <1>8 DEF TxState
<1>12. queue[1].op = "commit" =>
         \A c \in Clients : tx[c] # "none" =>
           /\ c = queue[1].client /\ tx[c] \in {"active", "unknown"}
           /\ tx[c] = "active" => Listening(queue[1]) /\ awaiting[c] = "commit"
  BY <1>4, <1>5, <1>6, <1>8 DEF TxState
<1>13. /\ Inside(queue[1]) \/ queue[1].op = "commit" =>
            (worker = "running" => session.txn = "open") /\ OwnedBy(queue[1].client)
       /\ queue[1].op = "commit" => doomed \cap session.working = {}
  BY <1>1 DEF DisciplineInv, QueueSound
<1> QED
  BY <1>1, <1>3, <1>7, <1>9, <1>10, <1>11, <1>12, <1>13

\* Requests that are executed or interrupted have the effect their place in the queue
\* calls for: a BEGIN and a write outside of a transaction meet a connection in none.
LEMMA HeadEffect ==
  ASSUME DisciplineInv, queue # <<>>
  PROVE  /\ worker = "running" => \A o \in Execute(session, queue[1]) :
              session' = o.session => Effect(queue[1], o.reply)
         /\ worker = "running" => \A t \in Interrupted(session, queue[1]) :
              session' = t => Effect(queue[1], "err")
         /\ worker # "running" /\ session' = session => Effect(queue[1], "err")
<1>1. queue[1] \in Request /\ session \in Session /\ 1 \in 1 .. Len(queue) /\ Len(queue) \in Nat
  BY HeadFacts DEF DisciplineInv, PoolInv, TypeOK
<1>2. /\ session.durable \subseteq session.working
      /\ session.txn = "none" => Staged = {} /\ session.working = session.durable
  BY DEF DisciplineInv, SessionSound, Staged
<1>3. queue[1].op = "begin" => session.txn = "none"
  <2>1. SUFFICES ASSUME queue[1].op = "begin", session.txn # "none" PROVE FALSE
    OBVIOUS
  <2>2. \A i \in 1 .. Len(queue) : queue[i].op # "rollback"
    <3>1. Len(queue) = 1
      BY <2>1, HeadFacts
    <3> QED
      BY <2>1, <3>1
  <2>3. \A c \in Clients : tx[c] = "none" /\ ~(awaiting[c] = "begin" /\ reply[c] = "ok")
    BY <2>1, HeadFacts
  <2> QED
    BY <2>1, <2>2, <2>3 DEF DisciplineInv, PoolInv, NoOrphanTransaction
<1>4. Outside(queue[1]) => session.txn = "none"
  BY <1>1 DEF DisciplineInv, QueueSound
<1>5. /\ Inside(queue[1]) \/ Outside(queue[1]) => queue[1].op = "write"
      /\ ~(Inside(queue[1]) /\ Outside(queue[1]))
  BY DEF Inside, Outside
<1>6. Inside(queue[1]) \/ queue[1].op = "commit" => (worker = "running" => session.txn = "open")
  BY HeadFacts
<1>7. ASSUME worker = "running", NEW o \in Execute(session, queue[1]), session' = o.session
      PROVE  Effect(queue[1], o.reply)
  <2>1. CASE queue[1].op = "begin"
    BY <1>1, <1>2, <1>3, <1>5, <1>7, <2>1, ExecuteFields DEF Effect
  <2>2. CASE queue[1].op = "rollback"
    BY <1>1, <1>5, <1>7, <2>2, ExecuteFields DEF Effect
  <2>3. CASE queue[1].op = "commit"
    BY <1>1, <1>5, <1>6, <1>7, <2>3, ExecuteFields DEF Effect
  <2>4. CASE Inside(queue[1])
    <3>1. session.txn = "open" /\ queue[1].op = "write"
      BY <1>5, <1>6, <1>7, <2>4
    <3> QED
      BY <1>1, <1>5, <1>7, <2>4, <3>1, ExecuteFields DEF Effect
  <2>5. CASE Outside(queue[1])
    <3>1. session.txn = "none" /\ queue[1].op = "write"
      BY <1>4, <1>5, <2>5
    <3>2. /\ o.session.txn = "none"
          /\ \/ /\ o.reply = "ok" /\ o.session.working = session.working \cup {W(queue[1])}
                /\ o.session.durable = session.working \cup {W(queue[1])}
             \/ o.reply = "err" /\ o.session = session
      BY <1>1, <1>7, <3>1, ExecuteFields
    <3>3. session.working = session.durable /\ Staged = {}
      BY <1>2, <3>1
    <3> QED
      BY <1>5, <1>7, <2>5, <3>1, <3>2, <3>3 DEF Effect
  <2> QED
    BY <1>1, <2>1, <2>2, <2>3, <2>4, <2>5 DEF Request, Calls, Inside, Outside
<1>8. ASSUME worker = "running", NEW t \in Interrupted(session, queue[1]), session' = t
      PROVE  Effect(queue[1], "err")
  BY <1>1, <1>2, <1>3, <1>4, <1>5, <1>6, <1>8, InterruptedFields, ExecuteFields DEF Effect
<1>9. ASSUME worker # "running", session' = session PROVE Effect(queue[1], "err")
  <2>1. session.txn = "none"
    BY <1>9 DEF DisciplineInv, PoolInv, GoneIsClosed
  <2> QED
    BY <1>2, <1>9, <2>1 DEF Effect
<1> QED
  BY <1>7, <1>8, <1>9

\* The part of SectionHolds that is about the connection alone.
Stored(c) ==
  /\ tx[c] = "active" => OwnedBy(c) /\ doomed \cap session.working = {}
  /\ tx[c] \in {"active", "failed"} /\ awaiting[c] # "commit" => issued[c] \cap session.durable = {}
  /\ tx[c] = "committed" => session.txn = "none"

\* The effect of the request at the head keeps what is true of the connection.
LEMMA EffectStored ==
  ASSUME DisciplineInv, queue # <<>>, NEW a \in Answers, Effect(queue[1], a),
         UNCHANGED <<calls, awaiting, tx, issued, committed, applied, doomed>>
  PROVE  /\ SessionSound' /\ CommitPersists' /\ AutocommitPersists' /\ DropUndoes'
         /\ session.durable \subseteq session'.durable
         /\ \A c \in Clients : Stored(c)'
         /\ WritesAreMade'
<1> DEFINE r == queue[1]
<1>1. r \in Request /\ r.client \in Clients
  BY HeadFacts DEF Request
<1>2. /\ session.durable \subseteq session.working
      /\ \A v, w \in Staged : v[1] = w[1]
      /\ committed \subseteq session.durable /\ applied \subseteq session.durable
      /\ doomed \cap session.durable = {}
      /\ \A c \in Clients : Stored(c)
  BY DEF DisciplineInv, SessionSound, CommitPersists, AutocommitPersists, DropUndoes,
         SectionHolds, Stored
<1>3. W(r)[1] = r.client
  BY DEF W, WriteOf
<1>4. \/ r.op \in {"begin", "rollback", "commit"} \/ Inside(r) \/ Outside(r)
  BY <1>1 DEF Request, Calls, Inside, Outside
<1> HIDE DEF r
<1>5. WritesAreMade'
  <2>1. session'.working \subseteq session.working \cup {W(r)}
    BY <1>2, <1>4 DEF Effect, r
  <2>2. r.op # "rollback" => W(r)[2] <= calls[W(r)[1]]
    <3>1. 1 \in 1 .. Len(queue)
      BY HeadFacts
    <3> QED
      BY <3>1 DEF DisciplineInv, PoolInv, QueueOrdered, W, WriteOf, r
  <2>3. r.op = "rollback" => session'.working \subseteq session.working
    BY <1>2 DEF Effect, r
  <2> QED
    BY <2>1, <2>2, <2>3 DEF DisciplineInv, WritesAreMade
<1> SUFFICES /\ session'.durable \subseteq session'.working
             /\ session'.txn = "none" => session'.working \ session'.durable = {}
             /\ \A v, w \in session'.working \ session'.durable : v[1] = w[1]
             /\ session.durable \subseteq session'.durable
             /\ doomed \cap session'.durable = {}
             /\ \A c \in Clients : Stored(c)'
  BY <1>2, <1>5 DEF SessionSound, CommitPersists, AutocommitPersists, DropUndoes, Staged
<1>6. CASE r.op = "begin"
  <2>1. /\ session'.working = session.working /\ session'.durable = session.durable
        /\ session.working \subseteq session.durable
    BY <1>2, <1>6 DEF Effect, Staged, r
  <2>2. \A c \in Clients : tx[c] = "none"
    BY <1>6, HeadFacts DEF r
  <2> QED
    BY <1>2, <2>1, <2>2 DEF Stored
<1>7. CASE r.op = "rollback"
  <2>1. /\ session'.txn = "none"
        /\ session'.working = session.durable /\ session'.durable = session.durable
    BY <1>7 DEF Effect, r
  <2>2. \A c \in Clients : tx[c] = "none"
    BY <1>7, HeadFacts DEF r
  <2> QED
    BY <1>2, <2>1, <2>2 DEF Stored
<1>8. CASE Outside(r)
  <2>1. /\ session'.txn = "none" /\ session'.working = session'.durable
        /\ session'.durable \subseteq session.durable \cup {W(r)}
        /\ session.durable \subseteq session'.durable
    BY <1>8 DEF Effect, r
  <2>2. \A c \in Clients : tx[c] \in {"none", "committed"}
    BY <1>8, HeadFacts DEF r
  <2>3. W(r) \notin doomed
    BY <1>8 DEF Outside, Inside, W
  <2> QED
    BY <1>2, <2>1, <2>2, <2>3 DEF Stored
<1>9. CASE Inside(r)
  <2>1. /\ session'.durable = session.durable
        /\ session'.working \subseteq session.working \cup {W(r)}
        /\ session.durable \subseteq session'.working
        /\ session'.txn = "none" => session'.working = session.durable
    BY <1>2, <1>9 DEF Effect, r
  <2>2. \A w \in session'.working \ session'.durable : w[1] = r.client
    BY <1>3, <1>9, <2>1, HeadFacts DEF OwnedBy, Staged, r
  <2>3. ASSUME NEW c \in Clients PROVE Stored(c)'
    <3>1. tx[c] # "none" => c = r.client /\ tx[c] \in {"active", "failed"}
      BY <1>9, HeadFacts DEF r
    <3>2. ASSUME tx[c] = "active" PROVE W(r) \notin doomed
      <4>1. Listening(r) /\ awaiting[c] = "write" /\ c = r.client
        BY <1>9, <3>2, HeadFacts DEF r
      <4>2. W(r) = Current(c)
        BY <4>1 DEF Listening, W, Current
      <4> QED
        BY <4>1, <4>2 DEF DisciplineInv, Bookkeeping
    <3>3. tx[c] = "active" => doomed \cap session'.working = {}
      BY <1>2, <2>1, <3>2 DEF Stored
    <3> QED
      BY <1>2, <2>1, <2>2, <3>1, <3>3 DEF Stored, OwnedBy, Staged
  <2> QED
    BY <1>2, <2>1, <2>2, <2>3
<1>10. CASE r.op = "commit"
  <2>1. /\ session'.working \in {session.working, session.durable}
        /\ session'.durable \in {session.working, session.durable}
        /\ session.durable \subseteq session'.durable
        /\ session'.durable \subseteq session'.working
        /\ session'.txn = "none" => session'.working = session'.durable
    BY <1>2, <1>10 DEF Effect, r
  <2>2. OwnedBy(r.client) /\ doomed \cap session.working = {}
    BY <1>10, HeadFacts DEF r
  <2>3. \A w \in session'.working \ session'.durable : w[1] = r.client
    BY <2>1, <2>2 DEF OwnedBy, Staged
  <2>4. ASSUME NEW c \in Clients PROVE Stored(c)'
    <3>1. tx[c] # "none" => /\ c = r.client /\ tx[c] \in {"active", "unknown"}
                            /\ tx[c] = "active" => awaiting[c] = "commit"
      BY <1>10, HeadFacts DEF r
    <3> QED
      BY <1>2, <2>1, <2>2, <2>3, <3>1 DEF Stored, OwnedBy, Staged
  <2> QED
    BY <1>2, <2>1, <2>2, <2>3, <2>4
<1> QED
  BY <1>4, <1>6, <1>7, <1>8, <1>9, <1>10

-----------------------------------------------------------------------------
(* The worker *)

\* The request a task listens to is the call it is suspended in.
LEMMA ListeningOp ==
  ASSUME DisciplineInv, NEW i \in 1 .. Len(queue), Listening(queue[i])
  PROVE  /\ queue[i].op = awaiting[queue[i].client] /\ W(queue[i]) = Current(queue[i].client)
         /\ reply[queue[i].client] = "none" /\ queue[i].client \in Clients
<1> DEFINE c == queue[i].client
<1>1. queue \in Seq(Request) /\ Len(queue) \in Nat
  BY DEF DisciplineInv, PoolInv, TypeOK
<1>2. queue[i] \in Request /\ c \in Clients
  BY <1>1 DEF Request
<1>3. reply[c] = "none" /\ awaiting[c] # "none" /\ calls[c] = queue[i].call /\ queue[i].op # "rollback"
  BY DEF DisciplineInv, PoolInv, AnsweredIsTaken, Listening
<1>4. PICK j \in 1 .. Len(queue) : queue[j] = [op |-> awaiting[c], client |-> c, call |-> calls[c]]
  BY <1>2, <1>3 DEF DisciplineInv, PoolInv, WaitersAreQueued
<1>5. queue[j].op # "rollback" /\ queue[j].client = c /\ queue[j].call = queue[i].call
  <2>1. awaiting[c] \in Calls
    BY <1>2, <1>3 DEF DisciplineInv, PoolInv, TypeOK
  <2> QED
    BY <1>3, <1>4, <2>1 DEF Calls
<1>6. queue[i].call \in Nat
  BY <1>2, MaxCallsAssumption DEF Request
<1>7. ~(i < j) /\ ~(j < i)
  BY <1>3, <1>5, <1>6 DEF DisciplineInv, PoolInv, QueueOrdered
<1>8. i = j
  BY <1>1, <1>7
<1> QED
  BY <1>2, <1>3, <1>4, <1>8 DEF W, Current

unsaid == <<tx, issued, acked, committed, applied, doomed, abandoned>>

\* Taking a request, with its effect on the connection and its answer, keeps the invariant.
LEMMA TakeDiscipline ==
  ASSUME DisciplineInv, PoolInv', NEW a \in Answers, Take(a), Effect(queue[1], a),
         UNCHANGED unsaid, worker' # "stopped", worker' = "running" => worker = "running",
         a = "ok" => worker = "running"
  PROVE  DisciplineInv'
<1> DEFINE r == queue[1]
<1>1. UNCHANGED <<calls, awaiting, tx, issued, acked, committed, applied, doomed, abandoned>>
  BY DEF Take, unsaid
<1>2. /\ queue # <<>> /\ Len(queue) \in Nat /\ Len(queue') = Len(queue) - 1
      /\ queue' \in Seq(Request)
      /\ \A i \in 1 .. Len(queue') : queue'[i] = queue[i + 1] /\ i + 1 \in 1 .. Len(queue)
      /\ 1 \in 1 .. Len(queue) /\ r = Head(queue)
  BY TailFacts DEF Take, DisciplineInv, PoolInv, TypeOK
<1>3. /\ SessionSound' /\ CommitPersists' /\ AutocommitPersists' /\ DropUndoes'
      /\ session.durable \subseteq session'.durable
      /\ \A c \in Clients : Stored(c)'
      /\ WritesAreMade'
  BY <1>1, <1>2, EffectStored
<1>4. \A c \in Clients : reply'[c] = IF Listening(r) /\ r.client = c THEN a ELSE reply[c]
  BY <1>2 DEF Take, Answered, DisciplineInv, PoolInv, TypeOK
<1>5. Listening(r) => r.op = awaiting[r.client] /\ W(r) = Current(r.client) /\ reply[r.client] = "none"
  BY <1>2, ListeningOp
<1>6. worker' # "running" => session'.txn = "none"
  BY DEF PoolInv, GoneIsClosed
<1>7. \A x : Inside(x)' = Inside(x) /\ Outside(x)' = Outside(x)
  BY <1>1 DEF Inside, Outside
<1>8. r.op = "begin" \/ r.op = "rollback" \/ r.op = "commit" \/ Inside(r) \/ Outside(r)
  BY <1>2, HeadFacts DEF Request, Calls, Inside, Outside
<1> HIDE DEF r
<1>9. OneSection'
  BY <1>1 DEF DisciplineInv, OneSection, InSection
<1>10. QueueSound'
  <2>1. ASSUME NEW i \in 1 .. Len(queue')
        PROVE  /\ queue'[i].op = "begin" => i = Len(queue')
               /\ ~Inside(queue'[i]) /\ queue'[i].op # "commit"
    <3>1. i + 1 # 1 /\ i + 1 \in 1 .. Len(queue) /\ queue'[i] = queue[i + 1]
      BY <1>2
    <3> QED
      BY <1>2, <3>1 DEF DisciplineInv, QueueSound
  <2>2. ASSUME NEW i \in 1 .. Len(queue'), Outside(queue'[i]), session'.txn # "none"
        PROVE  \E j \in 1 .. i - 1 : queue'[j].op = "rollback"
    <3>1. i + 1 \in 1 .. Len(queue) /\ queue'[i] = queue[i + 1]
      BY <1>2
    <3>2. worker = "running"
      BY <1>6, <2>2
    <3>3. r.op # "rollback" /\ ~Outside(r)
      BY <2>2 DEF Effect, r
    <3>4. r.op # "begin"
      <4>1. r.op = "begin" => Len(queue) = 1
        BY <1>2, HeadFacts DEF r
      <4> QED
        BY <1>2, <3>1, <4>1
    <3>5. session.txn # "none"
      BY <1>2, <1>8, <3>2, <3>3, <3>4, HeadFacts DEF r
    <3>6. PICK j \in 1 .. (i + 1) - 1 : queue[j].op = "rollback"
      BY <2>2, <3>1, <3>5 DEF DisciplineInv, QueueSound
    <3>7. j # 1
      BY <3>3, <3>6 DEF r
    <3>8. j - 1 \in 1 .. i - 1 /\ j - 1 \in 1 .. Len(queue') /\ (j - 1) + 1 = j
      BY <1>2, <3>7
    <3> QED
      BY <1>2, <3>6, <3>8
  <2> QED
    BY <1>7, <2>1, <2>2 DEF QueueSound
<1>11. ASSUME NEW c \in Clients PROVE SectionQueue(c)'
  <2>1. ASSUME awaiting[c] = "begin", reply'[c] # "none" PROVE queue' = <<>>
    <3>1. reply[c] = "none"
      BY <1>2, <2>1, HeadFacts
    <3>2. r.op = "begin"
      BY <1>4, <1>5, <2>1, <3>1
    <3>3. Len(queue) = 1
      BY <1>2, <3>2, HeadFacts DEF r
    <3> QED
      BY <1>2, <3>3
  <2>2. ASSUME tx[c] \in {"active", "failed", "unknown"} PROVE 1 .. Len(queue') = {}
    <3>1. \A i \in 1 .. Len(queue) : i = 1
      <4>1. SectionQueue(c)
        BY DEF DisciplineInv
      <4> QED
        BY <2>2, <4>1 DEF SectionQueue
    <3>2. \A i \in 1 .. Len(queue') : FALSE
      <4>1. SUFFICES ASSUME NEW i \in 1 .. Len(queue') PROVE FALSE
        OBVIOUS
      <4>2. i + 1 \in 1 .. Len(queue) /\ i + 1 # 1
        BY <1>2
      <4> QED
        BY <3>1, <4>2
    <3> QED
      BY <3>2
  <2>3. ASSUME tx[c] = "committed"
        PROVE  /\ awaiting[c] \in {"none", "write"}
               /\ \A i \in 1 .. Len(queue') : queue'[i].client = c /\ Outside(queue'[i])
    <3>1. SectionQueue(c)
      BY DEF DisciplineInv
    <3>2. /\ awaiting[c] \in {"none", "write"}
          /\ \A i \in 1 .. Len(queue) : queue[i].client = c /\ Outside(queue[i])
      BY <2>3, <3>1 DEF SectionQueue
    <3> QED
      BY <1>2, <3>2
  <2>4. tx[c] \in {"failed", "unknown"} => awaiting[c] = "none"
    BY DEF DisciplineInv, SectionQueue
  <2> QED
    BY <1>1, <1>7, <2>1, <2>2, <2>3, <2>4 DEF SectionQueue
<1>12. ASSUME NEW c \in Clients, tx[c] = "active"
       PROVE  /\ c = r.client /\ Listening(r) /\ reply[c] = "none" /\ reply'[c] = a
              /\ awaiting[c] = "write" => Inside(r)
              /\ awaiting[c] = "commit" => r.op = "commit"
              /\ awaiting[c] \in {"write", "commit"}
              /\ worker = "running" => acked[c] \subseteq session.working
  <2>1. /\ Inside(r) \/ r.op = "commit"
        /\ c = r.client /\ Listening(r) /\ awaiting[c] \in {"write", "commit"}
    BY <1>2, <1>8, <1>12, HeadFacts DEF r
  <2>2. r.op = awaiting[c] /\ reply[c] = "none" /\ reply'[c] = a
    BY <1>4, <1>5, <2>1
  <2>3. worker = "running" => acked[c] \subseteq session.working
    BY <1>12, <2>2 DEF DisciplineInv, SectionHolds, Healthy
  <2> QED
    BY <2>1, <2>2, <2>3
<1>13. ASSUME NEW c \in Clients PROVE SectionHolds(c)'
  <2>1. ASSUME Healthy(c)', worker' = "running"
        PROVE  session'.txn = "open" /\ acked[c] \subseteq session'.working
    <3>1. tx[c] = "active" /\ reply'[c] # "err" /\ ~(awaiting[c] = "commit" /\ reply'[c] = "ok")
      BY <1>1, <2>1 DEF Healthy
    <3>2. a = "ok" /\ Inside(r) /\ acked[c] \subseteq session.working
      BY <1>12, <2>1, <3>1 DEF Answers
    <3> QED
      BY <3>2 DEF Effect, r
  <2> QED
    BY <1>1, <1>3, <2>1 DEF SectionHolds, Stored
<1>14. ASSUME NEW c \in Clients PROVE AnswerMeans(c)'
  <2>1. SUFFICES ASSUME reply'[c] = "ok" PROVE AnswerMeans(c)'
    BY DEF AnswerMeans
  <2>2. Current(c)' = Current(c) /\ Staged' = session'.working \ session'.durable
    BY <1>1 DEF Current, Staged
  <2>3. ASSUME awaiting[c] = "begin"
        PROVE  Staged' = {} /\ (worker' = "running" => session'.txn = "open")
    <3>1. reply[c] = "none"
      BY <1>2, <2>3, HeadFacts
    <3>2. r.op = "begin" /\ a = "ok"
      BY <1>4, <1>5, <2>1, <2>3, <3>1
    <3> QED
      BY <2>2, <3>2 DEF Effect, Staged, r
  <2>4. ASSUME awaiting[c] = "write", tx[c] = "active" PROVE Current(c) \in session'.working
    <3>1. Inside(r) /\ a = "ok" /\ W(r) = Current(c)
      BY <1>5, <1>12, <2>1, <2>4
    <3> QED
      BY <3>1 DEF Effect, r
  <2>5. ASSUME awaiting[c] = "write", tx[c] \in {"none", "committed"}
        PROVE  Current(c) \in session'.durable
    <3>1. CASE reply[c] = "ok"
      BY <1>3, <2>5, <3>1 DEF DisciplineInv, AnswerMeans
    <3>2. CASE reply[c] # "ok"
      <4>1. Listening(r) /\ r.client = c /\ a = "ok"
        BY <1>4, <2>1, <3>2
      <4>2. W(r) = Current(c) /\ r.op = "write"
        BY <1>5, <2>5, <4>1
      <4>3. Current(c) \notin issued[c] \cup doomed
        BY <2>5 DEF DisciplineInv, Bookkeeping
      <4>4. Outside(r)
        BY <4>1, <4>2, <4>3 DEF Outside, Inside, W
      <4> QED
        BY <4>1, <4>2, <4>4 DEF Effect, r
    <3> QED
      BY <3>1, <3>2
  <2>6. ASSUME awaiting[c] = "commit"
        PROVE  session'.txn = "none" /\ acked[c] \subseteq session'.durable
    <3>1. tx[c] = "active"
      BY <2>6 DEF DisciplineInv, Bookkeeping
    <3>2. r.op = "commit" /\ a = "ok" /\ acked[c] \subseteq session.working
      BY <1>12, <2>1, <2>6, <3>1
    <3> QED
      BY <3>2 DEF Effect, r
  <2> QED
    BY <1>1, <2>2, <2>3, <2>4, <2>5, <2>6 DEF AnswerMeans
<1>15. \A c \in Clients : Bookkeeping(c)'
  BY <1>1 DEF DisciplineInv, Bookkeeping, Current
<1> QED
  BY <1>1, <1>3, <1>9, <1>10, <1>11, <1>13, <1>14, <1>15 DEF DisciplineInv

\* The death of the worker takes the queue along and tells everybody who still waits.
LEMMA DiesDiscipline ==
  ASSUME DisciplineInv, PoolInv', queue # <<>>, Effect(queue[1], "err"),
         UNCHANGED <<unsaid, calls, awaiting>>, queue' = <<>>, reply' = WakeAll, worker' = "stopped"
  PROVE  DisciplineInv'
<1>1. UNCHANGED <<calls, awaiting, tx, issued, acked, committed, applied, doomed, abandoned>>
  BY DEF unsaid
<1>2. /\ SessionSound' /\ CommitPersists' /\ AutocommitPersists' /\ DropUndoes'
      /\ session.durable \subseteq session'.durable
      /\ \A c \in Clients : Stored(c)'
      /\ WritesAreMade'
  BY <1>1, EffectStored DEF Answers
<1>3. Len(queue') = 0 /\ 1 .. Len(queue') = {}
  OBVIOUS
<1>4. \A x : Inside(x)' = Inside(x) /\ Outside(x)' = Outside(x)
  BY <1>1 DEF Inside, Outside
<1>5. OneSection' /\ QueueSound'
  BY <1>1, <1>3 DEF DisciplineInv, OneSection, InSection, QueueSound
<1>6. ASSUME NEW c \in Clients PROVE SectionQueue(c)' /\ Bookkeeping(c)' /\ SectionHolds(c)'
  <2>1. SectionQueue(c) /\ Bookkeeping(c)
    BY DEF DisciplineInv
  <2>2. SectionQueue(c)'
    BY <1>1, <1>3, <2>1 DEF SectionQueue
  <2>3. Bookkeeping(c)'
    BY <1>1, <2>1 DEF Bookkeeping, Current
  <2>4. SectionHolds(c)'
    BY <1>1, <1>2 DEF SectionHolds, Stored
  <2> QED
    BY <2>2, <2>3, <2>4
<1>7. ASSUME NEW c \in Clients PROVE AnswerMeans(c)'
  <2>1. SUFFICES ASSUME reply'[c] = "ok" PROVE AnswerMeans(c)'
    BY DEF AnswerMeans
  <2>2. reply[c] = "ok" /\ AnswerMeans(c)
    BY <2>1 DEF WakeAll, DisciplineInv
  <2>3. awaiting[c] # "begin"
    BY <2>2, HeadFacts
  <2>4. awaiting[c] # "commit"
    <3>1. SUFFICES ASSUME awaiting[c] = "commit" PROVE FALSE
      OBVIOUS
    <3>2. tx[c] = "active" /\ SectionQueue(c)
      BY <3>1 DEF DisciplineInv, Bookkeeping
    <3>3. 1 \in 1 .. Len(queue)
      BY HeadFacts
    <3> QED
      BY <2>2, <3>2, <3>3 DEF SectionQueue
  <2> QED
    BY <1>1, <1>2, <2>1, <2>2, <2>3, <2>4 DEF AnswerMeans, Current
<1> QED
  BY <1>1, <1>2, <1>5, <1>6, <1>7 DEF DisciplineInv

\* So does the end of the worker, when nobody holds a pool any more.
LEMMA ExitsDiscipline ==
  ASSUME DisciplineInv, PoolInv', WorkerExits
  PROVE  DisciplineInv'
<1>1. UNCHANGED <<queue, calls, awaiting, reply, tx, issued, acked, committed, applied, doomed, abandoned>>
  BY DEF WorkerExits, history
<1>2. /\ session'.txn = "none" /\ session'.working = session.durable
      /\ session'.durable = session.durable /\ worker' = "stopped" /\ queue = <<>>
  BY DEF WorkerExits, Discarded, DisciplineInv, PoolInv, TypeOK, Session
<1>3. Staged' = {}
  BY <1>2 DEF Staged
<1>4. /\ SessionSound' /\ CommitPersists' /\ AutocommitPersists' /\ DropUndoes'
      /\ WritesAreMade'
  BY <1>1, <1>2, <1>3
  DEF DisciplineInv, SessionSound, CommitPersists, AutocommitPersists, DropUndoes, WritesAreMade
<1>5. OneSection' /\ QueueSound'
  BY <1>1, <1>2 DEF DisciplineInv, OneSection, InSection, QueueSound
<1>6. ASSUME NEW c \in Clients
      PROVE  SectionQueue(c)' /\ Bookkeeping(c)' /\ SectionHolds(c)' /\ AnswerMeans(c)'
  <2>1. SectionQueue(c) /\ Bookkeeping(c) /\ SectionHolds(c) /\ AnswerMeans(c)
    BY DEF DisciplineInv
  <2>2. SectionQueue(c)'
    BY <1>1, <1>2, <2>1 DEF SectionQueue
  <2>3. Bookkeeping(c)'
    BY <1>1, <2>1 DEF Bookkeeping, Current
  <2>4. SectionHolds(c)'
    BY <1>1, <1>2, <1>3, <2>1 DEF SectionHolds, OwnedBy, DisciplineInv, DropUndoes
  <2>5. AnswerMeans(c)'
    BY <1>1, <1>2, <1>3, <2>1 DEF AnswerMeans, Current
  <2> QED
    BY <2>2, <2>3, <2>4, <2>5
<1> QED
  BY <1>1, <1>4, <1>5, <1>6 DEF DisciplineInv

\* Every step of the worker keeps the invariant.
LEMMA WorkerDiscipline ==
  ASSUME DisciplineInv, PoolInv', Worker
  PROVE  DisciplineInv'
<1>1. ASSUME queue # <<>> PROVE queue[1] = Head(queue)
  BY <1>1, TailFacts DEF DisciplineInv, PoolInv, TypeOK
<1>2. CASE WorkerStep
  <2>1. PICK o \in Execute(session, Head(queue)) :
          session' = o.session /\ reply' = Answered(Head(queue), o.reply)
    BY <1>2 DEF WorkerStep
  <2>2. o.reply \in Answers
    BY <1>1, <1>2, HeadFacts, ExecuteType DEF WorkerStep, DisciplineInv, PoolInv, TypeOK, Results
  <2>3. Effect(queue[1], o.reply)
    BY <1>1, <1>2, <2>1, HeadEffect DEF WorkerStep
  <2>4. Take(o.reply) /\ UNCHANGED unsaid
    BY <1>2, <2>1 DEF WorkerStep, Take, unsaid, history
  <2> QED
    BY <1>2, <2>2, <2>3, <2>4, TakeDiscipline DEF WorkerStep
<1>3. CASE WorkerStepLost
  <2>1. Take("err") /\ UNCHANGED unsaid /\ "err" \in Answers
    BY <1>3 DEF WorkerStepLost, Take, unsaid, history, Answers
  <2>2. Effect(queue[1], "err")
    BY <1>3, HeadEffect DEF WorkerStepLost
  <2> QED
    BY <1>3, <2>1, <2>2, TakeDiscipline DEF WorkerStepLost
<1>4. CASE ConnectionLost
  <2>1. Take("err") /\ UNCHANGED unsaid /\ "err" \in Answers
    BY <1>4 DEF ConnectionLost, Take, unsaid, history, Answers
  <2>2. Effect(queue[1], "err")
    BY <1>1, <1>4, HeadEffect DEF ConnectionLost
  <2> QED
    BY <1>4, <2>1, <2>2, TakeDiscipline DEF ConnectionLost
<1>5. CASE WorkerDies
  <2>1. Effect(queue[1], "err")
    BY <1>1, <1>5, HeadEffect DEF WorkerDies
  <2> QED
    BY <1>5, <2>1, DiesDiscipline DEF WorkerDies, unsaid, history
<1> QED
  BY <1>2, <1>3, <1>4, <1>5, ExitsDiscipline DEF Worker

-----------------------------------------------------------------------------
(* The tasks *)

\* While a task is in its section, or enters it, no other is in one, and no BEGIN is queued.
LEMMA AloneFacts ==
  ASSUME DisciplineInv, NEW c \in Clients, awaiting[c] # "begin",
         \A d \in Clients \ {c} : ~InSection(d)
  PROVE  /\ \A d \in Clients : awaiting[d] # "begin"
         /\ \A d \in Clients : d # c => tx[d] = "none"
         /\ \A i \in 1 .. Len(queue) : queue[i].op # "begin"
<1>1. \A d \in Clients : awaiting[d] # "begin" /\ (d # c => tx[d] = "none")
  BY DEF InSection
<1>2. \A i \in 1 .. Len(queue) : queue[i].client \in Clients
  BY DEF DisciplineInv, PoolInv, TypeOK, Request
<1> QED
  BY <1>1, <1>2 DEF DisciplineInv, PoolInv, BeginsAreAwaited

\* What a call does to the queue and to its task, entry by entry.
Sent(c, op) ==
  /\ awaiting[c] = "none" /\ reply[c] = "none"
  /\ \A d \in Clients : calls[d] \in Nat /\ calls'[d] \in Nat /\ calls[d] <= calls'[d]
  /\ calls'[c] = calls[c] + 1 /\ awaiting'[c] = op
  /\ reply'[c] = IF worker = "stopped" THEN "err" ELSE "none"
  /\ \A d \in Clients : d # c =>
       calls'[d] = calls[d] /\ awaiting'[d] = awaiting[d] /\ reply'[d] = reply[d]
  /\ worker' = worker /\ session' = session /\ handles' = handles /\ tx' = tx
  /\ worker = "stopped" => queue' = <<>>
  /\ Len(queue) \in Nat /\ Len(queue') \in Nat
  /\ \A i \in 1 .. Len(queue) : i \in 1 .. Len(queue') /\ queue'[i] = queue[i]
  /\ \A i \in 1 .. Len(queue') :
       \/ i \in 1 .. Len(queue) /\ queue'[i] = queue[i]
       \/ /\ i = Len(queue') /\ i = Len(queue) + 1 /\ worker # "stopped"
          /\ queue'[i] = [op |-> op, client |-> c, call |-> calls[c] + 1]

\* send_query does just that (Send).
LEMMA SendFacts ==
  ASSUME DisciplineInv, NEW c \in Clients, NEW op \in Calls, Send(c, op)
  PROVE  Sent(c, op)
<1>1. TypeOK
  BY DEF DisciplineInv, PoolInv
<1>2. awaiting[c] = "none" /\ reply[c] = "none"
  BY DEF Send, Idle, DisciplineInv, PoolInv, IdleHasNoReply
<1>3. \A d \in Clients : calls[d] \in Nat
  BY <1>1, MaxCallsAssumption DEF TypeOK
<1>4. /\ calls'[c] = calls[c] + 1 /\ awaiting'[c] = op
      /\ reply'[c] = IF worker = "stopped" THEN "err" ELSE "none"
      /\ \A d \in Clients : d # c =>
           calls'[d] = calls[d] /\ awaiting'[d] = awaiting[d] /\ reply'[d] = reply[d]
  BY <1>1, <1>2 DEF Send, TypeOK
<1>5. \A d \in Clients : calls'[d] \in Nat /\ calls[d] <= calls'[d]
  <2>1. TAKE d \in Clients
  <2>2. CASE d = c
    BY <1>3, <1>4, <2>2
  <2>3. CASE d # c
    BY <1>3, <1>4, <2>3
  <2> QED
    BY <2>2, <2>3
<1>6. queue \in Seq(Request) /\ Len(queue) \in Nat
  BY <1>1 DEF TypeOK
<1>7. /\ worker = "stopped" => queue' = <<>>
      /\ Len(queue') \in Nat
      /\ \A i \in 1 .. Len(queue) : i \in 1 .. Len(queue') /\ queue'[i] = queue[i]
      /\ \A i \in 1 .. Len(queue') :
           \/ i \in 1 .. Len(queue) /\ queue'[i] = queue[i]
           \/ /\ i = Len(queue') /\ i = Len(queue) + 1 /\ worker # "stopped"
              /\ queue'[i] = [op |-> op, client |-> c, call |-> calls[c] + 1]
  <2> DEFINE r == [op |-> op, client |-> c, call |-> calls[c] + 1]
  <2>1. CASE worker = "stopped"
    <3>1. queue = <<>> /\ queue' = <<>>
      BY <2>1 DEF Send, DisciplineInv, QueueSound
    <3> QED
      BY <2>1, <3>1
  <2>2. CASE worker # "stopped"
    <3>1. calls[c] + 1 \in 1 .. MaxCalls
      BY <1>3, MaxCallsAssumption DEF Send
    <3>2. r \in Request
      BY <3>1 DEF Request
    <3>3. queue' = Append(queue, r)
      BY <2>2 DEF Send
    <3> HIDE DEF r
    <3>4. /\ Len(queue') = Len(queue) + 1 /\ queue'[Len(queue) + 1] = r
          /\ \A i \in 1 .. Len(queue) : queue'[i] = queue[i]
      BY <1>6, <3>2, <3>3, AppendFacts
    <3>5. \A i \in 1 .. Len(queue') : i \in 1 .. Len(queue) \/ i = Len(queue) + 1
      BY <1>6, <3>4
    <3>6. \A i \in 1 .. Len(queue) : i \in 1 .. Len(queue')
      BY <1>6, <3>4
    <3> QED
      BY <1>6, <2>2, <3>4, <3>5, <3>6 DEF r
  <2> QED
    BY <2>1, <2>2
<1> QED
  BY <1>2, <1>3, <1>4, <1>5, <1>6, <1>7 DEF Send, Sent

\* The writes of a transaction are its task's, and made.
LEMMA IssuedFacts ==
  ASSUME DisciplineInv, NEW c \in Clients
  PROVE  \A w \in issued[c] : w \in Token /\ w[1] = c /\ w[2] \in Nat /\ w[2] <= calls[c]
<1>1. issued[c] \subseteq Token
  BY DEF DisciplineInv, PoolInv, TypeOK
<1>2. \A w \in Token : w[2] \in Nat
  BY MaxCallsAssumption DEF Token
<1>3. Bookkeeping(c)
  BY DEF DisciplineInv
<1> QED
  BY <1>1, <1>2, <1>3 DEF Bookkeeping

\* A write that has not been made is in no history and not in the connection.
LEMMA FreshWrite ==
  ASSUME DisciplineInv, NEW c \in Clients
  PROVE  LET w == WriteOf(c, calls[c] + 1)
         IN  /\ w \notin doomed /\ w \notin session.working /\ w \notin session.durable
             /\ \A d \in Clients : w \notin issued[d]
             /\ \A i \in 1 .. Len(queue) : queue[i].op # "rollback" => W(queue[i]) # w
<1>1. calls[c] \in Nat
  BY MaxCallsAssumption DEF DisciplineInv, PoolInv, TypeOK
<1>2. ~(calls[c] + 1 <= calls[c])
  BY <1>1
<1>3. WriteOf(c, calls[c] + 1)[1] = c /\ WriteOf(c, calls[c] + 1)[2] = calls[c] + 1
  BY DEF WriteOf
<1>4. session.durable \subseteq session.working
  BY DEF DisciplineInv, SessionSound
<1>5. \A d \in Clients : \A w \in issued[d] : w[1] = d /\ w[2] <= calls[d]
  BY DEF DisciplineInv, Bookkeeping
<1>6. \A i \in 1 .. Len(queue) : queue[i].op # "rollback" => W(queue[i]) # WriteOf(c, calls[c] + 1)
  BY <1>2 DEF DisciplineInv, PoolInv, QueueOrdered, W, WriteOf
<1> QED
  BY <1>2, <1>3, <1>4, <1>5, <1>6 DEF DisciplineInv, WritesAreMade

\* A call adds nothing to what has been stored or dropped.
LEMMA SendMade ==
  ASSUME DisciplineInv, NEW c \in Clients, NEW op \in Calls, Send(c, op), UNCHANGED doomed
  PROVE  WritesAreMade'
<1>1. \A d \in Clients : calls[d] \in Nat /\ calls'[d] \in Nat /\ calls[d] <= calls'[d]
  BY SendFacts DEF Sent
<1>2. \A w \in doomed \cup session.working : w[1] \in Clients /\ w[2] \in Nat
  BY MaxCallsAssumption DEF DisciplineInv, PoolInv, TypeOK, Session, Token
<1>3. session' = session
  BY DEF Send
<1> QED
  BY <1>1, <1>2, <1>3 DEF DisciplineInv, WritesAreMade

\* The call of transaction() keeps the invariant.
LEMMA BeginDiscipline ==
  ASSUME Disciplined, DisciplineInv, PoolInv', NEW c \in Clients, Begin(c)
  PROVE  DisciplineInv'
<1>1. Send(c, "begin") /\ Sent(c, "begin") /\ "begin" \in Calls
  BY SendFacts DEF Begin, Calls
<1>2. UNCHANGED <<issued, acked, committed, applied, doomed, abandoned>>
  BY DEF Begin, history
<1>3. \A d \in Clients \ {c} : ~InSection(d)
  BY DEF Begin, MayEnter, Disciplined
<1>4. /\ \A d \in Clients : awaiting[d] # "begin" /\ tx[d] = "none"
      /\ \A i \in 1 .. Len(queue) : queue[i].op # "begin"
  BY <1>1, <1>3, AloneFacts DEF Begin, Sent
<1>5. OneSection'
  <2>1. \A d \in Clients : InSection(d)' => d = c
    BY <1>1, <1>4 DEF InSection, Sent
  <2> QED
    BY <2>1 DEF OneSection
<1>6. SessionSound' /\ CommitPersists' /\ AutocommitPersists' /\ DropUndoes'
  BY <1>1, <1>2
  DEF Sent, DisciplineInv, SessionSound, Staged, CommitPersists, AutocommitPersists, DropUndoes
<1>7. WritesAreMade'
  BY <1>1, <1>2, SendMade
<1>8. \A x : /\ Inside(x)' = Inside(x) /\ Outside(x)' = Outside(x)
             /\ OwnedBy(x)' = OwnedBy(x)
  BY <1>1, <1>2 DEF Inside, Outside, OwnedBy, Staged, Sent
<1>9. QueueSound'
  <2>1. ASSUME NEW i \in 1 .. Len(queue')
        PROVE  \/ i \in 1 .. Len(queue) /\ queue'[i] = queue[i] /\ queue'[i].op # "begin"
               \/ i = Len(queue') /\ queue'[i].op = "begin"
    BY <1>1, <1>4 DEF Sent
  <2>2. ASSUME NEW i \in 1 .. Len(queue), \E j \in 1 .. i - 1 : queue[j].op = "rollback"
        PROVE  \E j \in 1 .. i - 1 : queue'[j].op = "rollback"
    <3>1. \A j \in 1 .. i - 1 : j \in 1 .. Len(queue)
      BY <1>1 DEF Sent
    <3> QED
      BY <1>1, <2>2, <3>1 DEF Sent
  <2>3. \A x : Inside(x) \/ Outside(x) => x.op = "write"
    BY DEF Inside, Outside
  <2> QED
    BY <1>1, <1>2, <1>8, <2>1, <2>2, <2>3 DEF DisciplineInv, QueueSound, Sent
<1>10. ASSUME NEW d \in Clients
       PROVE  SectionQueue(d)' /\ Bookkeeping(d)' /\ SectionHolds(d)' /\ AnswerMeans(d)'
  <2>1. Bookkeeping(d) /\ AnswerMeans(d)
    BY DEF DisciplineInv
  <2>2. tx'[d] = "none"
    BY <1>1, <1>4 DEF Sent
  <2>3. SectionQueue(d)'
    BY <1>1, <1>4, <2>2 DEF SectionQueue, Sent
  <2>4. Bookkeeping(d)' /\ AnswerMeans(d)'
    <3>1. CASE d = c
      BY <1>1, <1>2, <1>4, <2>1, <2>2, <3>1 DEF Bookkeeping, AnswerMeans, Sent
    <3>2. CASE d # c
      BY <1>1, <1>2, <2>1, <3>2 DEF Bookkeeping, AnswerMeans, Current, Staged, Sent
    <3> QED
      BY <3>1, <3>2
  <2>5. SectionHolds(d)'
    BY <2>2 DEF SectionHolds, Healthy
  <2> QED
    BY <2>3, <2>4, <2>5
<1> QED
  BY <1>2, <1>5, <1>6, <1>7, <1>9, <1>10 DEF DisciplineInv

\* A request queued in a section is sound where it lands if those before it stay so.
LEMMA SendQueueSound ==
  ASSUME DisciplineInv, NEW c \in Clients, NEW op \in {"write", "commit"}, Sent(c, op),
         UNCHANGED doomed,
         \A i \in 1 .. Len(queue) :
           /\ queue[i].op # "begin"
           /\ Inside(queue[i])' = Inside(queue[i]) /\ Outside(queue[i])' = Outside(queue[i]),
         \A i \in 1 .. Len(queue') : i = Len(queue) + 1 =>
           /\ Inside(queue[i])' \/ op = "commit" =>
                queue = <<>> /\ (worker = "running" => session.txn = "open") /\ OwnedBy(c)
           /\ op = "commit" => doomed \cap session.working = {}
           /\ Outside(queue[i])' /\ session.txn # "none" =>
                \E j \in 1 .. Len(queue) : queue[j].op = "rollback"
  PROVE  QueueSound'
<1>1. UNCHANGED <<worker, session, doomed>> /\ Len(queue) \in Nat
  BY DEF Sent
<1>2. \A d : OwnedBy(d)' = OwnedBy(d)
  BY <1>1 DEF OwnedBy, Staged
<1>3. ASSUME NEW i \in 1 .. Len(queue), \E j \in 1 .. i - 1 : queue[j].op = "rollback"
      PROVE  \E j \in 1 .. i - 1 : queue'[j].op = "rollback"
  <2>1. \A j \in 1 .. i - 1 : j \in 1 .. Len(queue)
    BY <1>1
  <2> QED
    BY <1>3, <2>1 DEF Sent
<1>4. ASSUME NEW i \in 1 .. Len(queue')
      PROVE  /\ queue'[i].op # "begin"
             /\ Inside(queue[i])' \/ queue'[i].op = "commit" =>
                  i = 1 /\ (worker = "running" => session.txn = "open") /\ OwnedBy(queue'[i].client)
             /\ queue'[i].op = "commit" => doomed \cap session.working = {}
             /\ Outside(queue[i])' /\ session.txn # "none" =>
                  \E j \in 1 .. i - 1 : queue'[j].op = "rollback"
  <2>1. CASE i \in 1 .. Len(queue)
    <3>1. queue'[i] = queue[i]
      BY <2>1 DEF Sent
    <3>2. /\ Inside(queue[i]) \/ queue[i].op = "commit" =>
                  i = 1 /\ (worker = "running" => session.txn = "open") /\ OwnedBy(queue[i].client)
          /\ queue[i].op = "commit" => doomed \cap session.working = {}
          /\ Outside(queue[i]) /\ session.txn # "none" =>
                  \E j \in 1 .. i - 1 : queue[j].op = "rollback"
      BY <2>1 DEF DisciplineInv, QueueSound
    <3> QED
      BY <1>3, <2>1, <3>1, <3>2
  <2>2. CASE i = Len(queue) + 1
    <3>1. queue'[i].op = op /\ queue'[i].client = c
      BY <1>1, <2>2 DEF Sent
    <3>2. Inside(queue[i])' \/ op = "commit" => i = 1
      BY <2>2
    <3>3. \A j \in 1 .. Len(queue) : j \in 1 .. i - 1 /\ queue'[j] = queue[j]
      BY <1>1, <2>2 DEF Sent
    <3> QED
      BY <2>2, <3>1, <3>2, <3>3
  <2> QED
    BY <2>1, <2>2 DEF Sent
<1>5. worker' = "stopped" => queue' = <<>>
  BY DEF Sent
<1> QED
  BY <1>1, <1>2, <1>4, <1>5 DEF QueueSound

\* The call of commit() keeps the invariant.
LEMMA CommitDiscipline ==
  ASSUME Disciplined, DisciplineInv, PoolInv', NEW c \in Clients, Commit(c)
  PROVE  DisciplineInv'
<1>1. Send(c, "commit") /\ Sent(c, "commit") /\ "commit" \in Calls
  BY SendFacts DEF Commit, Calls
<1>2. UNCHANGED <<issued, acked, committed, applied, doomed, abandoned>>
  BY DEF Commit, history
<1>3. tx[c] = "active" /\ awaiting[c] = "none" /\ reply[c] = "none"
  BY <1>1 DEF Commit, Disciplined, Sent
<1>4. \A d \in Clients \ {c} : ~InSection(d)
  BY <1>3 DEF DisciplineInv, OneSection, InSection
<1>5. /\ \A d \in Clients : awaiting[d] # "begin" /\ (d # c => tx[d] = "none")
      /\ \A i \in 1 .. Len(queue) : queue[i].op # "begin"
  BY <1>3, <1>4, AloneFacts
<1>6. SectionQueue(c) /\ SectionHolds(c) /\ Healthy(c)
  BY <1>3 DEF DisciplineInv, Healthy
<1>7. queue = <<>>
  <2>1. ~(1 \in 1 .. Len(queue))
    BY <1>3, <1>6 DEF SectionQueue
  <2>2. queue \in Seq(Request)
    BY DEF DisciplineInv, PoolInv, TypeOK
  <2> QED
    BY <2>1, <2>2, TailFacts
<1>8. /\ worker = "running" => session.txn = "open" /\ acked[c] \subseteq session.working
      /\ OwnedBy(c) /\ doomed \cap session.working = {}
  BY <1>3, <1>6 DEF SectionHolds
<1>9. OneSection'
  <2>1. \A d \in Clients : InSection(d)' => d = c
    BY <1>1, <1>5 DEF InSection, Sent
  <2> QED
    BY <2>1 DEF OneSection
<1>10. SessionSound' /\ CommitPersists' /\ AutocommitPersists' /\ DropUndoes'
  BY <1>1, <1>2
  DEF Sent, DisciplineInv, SessionSound, Staged, CommitPersists, AutocommitPersists, DropUndoes
<1>11. WritesAreMade'
  BY <1>1, <1>2, SendMade
<1>12. QueueSound'
  <2>1. \A i \in 1 .. Len(queue') : i = Len(queue) + 1 => ~Outside(queue[i])'
    BY <1>1 DEF Outside, Sent
  <2> QED
    BY <1>1, <1>2, <1>7, <1>8, <2>1, SendQueueSound
<1>13. ASSUME NEW d \in Clients
       PROVE  SectionQueue(d)' /\ Bookkeeping(d)' /\ SectionHolds(d)' /\ AnswerMeans(d)'
  <2>1. SectionQueue(d) /\ Bookkeeping(d) /\ SectionHolds(d) /\ AnswerMeans(d)
    BY DEF DisciplineInv
  <2>2. CASE d = c
    <3>1. tx'[c] = "active" /\ awaiting'[c] = "commit" /\ reply'[c] # "ok"
      BY <1>1, <1>3 DEF Sent
    <3>2. SectionQueue(c)'
      BY <1>1, <1>7, <3>1 DEF SectionQueue, Sent
    <3>3. Bookkeeping(c)'
      <4>1. \A w \in issued[c] : w[1] = c /\ w[2] \in Nat /\ w[2] <= calls[c]
        BY IssuedFacts
      <4>2. calls[c] \in Nat /\ calls'[c] = calls[c] + 1
        BY <1>1 DEF Sent
      <4> QED
        BY <1>2, <2>1, <2>2, <3>1, <4>1, <4>2 DEF Bookkeeping
    <3>4. SectionHolds(c)'
      BY <1>1, <1>2, <1>8, <3>1 DEF SectionHolds, OwnedBy, Staged, Sent
    <3>5. AnswerMeans(c)'
      BY <3>1 DEF AnswerMeans
    <3> QED
      BY <2>2, <3>2, <3>3, <3>4, <3>5
  <2>3. CASE d # c
    <3>1. tx'[d] = "none" /\ awaiting'[d] # "begin"
      BY <1>1, <1>5, <2>3 DEF Sent
    <3>2. SectionQueue(d)' /\ SectionHolds(d)'
      BY <3>1 DEF SectionQueue, SectionHolds, Healthy
    <3>3. Bookkeeping(d)' /\ AnswerMeans(d)'
      BY <1>1, <1>2, <2>1, <2>3 DEF Bookkeeping, AnswerMeans, Current, Staged, Sent
    <3> QED
      BY <3>2, <3>3
  <2> QED
    BY <2>2, <2>3
<1> QED
  BY <1>2, <1>9, <1>10, <1>11, <1>12, <1>13 DEF DisciplineInv

\* The call of query(), inside a transaction or outside of any, keeps the invariant.
LEMMA WriteDiscipline ==
  ASSUME Disciplined, DisciplineInv, PoolInv', NEW c \in Clients, Write(c)
  PROVE  DisciplineInv'
<1> DEFINE w == WriteOf(c, calls[c] + 1)
<1>1. Send(c, "write") /\ Sent(c, "write") /\ "write" \in Calls
  BY SendFacts DEF Write, Calls
<1>2. UNCHANGED <<acked, committed, applied, doomed, abandoned>>
  BY DEF Write
<1>3. tx[c] \in {"none", "active", "committed"} /\ awaiting[c] = "none" /\ reply[c] = "none"
  BY <1>1 DEF Write, Disciplined, Sent
<1>4. \A d \in Clients \ {c} : ~InSection(d)
  <2>1. CASE tx[c] = "none"
    BY <2>1 DEF Write, MayEnter, Disciplined
  <2>2. CASE tx[c] # "none"
    BY <2>2 DEF DisciplineInv, OneSection, InSection
  <2> QED
    BY <2>1, <2>2
<1>5. /\ \A d \in Clients : awaiting[d] # "begin" /\ (d # c => tx[d] = "none")
      /\ \A i \in 1 .. Len(queue) : queue[i].op # "begin"
  BY <1>3, <1>4, AloneFacts
<1>6. /\ \A d \in Clients : d # c => issued'[d] = issued[d]
      /\ issued'[c] = IF tx[c] = "active" THEN issued[c] \cup {w} ELSE issued[c]
  BY <1>3 DEF Write, DisciplineInv, PoolInv, TypeOK
<1>7. /\ w \notin doomed /\ w \notin session.working /\ w \notin session.durable
      /\ \A d \in Clients : w \notin issued[d]
      /\ \A i \in 1 .. Len(queue) : queue[i].op # "rollback" => W(queue[i]) # w
  BY FreshWrite
<1>8. Current(c)' = w
  BY <1>1 DEF Current, WriteOf, Sent
<1> HIDE DEF w
<1>9. SectionQueue(c) /\ SectionHolds(c) /\ Bookkeeping(c)
  BY DEF DisciplineInv
<1>10. ASSUME tx[c] = "active"
       PROVE  /\ queue = <<>>
              /\ worker = "running" => session.txn = "open" /\ acked[c] \subseteq session.working
              /\ OwnedBy(c) /\ doomed \cap session.working = {}
              /\ issued[c] \cap session.durable = {}
  <2>1. Healthy(c)
    BY <1>3, <1>10 DEF Healthy
  <2>2. ~(1 \in 1 .. Len(queue))
    BY <1>3, <1>9, <1>10 DEF SectionQueue
  <2>3. queue = <<>>
    BY <2>2, TailFacts DEF DisciplineInv, PoolInv, TypeOK
  <2> QED
    BY <1>3, <1>9, <1>10, <2>1, <2>3 DEF SectionHolds
<1>11. OneSection'
  <2>1. \A d \in Clients : InSection(d)' => d = c
    BY <1>1, <1>5 DEF InSection, Sent
  <2> QED
    BY <2>1 DEF OneSection
<1>12. SessionSound' /\ CommitPersists' /\ AutocommitPersists' /\ DropUndoes'
  BY <1>1, <1>2
  DEF Sent, DisciplineInv, SessionSound, Staged, CommitPersists, AutocommitPersists, DropUndoes
<1>13. WritesAreMade'
  BY <1>1, <1>2, SendMade
<1>14. ASSUME NEW i \in 1 .. Len(queue)
       PROVE  /\ queue'[i] = queue[i]
              /\ Inside(queue[i])' = Inside(queue[i]) /\ Outside(queue[i])' = Outside(queue[i])
  <2>1. queue'[i] = queue[i]
    BY <1>1 DEF Sent
  <2>2. queue[i].client \in Clients
    BY DEF DisciplineInv, PoolInv, TypeOK, Request
  <2>3. queue[i].op = "write" => WriteOf(queue[i].client, queue[i].call) # w
    BY <1>7 DEF W
  <2> QED
    BY <1>2, <1>6, <2>1, <2>2, <2>3 DEF Inside, Outside
<1>15. ASSUME NEW i \in 1 .. Len(queue'), i = Len(queue) + 1
       PROVE  /\ queue'[i].client = c /\ queue'[i] = [op |-> "write", client |-> c, call |-> calls'[c]]
              /\ Inside(queue[i])' = (tx[c] = "active") /\ Outside(queue[i])' = (tx[c] # "active")
  <2>1. queue'[i] = [op |-> "write", client |-> c, call |-> calls[c] + 1]
    BY <1>1, <1>15 DEF Sent
  <2>2. calls'[c] = calls[c] + 1
    BY <1>1 DEF Sent
  <2> QED
    BY <1>2, <1>6, <1>7, <2>1, <2>2 DEF Inside, Outside, w
<1>16. QueueSound'
  <2>1. ASSUME tx[c] \in {"none", "committed"}, session.txn # "none"
        PROVE  \E j \in 1 .. Len(queue) : queue[j].op = "rollback"
    <3>1. tx[c] = "none"
      BY <1>9, <2>1 DEF SectionHolds
    <3>2. \A d \in Clients : tx[d] = "none" /\ awaiting[d] # "begin"
      BY <1>5, <3>1
    <3> QED
      BY <2>1, <3>2 DEF DisciplineInv, PoolInv, NoOrphanTransaction
  <2> QED
    BY <1>1, <1>2, <1>3, <1>5, <1>10, <1>14, <1>15, <2>1, SendQueueSound
<1>17. ASSUME NEW d \in Clients
       PROVE  SectionQueue(d)' /\ Bookkeeping(d)' /\ SectionHolds(d)' /\ AnswerMeans(d)'
  <2>1. SectionQueue(d) /\ Bookkeeping(d) /\ SectionHolds(d) /\ AnswerMeans(d)
    BY DEF DisciplineInv
  <2>2. CASE d = c
    <3>1. tx'[c] = tx[c] /\ awaiting'[c] = "write" /\ reply'[c] = IF worker = "stopped" THEN "err" ELSE "none"
      BY <1>1 DEF Sent
    <3>2. SectionQueue(c)'
      <4>1. CASE tx[c] = "none"
        BY <3>1, <4>1 DEF SectionQueue
      <4>2. CASE tx[c] = "active"
        <5>1. ASSUME NEW i \in 1 .. Len(queue') PROVE i = 1 /\ i = Len(queue) + 1 /\ worker # "stopped"
          BY <1>1, <1>10, <4>2 DEF Sent
        <5>2. ASSUME NEW i \in 1 .. Len(queue')
              PROVE  /\ i = 1 /\ awaiting'[c] # "none" /\ reply'[c] = "none"
                     /\ queue'[i] = [op |-> awaiting'[c], client |-> c, call |-> calls'[c]]
          BY <1>15, <3>1, <5>1
        <5> QED
          BY <3>1, <4>2, <5>2 DEF SectionQueue
      <4>3. CASE tx[c] = "committed"
        <5>1. ASSUME NEW i \in 1 .. Len(queue') PROVE queue'[i].client = c /\ Outside(queue[i])'
          <6>1. CASE i \in 1 .. Len(queue)
            BY <1>9, <1>14, <4>3, <6>1 DEF SectionQueue
          <6>2. CASE i = Len(queue) + 1
            BY <1>15, <4>3, <6>2
          <6> QED
            BY <1>1, <6>1, <6>2 DEF Sent
        <5> QED
          BY <3>1, <4>3, <5>1 DEF SectionQueue
      <4> QED
        BY <1>3, <4>1, <4>2, <4>3
    <3>3. Bookkeeping(c)'
      <4>1. \A v \in issued[c] : v[1] = c /\ v[2] \in Nat /\ v[2] <= calls[c]
        BY IssuedFacts
      <4>2. calls[c] \in Nat /\ calls'[c] = calls[c] + 1
        BY <1>1 DEF Sent
      <4>3. w[1] = c /\ w[2] = calls'[c]
        BY <4>2 DEF w, WriteOf
      <4>4. \A v \in issued'[c] : v[1] = c /\ v[2] <= calls'[c]
        BY <1>6, <4>1, <4>2, <4>3
      <4> QED
        BY <1>2, <1>6, <1>7, <1>8, <1>9, <3>1, <4>4 DEF Bookkeeping
    <3>4. SectionHolds(c)'
      <4>1. session' = session /\ worker' = worker /\ OwnedBy(c)' = OwnedBy(c)
        BY <1>1 DEF OwnedBy, Staged, Sent
      <4>2. CASE tx[c] = "active"
        BY <1>2, <1>6, <1>7, <1>10, <3>1, <4>1, <4>2 DEF SectionHolds
      <4>3. CASE tx[c] # "active"
        BY <1>3, <1>9, <3>1, <4>1, <4>3 DEF SectionHolds, Healthy
      <4> QED
        BY <4>2, <4>3
    <3>5. AnswerMeans(c)'
      BY <3>1 DEF AnswerMeans
    <3> QED
      BY <2>2, <3>2, <3>3, <3>4, <3>5
  <2>3. CASE d # c
    <3>1. tx'[d] = "none" /\ awaiting'[d] # "begin"
      BY <1>1, <1>5, <2>3 DEF Sent
    <3>2. SectionQueue(d)' /\ SectionHolds(d)'
      BY <3>1 DEF SectionQueue, SectionHolds, Healthy
    <3>3. Bookkeeping(d)' /\ AnswerMeans(d)'
      BY <1>1, <1>2, <1>6, <2>1, <2>3 DEF Bookkeeping, AnswerMeans, Current, Staged, Sent
    <3> QED
      BY <3>2, <3>3
  <2> QED
    BY <2>2, <2>3
<1> QED
  BY <1>2, <1>11, <1>12, <1>13, <1>16, <1>17 DEF DisciplineInv

\* What a task learns or forgets leaves the queue and the connection as they are.
LEMMA QuietFacts ==
  ASSUME DisciplineInv, UNCHANGED <<queue, worker, session, calls, issued, doomed>>
  PROVE  /\ QueueSound' /\ SessionSound' /\ DropUndoes' /\ WritesAreMade'
         /\ Staged' = Staged
         /\ \A x : OwnedBy(x)' = OwnedBy(x) /\ Inside(x)' = Inside(x) /\ Outside(x)' = Outside(x)
<1>1. Staged' = Staged
  BY DEF Staged
<1>2. \A x : OwnedBy(x)' = OwnedBy(x) /\ Inside(x)' = Inside(x) /\ Outside(x)' = Outside(x)
  BY <1>1 DEF OwnedBy, Inside, Outside
<1>3. QueueSound'
  BY <1>2 DEF DisciplineInv, QueueSound
<1> QED
  BY <1>1, <1>2, <1>3 DEF DisciplineInv, SessionSound, DropUndoes, WritesAreMade

\* What one task learns says nothing of another.
LEMMA QuietOthers ==
  ASSUME DisciplineInv, UNCHANGED <<queue, worker, session, calls, issued, doomed>>,
         NEW d \in Clients, awaiting'[d] = awaiting[d], reply'[d] = reply[d],
         tx'[d] = tx[d], acked'[d] = acked[d]
  PROVE  SectionQueue(d)' /\ Bookkeeping(d)' /\ SectionHolds(d)' /\ AnswerMeans(d)'
<1>1. SectionQueue(d) /\ Bookkeeping(d) /\ SectionHolds(d) /\ AnswerMeans(d)
  BY DEF DisciplineInv
<1>2. \A x : OwnedBy(x)' = OwnedBy(x) /\ Inside(x)' = Inside(x) /\ Outside(x)' = Outside(x)
  BY QuietFacts
<1>3. SectionQueue(d)'
  BY <1>1, <1>2 DEF SectionQueue
<1>4. Bookkeeping(d)' /\ AnswerMeans(d)'
  BY <1>1 DEF Bookkeeping, AnswerMeans, Current, Staged
<1>5. SectionHolds(d)'
  BY <1>1, <1>2 DEF SectionHolds, Healthy
<1> QED
  BY <1>3, <1>4, <1>5

\* A task that was answered has nothing queued while its Transaction is unharmed.
LEMMA AnsweredQueue ==
  ASSUME DisciplineInv, NEW c \in Clients, tx[c] = "active", reply[c] # "none"
  PROVE  queue = <<>>
<1>1. SectionQueue(c)
  BY DEF DisciplineInv
<1>2. ~(1 \in 1 .. Len(queue))
  BY <1>1 DEF SectionQueue
<1> QED
  BY <1>2, TailFacts DEF DisciplineInv, PoolInv, TypeOK

\* The answer of transaction() keeps the invariant.
LEMMA BeginReturnsDiscipline ==
  ASSUME DisciplineInv, PoolInv', NEW c \in Clients, BeginReturns(c)
  PROVE  DisciplineInv'
<1>1. /\ UNCHANGED <<queue, worker, session, calls>>
      /\ awaiting[c] = "begin" /\ reply[c] # "none"
      /\ UNCHANGED <<issued, acked, committed, applied, doomed, abandoned>>
  BY DEF BeginReturns, Resume, history
<1>2. /\ awaiting'[c] = "none" /\ reply'[c] = "none"
      /\ tx'[c] = IF reply[c] = "ok" THEN "active" ELSE "none"
      /\ \A d \in Clients : d # c =>
           awaiting'[d] = awaiting[d] /\ reply'[d] = reply[d] /\ tx'[d] = tx[d]
  BY DEF BeginReturns, Resume, DisciplineInv, PoolInv, TypeOK
<1>3. tx[c] = "none"
  BY <1>1 DEF DisciplineInv, PoolInv, BeginsOutside
<1>4. SectionQueue(c) /\ Bookkeeping(c) /\ SectionHolds(c) /\ AnswerMeans(c)
  BY DEF DisciplineInv
<1>5. OneSection'
  <2>1. \A d \in Clients : InSection(d)' => InSection(d)
    BY <1>1, <1>2 DEF InSection
  <2> QED
    BY <2>1 DEF DisciplineInv, OneSection
<1>6. QueueSound' /\ SessionSound' /\ DropUndoes' /\ WritesAreMade'
  BY <1>1, QuietFacts
<1>7. CommitPersists' /\ AutocommitPersists'
  BY <1>1 DEF DisciplineInv, CommitPersists, AutocommitPersists
<1>8. queue = <<>> /\ Len(queue) = 0
  BY <1>1, <1>4 DEF SectionQueue
<1>9. ASSUME reply[c] = "ok"
      PROVE  /\ Staged = {} /\ (worker = "running" => session.txn = "open")
             /\ doomed \cap session.working = {}
  <2>1. Staged = {} /\ (worker = "running" => session.txn = "open")
    BY <1>1, <1>4, <1>9 DEF AnswerMeans
  <2> QED
    BY <2>1 DEF Staged, DisciplineInv, DropUndoes
<1>10. SectionQueue(c)'
  BY <1>1, <1>2, <1>8 DEF SectionQueue
<1>11. Bookkeeping(c)'
  BY <1>1, <1>2, <1>3, <1>4 DEF Bookkeeping
<1>12. SectionHolds(c)'
  <2>1. issued[c] = {} /\ acked[c] = {}
    BY <1>3, <1>4 DEF Bookkeeping
  <2>2. OwnedBy(c)' = OwnedBy(c)
    BY <1>1, QuietFacts
  <2>3. CASE reply[c] = "ok"
    <3>1. OwnedBy(c)
      BY <1>9, <2>3 DEF OwnedBy
    <3> QED
      BY <1>1, <1>2, <1>9, <2>1, <2>2, <2>3, <3>1 DEF SectionHolds
  <2>4. CASE reply[c] # "ok"
    BY <1>2, <2>4 DEF SectionHolds, Healthy
  <2> QED
    BY <2>3, <2>4
<1>13. AnswerMeans(c)'
  BY <1>2 DEF AnswerMeans
<1>14. \A d \in Clients : SectionQueue(d)' /\ Bookkeeping(d)' /\ SectionHolds(d)' /\ AnswerMeans(d)'
  BY <1>1, <1>2, <1>10, <1>11, <1>12, <1>13, QuietOthers
<1> QED
  BY <1>1, <1>5, <1>6, <1>7, <1>14 DEF DisciplineInv

\* The answer of query() keeps the invariant.
LEMMA WriteReturnsDiscipline ==
  ASSUME DisciplineInv, PoolInv', NEW c \in Clients, WriteReturns(c)
  PROVE  DisciplineInv'
<1>1. /\ UNCHANGED <<queue, worker, session, calls>>
      /\ awaiting[c] = "write" /\ reply[c] # "none"
      /\ UNCHANGED <<issued, committed, doomed, abandoned>>
  BY DEF WriteReturns, Resume
<1>2. /\ awaiting'[c] = "none" /\ reply'[c] = "none"
      /\ tx'[c] = IF reply[c] = "err" /\ tx[c] = "active" THEN "failed" ELSE tx[c]
      /\ acked'[c] = IF reply[c] = "ok" /\ tx[c] \in {"active", "failed"}
                       THEN acked[c] \cup {Current(c)} ELSE acked[c]
      /\ \A d \in Clients : d # c =>
           /\ awaiting'[d] = awaiting[d] /\ reply'[d] = reply[d] /\ tx'[d] = tx[d]
           /\ acked'[d] = acked[d]
  BY DEF WriteReturns, Resume, DisciplineInv, PoolInv, TypeOK
<1>3. SectionQueue(c) /\ Bookkeeping(c) /\ SectionHolds(c) /\ AnswerMeans(c)
  BY DEF DisciplineInv
<1>4. tx[c] \in {"none", "active", "committed"} /\ reply[c] \in {"ok", "err"}
  <2>1. tx[c] \in TxState /\ reply[c] \in {"none", "ok", "err"}
    BY DEF DisciplineInv, PoolInv, TypeOK
  <2> QED
    BY <1>1, <1>3, <2>1 DEF SectionQueue, TxState
<1>5. OneSection'
  <2>1. \A d \in Clients : InSection(d)' => InSection(d)
    BY <1>1, <1>2 DEF InSection
  <2> QED
    BY <2>1 DEF DisciplineInv, OneSection
<1>6. QueueSound' /\ SessionSound' /\ DropUndoes' /\ WritesAreMade'
  BY <1>1, QuietFacts
<1>7. CommitPersists' /\ AutocommitPersists'
  <2>1. CASE reply[c] = "ok" /\ tx[c] \in {"none", "committed"}
    <3>1. applied' = applied \cup {Current(c)} /\ Current(c) \in session.durable
      BY <1>1, <1>3, <2>1 DEF WriteReturns, AnswerMeans
    <3> QED
      BY <1>1, <3>1 DEF DisciplineInv, CommitPersists, AutocommitPersists
  <2>2. CASE ~(reply[c] = "ok" /\ tx[c] \in {"none", "committed"})
    <3>1. applied' = applied
      BY <2>2 DEF WriteReturns
    <3> QED
      BY <1>1, <3>1 DEF DisciplineInv, CommitPersists, AutocommitPersists
  <2> QED
    BY <2>1, <2>2
<1>8. tx[c] = "active" => queue = <<>> /\ Len(queue) = 0
  BY <1>1, AnsweredQueue
<1>9. \A x : OwnedBy(x)' = OwnedBy(x) /\ Inside(x)' = Inside(x) /\ Outside(x)' = Outside(x)
  BY <1>1, QuietFacts
<1>10. SectionQueue(c)'
  BY <1>1, <1>2, <1>3, <1>4, <1>8, <1>9 DEF SectionQueue
<1>11. Bookkeeping(c)'
  BY <1>1, <1>2, <1>3, <1>4 DEF Bookkeeping
<1>12. SectionHolds(c)'
  <2>1. CASE tx[c] = "active" /\ reply[c] = "ok"
    <3>1. Healthy(c)
      BY <1>1, <2>1 DEF Healthy
    <3> QED
      BY <1>1, <1>2, <1>3, <1>9, <2>1, <3>1 DEF SectionHolds, AnswerMeans
  <2>2. CASE tx[c] = "active" /\ reply[c] = "err"
    BY <1>1, <1>2, <1>3, <2>2 DEF SectionHolds, Healthy
  <2>3. CASE tx[c] # "active"
    BY <1>1, <1>2, <1>3, <1>4, <2>3 DEF SectionHolds, Healthy
  <2> QED
    BY <1>4, <2>1, <2>2, <2>3
<1>13. AnswerMeans(c)'
  BY <1>2 DEF AnswerMeans
<1>14. \A d \in Clients : SectionQueue(d)' /\ Bookkeeping(d)' /\ SectionHolds(d)' /\ AnswerMeans(d)'
  BY <1>1, <1>2, <1>10, <1>11, <1>12, <1>13, QuietOthers
<1> QED
  BY <1>1, <1>5, <1>6, <1>7, <1>14 DEF DisciplineInv

\* The answer of commit() keeps the invariant.
LEMMA CommitReturnsDiscipline ==
  ASSUME DisciplineInv, PoolInv', NEW c \in Clients, CommitReturns(c)
  PROVE  DisciplineInv'
<1>1. /\ UNCHANGED <<queue, worker, session, calls>>
      /\ awaiting[c] = "commit" /\ reply[c] # "none"
      /\ UNCHANGED <<issued, acked, applied, doomed, abandoned>>
  BY DEF CommitReturns, Resume
<1>2. /\ awaiting'[c] = "none" /\ reply'[c] = "none"
      /\ tx'[c] = IF reply[c] = "ok" THEN "committed" ELSE "unknown"
      /\ \A d \in Clients : d # c =>
           awaiting'[d] = awaiting[d] /\ reply'[d] = reply[d] /\ tx'[d] = tx[d]
  BY DEF CommitReturns, Resume, DisciplineInv, PoolInv, TypeOK
<1>3. SectionQueue(c) /\ Bookkeeping(c) /\ SectionHolds(c) /\ AnswerMeans(c)
  BY DEF DisciplineInv
<1>4. tx[c] = "active"
  BY <1>1, <1>3 DEF Bookkeeping
<1>5. queue = <<>> /\ Len(queue) = 0
  BY <1>1, <1>4, AnsweredQueue
<1>6. reply[c] = "ok" => session.txn = "none" /\ acked[c] \subseteq session.durable
  BY <1>1, <1>3 DEF AnswerMeans
<1>7. OneSection'
  <2>1. \A d \in Clients : InSection(d)' => InSection(d)
    BY <1>1, <1>2, <1>4 DEF InSection
  <2> QED
    BY <2>1 DEF DisciplineInv, OneSection
<1>8. QueueSound' /\ SessionSound' /\ DropUndoes' /\ WritesAreMade'
  BY <1>1, QuietFacts
<1>9. CommitPersists' /\ AutocommitPersists'
  <2>1. committed' = IF reply[c] = "ok" THEN committed \cup acked[c] ELSE committed
    BY DEF CommitReturns
  <2> QED
    BY <1>1, <1>6, <2>1 DEF DisciplineInv, CommitPersists, AutocommitPersists
<1>10. SectionQueue(c)' /\ AnswerMeans(c)'
  BY <1>1, <1>2, <1>5 DEF SectionQueue, AnswerMeans
<1>11. Bookkeeping(c)'
  BY <1>1, <1>2, <1>3 DEF Bookkeeping
<1>12. SectionHolds(c)'
  BY <1>1, <1>2, <1>6 DEF SectionHolds, Healthy
<1>13. \A d \in Clients : SectionQueue(d)' /\ Bookkeeping(d)' /\ SectionHolds(d)' /\ AnswerMeans(d)'
  BY <1>1, <1>2, <1>10, <1>11, <1>12, QuietOthers
<1> QED
  BY <1>1, <1>7, <1>8, <1>9, <1>13 DEF DisciplineInv

\* A cancelled query() or commit() keeps the invariant.
LEMMA CancelDiscipline ==
  ASSUME Disciplined, DisciplineInv, PoolInv', NEW c \in Clients, Cancel(c)
  PROVE  DisciplineInv'
<1>1. /\ UNCHANGED <<queue, worker, session, calls>>
      /\ UNCHANGED <<issued, acked, committed, applied, doomed>>
      /\ awaiting[c] \in {"write", "commit"}
  BY CancellableAssumption DEF Cancel, Disciplined, Calls
<1>2. abandoned' = abandoned
  BY <1>1 DEF Cancel
<1>3. /\ awaiting'[c] = "none" /\ reply'[c] = "none"
      /\ tx'[c] = CASE awaiting[c] = "commit"                    -> "unknown"
                    [] awaiting[c] = "write" /\ tx[c] = "active" -> "failed"
                    [] OTHER                                     -> tx[c]
      /\ \A d \in Clients : d # c =>
           awaiting'[d] = awaiting[d] /\ reply'[d] = reply[d] /\ tx'[d] = tx[d]
  BY DEF Cancel, DisciplineInv, PoolInv, TypeOK
<1>4. SectionQueue(c) /\ Bookkeeping(c) /\ SectionHolds(c)
  BY DEF DisciplineInv
<1>5. \/ awaiting[c] = "commit" /\ tx[c] = "active" /\ tx'[c] = "unknown"
      \/ awaiting[c] = "write" /\ tx[c] = "active" /\ tx'[c] = "failed"
      \/ awaiting[c] = "write" /\ tx[c] \in {"none", "committed"} /\ tx'[c] = tx[c]
  <2>1. tx[c] \in TxState
    BY DEF DisciplineInv, PoolInv, TypeOK
  <2>2. awaiting[c] = "commit" => tx[c] = "active"
    BY <1>4 DEF Bookkeeping
  <2>3. tx[c] \notin {"failed", "unknown"}
    BY <1>1, <1>4 DEF SectionQueue
  <2> QED
    BY <1>1, <1>3, <2>1, <2>2, <2>3 DEF TxState
<1>6. OneSection'
  <2>1. \A d \in Clients : InSection(d)' => InSection(d)
    BY <1>1, <1>3, <1>5 DEF InSection
  <2> QED
    BY <2>1 DEF DisciplineInv, OneSection
<1>7. /\ QueueSound' /\ SessionSound' /\ DropUndoes' /\ WritesAreMade'
      /\ \A x : OwnedBy(x)' = OwnedBy(x) /\ Inside(x)' = Inside(x) /\ Outside(x)' = Outside(x)
  BY <1>1, QuietFacts
<1>8. CommitPersists' /\ AutocommitPersists'
  BY <1>1 DEF DisciplineInv, CommitPersists, AutocommitPersists
<1>9. SectionQueue(c)'
  <2>1. ASSUME tx[c] = "active", NEW i \in 1 .. Len(queue)
        PROVE  /\ i = 1 /\ queue[i].client = c /\ queue[i].op = awaiting[c]
               /\ awaiting[c] = "write" => Inside(queue[i])
    <3>1. i = 1 /\ queue[i] = [op |-> awaiting[c], client |-> c, call |-> calls[c]]
      BY <1>4, <2>1 DEF SectionQueue
    <3>2. awaiting[c] = "write" => Current(c) \in issued[c]
      BY <1>4, <2>1 DEF Bookkeeping
    <3> QED
      BY <3>1, <3>2 DEF Inside, Current
  <2>2. CASE tx[c] = "active"
    BY <1>1, <1>3, <1>5, <1>7, <2>1, <2>2 DEF SectionQueue
  <2>3. CASE tx[c] # "active"
    BY <1>1, <1>3, <1>4, <1>5, <1>7, <2>3 DEF SectionQueue
  <2> QED
    BY <2>2, <2>3
<1>10. Bookkeeping(c)'
  BY <1>1, <1>3, <1>4, <1>5 DEF Bookkeeping
<1>11. SectionHolds(c)'
  <2>1. CASE awaiting[c] = "write"
    BY <1>1, <1>3, <1>4, <1>5, <2>1 DEF SectionHolds, Healthy
  <2>2. CASE awaiting[c] = "commit"
    BY <1>5, <2>2 DEF SectionHolds, Healthy
  <2> QED
    BY <1>1, <2>1, <2>2
<1>12. AnswerMeans(c)'
  BY <1>3 DEF AnswerMeans
<1>13. \A d \in Clients : SectionQueue(d)' /\ Bookkeeping(d)' /\ SectionHolds(d)' /\ AnswerMeans(d)'
  BY <1>1, <1>3, <1>9, <1>10, <1>11, <1>12, QuietOthers
<1> QED
  BY <1>1, <1>2, <1>6, <1>7, <1>8, <1>13 DEF DisciplineInv

\* The drop of a Transaction keeps the invariant.
LEMMA DropDiscipline ==
  ASSUME DisciplineInv, PoolInv', NEW c \in Clients, DropTransaction(c)
  PROVE  DisciplineInv'
<1>1. /\ UNCHANGED <<worker, session, calls, awaiting, reply, committed, applied, abandoned>>
      /\ tx[c] # "none" /\ awaiting[c] = "none"
      /\ doomed' = IF tx[c] \in {"active", "failed"} THEN doomed \cup issued[c] ELSE doomed
  BY DEF DropTransaction
<1>2. /\ tx'[c] = "none" /\ issued'[c] = {} /\ acked'[c] = {}
      /\ \A d \in Clients : d # c =>
           tx'[d] = tx[d] /\ issued'[d] = issued[d] /\ acked'[d] = acked[d]
  BY DEF DropTransaction, DisciplineInv, PoolInv, TypeOK
<1>3. \A d \in Clients \ {c} : ~InSection(d)
  BY <1>1 DEF DisciplineInv, OneSection, InSection
<1>4. /\ \A d \in Clients : awaiting[d] # "begin" /\ tx'[d] = "none"
      /\ \A d \in Clients : d # c => tx[d] = "none"
      /\ \A i \in 1 .. Len(queue) : queue[i].op # "begin"
  BY <1>1, <1>2, <1>3, AloneFacts
<1>5. SectionQueue(c) /\ Bookkeeping(c) /\ SectionHolds(c)
  BY DEF DisciplineInv
<1>6. /\ queue \in Seq(Request) /\ Len(queue) \in Nat /\ Rollback(c) \in Request
      /\ queue' = IF worker # "stopped" THEN Append(queue, Rollback(c)) ELSE queue
  BY DEF DropTransaction, QueueWithRollback, Rollback, Request, DisciplineInv, PoolInv, TypeOK
<1>7. /\ Len(queue') \in Nat
      /\ \A i \in 1 .. Len(queue) : i \in 1 .. Len(queue') /\ queue'[i] = queue[i]
      /\ \A i \in 1 .. Len(queue') :
           (i \in 1 .. Len(queue) /\ queue'[i] = queue[i]) \/ queue'[i].op = "rollback"
  <2>1. CASE worker = "stopped"
    BY <1>6, <2>1
  <2>2. CASE worker # "stopped"
    <3>1. queue' = Append(queue, Rollback(c))
      BY <1>6, <2>2
    <3>2. /\ Len(queue') = Len(queue) + 1 /\ queue'[Len(queue) + 1] = Rollback(c)
          /\ \A i \in 1 .. Len(queue) : queue'[i] = queue[i]
      BY <1>6, <3>1, AppendFacts
    <3>3. \A i \in 1 .. Len(queue') : i \in 1 .. Len(queue) \/ i = Len(queue) + 1
      BY <1>6, <3>2
    <3>4. Rollback(c).op = "rollback"
      BY DEF Rollback
    <3> QED
      BY <1>6, <3>2, <3>3, <3>4
  <2> QED
    BY <2>1, <2>2
<1>8. ASSUME NEW i \in 1 .. Len(queue)
      PROVE  /\ Inside(queue[i])' = Inside(queue[i]) /\ Outside(queue[i])' = Outside(queue[i])
             /\ queue[i].op = "commit" => doomed' = doomed
  <2>1. queue[i].client = c /\ tx[c] # "active"
    BY <1>1, <1>5 DEF SectionQueue, DisciplineInv, PoolInv, TypeOK, TxState
  <2>2. /\ tx[c] = "failed" => Inside(queue[i])
        /\ tx[c] = "unknown" => queue[i].op = "commit"
        /\ tx[c] = "committed" => Outside(queue[i])
    BY <1>5 DEF SectionQueue
  <2>3. tx[c] \in {"failed", "unknown", "committed"}
    BY <1>1, <2>1 DEF DisciplineInv, PoolInv, TypeOK, TxState
  <2>4. queue'[i] = queue[i]
    BY <1>7
  <2> QED
    BY <1>1, <1>2, <2>1, <2>2, <2>3, <2>4 DEF Inside, Outside
<1>9. OneSection'
  BY <1>1, <1>4 DEF OneSection, InSection
<1>10. SessionSound' /\ CommitPersists' /\ AutocommitPersists'
  BY <1>1 DEF DisciplineInv, SessionSound, Staged, CommitPersists, AutocommitPersists
<1>11. DropUndoes'
  <2>1. tx[c] \in {"active", "failed"} => issued[c] \cap session.durable = {}
    BY <1>1, <1>5 DEF SectionHolds
  <2> QED
    BY <1>1, <2>1 DEF DisciplineInv, DropUndoes
<1>12. WritesAreMade'
  <2>1. \A w \in issued[c] : w[1] = c /\ w[2] <= calls[c]
    BY IssuedFacts
  <2> QED
    BY <1>1, <2>1 DEF DisciplineInv, WritesAreMade
<1>13. QueueSound'
  <2>1. worker = "stopped" => queue' = <<>>
    BY <1>6 DEF DisciplineInv, QueueSound
  <2>2. \A d : OwnedBy(d)' = OwnedBy(d)
    BY <1>1 DEF OwnedBy, Staged
  <2>3. ASSUME NEW i \in 1 .. Len(queue')
        PROVE  /\ queue'[i].op # "begin"
               /\ Inside(queue[i])' \/ queue'[i].op = "commit" =>
                    i = 1 /\ (worker = "running" => session.txn = "open") /\ OwnedBy(queue'[i].client)
               /\ queue'[i].op = "commit" => doomed' \cap session.working = {}
               /\ Outside(queue[i])' /\ session.txn # "none" =>
                    \E j \in 1 .. i - 1 : queue'[j].op = "rollback"
    <3>1. CASE queue'[i].op = "rollback"
      BY <3>1 DEF Inside, Outside
    <3>2. CASE i \in 1 .. Len(queue) /\ queue'[i] = queue[i]
      <4>1. /\ queue[i].op # "begin"
            /\ Inside(queue[i]) \/ queue[i].op = "commit" =>
                    i = 1 /\ (worker = "running" => session.txn = "open") /\ OwnedBy(queue[i].client)
            /\ queue[i].op = "commit" => doomed \cap session.working = {}
            /\ Outside(queue[i]) /\ session.txn # "none" =>
                    \E j \in 1 .. i - 1 : queue[j].op = "rollback"
        BY <1>4, <3>2 DEF DisciplineInv, QueueSound
      <4>2. \A j \in 1 .. i - 1 : j \in 1 .. Len(queue) /\ queue'[j] = queue[j]
        BY <1>6, <1>7, <3>2
      <4> QED
        BY <1>8, <3>2, <4>1, <4>2
    <3> QED
      BY <1>7, <3>1, <3>2
  <2> QED
    BY <1>1, <2>1, <2>2, <2>3 DEF QueueSound
<1>14. ASSUME NEW d \in Clients
       PROVE  SectionQueue(d)' /\ Bookkeeping(d)' /\ SectionHolds(d)' /\ AnswerMeans(d)'
  <2>1. SectionQueue(d)' /\ SectionHolds(d)'
    BY <1>1, <1>4 DEF SectionQueue, SectionHolds, Healthy
  <2>2. Bookkeeping(d) /\ AnswerMeans(d)
    BY DEF DisciplineInv
  <2>3. CASE d = c
    BY <1>1, <1>2, <2>1, <2>3 DEF Bookkeeping, AnswerMeans
  <2>4. CASE d # c
    <3>1. issued[d] = {} /\ acked[d] = {}
      BY <1>4, <2>2, <2>4 DEF Bookkeeping
    <3>2. Current(d) \notin issued[c]
      <4>1. \A w \in issued[c] : w[1] = c
        BY IssuedFacts
      <4> QED
        BY <2>4, <4>1 DEF Current, WriteOf
    <3>3. Bookkeeping(d)'
      BY <1>1, <1>2, <1>4, <2>2, <2>4, <3>1, <3>2 DEF Bookkeeping, Current
    <3>4. AnswerMeans(d)'
      BY <1>1, <1>2, <2>2, <2>4 DEF AnswerMeans, Current, Staged
    <3> QED
      BY <2>1, <3>3, <3>4
  <2> QED
    BY <2>1, <2>3, <2>4
<1> QED
  BY <1>1, <1>9, <1>10, <1>11, <1>12, <1>13, <1>14 DEF DisciplineInv

\* A task that gives its pool up keeps the invariant.
LEMMA CloseDiscipline ==
  ASSUME DisciplineInv, PoolInv', NEW c \in Clients, Close(c)
  PROVE  DisciplineInv'
<1>1. /\ UNCHANGED <<queue, worker, session, calls, awaiting, reply, tx>>
      /\ UNCHANGED <<issued, acked, committed, applied, doomed, abandoned>>
  BY DEF Close, history
<1>2. QueueSound' /\ SessionSound' /\ DropUndoes' /\ WritesAreMade'
  BY <1>1, QuietFacts
<1>3. \A d \in Clients : SectionQueue(d)' /\ Bookkeeping(d)' /\ SectionHolds(d)' /\ AnswerMeans(d)'
  BY <1>1, QuietOthers
<1> QED
  BY <1>1, <1>2, <1>3
  DEF DisciplineInv, OneSection, InSection, CommitPersists, AutocommitPersists

-----------------------------------------------------------------------------
(* The invariant of a disciplined pool *)

\* Nothing has been asked, so nothing is staged, queued or promised.
LEMMA InitDiscipline == ASSUME Init PROVE DisciplineInv
<1>1. PoolInv
  BY InitQueue DEF Init, Opened, PoolInv, QueueInv, GoneIsClosed, BeginsOutside, NoOrphanTransaction
<1>2. session.txn = "none" /\ session.durable = {} /\ session.working = {}
  BY DEF Init, Opened
<1>3. queue = <<>> /\ Len(queue) = 0 /\ worker = "running"
  BY DEF Init
<1>4. QueueSound
  BY <1>3 DEF QueueSound
<1>5. \A c \in Clients : SectionQueue(c) /\ Bookkeeping(c) /\ SectionHolds(c) /\ AnswerMeans(c)
  BY DEF Init, SectionQueue, Bookkeeping, SectionHolds, AnswerMeans, Healthy
<1>6. OneSection /\ SessionSound /\ WritesAreMade
  BY <1>2 DEF Init, OneSection, InSection, SessionSound, Staged, WritesAreMade
<1>7. CommitPersists /\ AutocommitPersists /\ DropUndoes
  BY DEF Init, CommitPersists, AutocommitPersists, DropUndoes
<1> QED
  BY <1>1, <1>4, <1>5, <1>6, <1>7 DEF DisciplineInv, Init

\* Every step of disciplined tasks, and of the worker, keeps the invariant.
LEMMA DisciplineStep ==
  ASSUME Disciplined, DisciplineInv, [Next]_vars
  PROVE  DisciplineInv'
<1>1. PoolInv'
  BY PoolInvStep DEF DisciplineInv
<1>2. ASSUME NEW c \in Clients, Task(c) PROVE DisciplineInv'
  BY <1>1, <1>2, BeginDiscipline, WriteDiscipline, CommitDiscipline, BeginReturnsDiscipline,
     WriteReturnsDiscipline, CommitReturnsDiscipline, DropDiscipline, CancelDiscipline, CloseDiscipline
  DEF Task, Returns
<1>3. CASE Worker
  BY <1>1, <1>3, WorkerDiscipline
<1>4. CASE UNCHANGED vars
  <2>1. /\ UNCHANGED <<queue, worker, session, calls, awaiting, reply, tx>>
        /\ UNCHANGED <<issued, acked, committed, applied, doomed, abandoned>>
    BY <1>4 DEF vars, program, history
  <2>2. QueueSound' /\ SessionSound' /\ DropUndoes' /\ WritesAreMade'
    BY <2>1, QuietFacts
  <2>3. \A d \in Clients : SectionQueue(d)' /\ Bookkeeping(d)' /\ SectionHolds(d)' /\ AnswerMeans(d)'
    BY <2>1, QuietOthers
  <2> QED
    BY <1>1, <2>1, <2>2, <2>3
    DEF DisciplineInv, OneSection, InSection, CommitPersists, AutocommitPersists
<1> QED
  BY <1>2, <1>3, <1>4 DEF Next, Finished

\* The inductive invariant of a pool whose tasks keep to themselves.
THEOREM DisciplineInvariant == ASSUME Disciplined PROVE Spec => []DisciplineInv
<1>1. Init => DisciplineInv
  BY InitDiscipline
<1>2. DisciplineInv /\ [Next]_vars => DisciplineInv'
  BY DisciplineStep
<1> QED
  BY <1>1, <1>2, PTL DEF Spec

\* While its Transaction is unharmed a task is in the transaction of the connection: no
\* ROLLBACK of an earlier Transaction ends it (Drop for Transaction).
THEOREM ActiveStaysOpen == ASSUME Disciplined PROVE Spec => []ActiveIsOpen
<1>1. DisciplineInv => ActiveIsOpen
  <2>1. SUFFICES ASSUME DisciplineInv, NEW c \in Clients,
                        tx[c] = "active", awaiting[c] = "none", worker = "running"
                 PROVE  session.txn = "open"
    BY DEF ActiveIsOpen
  <2>2. reply[c] = "none" /\ SectionHolds(c)
    BY <2>1 DEF DisciplineInv, PoolInv, IdleHasNoReply
  <2> QED
    BY <2>1, <2>2 DEF SectionHolds, Healthy
<1> QED
  BY <1>1, DisciplineInvariant, PTL

\* Every write answered with Ok in a transaction whose commit() returned Ok is durable,
\* from then on (commit).
THEOREM CommitsPersist == ASSUME Disciplined PROVE Spec => []CommitPersists
<1>1. DisciplineInv => CommitPersists
  BY DEF DisciplineInv
<1> QED
  BY <1>1, DisciplineInvariant, PTL

\* Every write answered with Ok outside of any transaction is durable: no other task's
\* transaction took it in (query).
THEOREM AutocommitsPersist == ASSUME Disciplined PROVE Spec => []AutocommitPersists
<1>1. DisciplineInv => AutocommitPersists
  BY DEF DisciplineInv
<1> QED
  BY <1>1, DisciplineInvariant, PTL

\* No write of a Transaction dropped without a commit becomes durable (Drop for Transaction).
THEOREM DropsUndo == ASSUME Disciplined PROVE Spec => []DropUndoes
<1>1. DisciplineInv => DropUndoes
  BY DEF DisciplineInv
<1> QED
  BY <1>1, DisciplineInvariant, PTL

-----------------------------------------------------------------------------
(* The pool implements the store *)

\* Everything that is staged belongs to one task.
LEMMA StagedOwner ==
  ASSUME DisciplineInv, Staged # {}
  PROVE  \E c \in Clients :
           /\ PendingOf[c] # {} /\ PendingOf[c] = Staged
           /\ \A d \in Clients : d # c => PendingOf[d] = {}
<1>1. PICK w \in Staged : TRUE
  OBVIOUS
<1>2. w[1] \in Clients
  BY <1>1 DEF Staged, DisciplineInv, PoolInv, TypeOK, Session, Token
<1>3. \A v \in Staged : v[1] = w[1]
  BY <1>1 DEF DisciplineInv, SessionSound
<1> QED
  BY <1>1, <1>2, <1>3 DEF PendingOf, Staged

\* A connection that keeps what it has is a stutter of the store.
LEMMA KeepStep ==
  ASSUME Staged' = Staged, session'.durable = session.durable
  PROVE  UNCHANGED Store!vars
BY DEF Store!vars, PendingOf, Staged

\* A connection that gives up what is staged discards it, if there is anything.
LEMMA DiscardStep ==
  ASSUME DisciplineInv, Staged' = {}, session'.durable = session.durable
  PROVE  [Store!Next]_Store!vars
<1>1. CASE Staged = {}
  BY <1>1, KeepStep
<1>2. CASE Staged # {}
  <2>1. PICK c \in Clients : /\ PendingOf[c] # {} /\ PendingOf[c] = Staged
                             /\ \A d \in Clients : d # c => PendingOf[d] = {}
    BY <1>2, StagedOwner
  <2>2. PendingOf' = [PendingOf EXCEPT ![c] = {}]
    <3>1. \A d \in Clients : PendingOf'[d] = {}
      BY DEF PendingOf, Staged
    <3>2. PendingOf' = [d \in Clients |-> PendingOf'[d]] /\ PendingOf = [d \in Clients |-> PendingOf[d]]
      BY DEF PendingOf
    <3> QED
      BY <2>1, <3>1, <3>2
  <2>3. Store!Discard(c)
    BY <2>1, <2>2 DEF Store!Discard
  <2> QED
    BY <2>3 DEF Store!Next
<1> QED
  BY <1>1, <1>2

\* A connection that makes durable what is staged publishes it, if there is anything.
LEMMA PublishStep ==
  ASSUME DisciplineInv, Staged' = {}, session'.durable = session.durable \cup Staged
  PROVE  [Store!Next]_Store!vars
<1>1. CASE Staged = {}
  BY <1>1, KeepStep
<1>2. CASE Staged # {}
  <2>1. PICK c \in Clients : /\ PendingOf[c] # {} /\ PendingOf[c] = Staged
                             /\ \A d \in Clients : d # c => PendingOf[d] = {}
    BY <1>2, StagedOwner
  <2>2. PendingOf' = [PendingOf EXCEPT ![c] = {}]
    <3>1. \A d \in Clients : PendingOf'[d] = {}
      BY DEF PendingOf, Staged
    <3>2. PendingOf' = [d \in Clients |-> PendingOf'[d]] /\ PendingOf = [d \in Clients |-> PendingOf[d]]
      BY DEF PendingOf
    <3> QED
      BY <2>1, <3>1, <3>2
  <2>3. Store!Publish(c)
    BY <2>1, <2>2 DEF Store!Publish
  <2> QED
    BY <2>3 DEF Store!Next
<1> QED
  BY <1>1, <1>2

\* A write of the task that owns what is staged is staged, unless it is durable already.
LEMMA StageStep ==
  ASSUME NEW c \in Clients, NEW w \in Token, w[1] = c, OwnedBy(c),
         session'.durable = session.durable, session'.working = session.working \cup {w}
  PROVE  [Store!Next]_Store!vars
<1>1. CASE w \in session.durable
  <2>1. Staged' = Staged
    BY <1>1 DEF Staged
  <2> QED
    BY <2>1, KeepStep
<1>2. CASE w \notin session.durable
  <2>1. Staged' = Staged \cup {w}
    BY <1>2 DEF Staged
  <2>2. \A d \in Clients \ {c} : PendingOf[d] = {}
    BY DEF OwnedBy, PendingOf, Staged
  <2>3. PendingOf' = [PendingOf EXCEPT ![c] = @ \cup {w}]
    BY <2>1 DEF PendingOf, Staged
  <2>4. Store!Stage(c)
    BY <2>2, <2>3 DEF Store!Stage
  <2> QED
    BY <2>4 DEF Store!Next
<1> QED
  BY <1>1, <1>2

\* A write outside of any transaction is durable at once, if it succeeds.
LEMMA AutocommitStep ==
  ASSUME NEW w \in Token, Staged = {}, Staged' = {}, session'.durable = session.durable \cup {w}
  PROVE  [Store!Next]_Store!vars
<1>1. PendingOf = Store!NothingPending /\ PendingOf' = PendingOf
  BY DEF PendingOf, Staged, Store!NothingPending
<1>2. Store!Autocommit
  BY <1>1 DEF Store!Autocommit
<1> QED
  BY <1>2 DEF Store!Next

\* What a request does to the connection is a step of the store, or a stutter.
LEMMA EffectRefines ==
  ASSUME DisciplineInv, queue # <<>>, NEW a \in Answers, Effect(queue[1], a)
  PROVE  [Store!Next]_Store!vars
<1> DEFINE r == queue[1]
<1>1. r \in Request
  BY HeadFacts
<1>2. session.durable \subseteq session.working
  BY DEF DisciplineInv, SessionSound
<1>3. r.op = "write" => W(r) \in Token /\ W(r)[1] = r.client /\ r.client \in Clients
  BY <1>1 DEF Request, Calls, W, WriteOf, Token
<1>4. CASE r.op = "begin"
  BY <1>4, KeepStep DEF Effect, Staged
<1>5. CASE r.op = "rollback"
  BY <1>5, DiscardStep DEF Effect, Staged
<1>6. CASE Outside(r)
  <2>1. Staged = {} /\ Staged' = {} /\ r.op = "write"
    BY <1>6 DEF Effect, Staged, Outside
  <2>2. CASE session'.durable = session.durable
    BY <2>1, <2>2, KeepStep
  <2>3. CASE session'.durable = session.durable \cup {W(r)}
    BY <1>3, <2>1, <2>3, AutocommitStep
  <2> QED
    BY <1>6, <2>2, <2>3 DEF Effect
<1>7. CASE Inside(r)
  <2>1. r.op = "write" /\ OwnedBy(r.client) /\ session'.durable = session.durable
    BY <1>7, HeadFacts DEF Effect, Inside
  <2>2. CASE session'.working = session.working \cup {W(r)}
    BY <1>3, <2>1, <2>2, StageStep
  <2>3. CASE session'.working = session.working
    BY <2>1, <2>3, KeepStep DEF Staged
  <2>4. CASE session'.working = session.durable
    BY <2>1, <2>4, DiscardStep DEF Staged
  <2> QED
    BY <1>7, <2>2, <2>3, <2>4 DEF Effect
<1>8. CASE r.op = "commit"
  <2>1. CASE session'.working = session.working /\ session'.durable = session.working
    <3>1. Staged' = {} /\ session'.durable = session.durable \cup Staged
      BY <1>2, <2>1 DEF Staged
    <3> QED
      BY <3>1, PublishStep
  <2>2. CASE session'.working = session.durable /\ session'.durable = session.durable
    BY <2>2, DiscardStep DEF Staged
  <2>3. CASE session'.working = session.working /\ session'.durable = session.durable
    BY <2>3, KeepStep DEF Staged
  <2> QED
    BY <1>8, <2>1, <2>2, <2>3 DEF Effect
<1> QED
  BY <1>1, <1>4, <1>5, <1>6, <1>7, <1>8 DEF Request, Calls, Inside, Outside

\* Only the worker touches the connection; each of its steps is one of the store.
LEMMA StoreStep ==
  ASSUME DisciplineInv, [Next]_vars
  PROVE  [Store!Next]_Store!vars
<1>1. ASSUME session' = session PROVE [Store!Next]_Store!vars
  BY <1>1, KeepStep DEF Staged
<1>2. ASSUME NEW c \in Clients, Task(c) PROVE session' = session
  BY <1>2 DEF Task, Begin, Write, Commit, Send, Returns, BeginReturns, WriteReturns,
              CommitReturns, Resume, DropTransaction, Cancel, Close
<1>3. queue # <<>> => queue[1] = Head(queue)
  BY TailFacts DEF DisciplineInv, PoolInv, TypeOK
<1>4. CASE WorkerStep
  <2>1. PICK o \in Execute(session, Head(queue)) : session' = o.session
    BY <1>4 DEF WorkerStep
  <2>2. o.reply \in Answers
    BY <1>3, <1>4, HeadFacts, ExecuteType DEF WorkerStep, DisciplineInv, PoolInv, TypeOK, Results
  <2> QED
    BY <1>3, <1>4, <2>1, <2>2, HeadEffect, EffectRefines DEF WorkerStep
<1>5. CASE ConnectionLost
  BY <1>3, <1>5, HeadEffect, EffectRefines DEF ConnectionLost, Answers
<1>6. CASE WorkerDies
  <2>1. CASE worker = "running"
    BY <1>3, <1>6, <2>1, HeadEffect, EffectRefines DEF WorkerDies, Answers
  <2>2. CASE worker # "running"
    BY <1>1, <1>6, <2>2 DEF WorkerDies
  <2> QED
    BY <2>1, <2>2
<1>7. CASE WorkerExits
  <2>1. session'.working = session.durable /\ session'.durable = session.durable
    BY <1>7 DEF WorkerExits, Discarded, DisciplineInv, PoolInv, TypeOK, Session
  <2> QED
    BY <2>1, DiscardStep DEF Staged
<1>8. CASE WorkerStepLost \/ Finished \/ UNCHANGED vars
  BY <1>1, <1>8 DEF WorkerStepLost, Finished, vars, program
<1> QED
  BY <1>1, <1>2, <1>4, <1>5, <1>6, <1>7, <1>8 DEF Next, Worker

\* Disciplined tasks get atomic, isolated transactions: the pool implements AtomicStore.
THEOREM PoolImplementsStore == ASSUME Disciplined PROVE Spec => ImplementsStore
<1>1. Init => Store!Init
  BY DEF Init, Opened, Store!Init, Store!NothingPending, PendingOf
<1>2. DisciplineInv /\ [Next]_vars => [Store!Next]_Store!vars
  BY StoreStep
<1> QED
  BY <1>1, <1>2, DisciplineInvariant, PTL DEF Spec, ImplementsStore, Store!Spec
=============================================================================
