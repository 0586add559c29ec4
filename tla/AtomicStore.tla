---------------------------- MODULE AtomicStore ----------------------------
(***************************************************************************)
(* What the pool promises of its transactions: each client stages writes   *)
(* of its own, and they become durable together or not at all, by that     *)
(* client's own COMMIT and at nobody else's request.                       *)
(***************************************************************************)

CONSTANTS Clients,      \* the tasks that use the store
          Writes        \* the writes they may issue

VARIABLES durable,      \* the writes a new connection would read
          pending       \* pending[c]: the writes client c has staged

vars == <<durable, pending>>

NothingPending == [c \in Clients |-> {}]

Init ==
  /\ durable = {}
  /\ pending = NothingPending

\* A write outside a transaction is durable at once; nobody has a transaction open.
Autocommit ==
  /\ pending = NothingPending
  /\ UNCHANGED pending
  /\ \E w \in Writes : durable' = durable \cup {w}

\* A write inside a transaction waits for the commit of that transaction, and no
\* other client has writes waiting.
Stage(c) ==
  /\ \A d \in Clients \ {c} : pending[d] = {}
  /\ UNCHANGED durable
  /\ \E w \in Writes : pending' = [pending EXCEPT ![c] = @ \cup {w}]

\* The commit of client c takes all of its writes and only those.
Publish(c) ==
  /\ pending[c] # {}
  /\ durable' = durable \cup pending[c]
  /\ pending' = [pending EXCEPT ![c] = {}]

Discard(c) ==
  /\ pending[c] # {}
  /\ UNCHANGED durable
  /\ pending' = [pending EXCEPT ![c] = {}]

Next == Autocommit \/ \E c \in Clients : Stage(c) \/ Publish(c) \/ Discard(c)

Spec == Init /\ [][Next]_vars
=============================================================================
