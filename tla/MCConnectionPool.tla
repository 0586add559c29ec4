-------------------------- MODULE MCConnectionPool --------------------------
(* ConnectionPool with a small set of tasks.  The tasks are interchangeable; the *)
(* safety runs use that, the liveness run does not.                              *)
EXTENDS ConnectionPool, TLC

CONSTANTS c1, c2

TwoClients == {c1, c2}
OneClient == {c1}
ClientSymmetry == Permutations(Clients)
=============================================================================
