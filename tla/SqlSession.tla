----------------------------- MODULE SqlSession -----------------------------
(***************************************************************************)
(* The database connection a backend worker owns, as the code uses it: one *)
(* session that is at any time in at most one transaction.  The engine is  *)
(* not part of the repository; what is here is what SQLite and PostgreSQL  *)
(* answer to the four kinds of text the workers send them: a BEGIN, a      *)
(* statement, a COMMIT, a ROLLBACK.                                        *)
(*                                                                         *)
(* A session is [dialect, txn, durable, working].  "durable" is what a new *)
(* connection would read, "working" what this one reads.  Each operator    *)
(* below is the set of outcomes [session, reply] a request can have.       *)
(***************************************************************************)

CONSTANTS Dialects,     \* the databases a pool is opened on: "sqlite", "postgres"
          MayFail       \* TRUE: a statement or a COMMIT may fail in the database

ASSUME DialectsAssumption == Dialects \subseteq {"sqlite", "postgres"}

Outcome(s, r) == [session |-> s, reply |-> r]

Failing(outcomes) == IF MayFail THEN outcomes ELSE {}

\* The connection forgets its open transaction.
Discarded(s) == [s EXCEPT !.txn = "none", !.working = s.durable]

\* The connection makes its open transaction durable.
Published(s) == [s EXCEPT !.txn = "none", !.durable = s.working]

\* SQLite refuses a BEGIN inside a transaction.  PostgreSQL answers it with a
\* warning, which the client library does not report.
BeginOutcomes(s) ==
  CASE s.txn = "none"   -> {Outcome([s EXCEPT !.txn = "open"], "ok")}
    [] s.txn = "open"   -> {Outcome(s, IF s.dialect = "sqlite" THEN "err" ELSE "ok")}
    [] s.txn = "failed" -> {Outcome(s, "err")}

\* A statement whose effect is to make "effect" what the connection reads.
\* A failure poisons a PostgreSQL transaction; SQLite keeps
\* the transaction open or, on the errors it documents, rolls it back at once.
StatementOutcomes(s, effect) ==
  CASE s.txn = "none"   -> {Outcome([s EXCEPT !.working = effect, !.durable = effect], "ok")} \cup
                           Failing({Outcome(s, "err")})
    [] s.txn = "open"   -> {Outcome([s EXCEPT !.working = effect], "ok")} \cup
                           Failing(IF s.dialect = "sqlite"
                                     THEN {Outcome(s, "err"), Outcome(Discarded(s), "err")}
                                     ELSE {Outcome([s EXCEPT !.txn = "failed"], "err")})
    [] s.txn = "failed" -> {Outcome(s, "err")}

\* COMMIT outside a transaction is an error of SQLite and a warning of PostgreSQL.
\* PostgreSQL answers the COMMIT of a poisoned transaction with the command tag
\* ROLLBACK, which is not an error.  A COMMIT that fails leaves the transaction
\* open (SQLite, the file is busy) or rolls it back.
CommitOutcomes(s) ==
  CASE s.txn = "none"   -> {Outcome(s, IF s.dialect = "sqlite" THEN "err" ELSE "ok")}
    [] s.txn = "open"   -> {Outcome(Published(s), "ok")} \cup
                           Failing({Outcome(Discarded(s), "err")} \cup
                                   (IF s.dialect = "sqlite" THEN {Outcome(s, "err")} ELSE {}))
    [] s.txn = "failed" -> {Outcome(Discarded(s), "ok")}

\* ROLLBACK ends whatever transaction is there; nobody reads its answer.
RollbackOutcomes(s) == {Outcome(Discarded(s), "ok")}
=============================================================================
