--------------------------- MODULE MCQueryBuilder ---------------------------
(* QueryBuilder with the predicates of a small table. *)
EXTENDS QueryBuilder

SomeAtoms == {Compare("age", "=", 3), IsNull("name"), True}

\* True is nested less deep than the others.
SomePredicates == Expr(SomeAtoms \ {True}, 2) \cup Expr(SomeAtoms, 1)
=============================================================================
