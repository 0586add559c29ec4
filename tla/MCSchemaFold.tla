---------------------------- MODULE MCSchemaFold ----------------------------
(* SchemaFold with two tables and two columns. *)
EXTENDS SchemaFold
=============================================================================
