----------------------------- MODULE MCMigrator -----------------------------
(* Migrator with two processes, of one release or of different ones. *)
EXTENDS Migrator

CONSTANTS old, new

Both == {old, new}

Set_(name, migrations) == [name |-> name, migrations |-> migrations]

\* The new release has a migration more, in the default namespace, and a fragment more;
\* the database is empty.
Upgrade ==
  [plan |-> [p \in Both |->
     IF p = old THEN <<Set_("", <<"m0">>)>>
                ELSE <<Set_("", <<"m0", "m1">>), Set_("blog", <<"b0">>)>>],
   statements |-> 2, ledger |-> "absent", legacy |-> <<>>]

\* The releases disagree about the second migration and bring their fragments in a
\* different order; an older release has left a legacy ledger.
Fork ==
  [plan |-> [p \in Both |->
     IF p = old THEN <<Set_("blog", <<"b0">>), Set_("", <<"m0", "m1">>)>>
                ELSE <<Set_("", <<"m0", "m2", "m3">>), Set_("blog", <<"b0", "b1">>)>>],
   statements |-> 1, ledger |-> "legacy", legacy |-> <<"m0">>]

\* One named fragment and no default namespace, in a database of this release.
Named ==
  [plan |-> [p \in Both |-> <<Set_("blog", <<"b0">>)>>],
   statements |-> 1, ledger |-> "current", legacy |-> <<>>]

Releases == {Upgrade, Fork}
NamedOnly == {Named}
=============================================================================
