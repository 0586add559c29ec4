--------------------------- MODULE MCVectorRepair ---------------------------
(* VectorRepair: two processes repair one column at once, or one repairs two. *)
EXTENDS VectorRepair

CONSTANTS p1, p2, a, b

Both == {p1, p2}
OneColumn == {a}
TwoColumns == {a, b}

AtOnce == [p \in Both |-> <<a>>]
OneByOne == [p \in Both |-> IF p = p1 THEN <<a, b>> ELSE <<>>]

Divisions == {AtOnce, OneByOne}
Repairable == (a :> <<"v", "null">>) @@ (b :> <<"null", "v">>)
Spoilt == (a :> <<"v", "bad">>) @@ (b :> <<"null", "v">>)
SomeContents == {Repairable, Spoilt}

Releases == <<"m0", "m1", "m2">>
=============================================================================
