----------------------------- MODULE MCArchive ------------------------------
(* Instances of Archive for TLC.                                           *)
EXTENDS Archive, TLC

SomeCommands == {<<>>, <<"a", "b">>}
SomeMaxes == {-1, 1}
SomeLimits == {[stanzas |-> -1, since |-> 0], [stanzas |-> 1, since |-> 2]}
SomeWindows == {<<0, 0>>, <<2, 0>>, <<0, 1>>}
SomePageMax == {-1, 0, 1}
OwnerSymmetry == Permutations(Owner)
=============================================================================
