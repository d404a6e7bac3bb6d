------------------------------ MODULE MCAdhoc -------------------------------
(* Instances of Adhoc for TLC.                                             *)
EXTENDS Adhoc

ThreeJids == {<<"admin", "r1">>, <<"user", "r1">>, <<"user", "r2">>}
=============================================================================
