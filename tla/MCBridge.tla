------------------------------ MODULE MCBridge ------------------------------
(* Instances of Bridge for TLC.                                            *)
EXTENDS Bridge, TLC

\* The resources are interchangeable.
SymResource == Permutations(Resource)
=============================================================================
