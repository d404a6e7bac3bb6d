---------------------------- MODULE MCOccupants -----------------------------
(* Instances of Occupants for TLC.                                         *)
EXTENDS Occupants, TLC

\* The resources are interchangeable, and so are the nicks: the order in which
\* OnNames takes the users of a reply is all that tells them apart, and nothing
\* depends on it.
Sym == {p @@ q : p \in Permutations(Resource), q \in Permutations(Nick)}

L(add, mode) == [add |-> add, mode |-> mode]

MCSorted == <<"o", "v">>
MCChanModes == << <<"b", "e">>, <<"k">>, <<"l">>, <<"m">> >>

\* A flag next to a user mode, and two changes of one user at once.
MCModeLines == { <<L(TRUE, "m"), L(TRUE, "o")>>, <<L(FALSE, "o"), L(TRUE, "v")>> }

\* A key after the user, and a ban before it.
MCMixedLines == { <<L(TRUE, "o"), L(TRUE, "k")>>, <<L(TRUE, "b"), L(TRUE, "v")>> }
=============================================================================
