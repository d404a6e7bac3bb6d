----------------------------- MODULE Filtering ------------------------------
(* The subsequence of the elements that are in a set: what a query with a  *)
(* condition, std::remove_if() or std::copy_if() leave, in order.  The     *)
(* other operators are those of SequencesExt, without the rest of that     *)
(* module, which the proofs need not carry.                                *)
EXTENDS Integers, Sequences

Filter(s, S) ==
  LET F[i \in 0 .. Len(s)] == IF i = 0 THEN <<>>
                              ELSE IF s[i] \in S THEN Append(F[i - 1], s[i]) ELSE F[i - 1]
  IN  F[Len(s)]

Last(s) == s[Len(s)]
Front(s) == SubSeq(s, 1, Len(s) - 1)
Ascending(s) == \A i, j \in 1 .. Len(s) : i < j => s[i] < s[j]
Reverse(s) == [i \in 1 .. Len(s) |-> s[Len(s) - i + 1]]
=============================================================================
