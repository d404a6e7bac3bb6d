---------------------------- MODULE MCThrottle ----------------------------
(***************************************************************************)
(* Small instances of ThrottleRate.  Three bits of size_t are enough for a *)
(* bucket to be filled past a limit that was lowered and to wrap around.   *)
(***************************************************************************)
EXTENDS ThrottleRate

SomeLimits == {-1, 0, 1, 2}
==========================================================================
