---------------------------- MODULE OrderedOutput ----------------------------
(***************************************************************************)
(* What the throttled output of an IrcClient promises: a message that is   *)
(* accepted is either passed on at once, when nothing waits before it, or  *)
(* waits; the oldest waiting message is the one that leaves.  Messages are *)
(* numbered in the order of acceptance.                                    *)
(***************************************************************************)
EXTENDS Integers

CONSTANT Messages   \* a set of integers

VARIABLES
  waiting,    \* the messages accepted and not yet on the wire
  delivered   \* the messages on the wire

ovars == <<waiting, delivered>>

OInit == waiting = {} /\ delivered = {}

\* m is younger than every message seen before.
Fresh(m) == \A k \in waiting \cup delivered : k < m

PassThrough(m) ==
  /\ waiting = {}
  /\ Fresh(m)
  /\ delivered' = delivered \cup {m}
  /\ UNCHANGED waiting

Wait(m) ==
  /\ Fresh(m)
  /\ waiting' = waiting \cup {m}
  /\ UNCHANGED delivered

DeliverOldest(m) ==
  /\ m \in waiting
  /\ \A k \in waiting : m <= k
  /\ waiting' = waiting \ {m}
  /\ delivered' = delivered \cup {m}

ONext == \E m \in Messages : PassThrough(m) \/ Wait(m) \/ DeliverOldest(m)

OSpec == OInit /\ [][ONext]_ovars
==============================================================================
