\* One IRC client, one identd connection, two troubles, a signal sent twice.
SPECIFICATION FairSpec
CONSTANTS
  Client = {"c1"}
  Peer = {"p1"}
  MaxTroubles = 2
  MaxSignals = 2
  MaxChats = 3
  Faults = {}
CHECK_DEADLOCK FALSE
INVARIANTS NoDangling RetryPlanned
PROPERTIES ShutdownEnds LinkRestored
