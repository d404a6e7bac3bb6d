\* One IRC client whose server does not answer, a signal sent twice.
SPECIFICATION FairSpec
CONSTANTS
  Client = {"c1"}
  Peer = {"p1"}
  MaxTroubles = 0
  MaxSignals = 2
  MaxChats = 1
  Faults = {"silent"}
CHECK_DEADLOCK FALSE
PROPERTY SecondSignalEnds
