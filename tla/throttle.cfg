\* Throttling on or off from the start, the limit changed at run time.
SPECIFICATION FairRSpec
CONSTANTS
  Limits <- SomeLimits
  Toggles = FALSE
  Modulus = 8
  MaxMsgs = 4
  MaxTicks = 3
INVARIANTS InOrder RateBound
PROPERTIES WaitingIsSent ImplementsOrderedOutput
