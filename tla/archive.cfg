\* Two users, one channel; pages of one line, or of two.
SPECIFICATION Spec
CONSTANTS
  Owner = {o1, o2}
  Chan = {c1}
  Enc = {"", "latin1", "utf16"}
  Commands <- SomeCommands
  DefaultMax = 2
  Maxes <- SomeMaxes
  FormCost = 2
  MaxEvents = 5
  Dates = {1, 2}
  Limits <- SomeLimits
  Windows <- SomeWindows
  MaxPage = 2
  PageMax <- SomePageMax
SYMMETRY OwnerSymmetry
CHECK_DEADLOCK FALSE
INVARIANTS OptionsStick CacheFresh WalkComplete 
