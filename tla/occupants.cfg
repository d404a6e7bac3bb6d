\* Three people, four nicks; the gateway is not kicked.
SPECIFICATION Spec
CONSTANTS
  Person = {me, p, q}
  Me = me
  Nick = {n1, n2, n3, n4}
  NoNick = NoNick
  Nearby = {q}
  Resource = {r1, r2}
  Sorted <- MCSorted
  ChanModes <- MCChanModes
  ModeLines <- MCModeLines
  Changed = {q}
  Mask = Mask
  Topic = {t}
  NoTopic = NoTopic
  Env = {"331"}
  MaxWire = 3
SYMMETRY Sym
INVARIANTS OccupantsAgree RosterMatches 
