\* Two requests of any kind, a loss of the connection, and an unasked message.
SPECIFICATION FairSpec
CONSTANTS
  IqIds <- TwoIds
  Asked <- SomeRequests
  Stanzas <- AllStanzas
  Nick = {"n1", "n2"}
  Listings <- TwoListings
  Maxes = {1}
  PingId <- OnePing
  MaxStimuli = 3
  MaxLosses = 1
CHECK_DEADLOCK FALSE
INVARIANTS AnsweredOnce PagesCoverList
PROPERTIES ResultIsTrue RequestsAnswered
