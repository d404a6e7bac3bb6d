\* An administrator and a user, the latter with two resources.
SPECIFICATION FairSpec
CONSTANTS
  User = {"admin", "user"}
  Admin = {"admin"}
  Jid <- ThreeJids
  Server = {"s1", "s2"}
  Command = {"ping", "hello", "disconnect-user", "disconnect-from-irc-server"}
  MaxSessions = 2
  MaxConnects = 2
CHECK_DEADLOCK FALSE
INVARIANTS SessionsTimed
PROPERTIES KillsPicked SessionsEnd
