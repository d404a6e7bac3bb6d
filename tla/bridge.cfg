\* One server, two channels, two resources, and all that the users, the server
\* and the network may do.
SPECIFICATION Spec
CONSTANTS
  Host = {irc}
  Chan = {foo, bar}
  Resource = {r1, r2}
  Query = Query
  NoChan = NoChan
  Persistent = {TRUE, FALSE}
  Env = {"batch", "error", "touch", "raw", "shutdown", "disconnect", "fail",
         "refuse", "echo", "kick", "force", "privmsg", "drop"}
  MaxPorts = 1
  MaxWire = 2
SYMMETRY SymResource
INVARIANTS ServerIsUnion ViewMatches SelfKnownWhenJoined ServerAgrees
