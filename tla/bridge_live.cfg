\* What must happen, on one server that refuses nothing and kicks nobody.
SPECIFICATION FairSpec
CONSTANTS
  Host = {irc}
  Chan = {foo, bar}
  Resource = {r1, r2}
  Query = Query
  NoChan = NoChan
  Persistent = {TRUE, FALSE}
  Env = {"batch", "error", "touch", "shutdown", "fail", "echo", "force", "drop"}
  MaxPorts = 1
  MaxWire = 2
PROPERTIES QuitDisconnects PartTakesEffect 
