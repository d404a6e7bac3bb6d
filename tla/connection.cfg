\* One client, two TLS ports and a plain one, servers with and without CAP and SASL.
SPECIFICATION FairSpec
CONSTANTS
  Ports <- ThreePorts
  MaxAddrs = 2
  MaxTimers = 2
  MaxJoins = 2
  Kinds = {"nocap", "cap", "sasl"}
  Webirc = {TRUE, FALSE}
  Faults = {"tls_start"}
INVARIANTS SocketConsistent NegotiationEndsOnce WelcomedAuthenticated
PROPERTIES JoinConcludes
