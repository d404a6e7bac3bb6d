\* One user, one IRC server, every fault.
SPECIFICATION Spec
CONSTANTS
  Contact = {u}
  Server = {s}
  Gateway = gateway
  Env = {"fails", "batch", "crash", "link"}
  MaxWire = 2
INVARIANTS Remembered GatewayShown ServerShown
