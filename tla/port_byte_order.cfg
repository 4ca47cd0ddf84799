SPECIFICATION Spec
CONSTANTS
  Hosts = {any, loopback, linklocal}
  Any = any
  Loopback = loopback
  LinkLocal = {linklocal}
  Ports = {0, 255, 9000, 65536}
  Ephemeral = 40000
  MaxWorkers = 2
  ScopeHalf = 2
  Interfaces = {2}
  Paths = {"raw"}
  ByteOrders = {TRUE}
  IntWidths = {TRUE}
INVARIANTS
  PortIsPeers
CHECK_DEADLOCK FALSE
