SPECIFICATION Spec
CONSTANTS
  Hosts = {any, loopback, linklocal}
  Any = any
  Loopback = loopback
  LinkLocal = {linklocal}
  Ports = {0, 255, 9000, 65536}
  Ephemeral = 40000
  MaxWorkers = 3
  ScopeHalf = 2
  Interfaces = {2}
  Paths = {"raw", "unix", "windows", "completion"}
  ByteOrders = {TRUE, FALSE}
  IntWidths = {TRUE, FALSE}
INVARIANTS
  TypeOK
  ReplyReturns
  PortIsPeersUnlessSwapped
  DialReaches
  WorkersShareAddress
  PrintedAddressParses
CHECK_DEADLOCK FALSE
