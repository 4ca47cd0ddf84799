SPECIFICATION Spec
CONSTANTS
  Peers = {p, none}
  NoPeer = none
  PoolModes = {FALSE}
  Remotes = {p, none}
  MaxItems = 4
  MaxOut = 2
  MaxEnvelopes = 2
  MaxDepth = 3
INVARIANTS
  WriteReleasesOnce
CHECK_DEADLOCK FALSE
