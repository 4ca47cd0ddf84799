SPECIFICATION Spec
CONSTANTS
  Peers = {p, none}
  NoPeer = none
  PoolModes = {TRUE, FALSE}
  Remotes = {p, none}
  MaxItems = 4
  MaxOut = 2
  MaxEnvelopes = 2
  MaxDepth = 3
INVARIANTS
  TypeOK
  OneHolder
  ReleasedTwiceIfRefused
  NothingLostUnlessOverlapped
  EnvelopesExclusive
  AddressKept
CHECK_DEADLOCK FALSE
