SPECIFICATION FairSpec
CONSTANTS
  Low = 1
  High = 3
  Sizes = {1, 2}
  AddrKinds = {TRUE, FALSE}
  MaxWrites = 3
  MaxDepth = 4
  AutoReadModes = {TRUE, FALSE}
  Faults = TRUE
  MaxReads = 2
INVARIANTS
  TypeOK
  RequestsMatchFlags
  BuffersAccounted
  ReadArmed
PROPERTIES
  ImplementsChannel
  SubmittedFlushDrains
