SPECIFICATION Spec
CONSTANTS
  Low = 1
  High = 3
  Sizes = {1}
  AddrKinds = {TRUE}
  MaxWrites = 0
  MaxDepth = 4
  Platforms = {"linux", "linuxSingle", "other"}
  MaxBatch = 2
  ReadBatch = 2
  MaxMessages = 3
  AutoReadModes = {TRUE, FALSE}
  Faults = TRUE
  ReentrantFlush = FALSE
  ReentrantRead = FALSE
  MaxArrivals = 4
INVARIANTS
  DeliveredInOrder
  BuffersReachable
