SPECIFICATION FairSpec
CONSTANTS
  Low = 1
  High = 3
  Sizes = {1, 2}
  AddrKinds = {TRUE}
  MaxWrites = 4
  MaxDepth = 2
  Platforms = {"linux", "linuxSingle", "other"}
  MaxBatch = 2
  ReadBatch = 2
  MaxMessages = 3
  AutoReadModes = {TRUE}
  Faults = FALSE
  ReentrantFlush = FALSE
  ReentrantRead = FALSE
  MaxArrivals = 0
PROPERTIES
  ImplementsChannel
  BlockedFlushDrains
  BackpressureReleased
