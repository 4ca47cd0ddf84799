SPECIFICATION Spec
CONSTANTS
  Low = 1
  High = 3
  Sizes = {1, 2}
  AddrKinds = {TRUE}
  MaxWrites = 4
  MaxDepth = 4
  Platforms = {"linux"}
  MaxBatch = 2
  ReadBatch = 2
  MaxMessages = 3
  AutoReadModes = {TRUE}
  Faults = FALSE
  ReentrantFlush = TRUE
  ReentrantRead = FALSE
  MaxArrivals = 0
PROPERTIES
  NoUnsentDrop
