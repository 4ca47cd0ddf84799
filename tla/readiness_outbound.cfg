SPECIFICATION Spec
CONSTANTS
  Low = 1
  High = 3
  Sizes = {1, 2}
  AddrKinds = {TRUE, FALSE}
  MaxWrites = 4
  MaxDepth = 4
  Platforms = {"linux"}
  MaxBatch = 2
  ReadBatch = 2
  MaxMessages = 3
  AutoReadModes = {TRUE}
  Faults = TRUE
  ReentrantFlush = FALSE
  ReentrantRead = FALSE
  MaxArrivals = 0
INVARIANTS
  PayloadOwnedWhileQueued
PROPERTIES
  ImplementsChannel
