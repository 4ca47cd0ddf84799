SPECIFICATION Spec
CONSTANTS
  Low = 1
  High = 3
  Sizes = {1, 2}
  AddrKinds = {TRUE}
  MaxWrites = 3
  MaxDepth = 4
  Platforms = {"linux"}
  MaxBatch = 2
  ReadBatch = 2
  MaxMessages = 3
  AutoReadModes = {TRUE}
  Faults = TRUE
  ReentrantFlush = TRUE
  ReentrantRead = TRUE
  MaxArrivals = 3
INVARIANTS
  TypeOK
  WatermarkHysteresis
  BytesMatchQueue
  ClosedIsFinal
  ReleasedBeforeClosed
PROPERTIES
  NoIOAfterClose
  NoReadAfterInactive
