SPECIFICATION Spec
CONSTANTS
  NULL = NULL
  b1 = b1
  dA = dA
  dB = dB
  Requests = {1, 2, 3}
  Buckets = {b1}
  Definitions = {dA, dB}
  Processes <- TwoPids
  BucketOf <- OneBucket
  DefinitionOf <- Edited
  ProcessOf <- SideBySide
  MaxConcurrent <- Raised
  PerMinute <- Raised
  Window = 1
  RecentSeconds = 1
  RecentLimit = 1
  MaxLag = 0
  MaxClock = 2
INVARIANTS
  OneDefinition
PROPERTIES
  KeepsPromise
