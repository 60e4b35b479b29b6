SPECIFICATION FairSpec
CONSTANTS
  NULL = NULL
  b1 = b1
  dA = dA
  dB = dB
  Requests = {1, 2}
  Buckets = {b1}
  Definitions = {dA}
  Processes <- ReusedPid
  BucketOf <- OneBucket
  DefinitionOf <- SameDefinition
  ProcessOf <- SideBySide
  MaxConcurrent <- OneEach
  PerMinute <- Unlimited
  Window = 1
  RecentSeconds = 1
  RecentLimit = 1
  MaxLag = 0
  MaxClock = 0
PROPERTIES
  EventuallyServed
