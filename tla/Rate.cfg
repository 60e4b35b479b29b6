SPECIFICATION Spec
CONSTANTS
  NULL = NULL
  b1 = b1
  dA = dA
  dB = dB
  Requests = {1, 2}
  Buckets = {b1}
  Definitions = {dA}
  Processes <- TwoPids
  BucketOf <- OneBucket
  DefinitionOf <- SameDefinition
  ProcessOf <- SideBySide
  MaxConcurrent <- Unlimited
  PerMinute <- OneEach
  Window = 3
  RecentSeconds = 1
  RecentLimit = 1
  MaxLag = 1
  MaxClock = 6
INVARIANTS
  RateLimit
PROPERTIES
  WaitsForCause
