SPECIFICATION Spec
CONSTANTS
  NULL = NULL
  b1 = b1
  dA = dA
  dB = dB
  Requests = {1, 2, 3}
  Buckets = {b1}
  Definitions = {dA}
  Processes <- ReusedPid
  BucketOf <- OneBucket
  DefinitionOf <- SameDefinition
  ProcessOf <- InTurn
  MaxConcurrent <- OneEach
  PerMinute <- Unlimited
  Window = 1
  RecentSeconds = 1
  RecentLimit = 1
  MaxLag = 0
  MaxClock = 1
INVARIANTS
  TypeOK
  ConcurrencyLimit
  PermitBacked
  ReleasedWhenOver
PROPERTIES
  RowLifecycle
  WaitsForCause
