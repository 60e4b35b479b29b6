SPECIFICATION FairSpec
CONSTANTS
  NULL = NULL
  c1 = c1
  c2 = c2
  w1 = w1
  w2 = w2
  w3 = w3
  Connections = {c1}
  Workers = {w1, w2}
  ConnectionOf <- OneConnection
  Streams = {w1}
  Limits = {1, 2}
  Considerate = FALSE
INVARIANTS
  TypeOK
  ClosedIsClean
  EndedIsReleased
  TruthfulActivity
PROPERTIES
  OutcomeStays
  ClosingReleases
  WaitsForSuspended
CHECK_DEADLOCK FALSE
