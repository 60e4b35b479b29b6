SPECIFICATION Spec
CONSTANTS
  NULL = NULL
  c1 = c1
  c2 = c2
  w1 = w1
  w2 = w2
  w3 = w3
  Connections = {c1}
  Workers = {w1, w2}
  ConnectionOf <- OneConnection
  Streams = {w1, w2}
  Limits = {1}
  Considerate = FALSE
INVARIANTS
  ErrorMeansFailure
CHECK_DEADLOCK FALSE
