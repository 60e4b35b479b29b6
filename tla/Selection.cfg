SPECIFICATION Spec
CONSTANTS
  NULL = NULL
  Names = {alpha, beta, gamma}
  Organizations = {o1, o2}
INVARIANTS
  TypeOK
  InsideBoundary
  BestChoice
  RefusedForCause
PROPERTIES
  Undisplaced
