SPECIFICATION FairSpec
CONSTANTS
  NULL = NULL
  Processes = {1, 2}
  Spoilable <- FirstDatabase
  MaxBoot = 1
  MaxLog = 3
INVARIANTS
  TypeOK
  SweptBeforeUse
PROPERTIES
  KeepsJournal
  FailsForCause
  ViewsCreateNothing
  LockIsFreed
CHECK_DEADLOCK FALSE
