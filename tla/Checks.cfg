SPECIFICATION FairSpec
CONSTANTS
  NULL = NULL
  home = home
  link = link
  other = other
  Paths = {home, link, other}
  Home = home
  Choices <- SomeChoices
  Disks <- SomeDisks
  Edits <- SomeEdits
  MaxEdits = 1
  Clients = {"check", "chat"}
  Checker = "check"
  Situations <- SomeSituations
  MaxConcurrent = 1
  MaxFaults = 2
INVARIANTS
  TypeOK
  ExplicitIsNeverEmpty
  SharedQuota
  ReportIsComplete
  SentForCause
PROPERTIES
  VerdictIsTrue
  CommandEnds
CHECK_DEADLOCK FALSE
