SPECIFICATION Spec
CONSTANTS
  NULL = NULL
  Levels <- SomeLevels
  Presets <- SomePresets
  Capabilities <- SomeCapabilities
  CapabilityDefaults <- OnByDefault
CHECK_DEADLOCK FALSE
INVARIANTS
  TypeOK
  DeclarationsDecide
  NeverSoftened
  OneControl
