SPECIFICATION Spec
CONSTANTS
  MaxRuns = 3
  MaxFaults = 1
  MaxRecoveries = 1
  MaxResets = 1
INVARIANTS
  TypeOK
  ReturnedIsDurable
  StagingLeaksAreKnown
  RecoveryIsSound
PROPERTIES
  ImplementsResultStore
CHECK_DEADLOCK FALSE
