SPECIFICATION Spec
CONSTANTS
  MaxRuns = 1
  MaxFaults = 0
  MaxRecoveries = 1
  MaxResets = 0
INVARIANTS
  PublishedNeverRecovered
CHECK_DEADLOCK FALSE
