SPECIFICATION FairSpec
CONSTANTS
  MaxRuns = 2
  MaxFaults = 1
  MaxRecoveries = 0
  MaxResets = 1
PROPERTIES
  DamagedIsWithdrawn
CHECK_DEADLOCK FALSE
