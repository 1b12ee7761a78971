SPECIFICATION Spec
CONSTANTS
  LeaderLines = 2
  HelperLines = 0
  PipeCapacity = 1
  BadLines = {2}
  MaxInterrupts = 0
INVARIANTS
  EveryLineForwarded
CHECK_DEADLOCK FALSE
