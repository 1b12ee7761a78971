SPECIFICATION FairSpec
CONSTANTS
  LeaderLines = 3
  HelperLines = 2
  PipeCapacity = 2
  BadLines = {}
  MaxInterrupts = 2
INVARIANTS
  TypeOK
  ReturnCodeIsReal
  EveryLineForwarded
  NoSurvivors
PROPERTIES
  CommandFinishes
  ImplementsRunner
CHECK_DEADLOCK FALSE
