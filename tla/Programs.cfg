SPECIFICATION AllSpec
CONSTANTS
    Plan <- MCPlan
    BudgetNum = 1
    BudgetDen = 2
    Reference = {1, 3}
    Energy = {1, 3}
    FullScale = 3
    MaxAttempts = 2
    PipeCapacity = 1
    BadLines <- MCBadLines
    Ledger = 1
    MaxExceptions = 1
    ScoringRoots <- MCRoots
    ScoringRounds = 2
    PromotionRuns = 2
    AtomIterations = 2
    Programs = {"probe", "runtime", "preflight", "scoring", "promotion", "setup", "frames", "atom", "server", "reference", "commands", "provenance"}
    Steps = 2
    ChildLines = 2
    HelperLines = 1
    Attempts = 2
    CacheChanges = 0
    ScoringUnits = {"u1", "u2"}
    ScoringKinds = {"formal", "unproven", "unattacked"}
    SetupFaults = 1
    FrameFaults = 1
    AtomFaults = 3
    ServerRuns = 2
    ReferenceUnits = {"a1", "b1"}
    ProvenanceEvents = 2
INVARIANTS
    CleanModel
    GenerationIsSound
    RuntimeIsSafe
    PreflightIsSafe
    
    PromotionIsSafe
    FramesAreSafe
    AtomIsSafe
    EnvironmentIsRecorded
    StagesArePublished
PROPERTIES
    ImplementsRunner
    StepsAreSafe
CHECK_DEADLOCK FALSE
