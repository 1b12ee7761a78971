SPECIFICATION FairSpecification
CONSTANTS
    Plan <- MCPlan
    BudgetNum = 1
    BudgetDen = 2
    Reference = {1, 3}
    Energy = {1, 3}
    FullScale = 3
    MaxAttempts = 2
    PipeCapacity = 1
    BadLines <- MCBadLines
    Ledger = 1
    MaxExceptions = 1
    ScoringRoots <- MCRoots
    ScoringRounds = 2
    PromotionRuns = 2
    AtomIterations = 2
    Programs = {"runtime", "preflight", "scoring", "setup"}
    Steps = 2
    ChildLines = 1
    HelperLines = 1
    Attempts = 1
    CacheChanges = 1
    ScoringUnits = {"u1", "u2"}
    ScoringKinds = {"formal"}
    SetupFaults = 1
    FrameFaults = 1
    AtomFaults = 1
    ServerRuns = 1
    ReferenceUnits = {"a1"}
    ProvenanceEvents = 1
PROPERTIES
    CallsEnd
CHECK_DEADLOCK FALSE
