SPECIFICATION AllSpec
CONSTANTS
    Programs = {"gate", "chain", "flow", "attacks", "search", "fairness", "detector", "motion"}
    ChainUnits = {"u1", "u2"}
    ChainRuns = 2
    Revisions = {"r1", "r2"}
    ChainRevisions <- MCRevisions
    Tests = {1, 2}
    Calibrations = {3}
    Maximum = 1
    TrialCount = 1
    NeededClusters = 1
    Losses = 1
    FlowFailures = 1
    Retention = 4
    Spoof = 5
    AttackRuns = 2
    AttackFailures = 1
    Late <- MCLate
    Accepted = {1}
    Grid = 32
    Halves <- MCHalves
    Budget = 7
    Checkpoints <- MCCheckpoints
    Bases = {19}
    Answers <- MCAnswers
    Sstw = "sstw"
    Baselines <- MCBaselines
    Paired = {"videoseal"}
    Cells <- MCCells
    Split <- MCSplit
    Attacks = {"crop", "noise"}
    Measurements <- MCMeasurements
    TargetNum = 4
    TargetDen = 5
    MinClean = 3
    MinCalibration = 2
    MinHeldout = 2
    MinPositive = 2
    GenerationNegatives = 2
    Clusters = 4
    MaximumFolds = 4
    Levels = 2
    Share = 3
    Prompts = {1, 2, 3}
    SeedCount = 2
    PositiveCount = 2
    Unit = 4
    ScoreSteps = 3
    FprNum = 1
    FprDen = 5
    MotionDeltaMin = 4
    MinNegative = 5
    MinMotion = 2
    MinPasses = 2
    EnoughSeeds = 2
    EnoughRecords = 4
    N = 2
    InitialEvidence <- StartingEvidence
    MaxPlans = 3
    MaxEvidence = 1
INVARIANTS
    GateIsSafe
    EvidenceIsOneRun
    SelectionsAreExact
    ThresholdsAreHeld
PROPERTIES
    ThresholdIsFrozen
CHECK_DEADLOCK FALSE
