SPECIFICATION AllSpec
CONSTANTS
    Programs = {"velocity", "preflight", "feedback", "impulse", "exposure", "projection", "contract", "cause", "response", "sixvideo"}
    Carriers = {"endpoint", "agnostic", "signed", "predictive", "orthogonal", "disabled", "terminal"}
    TotalSteps = 3
    References = {1, 2}
    Strengths <- MCStrengths
    Generations = 2
    ResponsePairs = 2
    ResponseCalls = 6
    FeedbackSteps = 3
    FeedbackBranches = 3
    FeedbackRuns = 2
    Probes = 2
    Clean = 1
    ImpulseRuns = 2
    ImpulseSteps = 3
    Active = {2, 3}
    Positive = TRUE
    Descending = TRUE
    Share = 2
    EnergyRatio = 4
    Speeds = {0, 1, 3}
    Losses = {0, 1, 2}
    Grid = 4
    Backoffs = 1
    Refinements = 3
    Rounding = {0, 1, 2}
    EnergyNorms = {3, 4, 5}
    ContractEdits = 1
    Latents <- MCLatents
    LaterStages <- MCLaterStages
    HalfOutputs <- MCHalfOutputs
    FullOutputs <- MCFullOutputs
    HalfAmplitudes <- MCHalfAmplitudes
    FullAmplitude <- MCFullAmplitude
    CauseStages = {"saved"}
    Dim = 2
    FirstClean <- MCFirstClean
    SecondClean <- MCSecondClean
    Driven <- MCDriven
    Predictions <- MCPredictions
    Offsets <- MCOffsets
    NoiseFloor = 1
    Calls = {"c1", "c2"}
    Intervals = 3
    SixVideoEdits = 1
    SixVideoFaults = 1
INVARIANTS
    VelocityIsSafe
    PipelinesAreGivenBack
    BudgetsAreKept
    VerdictsAreBound
PROPERTIES
    StepsAreSafe
CHECK_DEADLOCK FALSE
