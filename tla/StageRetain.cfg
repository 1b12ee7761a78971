SPECIFICATION Spec
CONSTANTS
  n1 = n1
  n2 = n2
  Sessions = {n1, n2}
  Stages <- PipelineStages
  Requires <- PipelineRequires
  Gated <- PipelineGated
  Baselines <- PipelineBaselines
  KeepSnapshots = TRUE
  PruneSnapshots = TRUE
  LegacyRestore = FALSE
  MaxPackages = 4
  MaxKills = 1
SYMMETRY SessionSymmetry
CHECK_DEADLOCK FALSE
INVARIANT TypeOK
INVARIANT InputsPassed
INVARIANT BaselineCandidatesComplete
PROPERTY CompletePackagesRetained
