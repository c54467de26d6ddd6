\* Drain and wait-for-completion enabled, two upgrade slots for three nodes,
\* two failures of collaborator calls or jobs, no administrator action.
CONSTANTS
    n1 = n1
    n2 = n2
    n3 = n3
    Node <- MCNode3
    SkipNodes = {}
    AutoUpgrade = TRUE
    MaxParallelUpgrades = 2
    WaitSelector = TRUE
    DrainEnable = TRUE
    ReusePolicy = FALSE
    MaxGen = 2
    MaxErrors = 2
    AdminPhases = {}
    EnvDuringPass = FALSE
SPECIFICATION Spec
INVARIANT TypeOK
INVARIANT SlotBound
INVARIANT CordonedWhileUpgrading
INVARIANT SchedulabilityRestored
INVARIANT JobsMatchPhase
PROPERTY NoSilentUncordon

