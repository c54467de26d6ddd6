\* Drain and wait-for-completion disabled, unlimited upgrade slots, one node
\* labelled to skip upgrades, two failures of collaborator calls, no
\* administrator action.
CONSTANTS
    n1 = n1
    n2 = n2
    n3 = n3
    Node <- MCNode3
    SkipNodes = {n3}
    AutoUpgrade = TRUE
    MaxParallelUpgrades = 0
    WaitSelector = FALSE
    DrainEnable = FALSE
    ReusePolicy = FALSE
    MaxGen = 2
    MaxErrors = 2
    AdminPhases = {}
    EnvDuringPass = FALSE
SPECIFICATION Spec
INVARIANT CordonedWhileUpgrading
PROPERTY NoSilentUncordon
