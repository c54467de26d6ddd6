\* One collaborator failure, and the administrator (un)cordons idle nodes.
CONSTANTS
    n1 = n1
    n2 = n2
    n3 = n3
    Node <- MCNode2
    SkipNodes = {}
    AutoUpgrade = TRUE
    MaxParallelUpgrades = 1
    WaitSelector = TRUE
    DrainEnable = TRUE
    ReusePolicy = FALSE
    MaxGen = 2
    MaxErrors = 1
    AdminPhases <- MCIdlePhases
    EnvDuringPass = FALSE
SPECIFICATION Spec
INVARIANT SchedulabilityRestored
