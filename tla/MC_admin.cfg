\* Drain and wait-for-completion enabled, one upgrade slot for three nodes;
\* the administrator cordons and uncordons nodes that are not being
\* upgraded (Unknown, Done) between passes; no collaborator failure.
CONSTANTS
    n1 = n1
    n2 = n2
    n3 = n3
    Node <- MCNode3
    SkipNodes = {}
    AutoUpgrade = TRUE
    MaxParallelUpgrades = 1
    WaitSelector = TRUE
    DrainEnable = TRUE
    ReusePolicy = FALSE
    MaxGen = 2
    MaxErrors = 0
    AdminPhases <- MCIdlePhases
    EnvDuringPass = FALSE
SPECIFICATION Spec
INVARIANT SchedulabilityRestored
PROPERTY NoSilentUncordon
