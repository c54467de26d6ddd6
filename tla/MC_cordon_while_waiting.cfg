\* The administrator cordons a node while it waits for an upgrade slot.
CONSTANTS
    n1 = n1
    n2 = n2
    n3 = n3
    Node <- MCNode2
    SkipNodes = {}
    AutoUpgrade = TRUE
    MaxParallelUpgrades = 1
    WaitSelector = TRUE
    DrainEnable = TRUE
    ReusePolicy = FALSE
    MaxGen = 2
    MaxErrors = 0
    AdminPhases <- MCWaitingPhases
    EnvDuringPass = FALSE
SPECIFICATION Spec
PROPERTY NoSilentUncordon
