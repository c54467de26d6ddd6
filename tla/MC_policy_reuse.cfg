\* The caller hands ApplyState the same policy object on every pass.
CONSTANTS
    n1 = n1
    n2 = n2
    n3 = n3
    Node <- MCNode2
    SkipNodes = {}
    AutoUpgrade = TRUE
    MaxParallelUpgrades = 1
    WaitSelector = TRUE
    DrainEnable = TRUE
    ReusePolicy = TRUE
    MaxGen = 2
    MaxErrors = 0
    AdminPhases = {}
    EnvDuringPass = FALSE
SPECIFICATION Spec
INVARIANT PolicyUnchanged
