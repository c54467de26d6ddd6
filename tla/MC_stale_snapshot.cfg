\* The collaborators' jobs complete while a pass works from its snapshot.
CONSTANTS
    n1 = n1
    n2 = n2
    n3 = n3
    Node <- MCNode2
    SkipNodes = {}
    AutoUpgrade = TRUE
    MaxParallelUpgrades = 1
    WaitSelector = TRUE
    DrainEnable = TRUE
    ReusePolicy = FALSE
    MaxGen = 2
    MaxErrors = 0
    AdminPhases = {}
    EnvDuringPass = TRUE
SPECIFICATION Spec
INVARIANT SlotBound
