\* Liveness under the reconciliation loop's fairness: three nodes, one
\* upgrade slot, one node labelled to skip upgrades, wait and drain enabled,
\* two failures of collaborator calls or jobs, jobs only between passes.
CONSTANTS
    n1 = n1
    n2 = n2
    n3 = n3
    Node <- MCNode3
    SkipNodes = {n3}
    AutoUpgrade = TRUE
    MaxParallelUpgrades = 1
    WaitSelector = TRUE
    DrainEnable = TRUE
    ReusePolicy = FALSE
    MaxGen = 2
    MaxErrors = 2
    AdminPhases = {}
    EnvDuringPass = FALSE
SPECIFICATION LiveSpec
PROPERTY UpgradeSettles
