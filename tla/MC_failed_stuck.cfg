\* The liveness instance of MC_live.cfg, checked against the spec's claim
\* that every node is eventually upgraded (Failed is not absorbing).
CONSTANTS
    n1 = n1
    n2 = n2
    n3 = n3
    Node <- MCNode3
    SkipNodes = {n3}
    AutoUpgrade = TRUE
    MaxParallelUpgrades = 1
    WaitSelector = TRUE
    DrainEnable = TRUE
    ReusePolicy = FALSE
    MaxGen = 2
    MaxErrors = 2
    AdminPhases = {}
    EnvDuringPass = FALSE
SPECIFICATION LiveJobsSpec
PROPERTY UpgradeCompletes
