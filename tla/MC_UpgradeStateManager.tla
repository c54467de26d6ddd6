----------------------- MODULE MC_UpgradeStateManager -----------------------
(* Model-checking instance of UpgradeStateManager: the cluster's nodes are *)
(* model values, the policy and the environment bounds come from the cfg.  *)
EXTENDS UpgradeStateManagerCordonProofs

CONSTANTS n1, n2, n3

MCNode2 == {n1, n2}
MCNode3 == {n1, n2, n3}

(* The administrator acts only while a node is not being upgraded.         *)
MCIdlePhases == {UpgradeStateUnknown, UpgradeStateDone}
(* The administrator also acts while a node waits for an upgrade slot.     *)
MCWaitingPhases == {UpgradeStateUpgradeRequired}
=============================================================================
