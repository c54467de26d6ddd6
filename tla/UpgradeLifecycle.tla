--------------------------- MODULE UpgradeLifecycle ---------------------------
(***************************************************************************)
(* What the cluster upgrade state manager promises about each node, with   *)
(* the ten phases collapsed into the three a cluster operator cares about: *)
(* the node is idle (Unknown, Done), queued for an upgrade                 *)
(* (UpgradeRequired) or upgrading (every phase counted in                  *)
(* upgradesInProgress, Failed included).                                   *)
(*                                                                         *)
(* An idle node may be queued; a queued node starts upgrading only if it   *)
(* does not carry the skip label and, with a cap, a slot is free; an       *)
(* upgrading node eventually returns to idle or stays. A node never skips  *)
(* the queue and never goes back from upgrading to queued.                 *)
(***************************************************************************)
EXTENDS Naturals, FiniteSets

CONSTANTS
    Node,                 \* the cluster's nodes
    SkipNodes,            \* nodes labelled to skip driver upgrades
    MaxParallelUpgrades   \* the cap on upgrading nodes, 0 = unlimited

VARIABLE life              \* node -> "idle", "queued" or "upgrading"

Idle      == "idle"
Queued    == "queued"
Upgrading == "upgrading"

UpgradingNodes == {n \in Node : life[n] = Upgrading}

LifeTypeOK == life \in [Node -> {Idle, Queued, Upgrading}]

Init == life = [n \in Node |-> Idle]

(* A new driver version reaches an idle node: it is queued.                *)
Request(n) ==
    /\ life[n] = Idle
    /\ life' = [life EXCEPT ![n] = Queued]

(* A queued node takes a free slot and starts upgrading.                   *)
Start(n) ==
    /\ life[n] = Queued
    /\ n \notin SkipNodes
    /\ MaxParallelUpgrades = 0 \/ Cardinality(UpgradingNodes) < MaxParallelUpgrades
    /\ life' = [life EXCEPT ![n] = Upgrading]

(* The node's upgrade ends and it is idle again.                           *)
Finish(n) ==
    /\ life[n] = Upgrading
    /\ life' = [life EXCEPT ![n] = Idle]

Next == \E n \in Node : Request(n) \/ Start(n) \/ Finish(n)

Spec == Init /\ [][Next]_life

(* The promise the slots make: with a cap k > 0, never more than k nodes   *)
(* upgrade at once.                                                        *)
Capacity ==
    MaxParallelUpgrades > 0 => Cardinality(UpgradingNodes) <= MaxParallelUpgrades

=============================================================================
