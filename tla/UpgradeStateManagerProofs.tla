---------------------- MODULE UpgradeStateManagerProofs ----------------------
(***************************************************************************)
(* Proofs about the ApplyState model of UpgradeStateManager, for every    *)
(* finite set of nodes and every value of the policy constants.           *)
(***************************************************************************)
EXTENDS UpgradeStateManager, FiniteSetTheorems, TLAPS

-----------------------------------------------------------------------------
(* Facts about the constants.                                              *)

(* Every upgrade-state constant the processors write is a phase, and the   *)
(* record of an empty snapshot entry is a snapshot record.                 *)
LEMMA PhaseFacts ==
    /\ UpgradeStateUnknown \in Phases
    /\ UpgradeStateDone \in Phases
    /\ UpgradeStateUpgradeRequired \in Phases
    /\ UpgradeStateCordonRequired \in Phases
    /\ UpgradeStateWaitForJobsRequired \in Phases
    /\ UpgradeStatePodDeletionRequired \in Phases
    /\ UpgradeStateDrainRequired \in Phases
    /\ UpgradeStatePodRestartRequired \in Phases
    /\ UpgradeStateFailed \in Phases
    /\ UpgradeStateUncordonRequired \in Phases
    /\ IdleRec \in SnapRec
    /\ \A i \in 1..NumStages : StageOrder[i] \in Phases
<1>1. \A i \in 1..NumStages : StageOrder[i] \in Phases
  BY DEF Phases
<1>2. IdleRec \in SnapRec
  BY ConstAssumption DEF IdleRec, SnapRec, Phases, StageOrder, NumStages,
     UpgradeStateUnknown
<1>3. QED
  BY <1>1, <1>2 DEF Phases, StageOrder, NumStages,
     UpgradeStateUnknown, UpgradeStateDone, UpgradeStateUpgradeRequired,
     UpgradeStateCordonRequired, UpgradeStateWaitForJobsRequired,
     UpgradeStatePodDeletionRequired, UpgradeStateDrainRequired,
     UpgradeStatePodRestartRequired, UpgradeStateFailed,
     UpgradeStateUncordonRequired

-----------------------------------------------------------------------------
(* Type correctness.                                                       *)

(* The processors still to run in this pass will visit node n: the        *)
(* snapshot lists it under the phase of a later processor.                 *)
LaterStage(n) ==
    \E k \in (stage + 1)..NumStages : snap[n].phase = StageOrder[k]

(* The processors that make one collaborator call for their whole list.    *)
BatchStages ==
    {6} \cup (IF WaitSelector THEN {5} ELSE {})
        \cup (IF DrainEnable THEN {7} ELSE {})

(* A pending wait-for-completion job exists only under a pod selector and *)
(* a drain job only with drain enabled.                                    *)
JobsAllowed ==
    \A j \in jobs : /\ j[1] = "wait" => WaitSelector
                    /\ j[1] = "drain" => DrainEnable

(* From ApplyState to the end of ProcessUpgradeRequiredNodes the slots     *)
(* left plus the nodes in progress stay within MaxParallelUpgrades.        *)
LimitBound ==
    MaxParallelUpgrades > 0 /\ stage \in 1..3 =>
        /\ limit >= 0
        /\ Cardinality(InProgressNodes) + limit <= MaxParallelUpgrades

(* During a pass the snapshot is exact for every node a processor has      *)
(* still to visit, and the list of the current processor is the            *)
(* snapshot's list for its phase, less the nodes already visited.          *)
SnapshotExact ==
    stage \in 1..NumStages =>
        /\ todo \subseteq NodeStates(StageOrder[stage])
        /\ stage \in BatchStages => todo = NodeStates(StageOrder[stage])
        /\ \A n \in Node :
              n \in todo \/ LaterStage(n) => phase[n] = snap[n].phase

(* The inductive strengthening of SlotBound when the other phase writers   *)
(* act only between passes.                                                *)
SlotInv ==
    /\ TypeOK
    /\ JobsMatchPhase
    /\ JobsAllowed
    /\ SlotBound
    /\ LimitBound
    /\ SnapshotExact

(* The conjuncts of TypeOK about the variables of a running pass.          *)
PassTypeOK ==
    /\ stage \in 0..NumStages
    /\ todo \subseteq Node
    /\ limit \in Int
    /\ snap \in [Node -> SnapRec]
    /\ snapGen \in 1..MaxGen
    /\ restarts \subseteq Node
    /\ errs \in 0..MaxErrors

(* The rest of TypeOK: the cluster and the environment.                    *)
ClusterTypeOK ==
    /\ phase \in [Node -> Phases]
    /\ marker \in [Node -> BOOLEAN]
    /\ unsched \in [Node -> BOOLEAN]
    /\ intent \in [Node -> BOOLEAN]
    /\ podGen \in [Node -> 1..MaxGen]
    /\ podReady \in [Node -> BOOLEAN]
    /\ podTerm \in [Node -> BOOLEAN]
    /\ dsGen \in 1..MaxGen
    /\ jobs \subseteq JobKinds \X Node
    /\ drainSel \in Nat

(* A failed collaborator call ends the pass with well-typed pass state.    *)
LEMMA FailType ==
    ASSUME PassTypeOK, Fail PROVE PassTypeOK'
  BY ConstAssumption, PhaseFacts DEF PassTypeOK, Fail, EndPass, NumStages

(* A processor going on with its next node keeps the pass state typed.     *)
LEMMA ContinueType ==
    ASSUME PassTypeOK, NEW n, Continue(n) PROVE PassTypeOK'
  BY DEF PassTypeOK, Continue

(* Calling the next processor keeps the pass state typed.                  *)
LEMMA AdvanceType ==
    ASSUME PassTypeOK, Advance PROVE PassTypeOK'
  BY DEF PassTypeOK, Advance, NodeStates, NumStages

(* The upgrade-state writes of the processors and the jobs.                *)
LEMMA PhaseWrite ==
    ASSUME NEW f \in [Node -> Phases], NEW n \in Node, NEW p \in Phases
    PROVE  [f EXCEPT ![n] = p] \in [Node -> Phases]
  OBVIOUS

(* The number of nodes in some set of phases is a natural number.          *)
LEMMA CountType ==
    ASSUME NEW S \in SUBSET Node PROVE Cardinality(S) \in Nat
  BY ConstAssumption, FS_Subset, FS_CardinalityType

(* Every step of ApplyState, of its processors and of the environment      *)
(* keeps each variable in its type: phases are upgrade-state constants,    *)
(* the pass stage stays within the ten processors, the failure count       *)
(* within its budget and the job set within JobKinds \X Node.              *)
LEMMA TypeStep == TypeOK /\ [Next]_vars => TypeOK'
<1> SUFFICES ASSUME PassTypeOK, ClusterTypeOK, [Next]_vars
             PROVE  PassTypeOK' /\ ClusterTypeOK'
  BY DEF TypeOK, PassTypeOK, ClusterTypeOK
<1> USE ConstAssumption, PhaseFacts
<1>1. CASE ApplyState
  <2>1. limit' \in Int
    <3>1. Cardinality({n \in Node : phase[n] \in InProgressPhases}) \in Nat
      BY CountType
    <3>2. Cardinality({n \in Node :
                         phase[n] = UpgradeStateUpgradeRequired}) \in Nat
      BY CountType
    <3>3. QED
      BY <1>1, <3>1, <3>2 DEF ApplyState
  <2>2. snap' \in [Node -> SnapRec]
    BY <1>1 DEF ApplyState, ClusterTypeOK, SnapRec
  <2>3. QED
    BY <1>1, <2>1, <2>2 DEF ApplyState, PassTypeOK, ClusterTypeOK,
       nodeVars, podVars, NumStages
<1>2. CASE FinishStage
  BY <1>2, AdvanceType DEF FinishStage, ClusterTypeOK, nodeVars, podVars,
     envVars
<1>3. CASE FinishPass
  BY <1>3 DEF FinishPass, EndPass, PassTypeOK, ClusterTypeOK, nodeVars,
     podVars, envVars, NumStages
<1>4. CASE ProcessWaitForJobsRequiredNodes
  BY <1>4, AdvanceType, FailType DEF ProcessWaitForJobsRequiredNodes,
     Schedule, NodeStates, JobKinds, ClusterTypeOK, nodeVars, podVars
<1>5. CASE ProcessPodDeletionRequiredNodes
  BY <1>5, AdvanceType, FailType DEF ProcessPodDeletionRequiredNodes,
     Schedule, NodeStates, JobKinds, ClusterTypeOK, nodeVars, podVars
<1>6. CASE ProcessDrainNodes
  BY <1>6, AdvanceType, FailType DEF ProcessDrainNodes, Schedule,
     NodeStates, JobKinds, ClusterTypeOK, nodeVars, podVars
<1>7. CASE SchedulePodsRestart
  <2>1. podTerm' \in [Node -> BOOLEAN]
    BY <1>7 DEF SchedulePodsRestart, ClusterTypeOK
  <2>2. PassTypeOK'
    BY <1>7, AdvanceType, FailType DEF SchedulePodsRestart
  <2>3. QED
    BY <1>7, <2>1, <2>2 DEF SchedulePodsRestart, ClusterTypeOK, nodeVars,
       envVars
<1>8. ASSUME NEW n \in Node, ProcessDoneOrUnknownNode(n)
      PROVE  PassTypeOK' /\ ClusterTypeOK'
  <2>1. PassTypeOK'
    BY <1>8, FailType, ContinueType DEF ProcessDoneOrUnknownNode
  <2>2. snap[n].unsched \in BOOLEAN
    BY DEF PassTypeOK, SnapRec
  <2>3. marker' \in [Node -> BOOLEAN]
    BY <1>8, <2>2 DEF ProcessDoneOrUnknownNode, ClusterTypeOK,
       IsNodeUnschedulable, nodeVars
  <2>4. ClusterTypeOK'
    BY <1>8, <2>3, PhaseWrite DEF ProcessDoneOrUnknownNode, ClusterTypeOK,
       nodeVars, podVars, envVars
  <2>5. QED
    BY <2>1, <2>4
<1>9. ASSUME NEW n \in Node, ProcessUpgradeRequiredNode(n)
      PROVE  PassTypeOK' /\ ClusterTypeOK'
  <2>1. PassTypeOK'
    BY <1>9, FailType, ContinueType DEF ProcessUpgradeRequiredNode,
       PassTypeOK
  <2>2. ClusterTypeOK'
    BY <1>9, PhaseWrite DEF ProcessUpgradeRequiredNode, ClusterTypeOK,
       nodeVars, podVars, envVars
  <2>3. QED
    BY <2>1, <2>2
<1>10. ASSUME NEW n \in Node, ProcessCordonRequiredNode(n)
       PROVE  PassTypeOK' /\ ClusterTypeOK'
  <2>1. PassTypeOK'
    BY <1>10, FailType, ContinueType DEF ProcessCordonRequiredNode
  <2>2. ClusterTypeOK'
    BY <1>10, PhaseWrite DEF ProcessCordonRequiredNode, ClusterTypeOK,
       nodeVars, podVars, envVars
  <2>3. QED
    BY <2>1, <2>2
<1>11. ASSUME NEW n \in Node, ProcessWaitForJobsRequiredNode(n)
       PROVE  PassTypeOK' /\ ClusterTypeOK'
  BY <1>11, PhaseWrite, ContinueType DEF ProcessWaitForJobsRequiredNode,
     PassTypeOK, ClusterTypeOK, podVars, envVars
<1>12. ASSUME NEW n \in Node, ProcessDrainNode(n)
       PROVE  PassTypeOK' /\ ClusterTypeOK'
  BY <1>12, PhaseWrite, FailType, ContinueType DEF ProcessDrainNode,
     ClusterTypeOK, podVars, envVars
<1>13. ASSUME NEW n \in Node, FinishUpgrade(n)
       PROVE  PassTypeOK' /\ ClusterTypeOK'
  BY <1>13, PhaseWrite, FailType, ContinueType DEF FinishUpgrade,
     ClusterTypeOK, podVars, envVars
<1>14. ASSUME NEW n \in Node, ProcessPodRestartNode(n)
       PROVE  PassTypeOK' /\ ClusterTypeOK'
  <2>1. CASE FinishUpgrade(n)
    BY <2>1, <1>13
  <2>2. CASE ~FinishUpgrade(n)
    BY <1>14, <2>2, FailType, ContinueType DEF ProcessPodRestartNode,
       QueueRestart, PassTypeOK, ClusterTypeOK, nodeVars, podVars, envVars
  <2>3. QED
    BY <2>1, <2>2
<1>15. ASSUME NEW n \in Node, ProcessUpgradeFailedNode(n)
       PROVE  PassTypeOK' /\ ClusterTypeOK'
  <2>1. CASE FinishUpgrade(n)
    BY <2>1, <1>13
  <2>2. CASE ~FinishUpgrade(n)
    BY <1>15, <2>2, FailType, ContinueType DEF ProcessUpgradeFailedNode,
       ClusterTypeOK, nodeVars, podVars, envVars
  <2>3. QED
    BY <2>1, <2>2
<1>16. ASSUME NEW n \in Node, ProcessUncordonRequiredNode(n)
       PROVE  PassTypeOK' /\ ClusterTypeOK'
  <2>1. PassTypeOK'
    BY <1>16, FailType, ContinueType DEF ProcessUncordonRequiredNode
  <2>2. ClusterTypeOK'
    BY <1>16, PhaseWrite DEF ProcessUncordonRequiredNode, ClusterTypeOK,
       nodeVars, podVars, envVars
  <2>3. QED
    BY <2>1, <2>2
<1>17. CASE UpdateDaemonSet
  BY <1>17 DEF UpdateDaemonSet, PassTypeOK, ClusterTypeOK, nodeVars,
     envVars, passVars
<1>18. ASSUME NEW n \in Node, NEW b \in BOOLEAN, SetNodeSchedulable(n, b)
       PROVE  PassTypeOK' /\ ClusterTypeOK'
  BY <1>18 DEF SetNodeSchedulable, PassTypeOK, ClusterTypeOK, podVars,
     envVars, passVars
<1>19. ASSUME NEW n \in Node, RecreateDriverPod(n)
       PROVE  PassTypeOK' /\ ClusterTypeOK'
  BY <1>19 DEF RecreateDriverPod, PassTypeOK, ClusterTypeOK, nodeVars,
     envVars, passVars
<1>20. ASSUME NEW n \in Node, DriverPodReady(n)
       PROVE  PassTypeOK' /\ ClusterTypeOK'
  BY <1>20 DEF DriverPodReady, PassTypeOK, ClusterTypeOK, nodeVars,
     envVars, passVars
<1>21. ASSUME NEW n \in Node, PodCompletionJob(n)
       PROVE  PassTypeOK' /\ ClusterTypeOK'
  BY <1>21, PhaseWrite DEF PodCompletionJob, PassTypeOK, ClusterTypeOK,
     podVars, passVars
<1>22. ASSUME NEW n \in Node, PodEvictionJob(n)
       PROVE  PassTypeOK' /\ ClusterTypeOK'
  BY <1>22, PhaseWrite DEF PodEvictionJob, PassTypeOK, ClusterTypeOK,
     podVars
<1>23. ASSUME NEW n \in Node, DrainJob(n)
       PROVE  PassTypeOK' /\ ClusterTypeOK'
  BY <1>23, PhaseWrite DEF DrainJob, PassTypeOK, ClusterTypeOK, podVars
<1>24. CASE UNCHANGED vars
  BY <1>24 DEF vars, nodeVars, podVars, envVars, passVars, PassTypeOK,
     ClusterTypeOK
<1>25. QED
  BY <1>1, <1>2, <1>3, <1>4, <1>5, <1>6, <1>7, <1>8, <1>9, <1>10, <1>11,
     <1>12, <1>14, <1>15, <1>16, <1>17, <1>18, <1>19, <1>20, <1>21,
     <1>22, <1>23, <1>24 DEF Next, Pass, Environment

(* Type correctness of the model: in every reachable state each variable   *)
(* of ApplyState, its processors and the environment has its type.         *)
THEOREM TypeCorrect == Spec => []TypeOK
<1>1. Init => TypeOK
  BY ConstAssumption, PhaseFacts DEF Init, TypeOK, NumStages
<1>2. QED
  BY <1>1, TypeStep, PTL DEF Spec

-----------------------------------------------------------------------------
(* Lemmas for the slot bound.                                              *)

(* The ten processors handle ten different phases.                         *)
LEMMA StageOrderDistinct ==
    \A i, k \in 1..NumStages : StageOrder[i] = StageOrder[k] => i = k
  BY DEF StageOrder, NumStages,
     UpgradeStateUnknown, UpgradeStateDone, UpgradeStateUpgradeRequired,
     UpgradeStateCordonRequired, UpgradeStateWaitForJobsRequired,
     UpgradeStatePodDeletionRequired, UpgradeStateDrainRequired,
     UpgradeStatePodRestartRequired, UpgradeStateFailed,
     UpgradeStateUncordonRequired

(* The nodes of a cluster in some phases form a finite set.                *)
LEMMA InProgressFinite ==
    ASSUME NEW f
    PROVE  /\ IsFiniteSet({m \in Node : f[m] \in InProgressPhases})
           /\ Cardinality({m \in Node : f[m] \in InProgressPhases}) \in Nat
  BY ConstAssumption, FS_Subset, FS_CardinalityType

(* One upgrade-state write changes the nodes in progress by at most the    *)
(* node written: not at all when it stays in or out of progress, by one    *)
(* more when it enters, and never upwards when it leaves.                  *)
LEMMA InProgressWrite ==
    ASSUME NEW f \in [Node -> Phases], NEW n \in Node, NEW p \in Phases
    PROVE  LET S == {m \in Node : f[m] \in InProgressPhases}
               T == {m \in Node : [f EXCEPT ![n] = p][m] \in InProgressPhases}
           IN  /\ (f[n] \in InProgressPhases <=> p \in InProgressPhases)
                     => T = S
               /\ p \notin InProgressPhases
                     => Cardinality(T) <= Cardinality(S)
               /\ f[n] \notin InProgressPhases /\ p \in InProgressPhases
                     => Cardinality(T) = Cardinality(S) + 1
<1> DEFINE S == {m \in Node : f[m] \in InProgressPhases}
           T == {m \in Node : [f EXCEPT ![n] = p][m] \in InProgressPhases}
<1>1. IsFiniteSet(S)
  BY InProgressFinite
<1>2. (f[n] \in InProgressPhases <=> p \in InProgressPhases) => T = S
  OBVIOUS
<1>3. p \notin InProgressPhases => Cardinality(T) <= Cardinality(S)
  <2>1. p \notin InProgressPhases => T \subseteq S
    OBVIOUS
  <2>2. QED
    BY <1>1, <2>1, FS_Subset
<1>4. f[n] \notin InProgressPhases /\ p \in InProgressPhases
        => Cardinality(T) = Cardinality(S) + 1
  <2> HAVE f[n] \notin InProgressPhases /\ p \in InProgressPhases
  <2>1. T = S \cup {n}
    OBVIOUS
  <2>2. n \notin S
    OBVIOUS
  <2>3. Cardinality(S \cup {n}) = Cardinality(S) + 1
    BY <1>1, <2>2, FS_AddElement
  <2>4. QED
    BY <2>1, <2>3
<1>5. QED
  BY <1>2, <1>3, <1>4

(* A node a processor is about to visit is, in the cluster and in the      *)
(* snapshot, in the phase of that processor.                               *)
LEMMA TodoPhase ==
    ASSUME SnapshotExact, stage \in 1..NumStages, NEW n \in todo
    PROVE  /\ snap[n].phase = StageOrder[stage]
           /\ phase[n] = StageOrder[stage]
  BY DEF SnapshotExact, NodeStates

(* No job is pending for a node outside the phases jobs are scheduled in,  *)
(* nor for a node the pass moves on by itself because the policy has no    *)
(* pod selector or no drain.                                               *)
LEMMA NoJobOn ==
    ASSUME TypeOK, JobsMatchPhase, JobsAllowed, NEW n \in Node,
           \/ phase[n] \notin {UpgradeStateWaitForJobsRequired,
                               UpgradeStatePodDeletionRequired,
                               UpgradeStateDrainRequired}
           \/ phase[n] = UpgradeStateWaitForJobsRequired /\ ~WaitSelector
           \/ phase[n] = UpgradeStateDrainRequired /\ ~DrainEnable
    PROVE  \A j \in jobs : j[2] # n
  BY DEF TypeOK, JobsMatchPhase, JobsAllowed, JobKinds,
     UpgradeStateWaitForJobsRequired, UpgradeStatePodDeletionRequired,
     UpgradeStateDrainRequired

(* A write of one node's upgrade state keeps every pending job with its    *)
(* phase when the node has no job pending.                                 *)
LEMMA WriteKeepsJobs ==
    ASSUME TypeOK, JobsMatchPhase, NEW n \in Node, NEW p,
           phase' = [phase EXCEPT ![n] = p], jobs' = jobs,
           \A j \in jobs : j[2] # n
    PROVE  JobsMatchPhase'
  BY DEF TypeOK, JobsMatchPhase, JobKinds

(* A step that touches neither the upgrade states, the jobs nor the pass   *)
(* (the administrator, the DaemonSet controller, the kubelet) keeps the    *)
(* invariant.                                                              *)
LEMMA FrameStep ==
    ASSUME SlotInv, TypeOK', UNCHANGED <<phase, jobs, passVars>>
    PROVE  SlotInv'
  BY DEF SlotInv, JobsMatchPhase, JobsAllowed, SlotBound, InProgressNodes,
     LimitBound, SnapshotExact, LaterStage, NodeStates, BatchStages, passVars

(* A step that ends the pass keeps the invariant when it keeps the jobs    *)
(* and their phases and adds no node in progress.                          *)
LEMMA EndPassStep ==
    ASSUME SlotInv, TypeOK', stage' = 0, jobs' = jobs, JobsMatchPhase',
           SlotBound'
    PROVE  SlotInv'
  BY DEF SlotInv, JobsAllowed, LimitBound, SnapshotExact, NumStages

(* Calling the next processor keeps the snapshot exact for the nodes it    *)
(* and the later processors will visit.                                    *)
LEMMA AdvanceSnap ==
    ASSUME TypeOK, SnapshotExact, stage \in 1..NumStages, Advance,
           UNCHANGED phase
    PROVE  SnapshotExact'
<1>1. stage' \in 1..NumStages /\ snap' = snap
  BY DEF Advance, NumStages
<1>2. todo' = {m \in Node : snap'[m].phase = StageOrder[stage']}
  BY DEF Advance, NodeStates
<1>3. ASSUME NEW n \in Node, n \in todo' \/ LaterStage(n)'
      PROVE  LaterStage(n)
  <2>1. CASE n \in todo'
    BY <2>1 DEF Advance, NodeStates, LaterStage, NumStages
  <2>2. CASE LaterStage(n)'
    BY <2>2 DEF Advance, LaterStage, NumStages
  <2>3. QED
    BY <1>3, <2>1, <2>2
<1>4. QED
  BY <1>1, <1>2, <1>3 DEF SnapshotExact, NodeStates, BatchStages, TypeOK

(* Calling the next processor keeps the invariant when the jobs keep it.   *)
LEMMA AdvanceStep ==
    ASSUME SlotInv, TypeOK', JobsMatchPhase', JobsAllowed',
           stage \in 1..NumStages, Advance, UNCHANGED phase
    PROVE  SlotInv'
<1>1. SnapshotExact'
  BY AdvanceSnap DEF SlotInv
<1>2. SlotBound' /\ LimitBound'
  BY DEF SlotInv, SlotBound, LimitBound, InProgressNodes, Advance, NumStages
<1>3. QED
  BY <1>1, <1>2 DEF SlotInv

(* A processor visiting node n of its list and writing upgrade state p     *)
(* keeps the invariant when n has no job pending and the write either      *)
(* keeps n in or out of progress, or takes one of the slots left, or comes *)
(* after ProcessUpgradeRequiredNodes and takes n out of progress.          *)
LEMMA NodeStep ==
    ASSUME SlotInv, TypeOK', stage \in 1..NumStages, stage \notin BatchStages,
           NEW n \in todo, NEW p \in Phases,
           phase' = [phase EXCEPT ![n] = p], todo' = todo \ {n},
           stage' = stage, snap' = snap, jobs' = jobs,
           \A j \in jobs : j[2] # n,
           \/ /\ phase[n] \in InProgressPhases <=> p \in InProgressPhases
              /\ limit' = limit
           \/ /\ stage = 3
              /\ phase[n] \notin InProgressPhases
              /\ p \in InProgressPhases
              /\ limit > 0
              /\ limit' = limit - 1
           \/ stage \in 4..NumStages /\ p \notin InProgressPhases
    PROVE  SlotInv'
<1>1. n \in Node /\ phase \in [Node -> Phases]
  BY DEF SlotInv, TypeOK
<1>2. JobsMatchPhase' /\ JobsAllowed'
  BY <1>1, WriteKeepsJobs DEF SlotInv, JobsAllowed
<1>3. SlotBound' /\ LimitBound'
  <2> DEFINE S == {m \in Node : phase[m] \in InProgressPhases}
             T == {m \in Node : [phase EXCEPT ![n] = p][m] \in InProgressPhases}
  <2>1. InProgressNodes = S /\ InProgressNodes' = T
    BY DEF InProgressNodes
  <2>2. Cardinality(S) \in Nat /\ Cardinality(T) \in Nat
    BY InProgressFinite
  <2>3. SlotBound /\ LimitBound
    BY DEF SlotInv
  <2> DEFINE Max == MaxParallelUpgrades
  <2>4. SUFFICES /\ Max > 0 => Cardinality(T) <= Max
                 /\ Max > 0 /\ stage' \in 1..3 =>
                       limit' >= 0 /\ Cardinality(T) + limit' <= Max
    BY <2>1 DEF SlotBound, LimitBound
  <2>5. /\ Max > 0 => Cardinality(S) <= Max
        /\ Max > 0 /\ stage \in 1..3 =>
              limit >= 0 /\ Cardinality(S) + limit <= Max
    BY <2>1, <2>3 DEF SlotBound, LimitBound
  <2>6. limit \in Int
    BY DEF SlotInv, TypeOK
  <2>7. CASE /\ phase[n] \in InProgressPhases <=> p \in InProgressPhases
             /\ limit' = limit
    <3>1. T = S
      BY <1>1, <2>7, InProgressWrite
    <3>2. QED
      BY <2>5, <2>7, <3>1
  <2>8. CASE /\ stage = 3
             /\ phase[n] \notin InProgressPhases
             /\ p \in InProgressPhases
             /\ limit > 0
             /\ limit' = limit - 1
    <3>1. Cardinality(T) = Cardinality(S) + 1
      BY <1>1, <2>8, InProgressWrite
    <3>2. QED
      BY <2>2, <2>5, <2>6, <2>8, <3>1, ConstAssumption
  <2>9. CASE stage \in 4..NumStages /\ p \notin InProgressPhases
    <3>1. Cardinality(T) <= Cardinality(S)
      BY <1>1, <2>9, InProgressWrite
    <3>2. QED
      BY <2>2, <2>5, <2>9, <3>1, ConstAssumption DEF NumStages
  <2>10. QED
    BY <2>7, <2>8, <2>9
<1>4. SnapshotExact'
  <2>1. snap[n].phase = StageOrder[stage]
    BY TodoPhase DEF SlotInv
  <2>2. ~LaterStage(n)
    BY <2>1, StageOrderDistinct DEF LaterStage, NumStages
  <2>3. QED
    BY <1>1, <2>2 DEF SlotInv, SnapshotExact, LaterStage, NodeStates
<1>5. QED
  BY <1>2, <1>3, <1>4 DEF SlotInv

(* A collaborator job that ends between passes moves its node from the     *)
(* phase it was scheduled for to another phase of an upgrade in progress,  *)
(* and keeps the invariant.                                                *)
LEMMA JobStep ==
    ASSUME SlotInv, TypeOK', stage = 0, stage' = 0,
           NEW n \in Node, NEW k \in JobKinds, <<k, n>> \in jobs,
           jobs' = jobs \ {<<k, n>>},
           NEW p \in InProgressPhases, phase' = [phase EXCEPT ![n] = p]
    PROVE  SlotInv'
<1>1. phase \in [Node -> Phases] /\ jobs \subseteq JobKinds \X Node
  BY DEF SlotInv, TypeOK
<1>2. phase[n] \in InProgressPhases
  BY <1>1 DEF SlotInv, JobsMatchPhase, JobKinds, InProgressPhases
<1>3. \A j \in jobs' : j[2] # n
  BY <1>1 DEF SlotInv, JobsMatchPhase, JobKinds,
     UpgradeStateWaitForJobsRequired, UpgradeStatePodDeletionRequired,
     UpgradeStateDrainRequired
<1>4. JobsMatchPhase' /\ JobsAllowed'
  BY <1>1, <1>3 DEF SlotInv, JobsMatchPhase, JobsAllowed
<1>5. SlotBound'
  <2>1. p \in Phases
    BY PhaseFacts DEF InProgressPhases
  <2>2. InProgressNodes' = InProgressNodes
    BY <1>1, <1>2, <2>1, InProgressWrite DEF InProgressNodes
  <2>3. QED
    BY <2>2 DEF SlotInv, SlotBound
<1>6. QED
  BY <1>4, <1>5 DEF SlotInv, LimitBound, SnapshotExact, NumStages

(* A failed collaborator call ends the pass and keeps the invariant when   *)
(* no upgrade state was written.                                           *)
LEMMA FailStep ==
    ASSUME SlotInv, TypeOK', stage' = 0, phase' = phase, jobs' = jobs
    PROVE  SlotInv'
  BY EndPassStep DEF SlotInv, JobsMatchPhase, SlotBound, InProgressNodes

(* The same when the state write of a node without pending jobs to Done   *)
(* succeeded and the removal of its initial-state annotation failed.      *)
LEMMA FailAfterDoneStep ==
    ASSUME SlotInv, TypeOK', stage' = 0, jobs' = jobs, NEW n \in Node,
           phase' = [phase EXCEPT ![n] = UpgradeStateDone],
           \A j \in jobs : j[2] # n
    PROVE  SlotInv'
<1>1. phase \in [Node -> Phases]
  BY DEF SlotInv, TypeOK
<1>2. JobsMatchPhase'
  BY <1>1, WriteKeepsJobs DEF SlotInv
<1>3. SlotBound'
  <2>1. UpgradeStateDone \notin InProgressPhases
    BY DEF InProgressPhases, UpgradeStateDone, UpgradeStateCordonRequired,
       UpgradeStateDrainRequired, UpgradeStatePodRestartRequired,
       UpgradeStateWaitForJobsRequired, UpgradeStatePodDeletionRequired,
       UpgradeStateFailed, UpgradeStateUncordonRequired
  <2>2. Cardinality(InProgressNodes') <= Cardinality(InProgressNodes)
    BY <1>1, <2>1, PhaseFacts, InProgressWrite DEF InProgressNodes
  <2>3. Cardinality(InProgressNodes) \in Nat
        /\ Cardinality(InProgressNodes') \in Nat
    BY InProgressFinite DEF InProgressNodes
  <2>4. QED
    BY <2>2, <2>3, ConstAssumption DEF SlotInv, SlotBound
<1>4. QED
  BY <1>2, <1>3, EndPassStep

(* Facts about the phases the invariant steps compare.                     *)
LEMMA PhaseClasses ==
    /\ UpgradeStateUnknown \notin InProgressPhases
    /\ UpgradeStateDone \notin InProgressPhases
    /\ UpgradeStateUpgradeRequired \notin InProgressPhases
    /\ UpgradeStateCordonRequired \in InProgressPhases
    /\ UpgradeStateWaitForJobsRequired \in InProgressPhases
    /\ UpgradeStatePodDeletionRequired \in InProgressPhases
    /\ UpgradeStateDrainRequired \in InProgressPhases
    /\ UpgradeStatePodRestartRequired \in InProgressPhases
    /\ UpgradeStateFailed \in InProgressPhases
    /\ UpgradeStateUncordonRequired \in InProgressPhases
    /\ \A i \in 1..NumStages : StageOrder[i] \in Phases
    /\ StageOrder[1] = UpgradeStateUnknown
    /\ StageOrder[2] = UpgradeStateDone
    /\ StageOrder[3] = UpgradeStateUpgradeRequired
    /\ StageOrder[4] = UpgradeStateCordonRequired
    /\ StageOrder[5] = UpgradeStateWaitForJobsRequired
    /\ StageOrder[6] = UpgradeStatePodDeletionRequired
    /\ StageOrder[7] = UpgradeStateDrainRequired
    /\ StageOrder[8] = UpgradeStatePodRestartRequired
    /\ StageOrder[9] = UpgradeStateFailed
    /\ StageOrder[10] = UpgradeStateUncordonRequired
    /\ \A s \in BatchStages : s \in 5..7
  BY PhaseFacts DEF InProgressPhases, StageOrder, BatchStages,
     UpgradeStateUnknown, UpgradeStateDone, UpgradeStateUpgradeRequired,
     UpgradeStateCordonRequired, UpgradeStateWaitForJobsRequired,
     UpgradeStatePodDeletionRequired, UpgradeStateDrainRequired,
     UpgradeStatePodRestartRequired, UpgradeStateFailed,
     UpgradeStateUncordonRequired

(* The end of an upgrade in ProcessPodRestartNodes or                      *)
(* ProcessUpgradeFailedNodes keeps the invariant: the node stays in        *)
(* progress (UncordonRequired) or leaves it (Done).                        *)
LEMMA FinishUpgradeStep ==
    ASSUME SlotInv, TypeOK', stage \in {8, 9}, NEW n \in todo,
           FinishUpgrade(n), \A j \in jobs : j[2] # n,
           phase[n] \in InProgressPhases
    PROVE  SlotInv'
<1>1. n \in Node /\ stage \in 1..NumStages /\ stage \notin BatchStages
  BY PhaseClasses DEF SlotInv, TypeOK, NumStages
<1>2. CASE phase' = [phase EXCEPT ![n] = UpgradeStateUncordonRequired]
           /\ Continue(n)
  BY <1>1, <1>2, PhaseClasses, PhaseFacts, NodeStep
     DEF FinishUpgrade, Continue, envVars
<1>3. CASE phase' = [phase EXCEPT ![n] = UpgradeStateDone] /\ Continue(n)
  <2>1. /\ todo' = todo \ {n} /\ stage' = stage /\ snap' = snap
        /\ jobs' = jobs
    BY <1>3 DEF FinishUpgrade, Continue, envVars
  <2>2. stage \in 4..NumStages /\ UpgradeStateDone \notin InProgressPhases
    BY PhaseClasses DEF NumStages
  <2>3. QED
    BY <1>1, <1>3, <2>1, <2>2, PhaseFacts, NodeStep
<1>4. CASE phase' = [phase EXCEPT ![n] = UpgradeStateDone] /\ Fail
  BY <1>1, <1>4, FailAfterDoneStep DEF FinishUpgrade, Fail, EndPass, envVars
<1>5. QED
  BY <1>2, <1>3, <1>4 DEF FinishUpgrade

(* ProcessDoneOrUnknownNodes keeps the invariant: its node moves between   *)
(* Unknown, Done and UpgradeRequired, none of them in progress.            *)
LEMMA DoneOrUnknownStep ==
    ASSUME SlotInv, TypeOK', NEW n \in Node, ProcessDoneOrUnknownNode(n)
    PROVE  SlotInv'
<1>1. /\ stage \in {1, 2} /\ n \in todo
      /\ stage \in 1..NumStages /\ stage \notin BatchStages
  BY PhaseClasses DEF ProcessDoneOrUnknownNode, NumStages
<1>2. phase[n] = StageOrder[stage]
  BY <1>1, TodoPhase DEF SlotInv
<1>3. phase[n] \in {UpgradeStateUnknown, UpgradeStateDone}
  BY <1>1, <1>2, PhaseClasses
<1>4. \A j \in jobs : j[2] # n
  BY <1>3, NoJobOn DEF SlotInv, UpgradeStateUnknown, UpgradeStateDone,
     UpgradeStateWaitForJobsRequired, UpgradeStatePodDeletionRequired,
     UpgradeStateDrainRequired
<1> DEFINE Write(p) == /\ phase' = [phase EXCEPT ![n] = p]
                       /\ Continue(n) /\ jobs' = jobs
<1>5. CASE stage' = 0 /\ phase' = phase /\ jobs' = jobs
  BY <1>5, FailStep
<1>6. ASSUME NEW p \in {UpgradeStateUpgradeRequired, UpgradeStateDone},
             Write(p)
      PROVE  SlotInv'
  <2>1. p \in Phases /\ p \notin InProgressPhases
    BY PhaseClasses, PhaseFacts
  <2>2. QED
    BY <1>1, <1>3, <1>4, <1>6, <2>1, PhaseClasses, NodeStep DEF Continue
<1>7. QED
  <2>1. phase \in [Node -> Phases]
    BY DEF SlotInv, TypeOK
  <2>2. stage = 2 => phase = [phase EXCEPT ![n] = UpgradeStateDone]
    BY <1>1, <1>2, <2>1, PhaseClasses
  <2>3. \/ stage' = 0 /\ phase' = phase /\ jobs' = jobs
        \/ Write(UpgradeStateUpgradeRequired)
        \/ Write(UpgradeStateDone)
    BY <1>1, <2>2 DEF ProcessDoneOrUnknownNode, Fail, EndPass, envVars,
       nodeVars
  <2>4. QED
    BY <1>5, <1>6, <2>3

(* ProcessUpgradeRequiredNodes keeps the invariant: a node enters          *)
(* progress only while a slot is left, and takes it.                       *)
LEMMA UpgradeRequiredStep ==
    ASSUME SlotInv, TypeOK', NEW n \in Node, ProcessUpgradeRequiredNode(n)
    PROVE  SlotInv'
<1>1. /\ stage = 3 /\ n \in todo /\ limit > 0
      /\ stage \in 1..NumStages /\ stage \notin BatchStages
  BY PhaseClasses DEF ProcessUpgradeRequiredNode, HasSlot, NumStages
<1>2. phase[n] = UpgradeStateUpgradeRequired
  BY <1>1, TodoPhase, PhaseClasses DEF SlotInv
<1>3. \A j \in jobs : j[2] # n
  BY <1>2, NoJobOn DEF SlotInv, UpgradeStateUpgradeRequired,
     UpgradeStateWaitForJobsRequired, UpgradeStatePodDeletionRequired,
     UpgradeStateDrainRequired
<1>4. phase = [phase EXCEPT ![n] = UpgradeStateUpgradeRequired]
  BY <1>2 DEF SlotInv, TypeOK
<1>5. CASE SkipNodeUpgrade(n) /\ Continue(n) /\ UNCHANGED <<nodeVars, envVars>>
  BY <1>1, <1>2, <1>3, <1>4, <1>5, PhaseFacts, NodeStep
     DEF Continue, nodeVars, envVars
<1>6. CASE Fail /\ UNCHANGED <<nodeVars, envVars>>
  BY <1>6, FailStep DEF Fail, EndPass, nodeVars, envVars
<1>7. CASE /\ phase' = [phase EXCEPT ![n] = UpgradeStateCordonRequired]
           /\ limit' = limit - 1
           /\ todo' = todo \ {n}
           /\ UNCHANGED <<envVars, stage, snap>>
  BY <1>1, <1>2, <1>3, <1>7, PhaseClasses, PhaseFacts, NodeStep DEF envVars
<1>8. QED
  BY <1>5, <1>6, <1>7 DEF ProcessUpgradeRequiredNode

(* ProcessCordonRequiredNodes keeps the invariant: CordonRequired and      *)
(* WaitForJobsRequired are both in progress.                               *)
LEMMA CordonStep ==
    ASSUME SlotInv, TypeOK', NEW n \in Node, ProcessCordonRequiredNode(n)
    PROVE  SlotInv'
<1>1. /\ stage = 4 /\ n \in todo
      /\ stage \in 1..NumStages /\ stage \notin BatchStages
  BY PhaseClasses DEF ProcessCordonRequiredNode, NumStages
<1>2. phase[n] = UpgradeStateCordonRequired
  BY <1>1, TodoPhase, PhaseClasses DEF SlotInv
<1>3. \A j \in jobs : j[2] # n
  BY <1>2, NoJobOn DEF SlotInv, UpgradeStateCordonRequired,
     UpgradeStateWaitForJobsRequired, UpgradeStatePodDeletionRequired,
     UpgradeStateDrainRequired
<1>4. CASE stage' = 0 /\ phase' = phase /\ jobs' = jobs
  BY <1>4, FailStep
<1>5. CASE /\ phase' = [phase EXCEPT ![n] = UpgradeStateWaitForJobsRequired]
           /\ Continue(n) /\ jobs' = jobs
  BY <1>1, <1>2, <1>3, <1>5, PhaseClasses, PhaseFacts, NodeStep DEF Continue
<1>6. QED
  BY <1>4, <1>5 DEF ProcessCordonRequiredNode, Fail, EndPass, nodeVars,
     envVars

(* ProcessWaitForJobsRequiredNodes without a pod selector keeps the        *)
(* invariant: no wait job exists, and both phases are in progress.         *)
LEMMA WaitNodeStep ==
    ASSUME SlotInv, TypeOK', NEW n \in Node, ProcessWaitForJobsRequiredNode(n)
    PROVE  SlotInv'
<1>1. /\ stage = 5 /\ n \in todo /\ ~WaitSelector
      /\ stage \in 1..NumStages /\ stage \notin BatchStages
  BY ConstAssumption DEF ProcessWaitForJobsRequiredNode, NumStages,
     BatchStages
<1>2. phase[n] = UpgradeStateWaitForJobsRequired
  BY <1>1, TodoPhase, PhaseClasses DEF SlotInv
<1>3. \A j \in jobs : j[2] # n
  BY <1>1, <1>2, NoJobOn DEF SlotInv
<1>4. phase = [phase EXCEPT ![n] = UpgradeStateWaitForJobsRequired]
  BY <1>2 DEF SlotInv, TypeOK
<1>5. CASE /\ phase' = [phase EXCEPT ![n] = UpgradeStatePodDeletionRequired]
           /\ Continue(n)
  BY <1>1, <1>2, <1>3, <1>5, PhaseClasses, PhaseFacts, NodeStep
     DEF ProcessWaitForJobsRequiredNode, Continue, envVars
<1>6. CASE /\ todo' = todo \ {n}
           /\ UNCHANGED <<phase, stage, limit, snap>>
  BY <1>1, <1>2, <1>3, <1>4, <1>6, PhaseClasses, PhaseFacts, NodeStep
     DEF ProcessWaitForJobsRequiredNode, envVars
<1>7. QED
  BY <1>5, <1>6 DEF ProcessWaitForJobsRequiredNode

(* ProcessDrainNodes with drain disabled keeps the invariant: no drain job *)
(* exists, and both phases are in progress.                                *)
LEMMA DrainNodeStep ==
    ASSUME SlotInv, TypeOK', NEW n \in Node, ProcessDrainNode(n)
    PROVE  SlotInv'
<1>1. /\ stage = 7 /\ n \in todo /\ ~DrainEnable
      /\ stage \in 1..NumStages /\ stage \notin BatchStages
  BY ConstAssumption DEF ProcessDrainNode, NumStages, BatchStages
<1>2. phase[n] = UpgradeStateDrainRequired
  BY <1>1, TodoPhase, PhaseClasses DEF SlotInv
<1>3. \A j \in jobs : j[2] # n
  BY <1>1, <1>2, NoJobOn DEF SlotInv
<1>4. CASE Fail /\ UNCHANGED phase
  BY <1>4, FailStep DEF ProcessDrainNode, Fail, EndPass, envVars
<1>5. CASE /\ phase' = [phase EXCEPT ![n] = UpgradeStatePodRestartRequired]
           /\ Continue(n)
  BY <1>1, <1>2, <1>3, <1>5, PhaseClasses, PhaseFacts, NodeStep
     DEF ProcessDrainNode, Continue, envVars
<1>6. QED
  BY <1>4, <1>5 DEF ProcessDrainNode

(* ProcessPodRestartNodes keeps the invariant: a node either waits for its *)
(* restarted pod or ends its upgrade.                                      *)
LEMMA PodRestartStep ==
    ASSUME SlotInv, TypeOK', NEW n \in Node, ProcessPodRestartNode(n)
    PROVE  SlotInv'
<1>1. /\ stage = 8 /\ n \in todo
      /\ stage \in 1..NumStages /\ stage \notin BatchStages
  BY PhaseClasses DEF ProcessPodRestartNode, NumStages
<1>2. phase[n] = UpgradeStatePodRestartRequired
  BY <1>1, TodoPhase, PhaseClasses DEF SlotInv
<1>3. \A j \in jobs : j[2] # n
  BY <1>2, NoJobOn DEF SlotInv, UpgradeStatePodRestartRequired,
     UpgradeStateWaitForJobsRequired, UpgradeStatePodDeletionRequired,
     UpgradeStateDrainRequired
<1>4. phase = [phase EXCEPT ![n] = UpgradeStatePodRestartRequired]
  BY <1>2 DEF SlotInv, TypeOK
<1>5. CASE Fail /\ UNCHANGED <<nodeVars, envVars>>
  BY <1>5, FailStep DEF Fail, EndPass, nodeVars, envVars
<1>6. CASE /\ todo' = todo \ {n}
           /\ UNCHANGED <<nodeVars, envVars, stage, limit, snap>>
  BY <1>1, <1>2, <1>3, <1>4, <1>6, PhaseClasses, PhaseFacts, NodeStep
     DEF nodeVars, envVars
<1>7. CASE FinishUpgrade(n)
  BY <1>1, <1>2, <1>3, <1>7, PhaseClasses, FinishUpgradeStep
<1>8. QED
  BY <1>5, <1>6, <1>7 DEF ProcessPodRestartNode, Continue

(* ProcessUpgradeFailedNodes keeps the invariant: a Failed node either     *)
(* stays or ends its upgrade.                                              *)
LEMMA UpgradeFailedStep ==
    ASSUME SlotInv, TypeOK', NEW n \in Node, ProcessUpgradeFailedNode(n)
    PROVE  SlotInv'
<1>1. /\ stage = 9 /\ n \in todo
      /\ stage \in 1..NumStages /\ stage \notin BatchStages
  BY PhaseClasses DEF ProcessUpgradeFailedNode, NumStages
<1>2. phase[n] = UpgradeStateFailed
  BY <1>1, TodoPhase, PhaseClasses DEF SlotInv
<1>3. \A j \in jobs : j[2] # n
  BY <1>2, NoJobOn DEF SlotInv, UpgradeStateFailed,
     UpgradeStateWaitForJobsRequired, UpgradeStatePodDeletionRequired,
     UpgradeStateDrainRequired
<1>4. phase = [phase EXCEPT ![n] = UpgradeStateFailed]
  BY <1>2 DEF SlotInv, TypeOK
<1>5. CASE Fail /\ UNCHANGED <<nodeVars, envVars>>
  BY <1>5, FailStep DEF Fail, EndPass, nodeVars, envVars
<1>6. CASE Continue(n) /\ UNCHANGED <<nodeVars, envVars>>
  BY <1>1, <1>2, <1>3, <1>4, <1>6, PhaseClasses, PhaseFacts, NodeStep
     DEF Continue, nodeVars, envVars
<1>7. CASE FinishUpgrade(n)
  BY <1>1, <1>2, <1>3, <1>7, PhaseClasses, FinishUpgradeStep
<1>8. QED
  BY <1>5, <1>6, <1>7 DEF ProcessUpgradeFailedNode

(* ProcessUncordonRequiredNodes keeps the invariant: a node leaves         *)
(* progress for Done.                                                      *)
LEMMA UncordonStep ==
    ASSUME SlotInv, TypeOK', NEW n \in Node, ProcessUncordonRequiredNode(n)
    PROVE  SlotInv'
<1>1. /\ stage = 10 /\ n \in todo
      /\ stage \in 1..NumStages /\ stage \notin BatchStages
  BY PhaseClasses DEF ProcessUncordonRequiredNode, NumStages
<1>2. phase[n] = UpgradeStateUncordonRequired
  BY <1>1, TodoPhase, PhaseClasses DEF SlotInv
<1>3. \A j \in jobs : j[2] # n
  BY <1>2, NoJobOn DEF SlotInv, UpgradeStateUncordonRequired,
     UpgradeStateWaitForJobsRequired, UpgradeStatePodDeletionRequired,
     UpgradeStateDrainRequired
<1>4. CASE stage' = 0 /\ phase' = phase /\ jobs' = jobs
  BY <1>4, FailStep
<1>5. CASE /\ phase' = [phase EXCEPT ![n] = UpgradeStateDone]
           /\ Continue(n) /\ jobs' = jobs
  <2>1. stage \in 4..NumStages /\ UpgradeStateDone \notin InProgressPhases
    BY <1>1, PhaseClasses DEF NumStages
  <2>2. QED
    BY <1>1, <1>3, <1>5, <2>1, PhaseFacts, NodeStep DEF Continue
<1>6. QED
  BY <1>4, <1>5 DEF ProcessUncordonRequiredNode, Fail, EndPass, nodeVars,
     envVars

(* A processor scheduling one job per node of its list keeps the           *)
(* invariant: the snapshot is exact for that list, so every new job's node *)
(* is in the phase the job is for.                                         *)
LEMMA ScheduleStep ==
    ASSUME SlotInv, TypeOK', stage \in BatchStages, NEW kind \in JobKinds,
           kind = "wait" => WaitSelector /\ stage = 5,
           kind = "evict" => stage = 6,
           kind = "drain" => DrainEnable /\ stage = 7,
           jobs' = jobs \cup ({kind} \X NodeStates(StageOrder[stage])),
           Advance, UNCHANGED phase
    PROVE  SlotInv'
<1>1. stage \in 1..NumStages
  BY PhaseClasses DEF NumStages
<1>2. \A m \in NodeStates(StageOrder[stage]) : phase[m] = StageOrder[stage]
  <2>1. todo = NodeStates(StageOrder[stage])
    BY <1>1 DEF SlotInv, SnapshotExact
  <2>2. QED
    BY <1>1, <2>1, TodoPhase DEF SlotInv
<1>3. JobsMatchPhase'
  BY <1>2, PhaseClasses DEF SlotInv, JobsMatchPhase, JobKinds
<1>4. JobsAllowed'
  BY DEF SlotInv, JobsAllowed
<1>5. QED
  BY <1>1, <1>3, <1>4, AdvanceStep

(* Calling the next processor without scheduling jobs keeps the invariant. *)
LEMMA PlainAdvanceStep ==
    ASSUME SlotInv, TypeOK', stage \in 1..NumStages, Advance,
           UNCHANGED <<phase, jobs>>
    PROVE  SlotInv'
  BY AdvanceStep DEF SlotInv, JobsMatchPhase, JobsAllowed

(* The three processors that make one collaborator call for their list.    *)
LEMMA BatchStep ==
    ASSUME SlotInv, TypeOK',
           \/ ProcessWaitForJobsRequiredNodes
           \/ ProcessPodDeletionRequiredNodes
           \/ ProcessDrainNodes
    PROVE  SlotInv'
<1>1. CASE ProcessWaitForJobsRequiredNodes
  <2>1. stage = 5 /\ WaitSelector /\ stage \in BatchStages
        /\ stage \in 1..NumStages /\ UNCHANGED phase
    BY <1>1 DEF ProcessWaitForJobsRequiredNodes, BatchStages, NumStages,
       nodeVars
  <2>2. QED
    BY <1>1, <2>1, PhaseClasses, ScheduleStep, PlainAdvanceStep, FailStep
       DEF ProcessWaitForJobsRequiredNodes, Schedule, Fail, EndPass, JobKinds
<1>2. CASE ProcessPodDeletionRequiredNodes
  <2>1. stage = 6 /\ stage \in BatchStages
        /\ stage \in 1..NumStages /\ UNCHANGED phase
    BY <1>2 DEF ProcessPodDeletionRequiredNodes, BatchStages, NumStages,
       nodeVars
  <2>2. QED
    BY <1>2, <2>1, PhaseClasses, ScheduleStep, PlainAdvanceStep, FailStep
       DEF ProcessPodDeletionRequiredNodes, Schedule, Fail, EndPass, JobKinds
<1>3. CASE ProcessDrainNodes
  <2>1. stage = 7 /\ DrainEnable /\ stage \in BatchStages
        /\ stage \in 1..NumStages /\ UNCHANGED phase
    BY <1>3 DEF ProcessDrainNodes, BatchStages, NumStages, nodeVars
  <2>2. QED
    BY <1>3, <2>1, PhaseClasses, ScheduleStep, FailStep
       DEF ProcessDrainNodes, Schedule, Fail, EndPass, JobKinds
<1>4. QED
  BY <1>1, <1>2, <1>3

(* ApplyState establishes the pass part of the invariant: its snapshot is  *)
(* exact and the slots it counts fill MaxParallelUpgrades.                 *)
LEMMA ApplyStateStep ==
    ASSUME SlotInv, TypeOK', ApplyState
    PROVE  SlotInv'
<1>1. UNCHANGED <<phase, jobs>> /\ stage' = 1
  BY DEF ApplyState, nodeVars
<1>2. JobsMatchPhase' /\ JobsAllowed' /\ SlotBound'
  BY <1>1 DEF SlotInv, JobsMatchPhase, JobsAllowed, SlotBound,
     InProgressNodes
<1>3. LimitBound'
  <2>1. Cardinality(InProgressNodes) \in Nat
    BY InProgressFinite DEF InProgressNodes
  <2>2. MaxParallelUpgrades > 0 =>
           limit' = MaxParallelUpgrades - Cardinality(InProgressNodes)
    BY DEF ApplyState, InProgressNodes
  <2>3. InProgressNodes' = InProgressNodes
    BY <1>1 DEF InProgressNodes
  <2>4. QED
    BY <1>1, <2>1, <2>2, <2>3, ConstAssumption
       DEF SlotInv, SlotBound, LimitBound
<1>4. SnapshotExact'
  <2>1. \A n \in Node : snap'[n].phase = phase[n]
    BY DEF ApplyState
  <2>2. todo' = {n \in Node : snap'[n].phase = StageOrder[1]}
    BY <2>1, PhaseClasses DEF ApplyState
  <2>3. 1 \notin BatchStages
    BY PhaseClasses
  <2>4. QED
    BY <1>1, <2>1, <2>2, <2>3 DEF SnapshotExact, NodeStates, NumStages
<1>5. QED
  BY <1>2, <1>3, <1>4 DEF SlotInv

(* The steps of a pass that write no upgrade state and schedule no job:    *)
(* the end of a looping processor, the end of the pass and                 *)
(* SchedulePodsRestart.                                                    *)
LEMMA ControlStep ==
    ASSUME SlotInv, TypeOK', FinishStage \/ FinishPass \/ SchedulePodsRestart
    PROVE  SlotInv'
<1>1. CASE FinishStage
  <2>1. stage \in 1..NumStages
    BY <1>1 DEF FinishStage, LoopStages, NumStages
  <2>2. QED
    BY <1>1, <2>1, PlainAdvanceStep DEF FinishStage, nodeVars, envVars
<1>2. CASE FinishPass
  BY <1>2, FailStep DEF FinishPass, EndPass, nodeVars, envVars
<1>3. CASE SchedulePodsRestart
  <2>1. stage \in 1..NumStages /\ UNCHANGED <<phase, jobs>>
    BY <1>3 DEF SchedulePodsRestart, NumStages, nodeVars, envVars
  <2>2. QED
    BY <1>3, <2>1, PlainAdvanceStep, FailStep
       DEF SchedulePodsRestart, Fail, EndPass
<1>4. QED
  BY <1>1, <1>2, <1>3

(* With the other phase writers confined to the time between passes, a    *)
(* collaborator job keeps the invariant.                                   *)
LEMMA EnvJobStep ==
    ASSUME ~EnvDuringPass, SlotInv, TypeOK', NEW n \in Node,
           PodCompletionJob(n) \/ PodEvictionJob(n) \/ DrainJob(n)
    PROVE  SlotInv'
<1>1. CASE PodCompletionJob(n)
  BY <1>1, PhaseClasses, JobStep
     DEF PodCompletionJob, EnvMayAct, JobKinds, passVars
<1>2. CASE PodEvictionJob(n)
  BY <1>2, PhaseClasses, JobStep DEF PodEvictionJob, EnvMayAct, JobKinds
<1>3. CASE DrainJob(n)
  BY <1>3, PhaseClasses, JobStep DEF DrainJob, EnvMayAct, JobKinds
<1>4. QED
  BY <1>1, <1>2, <1>3

-----------------------------------------------------------------------------
(* The slot bound.                                                         *)

(* Every step keeps SlotInv when the administrator and the collaborators'  *)
(* jobs write upgrade states only between ApplyState calls.                *)
LEMMA SlotStep ==
    ASSUME ~EnvDuringPass
    PROVE  SlotInv /\ [Next]_vars => SlotInv'
<1> SUFFICES ASSUME SlotInv, [Next]_vars PROVE SlotInv'
  OBVIOUS
<1>1. TypeOK'
  BY TypeStep DEF SlotInv
<1>2. CASE ApplyState
  BY <1>1, <1>2, ApplyStateStep
<1>3. CASE FinishStage \/ FinishPass \/ SchedulePodsRestart
  BY <1>1, <1>3, ControlStep
<1>4. CASE \/ ProcessWaitForJobsRequiredNodes
           \/ ProcessPodDeletionRequiredNodes
           \/ ProcessDrainNodes
  BY <1>1, <1>4, BatchStep
<1>5. ASSUME NEW n \in Node,
             \/ ProcessDoneOrUnknownNode(n)
             \/ ProcessUpgradeRequiredNode(n)
             \/ ProcessCordonRequiredNode(n)
             \/ ProcessWaitForJobsRequiredNode(n)
             \/ ProcessDrainNode(n)
             \/ ProcessPodRestartNode(n)
             \/ ProcessUpgradeFailedNode(n)
             \/ ProcessUncordonRequiredNode(n)
      PROVE  SlotInv'
  BY <1>1, <1>5, DoneOrUnknownStep, UpgradeRequiredStep, CordonStep,
     WaitNodeStep, DrainNodeStep, PodRestartStep, UpgradeFailedStep,
     UncordonStep
<1>6. ASSUME NEW n \in Node,
             PodCompletionJob(n) \/ PodEvictionJob(n) \/ DrainJob(n)
      PROVE  SlotInv'
  BY <1>1, <1>6, EnvJobStep
<1>7. CASE \/ UpdateDaemonSet
           \/ \E n \in Node :
                 \/ \E b \in BOOLEAN : SetNodeSchedulable(n, b)
                 \/ RecreateDriverPod(n)
                 \/ DriverPodReady(n)
           \/ UNCHANGED vars
  BY <1>1, <1>7, FrameStep
     DEF UpdateDaemonSet, SetNodeSchedulable, RecreateDriverPod,
     DriverPodReady, vars, nodeVars, envVars
<1>8. QED
  BY <1>2, <1>3, <1>4, <1>5, <1>6, <1>7 DEF Next, Pass, Environment

(* The initial cluster satisfies SlotInv: no node is in progress, no job   *)
(* is pending and no pass runs.                                            *)
LEMMA SlotInit == Init => SlotInv
<1> SUFFICES ASSUME Init PROVE SlotInv
  OBVIOUS
<1>1. TypeOK
  BY ConstAssumption, PhaseFacts DEF Init, TypeOK, NumStages
<1>2. InProgressNodes = {}
  BY PhaseClasses DEF Init, InProgressNodes
<1>3. QED
  BY <1>1, <1>2, FS_EmptySet, ConstAssumption
     DEF Init, SlotInv, JobsMatchPhase, JobsAllowed, SlotBound, LimitBound,
     SnapshotExact

(* SlotInv holds in every reachable state when the administrator and the   *)
(* collaborators' jobs act only between passes.                            *)
THEOREM SlotInvariant ==
    ASSUME ~EnvDuringPass PROVE Spec => []SlotInv
  BY SlotInit, SlotStep, PTL DEF Spec

(* The concurrency cap of ApplyState (upgradesInProgress and the limit of  *)
(* ProcessUpgradeRequiredNodes): when ApplyState is the only writer of     *)
(* upgrade states during a pass, never more than MaxParallelUpgrades nodes *)
(* are in an upgrade, for every number of nodes and every policy.          *)
THEOREM SlotBoundHolds ==
    ASSUME ~EnvDuringPass PROVE Spec => []SlotBound
<1>1. SlotInv => SlotBound
  BY DEF SlotInv
<1>2. QED
  BY SlotInvariant, <1>1, PTL


(* When jobs end only between passes, every pending collaborator job       *)
(* belongs to a node still in the phase the job was scheduled for, so the  *)
(* job's blind phase write never rewinds or revives a node.                *)
THEOREM JobsMatchPhaseHolds ==
    ASSUME ~EnvDuringPass PROVE Spec => []JobsMatchPhase
<1>1. SlotInv => JobsMatchPhase
  BY DEF SlotInv
<1>2. QED
  BY SlotInvariant, <1>1, PTL
=============================================================================
