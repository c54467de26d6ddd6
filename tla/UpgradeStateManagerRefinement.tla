--------------------- MODULE UpgradeStateManagerRefinement ---------------------
(***************************************************************************)
(* The state manager implements the per-node lifecycle of UpgradeLifecycle *)
(* under the refinement mapping that reads each node's life off its phase: *)
(* every ApplyState step, collaborator job and environment step is a       *)
(* lifecycle step or leaves every node's life as it was.                   *)
(***************************************************************************)
EXTENDS UpgradeStateManagerProofs

(* The lifecycle stage a node's upgrade-state annotation stands for.       *)
LifeOf(p) ==
    IF p \in {UpgradeStateUnknown, UpgradeStateDone} THEN "idle"
    ELSE IF p = UpgradeStateUpgradeRequired THEN "queued"
    ELSE "upgrading"

lifeBar == [n \in Node |-> LifeOf(phase[n])]

Lifecycle == INSTANCE UpgradeLifecycle WITH life <- lifeBar

(* The state manager, the collaborators' jobs and the environment together *)
(* behave as the lifecycle allows: a node is queued only from Unknown or   *)
(* Done, starts only through ProcessUpgradeRequiredNodes, within the slot  *)
(* cap and without the skip label, and a job never moves a node out of or  *)
(* into an upgrade.                                                        *)
LifecycleSpec == Lifecycle!Spec


-----------------------------------------------------------------------------
(* The mapping.                                                            *)

(* Each phase stands for exactly one lifecycle stage: Unknown and Done are *)
(* idle, UpgradeRequired is queued, the phases of upgradesInProgress are   *)
(* upgrading.                                                              *)
LEMMA LifeOfPhase ==
    ASSUME NEW p \in Phases
    PROVE  /\ LifeOf(p) \in {"idle", "queued", "upgrading"}
           /\ LifeOf(p) = "idle" <=> p \in {UpgradeStateUnknown, UpgradeStateDone}
           /\ LifeOf(p) = "queued" <=> p = UpgradeStateUpgradeRequired
           /\ LifeOf(p) = "upgrading" <=> p \in InProgressPhases
  BY DEF LifeOf, Phases, StageOrder, NumStages, InProgressPhases,
     UpgradeStateUnknown, UpgradeStateDone, UpgradeStateUpgradeRequired,
     UpgradeStateCordonRequired, UpgradeStateWaitForJobsRequired,
     UpgradeStatePodDeletionRequired, UpgradeStateDrainRequired,
     UpgradeStatePodRestartRequired, UpgradeStateFailed,
     UpgradeStateUncordonRequired

(* The lifecycle's upgrading nodes are the nodes counted in                *)
(* upgradesInProgress.                                                     *)
LEMMA UpgradingIsInProgress ==
    ASSUME phase \in [Node -> Phases]
    PROVE  Lifecycle!UpgradingNodes = InProgressNodes
<1>1. \A m \in Node : lifeBar[m] = "upgrading" <=> phase[m] \in InProgressPhases
  BY LifeOfPhase DEF lifeBar
<1>2. QED
  BY <1>1 DEF Lifecycle!UpgradingNodes, Lifecycle!Upgrading, InProgressNodes

(* The lifecycle counts its upgrading nodes with the same Cardinality.     *)
LEMMA SameCardinality ==
    ASSUME NEW S PROVE Lifecycle!Cardinality(S) = Cardinality(S)
  BY DEF Lifecycle!Cardinality, Cardinality

(* A step that writes one node's phase changes that node's life only.      *)
LEMMA LifeWrite ==
    ASSUME phase \in [Node -> Phases], NEW n \in Node, NEW p \in Phases,
           phase' = [phase EXCEPT ![n] = p]
    PROVE  lifeBar' = [lifeBar EXCEPT ![n] = LifeOf(p)]
  BY DEF lifeBar

(* A write of one node's phase is a lifecycle step or a stutter when it    *)
(* stays within a stage, queues an idle node, starts a queued node without *)
(* the skip label within the cap, or ends an upgrade.                      *)
LEMMA MoveRefines ==
    ASSUME phase \in [Node -> Phases], NEW n \in Node, NEW p \in Phases,
           phase' = [phase EXCEPT ![n] = p],
           \/ LifeOf(p) = LifeOf(phase[n])
           \/ /\ phase[n] \in {UpgradeStateUnknown, UpgradeStateDone}
              /\ p = UpgradeStateUpgradeRequired
           \/ /\ phase[n] = UpgradeStateUpgradeRequired
              /\ p \in InProgressPhases
              /\ n \notin SkipNodes
              /\ \/ MaxParallelUpgrades = 0
                 \/ Cardinality(InProgressNodes) < MaxParallelUpgrades
           \/ phase[n] \in InProgressPhases /\ p = UpgradeStateDone
    PROVE  [Lifecycle!Next]_lifeBar
<1>1. lifeBar' = [lifeBar EXCEPT ![n] = LifeOf(p)]
  BY LifeWrite
<1>2. lifeBar[n] = LifeOf(phase[n])
  BY DEF lifeBar
<1>3. CASE LifeOf(p) = LifeOf(phase[n])
  BY <1>1, <1>2, <1>3 DEF lifeBar
<1>4. CASE phase[n] \in {UpgradeStateUnknown, UpgradeStateDone}
           /\ p = UpgradeStateUpgradeRequired
  <2>1. lifeBar[n] = "idle" /\ LifeOf(p) = "queued"
    BY <1>2, <1>4, LifeOfPhase
  <2>2. Lifecycle!Request(n)
    BY <1>1, <2>1 DEF Lifecycle!Request, Lifecycle!Idle, Lifecycle!Queued
  <2>3. QED
    BY <2>2 DEF Lifecycle!Next
<1>5. CASE /\ phase[n] = UpgradeStateUpgradeRequired
           /\ p \in InProgressPhases
           /\ n \notin SkipNodes
           /\ \/ MaxParallelUpgrades = 0
              \/ Cardinality(InProgressNodes) < MaxParallelUpgrades
  <2>1. lifeBar[n] = "queued" /\ LifeOf(p) = "upgrading"
    BY <1>2, <1>5, LifeOfPhase
  <2>2. Lifecycle!Start(n)
    BY <1>1, <1>5, <2>1, UpgradingIsInProgress, SameCardinality
    DEF Lifecycle!Start, Lifecycle!Queued, Lifecycle!Upgrading
  <2>3. QED
    BY <2>2 DEF Lifecycle!Next
<1>6. CASE phase[n] \in InProgressPhases /\ p = UpgradeStateDone
  <2>1. lifeBar[n] = "upgrading" /\ LifeOf(p) = "idle"
    BY <1>2, <1>6, LifeOfPhase
  <2>2. Lifecycle!Finish(n)
    BY <1>1, <2>1 DEF Lifecycle!Finish, Lifecycle!Idle, Lifecycle!Upgrading
  <2>3. QED
    BY <2>2 DEF Lifecycle!Next
<1>7. QED
  BY <1>3, <1>4, <1>5, <1>6

(* A step that leaves every phase alone leaves every life alone.           *)
LEMMA StutterRefines ==
    ASSUME phase' = phase PROVE [Lifecycle!Next]_lifeBar
  BY DEF lifeBar

(* A step that writes one node's phase from one upgrading phase to         *)
(* another, or leaves it, stutters on the lifecycle.                       *)
LEMMA InProgressMove ==
    ASSUME phase \in [Node -> Phases], NEW n \in Node,
           phase[n] \in InProgressPhases, NEW p \in InProgressPhases,
           phase' = phase \/ phase' = [phase EXCEPT ![n] = p]
    PROVE  [Lifecycle!Next]_lifeBar
<1>1. p \in Phases
  BY PhaseFacts DEF InProgressPhases
<1>2. LifeOf(p) = "upgrading" /\ LifeOf(phase[n]) = "upgrading"
  BY <1>1, LifeOfPhase
<1>3. QED
  BY <1>1, <1>2, MoveRefines, StutterRefines

-----------------------------------------------------------------------------
(* Each action of the state manager is a lifecycle step or a stutter.      *)

(* The processor's node has the phase of the processor's list.             *)
LEMMA VisitedPhase ==
    ASSUME SlotInv, NEW n \in Node, n \in todo, stage \in 1..NumStages
    PROVE  phase[n] = StageOrder[stage] /\ phase \in [Node -> Phases]
  BY TodoPhase DEF SlotInv, TypeOK

(* ProcessDoneOrUnknownNodes queues an idle node or keeps it idle.         *)
LEMMA DoneOrUnknownRefines ==
    ASSUME SlotInv, NEW n \in Node, ProcessDoneOrUnknownNode(n)
    PROVE  [Lifecycle!Next]_lifeBar
<1>1. phase[n] \in {UpgradeStateUnknown, UpgradeStateDone}
      /\ phase \in [Node -> Phases]
  BY VisitedPhase, PhaseClasses DEF ProcessDoneOrUnknownNode, NumStages
<1>2. \/ phase' = phase
      \/ phase' = [phase EXCEPT ![n] = UpgradeStateUpgradeRequired]
      \/ phase' = [phase EXCEPT ![n] = UpgradeStateDone]
  BY DEF ProcessDoneOrUnknownNode, Fail, nodeVars
<1>3. LifeOf(UpgradeStateDone) = LifeOf(phase[n])
  BY <1>1, PhaseFacts, LifeOfPhase
<1>4. QED
  BY <1>1, <1>2, <1>3, PhaseFacts, MoveRefines, StutterRefines

(* ProcessUpgradeRequiredNodes starts a queued node without the skip label *)
(* only while upgradesAvailable is positive, which by LimitBound leaves    *)
(* the nodes in progress below the cap.                                    *)
LEMMA UpgradeRequiredRefines ==
    ASSUME SlotInv, NEW n \in Node, ProcessUpgradeRequiredNode(n)
    PROVE  [Lifecycle!Next]_lifeBar
<1>1. (stage = 3 /\ n \in todo /\ limit > 0 /\ n \notin SkipNodes) \/ phase' = phase
  BY DEF ProcessUpgradeRequiredNode, HasSlot, SkipNodeUpgrade, Fail,
     Continue, nodeVars
<1>2. CASE phase' = phase
  BY <1>2, StutterRefines
<1>3. CASE phase' # phase
  <2>1. stage = 3 /\ n \in todo /\ limit > 0 /\ n \notin SkipNodes
    BY <1>1, <1>3
  <2>2. phase[n] = UpgradeStateUpgradeRequired /\ phase \in [Node -> Phases]
    BY <2>1, VisitedPhase, PhaseClasses DEF NumStages
  <2>3. phase' = [phase EXCEPT ![n] = UpgradeStateCordonRequired]
    BY <1>3, <2>1 DEF ProcessUpgradeRequiredNode, Fail, Continue, nodeVars
  <2>4. MaxParallelUpgrades = 0
          \/ Cardinality(InProgressNodes) < MaxParallelUpgrades
    <3>1. Cardinality(InProgressNodes) \in Nat
      BY CountType DEF InProgressNodes
    <3>2. MaxParallelUpgrades > 0
            => Cardinality(InProgressNodes) + limit <= MaxParallelUpgrades
      BY <2>1 DEF SlotInv, LimitBound
    <3>3. QED
      <4>1. limit \in Int /\ MaxParallelUpgrades \in Nat
        BY ConstAssumption DEF SlotInv, TypeOK
      <4>2. QED
        BY <2>1, <3>1, <3>2, <4>1
  <2>5. QED
    BY <2>1, <2>2, <2>3, <2>4, PhaseFacts, PhaseClasses, MoveRefines
<1>4. QED
  BY <1>2, <1>3

(* The end of an upgrade ends the node's upgrade or keeps it upgrading.    *)
LEMMA FinishUpgradeRefines ==
    ASSUME phase \in [Node -> Phases], NEW n \in Node,
           phase[n] \in InProgressPhases, FinishUpgrade(n)
    PROVE  [Lifecycle!Next]_lifeBar
<1>1. \/ phase' = [phase EXCEPT ![n] = UpgradeStateUncordonRequired]
      \/ phase' = [phase EXCEPT ![n] = UpgradeStateDone]
  BY DEF FinishUpgrade
<1>2. CASE phase' = [phase EXCEPT ![n] = UpgradeStateDone]
  BY <1>2, PhaseFacts, MoveRefines
<1>3. QED
  BY <1>1, <1>2, PhaseClasses, InProgressMove

(* The processors of the in-progress phases move a node between upgrading  *)
(* phases or end its upgrade.                                              *)
LEMMA InProgressNodeRefines ==
    ASSUME SlotInv, NEW n \in Node,
           \/ ProcessCordonRequiredNode(n)
           \/ ProcessWaitForJobsRequiredNode(n)
           \/ ProcessDrainNode(n)
           \/ ProcessPodRestartNode(n)
           \/ ProcessUpgradeFailedNode(n)
           \/ ProcessUncordonRequiredNode(n)
    PROVE  [Lifecycle!Next]_lifeBar
<1>1. n \in todo /\ stage \in 4..NumStages
  BY DEF ProcessCordonRequiredNode, ProcessWaitForJobsRequiredNode,
     ProcessDrainNode, ProcessPodRestartNode, ProcessUpgradeFailedNode,
     ProcessUncordonRequiredNode, NumStages
<1>2. phase[n] \in InProgressPhases /\ phase \in [Node -> Phases]
  <2>1. phase[n] = StageOrder[stage] /\ phase \in [Node -> Phases]
    BY <1>1, VisitedPhase DEF NumStages
  <2>2. \A i \in 4..NumStages : StageOrder[i] \in InProgressPhases
    BY PhaseClasses DEF NumStages
  <2>3. QED
    BY <1>1, <2>1, <2>2
<1>3. CASE ProcessCordonRequiredNode(n)
  <2>1. \/ phase' = phase
        \/ phase' = [phase EXCEPT ![n] = UpgradeStateWaitForJobsRequired]
    BY <1>3 DEF ProcessCordonRequiredNode, Fail, nodeVars
  <2>2. QED
    BY <1>2, <2>1, PhaseClasses, InProgressMove
<1>4. CASE ProcessWaitForJobsRequiredNode(n)
  <2>1. \/ phase' = phase
        \/ phase' = [phase EXCEPT ![n] = UpgradeStatePodDeletionRequired]
    BY <1>4 DEF ProcessWaitForJobsRequiredNode, Continue
  <2>2. QED
    BY <1>2, <2>1, PhaseClasses, InProgressMove
<1>5. CASE ProcessDrainNode(n)
  <2>1. \/ phase' = phase
        \/ phase' = [phase EXCEPT ![n] = UpgradeStatePodRestartRequired]
    BY <1>5 DEF ProcessDrainNode
  <2>2. QED
    BY <1>2, <2>1, PhaseClasses, InProgressMove
<1>6. CASE ProcessPodRestartNode(n)
  <2>1. phase' = phase \/ FinishUpgrade(n)
    BY <1>6 DEF ProcessPodRestartNode, Continue, nodeVars
  <2>2. QED
    BY <1>2, <2>1, StutterRefines, FinishUpgradeRefines
<1>7. CASE ProcessUpgradeFailedNode(n)
  <2>1. phase' = phase \/ FinishUpgrade(n)
    BY <1>7 DEF ProcessUpgradeFailedNode, Continue, nodeVars
  <2>2. QED
    BY <1>2, <2>1, StutterRefines, FinishUpgradeRefines
<1>8. CASE ProcessUncordonRequiredNode(n)
  <2>1. \/ phase' = phase
        \/ phase' = [phase EXCEPT ![n] = UpgradeStateDone]
    BY <1>8 DEF ProcessUncordonRequiredNode, Fail, Continue, nodeVars
  <2>2. QED
    BY <1>2, <2>1, PhaseFacts, MoveRefines, StutterRefines
<1>9. QED
  BY <1>3, <1>4, <1>5, <1>6, <1>7, <1>8

(* A collaborator job moves its node between upgrading phases: by          *)
(* JobsMatchPhase the node is still in the phase the job was scheduled for.*)
LEMMA JobRefines ==
    ASSUME SlotInv, NEW n \in Node,
           PodCompletionJob(n) \/ PodEvictionJob(n) \/ DrainJob(n)
    PROVE  [Lifecycle!Next]_lifeBar
<1>1. phase \in [Node -> Phases]
  BY DEF SlotInv, TypeOK
<1>2. CASE PodCompletionJob(n)
  <2>1. phase[n] = UpgradeStateWaitForJobsRequired
    BY <1>2 DEF SlotInv, JobsMatchPhase, PodCompletionJob
  <2>2. QED
    BY <1>1, <1>2, <2>1, PhaseClasses, InProgressMove DEF PodCompletionJob
<1>3. CASE PodEvictionJob(n)
  <2>1. phase[n] = UpgradeStatePodDeletionRequired
    BY <1>3 DEF SlotInv, JobsMatchPhase, PodEvictionJob
  <2>2. \/ phase' = [phase EXCEPT ![n] = UpgradeStateDrainRequired]
        \/ phase' = [phase EXCEPT ![n] = UpgradeStateFailed]
    BY <1>3 DEF PodEvictionJob
  <2>3. QED
    BY <1>1, <2>1, <2>2, PhaseClasses, InProgressMove
<1>4. CASE DrainJob(n)
  <2>1. phase[n] = UpgradeStateDrainRequired
    BY <1>4 DEF SlotInv, JobsMatchPhase, DrainJob
  <2>2. \/ phase' = [phase EXCEPT ![n] = UpgradeStatePodRestartRequired]
        \/ phase' = [phase EXCEPT ![n] = UpgradeStateFailed]
    BY <1>4 DEF DrainJob
  <2>3. QED
    BY <1>1, <2>1, <2>2, PhaseClasses, InProgressMove
<1>5. QED
  BY <1>2, <1>3, <1>4

(* Every step of the state manager and its environment, from a state of   *)
(* the inductive invariant, is a lifecycle step or a lifecycle stutter.    *)
LEMMA RefineStep ==
    ASSUME SlotInv, [Next]_vars PROVE [Lifecycle!Next]_lifeBar
<1>1. CASE UNCHANGED vars
  BY <1>1, StutterRefines DEF vars, nodeVars
<1>2. CASE \/ ApplyState \/ FinishStage \/ FinishPass
           \/ ProcessWaitForJobsRequiredNodes \/ ProcessPodDeletionRequiredNodes
           \/ ProcessDrainNodes \/ SchedulePodsRestart
  <2>1. phase' = phase
    BY <1>2 DEF ApplyState, FinishStage, FinishPass,
       ProcessWaitForJobsRequiredNodes, ProcessPodDeletionRequiredNodes,
       ProcessDrainNodes, SchedulePodsRestart, nodeVars
  <2>2. QED
    BY <2>1, StutterRefines
<1>3. ASSUME NEW n \in Node,
             \/ ProcessDoneOrUnknownNode(n)
             \/ ProcessUpgradeRequiredNode(n)
             \/ ProcessCordonRequiredNode(n)
             \/ ProcessWaitForJobsRequiredNode(n)
             \/ ProcessDrainNode(n)
             \/ ProcessPodRestartNode(n)
             \/ ProcessUpgradeFailedNode(n)
             \/ ProcessUncordonRequiredNode(n)
      PROVE  [Lifecycle!Next]_lifeBar
  BY <1>3, DoneOrUnknownRefines, UpgradeRequiredRefines, InProgressNodeRefines
<1>4. CASE \/ UpdateDaemonSet
           \/ \E n \in Node : \/ \E b \in BOOLEAN : SetNodeSchedulable(n, b)
                              \/ RecreateDriverPod(n)
                              \/ DriverPodReady(n)
  <2>1. phase' = phase
    BY <1>4 DEF UpdateDaemonSet, SetNodeSchedulable, RecreateDriverPod,
       DriverPodReady, nodeVars
  <2>2. QED
    BY <2>1, StutterRefines
<1>5. ASSUME NEW n \in Node,
             PodCompletionJob(n) \/ PodEvictionJob(n) \/ DrainJob(n)
      PROVE  [Lifecycle!Next]_lifeBar
  BY <1>5, JobRefines
<1>6. QED
  BY <1>1, <1>2, <1>3, <1>4, <1>5 DEF Next, Pass, Environment

(* A fresh cluster is idle everywhere.                                     *)
LEMMA RefineInit == Init => Lifecycle!Init
  BY DEF Init, Lifecycle!Init, Lifecycle!Idle, lifeBar, LifeOf, UpgradeStateUnknown, UpgradeStateDone

(* The state manager implements the lifecycle (LifecycleSpec, checked by   *)
(* TLC in the refine run) for every finite node set and every policy,      *)
(* when the administrator and the collaborators' jobs act only between     *)
(* passes: a node is queued only from Unknown or Done, started only by     *)
(* ProcessUpgradeRequiredNodes within the cap and without the skip label,  *)
(* and never moved into or out of an upgrade by a job.                     *)
THEOREM Refinement ==
    ASSUME ~EnvDuringPass PROVE Spec => LifecycleSpec
<1>1. SlotInv /\ [Next]_vars => [Lifecycle!Next]_lifeBar
  BY RefineStep
<1>2. Spec => []SlotInv
  BY SlotInvariant
<1>3. QED
  BY <1>1, <1>2, RefineInit, PTL DEF Spec, LifecycleSpec, Lifecycle!Spec
=============================================================================
