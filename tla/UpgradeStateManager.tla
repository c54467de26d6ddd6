------------------------- MODULE UpgradeStateManager -------------------------
(***************************************************************************)
(* The cluster upgrade state machine of pkg/upgrade/upgrade_state.go:      *)
(* ClusterUpgradeStateManager.ApplyState and its phase processors, run     *)
(* against a cluster whose other writers (the administrator, the           *)
(* DaemonSet controller and the asynchronous jobs of the pod and drain     *)
(* managers) are modelled as environment actions.                          *)
(*                                                                         *)
(* One reconciliation pass is a sequence of steps: ApplyState takes the    *)
(* snapshot (the ClusterUpgradeState the caller built) and computes the    *)
(* slot limit, then every phase processor runs in the order of the code,   *)
(* one step per node of its list, and a collaborator error ends the pass.  *)
(* The processors read the node, pod and phase from the snapshot and write *)
(* the live cluster, exactly as the code reads nodeState.* and writes      *)
(* through NodeUpgradeStateProvider and CordonManager.                     *)
(***************************************************************************)
EXTENDS Naturals, Integers, FiniteSets

CONSTANTS
    Node,                 \* the cluster's nodes, one driver pod each
    SkipNodes,            \* nodes labelled to skip driver upgrades
    AutoUpgrade,          \* upgradePolicy.AutoUpgrade
    MaxParallelUpgrades,  \* upgradePolicy.MaxParallelUpgrades, 0 = unlimited
    WaitSelector,         \* WaitForCompletion.PodSelector is set
    DrainEnable,          \* DrainSpec.Enable
    ReusePolicy,          \* the caller passes the same policy object every pass
    MaxGen,               \* bound on DaemonSet generations
    MaxErrors,            \* bound on collaborator failures in a behaviour
    AdminPhases,          \* phases in which the administrator (un)cordons a node
    EnvDuringPass         \* other phase writers may act while a pass runs

-----------------------------------------------------------------------------
(* The node upgrade states (the values of the state annotation).           *)
UpgradeStateUnknown             == "unknown"
UpgradeStateDone                == "upgrade-done"
UpgradeStateUpgradeRequired     == "upgrade-required"
UpgradeStateCordonRequired      == "cordon-required"
UpgradeStateWaitForJobsRequired == "wait-for-jobs-required"
UpgradeStatePodDeletionRequired == "pod-deletion-required"
UpgradeStateDrainRequired       == "drain-required"
UpgradeStatePodRestartRequired  == "pod-restart-required"
UpgradeStateFailed              == "upgrade-failed"
UpgradeStateUncordonRequired    == "uncordon-required"

(* The processors in the order ApplyState calls them; stage i of a pass    *)
(* processes the nodes the snapshot lists under StageOrder[i].             *)
StageOrder == <<UpgradeStateUnknown, UpgradeStateDone,
                UpgradeStateUpgradeRequired, UpgradeStateCordonRequired,
                UpgradeStateWaitForJobsRequired,
                UpgradeStatePodDeletionRequired, UpgradeStateDrainRequired,
                UpgradeStatePodRestartRequired, UpgradeStateFailed,
                UpgradeStateUncordonRequired>>
NumStages == 10
Phases == {StageOrder[i] : i \in 1..NumStages}

ASSUME ConstAssumption ==
    /\ IsFiniteSet(Node)
    /\ SkipNodes \subseteq Node
    /\ AutoUpgrade \in BOOLEAN
    /\ MaxParallelUpgrades \in Nat
    /\ WaitSelector \in BOOLEAN
    /\ DrainEnable \in BOOLEAN
    /\ ReusePolicy \in BOOLEAN
    /\ MaxGen \in Nat \ {0}
    /\ MaxErrors \in Nat
    /\ AdminPhases \subseteq Phases
    /\ EnvDuringPass \in BOOLEAN

(* The phases counted in upgradesInProgress.                               *)
InProgressPhases ==
    {UpgradeStateCordonRequired, UpgradeStateDrainRequired,
     UpgradeStatePodRestartRequired, UpgradeStateWaitForJobsRequired,
     UpgradeStatePodDeletionRequired, UpgradeStateFailed,
     UpgradeStateUncordonRequired}

(* The asynchronous jobs the pod and drain managers run for a node.        *)
JobKinds == {"wait", "evict", "drain"}

SnapRec == [phase : Phases, unsched : BOOLEAN, marker : BOOLEAN,
            gen : 1..MaxGen, ready : BOOLEAN, term : BOOLEAN]
IdleRec == [phase |-> UpgradeStateUnknown, unsched |-> FALSE,
            marker |-> FALSE, gen |-> 1, ready |-> FALSE, term |-> FALSE]

-----------------------------------------------------------------------------
VARIABLES
    phase,     \* node -> upgrade state annotation
    marker,    \* node -> the initial-state (was unschedulable) annotation
    unsched,   \* node -> node.Spec.Unschedulable
    intent,    \* ghost: node -> the administrator wants it unschedulable
    podGen,    \* node -> template generation of its driver pod
    podReady,  \* node -> driver pod Running with every container ready
    podTerm,   \* node -> driver pod has a deletion timestamp
    dsGen,     \* generation of the driver DaemonSet
    jobs,      \* pending collaborator jobs, a set of <<kind, node>>
    drainSel,  \* skip-drain clauses appended to the policy's pod selector
    stage,     \* 0 = no pass running, else the processor being run
    todo,      \* nodes of the current processor's list not yet visited
    limit,     \* the upgrade slots left in this pass
    snap,      \* node -> the snapshot's view of the node and its pod
    snapGen,   \* the snapshot's DaemonSet generation
    restarts,  \* driver pods collected for SchedulePodsRestart
    errs       \* collaborator failures so far

nodeVars == <<phase, marker, unsched, intent>>
podVars  == <<podGen, podReady, podTerm, dsGen>>
envVars  == <<jobs, drainSel>>
passVars == <<stage, todo, limit, snap, snapGen, restarts, errs>>
vars     == <<nodeVars, podVars, envVars, passVars>>

TypeOK ==
    /\ phase \in [Node -> Phases]
    /\ marker \in [Node -> BOOLEAN]
    /\ unsched \in [Node -> BOOLEAN]
    /\ intent \in [Node -> BOOLEAN]
    /\ podGen \in [Node -> 1..MaxGen]
    /\ podReady \in [Node -> BOOLEAN]
    /\ podTerm \in [Node -> BOOLEAN]
    /\ dsGen \in 1..MaxGen
    /\ jobs \subseteq JobKinds \X Node
    /\ drainSel \in Nat
    /\ stage \in 0..NumStages
    /\ todo \subseteq Node
    /\ limit \in Int
    /\ snap \in [Node -> SnapRec]
    /\ snapGen \in 1..MaxGen
    /\ restarts \subseteq Node
    /\ errs \in 0..MaxErrors

-----------------------------------------------------------------------------
(* Reading the snapshot.                                                   *)

(* currentState.NodeStates[p]                                              *)
NodeStates(p) == {n \in Node : snap[n].phase = p}

(* GetPodTemplateGeneration(pod) # DriverDaemonSet.GetGeneration()         *)
GenMismatch(n) == snap[n].gen # snapGen

(* isDriverPodInSync: generation matches, pod Running, at least one        *)
(* container and every container ready (ready abstracts the last three).  *)
IsDriverPodInSync(n) == snap[n].gen = snapGen /\ snap[n].ready

(* Mutant: the skip label is looked up under another key.                 *)
SkipNodeUpgradeNever(n) == FALSE

(* skipNodeUpgrade: the node carries the skip-upgrade label set to true.  *)
SkipNodeUpgrade(n) == n \in SkipNodes

(* Mutant: isNodeUnschedulable never reports a cordoned node.              *)
IsNodeUnschedulableNever(n) == FALSE

IsNodeUnschedulable(n) == snap[n].unsched

(* Mutant: the initial-state annotation is looked up under another key.    *)
HasInitialStateAnnotationNever(n) == FALSE

(* The node carries the initial-state annotation.                          *)
HasInitialStateAnnotation(n) == snap[n].marker

(* Mutant: the loop breaks only once the limit is negative.               *)
HasSlotOffByOne == limit >= 0

(* The loop of ProcessUpgradeRequiredNodes has not hit its limit.          *)
HasSlot == limit > 0

-----------------------------------------------------------------------------
(* Control of a pass.                                                      *)

EndPass ==
    /\ stage' = 0
    /\ todo' = {}
    /\ limit' = 0
    /\ snap' = [n \in Node |-> IdleRec]
    /\ snapGen' = 1
    /\ restarts' = {}

(* A collaborator call (or GetPodTemplateGeneration) returned an error:    *)
(* the processor returns it and ApplyState returns it at once.             *)
Fail == errs < MaxErrors /\ errs' = errs + 1 /\ EndPass

(* The processor goes on with the next node of its list.                   *)
Continue(n) ==
    /\ todo' = todo \ {n}
    /\ UNCHANGED <<stage, limit, snap, snapGen, restarts, errs>>

(* The processor returned nil: ApplyState calls the next one.              *)
Advance ==
    /\ stage < NumStages
    /\ stage' = stage + 1
    /\ todo' = NodeStates(StageOrder[stage + 1])
    /\ restarts' = {}
    /\ UNCHANGED <<limit, snap, snapGen, errs>>

(* Processors that loop over their list node by node.                      *)
LoopStages ==
    {1, 2, 3, 4, 9, 10} \cup (IF WaitSelector THEN {} ELSE {5})
                        \cup (IF DrainEnable THEN {} ELSE {7})

-----------------------------------------------------------------------------
(* ApplyState with AutoUpgrade set: take the snapshot, count the upgrades  *)
(* in progress and the slots available, and call the first processor.    *)
ApplyState ==
    /\ stage = 0
    /\ AutoUpgrade
    /\ snap' = [n \in Node |->
                  [phase |-> phase[n], unsched |-> unsched[n],
                   marker |-> marker[n], gen |-> podGen[n],
                   ready |-> podReady[n], term |-> podTerm[n]]]
    /\ snapGen' = dsGen
    /\ LET upgradesInProgress ==
             Cardinality({n \in Node : phase[n] \in InProgressPhases})
       IN limit' = IF MaxParallelUpgrades = 0
                     THEN Cardinality({n \in Node :
                                         phase[n] = UpgradeStateUpgradeRequired})
                     ELSE MaxParallelUpgrades - upgradesInProgress
    /\ stage' = 1
    /\ todo' = {n \in Node : phase[n] = UpgradeStateUnknown}
    /\ drainSel' = IF ReusePolicy THEN drainSel ELSE 0
    /\ UNCHANGED <<nodeVars, podVars, jobs, restarts, errs>>

(* A looping processor ran out of nodes (or, for UpgradeRequired, of       *)
(* slots: the loop breaks when limit <= 0).                                *)
FinishStage ==
    /\ stage \in LoopStages \ {NumStages}
    /\ todo = {} \/ (stage = 3 /\ ~HasSlot)
    /\ Advance
    /\ UNCHANGED <<nodeVars, podVars, envVars>>

(* Mutant: ApplyState does not return after the last processor.           *)
FinishPassNoReturn ==
    /\ stage = NumStages
    /\ todo = {}
    /\ stage' = stage + 1
    /\ UNCHANGED <<todo, limit, snap, snapGen, restarts, errs>>
    /\ UNCHANGED <<nodeVars, podVars, envVars>>

(* ProcessUncordonRequiredNodes, the last processor, returned nil, and so  *)
(* does ApplyState.                                                        *)
FinishPass ==
    /\ stage = NumStages
    /\ todo = {}
    /\ EndPass
    /\ UNCHANGED errs
    /\ UNCHANGED <<nodeVars, podVars, envVars>>

-----------------------------------------------------------------------------
(* ProcessDoneOrUnknownNodes, one node of the Unknown (stage 1) or Done    *)
(* (stage 2) list. An out-of-date driver pod sends the node to             *)
(* UpgradeRequired, first stamping the initial-state annotation when the   *)
(* node is unschedulable; an up-to-date Unknown node becomes Done.         *)
ProcessDoneOrUnknownNode(n) ==
    /\ stage \in {1, 2}
    /\ n \in todo
    /\ LET stamped == [marker EXCEPT ![n] = @ \/ IsNodeUnschedulable(n)]
       IN \/ /\ Fail
             /\ UNCHANGED <<nodeVars, podVars, envVars>>
          \/ /\ GenMismatch(n)
             /\ marker' = stamped
             /\ \/ Fail /\ UNCHANGED phase
                \/ /\ phase' = [phase EXCEPT ![n] = UpgradeStateUpgradeRequired]
                   /\ Continue(n)
             /\ UNCHANGED <<unsched, intent, podVars, envVars>>
          \/ /\ ~GenMismatch(n)
             /\ phase' = IF stage = 1
                           THEN [phase EXCEPT ![n] = UpgradeStateDone]
                           ELSE phase
             /\ Continue(n)
             /\ UNCHANGED <<marker, unsched, intent, podVars, envVars>>

(* ProcessUpgradeRequiredNodes, one node while slots remain: a skipped     *)
(* node is passed over, any other takes a slot and becomes CordonRequired. *)
ProcessUpgradeRequiredNode(n) ==
    /\ stage = 3
    /\ n \in todo
    /\ HasSlot
    /\ \/ /\ SkipNodeUpgrade(n)
          /\ Continue(n)
          /\ UNCHANGED <<nodeVars, podVars, envVars>>
       \/ /\ ~SkipNodeUpgrade(n)
          /\ Fail
          /\ UNCHANGED <<nodeVars, podVars, envVars>>
       \/ /\ ~SkipNodeUpgrade(n)
          /\ phase' = [phase EXCEPT ![n] = UpgradeStateCordonRequired]
          /\ limit' = limit - 1
          /\ todo' = todo \ {n}
          /\ UNCHANGED <<marker, unsched, intent, podVars, envVars>>
          /\ UNCHANGED <<stage, snap, snapGen, restarts, errs>>

(* Mutant: the state is recorded before the cordon call.                  *)
ProcessCordonRequiredNodeSwapped(n) ==
    /\ stage = 4
    /\ n \in todo
    /\ \/ /\ Fail
          /\ UNCHANGED <<nodeVars, podVars, envVars>>
       \/ /\ phase' = [phase EXCEPT ![n] = UpgradeStateWaitForJobsRequired]
          /\ \/ Fail /\ UNCHANGED unsched
             \/ unsched' = [unsched EXCEPT ![n] = TRUE] /\ Continue(n)
          /\ UNCHANGED <<marker, intent, podVars, envVars>>

(* ProcessCordonRequiredNodes, one node: cordon it, then record            *)
(* WaitForJobsRequired.                                                    *)
ProcessCordonRequiredNode(n) ==
    /\ stage = 4
    /\ n \in todo
    /\ \/ /\ Fail
          /\ UNCHANGED <<nodeVars, podVars, envVars>>
       \/ /\ unsched' = [unsched EXCEPT ![n] = TRUE]
          /\ \/ Fail /\ UNCHANGED phase
             \/ /\ phase' = [phase EXCEPT ![n] = UpgradeStateWaitForJobsRequired]
                /\ Continue(n)
          /\ UNCHANGED <<marker, intent, podVars, envVars>>

(* ProcessWaitForJobsRequiredNodes without a pod selector, one node: the   *)
(* node moves on to PodDeletionRequired and an error of the write is       *)
(* discarded.                                                              *)
ProcessWaitForJobsRequiredNode(n) ==
    /\ stage = 5
    /\ ~WaitSelector
    /\ n \in todo
    /\ \/ /\ phase' = [phase EXCEPT ![n] = UpgradeStatePodDeletionRequired]
          /\ Continue(n)
       \/ /\ errs < MaxErrors
          /\ errs' = errs + 1
          /\ todo' = todo \ {n}
          /\ UNCHANGED <<phase, stage, limit, snap, snapGen, restarts>>
    /\ UNCHANGED <<marker, unsched, intent, podVars, envVars>>

(* Schedule one collaborator job per node of the list.                     *)
Schedule(kind, ns) == jobs' = jobs \cup ({kind} \X ns)

(* Mutant: the nodes are also moved on as if no selector were set.        *)
ProcessWaitForJobsRequiredNodesAlsoAdvance ==
    /\ stage = 5
    /\ WaitSelector
    /\ LET ns == NodeStates(UpgradeStateWaitForJobsRequired)
       IN \/ ns = {} /\ Advance /\ UNCHANGED <<jobs, phase>>
          \/ ns # {} /\ Fail /\ UNCHANGED <<jobs, phase>>
          \/ /\ ns # {}
             /\ Schedule("wait", ns)
             /\ phase' = [n \in Node |->
                            IF n \in ns THEN UpgradeStatePodDeletionRequired
                                        ELSE phase[n]]
             /\ Advance
    /\ UNCHANGED <<marker, unsched, intent, podVars, drainSel>>

(* ProcessWaitForJobsRequiredNodes with a pod selector: one                *)
(* ScheduleCheckOnPodCompletion call for the whole list, if non-empty.     *)
ProcessWaitForJobsRequiredNodes ==
    /\ stage = 5
    /\ WaitSelector
    /\ LET ns == NodeStates(UpgradeStateWaitForJobsRequired)
       IN \/ ns = {} /\ Advance /\ UNCHANGED jobs
          \/ ns # {} /\ Fail /\ UNCHANGED jobs
          \/ ns # {} /\ Schedule("wait", ns) /\ Advance
    /\ UNCHANGED <<nodeVars, podVars, drainSel>>

(* ProcessPodDeletionRequiredNodes: one SchedulePodEviction call for the   *)
(* whole list, if non-empty.                                               *)
ProcessPodDeletionRequiredNodes ==
    /\ stage = 6
    /\ LET ns == NodeStates(UpgradeStatePodDeletionRequired)
       IN \/ ns = {} /\ Advance /\ UNCHANGED jobs
          \/ ns # {} /\ Fail /\ UNCHANGED jobs
          \/ ns # {} /\ Schedule("evict", ns) /\ Advance
    /\ UNCHANGED <<nodeVars, podVars, drainSel>>

(* ProcessDrainNodes with drain disabled, one node: straight to            *)
(* PodRestartRequired.                                                     *)
ProcessDrainNode(n) ==
    /\ stage = 7
    /\ ~DrainEnable
    /\ n \in todo
    /\ \/ Fail /\ UNCHANGED phase
       \/ /\ phase' = [phase EXCEPT ![n] = UpgradeStatePodRestartRequired]
          /\ Continue(n)
    /\ UNCHANGED <<marker, unsched, intent, podVars, envVars>>

(* ProcessDrainNodes with drain enabled: append the skip-drain clause to   *)
(* the policy's own DrainSpec.PodSelector, then one ScheduleNodesDrain     *)
(* call for the whole list (made even when the list is empty).             *)
ProcessDrainNodes ==
    /\ stage = 7
    /\ DrainEnable
    /\ drainSel' = drainSel + 1
    /\ \/ Fail /\ UNCHANGED jobs
       \/ Schedule("drain", NodeStates(UpgradeStateDrainRequired)) /\ Advance
    /\ UNCHANGED <<nodeVars, podVars>>

(* The end of an upgrade, shared by ProcessPodRestartNodes and             *)
(* ProcessUpgradeFailedNodes: an in-sync node goes to UncordonRequired,    *)
(* or, when it carries the initial-state annotation, to Done, after which  *)
(* the annotation is removed.                                              *)
FinishUpgrade(n) ==
    /\ \/ /\ ~HasInitialStateAnnotation(n)
          /\ phase' = [phase EXCEPT ![n] = UpgradeStateUncordonRequired]
          /\ Continue(n)
          /\ UNCHANGED marker
       \/ /\ HasInitialStateAnnotation(n)
          /\ phase' = [phase EXCEPT ![n] = UpgradeStateDone]
          /\ \/ marker' = [marker EXCEPT ![n] = FALSE] /\ Continue(n)
             \/ Fail /\ UNCHANGED marker
    /\ UNCHANGED <<unsched, intent, podVars, envVars>>

(* Mutant: the DeletionTimestamp.IsZero() test is inverted.                *)
QueueRestartInverted(n) == IF snap[n].term THEN restarts \cup {n} ELSE restarts

(* An out-of-date driver pod is collected for SchedulePodsRestart unless   *)
(* its deletion timestamp is set (it is terminating already).              *)
QueueRestart(n) == IF snap[n].term THEN restarts ELSE restarts \cup {n}

(* ProcessPodRestartNodes, one node: an out-of-date pod that is not        *)
(* terminating is collected for restart; an up-to-date in-sync pod ends    *)
(* the upgrade.                                                            *)
ProcessPodRestartNode(n) ==
    /\ stage = 8
    /\ n \in todo
    /\ \/ /\ Fail
          /\ UNCHANGED <<nodeVars, podVars, envVars>>
       \/ /\ GenMismatch(n)
          /\ restarts' = QueueRestart(n)
          /\ todo' = todo \ {n}
          /\ UNCHANGED <<nodeVars, podVars, envVars>>
          /\ UNCHANGED <<stage, limit, snap, snapGen, errs>>
       \/ /\ ~GenMismatch(n)
          /\ ~IsDriverPodInSync(n)
          /\ Continue(n)
          /\ UNCHANGED <<nodeVars, podVars, envVars>>
       \/ /\ IsDriverPodInSync(n)
          /\ FinishUpgrade(n)

(* The end of ProcessPodRestartNodes: SchedulePodsRestart deletes the      *)
(* collected pods; a failure may come after some of them were deleted.     *)
SchedulePodsRestart ==
    /\ stage = 8
    /\ todo = {}
    /\ \/ restarts = {} /\ Advance /\ UNCHANGED podTerm
       \/ /\ restarts # {}
          /\ \E deleted \in SUBSET restarts :
                podTerm' = [n \in Node |-> podTerm[n] \/ n \in deleted]
          /\ Fail
       \/ /\ restarts # {}
          /\ podTerm' = [n \in Node |-> podTerm[n] \/ n \in restarts]
          /\ Advance
    /\ UNCHANGED <<nodeVars, podGen, podReady, dsGen, envVars>>

(* ProcessUpgradeFailedNodes, one node: an in-sync pod ends the upgrade.   *)
ProcessUpgradeFailedNode(n) ==
    /\ stage = 9
    /\ n \in todo
    /\ \/ /\ Fail
          /\ UNCHANGED <<nodeVars, podVars, envVars>>
       \/ /\ ~IsDriverPodInSync(n)
          /\ Continue(n)
          /\ UNCHANGED <<nodeVars, podVars, envVars>>
       \/ /\ IsDriverPodInSync(n)
          /\ FinishUpgrade(n)

(* ProcessUncordonRequiredNodes, one node: uncordon it, then record Done.  *)
ProcessUncordonRequiredNode(n) ==
    /\ stage = 10
    /\ n \in todo
    /\ \/ /\ Fail
          /\ UNCHANGED <<nodeVars, podVars, envVars>>
       \/ /\ unsched' = [unsched EXCEPT ![n] = FALSE]
          /\ \/ Fail /\ UNCHANGED phase
             \/ /\ phase' = [phase EXCEPT ![n] = UpgradeStateDone]
                /\ Continue(n)
          /\ UNCHANGED <<marker, intent, podVars, envVars>>

-----------------------------------------------------------------------------
(* The environment. The phase writers other than ApplyState (the           *)
(* administrator and the collaborators' jobs) act between passes, or also  *)
(* during one when EnvDuringPass holds; the DaemonSet controller and the   *)
(* kubelet may act at any time.                                            *)
EnvMayAct == EnvDuringPass \/ stage = 0

(* The administrator cordons (b) or uncordons (~b) a node.                 *)
SetNodeSchedulable(n, b) ==
    /\ EnvMayAct
    /\ phase[n] \in AdminPhases
    /\ unsched[n] # b \/ intent[n] # b
    /\ unsched' = [unsched EXCEPT ![n] = b]
    /\ intent' = [intent EXCEPT ![n] = b]
    /\ UNCHANGED <<phase, marker, podVars, envVars, passVars>>

(* A new driver version: the DaemonSet's generation is bumped.             *)
UpdateDaemonSet ==
    /\ dsGen < MaxGen
    /\ dsGen' = dsGen + 1
    /\ UNCHANGED <<nodeVars, podGen, podReady, podTerm, envVars, passVars>>

(* The DaemonSet controller replaces a deleted driver pod by one of the    *)
(* current template, not yet ready.                                        *)
RecreateDriverPod(n) ==
    /\ podTerm[n]
    /\ podGen' = [podGen EXCEPT ![n] = dsGen]
    /\ podTerm' = [podTerm EXCEPT ![n] = FALSE]
    /\ podReady' = [podReady EXCEPT ![n] = FALSE]
    /\ UNCHANGED <<nodeVars, dsGen, envVars, passVars>>

(* The new driver pod's containers become ready.                           *)
DriverPodReady(n) ==
    /\ ~podTerm[n]
    /\ ~podReady[n]
    /\ podReady' = [podReady EXCEPT ![n] = TRUE]
    /\ UNCHANGED <<nodeVars, podGen, podTerm, dsGen, envVars, passVars>>

(* A job the pod manager scheduled by ScheduleCheckOnPodCompletion ends:   *)
(* the workloads are done and the node moves to PodDeletionRequired.       *)
PodCompletionJob(n) ==
    /\ EnvMayAct
    /\ <<"wait", n>> \in jobs
    /\ jobs' = jobs \ {<<"wait", n>>}
    /\ phase' = [phase EXCEPT ![n] = UpgradeStatePodDeletionRequired]
    /\ UNCHANGED <<marker, unsched, intent, podVars, drainSel, passVars>>

(* A job scheduled by SchedulePodEviction ends: the node moves to          *)
(* DrainRequired, or to Failed when the eviction failed.                   *)
PodEvictionJob(n) ==
    /\ EnvMayAct
    /\ <<"evict", n>> \in jobs
    /\ jobs' = jobs \ {<<"evict", n>>}
    /\ \/ /\ phase' = [phase EXCEPT ![n] = UpgradeStateDrainRequired]
          /\ UNCHANGED errs
       \/ /\ errs < MaxErrors
          /\ errs' = errs + 1
          /\ phase' = [phase EXCEPT ![n] = UpgradeStateFailed]
    /\ UNCHANGED <<marker, unsched, intent, podVars, drainSel>>
    /\ UNCHANGED <<stage, todo, limit, snap, snapGen, restarts>>

(* A job scheduled by ScheduleNodesDrain ends: the drain cordoned the node *)
(* and evicted its pods, and the node moves to PodRestartRequired, or to   *)
(* Failed when the drain failed.                                           *)
DrainJob(n) ==
    /\ EnvMayAct
    /\ <<"drain", n>> \in jobs
    /\ jobs' = jobs \ {<<"drain", n>>}
    /\ unsched' = [unsched EXCEPT ![n] = TRUE]
    /\ \/ /\ phase' = [phase EXCEPT ![n] = UpgradeStatePodRestartRequired]
          /\ UNCHANGED errs
       \/ /\ errs < MaxErrors
          /\ errs' = errs + 1
          /\ phase' = [phase EXCEPT ![n] = UpgradeStateFailed]
    /\ UNCHANGED <<marker, intent, podVars, drainSel>>
    /\ UNCHANGED <<stage, todo, limit, snap, snapGen, restarts>>

-----------------------------------------------------------------------------
(* A fresh cluster: no node carries an upgrade state yet, every driver pod *)
(* runs the current template, and some nodes may be cordoned by the        *)
(* administrator.                                                          *)
Init ==
    /\ phase = [n \in Node |-> UpgradeStateUnknown]
    /\ marker = [n \in Node |-> FALSE]
    /\ unsched \in [Node -> BOOLEAN]
    /\ intent = unsched
    /\ podGen = [n \in Node |-> 1]
    /\ podReady = [n \in Node |-> TRUE]
    /\ podTerm = [n \in Node |-> FALSE]
    /\ dsGen = 1
    /\ jobs = {}
    /\ drainSel = 0
    /\ stage = 0
    /\ todo = {}
    /\ limit = 0
    /\ snap = [n \in Node |-> IdleRec]
    /\ snapGen = 1
    /\ restarts = {}
    /\ errs = 0

Pass ==
    \/ ApplyState
    \/ FinishStage
    \/ FinishPass
    \/ ProcessWaitForJobsRequiredNodes
    \/ ProcessPodDeletionRequiredNodes
    \/ ProcessDrainNodes
    \/ SchedulePodsRestart
    \/ \E n \in Node :
          \/ ProcessDoneOrUnknownNode(n)
          \/ ProcessUpgradeRequiredNode(n)
          \/ ProcessCordonRequiredNode(n)
          \/ ProcessWaitForJobsRequiredNode(n)
          \/ ProcessDrainNode(n)
          \/ ProcessPodRestartNode(n)
          \/ ProcessUpgradeFailedNode(n)
          \/ ProcessUncordonRequiredNode(n)

Environment ==
    \/ UpdateDaemonSet
    \/ \E n \in Node :
          \/ \E b \in BOOLEAN : SetNodeSchedulable(n, b)
          \/ RecreateDriverPod(n)
          \/ DriverPodReady(n)
          \/ PodCompletionJob(n)
          \/ PodEvictionJob(n)
          \/ DrainJob(n)

Next == Pass \/ Environment

Spec == Init /\ [][Next]_vars

(* The scheduling the code relies on. The caller invokes ApplyState again  *)
(* and again (spec section 1: periodically or on watch events), and a pass *)
(* never blocks, so the pass keeps moving while it can. The DaemonSet      *)
(* controller recreates a deleted driver pod and the kubelet brings it up. *)
(* The administrator and DaemonSet updates are not fair: they may never    *)
(* happen. Nor are the collaborators' jobs: the code sets no timeout on    *)
(* them, and a job whose workloads never finish never ends.               *)
Fairness ==
    /\ WF_vars(Pass)
    /\ \A n \in Node :
          /\ WF_vars(RecreateDriverPod(n))
          /\ WF_vars(DriverPodReady(n))

LiveSpec == Spec /\ Fairness

(* The Pod and Drain Managers' promise that their jobs end: with           *)
(* EnvDuringPass = FALSE a job may end only between passes, so it is       *)
(* enabled only now and then and needs strong fairness.                    *)
JobFairness ==
    \A n \in Node :
        /\ SF_vars(PodCompletionJob(n))
        /\ SF_vars(PodEvictionJob(n))
        /\ SF_vars(DrainJob(n))

LiveJobsSpec == LiveSpec /\ JobFairness

-----------------------------------------------------------------------------
(* Properties.                                                             *)

InProgressNodes == {n \in Node : phase[n] \in InProgressPhases}

(* The concurrency cap (upgradesInProgress / upgradesAvailable and the     *)
(* limit of ProcessUpgradeRequiredNodes): with MaxParallelUpgrades = k > 0 *)
(* never more than k nodes are between UpgradeRequired and Done, Failed    *)
(* included, across passes, failed passes and collaborator jobs.           *)
SlotBound ==
    MaxParallelUpgrades > 0 => Cardinality(InProgressNodes) <= MaxParallelUpgrades

(* A node has its workloads waited for, its pods evicted, its drain and    *)
(* its driver restart run only while cordoned: ProcessCordonRequiredNodes  *)
(* records WaitForJobsRequired only after Cordon succeeded, and nothing    *)
(* uncordons the node before ProcessUncordonRequiredNodes (whose own       *)
(* failed state write may leave an uncordoned node in UncordonRequired).   *)
CordonedWhileUpgrading ==
    \A n \in Node :
        phase[n] \in InProgressPhases \ {UpgradeStateCordonRequired,
                                         UpgradeStateUncordonRequired}
            => unsched[n]

(* The upgrade leaves a node's schedulability as the administrator set it: *)
(* outside an upgrade (Unknown, Done, UpgradeRequired) a node is cordoned  *)
(* exactly when the administrator wants it cordoned, whatever the          *)
(* initial-state annotation and the uncordon step did in between.          *)
SchedulabilityRestored ==
    \A n \in Node :
        phase[n] \in {UpgradeStateUnknown, UpgradeStateDone,
                      UpgradeStateUpgradeRequired}
            => unsched[n] = intent[n]

(* The upgrade never uncordons a node the administrator cordoned (spec     *)
(* 4.4: the initial-state annotation makes the upgrade skip the uncordon). *)
NoSilentUncordon ==
    [][\A n \in Node :
         (intent[n] /\ unsched[n] /\ ~unsched'[n]) => ~intent'[n]]_vars

(* A pending collaborator job belongs to a node that is still in the phase *)
(* it was scheduled for, so that its completion never rewinds a node.      *)
JobsMatchPhase ==
    \A j \in jobs :
        phase[j[2]] = CASE j[1] = "wait"  -> UpgradeStateWaitForJobsRequired
                        [] j[1] = "evict" -> UpgradeStatePodDeletionRequired
                        [] j[1] = "drain" -> UpgradeStateDrainRequired

(* ApplyState leaves its policy argument as it found it (the function is   *)
(* documented as stateless and idempotent): the drain pod selector gains   *)
(* the skip-drain clause at most once.                                     *)
PolicyUnchanged == drainSel <= 1


(* A node the upgrade is finished with: Done, running the current driver. *)
Upgraded(n) == phase[n] = UpgradeStateDone /\ podGen[n] = dsGen

(* A node stuck in Failed: its driver pod still runs an old template, and  *)
(* ProcessUpgradeFailedNodes only waits for it to come into sync.          *)
StuckFailed(n) == phase[n] = UpgradeStateFailed /\ podGen[n] # dsGen

(* The node waits on a collaborator job the code scheduled for it.         *)
WaitsOnJob(n) == \E k \in {"wait", "evict", "drain"} : <<k, n>> \in jobs

(* The node will not move without help from outside the code: it is stuck *)
(* in Failed or waits on a job.                                            *)
Held(n) == StuckFailed(n) \/ WaitsOnJob(n)

(* Held nodes still count in upgradesInProgress: when they fill every      *)
(* slot, ProcessUpgradeRequiredNodes never starts another node.            *)
SlotsHeld ==
    /\ MaxParallelUpgrades > 0
    /\ Cardinality({n \in Node : Held(n)}) >= MaxParallelUpgrades

(* Under the reconciliation loop's fairness alone, every node without the *)
(* skip label eventually settles for good: it is upgraded, or held (stuck  *)
(* in Failed, or waiting on a job that never ends), or waits in            *)
(* UpgradeRequired only because held nodes fill every slot. The code never *)
(* itself loses a node: no node waits forever for a slot that frees up,    *)
(* for a restart it should have scheduled or for its driver pod, across    *)
(* failed calls and retried passes, and a node with the skip label (which  *)
(* takes no slot) blocks nobody.                                           *)
UpgradeSettles ==
    <>[](\A n \in Node \ SkipNodes :
            \/ Upgraded(n)
            \/ Held(n)
            \/ phase[n] = UpgradeStateUpgradeRequired /\ SlotsHeld)

(* Spec 4.2 and 7: Failed is not absorbing and forward progress resumes on *)
(* retry, so every node without the skip label is eventually upgraded.     *)
UpgradeCompletes == <>[](\A n \in Node \ SkipNodes : Upgraded(n))
=============================================================================
