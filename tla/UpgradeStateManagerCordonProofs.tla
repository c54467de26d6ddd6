-------------------- MODULE UpgradeStateManagerCordonProofs --------------------
(***************************************************************************)
(* Proofs about the cordon of the ApplyState model: a node is cordoned     *)
(* through the disruptive part of its upgrade, the initial-state           *)
(* annotation keeps an administrator's cordon, and the upgrade gives a     *)
(* node back the schedulability it had.                                    *)
(***************************************************************************)
EXTENDS UpgradeStateManagerRefinement

(* The phases in which the upgrade disrupts the node's workloads, from     *)
(* WaitForJobsRequired to PodRestartRequired, and Failed.                  *)
CordonedPhases ==
    InProgressPhases \ {UpgradeStateCordonRequired, UpgradeStateUncordonRequired}

(* The phases between the stamp of the initial-state annotation            *)
(* (ProcessDoneOrUnknownNodes) and the end of the upgrade (FinishUpgrade). *)
MarkedPhases ==
    (InProgressPhases \cup {UpgradeStateUpgradeRequired})
        \ {UpgradeStateUncordonRequired}

IdlePhases == {UpgradeStateUnknown, UpgradeStateDone}

(* A failed call ends the pass and drops the collected pods.              *)
LEMMA FailEnds ==
    ASSUME Fail PROVE stage' = 0 /\ restarts' = {}
  BY DEF Fail, EndPass

-----------------------------------------------------------------------------
(* The cordon and the initial-state annotation.                            *)

(* The annotation records the administrator's cordon: an idle node the     *)
(* administrator cordoned is cordoned; from its entry into the upgrade to  *)
(* its end, such a node carries the annotation; a node that reached        *)
(* UncordonRequired was not cordoned by the administrator. The snapshot    *)
(* of the running pass saw the same.                                       *)
MarkerOK(n) ==
    /\ phase[n] \in IdlePhases /\ intent[n] => unsched[n]
    /\ phase[n] \in MarkedPhases /\ intent[n] => marker[n]
    /\ phase[n] = UpgradeStateUncordonRequired => ~intent[n]

(* The node is cordoned in a disruptive phase, and MarkerOK.             *)
NodeOK(n) ==
    /\ phase[n] \in CordonedPhases => unsched[n]
    /\ MarkerOK(n)

SnapMarkerOK(n) ==
    /\ snap[n].phase \in IdlePhases /\ intent[n] => snap[n].unsched
    /\ snap[n].phase \in MarkedPhases /\ intent[n] => snap[n].marker

MarkerInv ==
    /\ \A n \in Node : MarkerOK(n)
    /\ stage \in 1..NumStages => \A n \in Node : SnapMarkerOK(n)

(* The inductive invariant behind CordonedWhileUpgrading and              *)
(* NoSilentUncordon when the administrator touches only idle nodes and    *)
(* every phase writer other than ApplyState acts between passes.          *)
CordonInv ==
    /\ SlotInv
    /\ CordonedWhileUpgrading
    /\ MarkerInv

-----------------------------------------------------------------------------
(* Lemmas for CordonInv.                                                   *)

(* A step that changes the cordon, the annotation and the upgrade state of *)
(* node n only, keeps the snapshot and the administrator's wishes while a  *)
(* pass goes on, and leaves n in order keeps the invariant's node part.    *)
LEMMA CordonLocal ==
    ASSUME CordonInv, NEW n \in Node,
           \A m \in Node \ {n} : /\ phase'[m] = phase[m]
                                 /\ unsched'[m] = unsched[m]
                                 /\ marker'[m] = marker[m]
                                 /\ intent'[m] = intent[m],
           stage' \in 1..NumStages =>
               /\ stage \in 1..NumStages
               /\ snap' = snap
               /\ intent' = intent,
           NodeOK(n)'
    PROVE  (CordonedWhileUpgrading /\ MarkerInv)'
<1>1. \A m \in Node : NodeOK(m)'
  BY DEF CordonInv, CordonedWhileUpgrading, MarkerInv, NodeOK, MarkerOK,
     CordonedPhases
<1>2. stage' \in 1..NumStages => \A m \in Node : SnapMarkerOK(m)'
  BY DEF CordonInv, MarkerInv, SnapMarkerOK
<1>3. QED
  BY <1>1, <1>2 DEF CordonedWhileUpgrading, MarkerInv, NodeOK, CordonedPhases

(* The same for a processor's write of node n during a pass: each of the   *)
(* upgrade state, the cordon and the annotation of n is written or kept,   *)
(* and the pass goes on or ends.                                           *)
LEMMA WriteLocal ==
    ASSUME CordonInv, NEW n \in Node, stage \in 1..NumStages,
           phase' = phase \/ \E p \in Phases : phase' = [phase EXCEPT ![n] = p],
           unsched' = unsched
               \/ \E b \in BOOLEAN : unsched' = [unsched EXCEPT ![n] = b],
           marker' = marker
               \/ \E b \in BOOLEAN : marker' = [marker EXCEPT ![n] = b],
           intent' = intent,
           stage' = 0 \/ (stage' = stage /\ snap' = snap),
           NodeOK(n)'
    PROVE  (CordonedWhileUpgrading /\ MarkerInv)'
<1>1. \A m \in Node \ {n} : /\ phase'[m] = phase[m]
                            /\ unsched'[m] = unsched[m]
                            /\ marker'[m] = marker[m]
                            /\ intent'[m] = intent[m]
  BY DEF CordonInv, SlotInv, TypeOK
<1>2. QED
  BY <1>1, CordonLocal

(* A step that leaves every node's upgrade state, cordon, annotation and   *)
(* the administrator's wishes alone keeps the node part, as long as it     *)
(* keeps the snapshot of a running pass.                                   *)
LEMMA CordonFrame ==
    ASSUME CordonInv, UNCHANGED nodeVars,
           stage' \in 1..NumStages => stage \in 1..NumStages /\ snap' = snap
    PROVE  (CordonedWhileUpgrading /\ MarkerInv)'
  BY DEF CordonInv, CordonedWhileUpgrading, MarkerInv, MarkerOK, SnapMarkerOK,
     nodeVars

(* ApplyState's snapshot sees what the cluster holds.                     *)
LEMMA ApplyStateMarker ==
    ASSUME CordonInv, ApplyState
    PROVE  (CordonedWhileUpgrading /\ MarkerInv)'
<1>1. UNCHANGED nodeVars
  BY DEF ApplyState
<1>2. \A n \in Node : SnapMarkerOK(n)'
  BY <1>1 DEF ApplyState, CordonInv, MarkerInv, MarkerOK, SnapMarkerOK, nodeVars
<1>3. QED
  BY <1>1, <1>2 DEF CordonInv, CordonedWhileUpgrading, MarkerInv, MarkerOK,
     nodeVars

(* The node a processor visits is, in the cluster and in its snapshot, in  *)
(* the processor's phase.                                                  *)
LEMMA Visit ==
    ASSUME CordonInv, NEW n \in Node, n \in todo, stage \in 1..NumStages
    PROVE  /\ phase[n] = StageOrder[stage]
           /\ snap[n].phase = StageOrder[stage]
           /\ SnapMarkerOK(n)
           /\ NodeOK(n)
  BY TodoPhase DEF CordonInv, SlotInv, MarkerInv, NodeOK, CordonedWhileUpgrading,
     CordonedPhases

(* Where each phase lies: idle, marked (between the stamp and the end of   *)
(* the upgrade) and cordoned (the disruptive phases).                      *)
LEMMA ClassFacts ==
    /\ UpgradeStateUnknown \in IdlePhases
    /\ UpgradeStateUnknown \notin MarkedPhases
    /\ UpgradeStateUnknown \notin CordonedPhases
    /\ UpgradeStateDone \in IdlePhases
    /\ UpgradeStateDone \notin MarkedPhases
    /\ UpgradeStateDone \notin CordonedPhases
    /\ UpgradeStateUpgradeRequired \notin IdlePhases
    /\ UpgradeStateUpgradeRequired \in MarkedPhases
    /\ UpgradeStateUpgradeRequired \notin CordonedPhases
    /\ UpgradeStateCordonRequired \notin IdlePhases
    /\ UpgradeStateCordonRequired \in MarkedPhases
    /\ UpgradeStateCordonRequired \notin CordonedPhases
    /\ \A p \in {UpgradeStateWaitForJobsRequired,
                 UpgradeStatePodDeletionRequired, UpgradeStateDrainRequired,
                 UpgradeStatePodRestartRequired, UpgradeStateFailed} :
          /\ p \notin IdlePhases
          /\ p \in MarkedPhases
          /\ p \in CordonedPhases
          /\ p # UpgradeStateUncordonRequired
    /\ UpgradeStateUncordonRequired \notin IdlePhases
    /\ UpgradeStateUncordonRequired \notin MarkedPhases
    /\ UpgradeStateUncordonRequired \notin CordonedPhases
    /\ UpgradeStateUnknown # UpgradeStateUncordonRequired
    /\ UpgradeStateDone # UpgradeStateUncordonRequired
    /\ UpgradeStateUpgradeRequired # UpgradeStateUncordonRequired
    /\ UpgradeStateCordonRequired # UpgradeStateUncordonRequired
    /\ \A p \in IdlePhases : /\ p \notin MarkedPhases
                             /\ p \notin CordonedPhases
                             /\ p # UpgradeStateUncordonRequired
  BY DEF IdlePhases, MarkedPhases, CordonedPhases, InProgressPhases,
     UpgradeStateUnknown, UpgradeStateDone, UpgradeStateUpgradeRequired,
     UpgradeStateCordonRequired, UpgradeStateWaitForJobsRequired,
     UpgradeStatePodDeletionRequired, UpgradeStateDrainRequired,
     UpgradeStatePodRestartRequired, UpgradeStateFailed,
     UpgradeStateUncordonRequired

(* ProcessDoneOrUnknownNodes stamps the annotation on an out-of-date node  *)
(* that its snapshot saw cordoned, before queueing it: the administrator's *)
(* cordon is in the annotation when the node enters UpgradeRequired.       *)
LEMMA DoneOrUnknownMarker ==
    ASSUME CordonInv, NEW n \in Node, ProcessDoneOrUnknownNode(n)
    PROVE  (CordonedWhileUpgrading /\ MarkerInv)'
<1>1. /\ stage \in 1..NumStages
      /\ phase[n] \in IdlePhases
      /\ snap[n].phase \in IdlePhases
      /\ SnapMarkerOK(n)
      /\ NodeOK(n)
  <2>1. stage \in {1, 2} /\ n \in todo
    BY DEF ProcessDoneOrUnknownNode
  <2>2. QED
    BY <2>1, Visit, PhaseClasses, ClassFacts DEF NumStages
<1>2. /\ phase \in [Node -> Phases]
      /\ marker \in [Node -> BOOLEAN]
      /\ unsched \in [Node -> BOOLEAN]
      /\ snap \in [Node -> SnapRec]
  BY DEF CordonInv, SlotInv, TypeOK
<1>3. CASE Fail /\ UNCHANGED <<nodeVars, podVars, envVars>>
  BY <1>3, CordonFrame DEF Fail, EndPass
<1>4. CASE /\ GenMismatch(n)
           /\ marker' = [marker EXCEPT ![n] = @ \/ IsNodeUnschedulable(n)]
           /\ \/ Fail /\ UNCHANGED phase
              \/ /\ phase' = [phase EXCEPT ![n] = UpgradeStateUpgradeRequired]
                 /\ Continue(n)
           /\ UNCHANGED <<unsched, intent, podVars, envVars>>
  <2>1. marker'[n] = (marker[n] \/ snap[n].unsched)
    BY <1>2, <1>4 DEF IsNodeUnschedulable
  <2>2. intent[n] => snap[n].unsched
    BY <1>1 DEF SnapMarkerOK
  <2>3. CASE Fail /\ UNCHANGED phase
    <3>1. NodeOK(n)'
      BY <1>1, <1>4, <2>3, ClassFacts DEF NodeOK, MarkerOK
    <3>2. QED
      BY <1>1, <1>4, <2>3, <3>1, <1>2, WriteLocal, FailEnds, PhaseFacts
  <2>4. CASE phase' = [phase EXCEPT ![n] = UpgradeStateUpgradeRequired]
             /\ Continue(n)
    <3>1. phase'[n] = UpgradeStateUpgradeRequired
      BY <1>2, <2>4
    <3>2. NodeOK(n)'
      BY <1>4, <2>1, <2>2, <3>1, ClassFacts DEF NodeOK, MarkerOK
    <3>3. QED
      BY <1>1, <1>2, <1>4, <2>4, <3>2, WriteLocal, PhaseFacts DEF Continue
  <2>5. QED
    BY <1>4, <2>3, <2>4
<1>5. CASE /\ ~GenMismatch(n)
           /\ phase' = IF stage = 1
                         THEN [phase EXCEPT ![n] = UpgradeStateDone]
                         ELSE phase
           /\ Continue(n)
           /\ UNCHANGED <<marker, unsched, intent, podVars, envVars>>
  <2>1. phase'[n] \in IdlePhases
    BY <1>1, <1>2, <1>5, ClassFacts
  <2>2. NodeOK(n)'
    BY <1>1, <1>5, <2>1, ClassFacts DEF NodeOK, MarkerOK
  <2>3. QED
    BY <1>1, <1>2, <1>5, <2>2, WriteLocal, PhaseFacts DEF Continue
<1>6. QED
  BY <1>3, <1>4, <1>5 DEF ProcessDoneOrUnknownNode

(* The cluster's typed functions, for the provers.                        *)
LEMMA CordonTypes ==
    ASSUME CordonInv
    PROVE  /\ phase \in [Node -> Phases]
           /\ marker \in [Node -> BOOLEAN]
           /\ unsched \in [Node -> BOOLEAN]
           /\ intent \in [Node -> BOOLEAN]
           /\ snap \in [Node -> SnapRec]
  BY DEF CordonInv, SlotInv, TypeOK

(* ProcessUpgradeRequiredNodes moves a queued node to CordonRequired; its  *)
(* annotation is untouched.                                                *)
LEMMA UpgradeRequiredMarker ==
    ASSUME CordonInv, NEW n \in Node, ProcessUpgradeRequiredNode(n)
    PROVE  (CordonedWhileUpgrading /\ MarkerInv)'
<1>1. /\ stage = 3 /\ n \in todo
      /\ phase[n] = UpgradeStateUpgradeRequired
      /\ NodeOK(n)
  BY Visit, PhaseClasses DEF ProcessUpgradeRequiredNode, NumStages
<1>2. CASE UNCHANGED <<nodeVars, podVars, envVars>>
           /\ (Continue(n) \/ Fail)
  BY <1>2, CordonFrame, FailEnds DEF Continue, Fail, EndPass
<1>3. CASE /\ phase' = [phase EXCEPT ![n] = UpgradeStateCordonRequired]
           /\ UNCHANGED <<marker, unsched, intent, podVars, envVars>>
           /\ UNCHANGED <<stage, snap, snapGen, restarts, errs>>
  <2>1. NodeOK(n)'
    BY <1>1, <1>3, CordonTypes, ClassFacts DEF NodeOK, MarkerOK
  <2>2. \E p \in Phases : phase' = [phase EXCEPT ![n] = p]
    BY <1>3, PhaseFacts
  <2>3. stage \in 1..NumStages /\ stage' = stage /\ snap' = snap
    BY <1>1, <1>3 DEF NumStages
  <2>4. QED
    BY <1>3, <2>1, <2>2, <2>3, WriteLocal
<1>4. QED
  BY <1>2, <1>3 DEF ProcessUpgradeRequiredNode

(* ProcessCordonRequiredNodes cordons the node before it records           *)
(* WaitForJobsRequired.                                                    *)
LEMMA CordonMarker ==
    ASSUME CordonInv, NEW n \in Node, ProcessCordonRequiredNode(n)
    PROVE  (CordonedWhileUpgrading /\ MarkerInv)'
<1>1. /\ stage = 4 /\ n \in todo
      /\ phase[n] = UpgradeStateCordonRequired
      /\ NodeOK(n)
  BY Visit, PhaseClasses DEF ProcessCordonRequiredNode, NumStages
<1>2. CASE Fail /\ UNCHANGED <<nodeVars, podVars, envVars>>
  BY <1>2, CordonFrame, FailEnds
<1>3. CASE /\ unsched' = [unsched EXCEPT ![n] = TRUE]
           /\ \/ Fail /\ UNCHANGED phase
              \/ /\ phase' = [phase EXCEPT ![n] = UpgradeStateWaitForJobsRequired]
                 /\ Continue(n)
           /\ UNCHANGED <<marker, intent, podVars, envVars>>
  <2>1. unsched'[n] /\ phase'[n] \in {phase[n], UpgradeStateWaitForJobsRequired}
    BY <1>3, CordonTypes
  <2>2. NodeOK(n)'
    BY <1>1, <1>3, <2>1, ClassFacts DEF NodeOK, MarkerOK
  <2>3. phase' = phase
        \/ \E p \in Phases : phase' = [phase EXCEPT ![n] = p]
    BY <1>3, PhaseFacts
  <2>4. \E b \in BOOLEAN : unsched' = [unsched EXCEPT ![n] = b]
    BY <1>3
  <2>5. stage' = 0 \/ (stage' = stage /\ snap' = snap)
    BY <1>3, FailEnds DEF Continue
  <2>6. stage \in 1..NumStages
    BY <1>1 DEF NumStages
  <2>7. QED
    BY <1>3, <2>2, <2>3, <2>4, <2>5, <2>6, WriteLocal
<1>4. QED
  BY <1>2, <1>3 DEF ProcessCordonRequiredNode

(* ProcessWaitForJobsRequiredNodes without a selector moves a cordoned     *)
(* node on to PodDeletionRequired, or leaves it (the discarded error).     *)
LEMMA WaitNodeMarker ==
    ASSUME CordonInv, NEW n \in Node, ProcessWaitForJobsRequiredNode(n)
    PROVE  (CordonedWhileUpgrading /\ MarkerInv)'
<1>1. /\ stage = 5 /\ n \in todo
      /\ phase[n] = UpgradeStateWaitForJobsRequired
      /\ NodeOK(n)
  BY Visit, PhaseClasses DEF ProcessWaitForJobsRequiredNode, NumStages
<1>2. phase'[n] \in {phase[n], UpgradeStatePodDeletionRequired}
  BY CordonTypes DEF ProcessWaitForJobsRequiredNode
<1>3. NodeOK(n)'
  BY <1>1, <1>2, ClassFacts DEF ProcessWaitForJobsRequiredNode, NodeOK, MarkerOK
<1>4. QED
  BY <1>1, <1>3, CordonTypes, WriteLocal, PhaseFacts
     DEF ProcessWaitForJobsRequiredNode, Continue, NumStages

(* ProcessDrainNodes with drain disabled moves a cordoned node on to       *)
(* PodRestartRequired.                                                     *)
LEMMA DrainNodeMarker ==
    ASSUME CordonInv, NEW n \in Node, ProcessDrainNode(n)
    PROVE  (CordonedWhileUpgrading /\ MarkerInv)'
<1>1. /\ stage = 7 /\ n \in todo
      /\ phase[n] = UpgradeStateDrainRequired
      /\ NodeOK(n)
  BY Visit, PhaseClasses DEF ProcessDrainNode, NumStages
<1>2. phase'[n] \in {phase[n], UpgradeStatePodRestartRequired}
  BY CordonTypes DEF ProcessDrainNode
<1>3. NodeOK(n)'
  BY <1>1, <1>2, ClassFacts DEF ProcessDrainNode, NodeOK, MarkerOK
<1>4. QED
  BY <1>1, <1>3, CordonTypes, WriteLocal, FailEnds, PhaseFacts
     DEF ProcessDrainNode, Continue, NumStages

(* FinishUpgrade on a cordoned node of PodRestartRequired or Failed: the   *)
(* snapshot's annotation is set exactly for a node the administrator       *)
(* cordoned, which goes to Done still cordoned; any other node goes to     *)
(* UncordonRequired.                                                       *)
LEMMA FinishUpgradeMarker ==
    ASSUME CordonInv, NEW n \in Node, n \in todo, stage \in {8, 9},
           FinishUpgrade(n)
    PROVE  (CordonedWhileUpgrading /\ MarkerInv)'
<1>1. /\ phase[n] \in {UpgradeStatePodRestartRequired, UpgradeStateFailed}
      /\ snap[n].phase = phase[n]
      /\ SnapMarkerOK(n)
      /\ NodeOK(n)
  BY Visit, PhaseClasses DEF NumStages
<1>2. unsched[n] /\ (intent[n] => snap[n].marker)
  BY <1>1, ClassFacts DEF NodeOK, SnapMarkerOK
<1>3. CASE /\ ~HasInitialStateAnnotation(n)
           /\ phase' = [phase EXCEPT ![n] = UpgradeStateUncordonRequired]
           /\ Continue(n)
           /\ UNCHANGED marker
           /\ UNCHANGED <<unsched, intent, podVars, envVars>>
  <2>1. phase'[n] = UpgradeStateUncordonRequired /\ ~intent[n]
    BY <1>2, <1>3, CordonTypes DEF HasInitialStateAnnotation
  <2>2. NodeOK(n)'
    BY <1>3, <2>1, ClassFacts DEF NodeOK, MarkerOK
  <2>3. \E p \in Phases : phase' = [phase EXCEPT ![n] = p]
    BY <1>3, PhaseFacts
  <2>4. stage \in 1..NumStages /\ stage' = stage /\ snap' = snap
    BY <1>3 DEF Continue, NumStages
  <2>5. QED
    BY <1>3, <2>2, <2>3, <2>4, WriteLocal
<1>4. CASE /\ HasInitialStateAnnotation(n)
           /\ phase' = [phase EXCEPT ![n] = UpgradeStateDone]
           /\ \/ marker' = [marker EXCEPT ![n] = FALSE] /\ Continue(n)
              \/ Fail /\ UNCHANGED marker
           /\ UNCHANGED <<unsched, intent, podVars, envVars>>
  <2>1. phase'[n] = UpgradeStateDone /\ unsched'[n]
    BY <1>2, <1>4, CordonTypes
  <2>2. NodeOK(n)'
    BY <2>1, <1>4, ClassFacts DEF NodeOK, MarkerOK
  <2>3. \E p \in Phases : phase' = [phase EXCEPT ![n] = p]
    BY <1>4, PhaseFacts
  <2>4. marker' = marker \/ \E b \in BOOLEAN : marker' = [marker EXCEPT ![n] = b]
    BY <1>4
  <2>5. stage' = 0 \/ (stage' = stage /\ snap' = snap)
    BY <1>4, FailEnds DEF Continue
  <2>6. stage \in 1..NumStages
    BY DEF NumStages
  <2>7. QED
    BY <1>4, <2>2, <2>3, <2>4, <2>5, <2>6, WriteLocal
<1>5. QED
  BY <1>3, <1>4 DEF FinishUpgrade

(* ProcessPodRestartNodes and ProcessUpgradeFailedNodes touch no node but  *)
(* through FinishUpgrade.                                                  *)
LEMMA PodRestartMarker ==
    ASSUME CordonInv, NEW n \in Node,
           ProcessPodRestartNode(n) \/ ProcessUpgradeFailedNode(n)
    PROVE  (CordonedWhileUpgrading /\ MarkerInv)'
<1>1. stage \in {8, 9} /\ n \in todo
  BY DEF ProcessPodRestartNode, ProcessUpgradeFailedNode
<1>2. CASE FinishUpgrade(n)
  BY <1>1, <1>2, FinishUpgradeMarker
<1>3. CASE UNCHANGED nodeVars /\ (stage' = 0 \/ (stage' = stage /\ snap' = snap))
  BY <1>1, <1>3, CordonFrame DEF NumStages
<1>4. QED
  BY <1>2, <1>3, FailEnds DEF ProcessPodRestartNode, ProcessUpgradeFailedNode,
     Continue

(* ProcessUncordonRequiredNodes uncordons only nodes that reached          *)
(* UncordonRequired, which the administrator did not cordon.               *)
LEMMA UncordonMarker ==
    ASSUME CordonInv, NEW n \in Node, ProcessUncordonRequiredNode(n)
    PROVE  (CordonedWhileUpgrading /\ MarkerInv)'
<1>1. /\ stage = 10 /\ n \in todo
      /\ phase[n] = UpgradeStateUncordonRequired
      /\ NodeOK(n)
  BY Visit, PhaseClasses DEF ProcessUncordonRequiredNode, NumStages
<1>2. ~intent[n]
  BY <1>1 DEF NodeOK, MarkerOK
<1>3. CASE Fail /\ UNCHANGED <<nodeVars, podVars, envVars>>
  BY <1>3, CordonFrame, FailEnds
<1>4. CASE /\ unsched' = [unsched EXCEPT ![n] = FALSE]
           /\ \/ Fail /\ UNCHANGED phase
              \/ /\ phase' = [phase EXCEPT ![n] = UpgradeStateDone]
                 /\ Continue(n)
           /\ UNCHANGED <<marker, intent, podVars, envVars>>
  <2>1. phase'[n] \in {UpgradeStateUncordonRequired, UpgradeStateDone}
    BY <1>1, <1>4, CordonTypes
  <2>2. NodeOK(n)'
    BY <1>2, <1>4, <2>1, ClassFacts DEF NodeOK, MarkerOK
  <2>3. phase' = phase
        \/ \E p \in Phases : phase' = [phase EXCEPT ![n] = p]
    BY <1>4, PhaseFacts
  <2>4. \E b \in BOOLEAN : unsched' = [unsched EXCEPT ![n] = b]
    BY <1>4
  <2>5. stage' = 0 \/ (stage' = stage /\ snap' = snap)
    BY <1>4, FailEnds DEF Continue
  <2>6. stage \in 1..NumStages
    BY <1>1 DEF NumStages
  <2>7. QED
    BY <1>4, <2>2, <2>3, <2>4, <2>5, <2>6, WriteLocal
<1>5. QED
  BY <1>3, <1>4 DEF ProcessUncordonRequiredNode

(* The administrator, acting between passes on an idle node, cordons it   *)
(* exactly when they want it cordoned.                                     *)
LEMMA AdminMarker ==
    ASSUME CordonInv, ~EnvDuringPass, AdminPhases \subseteq IdlePhases,
           NEW n \in Node, NEW b \in BOOLEAN, SetNodeSchedulable(n, b)
    PROVE  (CordonedWhileUpgrading /\ MarkerInv)'
<1>1. stage = 0 /\ stage' = 0 /\ phase[n] \in IdlePhases
  BY DEF SetNodeSchedulable, EnvMayAct, passVars
<1>2. unsched'[n] = b /\ intent'[n] = b /\ phase' = phase /\ marker' = marker
  BY CordonTypes DEF SetNodeSchedulable
<1>3. NodeOK(n)'
  BY <1>1, <1>2, ClassFacts DEF NodeOK, MarkerOK
<1>4. \A m \in Node \ {n} : /\ phase'[m] = phase[m]
                           /\ unsched'[m] = unsched[m]
                           /\ marker'[m] = marker[m]
                           /\ intent'[m] = intent[m]
  BY CordonTypes DEF SetNodeSchedulable
<1>5. stage' \notin 1..NumStages
  BY <1>1 DEF NumStages
<1>6. QED
  BY <1>3, <1>4, <1>5, CordonLocal

(* A collaborator's job ends between passes and moves its node between     *)
(* disruptive phases: the node stays cordoned (the drain cordons it        *)
(* again) and keeps its annotation.                                        *)
LEMMA JobMarker ==
    ASSUME CordonInv, NEW n \in Node,
           PodCompletionJob(n) \/ PodEvictionJob(n) \/ DrainJob(n)
    PROVE  (CordonedWhileUpgrading /\ MarkerInv)'
<1>1. phase[n] \in CordonedPhases /\ phase[n] \in MarkedPhases
  <2>1. phase[n] \in {UpgradeStateWaitForJobsRequired,
                      UpgradeStatePodDeletionRequired, UpgradeStateDrainRequired}
    BY DEF CordonInv, SlotInv, JobsMatchPhase, PodCompletionJob,
       PodEvictionJob, DrainJob
  <2>2. QED
    BY <2>1, ClassFacts
<1>2. \E p \in {UpgradeStatePodDeletionRequired, UpgradeStateDrainRequired,
                UpgradeStatePodRestartRequired, UpgradeStateFailed} :
         phase' = [phase EXCEPT ![n] = p]
  BY DEF PodCompletionJob, PodEvictionJob, DrainJob
<1>3. phase'[n] \in CordonedPhases /\ phase'[n] \in MarkedPhases
      /\ phase'[n] # UpgradeStateUncordonRequired
  BY <1>2, CordonTypes, ClassFacts
<1>4. /\ unsched' = unsched \/ unsched' = [unsched EXCEPT ![n] = TRUE]
      /\ marker' = marker /\ intent' = intent
      /\ stage' = stage /\ snap' = snap
  BY DEF PodCompletionJob, PodEvictionJob, DrainJob, passVars
<1>5. unsched'[n] /\ (intent'[n] => marker'[n])
  BY <1>1, <1>4, CordonTypes DEF CordonInv, CordonedWhileUpgrading,
     MarkerInv, MarkerOK, CordonedPhases
<1>6. NodeOK(n)'
  BY <1>3, <1>5, ClassFacts DEF NodeOK, MarkerOK
<1>7. \A m \in Node \ {n} : /\ phase'[m] = phase[m]
                           /\ unsched'[m] = unsched[m]
                           /\ marker'[m] = marker[m]
                           /\ intent'[m] = intent[m]
  BY <1>2, <1>4, CordonTypes
<1>8. QED
  BY <1>4, <1>6, <1>7, CordonLocal

(* Every step keeps the cordon and annotation invariant when the           *)
(* administrator touches only idle nodes and the other phase writers act   *)
(* between passes.                                                         *)
LEMMA MarkerStep ==
    ASSUME CordonInv, [Next]_vars, ~EnvDuringPass,
           AdminPhases \subseteq IdlePhases
    PROVE  (CordonedWhileUpgrading /\ MarkerInv)'
<1>1. CASE ApplyState
  BY <1>1, ApplyStateMarker
<1>2. CASE FinishStage \/ FinishPass \/ SchedulePodsRestart
       \/ ProcessWaitForJobsRequiredNodes \/ ProcessPodDeletionRequiredNodes
       \/ ProcessDrainNodes
  <2>1. UNCHANGED nodeVars
    BY <1>2 DEF FinishStage, FinishPass, SchedulePodsRestart,
       ProcessWaitForJobsRequiredNodes, ProcessPodDeletionRequiredNodes,
       ProcessDrainNodes
  <2>2. stage \in 1..NumStages
    BY <1>2, PhaseClasses DEF FinishStage, FinishPass, SchedulePodsRestart,
       ProcessWaitForJobsRequiredNodes, ProcessPodDeletionRequiredNodes,
       ProcessDrainNodes, LoopStages, NumStages
  <2>3. stage' = 0 \/ snap' = snap
    BY <1>2, FailEnds DEF FinishStage, FinishPass, SchedulePodsRestart,
       ProcessWaitForJobsRequiredNodes, ProcessPodDeletionRequiredNodes,
       ProcessDrainNodes, Advance, EndPass
  <2>4. QED
    BY <2>1, <2>2, <2>3, CordonFrame DEF NumStages
<1>3. ASSUME NEW n \in Node,
             \/ ProcessDoneOrUnknownNode(n)
             \/ ProcessUpgradeRequiredNode(n)
             \/ ProcessCordonRequiredNode(n)
             \/ ProcessWaitForJobsRequiredNode(n)
             \/ ProcessDrainNode(n)
             \/ ProcessPodRestartNode(n)
             \/ ProcessUpgradeFailedNode(n)
             \/ ProcessUncordonRequiredNode(n)
      PROVE  (CordonedWhileUpgrading /\ MarkerInv)'
  BY <1>3, DoneOrUnknownMarker, UpgradeRequiredMarker, CordonMarker,
     WaitNodeMarker, DrainNodeMarker, PodRestartMarker, UncordonMarker
<1>4. ASSUME NEW n \in Node, NEW b \in BOOLEAN, SetNodeSchedulable(n, b)
      PROVE  (CordonedWhileUpgrading /\ MarkerInv)'
  BY <1>4, AdminMarker
<1>5. ASSUME NEW n \in Node,
             PodCompletionJob(n) \/ PodEvictionJob(n) \/ DrainJob(n)
      PROVE  (CordonedWhileUpgrading /\ MarkerInv)'
  BY <1>5, JobMarker
<1>6. CASE \/ UpdateDaemonSet
           \/ \E n \in Node : RecreateDriverPod(n) \/ DriverPodReady(n)
           \/ UNCHANGED vars
  BY <1>6, CordonFrame DEF UpdateDaemonSet, RecreateDriverPod,
     DriverPodReady, vars, passVars
<1>7. QED
  BY <1>1, <1>2, <1>3, <1>4, <1>5, <1>6 DEF Next, Pass, Environment

(* The initial cluster: nothing is upgrading and the administrator's       *)
(* cordons are the nodes' cordons.                                         *)
LEMMA CordonInit == Init => CordonInv
  BY SlotInit, ClassFacts
     DEF Init, CordonInv, CordonedWhileUpgrading, MarkerInv, MarkerOK,
     CordonedPhases, NumStages

(* CordonInv holds in every reachable state when the administrator         *)
(* (un)cordons only nodes that are not being upgraded and the other phase  *)
(* writers act only between passes.                                        *)
THEOREM CordonInvariant ==
    ASSUME ~EnvDuringPass, AdminPhases \subseteq IdlePhases
    PROVE  Spec => []CordonInv
<1>1. CordonInv /\ [Next]_vars => CordonInv'
  BY SlotStep, MarkerStep DEF CordonInv
<1>2. QED
  BY <1>1, CordonInit, PTL DEF Spec

(* CordonedWhileUpgrading, checked by TLC in the core and policyoff runs:  *)
(* from WaitForJobsRequired to PodRestartRequired, and in Failed, a node   *)
(* is cordoned, for every node set and policy. ProcessCordonRequiredNodes  *)
(* records WaitForJobsRequired only after Cordon succeeded, the drain job  *)
(* cordons again, and only ProcessUncordonRequiredNodes uncordons.         *)
THEOREM CordonedWhileUpgradingHolds ==
    ASSUME ~EnvDuringPass, AdminPhases \subseteq IdlePhases
    PROVE  Spec => []CordonedWhileUpgrading
<1>1. CordonInv => CordonedWhileUpgrading
  BY DEF CordonInv
<1>2. QED
  BY <1>1, CordonInvariant, PTL

(* NoSilentUncordon, checked by TLC in the core, admin and policyoff runs: *)
(* the upgrade never uncordons a node the administrator cordoned, even     *)
(* when collaborator calls fail: the annotation stamped at the entry into  *)
(* the upgrade sends such a node from its last restart straight to Done.   *)
THEOREM NoSilentUncordonHolds ==
    ASSUME ~EnvDuringPass, AdminPhases \subseteq IdlePhases
    PROVE  Spec => NoSilentUncordon
<1>1. ASSUME CordonInv, [Next]_vars, NEW n \in Node,
             intent[n], unsched[n], ~unsched'[n]
      PROVE  ~intent'[n]
  <2>1. CASE \E b \in BOOLEAN : SetNodeSchedulable(n, b)
    BY <1>1, <2>1, CordonTypes DEF SetNodeSchedulable
  <2>2. CASE ProcessUncordonRequiredNode(n)
    <3>1. phase[n] = UpgradeStateUncordonRequired
      BY <1>1, <2>2, Visit, PhaseClasses DEF ProcessUncordonRequiredNode, NumStages
    <3>2. QED
      BY <1>1, <2>2, <3>1 DEF CordonInv, MarkerInv, MarkerOK
  <2>3. CASE ~(\E b \in BOOLEAN : SetNodeSchedulable(n, b))
             /\ ~ProcessUncordonRequiredNode(n)
    <3>1. unsched'[n] = unsched[n] \/ unsched'[n] = TRUE
      <4>1. ASSUME NEW m \in Node, NEW b \in BOOLEAN,
                   SetNodeSchedulable(m, b)
            PROVE  unsched'[n] = unsched[n]
        <5>1. m # n
          BY <2>3, <4>1
        <5>2. QED
          BY <1>1, <4>1, <5>1, CordonTypes DEF SetNodeSchedulable
      <4>2. ASSUME NEW m \in Node, ProcessUncordonRequiredNode(m)
            PROVE  unsched'[n] = unsched[n]
        <5>1. m # n
          BY <2>3, <4>2
        <5>2. QED
          BY <1>1, <4>2, <5>1, CordonTypes DEF ProcessUncordonRequiredNode,
             nodeVars
      <4>3. ASSUME NEW m \in Node,
                   \/ ProcessCordonRequiredNode(m)
                   \/ DrainJob(m)
            PROVE  unsched'[n] = unsched[n] \/ unsched'[n] = TRUE
        BY <1>1, <4>3, CordonTypes DEF ProcessCordonRequiredNode, DrainJob,
           nodeVars
      <4>4. QED
        BY <1>1, <4>1, <4>2, <4>3
           DEF Next, Pass, Environment, vars, nodeVars,
           ApplyState, FinishStage, FinishPass, SchedulePodsRestart,
           ProcessWaitForJobsRequiredNodes, ProcessPodDeletionRequiredNodes,
           ProcessDrainNodes, ProcessDoneOrUnknownNode,
           ProcessUpgradeRequiredNode, ProcessWaitForJobsRequiredNode,
           ProcessDrainNode, ProcessPodRestartNode, ProcessUpgradeFailedNode,
           FinishUpgrade, UpdateDaemonSet, RecreateDriverPod, DriverPodReady,
           PodCompletionJob, PodEvictionJob
    <3>2. QED
      BY <1>1, <3>1
  <2>4. QED
    BY <2>1, <2>2, <2>3
<1>2. CordonInv /\ [Next]_vars =>
        \A n \in Node : (intent[n] /\ unsched[n] /\ ~unsched'[n]) => ~intent'[n]
  BY <1>1
<1>3. QED
  BY <1>2, CordonInvariant, PTL DEF NoSilentUncordon, Spec

-----------------------------------------------------------------------------
(* Schedulability restored.                                                *)

(* The phases in which a node is not being upgraded: SchedulabilityRestored *)
(* holds the node to the administrator's cordon there.                     *)
RestPhases == IdlePhases \cup {UpgradeStateUpgradeRequired}

(* Without the administrator, the annotation is set only on a node that    *)
(* was cordoned when it entered the upgrade, so a node that is not being   *)
(* upgraded has the cordon it started with; the snapshot of a running pass *)
(* saw the same.                                                           *)
RestoreOK(n) ==
    /\ phase[n] \in RestPhases => unsched[n] = intent[n]
    /\ marker[n] => intent[n]

SnapRestoreOK(n) ==
    /\ snap[n].marker => intent[n]
    /\ snap[n].phase \in IdlePhases /\ snap[n].unsched => intent[n]

RestParts ==
    /\ \A n \in Node : RestoreOK(n)
    /\ stage \in 1..NumStages => \A n \in Node : SnapRestoreOK(n)

(* The inductive invariant behind SchedulabilityRestored when the          *)
(* administrator never acts while a node is in an upgrade phase (nor on    *)
(* an idle node: see the stale_marker run).                                *)
RestoreInv == CordonInv /\ RestParts

-----------------------------------------------------------------------------
(* Lemmas for RestoreInv.                                                  *)

(* Which phases are at rest.                                              *)
LEMMA RestFacts ==
    /\ IdlePhases \subseteq RestPhases
    /\ UpgradeStateUpgradeRequired \in RestPhases
    /\ \A p \in {UpgradeStateCordonRequired, UpgradeStateWaitForJobsRequired,
                 UpgradeStatePodDeletionRequired, UpgradeStateDrainRequired,
                 UpgradeStatePodRestartRequired, UpgradeStateFailed,
                 UpgradeStateUncordonRequired} : p \notin RestPhases
  BY DEF RestPhases, IdlePhases, UpgradeStateUnknown, UpgradeStateDone,
     UpgradeStateUpgradeRequired, UpgradeStateCordonRequired,
     UpgradeStateWaitForJobsRequired, UpgradeStatePodDeletionRequired,
     UpgradeStateDrainRequired, UpgradeStatePodRestartRequired,
     UpgradeStateFailed, UpgradeStateUncordonRequired

(* A step that changes the cordon, the annotation and the upgrade state of *)
(* node n only, never changes the administrator's wishes, keeps the        *)
(* snapshot while a pass goes on, and leaves n at rest in order keeps the  *)
(* node and snapshot parts of RestoreInv.                                  *)
LEMMA RestLocal ==
    ASSUME RestoreInv, NEW n \in Node,
           \A m \in Node \ {n} : /\ phase'[m] = phase[m]
                                 /\ unsched'[m] = unsched[m]
                                 /\ marker'[m] = marker[m],
           intent' = intent,
           stage' \in 1..NumStages => stage \in 1..NumStages /\ snap' = snap,
           RestoreOK(n)'
    PROVE  RestParts'
  BY DEF RestoreInv, RestParts, RestoreOK, SnapRestoreOK

(* The same for a processor's write of node n during a pass.              *)
LEMMA RestWrite ==
    ASSUME RestoreInv, NEW n \in Node,
           phase' = phase \/ \E p \in Phases : phase' = [phase EXCEPT ![n] = p],
           unsched' = unsched
               \/ \E b \in BOOLEAN : unsched' = [unsched EXCEPT ![n] = b],
           marker' = marker
               \/ \E b \in BOOLEAN : marker' = [marker EXCEPT ![n] = b],
           intent' = intent,
           stage \in 1..NumStages,
           stage' = 0 \/ (stage' = stage /\ snap' = snap),
           RestoreOK(n)'
    PROVE  RestParts'
<1>1. CordonInv
  BY DEF RestoreInv
<1>2. \A m \in Node \ {n} : /\ phase'[m] = phase[m]
                            /\ unsched'[m] = unsched[m]
                            /\ marker'[m] = marker[m]
  BY <1>1, CordonTypes
<1>3. stage' \in 1..NumStages => stage \in 1..NumStages /\ snap' = snap
  BY DEF NumStages
<1>4. QED
  BY <1>2, <1>3, RestLocal

(* A step that leaves every node's upgrade state, cordon, annotation and   *)
(* the administrator's wishes alone keeps the same parts.                  *)
LEMMA RestFrame ==
    ASSUME RestoreInv, UNCHANGED nodeVars,
           stage' \in 1..NumStages => stage \in 1..NumStages /\ snap' = snap
    PROVE  RestParts'
  BY DEF RestoreInv, RestParts, RestoreOK, SnapRestoreOK, nodeVars

(* The node a processor visits, in the cluster and in its snapshot.       *)
LEMMA RestVisit ==
    ASSUME RestoreInv, NEW n \in Node, n \in todo, stage \in 1..NumStages
    PROVE  /\ CordonInv
           /\ phase[n] = StageOrder[stage]
           /\ snap[n].phase = StageOrder[stage]
           /\ SnapMarkerOK(n) /\ NodeOK(n)
           /\ SnapRestoreOK(n) /\ RestoreOK(n)
<1>1. CordonInv
  BY DEF RestoreInv
<1>2. QED
  BY <1>1, Visit DEF RestoreInv, RestParts

(* ProcessDoneOrUnknownNodes: the node it queues keeps its cordon, and the *)
(* annotation it stamps records a cordon the snapshot saw, which was the   *)
(* administrator's.                                                        *)
LEMMA DoneOrUnknownRestore ==
    ASSUME RestoreInv, NEW n \in Node, ProcessDoneOrUnknownNode(n)
    PROVE  RestParts'
<1>1. /\ stage \in 1..NumStages
      /\ phase[n] \in IdlePhases
      /\ snap[n].phase \in IdlePhases
      /\ SnapRestoreOK(n)
      /\ RestoreOK(n)
      /\ CordonInv
      /\ unsched[n] = intent[n]
  <2>1. stage \in {1, 2} /\ n \in todo
    BY DEF ProcessDoneOrUnknownNode
  <2>2. /\ stage \in 1..NumStages
        /\ phase[n] \in IdlePhases
        /\ snap[n].phase \in IdlePhases
        /\ SnapRestoreOK(n)
        /\ RestoreOK(n)
        /\ CordonInv
    BY <2>1, RestVisit, PhaseClasses, ClassFacts DEF NumStages
  <2>3. QED
    BY <2>2, RestFacts DEF RestoreOK
<1>2. /\ phase \in [Node -> Phases]
      /\ marker \in [Node -> BOOLEAN]
      /\ unsched \in [Node -> BOOLEAN]
  BY <1>1, CordonTypes
<1>3. CASE Fail /\ UNCHANGED <<nodeVars, podVars, envVars>>
  BY <1>3, RestFrame DEF Fail, EndPass
<1>4. CASE /\ GenMismatch(n)
           /\ marker' = [marker EXCEPT ![n] = @ \/ IsNodeUnschedulable(n)]
           /\ \/ Fail /\ UNCHANGED phase
              \/ /\ phase' = [phase EXCEPT ![n] = UpgradeStateUpgradeRequired]
                 /\ Continue(n)
           /\ UNCHANGED <<unsched, intent, podVars, envVars>>
  <2>1. marker'[n] => intent[n]
    BY <1>1, <1>2, <1>4 DEF IsNodeUnschedulable, SnapRestoreOK, RestoreOK
  <2>2. phase'[n] \in RestPhases
    BY <1>1, <1>2, <1>4, RestFacts
  <2>3. RestoreOK(n)'
    BY <1>1, <1>2, <1>4, <2>1, <2>2 DEF RestoreOK
  <2>4. phase' = phase
        \/ \E p \in Phases : phase' = [phase EXCEPT ![n] = p]
    BY <1>4, PhaseFacts
  <2>5. \E b \in BOOLEAN : marker' = [marker EXCEPT ![n] = b]
    BY <1>4
  <2>6. stage' = 0 \/ (stage' = stage /\ snap' = snap)
    BY <1>4, FailEnds DEF Continue
  <2>7. QED
    BY <1>1, <1>4, <2>3, <2>4, <2>5, <2>6, RestWrite
<1>5. CASE /\ ~GenMismatch(n)
           /\ phase' = IF stage = 1
                         THEN [phase EXCEPT ![n] = UpgradeStateDone]
                         ELSE phase
           /\ Continue(n)
           /\ UNCHANGED <<marker, unsched, intent, podVars, envVars>>
  <2>1. phase'[n] \in RestPhases
    BY <1>1, <1>2, <1>5, ClassFacts, RestFacts
  <2>2. RestoreOK(n)'
    BY <1>1, <1>2, <1>5, <2>1 DEF RestoreOK
  <2>3. phase' = phase
        \/ \E p \in Phases : phase' = [phase EXCEPT ![n] = p]
    BY <1>5, PhaseFacts
  <2>4. stage' = stage /\ snap' = snap
    BY <1>5 DEF Continue
  <2>5. QED
    BY <1>1, <1>5, <2>2, <2>3, <2>4, RestWrite
<1>6. QED
  BY <1>3, <1>4, <1>5 DEF ProcessDoneOrUnknownNode

(* A node that is being upgraded and keeps its annotation is in order.    *)
LEMMA Busy ==
    ASSUME RestoreInv, NEW n \in Node, phase'[n] \notin RestPhases,
           marker'[n] = marker[n], intent' = intent
    PROVE  RestoreOK(n)'
  BY DEF RestoreInv, RestParts, RestoreOK

(* ProcessUpgradeRequiredNodes moves a queued node out of rest and keeps   *)
(* its annotation.                                                         *)
LEMMA UpgradeRequiredRestore ==
    ASSUME RestoreInv, NEW n \in Node, ProcessUpgradeRequiredNode(n)
    PROVE  RestParts'
<1>1. stage = 3 /\ CordonInv
  BY DEF ProcessUpgradeRequiredNode, RestoreInv
<1>2. CASE UNCHANGED <<nodeVars, podVars, envVars>>
           /\ (Continue(n) \/ Fail)
  BY <1>2, RestFrame, FailEnds DEF Continue, Fail, EndPass
<1>3. CASE /\ phase' = [phase EXCEPT ![n] = UpgradeStateCordonRequired]
           /\ UNCHANGED <<marker, unsched, intent, podVars, envVars>>
           /\ UNCHANGED <<stage, snap, snapGen, restarts, errs>>
  <2>1. RestoreOK(n)'
    BY <1>1, <1>3, CordonTypes, RestFacts, Busy
  <2>2. \E p \in Phases : phase' = [phase EXCEPT ![n] = p]
    BY <1>3, PhaseFacts
  <2>3. stage \in 1..NumStages
    BY <1>1 DEF NumStages
  <2>4. QED
    BY <1>3, <2>1, <2>2, <2>3, RestWrite
<1>4. QED
  BY <1>2, <1>3 DEF ProcessUpgradeRequiredNode

(* ProcessCordonRequiredNodes cordons a node that is being upgraded.       *)
LEMMA CordonRestore ==
    ASSUME RestoreInv, NEW n \in Node, ProcessCordonRequiredNode(n)
    PROVE  RestParts'
<1>1. /\ stage = 4 /\ CordonInv
      /\ phase[n] = UpgradeStateCordonRequired
  BY RestVisit, PhaseClasses DEF ProcessCordonRequiredNode, NumStages
<1>2. CASE Fail /\ UNCHANGED <<nodeVars, podVars, envVars>>
  BY <1>2, RestFrame, FailEnds
<1>3. CASE /\ unsched' = [unsched EXCEPT ![n] = TRUE]
           /\ \/ Fail /\ UNCHANGED phase
              \/ /\ phase' = [phase EXCEPT ![n] = UpgradeStateWaitForJobsRequired]
                 /\ Continue(n)
           /\ UNCHANGED <<marker, intent, podVars, envVars>>
  <2>1. phase'[n] \in {UpgradeStateCordonRequired,
                       UpgradeStateWaitForJobsRequired}
    BY <1>1, <1>3, CordonTypes
  <2>2. RestoreOK(n)'
    BY <1>3, <2>1, RestFacts, Busy
  <2>3. phase' = phase
        \/ \E p \in Phases : phase' = [phase EXCEPT ![n] = p]
    BY <1>3, PhaseFacts
  <2>4. \E b \in BOOLEAN : unsched' = [unsched EXCEPT ![n] = b]
    BY <1>3
  <2>5. stage' = 0 \/ (stage' = stage /\ snap' = snap)
    BY <1>3, FailEnds DEF Continue
  <2>6. stage \in 1..NumStages
    BY <1>1 DEF NumStages
  <2>7. QED
    BY <1>3, <2>2, <2>3, <2>4, <2>5, <2>6, RestWrite
<1>4. QED
  BY <1>2, <1>3 DEF ProcessCordonRequiredNode

(* ProcessWaitForJobsRequiredNodes and ProcessDrainNodes move a node       *)
(* between upgrade phases.                                                 *)
LEMMA WaitDrainRestore ==
    ASSUME RestoreInv, NEW n \in Node,
           ProcessWaitForJobsRequiredNode(n) \/ ProcessDrainNode(n)
    PROVE  RestParts'
<1>1. /\ stage \in {5, 7} /\ CordonInv
      /\ phase[n] \in {UpgradeStateWaitForJobsRequired, UpgradeStateDrainRequired}
  BY RestVisit, PhaseClasses
     DEF ProcessWaitForJobsRequiredNode, ProcessDrainNode, NumStages
<1>2. phase'[n] \in {phase[n], UpgradeStatePodDeletionRequired,
                     UpgradeStatePodRestartRequired}
  BY <1>1, CordonTypes DEF ProcessWaitForJobsRequiredNode, ProcessDrainNode
<1>3. RestoreOK(n)'
  BY <1>1, <1>2, RestFacts, Busy
     DEF ProcessWaitForJobsRequiredNode, ProcessDrainNode
<1>4. QED
  BY <1>1, <1>3, CordonTypes, RestWrite, FailEnds, PhaseFacts
     DEF ProcessWaitForJobsRequiredNode, ProcessDrainNode, Continue, NumStages

(* FinishUpgrade: a node whose snapshot carries the annotation goes to     *)
(* Done still cordoned, which is what the administrator wanted; any other  *)
(* node goes to UncordonRequired.                                          *)
LEMMA FinishUpgradeRestore ==
    ASSUME RestoreInv, NEW n \in Node, n \in todo, stage \in {8, 9},
           FinishUpgrade(n)
    PROVE  RestParts'
<1>1. /\ CordonInv
      /\ phase[n] \in {UpgradeStatePodRestartRequired, UpgradeStateFailed}
      /\ NodeOK(n) /\ SnapRestoreOK(n) /\ RestoreOK(n)
  BY RestVisit, PhaseClasses DEF NumStages
<1>2. unsched[n] /\ (snap[n].marker => intent[n]) /\ (marker[n] => intent[n])
  BY <1>1, ClassFacts DEF NodeOK, SnapRestoreOK, RestoreOK
<1>3. CASE /\ ~HasInitialStateAnnotation(n)
           /\ phase' = [phase EXCEPT ![n] = UpgradeStateUncordonRequired]
           /\ Continue(n)
           /\ UNCHANGED marker
           /\ UNCHANGED <<unsched, intent, podVars, envVars>>
  <2>1. RestoreOK(n)'
    BY <1>1, <1>3, CordonTypes, RestFacts, Busy
  <2>2. \E p \in Phases : phase' = [phase EXCEPT ![n] = p]
    BY <1>3, PhaseFacts
  <2>3. stage \in 1..NumStages /\ stage' = stage /\ snap' = snap
    BY <1>3 DEF Continue, NumStages
  <2>4. QED
    BY <1>3, <2>1, <2>2, <2>3, RestWrite
<1>4. CASE /\ HasInitialStateAnnotation(n)
           /\ phase' = [phase EXCEPT ![n] = UpgradeStateDone]
           /\ \/ marker' = [marker EXCEPT ![n] = FALSE] /\ Continue(n)
              \/ Fail /\ UNCHANGED marker
           /\ UNCHANGED <<unsched, intent, podVars, envVars>>
  <2>1. intent[n]
    BY <1>2, <1>4 DEF HasInitialStateAnnotation
  <2>2. phase'[n] = UpgradeStateDone /\ unsched'[n] /\ (marker'[n] => intent[n])
    BY <1>1, <1>2, <1>4, CordonTypes
  <2>3. RestoreOK(n)'
    BY <1>4, <2>1, <2>2, ClassFacts, RestFacts DEF RestoreOK
  <2>4. \E p \in Phases : phase' = [phase EXCEPT ![n] = p]
    BY <1>4, PhaseFacts
  <2>5. marker' = marker \/ \E b \in BOOLEAN : marker' = [marker EXCEPT ![n] = b]
    BY <1>4
  <2>6. stage' = 0 \/ (stage' = stage /\ snap' = snap)
    BY <1>4, FailEnds DEF Continue
  <2>7. stage \in 1..NumStages
    BY DEF NumStages
  <2>8. QED
    BY <1>4, <2>3, <2>4, <2>5, <2>6, <2>7, RestWrite
<1>5. QED
  BY <1>3, <1>4 DEF FinishUpgrade

(* ProcessPodRestartNodes and ProcessUpgradeFailedNodes.                  *)
LEMMA PodRestartRestore ==
    ASSUME RestoreInv, NEW n \in Node,
           ProcessPodRestartNode(n) \/ ProcessUpgradeFailedNode(n)
    PROVE  RestParts'
<1>1. stage \in {8, 9} /\ n \in todo
  BY DEF ProcessPodRestartNode, ProcessUpgradeFailedNode
<1>2. CASE FinishUpgrade(n)
  BY <1>1, <1>2, FinishUpgradeRestore
<1>3. CASE UNCHANGED nodeVars /\ (stage' = 0 \/ (stage' = stage /\ snap' = snap))
  BY <1>1, <1>3, RestFrame DEF NumStages
<1>4. QED
  BY <1>2, <1>3, FailEnds DEF ProcessPodRestartNode, ProcessUpgradeFailedNode,
     Continue

(* ProcessUncordonRequiredNodes uncordons a node the administrator did not *)
(* cordon and records Done.                                                *)
LEMMA UncordonRestore ==
    ASSUME RestoreInv, NEW n \in Node, ProcessUncordonRequiredNode(n)
    PROVE  RestParts'
<1>1. /\ stage = 10 /\ CordonInv
      /\ phase[n] = UpgradeStateUncordonRequired
      /\ NodeOK(n) /\ RestoreOK(n)
  BY RestVisit, PhaseClasses DEF ProcessUncordonRequiredNode, NumStages
<1>2. ~intent[n]
  BY <1>1 DEF NodeOK, MarkerOK
<1>3. CASE Fail /\ UNCHANGED <<nodeVars, podVars, envVars>>
  BY <1>3, RestFrame, FailEnds
<1>4. CASE /\ unsched' = [unsched EXCEPT ![n] = FALSE]
           /\ \/ Fail /\ UNCHANGED phase
              \/ /\ phase' = [phase EXCEPT ![n] = UpgradeStateDone]
                 /\ Continue(n)
           /\ UNCHANGED <<marker, intent, podVars, envVars>>
  <2>1. /\ phase'[n] \in {UpgradeStateUncordonRequired, UpgradeStateDone}
        /\ unsched'[n] = FALSE
        /\ marker'[n] = marker[n]
    BY <1>1, <1>4, CordonTypes
  <2>2. RestoreOK(n)'
    <3>1. intent' = intent /\ (marker[n] => intent[n])
      BY <1>1, <1>4 DEF RestoreOK
    <3>2. CASE phase'[n] = UpgradeStateUncordonRequired
      BY <2>1, <3>1, <3>2, RestFacts, Busy
    <3>3. CASE phase'[n] = UpgradeStateDone
      BY <1>1, <1>2, <2>1, <3>1, <3>3, CordonTypes DEF RestoreOK
    <3>4. QED
      BY <2>1, <3>2, <3>3
  <2>3. phase' = phase
        \/ \E p \in Phases : phase' = [phase EXCEPT ![n] = p]
    BY <1>4, PhaseFacts
  <2>4. \E b \in BOOLEAN : unsched' = [unsched EXCEPT ![n] = b]
    BY <1>4
  <2>5. stage' = 0 \/ (stage' = stage /\ snap' = snap)
    BY <1>4, FailEnds DEF Continue
  <2>6. stage \in 1..NumStages
    BY <1>1 DEF NumStages
  <2>7. QED
    BY <1>4, <2>2, <2>3, <2>4, <2>5, <2>6, RestWrite
<1>5. QED
  BY <1>3, <1>4 DEF ProcessUncordonRequiredNode

(* A collaborator's job moves its node between upgrade phases.            *)
LEMMA JobRestore ==
    ASSUME RestoreInv, NEW n \in Node,
           PodCompletionJob(n) \/ PodEvictionJob(n) \/ DrainJob(n)
    PROVE  RestParts'
<1>1. CordonInv
  BY DEF RestoreInv
<1>2. \E p \in {UpgradeStatePodDeletionRequired, UpgradeStateDrainRequired,
                UpgradeStatePodRestartRequired, UpgradeStateFailed} :
         phase' = [phase EXCEPT ![n] = p]
  BY DEF PodCompletionJob, PodEvictionJob, DrainJob
<1>3. /\ unsched' = unsched \/ unsched' = [unsched EXCEPT ![n] = TRUE]
      /\ marker' = marker /\ intent' = intent
      /\ stage' = stage /\ snap' = snap
  BY DEF PodCompletionJob, PodEvictionJob, DrainJob, passVars
<1>4. phase'[n] \notin RestPhases
  BY <1>1, <1>2, CordonTypes, RestFacts
<1>5. RestoreOK(n)'
  BY <1>3, <1>4, Busy
<1>6. \A m \in Node \ {n} : /\ phase'[m] = phase[m]
                           /\ unsched'[m] = unsched[m]
                           /\ marker'[m] = marker[m]
  BY <1>1, <1>2, <1>3, CordonTypes
<1>7. QED
  BY <1>3, <1>5, <1>6, RestLocal

(* ApplyState's snapshot sees what the cluster holds.                     *)
LEMMA ApplyStateRestore ==
    ASSUME RestoreInv, ApplyState
    PROVE  RestParts'
<1>1. UNCHANGED nodeVars
  BY DEF ApplyState
<1>2. \A n \in Node : RestoreOK(n)'
  BY <1>1 DEF RestoreInv, RestParts, RestoreOK, nodeVars
<1>3. \A n \in Node : SnapRestoreOK(n)'
  BY <1>1, RestFacts DEF ApplyState, RestoreInv, RestParts, RestoreOK,
     SnapRestoreOK, nodeVars
<1>4. QED
  BY <1>2, <1>3 DEF RestParts

(* Every step keeps RestoreInv when the administrator never acts and the  *)
(* other phase writers act between passes.                                 *)
LEMMA RestoreStep ==
    ASSUME RestoreInv, [Next]_vars, ~EnvDuringPass, AdminPhases = {}
    PROVE  RestoreInv'
<1>1. CordonInv'
  <2>1. CordonInv /\ AdminPhases \subseteq IdlePhases
    BY DEF RestoreInv
  <2>2. SlotInv'
    BY <2>1, SlotStep DEF CordonInv
  <2>3. (CordonedWhileUpgrading /\ MarkerInv)'
    BY <2>1, MarkerStep
  <2>4. QED
    BY <2>2, <2>3 DEF CordonInv
<1> SUFFICES RestParts'
  BY <1>1 DEF RestoreInv
<1>2. CASE ApplyState
  BY <1>2, ApplyStateRestore
<1>3. CASE FinishStage \/ FinishPass \/ SchedulePodsRestart
       \/ ProcessWaitForJobsRequiredNodes \/ ProcessPodDeletionRequiredNodes
       \/ ProcessDrainNodes
  <2>1. UNCHANGED nodeVars
    BY <1>3 DEF FinishStage, FinishPass, SchedulePodsRestart,
       ProcessWaitForJobsRequiredNodes, ProcessPodDeletionRequiredNodes,
       ProcessDrainNodes
  <2>2. stage \in 1..NumStages
    BY <1>3, PhaseClasses DEF FinishStage, FinishPass, SchedulePodsRestart,
       ProcessWaitForJobsRequiredNodes, ProcessPodDeletionRequiredNodes,
       ProcessDrainNodes, LoopStages, NumStages
  <2>3. stage' = 0 \/ snap' = snap
    BY <1>3, FailEnds DEF FinishStage, FinishPass, SchedulePodsRestart,
       ProcessWaitForJobsRequiredNodes, ProcessPodDeletionRequiredNodes,
       ProcessDrainNodes, Advance, EndPass
  <2>4. QED
    BY <2>1, <2>2, <2>3, RestFrame DEF NumStages
<1>4. ASSUME NEW n \in Node,
             \/ ProcessDoneOrUnknownNode(n)
             \/ ProcessUpgradeRequiredNode(n)
             \/ ProcessCordonRequiredNode(n)
             \/ ProcessWaitForJobsRequiredNode(n)
             \/ ProcessDrainNode(n)
             \/ ProcessPodRestartNode(n)
             \/ ProcessUpgradeFailedNode(n)
             \/ ProcessUncordonRequiredNode(n)
      PROVE  RestParts'
  BY <1>4, DoneOrUnknownRestore, UpgradeRequiredRestore, CordonRestore,
     WaitDrainRestore, PodRestartRestore, UncordonRestore
<1>5. ASSUME NEW n \in Node, NEW b \in BOOLEAN, SetNodeSchedulable(n, b)
      PROVE  FALSE
  BY <1>5 DEF SetNodeSchedulable
<1>6. ASSUME NEW n \in Node,
             PodCompletionJob(n) \/ PodEvictionJob(n) \/ DrainJob(n)
      PROVE  RestParts'
  BY <1>6, JobRestore
<1>7. CASE \/ UpdateDaemonSet
           \/ \E n \in Node : RecreateDriverPod(n) \/ DriverPodReady(n)
           \/ UNCHANGED vars
  BY <1>7, RestFrame DEF UpdateDaemonSet, RecreateDriverPod,
     DriverPodReady, vars, passVars
<1>8. QED
  BY <1>2, <1>3, <1>4, <1>5, <1>6, <1>7 DEF Next, Pass, Environment

(* The initial cluster: every node has the cordon the administrator gave   *)
(* it and no annotation.                                                   *)
LEMMA RestoreInit == Init => RestoreInv
  BY CordonInit, ClassFacts, RestFacts
     DEF Init, RestoreInv, RestParts, RestoreOK, NumStages

(* SchedulabilityRestored, checked by TLC in the core and policyoff runs:  *)
(* for every node set and policy, a node that is not being upgraded (Done, *)
(* Unknown or UpgradeRequired) is cordoned exactly when the administrator  *)
(* cordoned it, provided the administrator never (un)cordons a node the    *)
(* upgrade controller manages (the stale_marker and cordon_while_waiting   *)
(* runs show what happens otherwise). A node with the initial-state        *)
(* annotation skips the uncordon, any other is uncordoned before Done.     *)
THEOREM SchedulabilityRestoredHolds ==
    ASSUME ~EnvDuringPass, AdminPhases = {}
    PROVE  Spec => []SchedulabilityRestored
<1>1. RestoreInv /\ [Next]_vars => RestoreInv'
  BY RestoreStep
<1>2. RestoreInv => SchedulabilityRestored
  BY DEF RestoreInv, RestParts, RestoreOK, RestPhases, IdlePhases,
     SchedulabilityRestored
<1>3. QED
  BY <1>1, <1>2, RestoreInit, PTL DEF Spec

=============================================================================
