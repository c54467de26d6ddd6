# Verification of the cluster upgrade state manager

This directory holds a TLA+ model of `src/pkg/upgrade/upgrade_state.go`, with
TLC configurations that check it and TLAPS proofs about it.
`ClusterUpgradeStateManager.ApplyState` drives a rolling driver upgrade through
ten phases, one reconciliation pass at a time.

## The system and its parts

| Part | Where | In the model |
|---|---|---|
| `ApplyState` and its ten processors | `upgrade_state.go` 98-546 | `UpgradeStateManager`: one action per visited node, or per batch call |
| Snapshot (`NodeUpgradeState`, `ClusterUpgradeState`) | 35-54 | `snap`, `snapGen`, copied from the cluster by `ApplyState` |
| `isDriverPodInSync`, `skipNodeUpgrade`, `isNodeUnschedulable` | 548-588 | predicates on the snapshot |
| State Provider, Cordon Manager | outside `src/` | the variables `phase`, `marker` and `unsched`; every call may fail |
| Pod Manager, Drain Manager jobs | outside `src/` (spec §2, §6) | the `jobs` variable, plus `PodCompletionJob`, `PodEvictionJob` and `DrainJob` |
| DaemonSet controller, kubelet, administrator | outside `src/` | `UpdateDaemonSet`, `RecreateDriverPod`, `DriverPodReady`, `SetNodeSchedulable` |
| `NewClusterUpdateStateManager` | 70-91 | not modelled: it only fills a struct |

### How the parts interact

A pass works like this:

1. `ApplyState` takes the snapshot.
2. It counts `upgradesInProgress` and `upgradesAvailable` (lines 123-137).
3. It calls the processors in a fixed order and returns at the first error. Each processor:
   - reads the snapshot's node list for one phase;
   - writes phases, annotations and cordons through the collaborators;
   - or schedules an asynchronous job.

The jobs end out of band and then write the node's phase themselves. That write is blind: it does not check the node's current phase. Nothing is rolled back when a pass fails; the next pass starts from a new snapshot.

## The model (`UpgradeStateManager.tla`)

**State.** The cluster variables are:
- per node: `phase`, `marker` (the initial-state annotation), `unsched` and the driver pod (`podGen`, `podReady`, `podTerm`);
- the DaemonSet generation `dsGen`;
- the pending `jobs`;
- `drainSel`, the number of skip-drain clauses in the caller's drain selector.

A pass is modelled by:
- `stage`: the processor currently running (0 when no pass runs);
- `todo`: the nodes of its list not yet visited;
- `limit`, `snap`, `snapGen`, `restarts`.

`errs` counts the failures so far and is bounded by `MaxErrors`. `intent` is a ghost variable: the schedulability the administrator last asked for.

**Actions.**
- `ApplyState` starts a pass.
- The per-node processors are `ProcessDoneOrUnknownNode`, `ProcessUpgradeRequiredNode`, `ProcessCordonRequiredNode`, `ProcessWaitForJobsRequiredNode` (no selector), `ProcessDrainNode` (drain disabled), `ProcessPodRestartNode`, `ProcessUpgradeFailedNode` and `ProcessUncordonRequiredNode`. Each handles one node of the current list.
- The batch actions are `ProcessWaitForJobsRequiredNodes`, `ProcessPodDeletionRequiredNodes`, `ProcessDrainNodes` and `SchedulePodsRestart`. Each makes the single collaborator call of its processor.
- `FinishStage` and `FinishPass` end a processor and end the pass.
- `Fail` is any collaborator call returning an error: it ends the pass.

Every call the code makes can fail, in the code's order. For example, `ProcessCordonRequiredNode` may fail:
- before the cordon;
- after the cordon but before the state write.

Likewise, `FinishUpgrade` may fail after the Done write but before the annotation is removed. The discarded error at line 328 is modelled as the node staying where it was.

**Abstractions.**
- Nodes are model values.
- A driver pod is a generation, a readiness flag and a terminating flag. The container list is folded into readiness, as `isDriverPodInSync` requires Running, at least one container and all containers ready.
- The drain selector string is abstracted to the number of clauses appended to it.
- `EnvDuringPass` chooses whether the administrator and the jobs may act while a pass runs (TRUE) or only between passes (FALSE). The spec (§5) mandates a single writer, and the code cannot enforce it. The passing runs and the proofs take FALSE. The `stale_snapshot` run takes TRUE and shows what breaks.

## Properties

- `SlotBound`: with `MaxParallelUpgrades = k > 0`, at most k nodes are in progress (spec §4.3).
- `CordonedWhileUpgrading`: from WaitForJobs to PodRestart, and in Failed, a node is cordoned.
- `SchedulabilityRestored`: in Unknown, Done and UpgradeRequired, a node's cordon is what the administrator asked for (spec §4.4, §8).
- `NoSilentUncordon` (action property): the upgrade never uncordons a node the administrator cordoned (spec §4.4).
- `JobsMatchPhase`: every pending job belongs to a node still in the phase the job is for, so ending the job never rewinds the node.
- `PolicyUnchanged`: `ApplyState` leaves its policy argument as it found it (the doc comment at line 96).
- `UpgradeSettles` (liveness): every out-of-date node without the skip label ends in one of these states:
  - upgraded;
  - held: stuck in Failed on an old pod, or waiting on a collaborator job that never ends;
  - waiting in UpgradeRequired behind slots that held nodes fill.

  It is checked under the fairness of the code's own loop and of the Kubernetes controllers only (`LiveSpec`). So the code itself never strands a node, and any permanent wait is on something outside the code.
- `UpgradeCompletes` (liveness): every such node ends upgraded. This is the spec's promise (§4.2, §7).
- `LifecycleSpec`: the manager implements the abstract lifecycle in `UpgradeLifecycle.tla` (see below).

## Runs

All runs use `MC_UpgradeStateManager.tla`, with 2 or 3 nodes and 2 DaemonSet generations.

| run | cfg | expect | what it shows |
|---|---|---|---|
| core | `MC_core.cfg` | pass | 3 nodes, 2 slots, wait and drain on, 2 failures, jobs only between passes. All safety properties hold (530k states). |
| admin | `MC_admin.cfg` | pass | An administrator acting on idle nodes, between passes and with no failed call, gets the cordon they asked for. The `stale_marker` run shows the case with a failed call. |
| policyoff | `MC_policyoff.cfg` | pass | No selector, no drain, unlimited slots and a skipped node: the fall-through paths keep nodes cordoned. |
| live | `MC_live.cfg` | pass | Under `LiveSpec`, with one slot and a skipped node, `UpgradeSettles` holds (38k states). |
| refine | `MC_refine.cfg` | pass | With one slot for the two upgradable nodes, so that the lifecycle's cap guard binds, and a skipped node, `Spec` implements `LifecycleSpec` (38k states). |
| failed_stuck | `MC_failed_stuck.cfg` | violation | Under `LiveJobsSpec`, where every job eventually ends, a node failed by an eviction or drain job never leaves Failed and holds the only slot, so `UpgradeCompletes` fails. |
| cordon_while_waiting | `MC_cordon_while_waiting.cfg` | violation | A cordon made while the node waits for a slot is undone. |
| stale_marker | `MC_stale_marker.cfg` | violation | A failed state write after the marker was stamped leaves a stale marker, and the next upgrade leaves the node cordoned. |
| stale_snapshot | `MC_stale_snapshot.cfg` | violation | Jobs that end mid-pass are rescheduled from the stale snapshot, and a late job breaks the slot cap. |
| policy_reuse | `MC_policy_reuse.cfg` | violation | Reusing the policy object makes the drain selector grow on every pass. |

Why these bounds are enough:
- **Slots and nodes.** Three nodes with two slots let one node wait for a slot while two are in progress. That waiting node is what `SlotBound` is about.
- **Generations.** Two DaemonSet generations are enough for a node to need an upgrade and complete it. It can also reach Done and then need a new upgrade.
- **Failures.** Two failures let a pass fail at one point and the retry fail at another.
- **Coverage.** Together, the passing runs fire every action and every disjunct.

## Fairness (`LiveSpec`, `LiveJobsSpec`)

`LiveSpec` is `Spec` with these fairness conditions, and no others:

| Condition | Why the code justifies it |
|---|---|
| `WF_vars(Pass)` | The controller calls `ApplyState` on every periodic reconcile, so a pass that can go on does go on, and a new one starts. |
| `WF` on `RecreateDriverPod(n)` | The DaemonSet controller recreates a deleted pod. |
| `WF` on `DriverPodReady(n)` | The kubelet eventually runs a recreated pod. |

The administrator, `UpdateDaemonSet` and the collaborators' jobs get no fairness in `LiveSpec`. Nothing obliges the first two to act. The code sets no timeout on a job, and a wait job whose workloads never finish never ends.

`LiveJobsSpec` adds `JobFairness`: strong fairness on the three jobs, which is the Pod and Drain Managers' own promise. With `EnvDuringPass = FALSE` a job can end only between passes, so it is enabled only intermittently and needs `SF`. The `failed_stuck` finding uses `LiveJobsSpec`, so it holds even when every job ends. The failure budget `MaxErrors` bounds `Fail`, so failures cannot go on forever.

The live runs use three nodes, one slot and a skipped node `n3`. One slot is the case where a stuck node blocks everyone else.

## Findings

Each violation run records a disagreement between the code and the spec or a doc comment. `PROJECT.json` gives the lines.

1. **Cordon check only at entry.** The administrator cordon is recorded only at Unknown/Done → UpgradeRequired (line 225), so a later cordon is undone by the uncordon.
2. **Annotation written before the state.** The annotation is written before the state (lines 230/235) and cleared only after Done. A failure in between leaves a stale annotation.
3. **Concurrent jobs and the stale snapshot.** The spec's single-writer premise does not hold for the collaborators' jobs. The pass reschedules jobs from its stale snapshot, and the late completion breaks the slot cap.
4. **Failed is absorbing.** `ProcessUpgradeFailedNodes` (line 485) waits for an in-sync pod, but nothing queues the old pod of a Failed node for restart. A node failed by an eviction or drain job stays Failed forever, and with one slot it blocks every other node (run `failed_stuck`). The spec (§4.2, §7) says a Failed node can still reach Done.
5. **Policy mutated in place.** `ProcessDrainNodes` mutates the caller's `DrainSpec.PodSelector` (lines 397-402), although `ApplyState` is documented as stateless and idempotent.

## Proofs (`UpgradeStateManagerProofs.tla`)

They hold for every finite `Node` and every policy, under `ConstAssumption`:
- `Node` is finite.
- The numeric constants are naturals, with `MaxGen > 0`.
- The flags are Booleans.

**`TypeCorrect`** (`Spec => []TypeOK`). Its step lemma `TypeStep` has one case per action, using lemmas for `Fail`, `Continue` and `Advance`.

**`SlotInvariant` and `SlotBoundHolds`** (`~EnvDuringPass` ⇒ `Spec => []SlotInv` and `Spec => []SlotBound`). `SlotBound` is not inductive on its own. For example, a node written by `ProcessUpgradeRequiredNode` is counted in `limit`, not in the snapshot. The strengthening `SlotInv` adds:
- `SnapshotExact`: during a pass, every node in `todo`, or listed under a later processor's phase, has its live phase equal to the snapshot's. The current list is the snapshot's list for that phase, which fixes the list of the batch processors.
- `LimitBound`: from `ApplyState` to the end of `ProcessUpgradeRequiredNodes`, the nodes in progress plus `limit` is at most `MaxParallelUpgrades`, and `limit >= 0`.
- `JobsMatchPhase` and `JobsAllowed`: wait jobs exist only under a selector, and drain jobs only with drain enabled.

The argument has four parts:
- **Per-node processors.** A processor visits only nodes whose live phase is its own phase. Its writes either keep the node in or out of progress, or enter progress by spending one `limit` slot (stage 3), or leave progress.
- **Jobs.** A job moves a node between in-progress phases.
- **Start of a pass.** `ApplyState` sets `limit` to `MaxParallelUpgrades` minus the count.
- **Counting.** The cardinality steps use `FS_AddElement` and `FS_Subset` through the lemma `InProgressWrite`.

Before the proof, TLC checked `SlotInv` as an invariant of the core configuration. It is a device of the proof, so no run lists it as a property.

The `stale_snapshot` run shows that the assumption `~EnvDuringPass` is needed.

**`JobsMatchPhaseHolds`** follows from `SlotInv`.

## Cordon and annotation proofs (`UpgradeStateManagerCordonProofs.tla`)

This module extends the refinement module. Its proofs hold for every finite `Node` and every policy.

**`CordonInvariant`**, **`CordonedWhileUpgradingHolds`** and **`NoSilentUncordonHolds`** rest on two assumptions:
- `~EnvDuringPass`: the jobs and the administrator act only between passes. An administrator's cordon of an idle node after the pass took its snapshot would be undone just as in finding 1.
- `AdminPhases ⊆ {Unknown, Done}`: the administrator (un)cordons only idle nodes.

The second assumption is needed. An administrator who cordons a node in an upgrade phase breaks `NoSilentUncordon` (finding 1, run `cordon_while_waiting`).

The inductive invariant `CordonInv` is `SlotInv` plus `CordonedWhileUpgrading` plus `MarkerInv`. `MarkerInv` says three things per node, and repeats the first two for the snapshot:
- an idle node the administrator cordoned is cordoned;
- from UpgradeRequired until the upgrade ends, such a node carries the initial-state annotation;
- a node in UncordonRequired was not cordoned by the administrator.

Together these say that the annotation stamped by `ProcessDoneOrUnknownNodes` records exactly the administrator's cordon. `FinishUpgrade` therefore sends an administrator-cordoned node straight to Done, and every other node to UncordonRequired. `SlotInv` is needed because it makes the snapshot exact for the nodes a processor visits.

The step proof has one lemma per processor (for example `DoneOrUnknownMarker` and `FinishUpgradeMarker`), one for the administrator and one for the jobs. The frame lemmas `CordonLocal` and `WriteLocal` cover the nodes a step does not write.

**`SchedulabilityRestoredHolds`** (`Spec => []SchedulabilityRestored`) assumes `~EnvDuringPass` and `AdminPhases = {}`. The assumption is stronger here, and it is needed. When the administrator uncordons an idle node that still carries a stale annotation, the annotation later leaves the node cordoned after its next upgrade (finding 2, run `stale_marker`).

The inductive invariant `RestoreInv` is `CordonInv` plus the following, per node and for the snapshot:
- a node at rest (Unknown, Done, UpgradeRequired) has the cordon the administrator gave it;
- the annotation is set only on a node the administrator cordoned.

TLC checked `RestoreInv` in the core and policyoff configurations before the proof.

## Abstract lifecycle and refinement

`UpgradeLifecycle.tla` is what the manager promises each node:
- A node is `idle` (Unknown, Done), `queued` (UpgradeRequired) or `upgrading` (every phase counted in `upgradesInProgress`, Failed included).
- `Request` queues an idle node.
- `Start` moves a queued node to upgrading. It requires that the node has no skip label and that a slot is free when there is a cap.
- `Finish` returns an upgrading node to idle.

`UpgradeStateManagerRefinement.tla` maps each node's phase through `LifeOf` (`lifeBar`) and instantiates the lifecycle with `life <- lifeBar`.

The `refine` run checks `LifecycleSpec` as a property. The theorem `Refinement` (`~EnvDuringPass` ⇒ `Spec => LifecycleSpec`) proves it for every finite node set:
- `RefineInit`: all nodes start idle.
- `RefineStep`: from a state of `SlotInv`, every step is a lifecycle step or a stutter. The cases:
  - **Control steps, environment steps and batch calls.** They leave `phase` unchanged.
  - **Per-node processors.** A node in Unknown/Done may only be queued or stay. In UpgradeRequired, a node is started by `ProcessUpgradeRequiredNode` only within `limit`, and `LimitBound` turns that into the lifecycle's slot guard. In-progress processors move a node inside the upgrading class or to Done.
  - **Jobs.** `JobsMatchPhase` puts the node in the job's own phase, so a job moves it between upgrading phases.

The refinement needs the inductive invariant. Without `JobsMatchPhase`, a job's blind write could revive a Done node into PodDeletionRequired: an idle-to-upgrading step that the lifecycle forbids. That is exactly what the `stale_snapshot` run shows when `EnvDuringPass` is TRUE.

## What stays with TLC

Only model-checked:
- liveness: `UpgradeSettles`, and the finding of `failed_stuck`;
- `EnvDuringPass = TRUE`: no passing run and no proof covers it, and the `stale_snapshot` run shows `SlotBound` failing there;
- `SchedulabilityRestored` when the administrator (un)cordons idle nodes and no call fails: run `admin`. That case is outside the proof's `AdminPhases = {}`, because with a failed call it breaks (run `stale_marker`).

TLAPS cannot prove liveness under fairness, or reason about `ENABLED`.

## Not modelled

- Building the snapshot from the API server.
- The internals of the collaborators: only their effects on the phase and the cordon are modelled.
- Logging and events.
- Context cancellation: it behaves like any other failed call, which the model already covers.
- The error path for a null `currentState`: it returns before any state change.

## Plan for later work

- `isDriverPodInSync` over explicit container lists, checked against a reference definition.
- A change of `MaxParallelUpgrades` between passes.
