# Verification of the rqlite operator

The operator of this repository keeps rqlite clusters (a replicated SQLite over
Raft) running on Kubernetes. This directory holds TLA+ models of its
controllers, the TLC configurations that check them, and proofs of the
properties that matter most.

    tlc -workers 4 -config reconcile_safety.cfg MC_ClusterReconciler
    tlapm ScaleDown_proofs.tla

## 1. The system

| Component | State it keeps | Operations | What makes it correct |
|---|---|---|---|
| RqliteCluster controller (`internal/controller/rqlitecluster_controller.go`) | none of its own: the objects in the API server, the status of the RqliteCluster | `Reconcile`: finalizer, services, StatefulSet, image, HPA, replicas, disruption budget, status | what the spec asks for is applied whatever happens between two calls; a scale-down keeps to the quorum rule unless the StatefulSet changed unseen; nothing is done for a deleted cluster; the status is right at rest |
| Rolling update manager (`internal/managers/rolling_update_manager.go`) | `status.updateStatus` | `HandleRollingUpdate`: preconditions, image patch, timeout, rollback | an update is applied when the cluster has quorum; a failed one is rolled back |
| Scaling manager (`internal/managers/scaling_manager.go`) | the HPA `<cluster>-hpa`; the PVC sizes | `ReconcileScaling` | the HPA exists iff asked for; PVCs only grow, up to their maximum |
| Quorum-aware scaler (`internal/managers/quorum_aware_scaler.go`) | the same HPA; `spec.replicas` | `CreateOrUpdateHPA`, `EvaluateIntelligentScaling` | replica counts and bounds are odd |
| RqliteBackup controller | phase of the RqliteBackup, one Job | `Reconcile` | Succeeded only if its Job wrote the file |
| RqliteRestore controller | phase of the RqliteRestore, one Job | `Reconcile`: Pending, Loading, Succeeded or Failed | data is loaded once, from a backup that succeeded, and the phase tells the truth |
| RqliteScheduledBackup controller | `lastScheduledTime`; the RqliteBackups it created | `Reconcile`, retention | at most one backup for each tick; after missed ticks the schedule catches up with one; the newest are kept |
| RqliteContinuousBackup controller | `lastBackupTime`, `backupCount`; Jobs; files on a volume | `Reconcile`, retention Jobs | one Job for each interval, and always a next one; no file is deleted before a newer backup was begun |
| Metrics manager and collector | Prometheus metrics | called once in each `Reconcile` | no effect on control |
| Version validator, generated code, `cmd/main.go` | - | - | the first is called by nothing, the others are data and wiring |

**How they interact.** Controllers share no memory. They communicate through
the API server: each reads objects from an informer cache that follows the
server with a delay, and writes to the server, where an update based on an old
version is refused and a merge patch never is. An event of a watched object (the
cluster, and the services and StatefulSet it owns; the disruption budget and the
HPA are not watched) puts the name of the cluster in a work queue; one worker
takes a name at a time, so calls for one cluster never overlap, but users, the StatefulSet controller, kubelets,
the HPA controller and the garbage collector act between any two steps of a call.

**What is hard here.** `Reconcile` is a long sequence of reads and writes with
some twenty early returns; each relies on a later call, caused by an event or a
requeue, to do the rest. Decisions are made on the StatefulSet read early in the
call. The HPA has two managers with different rules. The scale-down rule and the
update precondition both wait for ready pods. `PROJECT.json` lists the hazards,
each at its line, with the property that would notice it going wrong.

## 2. Modules

| Module | What it models |
|---|---|
| `ScalingRules` | quorum, disruption-budget and odd-count arithmetic |
| `ClusterState` | objects, informer caches, worker state; users, StatefulSet controller, kubelets, HPA controller, garbage collector |
| `RollingUpdateManager` | the steps of `HandleRollingUpdate` |
| `ScalingManager` | the steps of `ReconcileScaling` |
| `QuorumAwareScaler` | `CreateOrUpdateHPA`, `EvaluateIntelligentScaling` |
| `ClusterReconciler` | `Reconcile`, composed of the three above; failures; `Spec` and `FairSpec` |
| `ClusterProperties` | what is expected of it |
| `MC_ClusterReconciler` | instances for TLC |
| `BackupRestore` | the controllers of RqliteBackup and RqliteRestore, their Jobs, the files and what is loaded |
| `RestoreLifecycle` | abstract: what a restore promises, without Jobs, caches or controllers |
| `BackupRestoreProperties`, `MC_BackupRestore` | what is expected of them, and instances for TLC |
| `ScheduledBackup` | the controller of RqliteScheduledBackup: ticks, created backups, retention |
| `ScheduledBackupProperties` | what is expected of it |
| `ContinuousBackup` | the controller of RqliteContinuousBackup, its Jobs, their files and the cleanups |
| `ContinuousBackupProperties` | what is expected of it |
| `PointInTimeRestore` | an RqliteRestore to a point in time, composed with `ContinuousBackup` |
| `PointInTimeRestoreProperties` | what is expected of the two |
| `StorageRules` | what storage expansion makes of one volume |
| `Arithmetic_proofs`, `ClusterReconciler_proofs`, `ScaleDown_proofs`, `Quiescence_proofs`, `BackupRestore_proofs`, `ScheduledBackup_proofs`, `ContinuousBackup_proofs`, `PointInTimeRestore_proofs` | proofs |

`RollingUpdateManager`, `ScalingManager` and `QuorumAwareScaler` extend
`ClusterState`, and `ClusterReconciler` extends all three, as the controller
holds its managers. `BackupRestore` stands beside it: its controllers meet the
cluster's only in asking whether the RqliteCluster exists. `ScheduledBackup`
takes from it only that a backup succeeds or fails some time after it was
created. `PointInTimeRestore` extends `ContinuousBackup`: the restore's pod reads
the volume that the backup's pods write and its cleanup Jobs delete from.

### State and code

* `cluster` is the RqliteCluster: deletion mark, finalizer, the spec fields and
  annotations a decision reads, the conditions and `updateStatus` of the status.
  `sts` is the StatefulSet with the part of its status the operator reads
  (`pods` = `status.replicas`, `ready` = `status.readyReplicas`, the two
  revisions) and one thing it can find out from the pods: one of them waits in
  `ImagePullBackOff` (`stuck`). `hpa`, `pdb`, `services` are the other objects.
* `seenCluster`, `seenSts`, `seenHpa` are the informer caches. A cache either
  follows at once or, for the kinds in `Lagging`, holds an older copy until a
  `Sync` action delivers the newest.
* `pc` and `my` are the worker's place in `Reconcile` and its local variables.
  **One step is at most one write to the API server, with the reads before it.**
  `my.fresh` says that the cluster has not been written since this call read it:
  then, and only then, an update of it does not conflict.
* `queued` is the work queue for this cluster. An error, `Requeue` and
  `RequeueAfter` all set it; a return without them does not, so that whether an
  early return loses work is a question the model can answer. `EventOf` sets it
  for a write of a watched kind whose cache follows; for a lagging kind the
  `Sync` action does.

### Actions and code

`ReconcileStarts` (read, restore annotation, deletion mark), `RemoveFinalizer`,
`AddFinalizer`, `ReconcileServices`, `ReconcileStatefulSet`, then, where the
image differs, `RollingUpdateStep` and a return, else `ReconcileScaling`,
`ReplicasMatch` / `ScalingBlocked` / `PatchReplicas`, `ReconcilePdb`,
`CreateOrUpdateHPA`, `EvaluateIntelligentScaling`, `FinishReconcile` follow the
code in its order. `ApiError` fails any step, `OperatorRestarts` loses `pc`,
`my` and the queue and refills the caches. A conflict or an "already exists" is
no `ApiError`: it is the outcome of the step's own write.

`StatusUpdate` stores the whole in-memory cluster, as `Status().Update` does.
`HasImagePullErrors` reads the pods from the same state as the server; the error
path of its list call is abstracted into "no errors found".

### Backups and restores

`backups`, `restores` and `jobs` are objects by name; `seenBackups`,
`seenRestores` and `seenJobs` the caches, which may always lag here; each
controller has a queue and one worker, whose running call (`backupWorker`,
`restoreWorker`) holds the object as it will be written and whether that version
is still the newest. `BackupStarts` is `Reconcile` up to its first write,
`BackupCreatesJob` and `BackupWritesStatus` are its writes, and the same for
restores, where `Decision` composes the handlers of the phases. `files` says who
wrote the file of a backup and whether it is complete; `loaded` what the
database of the restore's cluster received last.

A Job's pod is `curl` under `restartPolicy: OnFailure`: an attempt may leave half a
file, or do its work and fail all the same (`AttemptFails`), a pod lost with its
node makes `status.failed` positive while the Job goes on (`PodEvicted`), and
`backoffLimit` ends it at any time (`JobGivesUp`). A user can delete and recreate
a backup: `uid` tells the two apart, which the code, looking Jobs up by name,
does not. A deletion of a backup stands for the retention of scheduled backups
too.

### Schedules, continuous backups and points in time

These controllers decide by the clock, so the clock is a variable, `now`, in
seconds; what the code names by the second (`<name>-<unix time>`) is indexed by
the second. `wake` is the timer that `RequeueAfter` sets, and, as in the work
queue, of two timers the earlier one is kept; an error queues the object again at
once. `worker` is the call under way: the second at which it read the clock, and
whether the object it read is still the newest, without which its status write
conflicts.

*`ScheduledBackup`.* `CallStarts` is `Reconcile` up to its first write,
`CreatesBackup`, `WritesStatus`, `ListsBackups` and `DeletesBackup` (once for each
backup on the list) are its writes. Of a cron expression its ticks are left, at
the multiples of `Period`, or that it does not parse. Creation stamps have
seconds, and backups with the same one are sorted in any order.

*`ContinuousBackup`.* `CallStarts`, then `CreatesJob`, `CreatesCleanup` and
`WritesStatus`, which stores the status of all three ends of a call; each has its
own requeue (`RequeuesAfter`). The pod of a Job opens its file (`BackupOpens`),
which leaves a part of one, and some time later the backup arrives in it
(`BackupSucceeds`) or the attempt ends without it (`BackupAttemptFails`) and is
made again, over the same file. `CleanupStats` and `CleanupRemoves` are the two
steps of a cleanup script on one file, any time after its Job was created: the
first finds the file old, which condemns it, the second removes what is there by
then under its name, and between them a pod may write it. The controller does
not watch its Jobs, so a Job that failed is one whose pod takes no further step.

*`PointInTimeRestore`.* `RestoreReconcile` is a call of the restore controller,
`PodSelects` the script's search for the newest name before the target,
`PodLoads` the `curl` that sends the file, whatever has become of it meanwhile.
`PodFails` is a container that is run again, `PodIsLost` a pod that counts as
failed, from which `Progress` concludes that the restore has Failed, although
the Job goes on.

### Abstractions

* Versions are members of a set; which of them are malformed
  (`InvalidVersions`) or cannot be pulled (`BrokenVersions`) is a constant, as
  the code treats them as strings it validates by a pattern.
* `updateStatus.startTime` is "recent" or "old" relative to the update timeout;
  `UpdateTimeoutElapses` ages every copy of it.
* The HPA is its bounds and its number of metrics, which is what the code
  compares; scaling behaviour and custom metrics are left out, and the three
  targets have their CRD defaults.
* Timestamps, messages and node statuses are left out. That a node's
  `lastContact` changes the status, and so causes an event, is kept as the choice
  `contactChanged` in `FinishReconcile`.
* The three calls of `time.Now` within one function of the continuous backup are
  one; in a second that ends between them the name of the Job and that of the
  file would differ.
* The data of a backup arrives in its file in one step, at the end of the
  attempt; until then the file is a part of it.
* A call for a point in time is one step; what lagging caches and failed writes
  do to a restore is checked in `BackupRestore`, whose handlers have the same
  shape.
* A call that fails has written nothing. That the server applies a write whose
  answer is lost is not modelled apart: for the next call it is as a restart
  right after the write, but for what the same call does after a logged error.
* A pod that fails or is lost is gone. A pod on a node that does not answer, and
  that still runs beside its replacement, is not modelled.
* The StatefulSet controller is modelled from the fields the operator sets and
  reads: parallel pod management; a rollout takes one pod at a time and stops at
  one that does not become ready. Which pods run which revision is abstracted;
  `RolloutCompletes` is allowed whenever all are ready.

## 3. What is checked

In `ClusterReconciler`, bounds are the constants `MaxEdits` (edits by users, of any kind in `UserOps`),
`MaxFaults` (failed API calls and restarts) and `MaxDisruptions` (pods failing,
decisions of the HPA). Everything else is unbounded. `CHECK_DEADLOCK FALSE`
everywhere: a cluster at rest, or gone, really has nothing to do.

| Run | Instance | Shows |
|---|---|---|
| `reconcile_safety` | sizes 2 and 5, versions v1 and an unpullable v2, rollback on; edits of size, version, override, restore annotation, image repository; 2 edits, 1 fault, 1 disruption | `TypeOK`; `QuiescentStatusIsCurrent` |
| `reconcile_stale` | sizes 2 and 5, a malformed version, auto-scaling absent, without HPA section, or on; lagging caches of cluster and StatefulSet; 1 edit or deletion, 1 disruption | `QuiescentMeansApplied`, `QuiescentMeansDeleted`, `FinalizerProtectsCluster`, `NothingDoneForGoneCluster`, `OnlyUnseenChangesBreakQuorum` |
| `hpa_stale` | sizes 3 and 5, the same settings, lagging HPA cache, 2 edits of size or auto-scaling, 1 decision of the HPA | `QuiescentHpaMatchesSpec`, `QuiescentReplicasAreOdd` |
| `reconcile_live` | sizes 3 and 5, versions v1 and v2, rollback and its timeout on; an edit or a deletion, 1 fault, 1 failing pod | `EventuallyApplied`, `EventuallyStable`, `DeletionCompletes` |
| `backup_restore` | one backup, one restore from it; deletion of the backup, the restore or the cluster; 1 edit, 1 fault, 1 lost pod | `TypeOK`; `SucceededBackupIsOnVolume`; `OnlyCompleteFilesAreLoaded`; `SucceededRestoreWasLoaded`; `UndecidedAreAwaited`; `RestoresFollowLifecycle` (refinement of `RestoreLifecycle`); `RestoresEnd` |
| `backups_end` | the same with 2 edits, among them the deletion of a Job and a backup recreated under its name | `BackupsEnd`, `RestoresEnd` |
| `scheduled_backup` | three ticks two seconds apart, keep 1; backups deleted, the schedule broken, repaired or deleted; 1 mishap | `TypeOK`; `OneBackupPerTick`; `RecordedRunsHaveBackups`; `RetentionKeepsNewest`; `NextTickIsAwaited`; `TicksAreRecordedOnce`; `ScheduleCatchesUp` |
| `continuous_backup` | interval 2, retention 1, calls of up to a second, until second 3; the interval broken or repaired, suspended or resumed, deleted; 1 mishap | `BackupTypeOK`; `NewerBackupIsBegun`; `OneJobPerInterval`; `RecordedBackupsHaveJobs`; `NextBackupIsInTime`; `RecordedBackupsAreAnIntervalApart`; `BackupsKeepComing` |
| `point_in_time` | the same until second 2 and a restore to second 1, whose pods fail or are lost any number of times; the continuous backup or the cluster deleted; 1 mishap | `SucceededRestoreLoadedBackup`; `PointInTimeFollowsLifecycle` (refinement of `RestoreLifecycle`); `PointInTimeRestoreEnds` |

One more configuration that TLC passes is kept beside the runs:
`deletion_completes` checks `DeletionCompletes` with a lagging cache of the
cluster, auto-scaling switched on and off, the restore annotation set and
removed, and a fault, which together with the edits of `reconcile_live` would be
too many states.

In `BackupRestore` the bounds are `MaxEdits`, `MaxFaults` and `MaxEvictions`; the
number of attempts, reconciles and cache updates is not bounded.
`backups_end` checks less than `backup_restore` on purpose: with recreated
backups and deleted Jobs the reports are no longer reliable (a new backup finds
the old Job and is Succeeded at once; a Job deleted and created again overwrites
a file that was reported), but no object is left undecided. In `backup_restore`
the liveness of the backup is part of `RestoresEnd`: a restore waits for a backup
that is not decided. The types of `PointInTimeRestore` are proved only
(`RestoreTypeCorrect`).

In the modules with a clock the bounds are `MaxTime`, where the clock stops
(everything else goes on), `MaxCall`, the seconds a call lasts, and `MaxMishaps`,
the number of changes by users, failed calls, failed pods or backups, restarts,
and calls that decide to back up on the strength of an old object, together:
`OneBackupPerTick` and `OneJobPerInterval` say that only a mishap adds a backup,
and one each. `MaxCall` is at most the retention period: a call is a handful of
requests to the API server, a retention period minutes or more. With a longer
call a cleanup could delete the very file it was to make room for. A lagging
cache of backups is not a mishap, nor are a late pod, a late timer or a late
cleanup. A name is not used a second time after its backup is gone, and a
scheduled backup does not end in the very second it was created.

**Why the bounds are enough.** The hazards need one thing that went wrong
between two things the operator did. One edit reaches every stale copy there
is, because a call holds one copy of each object and a cache one more; the
second edit lets a reversal be missed; one fault reaches every step; from 5 to 2
is a scale-down the quorum rule refuses, 5 to 3 one it permits, with an even
count between. An instance with more edits only repeats calls from
states already reached with `pc = "idle"`. A schedule is decided by its last run
alone, so that a tick, the one it repeats and the next one are all that interact;
with `keepLast` 1 the third backup meets the retention of the second. Two
backups an interval apart, a cleanup that finds the first one old, and a call that
failed and is late fit in three seconds; in two of them a restore to the second
between the backups meets that cleanup. Backups of different names share
nothing, so that one backup and one restore are all that interact.

**Fairness.** The worker is weakly fair: controller-runtime hands out every
queued name, calls end, and `RequeueAfter` expires. Informers deliver. The
StatefulSet controller observes its spec, and pods that can start become ready.
`RolloutCompletes` is strongly fair because a rollout is modelled without the
progress of each pod: pods may become unready and ready again in between, and
with the real controller each pod that was replaced stays replaced, so a rollout
whose pods keep becoming ready does end. No fairness for users, the HPA, faults,
failing pods or time: all may stop or never happen. `Feasible` names the specs
that liveness is about: a refused scale-down, a malformed version and the
restore annotation really do stop the operator. In `BackupRestore`, workers,
informers and the garbage collector are fair, and a Job ends one way or the
other; no attempt is assumed to succeed. That a Job ends is an assumption about
its environment: no Job has an `activeDeadlineSeconds`, so that one whose pod
is never scheduled, or whose `curl` hangs, waits for ever, and its restore with
it. In the modules with a clock, clock,
timer, worker and informers are fair, and in `PointInTimeRestore` the restore's
Job ends; nothing is assumed of the pods that write and delete backups.

Every property has a mutant: a plausible bug in the code, written next to the
definition it changes and marked "Mutant", with which TLC finds the property
violated.

### Where the code does not do what is said of it

The first three are runs that must find the violation. The next nine are
configurations of the same kind that are kept beside them
(`tlc -config pitr_later.cfg PointInTimeRestoreProperties`), and the last is a
theorem.

| Run | Says | Does |
|---|---|---|
| `scale_down_stale` | helpers.go:26 "scaling from %d to %d nodes would break quorum" | the rule is checked on the StatefulSet of the cache, and the patch that follows has no version to conflict: a cache that misses the scale-up to 5 lets 5 go to 2 |
| `rollback` | README.md:21 "Automatic rollback on failed updates" | the image is in the StatefulSet by then, so the update manager is not called any more; a pod that cannot pull stays for ever |
| `backup_counted` (`ContinuousBackupProperties`) | rqlitecontinuousbackup_types.go:88 "BackupCount is the total number of database backups currently stored" | it counts the Jobs ever created; a cleanup or a failed Job lowers it never |
| `pdb_after_resize` | pdb_builder.go:14 "we want to maintain quorum during maintenance" | the budget is never updated: after 5 to 3 it lets two of three pods go |
| `storage_only` | README.md:22 "Pod Disruption Budgets: Maintains cluster availability during updates" | storage expansion requeues in every call, and the call ends there: no budget, replica patch or status |
| `update_while_resizing` (violates `EventuallyApplied`) | rolling_update_manager.go:94 "cluster does not have quorum", README.md:18 | an edit of size and version at once waits for pods that only the step behind it would create |
| `hpa_switched_off` | rqlitecluster_types.go:100 "Enabled specifies whether HPA should be enabled" | with autoScaling on and hpa.enabled false the HPA is created by the other manager |
| `shared_name` | rqliterestore_controller.go:265 "Data successfully loaded from backup" | a restore with the name of its backup finds the backup's Job and reports its success as its own |
| `young_backup` (`ContinuousBackupProperties`) | README.md:190 "Keep last 5 minutes of backup history" | a cleanup that found a file old deletes what a pod wrote to it since |
| `backup_reported` (`ContinuousBackupProperties`) | rqlitecontinuousbackup_types.go:77 "LastBackupTime is the end time of the last successfully created backup" | it is set when the Job is created, and the controller never looks at the Job again |
| `pitr_failed` (`PointInTimeRestoreProperties`) | rqliterestore_controller.go:368 "Point-in-time restore job failed during execution" | one lost pod is enough for that report; the Job goes on and its next pod replaces the database |
| `pitr_later` (`PointInTimeRestoreProperties`) | rqliterestore_controller.go:347 "Successfully restored to point-in-time" | files are selected by the time in the name, at which the Job was created; a pod that runs or is retried later stores later data |
| `ExpansionEnds` | rqlitecluster_types.go:213 "ThresholdPercentage specifies the usage threshold to trigger expansion" | it is never read, and nothing is measured: what grows are volumes of at most 1Gi in clusters of more than 5 nodes |

Two more things TLC showed while the properties were being stated. When two
backups of a schedule are created in the same second (a repeated tick does it) and
the list is old, retention deletes each in favour of the other, and the newest
backup is gone; `RetentionKeepsNewest` excepts equal stamps. And a cleanup follows
the creation of a Job, not its success: after a pause longer than the retention
period all files may be deleted while the only new one fails, so
`NewerBackupIsBegun` can promise no more than its name says.

**Where the promise is kept.** A property that a passing run checks stands beside
three of these: `OnlyUnseenChangesBreakQuorum` says that the quorum rule is broken
only by a change of the StatefulSet that is queued or still to be delivered to
the cache, `NewerBackupIsBegun` that even a young file is deleted only after a
newer backup was begun, and `PointInTimeFollowsLifecycle` that nothing is loaded
before the restore is validated and after it has succeeded.

## 4. What is proved

For every value of the constants that satisfies the `ConstantsAssumption` of the
module (`ClusterState`, `BackupRestore`, `ScheduledBackup`, `ContinuousBackup`)
and, for a restore to a point in time, `TargetAssumption` (the target is a time of
the model); for any number of edits, faults and steps. Every safety invariant,
every action property and both refinements that a passing run checks are stated
by a theorem.

* `Arithmetic_proofs`, about `ScalingRules` and `StorageRules`: a permitted
  scale-down target, other than 1, is a majority (`ScaleTargetIsMajority`); the
  disruption budget leaves a quorum from size 3 on (`PdbLeavesExactlyQuorum`) and
  not at size 2; the two managers compute the same bounds iff the maximum is odd
  (`ManagersAgreeOnOddMaximum`); the correction of even counts is itself a
  permitted scale operation (`CorrectionIsSafe`). A check of a volume never asks
  for less than there is nor goes past the maximum (`ExpansionIsBounded`), and
  expansion comes to an end (`ExpansionEnds`), for percentages the API server
  accepts.
* `ClusterReconciler_proofs`: `TypeCorrect`. One lemma for each action; the parts
  of `TypeOK` that an action leaves alone are dealt with by `TypeOKFromParts`.
  Then `FinalizerAlwaysProtects` and `NothingForGoneCluster`. That
  a gone cluster is left alone is not inductive: a call that started from a stale
  copy looks the same as any other. What makes it true is
  `FinalizerProtectsCluster`: any copy that is live and has the finalizer, in the
  cache or in a running call, guarantees that the cluster still has it, because
  only the operator removes it, and only on a version it read as deleting. The
  inductive invariant is that together with `TypeOK`.
* `ScaleDown_proofs`: `QuorumIsBrokenOnlyUnseen`, without hypotheses: for any lag
  and any auto-scaling. It rests on the invariant of `Quiescence_proofs`: unless
  an event is queued or to be delivered, the copy of the StatefulSet that a call
  decided on is the stored one (`SnapshotIsCurrent`), so that the patch is the
  step that was checked (`PatchKeepsRule`). The correction of even counts is
  refused by the server unless its copy is the newest, and is then a permitted
  step by arithmetic (`CorrectionIsSafe`). No other step of the operator lowers the
  count (`OthersKeepReplicas`). Without the exception the property
  is false, as `scale_down_stale` shows.
* `Quiescence_proofs`: `RestMeansApplied` and `RestHasCurrentStatus`, without
  hypotheses. The argument is one of traces. A step
  that changes what a decision depends on either queues the cluster or leaves its
  change undelivered in a cache (`StepKinds`, `WritesLeaveTraces`), and an early
  return without a requeue is one after such a step. So the controller can only
  come to rest by the last step of a call, on a status that was stored already and
  is right (`Settles`). What that call found must then still be so, which is the
  invariant `CallIsOnCourse`, over the steps behind it: its copy of the
  StatefulSet is the real one unless something is queued or to be delivered
  (`SnapshotIsCurrent`), its copy of the cluster is the stored one where `my.fresh`
  says so (`FreshIsStored`), and objects, image and replicas are right from the
  step on that sees to them. A failed rollback is no gap in this, since it is
  tried only in phase InProgress, so that the phase it writes is a change and an
  event. `NextSettledIsRight` and one lemma for each part show that no step, of
  whatever actor, breaks the invariant.
  `RestMeansDeleted` is the same argument for a deletion (`DeletionInv`): a
  controller at rest on a deleting cluster was so before, or has just finished a
  call for it, and a call that gets so far holds a live cluster. It needs
  `DeletingHasFinalizer`, since a cluster marked for deletion without the
  finalizer is one that `FirstStep` leaves alone. A restore annotation is no
  exception: the call for such a cluster always asks for another.
  `RestHasMatchingHpa` adds the HPA (`HpaInv`): the second manager of a call has
  the last word, and nobody writes the HPA of a settled cluster. Its hypothesis
  `ConsistentSwitches` (no setting has auto-scaling on and the HPA off) is what
  `hpa_switched_off` shows to be needed. `RestHasOddReplicas` (`OddInv`): a
  correction changes the count (`CorrectionMoves`) and so leaves a trace, and so
  does a choice of the HPA controller; for that every count in a spec, copy or
  object has to be positive (`CountsArePositive`). Its hypothesis
  `OddCountsExist` asks for an odd number between the bounds of each setting:
  with 4 as minimum and maximum the operator leaves 4.
* `BackupRestore_proofs`: `TypeCorrect`, without hypotheses; and from two
  hypotheses, `NamesAreDisjoint` (no restore has the name of a backup) and
  `JobsAreKept` (nobody deletes a Job, or creates a backup again under its name),
  `ReportedBackupsAreOnVolume`, `LoadedFilesAreComplete`,
  `ReportedRestoresWereLoaded`, and `RestoresImplementLifecycle`, the refinement
  of `RestoreLifecycle`. The hypotheses are needed: with a shared name a restore
  reports the backup's Job as its own (`shared_name`), and with either edit TLC
  finds each of the three properties violated, because a new Job writes a file
  that was reported already. The inductive invariant `IInv` has ten parts. The
  one all turns on is `Sealed`: the file of a backup is complete, and neither a
  pod, nor a running call that is about to create a Job, nor a later call that
  finds the backup undecided, will write it again. Whatever the controllers
  rely on, the cached phase of the backup (`SucceededIsSealed`), a validated
  restore, its Job, a call on its way (`RestoresAreValidated`), implies it, and
  `SealedStays` says that no step breaks it. That it can be reached needs the
  backup's side, `BackupJobsArePersistent`: the Job that a cache shows complete
  is still the one that wrote the file. For the refinement the phases a call may
  write, given the phase that is stored, are the set `Forward`
  (`RestoreCallIsForward`); `LifecycleSteps` shows that every step writes one
  restore's phase, loads one database, deletes one restore, or does none of these.
  `UndecidedAlwaysAwaited` has no hypothesis at all: whatever is deleted or named
  twice, no path through the two controllers drops an object that is not decided
  yet. Its invariant `RequestInv` is the property with what makes it inductive: a
  worker has a name only while it has a call, names are those of the model, and a
  cache that is up to date holds the object, so that an object whose cached phase
  was terminal when its call returned is decided.
* `ScheduledBackup_proofs`: `TypeCorrect` (a timer is always a tick),
  `RecordedRunsAlwaysHaveBackups`, `TicksGetOneBackup`,
  `RetentionAlwaysKeepsNewest`, `TicksAreNeverRecordedTwice` and
  `NextTickAlwaysAwaited`. The recorded tick is written in a later step
  than the one that creates its backup, so the second is not inductive; the
  strengthening `CallHasBackup` says of a call past its first write that the
  backup of its tick was created. The third is an argument of charging
  (`ClaimsAreCharged`): the names taken within a tick, and the one a running call
  is about to take, are at most the mishaps so far plus one, and that one is only
  there when the tick is recorded or about to be; a call that takes a second name
  started from an old schedule or did not record its first, a mishap each. For
  the fourth, what a call has listed is true for good, however old the list was
  (`ListIsPast`: a backup that had succeeded when it was listed can only have
  been deleted since), so the newer backups that condemn the next victim
  (`VictimsAreOlder`) are there or were deleted; where another call deleted one of
  them, what was newer than that one counts instead (`RetiredHaveNewer`). The
  fifth (`RecordInv`) rests on a call's copy being the stored schedule where the
  write of its status succeeds, and on `CallIsDue`: the run it is about to record
  is due after that copy's. For the last (`AwaitInv`) the timer set on
  returning is for the tick after the run of the call's copy, which is the stored
  one or about to be read again; a call that has recorded a run and goes on to the
  retention relies on the event of that write (`RetentionIsFollowed`).
* `ContinuousBackup_proofs`: `BackupTypeCorrect`, `DeletesOnlyReplacedBackups` and `RecordedBackupsAlwaysHaveJobs`, from one
  inductive invariant `IInv`, and with more than that `IntervalsGetOneJob`,
  `RecordsAreAnIntervalApart` and `NextBackupAlwaysInTime`. `ObjectsAreKnown` says of the status in each of the
  three places it can be (stored, cached, about to be stored) what
  `RecordedBackupsHaveJobs` says of the stored one; type correctness needs it,
  since the timer is the stored time plus an interval. A deletion is traced back:
  the file is older than the cleanup by the retention period
  (`FilesFollowJobs`), the cleanup younger than a Job by a call at most
  (`CleanupsFollowJobs`, `CallIsTimely`), so that Job is the newer backup. It holds when the script looks, and what is
  condemned stays so whatever a pod writes to the file before it is removed
  (`CondemnedAreReplaced`). This is where `MaxCall <= Retention` is used, and only here. `IntervalsGetOneJob` is
  again charged (`JobsAreCharged`): every second that has a Job, or is about to
  have one, to an interval that the recorded time accounts for (`Slots`), to a
  mishap, or to the running call, whose interval has passed when it starts. That
  the interval has passed on the copy the call holds, and that this copy is the
  stored one where its write succeeds, is also why recorded backups are an
  interval apart (`CallIsDue`, `CallCounts`). The timer is bounded on every path
  by what the call has decided by then (`TimerInv`); an interval that does not
  parse is excepted, since the code then asks for a requeue after 0 seconds,
  which is none.

* `PointInTimeRestore_proofs`: `RestoreTypeCorrect`, `SuccessMeansLoadedBackup` and
  `PointInTimeImplementsLifecycle`. To the
  continuous backup a step of the restore is none at all, but for a deletion of
  the cluster, which counts as a mishap (`RestoreKeepsBackup`), so that its
  invariant `IInv` is kept beside the restore's. What a pod selects or loads was
  begun by the target and has its Job for good (`ChoicesAreBegun`), and success is
  only reached through a load (`SuccessFollowsLoad`). The refinement needs one
  more fact, that a Job runs only while its restore is loading or was reported as
  failed (`JobFollowsPhase`); then `ReconcileIsAbstract` and `LoadIsAbstract` map the
  controller's and the pod's steps, and all others change nothing a user sees.

Only model-checked: all liveness (`EventuallyApplied`, `EventuallyStable`,
`DeletionCompletes`, `BackupsEnd`, `RestoresEnd`, `ScheduleCatchesUp`,
`BackupsKeepComing`, `PointInTimeRestoreEnds`), which is beyond the prover. What
is proved is the part of it that the code decides: no request is lost
(`RestMeansApplied`, `RestMeansDeleted`, `UndecidedAlwaysAwaited`,
`NextTickAlwaysAwaited`, `NextBackupAlwaysInTime`). What remains for TLC is that
the requests that are there lead somewhere, under the fairness above.

## 5. Not modelled

* The content of pod templates: volumes, probes, affinity, TLS, resources. No
  decision of the operator reads them back.
* The HTTP client and the metrics: they affect no decision but `leaderHealthy`.
* The Raft membership inside rqlite: the operator neither reads nor changes it,
  and removed pods stay voters. A model of it would check rqlite.
* The list of volumes in `reconcileStorageExpansion` and the writes of their
  claims: `StorageRules` is what a check makes of one volume, and a failed check
  is logged and made again. A volume without a storage class and a maximum that
  does not parse end the call in a panic.
* Which namespace the scripts address: they name `default` whatever the object's
  own is.
* `recentBackups`, `nextScheduledRun` and the statistics of the cleanups: no code
  reads them, and `lastSegmentTime` is set by none, so that the test of a target
  against it is never made.
* A RqliteBackup without `spec.storage.pvc`: its Job cannot be built, the call
  panics and is retried for ever.
* A cron expression that parses and never fires: its next run is the zero time,
  so that every call finds it due.
* Custom metrics of the HPA: the two managers differ in the number of metrics but
  for a single External one, which makes the numbers equal.
* `version_validator.go` and the loop of the metrics manager: called by nothing.

## 6. What is left

The claims of the volumes as state of `ScalingManager`, so that expansion is an
action with its conflicts; today `StorageRules` is what one check makes of one
volume.

That the replica count of an auto-scaled cluster lies within the bounds of its
HPA is not stated on purpose: it is no promise of the operator's. After an edit
that lowers the maximum the operator comes to rest with the new bounds stored,
before the HPA controller has acted on them.
