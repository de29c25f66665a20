-------------------- MODULE PointInTimeRestore_proofs ---------------------
(***************************************************************************)
(* Proofs about PointInTimeRestore, for every target, interval, retention  *)
(* and bound.  The invariant IInv of the continuous backup is kept beside  *)
(* the restore.                                                            *)
(***************************************************************************)
EXTENDS PointInTimeRestoreProperties, ContinuousBackup_proofs

\* A backup that has a Job and was begun at the target or before.
BegunByTarget(name) == name \in Times /\ name <= Target /\ jobs[name] # "none"

\* What the pod chose, and what it loaded, is such a backup.
ChoicesAreBegun ==
    /\ \A t \in Times : files[t].state # "none" => jobs[t] # "none"
    /\ selected # NoName => BegunByTarget(selected)
    /\ loaded.name # NoName => BegunByTarget(loaded.name)

\* The Job completes only by a load, and the restore succeeds only by the Job.
SuccessFollowsLoad ==
    restoreJob.state = "complete" \/ restore = "Succeeded" => loaded.name # NoName

RestoreInv == TypeOK /\ IInv /\ ChoicesAreBegun /\ SuccessFollowsLoad

-----------------------------------------------------------------------------
(* The continuous backup is not disturbed *)

LEMMA TargetType == Target \in Times
  BY TargetAssumption

\* To the continuous backup, a step of the restore is none at all, but for the
\* user who deletes the cluster.
LEMMA RestoreKeepsBackup ==
    ASSUME RestoreNext
    PROVE  UNCHANGED <<now, control, volume>> /\ (UNCHANGED mishaps \/ Mishap)
  BY DEF RestoreNext, RestoreReconcile, PodSelects, PodLoads, PodFails, PodIsLost,
     UserDeletesCluster, backupVars, volume

LEMMA NextBackup ==
    ASSUME IInv, [Next]_vars
    PROVE  IInv'
<1>1. CASE [BackupNext]_backupVars
  BY <1>1, NextIInv
<1>2. CASE UNCHANGED <<now, control, volume>> /\ (UNCHANGED mishaps \/ Mishap)
  <2>1. mishaps' \in 0..MaxMishaps
    BY <1>2, MishapType DEF IInv, BackupTypeOK
  <2>2. BackupTypeOK'
    BY <1>2, <2>1 DEF IInv, BackupTypeOK, control, volume
  <2>3. UNCHANGED <<Started, cb, seenCb, worker, cleanups, condemned, files, jobs, now>>
    BY <1>2 DEF Started, control, volume
  <2> QED
    BY <2>2, <2>3
    DEF IInv, ObjectsAreKnown, Known, CallIsTimely, CleanupsFollowJobs, FilesFollowJobs,
        CondemnedAreReplaced, NewerBackupIsBegun
<1> QED
  BY <1>1, <1>2, RestoreKeepsBackup DEF Next, vars

-----------------------------------------------------------------------------
(* Type correctness *)

LEMMA InitRestore == Init => RestoreInv
<1> SUFFICES ASSUME Init PROVE RestoreInv
  OBVIOUS
<1>1. IInv /\ BackupTypeOK
  BY InitIInv DEF Init, IInv
<1>2. NoFile \in File
  BY ConstantTypes DEF NoFile, File
<1>3. TypeOK
  BY <1>1, <1>2 DEF Init, TypeOK, RestoreJob, NewJob, Loaded, NoName
<1>4. \A t \in Times : files[t].state = "none"
  BY DEF Init, BackupInit, NoFile
<1> QED
  BY <1>1, <1>3, <1>4 DEF Init, NewJob, RestoreInv, ChoicesAreBegun, SuccessFollowsLoad

\* What a call of the restore controller does: it creates the Job, or moves on.
LEMMA ReconcileSteps ==
    ASSUME RestoreReconcile
    PROVE  \/ /\ restoreJob' = NewJob("active", cb.exists)
              /\ restore = "Loading" /\ restore' = "Loading"
           \/ /\ UNCHANGED restoreJob
              /\ restore' = CASE restore = ""        -> "Pending"
                             [] restore = "Pending" -> Validated
                             [] restore = "Loading" -> Progress(restoreJob)
<1>1. CASE restore = "Loading" /\ restoreJob.state = "none"
  BY <1>1 DEF RestoreReconcile
<1>2. CASE ~(restore = "Loading" /\ restoreJob.state = "none")
  BY <1>2 DEF RestoreReconcile
<1> QED
  BY <1>1, <1>2

LEMMA RestoreNextType ==
    ASSUME TypeOK, BackupTypeOK', RestoreNext
    PROVE  TypeOK'
<1>1. /\ BackupTypeOK /\ restoreJob \in RestoreJob /\ selected \in Times \cup {NoName}
      /\ loaded \in Loaded /\ clusterExists \in BOOLEAN
      /\ restore \in {"", "Pending", "Loading", "Succeeded", "Failed"}
  BY DEF TypeOK
<1>2. CASE RestoreReconcile
  <2>1. cb.exists \in BOOLEAN
    BY <1>1 DEF BackupTypeOK, ContinuousBackupObject
  <2>2. restoreJob' \in RestoreJob
    <3>1. NewJob("active", cb.exists) \in RestoreJob
      BY <2>1 DEF RestoreJob, NewJob
    <3> QED
      BY <1>1, <1>2, <3>1, ReconcileSteps
  <2>3. restore' \in {"", "Pending", "Loading", "Succeeded", "Failed"}
    BY <1>1, <1>2 DEF RestoreReconcile, Progress, Validated, Terminal
  <2> QED
    BY <1>1, <1>2, <2>2, <2>3 DEF RestoreReconcile, TypeOK
<1>3. CASE PodSelects
  BY <1>1, <1>3 DEF PodSelects, Eligible, TypeOK
<1>4. ASSUME NEW state \in {"complete", "active", "failed"},
             PodLoads(state) \/ PodIsLost(state)
      PROVE  TypeOK'
  <2>1. restoreJob' \in RestoreJob
    BY <1>1, <1>4 DEF PodLoads, PodIsLost, RestoreJob
  <2>2. loaded' \in Loaded
    <3>1. CASE PodLoads(state)
      <4>1. selected \in Times /\ files[selected] \in File
        BY <1>1, <3>1 DEF PodLoads, BackupTypeOK
      <4>2. loaded' = [name |-> selected, file |-> files[selected]]
        BY <3>1 DEF PodLoads
      <4> QED
        BY <4>1, <4>2 DEF Loaded
    <3>2. CASE PodIsLost(state)
      BY <1>1, <3>2 DEF PodIsLost
    <3> QED
      BY <1>4, <3>1, <3>2
  <2> QED
    BY <1>1, <1>4, <2>1, <2>2 DEF PodLoads, PodIsLost, TypeOK
<1>5. CASE PodFails \/ UserDeletesCluster
  BY <1>1, <1>5 DEF PodFails, UserDeletesCluster, TypeOK
<1> QED
  BY <1>2, <1>3, <1>4, <1>5 DEF RestoreNext

LEMMA NextType ==
    ASSUME TypeOK, IInv, [Next]_vars
    PROVE  TypeOK'
<1>1. BackupTypeOK'
  BY NextBackup DEF IInv
<1>2. CASE UNCHANGED restoreVars
  BY <1>1, <1>2 DEF TypeOK, restoreVars
<1>3. CASE RestoreNext
  BY <1>1, <1>3, RestoreNextType
<1> QED
  BY <1>2, <1>3 DEF Next, vars

-----------------------------------------------------------------------------
(* What is loaded *)

\* A file appears only by the pod of a Job.
LEMMA FilesHaveJobs ==
    ASSUME BackupTypeOK, [BackupNext]_backupVars,
           \A t \in Times : files[t].state # "none" => jobs[t] # "none"
    PROVE  \A t \in Times : files'[t].state # "none" => jobs'[t] # "none"
<1>0. \A t \in Times : jobs[t] # "none" => jobs'[t] # "none"
  BY JobsStay DEF Started
<1>1. CASE Pods
  <2>1. CASE \E t \in Times : CleanupStats(t) \/ CleanupRemoves(t)
    <3>1. \A t \in Times : files'[t].state # "none" => files[t].state # "none"
      BY <2>1, RemovedFile
    <3> QED
      BY <1>0, <3>1
  <2>2. CASE \E t \in Times :
               /\ jobs[t] # "none"
               /\ UNCHANGED files \/ \E state \in {"partial", "complete"} : WritesFile(t, state)
    BY <1>0, <2>2 DEF WritesFile, BackupTypeOK
  <2> QED
    BY <1>1, <2>1, <2>2, PodSteps
<1>2. CASE UNCHANGED files
  BY <1>2, JobsStay DEF Started
<1> QED
  BY <1>1, <1>2
  DEF BackupNext, Reconcile, CallStarts, CreatesJob, CreatesCleanup, WritesStatus, Tick,
      TimerFires, SyncCb, UserEdits, CallFails, OperatorRestarts, backupVars, volume

LEMMA BackupKeepsChoices ==
    ASSUME RestoreInv, [BackupNext]_backupVars, UNCHANGED restoreVars
    PROVE  ChoicesAreBegun' /\ SuccessFollowsLoad'
<1>1. BackupTypeOK /\ ChoicesAreBegun
  BY DEF RestoreInv, IInv
<1>2. \A name : BegunByTarget(name) => BegunByTarget(name)'
  BY <1>1, JobsStay DEF BegunByTarget, Started
<1> QED
  BY <1>1, <1>2, FilesHaveJobs DEF RestoreInv, ChoicesAreBegun, SuccessFollowsLoad, restoreVars

LEMMA RestoreKeepsChoices ==
    ASSUME RestoreInv, RestoreNext
    PROVE  ChoicesAreBegun' /\ SuccessFollowsLoad'
<1>1. UNCHANGED <<jobs, files>>
  BY RestoreKeepsBackup DEF volume
<1>2. /\ ChoicesAreBegun /\ SuccessFollowsLoad /\ restoreJob \in RestoreJob
      /\ loaded \in Loaded /\ NoName \notin Times
  BY ConstantTypes DEF RestoreInv, TypeOK, NoName
<1>3. \A name : BegunByTarget(name)' <=> BegunByTarget(name)
  BY <1>1 DEF BegunByTarget
<1>4. CASE RestoreReconcile
  <2>1. UNCHANGED <<selected, loaded>>
    BY <1>4 DEF RestoreReconcile
  <2>2. restoreJob'.state = "complete" => restoreJob.state = "complete"
    <3>1. NewJob("active", cb.exists).state = "active"
      BY DEF NewJob
    <3> QED
      BY <1>4, <3>1, ReconcileSteps
  <2>3. restore' = "Succeeded" => restoreJob.state = "complete"
    <3>1. restore \in {"", "Pending", "Loading"}
      BY <1>4 DEF RestoreReconcile, Terminal, RestoreInv, TypeOK
    <3> QED
      BY <1>4, <3>1, ReconcileSteps DEF Progress, Validated
  <2> QED
    BY <1>1, <1>2, <1>3, <2>1, <2>2, <2>3 DEF ChoicesAreBegun, SuccessFollowsLoad
<1>5. CASE PodSelects
  <2>1. BegunByTarget(selected') /\ UNCHANGED <<loaded, restore, restoreJob>>
    BY <1>2, <1>5 DEF PodSelects, Eligible, OnVolume, ChoicesAreBegun, BegunByTarget
  <2> QED
    BY <1>1, <1>2, <1>3, <2>1 DEF ChoicesAreBegun, SuccessFollowsLoad
<1>6. ASSUME NEW state, PodLoads(state)
      PROVE  ChoicesAreBegun' /\ SuccessFollowsLoad'
  <2>1. loaded'.name = selected /\ selected # NoName /\ selected' = NoName
    BY <1>6 DEF PodLoads
  <2> QED
    BY <1>1, <1>2, <1>3, <2>1 DEF ChoicesAreBegun, SuccessFollowsLoad
<1>7. ASSUME NEW state \in {"failed", "active"}, PodIsLost(state)
      PROVE  ChoicesAreBegun' /\ SuccessFollowsLoad'
  <2>1. selected' = NoName /\ UNCHANGED <<restore, loaded>>
    BY <1>7 DEF PodIsLost
  <2>2. restoreJob'.state # "complete"
    BY <1>2, <1>7 DEF PodIsLost, RestoreJob
  <2> QED
    BY <1>1, <1>2, <1>3, <2>1, <2>2 DEF ChoicesAreBegun, SuccessFollowsLoad
<1>8. CASE PodFails \/ UserDeletesCluster
  BY <1>1, <1>2, <1>3, <1>8 DEF PodFails, UserDeletesCluster, ChoicesAreBegun, SuccessFollowsLoad
<1> QED
  BY <1>4, <1>5, <1>6, <1>7, <1>8 DEF RestoreNext

-----------------------------------------------------------------------------
(* The theorems *)

LEMMA AlwaysRestoreInv == Spec => []RestoreInv
<1>1. RestoreInv /\ [Next]_vars => RestoreInv'
  <2> SUFFICES ASSUME RestoreInv, [Next]_vars PROVE RestoreInv'
    OBVIOUS
  <2>1. IInv' /\ TypeOK'
    BY NextBackup, NextType DEF RestoreInv
  <2>2. CASE [BackupNext]_backupVars /\ UNCHANGED restoreVars
    BY <2>1, <2>2, BackupKeepsChoices DEF RestoreInv
  <2>3. CASE RestoreNext
    BY <2>1, <2>3, RestoreKeepsChoices DEF RestoreInv
  <2> QED
    BY <2>2, <2>3 DEF Next, vars
<1> QED
  BY <1>1, InitRestore, PTL DEF Spec

\* The restore, its Job and what its pod selected and loaded keep their types,
\* beside a continuous backup that keeps its own.
THEOREM RestoreTypeCorrect == Spec => []TypeOK
<1>1. RestoreInv => TypeOK
  BY DEF RestoreInv
<1> QED
  BY <1>1, AlwaysRestoreInv, PTL

\* A restore that is reported as Succeeded did load a backup that was begun at
\* the target or before, whatever retention deleted and however often its pod
\* tried.
THEOREM SuccessMeansLoadedBackup == Spec => []SucceededRestoreLoadedBackup
<1>1. RestoreInv => SucceededRestoreLoadedBackup
  BY DEF RestoreInv, SuccessFollowsLoad, ChoicesAreBegun, BegunByTarget,
     SucceededRestoreLoadedBackup
<1> QED
  BY <1>1, AlwaysRestoreInv, PTL

-----------------------------------------------------------------------------
(* The abstract restore *)

\* While the Job runs, the restore is loading, or has been reported as failed
\* because a pod was lost.
JobFollowsPhase ==
    /\ restore \in {"", "Pending"} => restoreJob.state = "none"
    /\ restoreJob.state = "active" => restore \in {"Loading", "Failed"}

LEMMA NextJobFollowsPhase ==
    ASSUME TypeOK, JobFollowsPhase, [Next]_vars
    PROVE  JobFollowsPhase'
<1>1. restoreJob \in RestoreJob /\ restore \in {"", "Pending", "Loading", "Succeeded", "Failed"}
  BY DEF TypeOK
<1>2. CASE UNCHANGED restoreVars
  BY <1>2 DEF JobFollowsPhase, restoreVars
<1>3. CASE RestoreReconcile
  <2>1. CASE restore = "Loading" /\ restoreJob.state = "none"
    <3>1. UNCHANGED restore
      BY <1>3, <2>1 DEF RestoreReconcile
    <3> QED
      BY <2>1, <3>1 DEF JobFollowsPhase
  <2>2. CASE ~(restore = "Loading" /\ restoreJob.state = "none")
    <3>1. UNCHANGED restoreJob
      BY <1>3, <2>2 DEF RestoreReconcile
    <3> QED
      BY <1>1, <1>3, <2>2, <3>1
      DEF RestoreReconcile, Progress, Validated, Terminal, JobFollowsPhase
  <2> QED
    BY <2>1, <2>2
<1>4. CASE UNCHANGED <<restore, restoreJob>>
  BY <1>4 DEF JobFollowsPhase
<1>5. ASSUME NEW state, PodLoads(state) \/ PodIsLost(state)
      PROVE  JobFollowsPhase'
  BY <1>1, <1>5 DEF PodLoads, PodIsLost, Runs, JobFollowsPhase
<1> QED
  BY <1>2, <1>3, <1>4, <1>5
  DEF Next, RestoreNext, PodSelects, PodFails, UserDeletesCluster, vars

\* A change of the one restore's phase, or of what it loaded, as its user sees it.
LEMMA AbstractRestore ==
    ASSUME NEW old, NEW new
    PROVE  [[r \in {"restore"} |-> old] EXCEPT !["restore"] = new] = [r \in {"restore"} |-> new]
  OBVIOUS

\* A call of the controller moves the phase along, or leaves it.
LEMMA ReconcileIsAbstract ==
    ASSUME RestoreInv, JobFollowsPhase, RestoreReconcile
    PROVE  [Lifecycle!Next]_(Lifecycle!lifecycle)
<1>1. /\ UNCHANGED loaded
      /\ restore \in {"", "Pending", "Loading"}
      /\ restoreJob.state = "complete" => loaded.name # NoName
  BY DEF RestoreReconcile, RestoreInv, TypeOK, SuccessFollowsLoad, Terminal
<1>2. \/ UNCHANGED restore
      \/ restore = "" /\ restore' = "Pending"
      \/ restore = "Pending" /\ restore' = "Loading"
      \/ restore \in {"Pending", "Loading"} /\ restore' = "Failed"
      \/ restore = "Loading" /\ restore' = "Succeeded" /\ loaded.name # NoName
  BY <1>1 DEF RestoreReconcile, Progress, Validated
<1> QED
  BY <1>1, <1>2, AbstractRestore
  DEF Lifecycle!Next, Lifecycle!lifecycle, Lifecycle!Becomes, Lifecycle!Accept,
      Lifecycle!Validate, Lifecycle!Fail, Lifecycle!Succeed

\* The pod loads while the restore is loading, or after it was reported as failed.
LEMMA LoadIsAbstract ==
    ASSUME JobFollowsPhase, NEW state, PodLoads(state)
    PROVE  Lifecycle!Load("restore")
<1>1. restore \in {"Loading", "Failed"} /\ UNCHANGED restore
  BY DEF PodLoads, Runs, JobFollowsPhase
<1>2. loaded'.name # NoName
  BY DEF PodLoads
<1> QED
  BY <1>1, <1>2, AbstractRestore DEF Lifecycle!Load

\* A restore to a point in time implements the abstract restore, whatever the
\* continuous backup and its cleanups do to the volume it reads, and although
\* the Job of a restore that was reported as Failed may go on and load.
THEOREM PointInTimeImplementsLifecycle == Spec => PointInTimeFollowsLifecycle
<1>1. Init => Lifecycle!Init /\ JobFollowsPhase
  <2> SUFFICES ASSUME Init PROVE Lifecycle!Init /\ JobFollowsPhase
    OBVIOUS
  <2>1. restore = "" /\ restoreJob.state = "none" /\ loaded.name = NoName
    BY DEF Init, NewJob
  <2>2. (loaded.name # NoName) = FALSE
    BY <2>1
  <2> QED
    BY <2>1, <2>2 DEF Lifecycle!Init, JobFollowsPhase
<1>2. RestoreInv /\ JobFollowsPhase /\ [Next]_vars => [Lifecycle!Next]_(Lifecycle!lifecycle)
  <2> SUFFICES ASSUME RestoreInv, JobFollowsPhase, [Next]_vars
               PROVE  [Lifecycle!Next]_(Lifecycle!lifecycle)
    OBVIOUS
  <2>1. CASE UNCHANGED <<restore, loaded>>
    BY <2>1 DEF Lifecycle!lifecycle
  <2>2. CASE RestoreReconcile
    BY <2>2, ReconcileIsAbstract
  <2>3. ASSUME NEW state, PodLoads(state)
        PROVE  [Lifecycle!Next]_(Lifecycle!lifecycle)
    BY <2>3, LoadIsAbstract DEF Lifecycle!Next
  <2> QED
    BY <2>1, <2>2, <2>3
    DEF Next, RestoreNext, PodSelects, PodFails, PodIsLost, UserDeletesCluster, vars, restoreVars
<1>3. RestoreInv /\ JobFollowsPhase /\ [Next]_vars => JobFollowsPhase'
  BY NextJobFollowsPhase DEF RestoreInv
<1> QED
  BY <1>1, <1>2, <1>3, AlwaysRestoreInv, PTL DEF Spec, PointInTimeFollowsLifecycle, Lifecycle!Spec
=============================================================================
