---------------------------- MODULE BackupRestore ---------------------------
(***************************************************************************)
(* The controllers of RqliteBackup and RqliteRestore (restores from a      *)
(* backup, not to a point in time), the Job controller that runs the pods  *)
(* they ask for, the files on the volume and what is loaded into the       *)
(* database.                                                               *)
(*                                                                         *)
(* Each controller has one worker.  Both read from informer caches, which  *)
(* may always lag, and find the Job of an object by the object's name.     *)
(***************************************************************************)
EXTENDS Integers

CONSTANTS
    Backups,       \* names of RqliteBackups
    Restores,      \* names of RqliteRestores, some of them perhaps the same
    SourceOf,      \* spec.backupName of each restore, or NoName
    UserOps,       \* the kinds of changes users make
    MaxEdits,      \* bound: changes made by users
    MaxFaults,     \* bound: failed API calls and operator restarts
    MaxEvictions   \* bound: pods lost with their node

VARIABLES
    backups, restores, jobs,               \* the objects, by name
    seenBackups, seenRestores, seenJobs,   \* the informer caches
    clusterExists,                         \* the RqliteCluster they name
    files,                                 \* the file of each backup
    loaded,                                \* what each restore loaded last
    backupQueue, restoreQueue,             \* the work queues
    backupWorker, restoreWorker,           \* the running calls
    budget                                 \* how much of the bounds is used up

objects == <<backups, restores, jobs>>
caches == <<seenBackups, seenRestores, seenJobs>>
world == <<clusterExists, files, loaded>>
workers == <<backupQueue, restoreQueue, backupWorker, restoreWorker>>
vars == <<objects, caches, world, workers, budget>>

Names == Backups \cup Restores
NoName == "none"

ASSUME ConstantsAssumption ==
    /\ NoName \notin Names
    /\ SourceOf \in [Restores -> Backups \cup {NoName}]
    /\ MaxEdits \in Nat /\ MaxFaults \in Nat /\ MaxEvictions \in Nat

-----------------------------------------------------------------------------
(* Objects *)

\* uid tells apart backups that had the same name one after the other.
\* status.path is set together with phase Succeeded.
Backup == [exists : BOOLEAN, uid : Nat,
           phase : {"", "Running", "Succeeded", "Failed"}]

NoBackup == [exists |-> FALSE, uid |-> 0, phase |-> ""]

\* note stands for the message: it changes where the phase does not.
Restore == [exists : BOOLEAN,
            phase : {"", "Pending", "Loading", "Succeeded", "Failed"},
            note : {"", "waiting", "created", "progress"}]

NoRestore == [exists |-> FALSE, phase |-> "", note |-> ""]

\* failed: status.failed > 0, which one lost pod is enough for; state:
\* whether the Job still runs pods.
Owner == [kind : {"backup", "restore"}, uid : Nat]

Job == [exists : BOOLEAN, owner : Owner, failed : BOOLEAN,
        state : {"active", "complete", "failed"}]

NewJob(kind, uid) ==
    [exists |-> TRUE, owner |-> [kind |-> kind, uid |-> uid], failed |-> FALSE,
     state |-> "active"]

NoJob == [NewJob("backup", 0) EXCEPT !.exists = FALSE]

\* by: the uid of the backup whose Job wrote it, 0: there is no file.
File == [by : Nat, complete : BOOLEAN]

NoFile == [by |-> 0, complete |-> FALSE]

CacheOf(Kind) == [obj : Kind, current : BOOLEAN]

Cached(o) == [obj |-> o, current |-> TRUE]

\* A running call: its next write, the object as it will be stored, whether
\* the object is still the one that was read.
BackupWorker == [pc : {"idle", "createJob", "writeStatus"}, name : Backups \cup {NoName},
                 obj : Backup, fresh : BOOLEAN]

RestoreWorker == [pc : {"idle", "createJob", "writeStatus"}, name : Restores \cup {NoName},
                  obj : Restore, fresh : BOOLEAN, hasPath : BOOLEAN]

NoBackupCall == [pc |-> "idle", name |-> NoName, obj |-> NoBackup, fresh |-> FALSE]

NoRestoreCall == [pc |-> "idle", name |-> NoName, obj |-> NoRestore, fresh |-> FALSE,
                  hasPath |-> FALSE]

\* Every object, cache, file and call holds a value of its kind.
TypeOK ==
    /\ backups \in [Backups -> Backup] /\ seenBackups \in [Backups -> CacheOf(Backup)]
    /\ restores \in [Restores -> Restore]
    /\ seenRestores \in [Restores -> CacheOf(Restore)]
    /\ jobs \in [Names -> Job] /\ seenJobs \in [Names -> CacheOf(Job)]
    /\ clusterExists \in BOOLEAN
    /\ files \in [Backups -> File] /\ loaded \in [Restores -> File]
    /\ backupQueue \subseteq Backups /\ restoreQueue \subseteq Restores
    /\ backupWorker \in BackupWorker /\ restoreWorker \in RestoreWorker
    /\ budget \in [edits : 0..MaxEdits, faults : 0..MaxFaults,
                   evictions : 0..MaxEvictions]

Init ==
    /\ backups = [b \in Backups |-> [NoBackup EXCEPT !.exists = TRUE, !.uid = 1]]
    /\ restores = [r \in Restores |-> [NoRestore EXCEPT !.exists = TRUE]]
    /\ jobs = [n \in Names |-> NoJob]
    /\ seenBackups = [b \in Backups |-> Cached(backups[b])]
    /\ seenRestores = [r \in Restores |-> Cached(restores[r])]
    /\ seenJobs = [n \in Names |-> Cached(NoJob)]
    /\ clusterExists = TRUE
    /\ files = [b \in Backups |-> NoFile] /\ loaded = [r \in Restores |-> NoFile]
    /\ backupQueue = Backups /\ restoreQueue = Restores
    /\ backupWorker = NoBackupCall /\ restoreWorker = NoRestoreCall
    /\ budget = [edits |-> 0, faults |-> 0, evictions |-> 0]

\* A write that changes nothing makes no new version of the object.
Behind(cache, name, changed) ==
    IF changed THEN [cache EXCEPT ![name].current = FALSE] ELSE cache

WriteJob(n, job) ==
    /\ jobs' = [jobs EXCEPT ![n] = job]
    /\ seenJobs' = Behind(seenJobs, n, job # jobs[n])

-----------------------------------------------------------------------------
(* rqlitebackup_controller.go *)

\* Mutant: a failure is not final.
Terminal_OnlySuccess(phase) == phase = "Succeeded"

Terminal(phase) == phase \in {"Succeeded", "Failed"}

\* Mutant: a Job that has not failed has succeeded.
JobResult_NotFailed(job) == IF job.failed THEN "Failed" ELSE "Succeeded"

\* Mutant: failures are not looked at.
JobResult_NeverFailed(job) == IF job.state = "complete" THEN "Succeeded" ELSE "Running"

\* How both controllers read a Job: status.succeeded before status.failed.
JobResult(job) ==
    IF job.state = "complete" THEN "Succeeded"
    ELSE IF job.failed THEN "Failed"
    ELSE "Running"

\* Mutant: the request is not queued again.
BackupReturns_Drops(again) == backupWorker' = NoBackupCall /\ UNCHANGED backupQueue

BackupReturns(again) ==
    /\ backupWorker' = NoBackupCall
    /\ backupQueue' = IF again THEN backupQueue \cup {backupWorker.name} ELSE backupQueue

\* Reconcile up to its first write.
BackupStarts(b) ==
    /\ backupWorker.pc = "idle" /\ b \in backupQueue
    /\ LET backup == seenBackups[b].obj
           job == seenJobs[b].obj
           call == [pc |-> "createJob", name |-> b, obj |-> [backup EXCEPT !.phase = "Running"],
                    fresh |-> seenBackups[b].current]
       IN  IF ~backup.exists \/ Terminal(backup.phase)
           THEN backupQueue' = backupQueue \ {b} /\ UNCHANGED backupWorker
           ELSE IF ~job.exists
           THEN backupQueue' = backupQueue \ {b} /\ backupWorker' = call
           ELSE IF Terminal(JobResult(job))
           THEN /\ backupQueue' = backupQueue \ {b}
                /\ backupWorker' = [call EXCEPT !.pc = "writeStatus",
                                                !.obj.phase = JobResult(job)]
           ELSE UNCHANGED <<backupQueue, backupWorker>>      \* RequeueAfter
    /\ UNCHANGED <<objects, caches, world, restoreQueue, restoreWorker, budget>>

BackupCreatesJob ==
    /\ backupWorker.pc = "createJob"
    /\ IF jobs[backupWorker.name].exists
       THEN BackupReturns(TRUE) /\ UNCHANGED <<jobs, seenJobs>>
       ELSE /\ WriteJob(backupWorker.name, NewJob("backup", backupWorker.obj.uid))
            /\ backupWorker' = [backupWorker EXCEPT !.pc = "writeStatus"]
            /\ UNCHANGED backupQueue
    /\ UNCHANGED <<backups, restores, seenBackups, seenRestores, world, restoreQueue,
                   restoreWorker, budget>>

BackupWritesStatus ==
    /\ backupWorker.pc = "writeStatus"
    /\ LET b == backupWorker.name
       IN  IF backupWorker.fresh
           THEN /\ backups' = [backups EXCEPT ![b] = backupWorker.obj]
                /\ seenBackups' = Behind(seenBackups, b, backupWorker.obj # backups[b])
                /\ BackupReturns(~Terminal(backupWorker.obj.phase))
           ELSE BackupReturns(TRUE) /\ UNCHANGED <<backups, seenBackups>>
    /\ UNCHANGED <<restores, jobs, seenRestores, seenJobs, world, restoreQueue,
                   restoreWorker, budget>>

BackupReconcile ==
    (\E b \in Backups : BackupStarts(b)) \/ BackupCreatesJob \/ BackupWritesStatus

-----------------------------------------------------------------------------
(* rqliterestore_controller.go *)

\* The status a handler decides on.
To(phase, note) == [phase |-> phase, note |-> note]

\* Mutant: waits for a backup that is gone.
Validation_WaitsForBackup(b) ==
    IF b.phase # "Succeeded" THEN To("Pending", "waiting")
    ELSE IF ~clusterExists THEN To("Failed", "")
    ELSE To("Loading", "")

\* handleBackupValidation: b is the backup it reads.  Its check of the path
\* cannot fail: the path is written with the phase.
Validation(b) ==
    IF ~b.exists THEN To("Failed", "")
    ELSE IF b.phase # "Succeeded" THEN To("Pending", "waiting")
    ELSE IF ~clusterExists THEN To("Failed", "")
    ELSE To("Loading", "")

\* Mutant: the Job's phase is copied.
Progress_JobPhase(job) == To(JobResult(job), "progress")

\* handleBackupLoading, where the Job is found.
Progress(job) ==
    IF Terminal(JobResult(job)) THEN To(JobResult(job), "") ELSE To("Loading", "progress")

\* What Reconcile decides for a restore it read, a backup and a Job.
Decision(r, restore, b, job) ==
    IF restore.phase = "" THEN To("Pending", "")
    ELSE IF restore.phase = "Pending"
         THEN IF SourceOf[r] = NoName THEN To("Failed", "") ELSE Validation(b)
    ELSE IF ~b.exists THEN To("Failed", "")
    ELSE IF ~job.exists THEN To("Loading", "created")
    ELSE Progress(job)

\* Mutant: the request is not queued again.
RestoreReturns_Drops(again) == restoreWorker' = NoRestoreCall /\ UNCHANGED restoreQueue

RestoreReturns(again) ==
    /\ restoreWorker' = NoRestoreCall
    /\ restoreQueue' = IF again THEN restoreQueue \cup {restoreWorker.name} ELSE restoreQueue

SourceRead(r) == IF SourceOf[r] = NoName THEN NoBackup ELSE seenBackups[SourceOf[r]].obj

\* Reconcile up to its first write.
RestoreStarts(r) ==
    /\ restoreWorker.pc = "idle" /\ r \in restoreQueue
    /\ restoreQueue' = restoreQueue \ {r}
    /\ LET restore == seenRestores[r].obj
           to == Decision(r, restore, SourceRead(r), seenJobs[r].obj)
       IN  IF ~restore.exists \/ Terminal(restore.phase)
           THEN UNCHANGED restoreWorker
           ELSE restoreWorker' =
                  [pc |-> IF to.note = "created" THEN "createJob" ELSE "writeStatus",
                   name |-> r, obj |-> [restore EXCEPT !.phase = to.phase, !.note = to.note],
                   fresh |-> seenRestores[r].current,
                   hasPath |-> SourceRead(r).phase = "Succeeded"]
    /\ UNCHANGED <<objects, caches, world, backupQueue, backupWorker, budget>>

\* Without a path JobForRqliteRestore indexes past the end: the panic is
\* recovered and retried.
RestoreCreatesJob ==
    /\ restoreWorker.pc = "createJob"
    /\ IF jobs[restoreWorker.name].exists \/ ~restoreWorker.hasPath
       THEN RestoreReturns(TRUE) /\ UNCHANGED <<jobs, seenJobs>>
       ELSE /\ WriteJob(restoreWorker.name, NewJob("restore", 0))
            /\ restoreWorker' = [restoreWorker EXCEPT !.pc = "writeStatus"]
            /\ UNCHANGED restoreQueue
    /\ UNCHANGED <<backups, restores, seenBackups, seenRestores, world, backupQueue,
                   backupWorker, budget>>

RestoreWritesStatus ==
    /\ restoreWorker.pc = "writeStatus"
    /\ LET r == restoreWorker.name
       IN  IF restoreWorker.fresh
           THEN /\ restores' = [restores EXCEPT ![r] = restoreWorker.obj]
                /\ seenRestores' = Behind(seenRestores, r, restoreWorker.obj # restores[r])
                /\ RestoreReturns(~Terminal(restoreWorker.obj.phase))
           ELSE RestoreReturns(TRUE) /\ UNCHANGED <<restores, seenRestores>>
    /\ UNCHANGED <<backups, jobs, seenBackups, seenJobs, world, backupQueue,
                   backupWorker, budget>>

RestoreReconcile ==
    (\E r \in Restores : RestoreStarts(r)) \/ RestoreCreatesJob \/ RestoreWritesStatus

-----------------------------------------------------------------------------
(* Informers.  A Job's event queues the object that owns it, if the object *)
(* is of the controller's kind.                                            *)

SyncBackup(b) ==
    /\ ~seenBackups[b].current
    /\ seenBackups' = [seenBackups EXCEPT ![b] = Cached(backups[b])]
    /\ backupQueue' = backupQueue \cup {b}
    /\ UNCHANGED <<objects, seenRestores, seenJobs, world, restoreQueue, backupWorker,
                   restoreWorker, budget>>

SyncRestore(r) ==
    /\ ~seenRestores[r].current
    /\ seenRestores' = [seenRestores EXCEPT ![r] = Cached(restores[r])]
    /\ restoreQueue' = restoreQueue \cup {r}
    /\ UNCHANGED <<objects, seenBackups, seenJobs, world, backupQueue, backupWorker,
                   restoreWorker, budget>>

SyncJob(n) ==
    /\ ~seenJobs[n].current
    /\ seenJobs' = [seenJobs EXCEPT ![n] = Cached(jobs[n])]
    /\ LET kinds == {o.owner.kind : o \in {j \in {jobs[n], seenJobs[n].obj} : j.exists}}
       IN  /\ backupQueue' = backupQueue \cup (IF "backup" \in kinds THEN {n} ELSE {})
           /\ restoreQueue' = restoreQueue \cup (IF "restore" \in kinds THEN {n} ELSE {})
    /\ UNCHANGED <<objects, seenBackups, seenRestores, world, backupWorker, restoreWorker,
                   budget>>

Informers == \/ \E b \in Backups : SyncBackup(b)
             \/ \E r \in Restores : SyncRestore(r)
             \/ \E n \in Names : SyncJob(n)

-----------------------------------------------------------------------------
(* The Job controller and the pods.  An attempt of a backup writes the     *)
(* file, an attempt of a restore loads one; it may do so and be counted as *)
(* failed all the same.  After some failed attempts (backoffLimit, not     *)
(* counted here) the Job fails.                                            *)

KeepControllers ==
    UNCHANGED <<backups, restores, seenBackups, seenRestores, clusterExists, workers>>

Runs(n, kind) == jobs[n].exists /\ jobs[n].state = "active" /\ jobs[n].owner.kind = kind

WritesFile(n, complete) ==
    /\ files' = [files EXCEPT ![n] = [by |-> jobs[n].owner.uid, complete |-> complete]]
    /\ UNCHANGED loaded

LoadsFile(n) ==
    /\ loaded' = [loaded EXCEPT ![n] = files[SourceOf[n]]]
    /\ UNCHANGED files

AttemptSucceeds(n) ==
    /\ clusterExists
    /\ \/ Runs(n, "backup") /\ WritesFile(n, TRUE)
       \/ Runs(n, "restore") /\ LoadsFile(n)
    /\ WriteJob(n, [jobs[n] EXCEPT !.state = "complete"])
    /\ KeepControllers
    /\ UNCHANGED budget

\* What a failed attempt leaves behind; the pod tries again.
AttemptFails(n) ==
    /\ clusterExists
    /\ \/ Runs(n, "backup") /\ \E complete \in BOOLEAN : WritesFile(n, complete)
       \/ Runs(n, "restore") /\ LoadsFile(n)
    /\ UNCHANGED <<jobs, seenJobs, budget>>
    /\ KeepControllers

JobGivesUp(n) ==
    /\ Runs(n, "backup") \/ Runs(n, "restore")
    /\ WriteJob(n, [jobs[n] EXCEPT !.state = "failed", !.failed = TRUE])
    /\ KeepControllers
    /\ UNCHANGED <<files, loaded, budget>>

\* The pod is lost with its node: it counts as failed, another one starts.
PodEvicted(n) ==
    /\ Runs(n, "backup") \/ Runs(n, "restore")
    /\ budget.evictions < MaxEvictions
    /\ budget' = [budget EXCEPT !.evictions = @ + 1]
    /\ WriteJob(n, [jobs[n] EXCEPT !.failed = TRUE])
    /\ KeepControllers
    /\ UNCHANGED <<files, loaded>>

OwnerExists(n) ==
    IF jobs[n].owner.kind = "backup"
    THEN backups[n].exists /\ backups[n].uid = jobs[n].owner.uid
    ELSE restores[n].exists

GarbageCollects(n) ==
    /\ jobs[n].exists /\ ~OwnerExists(n)
    /\ WriteJob(n, NoJob)
    /\ KeepControllers
    /\ UNCHANGED <<files, loaded, budget>>

JobSteps ==
    \E n \in Names : \/ AttemptSucceeds(n) \/ AttemptFails(n) \/ JobGivesUp(n)
                     \/ PodEvicted(n) \/ GarbageCollects(n)

-----------------------------------------------------------------------------
(* Users, failures and restarts *)

Edit(op) ==
    /\ op \in UserOps
    /\ budget.edits < MaxEdits
    /\ budget' = [budget EXCEPT !.edits = @ + 1]

\* Also what the retention of an RqliteScheduledBackup does.
UserDeletesBackup(b) ==
    /\ Edit("deleteBackup")
    /\ backups[b].exists
    /\ backups' = [backups EXCEPT ![b] = [NoBackup EXCEPT !.uid = backups[b].uid]]
    /\ seenBackups' = Behind(seenBackups, b, TRUE)
    /\ backupWorker' = [backupWorker EXCEPT !.fresh = @ /\ backupWorker.name # b]
    /\ UNCHANGED <<restores, jobs, seenRestores, seenJobs, world, backupQueue,
                   restoreQueue, restoreWorker>>

UserRecreatesBackup(b) ==
    /\ Edit("recreateBackup")
    /\ ~backups[b].exists
    /\ backups' = [backups EXCEPT ![b] =
                     [NoBackup EXCEPT !.exists = TRUE, !.uid = backups[b].uid + 1]]
    /\ seenBackups' = Behind(seenBackups, b, TRUE)
    /\ UNCHANGED <<restores, jobs, seenRestores, seenJobs, world, workers>>

UserDeletesRestore(r) ==
    /\ Edit("deleteRestore")
    /\ restores[r].exists
    /\ restores' = [restores EXCEPT ![r] = NoRestore]
    /\ seenRestores' = Behind(seenRestores, r, TRUE)
    /\ restoreWorker' = [restoreWorker EXCEPT !.fresh = @ /\ restoreWorker.name # r]
    /\ UNCHANGED <<backups, jobs, seenBackups, seenJobs, world, backupQueue,
                   restoreQueue, backupWorker>>

UserDeletesJob(n) ==
    /\ Edit("deleteJob")
    /\ jobs[n].exists
    /\ WriteJob(n, NoJob)
    /\ KeepControllers
    /\ UNCHANGED <<files, loaded>>

UserDeletesCluster ==
    /\ Edit("deleteCluster")
    /\ clusterExists
    /\ clusterExists' = FALSE
    /\ UNCHANGED <<objects, caches, files, loaded, workers>>

Users == \/ \E b \in Backups : UserDeletesBackup(b) \/ UserRecreatesBackup(b)
         \/ \E r \in Restores : UserDeletesRestore(r)
         \/ \E n \in Names : UserDeletesJob(n)
         \/ UserDeletesCluster

Fault ==
    /\ budget.faults < MaxFaults
    /\ budget' = [budget EXCEPT !.faults = @ + 1]

\* The next write of a call fails: it returns the error.
BackupCallFails ==
    /\ backupWorker.pc # "idle"
    /\ Fault /\ BackupReturns(TRUE)
    /\ UNCHANGED <<objects, caches, world, restoreQueue, restoreWorker>>

RestoreCallFails ==
    /\ restoreWorker.pc # "idle"
    /\ Fault /\ RestoreReturns(TRUE)
    /\ UNCHANGED <<objects, caches, world, backupQueue, backupWorker>>

OperatorRestarts ==
    /\ Fault
    /\ seenBackups' = [b \in Backups |-> Cached(backups[b])]
    /\ seenRestores' = [r \in Restores |-> Cached(restores[r])]
    /\ seenJobs' = [n \in Names |-> Cached(jobs[n])]
    /\ backupQueue' = Backups /\ restoreQueue' = Restores
    /\ backupWorker' = NoBackupCall /\ restoreWorker' = NoRestoreCall
    /\ UNCHANGED <<objects, world>>

-----------------------------------------------------------------------------

Next == \/ BackupReconcile \/ RestoreReconcile \/ Informers \/ JobSteps
        \/ Users \/ BackupCallFails \/ RestoreCallFails \/ OperatorRestarts

Spec == Init /\ [][Next]_vars

\* Workers and informers go on; a Job ends, one way or the other, and is
\* collected once its owner is gone.
Fairness ==
    /\ WF_vars(BackupReconcile) /\ WF_vars(RestoreReconcile)
    /\ \A b \in Backups : WF_vars(SyncBackup(b))
    /\ \A r \in Restores : WF_vars(SyncRestore(r))
    /\ \A n \in Names : /\ WF_vars(SyncJob(n))
                        /\ WF_vars(AttemptSucceeds(n) \/ JobGivesUp(n))
                        /\ WF_vars(GarbageCollects(n))

FairSpec == Spec /\ Fairness
=============================================================================
