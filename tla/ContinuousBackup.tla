-------------------------- MODULE ContinuousBackup --------------------------
(***************************************************************************)
(* The controller of RqliteContinuousBackup: one object, the Jobs it       *)
(* creates every Interval, the files their pods write and the cleanup Jobs *)
(* that delete files older than Retention.                                 *)
(*                                                                         *)
(* The clock counts seconds.  The second at which Reconcile read it names  *)
(* the Job and its file.  The controller does not watch its Jobs: one that *)
(* failed or was collected is here one whose pod takes no further step.    *)
(***************************************************************************)
EXTENDS Integers, FiniteSets

CONSTANTS
    Interval,      \* spec.interval
    Retention,     \* spec.retentionPeriod, 0: it does not parse ("7d")
    Recheck,       \* when to look again at a suspended or invalid object
    UserOps,       \* the kinds of changes users make
    MaxTime,       \* bound: where the clock stops
    MaxCall,       \* bound: seconds a call takes
    MaxMishaps     \* bound: changes made by users, failed calls and pods,
                   \* restarts, calls that decide on an old object, together

VARIABLES
    now,           \* the clock
    cb,            \* the RqliteContinuousBackup
    seenCb,        \* the informer cache
    queued, wake,  \* the work queue: waiting now, and the time of RequeueAfter
    worker,        \* the running call
    jobs,          \* the backup Jobs, by the second in the name
    cleanups,      \* the seconds in the names of the cleanup Jobs
    condemned,     \* the file each cleanup found old and deletes next, or Never
    files,         \* the files on the volume, by the second in the name
    mishaps        \* how many there were

control == <<cb, seenCb, queued, wake, worker>>
volume == <<jobs, cleanups, condemned, files>>
backupVars == <<now, control, volume, mishaps>>

ASSUME ConstantsAssumption ==
    /\ Interval \in Nat \ {0} /\ Retention \in Nat /\ Recheck \in Nat \ {0}
    /\ MaxTime \in Nat /\ MaxCall \in Nat /\ MaxMishaps \in Nat
    /\ Retention > 0 => MaxCall <= Retention

Times == 0..MaxTime
Never == MaxTime + Interval + Recheck + 1

-----------------------------------------------------------------------------
(* Objects *)

\* valid: spec.interval parses; last: status.lastBackupTime, Never: nil;
\* reason and named: the condition, and the Job its message names, if any.
ContinuousBackupObject ==
    [exists : BOOLEAN, valid : BOOLEAN, suspended : BOOLEAN, last : Times \cup {Never},
     count : Nat, reason : {"", "BackupSuccessful", "BackupFailed", "Suspended"},
     named : Times]

\* writing: an attempt of its pod has the file open.
JobState == {"none", "active", "writing", "complete"}

\* written: the modification time, which is when the data was read.
File == [state : {"none", "partial", "complete", "deleted"}, written : Times]

NoFile == [state |-> "none", written |-> 0]

OnVolume(file) == file.state \in {"partial", "complete"}

Cached(o) == [obj |-> o, current |-> TRUE]

\* obj: the object as its status will be stored.
Call == [pc : {"idle", "createJob", "cleanup", "writeStatus"}, at : Times,
         obj : ContinuousBackupObject, fresh : BOOLEAN]

NewObject(valid) ==
    [exists |-> TRUE, valid |-> valid, suspended |-> FALSE, last |-> Never, count |-> 0,
     reason |-> "", named |-> 0]

NoCall == [pc |-> "idle", at |-> 0, obj |-> NewObject(FALSE), fresh |-> FALSE]

\* Every object, Job, file and call holds a value of its kind, and no timer is
\* set further than one wait ahead.
BackupTypeOK ==
    /\ now \in Times
    /\ cb \in ContinuousBackupObject
    /\ seenCb \in [obj : ContinuousBackupObject, current : BOOLEAN]
    /\ queued \in BOOLEAN
    /\ wake = Never \/ wake \in 1..now + Interval + Recheck
    /\ worker \in Call
    /\ jobs \in [Times -> JobState]
    /\ cleanups \subseteq Times /\ condemned \in [Times -> Times \cup {Never}]
    /\ files \in [Times -> File]
    /\ mishaps \in 0..MaxMishaps

BackupInit ==
    /\ now = 0
    /\ \E valid \in BOOLEAN : cb = NewObject(valid)
    /\ seenCb = Cached(cb)
    /\ queued = TRUE /\ wake = Never
    /\ worker = NoCall
    /\ jobs = [t \in Times |-> "none"]
    /\ cleanups = {} /\ condemned = [t \in Times |-> Never]
    /\ files = [t \in Times |-> NoFile]
    /\ mishaps = 0

Mishap == mishaps < MaxMishaps /\ mishaps' = mishaps + 1

-----------------------------------------------------------------------------
(* Reconcile *)

\* Mutant: due one second early.
Due_Early(o) == o.last = Never \/ (o.valid /\ now + 1 >= o.last + Interval)

\* shouldCreateBackup.  The stored time is cut to the second, so within the
\* second of the next run it is due.
Due(o) == o.last = Never \/ (o.valid /\ now >= o.last + Interval)

\* calculateNextRun, of an object that is not due.
NextRun(o) == IF o.valid THEN o.last + Interval ELSE now + Recheck

\* The queue keeps the earliest timer of a request.
WakeBy(t) == IF t < wake THEN t ELSE wake

\* Mutant: the timer is not set.
WaitsUntil_Event(t) == UNCHANGED wake

\* RequeueAfter of a run that is not due.
WaitsUntil(t) == wake' = WakeBy(t)

ReturnsError ==
    /\ worker' = NoCall /\ queued' = TRUE
    /\ UNCHANGED wake

\* Mutant: twice the interval.
RequeuesAfter_Twice(o) == WakeBy(now + 2 * Interval)

\* RequeueAfter: 0 sets no timer, which is what an interval that does not
\* parse gives.
RequeuesAfter(o) ==
    IF o.reason = "Suspended" THEN WakeBy(now + Recheck)
    ELSE IF o.valid THEN WakeBy(now + Interval)
    ELSE wake

\* Reconcile up to its first write.
CallStarts ==
    /\ worker.pc = "idle" /\ queued
    /\ queued' = FALSE
    /\ LET o == seenCb.obj
           call == [pc |-> "createJob", at |-> now, obj |-> o, fresh |-> seenCb.current]
       IN  IF ~o.exists THEN UNCHANGED <<wake, worker, mishaps>>
           ELSE IF o.suspended
           THEN /\ worker' = [call EXCEPT !.pc = "writeStatus", !.obj.reason = "Suspended",
                                          !.obj.named = 0]
                /\ UNCHANGED <<wake, mishaps>>
           ELSE IF ~Due(o) THEN WaitsUntil(NextRun(o)) /\ UNCHANGED <<worker, mishaps>>
           ELSE /\ worker' = call
                /\ IF seenCb.current THEN UNCHANGED mishaps ELSE Mishap
                /\ UNCHANGED wake
    /\ UNCHANGED <<now, cb, seenCb, volume>>

\* createBackupJob once the Job is there; updateSuccessStatus stores it.
Recorded(o) == [o EXCEPT !.count = @ + 1, !.last = now, !.reason = "BackupSuccessful",
                         !.named = 0]

\* Mutant: the retention is applied all the same.
AfterFailure_Cleans == "cleanup"

AfterFailure == "writeStatus"

\* Mutant: the backup is recorded all the same.
JobIsRefused_Records(name) == worker' = [worker EXCEPT !.pc = AfterFailure, !.obj = Recorded(@)]

\* updateFailedStatus is next; the message names the Job where it is the Job
\* that was in the way.
JobIsRefused(name) ==
    worker' = [worker EXCEPT !.pc = AfterFailure, !.obj.reason = "BackupFailed",
                             !.obj.named = name]

CreatesJob ==
    /\ worker.pc = "createJob"
    /\ IF jobs[worker.at] # "none"
       THEN JobIsRefused(worker.at) /\ UNCHANGED jobs
       ELSE /\ jobs' = [jobs EXCEPT ![worker.at] = "active"]
            /\ worker' = [worker EXCEPT !.obj = Recorded(@),
                             !.pc = IF Retention > 0 THEN "cleanup" ELSE "writeStatus"]
    /\ UNCHANGED <<now, cb, seenCb, queued, wake, cleanups, condemned, files, mishaps>>

\* applyRetentionPolicy; a cleanup of the same second is in the way, which is
\* only logged.
CreatesCleanup ==
    /\ worker.pc = "cleanup"
    /\ cleanups' = cleanups \cup {now}
    /\ worker' = [worker EXCEPT !.pc = "writeStatus"]
    /\ UNCHANGED <<now, cb, seenCb, queued, wake, jobs, condemned, files, mishaps>>

WritesStatus ==
    /\ worker.pc = "writeStatus"
    /\ IF worker.fresh
       THEN /\ cb' = worker.obj
            /\ seenCb' = [seenCb EXCEPT !.current = @ /\ worker.obj = cb]
            /\ worker' = NoCall
            /\ wake' = RequeuesAfter(worker.obj)
            /\ UNCHANGED queued
       ELSE ReturnsError /\ UNCHANGED <<cb, seenCb>>
    /\ UNCHANGED <<now, volume, mishaps>>

Reconcile == CallStarts \/ CreatesJob \/ CreatesCleanup \/ WritesStatus

-----------------------------------------------------------------------------
(* The clock, the timer and the informer *)

Tick ==
    /\ now < MaxTime
    /\ worker.pc # "idle" => now < worker.at + MaxCall
    /\ now' = now + 1
    /\ UNCHANGED <<control, volume, mishaps>>

TimerFires ==
    /\ now >= wake
    /\ queued' = TRUE /\ wake' = Never
    /\ UNCHANGED <<now, cb, seenCb, worker, volume, mishaps>>

SyncCb ==
    /\ ~seenCb.current
    /\ seenCb' = Cached(cb)
    /\ queued' = TRUE
    /\ UNCHANGED <<now, cb, wake, worker, volume, mishaps>>

-----------------------------------------------------------------------------
(* The pods.  The shell of a backup opens the file before the data comes,  *)
(* and an attempt that fails leaves what there is.                         *)

KeepController == UNCHANGED <<now, control>>

WritesFile(t, state) == files' = [files EXCEPT ![t] = [state |-> state, written |-> now]]

\* The data is taken to arrive at once, when the attempt succeeds.
BackupOpens(t) ==
    /\ jobs[t] = "active"
    /\ WritesFile(t, "partial")
    /\ jobs' = [jobs EXCEPT ![t] = "writing"]
    /\ UNCHANGED <<cleanups, condemned, mishaps>> /\ KeepController

\* A file deleted while it was open is gone, and the attempt succeeds all the same.
BackupSucceeds(t) ==
    /\ jobs[t] = "writing"
    /\ IF OnVolume(files[t]) THEN WritesFile(t, "complete") ELSE UNCHANGED files
    /\ jobs' = [jobs EXCEPT ![t] = "complete"]
    /\ UNCHANGED <<cleanups, condemned, mishaps>> /\ KeepController

\* The pod may try again.
BackupAttemptFails(t) ==
    /\ jobs[t] = "writing"
    /\ Mishap
    /\ jobs' = [jobs EXCEPT ![t] = "active"]
    /\ UNCHANGED <<cleanups, condemned, files>> /\ KeepController

\* The test of the cleanup Job of second t.
Expired(file, t) == file.written < t - Retention

\* The script of cleanup t looks at a file; run again, it looks anew.
CleanupStats(t) ==
    /\ t \in cleanups
    /\ \E f \in Times : /\ OnVolume(files[f]) /\ Expired(files[f], t)
                        /\ condemned' = [condemned EXCEPT ![t] = f]
    /\ UNCHANGED <<jobs, cleanups, files, mishaps>> /\ KeepController

\* rm -f takes what has that name by now.
CleanupRemoves(t) ==
    /\ condemned[t] # Never
    /\ LET f == condemned[t]
       IN  files' = IF OnVolume(files[f]) THEN [files EXCEPT ![f].state = "deleted"] ELSE files
    /\ condemned' = [condemned EXCEPT ![t] = Never]
    /\ UNCHANGED <<jobs, cleanups, mishaps>> /\ KeepController

BackupPod(t) == BackupOpens(t) \/ BackupSucceeds(t) \/ BackupAttemptFails(t)

CleanupPod(t) == CleanupStats(t) \/ CleanupRemoves(t)

Pods == \E t \in Times : BackupPod(t) \/ CleanupPod(t)

-----------------------------------------------------------------------------
(* Users, failures and restarts *)

\* op \in UserOps: the interval is broken or repaired, the object is suspended
\* or resumed, or deleted.
UserEdits ==
    /\ cb.exists /\ Mishap
    /\ \/ "interval" \in UserOps /\ cb' = [cb EXCEPT !.valid = ~@]
       \/ "suspend" \in UserOps /\ cb' = [cb EXCEPT !.suspended = ~@]
       \/ "delete" \in UserOps /\ cb' = [cb EXCEPT !.exists = FALSE]
    /\ seenCb' = [seenCb EXCEPT !.current = FALSE]
    /\ worker' = [worker EXCEPT !.fresh = FALSE]
    /\ UNCHANGED <<now, queued, wake, volume>>

\* Without a Job the status says so; a failed cleanup is only logged; a failed
\* status write returns the error.
CallFails ==
    /\ Mishap
    /\ \/ worker.pc = "createJob" /\ JobIsRefused(0) /\ UNCHANGED <<queued, wake>>
       \/ /\ worker.pc = "cleanup"
          /\ worker' = [worker EXCEPT !.pc = "writeStatus"] /\ UNCHANGED <<queued, wake>>
       \/ worker.pc = "writeStatus" /\ ReturnsError
    /\ UNCHANGED <<now, cb, seenCb, volume>>

OperatorRestarts ==
    /\ Mishap
    /\ seenCb' = Cached(cb)
    /\ queued' = TRUE /\ wake' = Never
    /\ worker' = NoCall
    /\ UNCHANGED <<now, cb, volume>>

-----------------------------------------------------------------------------

BackupNext == \/ Reconcile \/ Tick \/ TimerFires \/ SyncCb \/ Pods
              \/ UserEdits \/ CallFails \/ OperatorRestarts

BackupSpec == BackupInit /\ [][BackupNext]_backupVars

\* The clock, the timer, the worker and the informer go on.
BackupFairness ==
    /\ WF_backupVars(Tick) /\ WF_backupVars(TimerFires)
    /\ WF_backupVars(Reconcile) /\ WF_backupVars(SyncCb)

FairBackupSpec == BackupSpec /\ BackupFairness
=============================================================================
