--------------------- MODULE ContinuousBackupProperties ---------------------
(***************************************************************************)
(* What a continuous backup is expected to do, stated over                 *)
(* ContinuousBackup.                                                       *)
(***************************************************************************)
EXTENDS ContinuousBackup

\* A file is deleted only when a newer backup was at least begun, although the
\* cleanup looks and deletes in two steps and a pod may write the file again in
\* between: a call that could not create its Job cleans up nothing.
NewerBackupIsBegun ==
    \A t \in Times :
        files[t].state = "deleted" => \E u \in Times : u > t /\ jobs[u] # "none"

\* There is a Job for each interval at most.  Only a failed write, a restart,
\* an edit under a running call, or a call that still sees the object of before
\* the last Job creates one more.
OneJobPerInterval ==
    Cardinality({t \in Times : jobs[t] # "none"}) <= 1 + now \div Interval + mishaps

\* The status counts no backup for which no Job was created, and records no time
\* at which none was, whatever failed in between.  (The count is one of Jobs ever
\* created: see CountedBackupsAreStored.)
RecordedBackupsHaveJobs ==
    /\ cb.count <= Cardinality({t \in Times : jobs[t] # "none"})
    /\ cb.last # Never => \E t \in Times : /\ jobs[t] # "none"
                                           /\ t <= cb.last /\ cb.last <= t + MaxCall

\* Backups that the status records are an interval apart, and each is counted
\* once: no call, stale or late, takes one back or records it again.
RecordedBackupsAreAnIntervalApart ==
    [][cb'.last # cb.last =>
          /\ cb.last # Never => cb'.last >= cb.last + Interval
          /\ cb'.last # Never /\ cb'.count = cb.count + 1]_backupVars

\* Nothing but the timer brings the next backup.  The controller never comes to
\* rest without one: at most an interval ahead for a valid object, measured
\* from the last backup if that succeeded; and for a suspended object, when it
\* looks again.  (An interval that does not parse may leave no timer: the call
\* for it asks for a requeue after 0 seconds, which is none.)
NextBackupIsInTime ==
    /\ worker.pc = "idle" /\ ~queued /\ seenCb.current
    /\ cb.exists /\ cb.valid
    => /\ cb.suspended => wake <= now + Recheck
       /\ ~cb.suspended => wake <= now + Interval
       /\ ~cb.suspended /\ cb.reason = "BackupSuccessful" =>
             wake <= cb.last + Interval + MaxCall

\* Backups keep coming: as long as the object is there, valid and not
\* suspended, the last interval of the run has its backup, or the timer for it
\* is set (a Job that could not be created is tried again an interval later).
BackupsKeepComing ==
    <>[](cb.exists /\ cb.valid /\ ~cb.suspended =>
           \/ cb.last # Never /\ cb.last + Interval > MaxTime
           \/ MaxTime < wake /\ wake < Never)

-----------------------------------------------------------------------------
(* What the documentation says and the code does not do *)

\* rqlitecontinuousbackup_types.go:77, "LastBackupTime is the end time of the
\* last successfully created backup".
RecordedBackupIsComplete ==
    cb.last # Never => \E t \in Times : jobs[t] = "complete"

\* rqlitecontinuousbackup_types.go:88, "BackupCount is the total number of
\* database backups currently stored": each backup that is counted has its file,
\* or a pod that is still to write it.
CountedBackupsAreStored ==
    cb.count <= Cardinality({t \in Times : \/ jobs[t] \in {"active", "writing"}
                                           \/ OnVolume(files[t])})

\* README.md:190, "Keep last 5 minutes of backup history": no file that was
\* written within the retention period is deleted.
KeepsYoungBackups ==
    \A t \in Times :
        files[t].state = "deleted" => files[t].written + Retention < now
=============================================================================
