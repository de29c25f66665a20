------------------------- MODULE PointInTimeRestore -------------------------
(***************************************************************************)
(* An RqliteRestore to a point in time, beside the continuous backup whose *)
(* files it loads and whose cleanup Jobs may delete them meanwhile.        *)
(*                                                                         *)
(* A call of the restore controller is one step: what lagging caches and   *)
(* failed writes do to it is in module BackupRestore.                      *)
(***************************************************************************)
EXTENDS ContinuousBackup

CONSTANT Target    \* spec.pointInTime

VARIABLES
    restore,       \* status.phase of the RqliteRestore
    restoreJob,    \* its Job
    selected,      \* the file the pod has selected, by name
    loaded,        \* what it loaded
    clusterExists  \* the RqliteCluster it names

restoreVars == <<restore, restoreJob, selected, loaded, clusterExists>>
vars == <<backupVars, restoreVars>>

ASSUME TargetAssumption == Target \in Times

NoName == Never

\* failed: a pod of it has failed.  mounted: the pod gets the volume of the
\* continuous backup, and not one named wal-archive-storage, which does not exist.
RestoreJob == [state : {"none", "active", "complete", "failed"}, failed : BOOLEAN,
               mounted : BOOLEAN]

NewJob(state, mounted) == [state |-> state, failed |-> FALSE, mounted |-> mounted]

Loaded == [name : Times \cup {NoName}, file : File]

\* Both parts hold values of their kinds.
TypeOK ==
    /\ BackupTypeOK
    /\ restore \in {"", "Pending", "Loading", "Succeeded", "Failed"}
    /\ restoreJob \in RestoreJob
    /\ selected \in Times \cup {NoName}
    /\ loaded \in Loaded
    /\ clusterExists \in BOOLEAN

Init ==
    /\ BackupInit
    /\ restore = ""
    /\ restoreJob = NewJob("none", FALSE)
    /\ selected = NoName
    /\ loaded = [name |-> NoName, file |-> NoFile]
    /\ clusterExists = TRUE

-----------------------------------------------------------------------------
(* The restore controller *)

Terminal == {"Succeeded", "Failed"}

\* Mutant: the result of the Job is not looked at again.
Progress_Stays(job) == "Loading"

\* Mutant: what has not failed is taken for done.
Progress_Unfinished(job) == IF job.failed THEN "Failed" ELSE "Succeeded"

\* handlePITRLoading, where the Job is found.  A lost pod is enough for Failed,
\* although the Job goes on.
Progress(job) ==
    CASE job.state = "complete"               -> "Succeeded"
      [] job.state # "complete" /\ job.failed -> "Failed"
      [] OTHER                                -> "Loading"

\* handlePITRValidation.  No code sets status.lastSegmentTime, so its test of
\* the target's time is never made.
Validated == IF cb.exists /\ clusterExists THEN "Loading" ELSE "Failed"

RestoreReconcile ==
    /\ restore \notin Terminal
    /\ IF restore = "Loading" /\ restoreJob.state = "none"
       THEN /\ restoreJob' = NewJob("active", cb.exists)
            /\ UNCHANGED restore
       ELSE /\ restore' = CASE restore = ""        -> "Pending"
                            [] restore = "Pending" -> Validated
                            [] restore = "Loading" -> Progress(restoreJob)
            /\ UNCHANGED restoreJob
    /\ UNCHANGED <<selected, loaded, clusterExists, backupVars>>

-----------------------------------------------------------------------------
(* The pod: it selects a file, then sends it to the database. *)

Runs == restoreJob.state = "active" /\ restoreJob.mounted

\* Mutant: the newest file, whatever the target.
Eligible_Any == {t \in Times : OnVolume(files[t])}

\* Times are compared as text; the target's ends in its zone, so that its very
\* second is eligible.
Eligible == {t \in Times : OnVolume(files[t]) /\ t <= Target}

PodSelects ==
    /\ Runs /\ selected = NoName
    /\ \E t \in Eligible : (\A u \in Eligible : u <= t) /\ selected' = t
    /\ UNCHANGED <<restore, restoreJob, loaded, clusterExists, backupVars>>

\* The database takes the file, the start of one perhaps too; the answer may
\* be lost, and then the pod tries again.
PodLoads(state) ==
    /\ Runs /\ selected # NoName /\ OnVolume(files[selected]) /\ clusterExists
    /\ loaded' = [name |-> selected, file |-> files[selected]]
    /\ restoreJob' = [restoreJob EXCEPT !.state = state]
    /\ selected' = NoName
    /\ UNCHANGED <<restore, clusterExists, backupVars>>

\* Nothing is eligible, the file is deleted or not taken, or the cluster does
\* not answer: the container is run again, its pod not counted as failed.
PodFails ==
    /\ Runs
    /\ selected' = NoName
    /\ UNCHANGED <<restore, restoreJob, loaded, clusterExists, backupVars>>

\* A pod lost with its node counts as failed; another one starts, or the Job has
\* failed, as it has when backoffLimit is reached (not counted).
PodIsLost(state) ==
    /\ Runs
    /\ restoreJob' = [restoreJob EXCEPT !.state = state, !.failed = TRUE]
    /\ selected' = NoName
    /\ UNCHANGED <<restore, loaded, clusterExists, backupVars>>

UserDeletesCluster ==
    /\ "deleteCluster" \in UserOps /\ clusterExists
    /\ Mishap
    /\ clusterExists' = FALSE
    /\ UNCHANGED <<now, control, volume, restore, restoreJob, selected, loaded>>

-----------------------------------------------------------------------------

RestoreNext == \/ RestoreReconcile \/ PodSelects
               \/ PodLoads("complete") \/ PodLoads("active")
               \/ PodFails \/ PodIsLost("active") \/ PodIsLost("failed")
               \/ UserDeletesCluster

Next == (BackupNext /\ UNCHANGED restoreVars) \/ RestoreNext

Spec == Init /\ [][Next]_vars

\* The controllers and the clock go on; a Job ends, one way or the other.
FairSpec ==
    /\ Spec /\ BackupFairness
    /\ WF_vars(RestoreReconcile)
    /\ WF_vars(PodLoads("complete") \/ PodIsLost("failed"))
=============================================================================
