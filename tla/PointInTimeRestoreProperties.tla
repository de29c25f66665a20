-------------------- MODULE PointInTimeRestoreProperties --------------------
(***************************************************************************)
(* What a restore to a point in time is expected to do, stated over        *)
(* PointInTimeRestore.                                                     *)
(***************************************************************************)
EXTENDS PointInTimeRestore

\* A restore to a point in time is decided, although retention deletes files
\* under it and its cluster may go.  (Without the continuous backup its pod
\* waits for a volume that does not exist.)
PointInTimeRestoreEnds ==
    <>[](restore \in Terminal \/ (restoreJob.state = "active" /\ ~restoreJob.mounted))

\* A restore that is reported as Succeeded did load the file of a backup that
\* was begun at the target or before.
SucceededRestoreLoadedBackup ==
    restore = "Succeeded" =>
        /\ loaded.name \in Times /\ loaded.name <= Target
        /\ jobs[loaded.name] # "none"

\* The restore as its user sees it; any file that was loaded is its data.
Lifecycle ==
    INSTANCE RestoreLifecycle WITH
        Restores <- {"restore"},
        phase <- [r \in {"restore"} |-> restore],
        loaded <- [r \in {"restore"} |-> loaded.name # NoName]

\* Between the handlers of the phases, the Job and its pod's attempts, a restore
\* to a point in time is a restore like any other: its phase moves forward only,
\* it succeeds only once it loaded a file, and the database is left alone before
\* the restore is validated and after it has succeeded.  (After it has failed it
\* is not: see FailedRestoreIsOver.)
PointInTimeFollowsLifecycle == Lifecycle!Spec

-----------------------------------------------------------------------------
(* What the code says of itself and does not do *)

\* rqliterestore_controller.go:347, "Successfully restored to point-in-time":
\* what was loaded is the state of the target's time or an earlier one.
RestoredStateIsNotLater ==
    restore = "Succeeded" => loaded.file.written <= Target

\* rqliterestore_controller.go:368, "Point-in-time restore job failed during
\* execution": a restore that is reported as Failed loads nothing any more.
FailedRestoreIsOver ==
    [][restore = "Failed" => UNCHANGED loaded]_vars
=============================================================================
