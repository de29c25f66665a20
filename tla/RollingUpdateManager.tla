------------------------ MODULE RollingUpdateManager ------------------------
(***************************************************************************)
(* internal/managers/rolling_update_manager.go: what Reconcile does when   *)
(* the StatefulSet it found runs another image than the spec asks for.     *)
(* Each action is a step of a running Reconcile call.                      *)
(***************************************************************************)
EXTENDS ClusterState

found == my.sts

\* HandleRollingUpdate creates the update status only where there is none.
WithUpdateStatus(c) ==
    IF c.status.update.phase = "None"
    THEN [c EXCEPT !.status.update = [phase |-> "Pending", target |-> c.version,
                                      start |-> "recent"]]
    ELSE c

HasImagePullErrors ==
    \/ sts.stuck
    \/ sts.pods > 0 /\ Unpullable(sts.currentRevision) /\ Unpullable(sts.updateRevision)

ShouldRollback(c) ==
    /\ RollbackOnFailure
    /\ c.status.update.phase = "InProgress"
    /\ c.status.update.start = "old" \/ HasImagePullErrors

UpdatePreconditionsMet(c) == found.ready >= QuorumOf(c.size)

\* Status().Update of the cluster held by the call: it stores what the call
\* changed in memory, unless the cluster was written since it was read.
StatusUpdate(c) ==
    IF my.fresh THEN WriteCluster(c) ELSE KeepCluster

\* The found image carries the version the spec asks for (only the
\* repository differs): ValidateVersionUpdate rejects the update, the
\* condition is written and the call returns.
VersionUpdateRejected ==
    /\ pc = "rollingUpdate"
    /\ found.image.tag = my.cluster.version
    /\ StatusUpdate([my.cluster EXCEPT !.status.versionValid = "False"])
    /\ ReturnRequeue
    /\ KeepSts /\ KeepHpa /\ KeepOthers

\* HandleRollingUpdate up to its first write: roll back, pause, or go on.
HandleRollingUpdate ==
    /\ pc = "rollingUpdate"
    /\ found.image.tag # my.cluster.version
    /\ LET c == WithUpdateStatus(my.cluster)
       IN  \/ /\ ShouldRollback(c)
              /\ Continue("rollback", [my EXCEPT !.cluster = c])
              /\ KeepCluster
           \/ /\ ~ShouldRollback(c)
              /\ ~UpdatePreconditionsMet(c)
              /\ StatusUpdate([c EXCEPT !.status.update.phase = "Paused"])
              /\ ReturnRequeue
           \/ /\ ~ShouldRollback(c)
              /\ UpdatePreconditionsMet(c)
              /\ Continue("patchImage", [my EXCEPT !.cluster = c])
              /\ KeepCluster
    /\ KeepSts /\ KeepHpa /\ KeepOthers

\* performStandardRollingUpdate: Patch the image, or note that it failed.
PatchImage ==
    /\ pc = "patchImage"
    /\ sts.exists
    /\ WriteSts([sts EXCEPT !.image = ImageOf(my.cluster.version)])
    /\ pc' = "updatePhase"
    /\ my' = [my EXCEPT !.cluster.status.update.phase = "InProgress"]
    /\ EventOf("sts")
    /\ KeepCluster /\ KeepHpa /\ KeepOthers
    /\ UNCHANGED budget

PatchImageFails ==
    /\ pc = "patchImage"
    /\ budget.faults < MaxFaults
    /\ budget' = [budget EXCEPT !.faults = @ + 1]
    /\ pc' = "updatePhase"
    /\ my' = [my EXCEPT !.cluster.status.update.phase = "Failed"]
    /\ KeepCluster /\ KeepSts /\ KeepHpa /\ KeepOthers
    /\ UNCHANGED queued

\* The Status().Update that ends the call in both cases; its own failure is
\* only logged.
UpdatePhase ==
    /\ pc = "updatePhase"
    /\ StatusUpdate(my.cluster)
    /\ ReturnRequeue
    /\ KeepSts /\ KeepHpa /\ KeepOthers

\* The image of the found version, which the StatefulSet has already: the
\* patch is empty unless the image comes from another repository.
RollbackPatch(s) ==
    IF found.image = ImageOf(found.image.tag) THEN s
    ELSE [s EXCEPT !.image = ImageOf(found.image.tag)]

\* performRollback
PerformRollback ==
    /\ pc = "rollback"
    /\ sts.exists
    /\ WriteSts(RollbackPatch(sts))
    /\ pc' = "updatePhase"
    /\ my' = [my EXCEPT !.cluster.status.update.phase = "RolledBack"]
    /\ EventOf("sts")
    /\ KeepCluster /\ KeepHpa /\ KeepOthers
    /\ UNCHANGED budget

PerformRollbackFails ==
    /\ pc = "rollback"
    /\ budget.faults < MaxFaults
    /\ budget' = [budget EXCEPT !.faults = @ + 1]
    /\ pc' = "rollbackFailed"
    /\ my' = [my EXCEPT !.cluster.status.update.phase = "Failed"]
    /\ KeepCluster /\ KeepSts /\ KeepHpa /\ KeepOthers
    /\ UNCHANGED queued

\* After a failed rollback patch an empty result is returned if the status
\* write succeeds, and Reconcile goes on with the next manager.
RecordFailedRollback ==
    /\ pc = "rollbackFailed"
    /\ StatusUpdate(my.cluster)
    /\ IF my.fresh
       THEN /\ pc' = "scalingManager" /\ my' = my /\ EventOf("cluster")
            /\ UNCHANGED budget
       ELSE ReturnRequeue
    /\ KeepSts /\ KeepHpa /\ KeepOthers

RollingUpdateStep ==
    \/ VersionUpdateRejected \/ HandleRollingUpdate
    \/ PatchImage \/ PatchImageFails \/ UpdatePhase
    \/ PerformRollback \/ PerformRollbackFails \/ RecordFailedRollback
=============================================================================
