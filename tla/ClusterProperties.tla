------------------------- MODULE ClusterProperties --------------------------
(***************************************************************************)
(* What the RqliteCluster controller is expected to do, stated over        *)
(* ClusterReconciler.                                                      *)
(***************************************************************************)
EXTENDS ClusterReconciler

\* Nothing is pending: no request, no running call, no undelivered event.
Quiescent ==
    /\ pc = "idle" /\ ~queued
    /\ seenCluster.current /\ seenSts.current /\ seenHpa.current

\* The StatefulSet runs what the spec asks for.
SpecApplied ==
    /\ services = {"headless", "client"} /\ pdb # 0
    /\ sts.exists
    /\ sts.image = ImageOf(cluster.version)
    /\ HpaManaged(cluster) \/ sts.replicas = cluster.size

-----------------------------------------------------------------------------
(* Safety *)

\* No early return of Reconcile loses the cluster: whenever the controller
\* has nothing left to do for a cluster, what its spec asks for has been
\* applied, whatever edits, conflicts, failed calls and restarts came before.
QuiescentMeansApplied ==
    Quiescent /\ cluster.state = "live" => SpecApplied

\* updateStatus works on a StatefulSet read at the start of the call; still,
\* once nothing is pending, the Available and Progressing conditions describe
\* the StatefulSet as it is, and no scale operation is reported as blocked.
QuiescentStatusIsCurrent ==
    Quiescent /\ cluster.state = "live" =>
        /\ cluster.status.available <=> sts.ready >= cluster.size
        /\ cluster.status.progressing = "RollingUpdate" <=> Rolling(sts)
        /\ cluster.status.progressing = "Stable" <=>
              ~Rolling(sts) /\ sts.pods = cluster.size /\ sts.ready >= cluster.size
        /\ cluster.status.scalingAllowed = "True"

\* No deletion is forgotten: the operator never rests while a cluster waits for
\* its finalizer to be removed, although calls that started before the deletion
\* go on for the cluster as it was.
QuiescentMeansDeleted ==
    Quiescent => cluster.state # "deleting"

\* Where the quorum rule can be broken: the operator lowers the replica count
\* against ValidateQuorumRequirements only when the StatefulSet changed since the
\* call read it, so that its event is queued or still to come, or when the
\* override annotation was set.  The rule fails nowhere else (see
\* ScaleDownKeepsQuorum): the many steps between read and patch, and the second
\* patch of the scaler's correction, keep to it.
OnlyUnseenChangesBreakQuorum ==
    [][ /\ pc # pc'
        /\ sts.exists /\ sts'.exists /\ sts'.replicas < sts.replicas
        /\ ~my.cluster.override
        => \/ ValidateQuorumRequirements(sts.replicas, sts'.replicas)
           \/ queued \/ ~seenSts.current ]_vars

\* The finalizer closes a cluster's life: once it is gone no call, not even
\* one that started from a stale copy of it, writes any object of it.
NothingDoneForGoneCluster ==
    [][ cluster.state = "gone" /\ pc # pc' =>
        UNCHANGED <<cluster, sts, hpa, pdb, services>> ]_vars

\* The steps between the finalizer and the end of a call.
WorkSteps == Steps \ {"idle", "removeFinalizer", "addFinalizer"}

\* Why the finalizer is enough: while the operator works for a cluster, or is
\* about to because it sees a live one with the finalizer, the cluster still
\* has the finalizer, so nobody but the operator can let it go; and the two
\* steps that write the finalizer only take effect on the version they read.
FinalizerProtectsCluster ==
    /\ seenCluster.current => seenCluster.obj = cluster
    /\ seenCluster.obj.state = "live" /\ seenCluster.obj.finalizer =>
          cluster.finalizer /\ cluster.state # "gone"
    /\ pc \in WorkSteps =>
          /\ my.cluster.state = "live" /\ my.cluster.finalizer
          /\ cluster.finalizer /\ cluster.state # "gone"
    /\ pc = "removeFinalizer" => my.cluster.state = "deleting"
    /\ pc = "addFinalizer" => my.cluster.state = "live"
    /\ pc \in {"removeFinalizer", "addFinalizer"} /\ my.fresh =>
          seenCluster.current /\ my.cluster = cluster

\* With consistent auto-scaling settings the HPA follows them: once nothing
\* is pending it exists exactly when auto-scaling asks for it, and its
\* bounds are odd.
QuiescentHpaMatchesSpec ==
    Quiescent /\ cluster.state = "live" =>
        /\ hpa.exists <=> HpaManaged(cluster)
        /\ hpa.exists => IsOdd(hpa.min) /\ IsOdd(hpa.max)

\* README, Quorum-Aware Scaling: whatever count the HPA controller chose, the
\* operator's last word is an odd one.
QuiescentReplicasAreOdd ==
    Quiescent /\ cluster.state = "live" /\ cluster.auto.enabled =>
        IsOdd(sts.replicas)

-----------------------------------------------------------------------------
(* Liveness *)

\* A spec the operator can carry out.  A scale-down that the quorum rule
\* refuses stays refused; a restore annotation suspends the cluster.
Feasible ==
    /\ cluster.state = "live" /\ ~cluster.restore
    /\ cluster.version \notin InvalidVersions
    /\ sts.exists => \/ ValidateQuorumRequirements(sts.replicas, cluster.size)
                     \/ cluster.override

\* Users stop editing after MaxEdits edits.  From then on the spec gets
\* applied and stays applied, through blocked scale-downs and paused updates,
\* failing pods, failed calls and restarts.  The size and the image edited at
\* once may wait for each other for ever: update_while_resizing.cfg.
EventuallyApplied == <>[](Feasible => SpecApplied)

\* A scale operation or update is only ever put off: the rollout it started
\* completes with every pod ready.
EventuallyStable ==
    <>[](Feasible => ~Rolling(sts) /\ sts.ready = cluster.size)

\* A deleted cluster goes away, with everything it owned, unless it carries
\* the restore annotation.
DeletionCompletes ==
    cluster.state = "deleting" /\ ~cluster.restore ~>
        cluster.state = "gone" /\ ~sts.exists /\ ~hpa.exists
        /\ pdb = 0 /\ services = {}

-----------------------------------------------------------------------------
(* What documentation and comments claim and the code does not do *)

\* helpers.go:26, "scaling from %d to %d nodes would break quorum": the operator
\* lowers the replica count only as the rule that says so permits for the count
\* the StatefulSet has, unless the override annotation was set.
ScaleDownKeepsQuorum ==
    [][ /\ pc # pc'
        /\ sts.exists /\ sts'.exists /\ sts'.replicas < sts.replicas
        /\ ~my.cluster.override
        => ValidateQuorumRequirements(sts.replicas, sts'.replicas) ]_vars

\* pdb_builder.go:14, "we want to maintain quorum during maintenance": with
\* nothing pending and all pods ready, evicting as many pods as the budget
\* permits leaves a majority of the cluster's size.
PdbMaintainsQuorum ==
    Quiescent /\ cluster.state = "live" =>
        cluster.size - pdb >= QuorumOf(cluster.size)

\* README.md:21, "Automatic rollback on failed updates": an update whose
\* image cannot be pulled does not stay in the StatefulSet for ever.
FailedUpdateIsRolledBack ==
    [](sts.stuck => <>~sts.stuck)

\* README.md:22, "Pod Disruption Budgets": a live cluster gets one.
PdbEventuallyCreated == []<>(pdb # 0 \/ cluster.state # "live")
=============================================================================
