-------------------------- MODULE ClusterReconciler -------------------------
(***************************************************************************)
(* internal/controller/rqlitecluster_controller.go: the Reconcile function *)
(* of the RqliteCluster controller, composed with the managers it calls.   *)
(* One worker handles the requests of a cluster; the environment moves     *)
(* between any two of its steps.                                           *)
(***************************************************************************)
EXTENDS RollingUpdateManager, ScalingManager, QuorumAwareScaler

-----------------------------------------------------------------------------
(* Entry: reading the cluster, deletion, the finalizer *)

\* Mutant: work starts before the finalizer is on the cluster.
FirstStep_WithoutFinalizer(c) ==
    IF c.state = "gone" THEN "idle"
    ELSE IF c.restore THEN "requeue"
    ELSE IF c.state = "deleting" /\ c.finalizer THEN "removeFinalizer"
    ELSE "services"

\* Mutant: a cluster marked for deletion is left alone.
FirstStep_IgnoresDeletion(c) ==
    IF c.state # "live" THEN "idle"
    ELSE IF c.restore THEN "requeue"
    ELSE IF ~c.finalizer THEN "addFinalizer" ELSE "services"

\* The first decisions of Reconcile.  A restore annotation is looked at
\* before the deletion mark.
FirstStep(c) ==
    IF c.state = "gone" THEN "idle"
    ELSE IF c.restore THEN "requeue"
    ELSE IF c.state = "deleting"
         THEN IF c.finalizer THEN "removeFinalizer" ELSE "idle"
    ELSE IF ~c.finalizer THEN "addFinalizer" ELSE "services"

ReconcileStarts ==
    /\ pc = "idle" /\ queued
    /\ LET first == FirstStep(seenCluster.obj)
       IN  IF first \in {"idle", "requeue"}
           THEN queued' = (first = "requeue") /\ UNCHANGED <<pc, my>>
           ELSE /\ queued' = FALSE
                /\ pc' = first
                /\ my' = [cluster |-> seenCluster.obj, fresh |-> seenCluster.current,
                          sts |-> NoStatefulSet]
    /\ KeepCluster /\ KeepSts /\ KeepHpa /\ KeepOthers
    /\ UNCHANGED budget

\* Update without the finalizer; the API server then drops the object.
RemoveFinalizer ==
    /\ pc = "removeFinalizer"
    /\ IF my.fresh
       THEN /\ WriteCluster(GoneCluster)
            /\ pc' = "idle" /\ my' = NoLocals /\ EventOf("cluster")
            /\ UNCHANGED budget
       ELSE KeepCluster /\ ReturnRequeue
    /\ KeepSts /\ KeepHpa /\ KeepOthers

AddFinalizer ==
    /\ pc = "addFinalizer"
    /\ IF my.fresh THEN WriteCluster([my.cluster EXCEPT !.finalizer = TRUE])
                   ELSE KeepCluster
    /\ ReturnRequeue
    /\ KeepSts /\ KeepHpa /\ KeepOthers

-----------------------------------------------------------------------------
(* Owned objects *)

\* The headless service, then the client service; creating one ends the call.
ReconcileServices ==
    /\ pc = "services"
    /\ \/ /\ "headless" \notin services
          /\ services' = services \cup {"headless"} /\ ReturnRequeue
       \/ /\ "headless" \in services /\ "client" \notin services
          /\ services' = services \cup {"client"} /\ ReturnRequeue
       \/ /\ services = {"headless", "client"}
          /\ UNCHANGED services /\ Continue("statefulSet", my)
    /\ KeepCluster /\ KeepSts /\ KeepHpa
    /\ UNCHANGED pdb

\* The replicas of a new StatefulSet: left out under an HPA, which the API
\* server defaults to 1.
DesiredReplicas(c) == IF HpaManaged(c) THEN 1 ELSE c.size

CreateStatefulSet ==
    /\ WriteSts(NewStatefulSet(DesiredReplicas(my.cluster), ImageOf(my.cluster.version)))
    /\ ReturnRequeue

ReconcileStatefulSet ==
    /\ pc = "statefulSet"
    /\ \/ /\ my.cluster.version \in InvalidVersions     \* the builder fails
          /\ KeepSts /\ ReturnRequeue
       \/ /\ my.cluster.version \notin InvalidVersions
          /\ ~seenSts.obj.exists /\ ~sts.exists
          /\ CreateStatefulSet
       \/ /\ my.cluster.version \notin InvalidVersions
          /\ ~seenSts.obj.exists /\ sts.exists              \* already exists
          /\ KeepSts /\ ReturnRequeue
       \/ /\ my.cluster.version \notin InvalidVersions
          /\ seenSts.obj.exists
          /\ KeepSts
          /\ Continue(IF seenSts.obj.image # ImageOf(my.cluster.version)
                      THEN "rollingUpdate" ELSE "scalingManager",
                      [my EXCEPT !.sts = seenSts.obj])
    /\ KeepCluster /\ KeepHpa /\ KeepOthers

-----------------------------------------------------------------------------
(* Replicas *)

ClusterHealthy(s) == ~Rolling(s) /\ s.ready >= QuorumOf(s.replicas)

\* Mutant: only the health of the cluster is looked at.
ScalingAllowed_IgnoresQuorum(c, s) ==
    c.override \/ c.size > s.replicas \/ ClusterHealthy(s)

\* validateScalingOperation.  Its restore check cannot fire: Reconcile
\* returned on that annotation already.
ScalingAllowed(c, s) ==
    \/ c.override
    \/ c.size > s.replicas
    \/ ValidateQuorumRequirements(s.replicas, c.size) /\ ClusterHealthy(s)

\* Mutant: only a scale-up is noticed.
NeedsScaling_OnlyUp == ~HpaManaged(my.cluster) /\ my.sts.replicas < my.cluster.size

NeedsScaling == ~HpaManaged(my.cluster) /\ my.sts.replicas # my.cluster.size

ReplicasMatch ==
    /\ pc = "replicas"
    /\ ~NeedsScaling
    /\ Continue("pdb", my)
    /\ KeepCluster /\ KeepSts /\ KeepHpa /\ KeepOthers

\* updateScalingBlockedStatus; its failure is only logged.
ScalingBlocked ==
    /\ pc = "replicas"
    /\ NeedsScaling /\ ~ScalingAllowed(my.cluster, my.sts)
    /\ StatusUpdate([my.cluster EXCEPT !.status.scalingAllowed = "False"])
    /\ ReturnRequeue
    /\ KeepSts /\ KeepHpa /\ KeepOthers

PatchReplicas ==
    /\ pc = "replicas"
    /\ NeedsScaling /\ ScalingAllowed(my.cluster, my.sts)
    /\ sts.exists
    /\ WriteSts([sts EXCEPT !.replicas = my.cluster.size])
    /\ ReturnRequeue
    /\ KeepCluster /\ KeepHpa /\ KeepOthers

-----------------------------------------------------------------------------
(* The disruption budget, and the end of the call *)

\* An existing budget is left as it is, whatever the size now.
ReconcilePdb ==
    /\ pc = "pdb"
    /\ IF pdb = 0
       THEN pdb' = PodDisruptionBudgetFor(my.cluster.size) /\ ReturnRequeue
       ELSE UNCHANGED pdb /\ Continue("quorumAwareHpa", my)
    /\ KeepCluster /\ KeepSts /\ KeepHpa
    /\ UNCHANGED services

\* checkLeaderHealth: the rqlite API may or may not name a leader.
LeaderHealth(s) == IF s.ready > 0 THEN BOOLEAN ELSE {FALSE}

\* Mutant: pods that run count as available, ready or not.
ReportedStatus_CountsPods(c, s, leaderHealthy) ==
    [c.status EXCEPT
        !.available = s.pods >= c.size,
        !.progressing = IF Rolling(s) THEN "RollingUpdate"
                        ELSE IF s.pods # c.size THEN "Scaling"
                        ELSE IF s.ready < c.size THEN "WaitingForPods"
                        ELSE "Stable",
        !.scalingAllowed = "True",
        !.leaderHealthy = leaderHealthy]

\* updateStatus: conditions from the StatefulSet found earlier in the call.
ReportedStatus(c, s, leaderHealthy) ==
    [c.status EXCEPT
        !.available = s.ready >= c.size,
        !.progressing = IF Rolling(s) THEN "RollingUpdate"
                        ELSE IF s.pods # c.size THEN "Scaling"
                        ELSE IF s.ready < c.size THEN "WaitingForPods"
                        ELSE "Stable",
        !.scalingAllowed = "True",
        !.leaderHealthy = leaderHealthy]

\* The write comes back as an event if it changed the object.  It also
\* changes the node statuses' LastContact (not modelled) whenever a node was
\* reached in another second than before.
FinishReconcile ==
    /\ pc = "updateStatus"
    /\ \E healthy \in LeaderHealth(my.sts), contactChanged \in BOOLEAN :
          LET c == [my.cluster EXCEPT
                      !.status = ReportedStatus(my.cluster, my.sts, healthy)]
          IN  /\ contactChanged => my.sts.ready > 0
              /\ IF my.fresh
                 THEN /\ WriteCluster(c)
                      /\ pc' = "idle" /\ my' = NoLocals /\ UNCHANGED budget
                      /\ queued' = (queued \/ contactChanged
                                    \/ (c # cluster /\ "cluster" \notin Lagging))
                 ELSE KeepCluster /\ ReturnRequeue
    /\ KeepSts /\ KeepHpa /\ KeepOthers

-----------------------------------------------------------------------------
(* Failures *)

\* Mutant: the error is only logged, and nothing brings the request back.
ApiError_IsLogged ==
    /\ pc # "idle"
    /\ budget.faults < MaxFaults
    /\ budget' = [budget EXCEPT !.faults = @ + 1]
    /\ pc' = "idle" /\ my' = NoLocals /\ UNCHANGED queued
    /\ KeepCluster /\ KeepSts /\ KeepHpa /\ KeepOthers

\* Any other API call of a step fails: the call returns the error.
ApiError ==
    /\ pc # "idle"
    /\ budget.faults < MaxFaults
    /\ budget' = [budget EXCEPT !.faults = @ + 1]
    /\ pc' = "idle" /\ my' = NoLocals /\ queued' = TRUE
    /\ KeepCluster /\ KeepSts /\ KeepHpa /\ KeepOthers

\* The operator stops and starts: memory and workqueue are lost, the caches
\* are filled by a new list, and every cluster is queued.
OperatorRestarts ==
    /\ budget.faults < MaxFaults
    /\ budget' = [budget EXCEPT !.faults = @ + 1]
    /\ pc' = "idle" /\ my' = NoLocals /\ queued' = TRUE
    /\ seenCluster' = Cached(cluster) /\ seenSts' = Cached(sts) /\ seenHpa' = Cached(hpa)
    /\ UNCHANGED <<cluster, sts, hpa, pdb, services>>

-----------------------------------------------------------------------------

Reconcile ==
    \/ ReconcileStarts \/ RemoveFinalizer \/ AddFinalizer
    \/ ReconcileServices \/ ReconcileStatefulSet
    \/ RollingUpdateStep \/ ReconcileScaling
    \/ ReplicasMatch \/ ScalingBlocked \/ PatchReplicas
    \/ ReconcilePdb \/ QuorumAwareStep \/ FinishReconcile

Next == Reconcile \/ ApiError \/ OperatorRestarts \/ Environment

Spec == Init /\ [][Next]_vars

\* The worker takes requests off the queue and its calls return; informers
\* deliver; the StatefulSet controller acts, pods that can start do, and a
\* rollout whose pods keep becoming ready completes.  Nothing is assumed of
\* users, the HPA, failures or time.
Fairness ==
    /\ WF_vars(Reconcile)
    /\ WF_vars(SyncCluster) /\ WF_vars(SyncSts) /\ WF_vars(SyncHpa)
    /\ WF_vars(StsObserves) /\ WF_vars(PodBecomesReady)
    /\ WF_vars(RolloutReplacesStuckPod) /\ SF_vars(RolloutCompletes)
    /\ WF_vars(GarbageCollects)

FairSpec == Spec /\ Fairness
=============================================================================
