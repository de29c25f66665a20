-------------------------- MODULE Quiescence_proofs -------------------------
(***************************************************************************)
(* The properties of rest of ClusterProperties: what holds whenever the    *)
(* RqliteCluster controller has nothing left to do, proved for any caches  *)
(* that lag and any number of edits, failed calls and restarts.  They      *)
(* depend on every early return of Reconcile: a call that ends without     *)
(* bringing its request back must have found everything as it should be.   *)
(***************************************************************************)
EXTENDS ClusterReconciler_proofs, Arithmetic_proofs

-----------------------------------------------------------------------------
(* The inductive invariant *)

\* Quiescent, but for the cache of the HPA, whose delivery causes no request.
Settled == pc = "idle" /\ ~queued /\ seenCluster.current /\ seenSts.current

\* The rest of a call after a step of it.
AtEnd == {"evaluateScaling", "updateStatus"}
AfterPdb == {"quorumAwareHpa"} \cup AtEnd
AfterReplicas == {"pdb"} \cup AfterPdb
AfterUpdate == {"scalingManager", "replicas"} \cup AfterReplicas
AfterRead == {"rollingUpdate", "rollback", "patchImage", "updatePhase", "rollbackFailed"}
                \cup AfterUpdate
AfterServices == {"statefulSet"} \cup AfterRead

OwnedObjectsExist ==
    /\ pc \in AfterServices => services = {"headless", "client"}
    /\ pc \in AfterPdb => pdb # 0

StsCacheFollows == seenSts.current => seenSts.obj = sts

\* Unless a change of the StatefulSet has queued the cluster, or is still to be
\* delivered, the copy a call works on is the StatefulSet.
SnapshotIsCurrent ==
    pc \in AfterRead =>
        /\ my.sts.exists
        /\ ~queued /\ seenSts.current => my.sts = sts

\* A call whose cluster was not written meanwhile holds the stored one, up to
\* the update; and it tries a rollback only while the stored phase is InProgress.
FreshIsStored ==
    /\ pc \in {"services", "statefulSet", "rollingUpdate"} /\ my.fresh => my.cluster = cluster
    /\ pc = "rollback" /\ my.fresh => cluster.status.update.phase = "InProgress"
    /\ pc = "rollbackFailed" =>
          /\ my.cluster.status.update.phase = "Failed"
          /\ my.fresh => cluster.status.update.phase = "InProgress"

\* Past the update the image is the one asked for; a call that goes on after a
\* failed rollback wrote the cluster, and the event is there or to come.
ImageIsRight ==
    pc \in AfterUpdate /\ ~queued /\ seenCluster.current =>
        my.sts.image = ImageOf(my.cluster.version)

ReplicasAreRight ==
    pc \in AfterReplicas => HpaManaged(my.cluster) \/ my.sts.replicas = my.cluster.size

CallIsOnCourse ==
    /\ OwnedObjectsExist /\ StsCacheFollows /\ SnapshotIsCurrent
    /\ FreshIsStored /\ ImageIsRight /\ ReplicasAreRight

\* What a call that found everything as it should be has reported.
StatusIsCurrent ==
    /\ cluster.status.scalingAllowed = "True"
    /\ cluster.status.available <=> sts.ready >= cluster.size
    /\ cluster.status.progressing = "RollingUpdate" <=> Rolling(sts)
    /\ cluster.status.progressing = "Stable" <=>
          ~Rolling(sts) /\ sts.pods = cluster.size /\ sts.ready >= cluster.size

SettledIsRight == Settled /\ cluster.state = "live" => SpecApplied /\ StatusIsCurrent

IInv == FinalizerInv /\ CallIsOnCourse /\ SettledIsRight

-----------------------------------------------------------------------------
(* What a step may do without leaving something pending *)

\* A step either queues the cluster, or leaves the queue to the events of the
\* one object it writes.
LEMMA StepKinds ==
    ASSUME [Next]_vars, ~ReconcileStarts, ~FinishReconcile
    PROVE  \/ queued' = TRUE
           \/ queued' = queued /\ KeepCluster /\ KeepSts
           \/ UpdateTimeoutElapses
           \/ EventOf("sts") /\ KeepCluster /\ \E s : WriteSts(s)
           \/ EventOf("cluster") /\ KeepSts /\ \E c : WriteCluster(c)
<1>1. CASE UNCHANGED vars
  BY <1>1 DEF vars, KeepCluster, KeepSts
<1>2. CASE ApiError \/ OperatorRestarts \/ SyncCluster \/ SyncSts
  BY <1>2 DEF ApiError, OperatorRestarts, SyncCluster, SyncSts
<1>3. CASE SyncHpa
  BY <1>3 DEF SyncHpa, KeepCluster, KeepSts
<1>4. CASE Users
  <2>1. (\E c : Edit(c)) \/ UserMirrorsImage
    BY <1>4 DEF Users, UserSetsSize, UserSetsVersion, UserSetsAutoScaling,
                UserTogglesOverride, UserTogglesRestore, UserDeletes
  <2> QED
    BY <2>1 DEF Edit, UserMirrorsImage
<1>5. CASE Workload \/ HpaScales \/ GarbageCollects
  <2>1. CASE Workload
    <3>1. \E s : StsStatus(s)
      BY <2>1 DEF Workload, StsObserves, PodBecomesReady, PodFails, RolloutReplacesPod,
                  RolloutReplacesStuckPod, RolloutCompletes
    <3> QED
      BY <3>1 DEF StsStatus
  <2>2. CASE HpaScales \/ GarbageCollects
    BY <2>2 DEF HpaScales, GarbageCollects
  <2> QED
    BY <1>5, <2>1, <2>2
<1>6. CASE Reconcile
  <2>1. CASE RemoveFinalizer \/ AddFinalizer
    BY <2>1 DEF RemoveFinalizer, AddFinalizer, ReturnRequeue
  <2>2. CASE ReconcileServices \/ ReplicasMatch \/ ScalingBlocked \/ PatchReplicas \/ ReconcilePdb
    BY <2>2 DEF ReconcileServices, ReplicasMatch, ScalingBlocked, PatchReplicas, ReconcilePdb,
                ReturnRequeue, Continue
  <2>3. CASE ReconcileStatefulSet
    BY <2>3 DEF ReconcileStatefulSet, CreateStatefulSet, ReturnRequeue, Continue
  <2>4. CASE RollingUpdateStep
    <3>1. CASE VersionUpdateRejected \/ HandleRollingUpdate \/ UpdatePhase
      BY <3>1 DEF VersionUpdateRejected, HandleRollingUpdate, UpdatePhase, ReturnRequeue, Continue
    <3>2. CASE PatchImage \/ PatchImageFails \/ PerformRollback \/ PerformRollbackFails
      BY <3>2 DEF PatchImage, PatchImageFails, PerformRollback, PerformRollbackFails
    <3>3. CASE RecordFailedRollback
      BY <3>3 DEF RecordFailedRollback, ReturnRequeue, StatusUpdate
    <3> QED
      BY <2>4, <3>1, <3>2, <3>3 DEF RollingUpdateStep
  <2>5. CASE ReconcileScaling
    <3>1. KeepCluster /\ KeepSts /\ (ReturnRequeue \/ \E created : AfterScaling(my.cluster, created))
      BY <2>5 DEF ReconcileScaling, CreateHpa, UpdateHpa, KeepHpaAsItIs, DeleteHpa,
                  NoHpaToDelete, ScalingConflict
    <3> QED
      BY <3>1 DEF AfterScaling, ReturnRequeue, Continue
  <2>6. CASE QuorumAwareStep
    <3>1. CASE CreateOrUpdateHPA
      BY <3>1 DEF CreateOrUpdateHPA, CleanupHPA, BuildPanics, CreateOrUpdate, Proceed,
                  Continue, ReturnRequeue
    <3>2. CASE EvaluateIntelligentScaling
      BY <3>2 DEF EvaluateIntelligentScaling, Continue, ReturnRequeue
    <3> QED
      BY <2>6, <3>1, <3>2 DEF QuorumAwareStep
  <2> QED
    BY <1>6, <2>1, <2>2, <2>3, <2>4, <2>5, <2>6 DEF Reconcile
<1> QED
  BY <1>1, <1>2, <1>3, <1>4, <1>5, <1>6 DEF Next, Environment, Informers

LEMMA WritesLeaveTraces ==
    ASSUME TypeOK, NEW kind, EventOf(kind), ~queued'
    PROVE  /\ ~queued
           /\ kind = "sts" => \A s : WriteSts(s) /\ seenSts'.current => KeepSts
           /\ kind = "cluster" => \A c : WriteCluster(c) /\ seenCluster'.current => KeepCluster
<1>1. ~queued /\ kind \in Lagging
  BY DEF EventOf
<1>2. \A Kind : \A cache \in CacheOf(Kind) : [cache EXCEPT !.current = FALSE].current = FALSE
  BY DEF CacheOf
<1>3. ASSUME kind = "sts", NEW s, WriteSts(s), seenSts'.current PROVE KeepSts
  BY <1>1, <1>2, <1>3 DEF WriteSts, Behind, KeepSts, TypeOK
<1>4. ASSUME kind = "cluster", NEW c, WriteCluster(c), seenCluster'.current PROVE KeepCluster
  BY <1>1, <1>2, <1>4 DEF WriteCluster, Behind, KeepCluster, TypeOK
<1> QED
  BY <1>1, <1>3, <1>4

\* The end of a call that leaves nothing pending wrote a status that was there.
LEMMA FinishKinds ==
    ASSUME FinalizerInv, FinishReconcile, ~queued'
    PROVE  /\ ~queued /\ KeepSts /\ my.fresh /\ pc = "updateStatus" /\ pc' = "idle"
           /\ UNCHANGED <<hpa, pdb, services>>
           /\ \E healthy \in BOOLEAN :
                LET c == [my.cluster EXCEPT
                            !.status = ReportedStatus(my.cluster, my.sts, healthy)]
                IN  cluster' = c /\ (seenCluster'.current => c = cluster /\ KeepCluster)
<1>1. PICK healthy \in LeaderHealth(my.sts), contactChanged \in BOOLEAN :
        LET c == [my.cluster EXCEPT
                    !.status = ReportedStatus(my.cluster, my.sts, healthy)]
        IN  IF my.fresh
            THEN /\ WriteCluster(c)
                 /\ pc' = "idle" /\ my' = NoLocals /\ UNCHANGED budget
                 /\ queued' = (queued \/ contactChanged
                               \/ (c # cluster /\ "cluster" \notin Lagging))
            ELSE KeepCluster /\ ReturnRequeue
  BY DEF FinishReconcile
<1> DEFINE c == [my.cluster EXCEPT !.status = ReportedStatus(my.cluster, my.sts, healthy)]
<1>2. my.fresh
  BY <1>1 DEF ReturnRequeue
<1>3. /\ WriteCluster(c) /\ pc' = "idle"
      /\ queued' = (queued \/ contactChanged \/ (c # cluster /\ "cluster" \notin Lagging))
  BY <1>1, <1>2
<1>4. healthy \in BOOLEAN /\ my.cluster \in Cluster /\ my.sts \in StatefulSet
  BY DEF LeaderHealth, FinalizerInv, TypeOK, Locals
<1>5. c \in Cluster
  BY <1>4, ReportedStatusType
<1> HIDE DEF c
<1>6. ~queued /\ (c = cluster \/ "cluster" \in Lagging)
  BY <1>3
<1>7. seenCluster'.current => c = cluster /\ KeepCluster
  BY <1>3, <1>6 DEF WriteCluster, Behind, KeepCluster, FinalizerInv, TypeOK, CacheOf
<1>8. cluster' = c
  BY <1>3 DEF WriteCluster
<1>9. KeepSts /\ pc = "updateStatus" /\ UNCHANGED <<hpa, pdb, services>>
  BY DEF FinishReconcile, KeepHpa, KeepOthers
<1> QED
  BY <1>2, <1>3, <1>4, <1>6, <1>7, <1>8, <1>9 DEF c

\* Where nothing is queued and the cache is up to date after a step within a
\* call, so it was before, and the object is as it was.
LEMMA StsUndisturbed ==
    ASSUME FinalizerInv, [Next]_vars, ~ReconcileStarts, ~queued', seenSts'.current
    PROVE  ~queued /\ seenSts.current /\ sts' = sts
<1>1. CASE FinishReconcile
  BY <1>1, FinishKinds DEF KeepSts
<1>2. CASE UpdateTimeoutElapses
  BY <1>2 DEF UpdateTimeoutElapses
<1>3. CASE ~FinishReconcile /\ ~UpdateTimeoutElapses
  <2>1. \/ queued' = queued /\ KeepSts
        \/ EventOf("sts") /\ \E s : WriteSts(s)
        \/ EventOf("cluster") /\ KeepSts
    BY <1>3, StepKinds
  <2> QED
    BY <2>1, WritesLeaveTraces DEF KeepSts, FinalizerInv
<1> QED
  BY <1>1, <1>2, <1>3

LEMMA ClusterUndisturbed ==
    ASSUME FinalizerInv, [Next]_vars, ~ReconcileStarts, ~queued', seenCluster'.current
    PROVE  /\ ~queued /\ seenCluster.current
           /\ cluster' = cluster \/ cluster' = Aged(cluster)
<1>1. CASE FinishReconcile
  BY <1>1, FinishKinds DEF KeepCluster
<1>2. CASE UpdateTimeoutElapses
  BY <1>2 DEF UpdateTimeoutElapses, FinalizerInv, TypeOK, CacheOf
<1>3. CASE ~FinishReconcile /\ ~UpdateTimeoutElapses
  <2>1. \/ queued' = queued /\ KeepCluster
        \/ EventOf("sts") /\ KeepCluster
        \/ EventOf("cluster") /\ \E c : WriteCluster(c)
    BY <1>3, StepKinds
  <2> QED
    BY <2>1, WritesLeaveTraces DEF KeepCluster, FinalizerInv
<1> QED
  BY <1>1, <1>2, <1>3

-----------------------------------------------------------------------------
(* What a step leaves of the running call *)

SameSpec(c, d) == c.size = d.size /\ c.version = d.version /\ c.auto = d.auto

\* The spec of a cluster is not changed by writes of its status.
LEMMA StatusEditsKeepSpec ==
    ASSUME NEW c \in Cluster
    PROVE  /\ SameSpec(WithUpdateStatus(c), c)
           /\ SameSpec(Aged(c), c)
           /\ Aged(c).state = c.state
           /\ \A p : SameSpec([c EXCEPT !.status.update.phase = p], c)
           /\ \A e : SameSpec([c EXCEPT !.status.hpaEnabled = e], c)
           /\ \A st : SameSpec([c EXCEPT !.status = st], c)
  BY DEF Cluster, WithUpdateStatus, Aged, SameSpec

\* Steps of others: they may make the call's cluster stale, or age it.
LEMMA OthersKeepCall ==
    ASSUME TypeOK, Environment \/ UNCHANGED vars
    PROVE  /\ pc' = pc /\ my'.sts = my.sts /\ SameSpec(my'.cluster, my.cluster)
           /\ my'.fresh =>
                /\ my.fresh
                /\ \/ cluster' = cluster /\ my'.cluster = my.cluster
                   \/ cluster' = Aged(cluster) /\ my'.cluster = Aged(my.cluster)
<1>0. my \in Locals /\ my.cluster \in Cluster
  BY DEF TypeOK, Locals
<1>1. CASE UNCHANGED vars \/ SyncCluster \/ SyncSts \/ SyncHpa
  BY <1>1 DEF vars, SyncCluster, SyncSts, SyncHpa, SameSpec
<1>2. ASSUME NEW c, Edit(c)
      PROVE  pc' = pc /\ my'.sts = my.sts /\ my'.cluster = my.cluster /\ my'.fresh = FALSE
  BY <1>0, <1>2 DEF Edit, Locals
<1>3. CASE Users
  <2>1. (\E c : Edit(c)) \/ UserMirrorsImage
    BY <1>3 DEF Users, UserSetsSize, UserSetsVersion, UserSetsAutoScaling,
                UserTogglesOverride, UserTogglesRestore, UserDeletes
  <2> QED
    BY <1>2, <2>1 DEF UserMirrorsImage, KeepCluster, SameSpec
<1>4. CASE Workload \/ HpaScales \/ GarbageCollects
  <2>1. KeepCluster /\ UNCHANGED <<pc, my>>
    <3>1. CASE Workload
      BY <3>1 DEF Workload, StsObserves, PodBecomesReady, PodFails, RolloutReplacesPod,
                  RolloutReplacesStuckPod, RolloutCompletes, StsStatus
    <3>2. CASE HpaScales \/ GarbageCollects
      BY <3>2 DEF HpaScales, GarbageCollects
    <3> QED
      BY <1>4, <3>1, <3>2
  <2> QED
    BY <2>1 DEF KeepCluster, SameSpec
<1>5. CASE UpdateTimeoutElapses
  <2>1. /\ pc' = pc /\ my'.sts = my.sts /\ my'.cluster = Aged(my.cluster) /\ my'.fresh = my.fresh
        /\ cluster' = Aged(cluster)
    BY <1>0, <1>5 DEF UpdateTimeoutElapses, Locals
  <2> QED
    BY <1>0, <2>1, StatusEditsKeepSpec
<1> QED
  BY <1>1, <1>3, <1>4, <1>5 DEF Environment, Informers

\* Steps of others during a call leave the objects only Reconcile and the
\* garbage collector write.
LEMMA OthersKeepObjects ==
    ASSUME Environment \/ UNCHANGED vars, cluster.state # "gone"
    PROVE  UNCHANGED <<services, pdb, hpa>>
<1>1. CASE UNCHANGED vars \/ Informers \/ HpaScales \/ UpdateTimeoutElapses
  BY <1>1 DEF vars, Informers, SyncCluster, SyncSts, SyncHpa, HpaScales, KeepHpa, KeepOthers,
              UpdateTimeoutElapses
<1>2. CASE Users
  BY <1>2 DEF Users, UserSetsSize, UserSetsVersion, UserSetsAutoScaling, UserTogglesOverride,
              UserTogglesRestore, UserDeletes, UserMirrorsImage, Edit, KeepHpa, KeepOthers
<1>3. CASE Workload
  BY <1>3 DEF Workload, StsObserves, PodBecomesReady, PodFails, RolloutReplacesPod,
              RolloutReplacesStuckPod, RolloutCompletes, StsStatus, KeepHpa, KeepOthers
<1>4. ~GarbageCollects
  BY DEF GarbageCollects
<1> QED
  BY <1>1, <1>2, <1>3, <1>4 DEF Environment

\* How a call that has seen the services goes on: each step with what it found
\* or did.  The other steps end it.
Advance ==
    \/ /\ pc = "services" /\ pc' = "statefulSet" /\ my' = my
       /\ services' = {"headless", "client"} /\ UNCHANGED <<cluster, pdb, hpa>>
    \/ /\ pc = "statefulSet" /\ pc' \in {"rollingUpdate", "scalingManager"}
       /\ my'.cluster = my.cluster /\ my'.fresh = my.fresh
       /\ my'.sts = seenSts.obj /\ seenSts.obj.exists
       /\ pc' = "scalingManager" => seenSts.obj.image = ImageOf(my.cluster.version)
       /\ UNCHANGED <<cluster, services, pdb, hpa>>
    \/ /\ pc = "rollingUpdate" /\ pc' = "rollback"
       /\ my.cluster.status.update.phase = "InProgress" /\ my'.fresh = my.fresh
       /\ SameSpec(my'.cluster, my.cluster) /\ my'.sts = my.sts
       /\ UNCHANGED <<cluster, services, pdb, hpa>>
    \/ /\ pc \in {"rollingUpdate", "rollback", "patchImage"} /\ pc' \in {"patchImage", "updatePhase"}
       /\ SameSpec(my'.cluster, my.cluster) /\ my'.sts = my.sts
       /\ UNCHANGED <<services, pdb, hpa>>
    \/ /\ pc = "rollback" /\ pc' = "rollbackFailed"
       /\ my'.cluster.status.update.phase = "Failed" /\ my'.fresh = my.fresh
       /\ SameSpec(my'.cluster, my.cluster) /\ my'.sts = my.sts
       /\ UNCHANGED <<cluster, services, pdb, hpa>>
    \/ /\ pc = "rollbackFailed" /\ pc' = "scalingManager" /\ my.fresh /\ my' = my
       /\ cluster' = my.cluster /\ UNCHANGED <<services, pdb, hpa>>
    \/ /\ pc = "scalingManager" /\ pc' = "replicas"
       /\ SameSpec(my'.cluster, my.cluster) /\ my'.sts = my.sts
       /\ UNCHANGED <<services, pdb>>
    \/ /\ pc = "replicas" /\ pc' = "pdb" /\ my' = my /\ ~NeedsScaling
       /\ UNCHANGED <<services, pdb, hpa>>
    \/ /\ pc = "pdb" /\ pc' = "quorumAwareHpa" /\ my' = my /\ pdb # 0
       /\ UNCHANGED <<services, pdb, hpa>>
    \/ /\ CreateOrUpdateHPA /\ pc = "quorumAwareHpa" /\ pc' = "evaluateScaling" /\ my' = my
       /\ UNCHANGED <<services, pdb>>
    \/ /\ EvaluateIntelligentScaling /\ pc = "evaluateScaling" /\ pc' = "updateStatus" /\ my' = my
       /\ UNCHANGED <<services, pdb, hpa>>

LEMMA RollingUpdateAdvances ==
    ASSUME TypeOK, RollingUpdateStep, pc' # "idle"
    PROVE  Advance
<1>0. my \in Locals /\ my.cluster \in Cluster
  BY DEF TypeOK, Locals
<1>1. CASE HandleRollingUpdate
  <2> DEFINE c == WithUpdateStatus(my.cluster)
  <2>1. /\ pc = "rollingUpdate" /\ pc' \in {"rollback", "patchImage"}
        /\ my' = [my EXCEPT !.cluster = c] /\ UNCHANGED <<cluster, services, pdb, hpa>>
        /\ pc' = "rollback" => c.status.update.phase = "InProgress"
    BY <1>1 DEF HandleRollingUpdate, Continue, ReturnRequeue, ShouldRollback, KeepCluster,
                KeepHpa, KeepOthers
  <2>2. SameSpec(c, my.cluster)
    BY <1>0, StatusEditsKeepSpec
  <2>3. c.status.update.phase = "InProgress" => my.cluster.status.update.phase = "InProgress"
    BY <1>0 DEF WithUpdateStatus, Cluster, Status
  <2>4. [my EXCEPT !.cluster = c].cluster = c /\ [my EXCEPT !.cluster = c].sts = my.sts
        /\ [my EXCEPT !.cluster = c].fresh = my.fresh
    BY <1>0 DEF Locals
  <2> HIDE DEF c
  <2> QED
    BY <2>1, <2>2, <2>3, <2>4 DEF Advance
<1>2. CASE PatchImage \/ PatchImageFails \/ PerformRollback \/ PerformRollbackFails
  <2>1. /\ pc \in {"patchImage", "rollback"}
        /\ pc' = "updatePhase" \/ (pc = "rollback" /\ pc' = "rollbackFailed")
        /\ UNCHANGED <<cluster, services, pdb, hpa>>
        /\ \E p : /\ my' = [my EXCEPT !.cluster.status.update.phase = p]
                  /\ pc' = "rollbackFailed" => p = "Failed"
    BY <1>2 DEF PatchImage, PatchImageFails, PerformRollback, PerformRollbackFails,
                KeepCluster, KeepHpa, KeepOthers
  <2>2. PICK p : /\ my' = [my EXCEPT !.cluster.status.update.phase = p]
                 /\ pc' = "rollbackFailed" => p = "Failed"
    BY <2>1
  <2>3. [my EXCEPT !.cluster.status.update.phase = p]
          = [my EXCEPT !.cluster = [my.cluster EXCEPT !.status.update.phase = p]]
    BY <1>0 DEF Locals, Cluster
  <2> DEFINE d == [my.cluster EXCEPT !.status.update.phase = p]
  <2>4. SameSpec(d, my.cluster) /\ d.status.update.phase = p
    BY <1>0, StatusEditsKeepSpec DEF Cluster, Status, UpdateStatus
  <2>5. my' = [my EXCEPT !.cluster = d]
    BY <2>2, <2>3, Zenon
  <2> HIDE DEF d
  <2>6. my'.cluster = d /\ my'.sts = my.sts /\ my'.fresh = my.fresh
    BY <1>0, <2>5 DEF Locals
  <2> QED
    BY <2>1, <2>2, <2>4, <2>6 DEF Advance
<1>3. CASE RecordFailedRollback
  BY <1>3 DEF RecordFailedRollback, ReturnRequeue, StatusUpdate, WriteCluster, KeepHpa,
              KeepOthers, Advance
<1>4. CASE VersionUpdateRejected \/ UpdatePhase
  BY <1>4 DEF VersionUpdateRejected, UpdatePhase, ReturnRequeue
<1> QED
  BY <1>1, <1>2, <1>3, <1>4 DEF RollingUpdateStep

LEMMA ScalingAdvances ==
    ASSUME TypeOK, ReconcileScaling, pc' # "idle"
    PROVE  Advance
<1>0. my \in Locals /\ my.cluster \in Cluster
  BY DEF TypeOK, Locals
<1>1. /\ pc = "scalingManager" /\ UNCHANGED <<services, pdb>>
      /\ ReturnRequeue \/ \E created : AfterScaling(my.cluster, created)
  BY DEF ReconcileScaling, CreateHpa, UpdateHpa, KeepHpaAsItIs, DeleteHpa, NoHpaToDelete,
         ScalingConflict, KeepOthers
<1>2. pc' = "replicas" /\ my' = [my EXCEPT !.cluster.status.hpaEnabled = WantsHpa(my.cluster)]
  BY <1>1 DEF AfterScaling, ReturnRequeue, Continue
<1>3. \A w : [my EXCEPT !.cluster.status.hpaEnabled = w]
              = [my EXCEPT !.cluster = [my.cluster EXCEPT !.status.hpaEnabled = w]]
  BY <1>0 DEF Locals, Cluster
<1> DEFINE d == [my.cluster EXCEPT !.status.hpaEnabled = WantsHpa(my.cluster)]
<1>4. SameSpec(d, my.cluster)
  BY <1>0, StatusEditsKeepSpec
<1>5. my' = [my EXCEPT !.cluster = d]
  BY <1>2, <1>3, Zenon
<1> HIDE DEF d
<1>6. my'.cluster = d /\ my'.sts = my.sts
  BY <1>0, <1>5 DEF Locals
<1> QED
  BY <1>1, <1>2, <1>4, <1>6 DEF Advance

LEMMA CallAdvances ==
    ASSUME TypeOK, Reconcile, ~ReconcileStarts, pc' # "idle"
    PROVE  Advance
<1>0. my \in Locals
  BY DEF TypeOK
<1>1. CASE RemoveFinalizer \/ AddFinalizer \/ ScalingBlocked \/ PatchReplicas \/ FinishReconcile
  BY <1>1 DEF RemoveFinalizer, AddFinalizer, ScalingBlocked, PatchReplicas, FinishReconcile,
              ReturnRequeue
<1>2. CASE ReconcileServices
  BY <1>2 DEF ReconcileServices, ReturnRequeue, Continue, KeepCluster, KeepHpa, Advance
<1>3. CASE ReconcileStatefulSet
  <2>1. /\ pc = "statefulSet" /\ pc' \in {"rollingUpdate", "scalingManager"}
        /\ my' = [my EXCEPT !.sts = seenSts.obj] /\ seenSts.obj.exists
        /\ pc' = "scalingManager" => seenSts.obj.image = ImageOf(my.cluster.version)
        /\ UNCHANGED <<cluster, services, pdb, hpa>>
    BY <1>3 DEF ReconcileStatefulSet, CreateStatefulSet, ReturnRequeue, Continue, KeepCluster,
                KeepHpa, KeepOthers
  <2>2. /\ my'.cluster = my.cluster /\ my'.fresh = my.fresh /\ my'.sts = seenSts.obj
    BY <1>0, <2>1 DEF Locals
  <2> QED
    BY <2>1, <2>2 DEF Advance
<1>4. CASE ReplicasMatch
  BY <1>4 DEF ReplicasMatch, Continue, KeepHpa, KeepOthers, Advance
<1>5. CASE ReconcilePdb
  BY <1>5 DEF ReconcilePdb, Continue, ReturnRequeue, KeepHpa, Advance
<1>6. CASE CreateOrUpdateHPA
  <2>1. /\ pc = "quorumAwareHpa" /\ UNCHANGED <<services, pdb>>
        /\ Proceed \/ ReturnRequeue
    BY <1>6 DEF CreateOrUpdateHPA, CleanupHPA, BuildPanics, CreateOrUpdate, KeepOthers
  <2> QED
    BY <1>6, <2>1 DEF Proceed, Continue, ReturnRequeue, Advance
<1>7. CASE EvaluateIntelligentScaling
  BY <1>7 DEF EvaluateIntelligentScaling, Continue, ReturnRequeue, KeepHpa, KeepOthers, Advance
<1> QED
  BY <1>1, <1>2, <1>3, <1>4, <1>5, <1>6, <1>7, RollingUpdateAdvances, ScalingAdvances
     DEF Reconcile, QuorumAwareStep

\* A step during a call is one of others, advances the call, or ends it.
LEMMA CallSteps ==
    ASSUME TypeOK, [Next]_vars
    PROVE  \/ Environment \/ UNCHANGED vars
           \/ ReconcileStarts /\ pc' \notin AfterServices
           \/ Advance
           \/ pc' = "idle"
<1>1. ReconcileStarts => pc' \notin AfterServices
  BY DEF ReconcileStarts, FirstStep, AfterServices, AfterRead, AfterUpdate, AfterReplicas,
         AfterPdb, AtEnd
<1>2. ApiError \/ OperatorRestarts => pc' = "idle"
  BY DEF ApiError, OperatorRestarts
<1> QED
  BY <1>1, <1>2, CallAdvances DEF Next

LEMMA AdvanceIsWork ==
    ASSUME Advance
    PROVE  pc \in WorkSteps
  BY DEF Advance, WorkSteps, Steps

LEMMA WorkIsProtected ==
    ASSUME FinalizerInv, pc \in WorkSteps
    PROVE  cluster.state # "gone" /\ my.cluster.state = "live"
  BY DEF FinalizerInv, FinalizerProtectsCluster

-----------------------------------------------------------------------------
(* A call stays on course *)

LEMMA StartedCall ==
    ASSUME FinalizerInv, ReconcileStarts, pc' # "idle"
    PROVE  /\ pc' \notin AfterServices
           /\ cluster' = cluster
           /\ my'.fresh => my'.cluster = cluster
  BY DEF ReconcileStarts, FirstStep, KeepCluster, FinalizerInv, FinalizerProtectsCluster,
         AfterServices, AfterRead, AfterUpdate, AfterReplicas, AfterPdb, AtEnd

LEMMA NextOwnedObjectsExist ==
    ASSUME IInv, [Next]_vars
    PROVE  OwnedObjectsExist'
<1>0. TypeOK /\ FinalizerInv /\ OwnedObjectsExist
  BY DEF IInv, CallIsOnCourse, FinalizerInv
<1> USE DEF OwnedObjectsExist, AfterServices, AfterRead, AfterUpdate, AfterReplicas, AfterPdb, AtEnd
<1>1. CASE Environment \/ UNCHANGED vars
  <2>1. pc' = pc
    BY <1>0, <1>1, OthersKeepCall
  <2>2. CASE pc \in AfterServices
    <3>1. cluster.state # "gone"
      BY <1>0, <2>2, WorkIsProtected DEF WorkSteps, Steps
    <3> QED
      BY <1>0, <1>1, <2>1, <3>1, OthersKeepObjects
  <2> QED
    BY <2>1, <2>2
<1>2. CASE ReconcileStarts /\ pc' \notin AfterServices
  BY <1>2
<1>3. CASE Advance
  BY <1>0, <1>3 DEF Advance
<1>4. CASE pc' = "idle"
  BY <1>4
<1> QED
  BY <1>0, <1>1, <1>2, <1>3, <1>4, CallSteps

\* A write of the StatefulSet keeps its cache consistent.
LEMMA WriteStsCache ==
    ASSUME TypeOK, StsCacheFollows, NEW s, WriteSts(s)
    PROVE  StsCacheFollows'
<1>1. CASE s = sts
  BY <1>1 DEF WriteSts, Behind, StsCacheFollows
<1>2. CASE s # sts /\ "sts" \in Lagging
  BY <1>2 DEF WriteSts, Behind, StsCacheFollows, TypeOK, CacheOf
<1>3. CASE s # sts /\ "sts" \notin Lagging
  BY <1>3 DEF WriteSts, Behind, Cached, StsCacheFollows
<1> QED
  BY <1>1, <1>2, <1>3

\* Every step keeps the StatefulSet and its cache, writes it, or delivers it.
LEMMA StsSteps ==
    ASSUME [Next]_vars
    PROVE  \/ KeepSts
           \/ \E s : WriteSts(s)
           \/ sts' = sts /\ seenSts' = Cached(sts)
<1>1. CASE UNCHANGED vars \/ Informers \/ ApiError \/ OperatorRestarts \/ UpdateTimeoutElapses
  BY <1>1 DEF vars, KeepSts, Informers, SyncCluster, SyncSts, SyncHpa, ApiError,
              OperatorRestarts, UpdateTimeoutElapses
<1>2. CASE Users
  BY <1>2 DEF Users, UserSetsSize, UserSetsVersion, UserSetsAutoScaling,
              UserTogglesOverride, UserTogglesRestore, UserDeletes, Edit, UserMirrorsImage
<1>3. CASE Workload \/ HpaScales \/ GarbageCollects
  <2>1. CASE Workload
    <3>1. \E s : StsStatus(s)
      BY <2>1 DEF Workload, StsObserves, PodBecomesReady, PodFails, RolloutReplacesPod,
                  RolloutReplacesStuckPod, RolloutCompletes
    <3> QED
      BY <3>1 DEF StsStatus
  <2>2. CASE HpaScales \/ GarbageCollects
    BY <2>2 DEF HpaScales, GarbageCollects
  <2> QED
    BY <1>3, <2>1, <2>2
<1>4. CASE Reconcile
  <2>1. CASE \/ ReconcileStarts \/ RemoveFinalizer \/ AddFinalizer \/ ReconcileServices
            \/ ReplicasMatch \/ ScalingBlocked \/ PatchReplicas \/ ReconcilePdb
            \/ FinishReconcile \/ ReconcileScaling
    BY <2>1 DEF ReconcileStarts, RemoveFinalizer, AddFinalizer, ReconcileServices, ReplicasMatch,
                ScalingBlocked, PatchReplicas, ReconcilePdb, FinishReconcile, ReconcileScaling
  <2>2. CASE ReconcileStatefulSet
    BY <2>2 DEF ReconcileStatefulSet, CreateStatefulSet
  <2>3. CASE RollingUpdateStep
    BY <2>3 DEF RollingUpdateStep, VersionUpdateRejected, HandleRollingUpdate, PatchImage,
                PatchImageFails, UpdatePhase, PerformRollback, PerformRollbackFails,
                RecordFailedRollback
  <2>4. CASE QuorumAwareStep
    BY <2>4 DEF QuorumAwareStep, CreateOrUpdateHPA, EvaluateIntelligentScaling
  <2> QED
    BY <1>4, <2>1, <2>2, <2>3, <2>4 DEF Reconcile
<1> QED
  BY <1>1, <1>2, <1>3, <1>4 DEF Next, Environment

LEMMA NextStsCacheFollows ==
    ASSUME IInv, [Next]_vars
    PROVE  StsCacheFollows'
<1>0. TypeOK /\ StsCacheFollows
  BY DEF IInv, CallIsOnCourse, FinalizerInv
<1>1. CASE KeepSts
  BY <1>0, <1>1 DEF KeepSts, StsCacheFollows
<1>2. CASE sts' = sts /\ seenSts' = Cached(sts)
  BY <1>2 DEF Cached, StsCacheFollows
<1> QED
  BY <1>0, <1>1, <1>2, StsSteps, WriteStsCache

LEMMA NextSnapshotIsCurrent ==
    ASSUME IInv, [Next]_vars
    PROVE  SnapshotIsCurrent'
<1>0. TypeOK /\ FinalizerInv /\ SnapshotIsCurrent /\ StsCacheFollows
  BY DEF IInv, CallIsOnCourse, FinalizerInv
<1> USE DEF AfterServices, AfterRead, AfterUpdate, AfterReplicas, AfterPdb, AtEnd
<1> SUFFICES ASSUME pc' \in AfterRead
             PROVE  /\ my'.sts.exists
                    /\ ~queued' /\ seenSts'.current => my'.sts = sts'
  BY DEF SnapshotIsCurrent
<1>1. ~ReconcileStarts
  BY <1>0, StartedCall
<1>2. CASE pc = "statefulSet" /\ Advance
  <2>1. my'.sts = seenSts.obj /\ seenSts.obj.exists
    BY <1>2 DEF Advance
  <2> QED
    BY <1>0, <1>1, <2>1, StsUndisturbed DEF StsCacheFollows
<1>3. CASE pc \in AfterRead /\ my'.sts = my.sts
  BY <1>0, <1>1, <1>3, StsUndisturbed DEF SnapshotIsCurrent
<1>4. CASE Environment \/ UNCHANGED vars
  BY <1>0, <1>3, <1>4, OthersKeepCall
<1>5. CASE Advance /\ pc # "statefulSet"
  <2>1. pc \in AfterRead /\ my'.sts = my.sts
    BY <1>5 DEF Advance
  <2> QED
    BY <1>3, <2>1
<1> QED
  BY <1>0, <1>1, <1>2, <1>4, <1>5, CallSteps

LEMMA NextFreshIsStored ==
    ASSUME IInv, [Next]_vars
    PROVE  FreshIsStored'
<1>0. TypeOK /\ FinalizerInv /\ FreshIsStored
  BY DEF IInv, CallIsOnCourse, FinalizerInv
<1>1. CASE Environment \/ UNCHANGED vars
  <2>1. cluster \in Cluster /\ my.cluster \in Cluster
    BY <1>0 DEF TypeOK, Locals
  <2>2. \A c \in Cluster : Aged(c).status.update.phase = c.status.update.phase
    BY DEF Aged, Cluster, Status, UpdateStatus
  <2>3. my'.cluster = my.cluster \/ my'.cluster = Aged(my.cluster)
    <3>1. CASE UNCHANGED vars \/ Informers \/ Workload \/ HpaScales \/ GarbageCollects
      BY <3>1 DEF vars, Informers, SyncCluster, SyncSts, SyncHpa, Workload, StsObserves,
                  PodBecomesReady, PodFails, RolloutReplacesPod, RolloutReplacesStuckPod,
                  RolloutCompletes, StsStatus, HpaScales, GarbageCollects
    <3>2. CASE Users
      BY <1>0, <3>2 DEF Users, UserSetsSize, UserSetsVersion, UserSetsAutoScaling,
              UserTogglesOverride, UserTogglesRestore, UserDeletes, Edit, UserMirrorsImage,
              TypeOK, Locals
    <3>3. CASE UpdateTimeoutElapses
      BY <1>0, <3>3 DEF UpdateTimeoutElapses, TypeOK, Locals
    <3> QED
      BY <1>1, <3>1, <3>2, <3>3 DEF Environment
  <2> QED
    BY <1>0, <1>1, <2>1, <2>2, <2>3, OthersKeepCall DEF FreshIsStored
<1>2. CASE ReconcileStarts /\ pc' # "idle"
  <2>1. /\ pc' \notin AfterServices
        /\ cluster' = cluster
        /\ my'.fresh => my'.cluster = cluster
    BY <1>0, <1>2, StartedCall
  <2> QED
    BY <2>1 DEF FreshIsStored, AfterServices, AfterRead
<1>3. CASE Advance
  BY <1>0, <1>3 DEF Advance, FreshIsStored
<1>4. CASE pc' = "idle"
  BY <1>4 DEF FreshIsStored
<1> QED
  BY <1>0, <1>1, <1>2, <1>3, <1>4, CallSteps

LEMMA NextImageIsRight ==
    ASSUME IInv, [Next]_vars
    PROVE  ImageIsRight'
<1>0. TypeOK /\ FinalizerInv /\ ImageIsRight /\ FreshIsStored
  BY DEF IInv, CallIsOnCourse, FinalizerInv
<1> USE DEF AfterServices, AfterRead, AfterUpdate, AfterReplicas, AfterPdb, AtEnd
<1> SUFFICES ASSUME pc' \in AfterUpdate, ~queued', seenCluster'.current
             PROVE  my'.sts.image = ImageOf(my'.cluster.version)
  BY DEF ImageIsRight
<1>1. ~ReconcileStarts
  BY <1>0, StartedCall
<1>2. /\ ~queued /\ seenCluster.current
      /\ cluster' = cluster \/ cluster' = Aged(cluster)
  BY <1>0, <1>1, ClusterUndisturbed
<1>3. CASE pc \in AfterUpdate /\ my'.sts = my.sts /\ SameSpec(my'.cluster, my.cluster)
  BY <1>0, <1>2, <1>3 DEF ImageIsRight, SameSpec
<1>4. CASE Environment \/ UNCHANGED vars
  BY <1>0, <1>3, <1>4, OthersKeepCall
<1>5. CASE Advance /\ pc = "statefulSet"
  BY <1>5 DEF Advance
<1>6. CASE Advance /\ pc = "rollbackFailed"
  <2>1. /\ cluster' = my.cluster /\ my.cluster.status.update.phase = "Failed"
        /\ cluster.status.update.phase = "InProgress"
    BY <1>0, <1>6 DEF Advance, FreshIsStored
  <2>2. Aged(cluster).status.update.phase = cluster.status.update.phase
    BY <1>0 DEF TypeOK, Aged, Cluster, Status, UpdateStatus
  <2> QED
    BY <1>2, <2>1, <2>2
<1>7. CASE Advance /\ pc \notin {"statefulSet", "rollbackFailed"}
  <2>1. pc \in AfterUpdate /\ my'.sts = my.sts /\ SameSpec(my'.cluster, my.cluster)
    BY <1>7 DEF Advance, SameSpec
  <2> QED
    BY <1>3, <2>1
<1> QED
  BY <1>0, <1>1, <1>4, <1>5, <1>6, <1>7, CallSteps

LEMMA NextReplicasAreRight ==
    ASSUME IInv, [Next]_vars
    PROVE  ReplicasAreRight'
<1>0. TypeOK /\ FinalizerInv /\ ReplicasAreRight
  BY DEF IInv, CallIsOnCourse, FinalizerInv
<1> USE DEF AfterServices, AfterRead, AfterUpdate, AfterReplicas, AfterPdb, AtEnd
<1> SUFFICES ASSUME pc' \in AfterReplicas
             PROVE  HpaManaged(my'.cluster) \/ my'.sts.replicas = my'.cluster.size
  BY DEF ReplicasAreRight
<1>1. ~ReconcileStarts
  BY <1>0, StartedCall
<1>2. CASE pc \in AfterReplicas /\ my'.sts = my.sts /\ SameSpec(my'.cluster, my.cluster)
  BY <1>0, <1>2 DEF ReplicasAreRight, SameSpec, HpaManaged
<1>3. CASE Environment \/ UNCHANGED vars
  BY <1>0, <1>2, <1>3, OthersKeepCall
<1>4. CASE Advance /\ pc = "replicas"
  BY <1>4 DEF Advance, NeedsScaling
<1>5. CASE Advance /\ pc # "replicas"
  <2>1. pc \in AfterReplicas /\ my'.sts = my.sts /\ SameSpec(my'.cluster, my.cluster)
    BY <1>5 DEF Advance, SameSpec
  <2> QED
    BY <1>2, <2>1
<1> QED
  BY <1>0, <1>1, <1>3, <1>4, <1>5, CallSteps

-----------------------------------------------------------------------------
(* How the controller comes to rest *)

\* Either it was at rest, and nothing but the age of an update changed, or a call
\* ended with everything up to date and a status that was already stored.
LEMMA Settles ==
    ASSUME IInv, [Next]_vars, Settled', cluster'.state # "gone",
           cluster'.state = "deleting" => cluster'.finalizer
    PROVE  \/ /\ Settled /\ cluster.state = cluster'.state
              /\ UNCHANGED <<sts, pdb, services, hpa>>
              /\ cluster' = cluster \/ cluster' = Aged(cluster)
           \/ /\ pc = "updateStatus" /\ ~queued /\ seenCluster.current /\ seenSts.current
              /\ UNCHANGED <<cluster, sts, pdb, services, hpa>>
              /\ \E healthy \in BOOLEAN :
                    cluster = [my.cluster EXCEPT
                                 !.status = ReportedStatus(my.cluster, my.sts, healthy)]
<1>0. TypeOK /\ FinalizerInv /\ cluster \in Cluster
  BY DEF IInv, FinalizerInv, TypeOK
<1>1. pc' = "idle" /\ ~queued' /\ seenCluster'.current /\ seenSts'.current
  BY DEF Settled
<1>2. ~ReconcileStarts
  <2> SUFFICES ASSUME ReconcileStarts PROVE FALSE
    OBVIOUS
  <2>1. cluster' = cluster /\ seenCluster' = seenCluster /\ cluster = seenCluster.obj
    BY <1>0, <1>1 DEF ReconcileStarts, KeepCluster, FinalizerInv, FinalizerProtectsCluster
  <2>2. FirstStep(seenCluster.obj) = "idle"
    BY <1>1 DEF ReconcileStarts
  <2> QED
    BY <1>0, <2>1, <2>2 DEF FirstStep, Cluster
<1>3. /\ ~queued /\ seenCluster.current /\ seenSts.current /\ sts' = sts
      /\ cluster' = cluster \/ cluster' = Aged(cluster)
  BY <1>0, <1>1, <1>2, StsUndisturbed, ClusterUndisturbed
<1>4. cluster.state = cluster'.state
  BY <1>0, <1>3, StatusEditsKeepSpec
<1>5. CASE Environment \/ UNCHANGED vars
  <2>1. pc = "idle"
    BY <1>0, <1>1, <1>5, OthersKeepCall
  <2>2. UNCHANGED <<services, pdb, hpa>>
    BY <1>4, <1>5, OthersKeepObjects
  <2> QED
    BY <1>3, <1>4, <2>1, <2>2 DEF Settled
<1>6. CASE FinishReconcile
  BY <1>0, <1>1, <1>3, <1>6, FinishKinds DEF KeepCluster
<1>7. CASE Reconcile /\ ~FinishReconcile
  <2>1. ~ReturnRequeue
    BY <1>1 DEF ReturnRequeue
  <2>2. CASE RemoveFinalizer
    BY <2>1, <2>2 DEF RemoveFinalizer, WriteCluster, GoneCluster
  <2>3. CASE Advance
    BY <1>1, <2>3 DEF Advance
  <2>4. RemoveFinalizer \/ Advance
    <3>1. CASE \/ AddFinalizer \/ ReconcileServices \/ ReconcileStatefulSet \/ ReplicasMatch
              \/ ScalingBlocked \/ PatchReplicas \/ ReconcilePdb
      BY <1>1, <2>1, <3>1 DEF AddFinalizer, ReconcileServices, ReconcileStatefulSet,
           CreateStatefulSet, ReplicasMatch, ScalingBlocked, PatchReplicas, ReconcilePdb, Continue
    <3>2. CASE RollingUpdateStep
      BY <1>1, <2>1, <3>2 DEF RollingUpdateStep, VersionUpdateRejected, HandleRollingUpdate,
           PatchImage, PatchImageFails, UpdatePhase, PerformRollback, PerformRollbackFails,
           RecordFailedRollback, Continue
    <3>3. CASE ReconcileScaling
      <4>1. \E created : AfterScaling(my.cluster, created)
        BY <2>1, <3>3 DEF ReconcileScaling, CreateHpa, UpdateHpa, KeepHpaAsItIs, DeleteHpa,
                    NoHpaToDelete, ScalingConflict
      <4> QED
        BY <1>1, <2>1, <4>1 DEF AfterScaling, Continue
    <3>4. CASE QuorumAwareStep
      BY <1>1, <2>1, <3>4 DEF QuorumAwareStep, CreateOrUpdateHPA, CleanupHPA, BuildPanics,
           CreateOrUpdate, EvaluateIntelligentScaling, Proceed, Continue
    <3> QED
      BY <1>2, <1>7, <3>1, <3>2, <3>3, <3>4 DEF Reconcile
  <2> QED
    BY <2>2, <2>3, <2>4
<1>8. ~ApiError /\ ~OperatorRestarts
  BY <1>1 DEF ApiError, OperatorRestarts
<1> QED
  BY <1>5, <1>6, <1>7, <1>8 DEF Next

LEMMA NextSettledIsRight ==
    ASSUME IInv, [Next]_vars
    PROVE  SettledIsRight'
<1> SUFFICES ASSUME Settled', cluster'.state = "live"
             PROVE  SpecApplied' /\ StatusIsCurrent'
  BY DEF SettledIsRight
<1>0. TypeOK /\ FinalizerInv /\ CallIsOnCourse /\ SettledIsRight
  BY DEF IInv, FinalizerInv
<1>1. cluster \in Cluster /\ my.cluster \in Cluster
  BY <1>0 DEF TypeOK, Locals
<1>2. CASE /\ Settled /\ cluster.state = "live"
           /\ UNCHANGED <<sts, pdb, services, hpa>>
           /\ cluster' = cluster \/ cluster' = Aged(cluster)
  <2>1. SpecApplied /\ StatusIsCurrent
    BY <1>0, <1>2 DEF SettledIsRight
  <2>2. /\ SameSpec(cluster', cluster)
        /\ cluster'.status.scalingAllowed = cluster.status.scalingAllowed
        /\ cluster'.status.available = cluster.status.available
        /\ cluster'.status.progressing = cluster.status.progressing
    BY <1>1, <1>2 DEF Aged, Cluster, Status, SameSpec
  <2> QED
    BY <1>2, <2>1, <2>2 DEF SameSpec, SpecApplied, StatusIsCurrent, HpaManaged
<1>3. CASE /\ pc = "updateStatus" /\ ~queued /\ seenCluster.current /\ seenSts.current
           /\ UNCHANGED <<cluster, sts, pdb, services, hpa>>
           /\ \E healthy \in BOOLEAN :
                 cluster = [my.cluster EXCEPT
                              !.status = ReportedStatus(my.cluster, my.sts, healthy)]
  <2>1. PICK healthy \in BOOLEAN :
          cluster = [my.cluster EXCEPT
                       !.status = ReportedStatus(my.cluster, my.sts, healthy)]
    BY <1>3
  <2>2. /\ services = {"headless", "client"} /\ pdb # 0
        /\ my.sts = sts /\ my.sts.exists
        /\ my.sts.image = ImageOf(my.cluster.version)
        /\ HpaManaged(my.cluster) \/ my.sts.replicas = my.cluster.size
    BY <1>0, <1>3 DEF CallIsOnCourse, OwnedObjectsExist, SnapshotIsCurrent, ImageIsRight,
         ReplicasAreRight, AfterServices, AfterRead, AfterUpdate, AfterReplicas, AfterPdb, AtEnd
  <2>3. SameSpec(cluster, my.cluster)
    BY <1>1, <2>1, StatusEditsKeepSpec
  <2>4. cluster.status = ReportedStatus(my.cluster, sts, healthy)
    BY <1>1, <2>1, <2>2 DEF Cluster
  <2>5. SpecApplied
    BY <2>2, <2>3 DEF SpecApplied, SameSpec, HpaManaged
  <2>6. sts.ready \in Nat /\ sts.pods \in Nat /\ my.cluster.size \in Nat
    BY <1>0 DEF TypeOK, StatefulSet, Locals, Cluster
  <2>7. /\ cluster.status.scalingAllowed = "True"
        /\ cluster.status.available <=> sts.ready >= my.cluster.size
        /\ cluster.status.progressing = IF Rolling(sts) THEN "RollingUpdate"
                                        ELSE IF sts.pods # my.cluster.size THEN "Scaling"
                                        ELSE IF sts.ready < my.cluster.size THEN "WaitingForPods"
                                        ELSE "Stable"
    <3>1. my.cluster.status \in Status
      BY <1>1 DEF Cluster
    <3> QED
      BY <2>4, <3>1 DEF ReportedStatus, Status
  <2>8. StatusIsCurrent
    <3>1. cluster.size = my.cluster.size
      BY <2>3 DEF SameSpec
    <3>2. cluster.status.progressing = "RollingUpdate" <=> Rolling(sts)
      BY <2>7
    <3>3. cluster.status.progressing = "Stable" <=>
             ~Rolling(sts) /\ sts.pods = cluster.size /\ sts.ready >= cluster.size
      BY <2>6, <2>7, <3>1
    <3> QED
      BY <2>7, <3>1, <3>2, <3>3 DEF StatusIsCurrent
  <2> QED
    BY <1>3, <2>5, <2>8 DEF SpecApplied, StatusIsCurrent
<1> QED
  BY <1>2, <1>3, Settles

-----------------------------------------------------------------------------

LEMMA InitIInv == Init => IInv
<1> SUFFICES ASSUME Init PROVE IInv
  OBVIOUS
<1>1. FinalizerInv
  BY InitType, InitFinalizer DEF FinalizerInv
<1>2. pc = "idle" /\ queued /\ seenSts.obj = sts
  BY DEF Init, Cached
<1> QED
  BY <1>1, <1>2 DEF IInv, CallIsOnCourse, OwnedObjectsExist, StsCacheFollows, SnapshotIsCurrent,
       FreshIsStored, ImageIsRight, ReplicasAreRight, SettledIsRight, Settled,
       AfterServices, AfterRead, AfterUpdate, AfterReplicas, AfterPdb, AtEnd

LEMMA NextIInv == IInv /\ [Next]_vars => IInv'
<1> SUFFICES ASSUME IInv, [Next]_vars PROVE IInv'
  OBVIOUS
<1>1. FinalizerInv'
  BY StepInv DEF IInv
<1>2. CallIsOnCourse'
  BY NextOwnedObjectsExist, NextStsCacheFollows, NextSnapshotIsCurrent, NextFreshIsStored,
     NextImageIsRight, NextReplicasAreRight DEF CallIsOnCourse
<1> QED
  BY <1>1, <1>2, NextSettledIsRight DEF IInv

LEMMA AlwaysIInv == Spec => []IInv
  BY InitIInv, NextIInv, PTL DEF Spec

\* No early return of Reconcile loses the cluster: with nothing left to do, what
\* the spec asks for has been applied.
THEOREM RestMeansApplied == Spec => []QuiescentMeansApplied
<1>1. IInv => QuiescentMeansApplied
  BY DEF IInv, SettledIsRight, Settled, QuiescentMeansApplied, Quiescent
<1> QED
  BY <1>1, AlwaysIInv, PTL

\* updateStatus reports on a copy read early in the call; with nothing left to do
\* the conditions it wrote describe the StatefulSet as it is, and a scale operation
\* that was reported as blocked has been tried again.
THEOREM RestHasCurrentStatus == Spec => []QuiescentStatusIsCurrent
<1>1. IInv => QuiescentStatusIsCurrent
  BY DEF IInv, SettledIsRight, StatusIsCurrent, Settled, QuiescentStatusIsCurrent, Quiescent
<1> QED
  BY <1>1, AlwaysIInv, PTL

-----------------------------------------------------------------------------
(* Deletion *)

\* The finalizer is what keeps a deleted cluster; only the operator takes it away,
\* and the cluster goes with it.
DeletingHasFinalizer == cluster.state = "deleting" => cluster.finalizer

DeletionInv ==
    /\ IInv
    /\ DeletingHasFinalizer
    /\ Settled => cluster.state # "deleting"

\* A user's edit is of a live cluster, and marks for deletion only one with finalizer.
LEMMA UsersDeleting ==
    ASSUME TypeOK, DeletingHasFinalizer, Users
    PROVE  DeletingHasFinalizer'
<1>0. cluster \in Cluster
  BY DEF TypeOK
<1>1. \A c : Edit(c) => cluster' = c /\ cluster.state = "live"
  BY DEF Edit, WriteCluster
<1>2. CASE \/ UserSetsSize \/ UserSetsVersion \/ UserSetsAutoScaling
           \/ UserTogglesOverride \/ UserTogglesRestore
  <2>1. CASE UserSetsSize
    <3>1. PICK n \in Sizes : Edit([cluster EXCEPT !.size = n])
      BY <2>1 DEF UserSetsSize
    <3>2. [cluster EXCEPT !.size = n].state = cluster.state
      BY <1>0 DEF Cluster
    <3> QED
      BY <1>1, <3>1, <3>2 DEF DeletingHasFinalizer
  <2>2. CASE UserSetsVersion
    <3>1. PICK v \in Versions : Edit([cluster EXCEPT !.version = v])
      BY <2>2 DEF UserSetsVersion
    <3>2. [cluster EXCEPT !.version = v].state = cluster.state
      BY <1>0 DEF Cluster
    <3> QED
      BY <1>1, <3>1, <3>2 DEF DeletingHasFinalizer
  <2>3. CASE UserSetsAutoScaling
    <3>1. PICK a \in AutoConfigs : Edit([cluster EXCEPT !.auto = a])
      BY <2>3 DEF UserSetsAutoScaling
    <3>2. [cluster EXCEPT !.auto = a].state = cluster.state
      BY <1>0 DEF Cluster
    <3> QED
      BY <1>1, <3>1, <3>2 DEF DeletingHasFinalizer
  <2>4. CASE UserTogglesOverride \/ UserTogglesRestore
    BY <1>0, <1>1, <2>4 DEF UserTogglesOverride, UserTogglesRestore, Cluster, DeletingHasFinalizer
  <2> QED
    BY <1>2, <2>1, <2>2, <2>3, <2>4
<1>3. CASE UserDeletes
  BY <1>0, <1>1, <1>3 DEF UserDeletes, GoneCluster, Cluster, DeletingHasFinalizer
<1>4. CASE UserMirrorsImage
  BY <1>4 DEF UserMirrorsImage, KeepCluster, DeletingHasFinalizer
<1> QED
  BY <1>2, <1>3, <1>4 DEF Users

LEMMA OthersDeleting ==
    ASSUME TypeOK, DeletingHasFinalizer, Environment \/ UNCHANGED vars
    PROVE  DeletingHasFinalizer'
<1>1. CASE UpdateTimeoutElapses
  BY <1>1 DEF UpdateTimeoutElapses, Aged, TypeOK, Cluster, DeletingHasFinalizer
<1>2. CASE UNCHANGED vars \/ Informers \/ HpaScales \/ GarbageCollects
  BY <1>2 DEF vars, Informers, SyncCluster, SyncSts, SyncHpa, HpaScales, GarbageCollects,
              KeepCluster, DeletingHasFinalizer
<1>3. CASE Workload
  BY <1>3 DEF Workload, StsObserves, PodBecomesReady, PodFails, RolloutReplacesPod,
              RolloutReplacesStuckPod, RolloutCompletes, StsStatus, KeepCluster,
              DeletingHasFinalizer
<1> QED
  BY <1>1, <1>2, <1>3, UsersDeleting DEF Environment

\* The operator writes a cluster it holds as live, or without its finalizer as gone.
LEMMA ReconcileDeleting ==
    ASSUME FinalizerInv, DeletingHasFinalizer, Reconcile
    PROVE  DeletingHasFinalizer'
<1>1. CASE ReconcileStarts
  BY <1>1 DEF ReconcileStarts, KeepCluster, DeletingHasFinalizer
<1>2. CASE RemoveFinalizer
  BY <1>2 DEF RemoveFinalizer, WriteCluster, GoneCluster, KeepCluster, DeletingHasFinalizer
<1>3. CASE AddFinalizer
  <2>1. my.cluster \in Cluster
    BY DEF FinalizerInv, TypeOK, Locals
  <2> QED
    BY <1>3, <2>1 DEF AddFinalizer, WriteCluster, KeepCluster, Cluster, DeletingHasFinalizer
<1>4. CASE WorkStep
  <2>1. my.cluster.state = "live"
    BY <1>4 DEF WorkStep, FinalizerInv, FinalizerProtectsCluster
  <2> QED
    BY <1>4, <2>1 DEF WorkStep, WriteCluster, KeepCluster, DeletingHasFinalizer
<1> QED
  BY <1>1, <1>2, <1>3, <1>4, RollingUpdateWorks, ScalingWorks, OtherStepsWork DEF Reconcile

LEMMA NextDeletionInv == DeletionInv /\ [Next]_vars => DeletionInv'
<1> SUFFICES ASSUME DeletionInv, [Next]_vars PROVE DeletionInv'
  OBVIOUS
<1>0. IInv /\ FinalizerInv /\ TypeOK
  BY DEF DeletionInv, IInv, FinalizerInv
<1>1. DeletingHasFinalizer'
  <2>1. CASE ApiError \/ OperatorRestarts
    BY <2>1 DEF ApiError, OperatorRestarts, KeepCluster, DeletionInv, DeletingHasFinalizer
  <2> QED
    BY <1>0, <2>1, OthersDeleting, ReconcileDeleting DEF Next, DeletionInv
<1>2. ASSUME Settled', cluster'.state = "deleting" PROVE FALSE
  <2>1. CASE Settled /\ cluster.state = cluster'.state
    BY <1>2, <2>1 DEF DeletionInv
  <2>2. ASSUME pc = "updateStatus", cluster' = cluster, NEW healthy \in BOOLEAN,
               cluster = [my.cluster EXCEPT
                            !.status = ReportedStatus(my.cluster, my.sts, healthy)]
        PROVE  FALSE
    <3>1. my.cluster \in Cluster /\ my.cluster.state = "live"
      BY <1>0, <2>2 DEF FinalizerInv, FinalizerProtectsCluster, TypeOK, Locals, WorkSteps, Steps
    <3>2. cluster.state = "live"
      BY <2>2, <3>1, StatusEditsKeepFinalizer
    <3> QED
      BY <1>2, <2>2, <3>2
  <2> QED
    BY <1>0, <1>1, <1>2, <2>1, <2>2, Settles DEF DeletingHasFinalizer
<1> QED
  BY <1>0, <1>1, <1>2, NextIInv DEF DeletionInv

\* A deletion that arrives while a call works for the cluster as it was, or while
\* the caches lag, is not forgotten: the controller does not come to rest before
\* it has removed the finalizer.
THEOREM RestMeansDeleted == Spec => []QuiescentMeansDeleted
<1>1. Init => DeletionInv
  BY InitIInv DEF Init, GoneCluster, DeletionInv, DeletingHasFinalizer, Settled
<1>2. DeletionInv => QuiescentMeansDeleted
  BY DEF DeletionInv, Settled, QuiescentMeansDeleted, Quiescent
<1> QED
  BY <1>1, <1>2, NextDeletionInv, PTL DEF Spec

-----------------------------------------------------------------------------
(* The HPA at rest *)

\* Without it, the QuorumAwareScaler keeps creating the HPA that the
\* ScalingManager deletes.
ConsistentSwitches == \A a \in AutoConfigs : ~(a.enabled /\ a.hpa = "disabled")

HpaFits(c) ==
    /\ hpa.exists <=> HpaManaged(c)
    /\ hpa.exists => IsOdd(hpa.min) /\ IsOdd(hpa.max)

\* The second manager has the last word, and nobody else writes the HPA of a
\* cluster that is not gone.
HpaInv ==
    /\ IInv
    /\ pc \in AtEnd => HpaFits(my.cluster)
    /\ Settled /\ cluster.state = "live" => HpaFits(cluster)

LEMMA AutoTypes ==
    ASSUME TypeOK
    PROVE  /\ my.cluster.auto \in AutoScaling
           /\ my.cluster.auto.enabled => my.cluster.auto \in AutoConfigs
           /\ my.cluster.auto \in AutoConfigs /\ my.cluster.auto.hpa # "absent" =>
                 my.cluster.auto.min >= 3 /\ my.cluster.auto.max >= 3
           /\ my.cluster.auto.hpa # "absent" => my.cluster.auto \in AutoConfigs
<1>1. my.cluster.auto \in AutoConfigs \cup {NoAutoScaling}
  BY DEF TypeOK, Locals, Cluster
<1>2. /\ NoAutoScaling \in AutoScaling
      /\ NoAutoScaling.hpa = "absent" /\ ~NoAutoScaling.enabled
  BY DEF NoAutoScaling, AutoScaling
<1> QED
  BY <1>1, <1>2, ConstantsAssumption

LEMMA QuorumAwareBoundsAreOdd ==
    ASSUME NEW min \in Nat, NEW max \in Nat
    PROVE  LET bounds == QuorumAwareBounds(min, max)
           IN  IsOdd(bounds.min) /\ IsOdd(bounds.max) /\ bounds.min >= 3
<1>1. /\ EnsureOdd(min) \in Nat /\ IsOdd(EnsureOdd(min))
      /\ EnsureOdd(max) \in Nat /\ IsOdd(EnsureOdd(max))
  BY EnsureOddRoundsUp
<1>2. IsOdd(3)
  BY DEF IsOdd
<1> DEFINE low == IF EnsureOdd(min) < 3 THEN 3 ELSE EnsureOdd(min)
<1>3. IsOdd(low) /\ low >= 3
  BY <1>1, <1>2
<1>4. /\ QuorumAwareBounds(min, max).min = low
      /\ QuorumAwareBounds(min, max).max = EnsureOdd(max)
  BY DEF QuorumAwareBounds
<1> HIDE DEF low
<1> QED
  BY <1>1, <1>3, <1>4

\* CreateOrUpdateHPA leaves the HPA as the cluster's spec asks for it.
LEMMA QuorumAwareHpaFits ==
    ASSUME TypeOK, ConsistentSwitches, CreateOrUpdateHPA, pc' # "idle"
    PROVE  HpaFits(my.cluster)'
<1>1. my' = my
  BY DEF CreateOrUpdateHPA, CleanupHPA, BuildPanics, CreateOrUpdate, Proceed, Continue,
         ReturnRequeue
<1>2. CASE CleanupHPA
  BY <1>1, <1>2 DEF CleanupHPA, WriteHpa, NoHpa, HpaFits, HpaManaged
<1>3. CASE CreateOrUpdate
  <2> DEFINE bounds == QuorumAwareBounds(my.cluster.auto.min, my.cluster.auto.max)
  <2>1. my.cluster.auto.enabled /\ my.cluster.auto.hpa # "absent"
    BY <1>3 DEF CreateOrUpdate
  <2>2. my.cluster.auto.hpa = "enabled"
    BY <2>1, AutoTypes DEF AutoScaling, ConsistentSwitches
  <2>3. \E owned : hpa' = NewHpa(bounds, QuorumAwareMetrics, owned)
    BY <1>3 DEF CreateOrUpdate, ReturnRequeue, WriteHpa
  <2>4. IsOdd(bounds.min) /\ IsOdd(bounds.max)
    BY AutoTypes, QuorumAwareBoundsAreOdd DEF AutoScaling
  <2> HIDE DEF bounds
  <2>5. hpa'.exists /\ hpa'.min = bounds.min /\ hpa'.max = bounds.max
    BY <2>3 DEF NewHpa
  <2> QED
    BY <1>1, <2>1, <2>2, <2>4, <2>5 DEF HpaFits, HpaManaged
<1> QED
  BY <1>2, <1>3 DEF CreateOrUpdateHPA, BuildPanics, ReturnRequeue

LEMMA NextHpaAtEnd ==
    ASSUME ConsistentSwitches, HpaInv, [Next]_vars, pc' \in AtEnd
    PROVE  HpaFits(my.cluster)'
<1>0. TypeOK /\ FinalizerInv
  BY DEF HpaInv, IInv, FinalizerInv
<1>1. CASE pc \in AtEnd /\ SameSpec(my'.cluster, my.cluster) /\ hpa' = hpa
  BY <1>1 DEF HpaInv, HpaFits, HpaManaged, SameSpec
<1>2. CASE Environment \/ UNCHANGED vars
  <2>1. pc \in AtEnd /\ SameSpec(my'.cluster, my.cluster)
    BY <1>0, <1>2, OthersKeepCall
  <2>2. cluster.state # "gone"
    BY <1>0, <2>1, WorkIsProtected DEF AtEnd, WorkSteps, Steps
  <2> QED
    BY <1>1, <1>2, <2>1, <2>2, OthersKeepObjects
<1>3. CASE Advance
  <2>1. CASE pc = "quorumAwareHpa"
    BY <1>0, <1>3, <2>1, QuorumAwareHpaFits DEF Advance, AtEnd
  <2>2. CASE pc # "quorumAwareHpa"
    <3>1. pc \in AtEnd /\ my' = my /\ hpa' = hpa
      BY <1>3, <2>2 DEF Advance, AtEnd
    <3> QED
      BY <1>1, <3>1 DEF SameSpec
  <2> QED
    BY <2>1, <2>2
<1>4. pc' \in AfterServices /\ pc' # "idle"
  BY DEF AfterServices, AfterRead, AfterUpdate, AfterReplicas, AfterPdb, AtEnd
<1> QED
  BY <1>0, <1>2, <1>3, <1>4, CallSteps

\* With consistent auto-scaling settings the HPA follows them, although two
\* managers with different rules write it in every call, and the cache of it
\* lags.
THEOREM RestHasMatchingHpa ==
    ASSUME ConsistentSwitches
    PROVE  Spec => []QuiescentHpaMatchesSpec
<1>1. Init => HpaInv
  <2> SUFFICES ASSUME Init PROVE HpaInv
    OBVIOUS
  <2>1. pc = "idle" /\ queued
    BY DEF Init
  <2> QED
    BY <2>1, InitIInv DEF HpaInv, AtEnd, Settled
<1>2. HpaInv /\ [Next]_vars => HpaInv'
  <2> SUFFICES ASSUME HpaInv, [Next]_vars PROVE HpaInv'
    OBVIOUS
  <2>1. IInv /\ IInv' /\ cluster \in Cluster /\ my.cluster \in Cluster
    BY NextIInv DEF HpaInv, IInv, FinalizerInv, TypeOK, Locals
  <2>2. ASSUME Settled', cluster'.state = "live"
        PROVE  HpaFits(cluster)'
    <3>1. CASE /\ Settled /\ cluster.state = "live" /\ hpa' = hpa
               /\ cluster' = cluster \/ cluster' = Aged(cluster)
      <4>1. SameSpec(cluster', cluster)
        BY <2>1, <3>1, StatusEditsKeepSpec DEF SameSpec
      <4> QED
        BY <3>1, <4>1 DEF HpaInv, HpaFits, HpaManaged, SameSpec
    <3>2. CASE /\ pc = "updateStatus" /\ UNCHANGED <<cluster, hpa>>
               /\ \E healthy \in BOOLEAN :
                     cluster = [my.cluster EXCEPT
                                  !.status = ReportedStatus(my.cluster, my.sts, healthy)]
      <4>1. SameSpec(cluster, my.cluster)
        BY <2>1, <3>2, StatusEditsKeepSpec
      <4> QED
        BY <3>2, <4>1 DEF HpaInv, HpaFits, HpaManaged, SameSpec, AtEnd
    <3> QED
      BY <2>1, <2>2, <3>1, <3>2, Settles
  <2> QED
    BY <2>1, <2>2, NextHpaAtEnd DEF HpaInv
<1>3. HpaInv => QuiescentHpaMatchesSpec
  BY DEF HpaInv, HpaFits, Settled, QuiescentHpaMatchesSpec, Quiescent
<1> QED
  BY <1>1, <1>2, <1>3, PTL DEF Spec

-----------------------------------------------------------------------------
(* The replica count at rest *)

\* Between the bounds of an HPA there is a count to correct an even one to: with
\* both bounds 4, say, the operator leaves 4.
OddCountsExist ==
    \A a \in AutoConfigs :
        a.enabled /\ a.hpa # "absent" => \E n \in a.min..a.max : IsOdd(n)

CountsArePositive ==
    /\ cluster.state # "gone" => cluster.size > 0
    /\ seenCluster.obj.state # "gone" => seenCluster.obj.size > 0
    /\ pc # "idle" => my.cluster.size > 0
    /\ hpa.exists => hpa.min > 0
    /\ sts.exists => sts.replicas > 0

\* The correction of an even count queues the cluster, or is still to be
\* delivered.
OddInv ==
    /\ IInv /\ CountsArePositive
    /\ /\ pc = "updateStatus" /\ ~queued /\ seenSts.current /\ my.cluster.auto.enabled
       => IsOdd(sts.replicas)
    /\ Settled /\ cluster.state = "live" /\ cluster.auto.enabled => IsOdd(sts.replicas)

LEMMA WriteSeenCluster ==
    ASSUME TypeOK, NEW c, WriteCluster(c)
    PROVE  cluster' = c /\ (seenCluster'.obj = seenCluster.obj \/ seenCluster'.obj = c)
  BY DEF WriteCluster, Behind, Cached, TypeOK, CacheOf

LEMMA EditedSize ==
    ASSUME TypeOK, cluster.state # "gone" => cluster.size > 0, Users
    PROVE  \/ KeepCluster
           \/ \E c : WriteCluster(c) /\ (c.state # "gone" => c.size > 0)
<1>0. cluster \in Cluster
  BY DEF TypeOK
<1>1. \A c : Edit(c) => WriteCluster(c) /\ cluster.size > 0
  BY DEF Edit
<1>2. CASE UserSetsSize
  <2>1. PICK n \in Sizes : Edit([cluster EXCEPT !.size = n])
    BY <1>2 DEF UserSetsSize
  <2>2. n > 0 /\ [cluster EXCEPT !.size = n].size = n
    BY <1>0, ConstantsAssumption DEF Cluster
  <2> QED
    BY <1>1, <2>1, <2>2
<1>3. CASE UserSetsVersion
  <2>1. PICK v \in Versions : Edit([cluster EXCEPT !.version = v])
    BY <1>3 DEF UserSetsVersion
  <2>2. [cluster EXCEPT !.version = v].size = cluster.size
    BY <1>0 DEF Cluster
  <2> QED
    BY <1>1, <2>1, <2>2
<1>4. CASE UserSetsAutoScaling
  <2>1. PICK a \in AutoConfigs : Edit([cluster EXCEPT !.auto = a])
    BY <1>4 DEF UserSetsAutoScaling
  <2>2. [cluster EXCEPT !.auto = a].size = cluster.size
    BY <1>0 DEF Cluster
  <2> QED
    BY <1>1, <2>1, <2>2
<1>5. CASE UserTogglesOverride \/ UserTogglesRestore
  <2>1. \/ Edit([cluster EXCEPT !.override = ~@])
        \/ Edit([cluster EXCEPT !.restore = ~@])
    BY <1>5 DEF UserTogglesOverride, UserTogglesRestore
  <2>2. /\ [cluster EXCEPT !.override = ~@].size = cluster.size
        /\ [cluster EXCEPT !.restore = ~@].size = cluster.size
    BY <1>0 DEF Cluster
  <2> QED
    BY <1>1, <2>1, <2>2
<1>6. CASE UserDeletes
  <2>1. Edit([cluster EXCEPT !.state = "deleting"]) \/ Edit(GoneCluster)
    BY <1>6 DEF UserDeletes
  <2>2. /\ [cluster EXCEPT !.state = "deleting"].size = cluster.size
        /\ GoneCluster.state = "gone"
    BY <1>0 DEF Cluster, GoneCluster
  <2> QED
    BY <1>1, <2>1, <2>2
<1>7. CASE UserMirrorsImage
  BY <1>7 DEF UserMirrorsImage
<1> QED
  BY <1>2, <1>3, <1>4, <1>5, <1>6, <1>7 DEF Users

LEMMA NextClusterSize ==
    ASSUME OddInv, [Next]_vars
    PROVE  /\ cluster'.state # "gone" => cluster'.size > 0
           /\ seenCluster'.obj.state # "gone" => seenCluster'.obj.size > 0
<1>0. TypeOK /\ FinalizerInv /\ CountsArePositive
  BY DEF OddInv, IInv, FinalizerInv
<1>1. CASE KeepCluster
  BY <1>0, <1>1 DEF KeepCluster, CountsArePositive
<1>2. CASE cluster' = cluster /\ seenCluster' = Cached(cluster)
  BY <1>0, <1>2 DEF Cached, CountsArePositive
<1>3. ASSUME NEW c, WriteCluster(c), c.state # "gone" => c.size > 0
      PROVE  /\ cluster'.state # "gone" => cluster'.size > 0
             /\ seenCluster'.obj.state # "gone" => seenCluster'.obj.size > 0
  BY <1>0, <1>3, WriteSeenCluster DEF CountsArePositive
<1>4. CASE UNCHANGED vars \/ ApiError \/ OperatorRestarts \/ Informers
  BY <1>1, <1>2, <1>4 DEF vars, KeepCluster, ApiError, OperatorRestarts, Informers,
     SyncCluster, SyncSts, SyncHpa
<1>5. CASE Users
  BY <1>0, <1>1, <1>3, <1>5, EditedSize DEF CountsArePositive
<1>6. CASE Workload \/ HpaScales \/ GarbageCollects
  BY <1>1, <1>6 DEF Workload, StsObserves, PodBecomesReady, PodFails, RolloutReplacesPod,
     RolloutReplacesStuckPod, RolloutCompletes, StsStatus, HpaScales, GarbageCollects
<1>7. CASE UpdateTimeoutElapses
  <2>1. /\ cluster' = Aged(cluster) /\ seenCluster'.obj = Aged(seenCluster.obj)
        /\ cluster \in Cluster /\ seenCluster.obj \in Cluster
    BY <1>0, <1>7 DEF UpdateTimeoutElapses, TypeOK, CacheOf
  <2>2. \A c \in Cluster : Aged(c).size = c.size /\ Aged(c).state = c.state
    BY DEF Aged, Cluster
  <2> QED
    BY <1>0, <2>1, <2>2 DEF CountsArePositive
<1>8. CASE ReconcileStarts
  BY <1>1, <1>8 DEF ReconcileStarts
<1>9. CASE RemoveFinalizer
  BY <1>1, <1>3, <1>9 DEF RemoveFinalizer, GoneCluster
<1>10. CASE AddFinalizer
  <2>1. my.cluster \in Cluster /\ my.cluster.size > 0
    BY <1>0, <1>10 DEF AddFinalizer, CountsArePositive, TypeOK, Locals
  <2>2. [my.cluster EXCEPT !.finalizer = TRUE].size > 0
    BY <2>1 DEF Cluster
  <2> QED
    BY <1>1, <1>3, <1>10, <2>2 DEF AddFinalizer
<1>11. CASE WorkStep
  <2>1. my.cluster.size > 0
    BY <1>0, <1>11 DEF WorkStep, WorkSteps, CountsArePositive
  <2> QED
    BY <1>1, <1>3, <1>11, <2>1 DEF WorkStep
<1> QED
  BY <1>0, <1>4, <1>5, <1>6, <1>7, <1>8, <1>9, <1>10, <1>11, RollingUpdateWorks, ScalingWorks,
     OtherStepsWork DEF Next, Environment, Reconcile

LEMMA NextCallSize ==
    ASSUME OddInv, [Next]_vars, pc' # "idle"
    PROVE  my'.cluster.size > 0
<1>0. TypeOK /\ FinalizerInv /\ CountsArePositive
  BY DEF OddInv, IInv, FinalizerInv
<1>1. CASE pc # "idle" /\ SameSpec(my'.cluster, my.cluster)
  BY <1>0, <1>1 DEF CountsArePositive, SameSpec
<1>2. CASE Environment \/ UNCHANGED vars
  BY <1>0, <1>1, <1>2, OthersKeepCall
<1>3. CASE Advance
  <2>1. pc # "idle" /\ SameSpec(my'.cluster, my.cluster)
    BY <1>3 DEF Advance, SameSpec
  <2> QED
    BY <1>1, <2>1
<1>4. CASE ReconcileStarts
  <2>1. my'.cluster = seenCluster.obj /\ seenCluster.obj.state # "gone"
    BY <1>4 DEF ReconcileStarts, FirstStep
  <2> QED
    BY <1>0, <2>1 DEF CountsArePositive
<1> QED
  BY <1>0, <1>2, <1>3, <1>4, CallSteps

\* Both managers bound the HPA from below by an odd number.
LEMMA NextHpaMinimum ==
    ASSUME OddInv, [Next]_vars, hpa'.exists
    PROVE  hpa'.min > 0
<1>0. TypeOK /\ CountsArePositive
  BY DEF OddInv, IInv, FinalizerInv
<1>1. CASE hpa' = hpa
  BY <1>0, <1>1 DEF CountsArePositive
<1>2. ~NoHpa.exists
  BY DEF NoHpa
<1>3. CASE UNCHANGED vars \/ ApiError \/ OperatorRestarts \/ Environment
  <2>1. CASE UNCHANGED vars \/ ApiError \/ OperatorRestarts \/ Informers \/ HpaScales
             \/ UpdateTimeoutElapses
    BY <1>1, <2>1 DEF vars, ApiError, OperatorRestarts, Informers, SyncCluster, SyncSts,
       SyncHpa, HpaScales, KeepHpa, UpdateTimeoutElapses
  <2>2. CASE Users
    BY <1>1, <2>2 DEF Users, UserSetsSize, UserSetsVersion, UserSetsAutoScaling,
       UserTogglesOverride, UserTogglesRestore, UserDeletes, UserMirrorsImage, Edit, KeepHpa
  <2>3. CASE Workload
    BY <1>1, <2>3 DEF Workload, StsObserves, PodBecomesReady, PodFails, RolloutReplacesPod,
       RolloutReplacesStuckPod, RolloutCompletes, StsStatus, KeepHpa
  <2>4. CASE GarbageCollects
    BY <1>1, <1>2, <2>4 DEF GarbageCollects, WriteHpa
  <2> QED
    BY <1>3, <2>1, <2>2, <2>3, <2>4 DEF Environment
<1>4. CASE ReconcileScaling
  <2>1. CASE WantsHpa(my.cluster)
    <3>1. my.cluster.auto.min \in Nat /\ my.cluster.auto.min >= 3
      BY <1>0, <2>1, AutoTypes DEF WantsHpa, AutoScaling
    <3>2. hpa' = hpa \/ \E o : hpa' = NewHpa(Bounds(my.cluster), ScalingManagerMetrics, o)
      BY <1>4, <2>1 DEF ReconcileScaling, CreateHpa, UpdateHpa, KeepHpaAsItIs, DeleteHpa,
         NoHpaToDelete, ScalingConflict, WriteHpa, KeepHpa
    <3>3. Bounds(my.cluster).min = EnsureOdd(my.cluster.auto.min)
      BY DEF Bounds, ScalingManagerBounds
    <3>4. \A o : NewHpa(Bounds(my.cluster), ScalingManagerMetrics, o).min > 0
      BY <3>1, <3>3, EnsureOddRoundsUp DEF NewHpa
    <3> QED
      BY <1>1, <3>2, <3>4
  <2>2. CASE ~WantsHpa(my.cluster)
    BY <1>1, <1>2, <1>4, <2>2 DEF ReconcileScaling, CreateHpa, UpdateHpa, KeepHpaAsItIs,
       DeleteHpa, NoHpaToDelete, ScalingConflict, WriteHpa, KeepHpa
  <2> QED
    BY <2>1, <2>2
<1>5. CASE CreateOrUpdateHPA
  <2> DEFINE bounds == QuorumAwareBounds(my.cluster.auto.min, my.cluster.auto.max)
  <2>1. hpa' = hpa \/ hpa' = NoHpa \/ \E o : hpa' = NewHpa(bounds, QuorumAwareMetrics, o)
    BY <1>5 DEF CreateOrUpdateHPA, CleanupHPA, BuildPanics, CreateOrUpdate, WriteHpa, KeepHpa
  <2>2. bounds.min >= 3 /\ bounds.min \in Nat
    <3>1. my.cluster.auto.min \in Nat /\ my.cluster.auto.max \in Nat
      BY <1>0, AutoTypes DEF AutoScaling
    <3> QED
      BY <3>1, QuorumAwareBoundsAreOdd, EnsureOddRoundsUp DEF QuorumAwareBounds
  <2> HIDE DEF bounds
  <2>3. \A o : NewHpa(bounds, QuorumAwareMetrics, o).min > 0
    BY <2>2 DEF NewHpa
  <2> QED
    BY <1>1, <1>2, <2>1, <2>3
<1>6. CASE Reconcile /\ ~ReconcileScaling /\ ~CreateOrUpdateHPA
  <2>1. hpa' = hpa
    BY <1>6 DEF Reconcile, ReconcileStarts, RemoveFinalizer, AddFinalizer, ReconcileServices,
       ReconcileStatefulSet, RollingUpdateStep, VersionUpdateRejected, HandleRollingUpdate,
       PatchImage, PatchImageFails, UpdatePhase, PerformRollback, PerformRollbackFails,
       RecordFailedRollback, ReplicasMatch, ScalingBlocked, PatchReplicas, ReconcilePdb,
       QuorumAwareStep, EvaluateIntelligentScaling, FinishReconcile, KeepHpa
  <2> QED
    BY <1>1, <2>1
<1> QED
  BY <1>3, <1>4, <1>5, <1>6 DEF Next
\* calculateQuorumAwareReplicas finds a neighbour of an even count whenever there
\* is an odd number between its bounds.
LEMMA CorrectionMoves ==
    ASSUME NEW current \in Nat, NEW min \in Nat, NEW max \in Nat, NEW odd \in min..max,
           current > 0, ~IsOdd(current), IsOdd(odd)
    PROVE  CalculateQuorumAwareReplicas(current, min, max) # current
  BY DEF CalculateQuorumAwareReplicas, IsOdd

LEMMA CorrectionIsPositive ==
    ASSUME NEW current \in Nat, NEW min \in Nat, NEW max \in Nat, current > 0, ~IsOdd(current)
    PROVE  CalculateQuorumAwareReplicas(current, min, max) > 0
  BY DEF CalculateQuorumAwareReplicas, IsOdd

\* EvaluateIntelligentScaling leaves alone odd counts only, and lowers none to 0.
LEMMA CorrectedReplicas ==
    ASSUME TypeOK, OddCountsExist, NEW s \in StatefulSet, s.replicas > 0
    PROVE  LET n == QuorumAwareReplicas(my.cluster, s)
           IN  /\ n > 0
               /\ my.cluster.auto.enabled /\ s.exists /\ n = s.replicas => IsOdd(s.replicas)
<1> DEFINE c == my.cluster
           min == IF c.auto.hpa = "absent" THEN 3 ELSE c.auto.min
           max == IF c.auto.hpa = "absent" THEN 9 ELSE c.auto.max
           corrected == CalculateQuorumAwareReplicas(s.replicas, min, max)
<1>1. s.replicas \in Nat
  BY DEF StatefulSet
<1>2. min \in Nat /\ max \in Nat
  BY AutoTypes DEF AutoScaling
<1>3. c.auto.enabled => \E n \in min..max : IsOdd(n)
  <2>1. CASE c.auto.hpa = "absent"
    <3>1. 3 \in min..max /\ IsOdd(3)
      BY <2>1 DEF IsOdd
    <3> QED
      BY <3>1
  <2>2. CASE c.auto.hpa # "absent"
    BY <2>2, AutoTypes DEF OddCountsExist
  <2> QED
    BY <2>1, <2>2
<1>4. CASE c.auto.enabled /\ s.exists /\ ~IsOdd(s.replicas)
  <2>1. QuorumAwareReplicas(c, s) = corrected
    BY <1>4 DEF QuorumAwareReplicas
  <2>2. corrected > 0 /\ corrected # s.replicas
    <3>1. PICK odd \in min..max : IsOdd(odd)
      BY <1>3, <1>4
    <3> HIDE DEF min, max
    <3> QED
      BY <1>1, <1>2, <1>4, <3>1, CorrectionMoves, CorrectionIsPositive
  <2> HIDE DEF corrected
  <2> QED
    BY <2>1, <2>2
<1>5. CASE ~(c.auto.enabled /\ s.exists /\ ~IsOdd(s.replicas))
  <2>1. QuorumAwareReplicas(c, s) = s.replicas
    BY <1>5 DEF QuorumAwareReplicas
  <2> QED
    BY <1>5, <2>1
<1> QED
  BY <1>4, <1>5

LEMMA NextReplicas ==
    ASSUME OddCountsExist, OddInv, [Next]_vars, sts'.exists
    PROVE  sts'.replicas > 0
<1>0. TypeOK /\ FinalizerInv /\ CountsArePositive /\ StsCacheFollows /\ sts \in StatefulSet
      /\ my.cluster \in Cluster
  BY DEF OddInv, IInv, FinalizerInv, CallIsOnCourse, TypeOK, Locals
<1>1. CASE sts' = sts
  BY <1>0, <1>1 DEF CountsArePositive
<1>2. CASE sts.exists /\ sts'.replicas = sts.replicas
  BY <1>0, <1>2 DEF CountsArePositive
<1>3. CASE UNCHANGED vars \/ ApiError \/ OperatorRestarts \/ Informers \/ UpdateTimeoutElapses
  BY <1>1, <1>3 DEF vars, ApiError, OperatorRestarts, Informers, SyncCluster, SyncSts, SyncHpa,
     KeepSts, UpdateTimeoutElapses
<1>4. CASE Users
  <2>1. CASE UserMirrorsImage
    <3>1. sts.exists /\ sts' = [sts EXCEPT !.image.repo = "mirror"]
      BY <2>1 DEF UserMirrorsImage, WriteSts
    <3>2. [sts EXCEPT !.image.repo = "mirror"].replicas = sts.replicas
      BY <1>0 DEF StatefulSet
    <3> QED
      BY <1>2, <3>1, <3>2
  <2>2. CASE ~UserMirrorsImage
    BY <1>1, <1>4, <2>2 DEF Users, UserSetsSize, UserSetsVersion, UserSetsAutoScaling,
       UserTogglesOverride, UserTogglesRestore, UserDeletes, Edit, KeepSts
  <2> QED
    BY <2>1, <2>2
<1>5. CASE Workload
  <2>1. \A s : StsStatus(s) => sts.exists /\ sts' = s
    BY DEF StsStatus, WriteSts
  <2>2. sts.exists /\ sts'.replicas = sts.replicas
    <3>1. CASE StsObserves
      <4>1. PICK r \in 0..sts.ready :
              StsStatus([sts EXCEPT !.pods = sts.replicas, !.ready = r,
                                    !.updateRevision = sts.image,
                                    !.stuck = @ /\ sts.pods <= sts.replicas])
        BY <3>1 DEF StsObserves
      <4>2. /\ sts.exists
            /\ sts' = [sts EXCEPT !.pods = sts.replicas, !.ready = r,
                                  !.updateRevision = sts.image,
                                  !.stuck = @ /\ sts.pods <= sts.replicas]
        BY <2>1, <4>1
      <4>3. [sts EXCEPT !.pods = sts.replicas, !.ready = r, !.updateRevision = sts.image,
                        !.stuck = @ /\ sts.pods <= sts.replicas].replicas = sts.replicas
        BY <1>0 DEF StatefulSet
      <4> QED
        BY <4>2, <4>3, Zenon
    <3>2. CASE PodBecomesReady \/ PodFails
      BY <1>0, <2>1, <3>2 DEF PodBecomesReady, PodFails, StatefulSet
    <3>3. CASE RolloutReplacesPod
      <4>1. /\ sts.exists
            /\ sts' = [sts EXCEPT !.ready = @ - 1, !.stuck = Unpullable(sts.updateRevision)]
        BY <2>1, <3>3 DEF RolloutReplacesPod
      <4>2. [sts EXCEPT !.ready = @ - 1, !.stuck = Unpullable(sts.updateRevision)].replicas
              = sts.replicas
        BY <1>0 DEF StatefulSet
      <4> QED
        BY <4>1, <4>2, Zenon
    <3>4. CASE RolloutReplacesStuckPod \/ RolloutCompletes
      BY <1>0, <2>1, <3>4 DEF RolloutReplacesStuckPod, RolloutCompletes, StatefulSet
    <3> QED
      BY <1>5, <3>1, <3>2, <3>3, <3>4 DEF Workload
  <2> QED
    BY <1>2, <2>2
<1>6. CASE HpaScales
  <2>1. PICK n \in hpa.min..hpa.max : sts' = [sts EXCEPT !.replicas = n]
    BY <1>6 DEF HpaScales, WriteSts
  <2>2. hpa.min > 0 /\ hpa.min \in Nat /\ hpa.max \in Nat
    BY <1>0, <1>6 DEF HpaScales, CountsArePositive, TypeOK, Hpa
  <2> QED
    BY <1>0, <2>1, <2>2 DEF StatefulSet
<1>7. CASE GarbageCollects
  BY <1>7 DEF GarbageCollects, WriteSts, NoStatefulSet, NewStatefulSet
<1>8. CASE ReconcileStatefulSet
  <2>1. CASE CreateStatefulSet
    <3>1. sts' = NewStatefulSet(DesiredReplicas(my.cluster), ImageOf(my.cluster.version))
      BY <2>1 DEF CreateStatefulSet, WriteSts
    <3>2. my.cluster.size > 0
      BY <1>0, <1>8 DEF ReconcileStatefulSet, CountsArePositive
    <3> QED
      BY <3>1, <3>2 DEF NewStatefulSet, DesiredReplicas
  <2>2. CASE ~CreateStatefulSet
    BY <1>1, <1>8, <2>2 DEF ReconcileStatefulSet, KeepSts
  <2> QED
    BY <2>1, <2>2
<1>9. CASE RollingUpdateStep
  <2>1. CASE PatchImage \/ PerformRollback
    <3>1. sts.exists /\ (sts' = sts \/ \E i : sts' = [sts EXCEPT !.image = i])
      <4>1. CASE PatchImage
        BY <4>1 DEF PatchImage, WriteSts
      <4>2. CASE PerformRollback
        <5>1. sts.exists /\ sts' = RollbackPatch(sts)
          BY <4>2 DEF PerformRollback, WriteSts
        <5>2. RollbackPatch(sts) = sts \/ \E i : RollbackPatch(sts) = [sts EXCEPT !.image = i]
          BY DEF RollbackPatch
        <5> QED
          BY <5>1, <5>2
      <4> QED
        BY <2>1, <4>1, <4>2
    <3>2. \A i : [sts EXCEPT !.image = i].replicas = sts.replicas
      BY <1>0 DEF StatefulSet
    <3> QED
      BY <1>1, <1>2, <3>1, <3>2
  <2>2. CASE ~PatchImage /\ ~PerformRollback
    BY <1>1, <1>9, <2>2 DEF RollingUpdateStep, VersionUpdateRejected, HandleRollingUpdate,
       PatchImageFails, UpdatePhase, PerformRollbackFails, RecordFailedRollback, KeepSts
  <2> QED
    BY <2>1, <2>2
<1>10. CASE PatchReplicas
  <2>1. sts' = [sts EXCEPT !.replicas = my.cluster.size] /\ my.cluster.size > 0
    BY <1>0, <1>10 DEF PatchReplicas, WriteSts, CountsArePositive
  <2> QED
    BY <1>0, <2>1 DEF StatefulSet
<1>11. CASE EvaluateIntelligentScaling
  <2>1. \/ sts' = sts
        \/ /\ seenSts.current
           /\ sts' = [sts EXCEPT !.replicas = QuorumAwareReplicas(my.cluster, seenSts.obj)]
    BY <1>11 DEF EvaluateIntelligentScaling, KeepSts, WriteSts
  <2>2. CASE /\ seenSts.current
             /\ sts' = [sts EXCEPT !.replicas = QuorumAwareReplicas(my.cluster, seenSts.obj)]
    <3>1. seenSts.obj = sts /\ sts.exists /\ sts.replicas > 0
      BY <1>0, <2>2 DEF StsCacheFollows, CountsArePositive, StatefulSet
    <3>2. sts'.replicas = QuorumAwareReplicas(my.cluster, sts)
      BY <1>0, <2>2, <3>1 DEF StatefulSet
    <3> QED
      BY <1>0, <3>1, <3>2, CorrectedReplicas
  <2> QED
    BY <1>1, <2>1, <2>2
<1>12. CASE /\ Reconcile /\ ~ReconcileStatefulSet /\ ~RollingUpdateStep /\ ~PatchReplicas
            /\ ~EvaluateIntelligentScaling
  <2>1. sts' = sts
    BY <1>12 DEF Reconcile, ReconcileStarts, RemoveFinalizer, AddFinalizer, ReconcileServices,
       ReconcileScaling, ReplicasMatch, ScalingBlocked, ReconcilePdb, QuorumAwareStep,
       CreateOrUpdateHPA, FinishReconcile, KeepSts
  <2> QED
    BY <1>1, <2>1
<1> QED
  BY <1>3, <1>4, <1>5, <1>6, <1>7, <1>8, <1>9, <1>10, <1>11, <1>12 DEF Next, Environment

LEMMA NextOddAtEnd ==
    ASSUME OddCountsExist, OddInv, [Next]_vars,
           pc' = "updateStatus", ~queued', seenSts'.current, my'.cluster.auto.enabled
    PROVE  IsOdd(sts'.replicas)
<1>0. /\ TypeOK /\ FinalizerInv /\ CountsArePositive /\ StsCacheFollows /\ SnapshotIsCurrent
      /\ sts \in StatefulSet
  BY DEF OddInv, IInv, FinalizerInv, CallIsOnCourse, TypeOK
<1>1. ~ReconcileStarts
  BY <1>0, StartedCall DEF AfterServices, AfterRead, AfterUpdate, AfterReplicas, AfterPdb, AtEnd
<1>2. ~queued /\ seenSts.current /\ sts' = sts
  BY <1>0, <1>1, StsUndisturbed
<1>3. CASE pc = "updateStatus" /\ my.cluster.auto.enabled
  BY <1>2, <1>3 DEF OddInv
<1>4. CASE Environment \/ UNCHANGED vars
  BY <1>0, <1>3, <1>4, OthersKeepCall DEF SameSpec
<1>5. CASE Advance
  <2>1. EvaluateIntelligentScaling /\ pc = "evaluateScaling" /\ my' = my
    BY <1>5 DEF Advance
  <2>2. sts.exists /\ sts.replicas > 0 /\ seenSts.obj = sts
    <3>1. my.sts.exists /\ my.sts = sts
      BY <1>0, <1>2, <2>1 DEF SnapshotIsCurrent, AfterRead, AfterUpdate, AfterReplicas,
         AfterPdb, AtEnd
    <3> QED
      BY <1>0, <1>2, <3>1 DEF StsCacheFollows, CountsArePositive
  <2> DEFINE n == QuorumAwareReplicas(my.cluster, sts)
  <2>3. n = sts.replicas \/ sts' = [sts EXCEPT !.replicas = n]
    BY <1>2, <2>1, <2>2 DEF EvaluateIntelligentScaling, WriteSts
  <2>4. n = sts.replicas
    <3> HIDE DEF n
    <3> QED
      BY <1>0, <1>2, <2>3 DEF StatefulSet
  <2> QED
    BY <1>0, <1>2, <2>1, <2>2, <2>4, CorrectedReplicas
<1> QED
  BY <1>0, <1>1, <1>4, <1>5, CallSteps

\* Whatever count the HPA controller chose, and whenever it did during a call,
\* the count is odd once nothing is left to do, provided there is an odd one
\* between the bounds the user gave.
THEOREM RestHasOddReplicas ==
    ASSUME OddCountsExist
    PROVE  Spec => []QuiescentReplicasAreOdd
<1>1. Init => OddInv
  <2> SUFFICES ASSUME Init PROVE OddInv
    OBVIOUS
  <2>1. pc = "idle" /\ queued /\ ~sts.exists /\ ~hpa.exists /\ seenCluster.obj = cluster
    BY DEF Init, Cached, NoStatefulSet, NewStatefulSet, NoHpa
  <2>2. cluster.size > 0
    <3>1. PICK size \in Sizes, version \in Versions, auto \in AutoConfigs :
            cluster = [GoneCluster EXCEPT !.state = "live", !.size = size,
                                          !.version = version, !.auto = auto]
      BY DEF Init
    <3> QED
      BY <3>1, ConstantsAssumption DEF GoneCluster
  <2> QED
    BY <2>1, <2>2, InitIInv DEF OddInv, CountsArePositive, Settled
<1>2. OddInv /\ [Next]_vars => OddInv'
  <2> SUFFICES ASSUME OddInv, [Next]_vars PROVE OddInv'
    OBVIOUS
  <2>1. IInv /\ IInv' /\ cluster \in Cluster /\ my.cluster \in Cluster
    BY NextIInv DEF OddInv, IInv, FinalizerInv, TypeOK, Locals
  <2>2. CountsArePositive'
    BY NextClusterSize, NextCallSize, NextHpaMinimum, NextReplicas DEF CountsArePositive
  <2>3. ASSUME Settled', cluster'.state = "live", cluster'.auto.enabled
        PROVE  IsOdd(sts'.replicas)
    <3>1. CASE /\ Settled /\ cluster.state = "live" /\ sts' = sts
               /\ cluster' = cluster \/ cluster' = Aged(cluster)
      <4>1. SameSpec(cluster', cluster)
        BY <2>1, <3>1, StatusEditsKeepSpec DEF SameSpec
      <4> QED
        BY <2>3, <3>1, <4>1 DEF OddInv, SameSpec
    <3>2. CASE /\ pc = "updateStatus" /\ ~queued /\ seenSts.current
               /\ UNCHANGED <<cluster, sts>>
               /\ \E healthy \in BOOLEAN :
                     cluster = [my.cluster EXCEPT
                                  !.status = ReportedStatus(my.cluster, my.sts, healthy)]
      <4>1. SameSpec(cluster, my.cluster)
        BY <2>1, <3>2, StatusEditsKeepSpec
      <4> QED
        BY <2>3, <3>2, <4>1 DEF OddInv, SameSpec
    <3> QED
      BY <2>1, <2>3, <3>1, <3>2, Settles
  <2> QED
    BY <2>1, <2>2, <2>3, NextOddAtEnd DEF OddInv
<1>3. OddInv => QuiescentReplicasAreOdd
  BY DEF OddInv, Settled, QuiescentReplicasAreOdd, Quiescent
<1> QED
  BY <1>1, <1>2, <1>3, PTL DEF Spec
=============================================================================
