----------------------- MODULE ClusterReconciler_proofs ----------------------
(***************************************************************************)
(* Theorems about the RqliteCluster controller, for every value of the     *)
(* constants: any sizes, versions and auto-scaling settings, any caches    *)
(* that lag, any number of edits, faults and disruptions.  First its types,*)
(* then the finalizer protocol: the operator never writes an object of a   *)
(* cluster that is gone.                                                   *)
(***************************************************************************)
EXTENDS ClusterProperties, TLAPS

-----------------------------------------------------------------------------
(* Type correctness *)

LEMMA EmptyObjectTypes ==
    /\ GoneCluster \in Cluster
    /\ NoStatefulSet \in StatefulSet
    /\ NoHpa \in Hpa
    /\ NoLocals \in Locals
<1>1. NewStatus \in Status
  BY DEF NewStatus, Status, NoUpdate, UpdateStatus
<1>2. GoneCluster \in Cluster
  BY <1>1 DEF GoneCluster, Cluster
<1>3. NoStatefulSet \in StatefulSet
  BY DEF NoStatefulSet, NewStatefulSet, StatefulSet, ImageOf, Image
<1>4. NoHpa \in Hpa
  BY DEF NoHpa, Hpa
<1> QED
  BY <1>2, <1>3, <1>4 DEF NoLocals, Locals

LEMMA NewStatefulSetType ==
    ASSUME NEW n \in Nat, NEW v \in Versions \cup {NoVersion}
    PROVE  NewStatefulSet(n, ImageOf(v)) \in StatefulSet
  BY DEF NewStatefulSet, StatefulSet, ImageOf, Image

\* What a write does to the cache of its kind is again a cached copy.
LEMMA BehindType ==
    ASSUME NEW Kind, NEW kind, NEW cache \in CacheOf(Kind),
           NEW old, NEW new \in Kind
    PROVE  Behind(kind, cache, old, new) \in CacheOf(Kind)
  BY DEF Behind, Cached, CacheOf

LEMMA WriteClusterType ==
    ASSUME TypeOK, NEW c \in Cluster, WriteCluster(c)
    PROVE  cluster' \in Cluster /\ seenCluster' \in CacheOf(Cluster)
  BY BehindType DEF TypeOK, WriteCluster

LEMMA WriteStsType ==
    ASSUME TypeOK, NEW s \in StatefulSet, WriteSts(s)
    PROVE  sts' \in StatefulSet /\ seenSts' \in CacheOf(StatefulSet)
  BY BehindType DEF TypeOK, WriteSts

LEMMA WriteHpaType ==
    ASSUME TypeOK, NEW h \in Hpa, WriteHpa(h)
    PROVE  hpa' \in Hpa /\ seenHpa' \in CacheOf(Hpa)
  BY BehindType DEF TypeOK, WriteHpa

\* The parts of TypeOK that concern one kind of object, and the rest.
ClusterTyped == cluster \in Cluster /\ seenCluster \in CacheOf(Cluster)
StsTyped == sts \in StatefulSet /\ seenSts \in CacheOf(StatefulSet)
HpaTyped == hpa \in Hpa /\ seenHpa \in CacheOf(Hpa)
OthersTyped == pdb \in Nat /\ services \subseteq {"headless", "client"}
WorkerTyped == queued \in BOOLEAN /\ pc \in Steps /\ my \in Locals
BudgetTyped == budget \in Budget

\* A step is type correct when each part is in the next state.
LEMMA TypeOKFromParts ==
    ASSUME ClusterTyped', StsTyped', HpaTyped', OthersTyped', WorkerTyped', BudgetTyped'
    PROVE  TypeOK'
  BY DEF TypeOK, ClusterTyped, StsTyped, HpaTyped, OthersTyped, WorkerTyped, BudgetTyped

LEMMA ReturnRequeueType ==
    ASSUME TypeOK, ReturnRequeue
    PROVE  WorkerTyped' /\ BudgetTyped'
  BY EmptyObjectTypes DEF TypeOK, ReturnRequeue, WorkerTyped, BudgetTyped, Steps

LEMMA ContinueType ==
    ASSUME TypeOK, NEW step \in Steps, NEW m \in Locals, Continue(step, m)
    PROVE  WorkerTyped' /\ BudgetTyped'
  BY DEF TypeOK, Continue, WorkerTyped, BudgetTyped

LEMMA KeepTypes ==
    ASSUME TypeOK
    PROVE  /\ KeepCluster => ClusterTyped'
           /\ KeepSts => StsTyped'
           /\ KeepHpa => HpaTyped'
           /\ KeepOthers => OthersTyped'
  BY DEF TypeOK, KeepCluster, KeepSts, KeepHpa, KeepOthers,
         ClusterTyped, StsTyped, HpaTyped, OthersTyped

LEMMA EventType ==
    ASSUME TypeOK, NEW kind, EventOf(kind)
    PROVE  queued' \in BOOLEAN
  BY DEF TypeOK, EventOf

LEMMA InformersType == TypeOK /\ Informers => TypeOK'
<1> SUFFICES ASSUME TypeOK, Informers PROVE TypeOK'
  OBVIOUS
<1>1. CASE SyncCluster
  BY <1>1 DEF TypeOK, SyncCluster, Cached, CacheOf
<1>2. CASE SyncSts
  BY <1>2 DEF TypeOK, SyncSts, Cached, CacheOf
<1>3. CASE SyncHpa
  BY <1>3 DEF TypeOK, SyncHpa, Cached, CacheOf
<1> QED
  BY <1>1, <1>2, <1>3 DEF Informers

\* Counting one more edit, fault or disruption below its bound.
LEMMA BudgetType ==
    ASSUME TypeOK
    PROVE  /\ budget.edits < MaxEdits =>
                [budget EXCEPT !.edits = @ + 1] \in Budget
           /\ budget.faults < MaxFaults =>
                [budget EXCEPT !.faults = @ + 1] \in Budget
           /\ budget.disruptions < MaxDisruptions =>
                [budget EXCEPT !.disruptions = @ + 1] \in Budget
  BY ConstantsAssumption DEF TypeOK, Budget

LEMMA StaleLocalsType ==
    ASSUME TypeOK PROVE [my EXCEPT !.fresh = FALSE] \in Locals
  BY DEF TypeOK, Locals

LEMMA EditType ==
    ASSUME TypeOK, NEW c \in Cluster, Edit(c)
    PROVE  TypeOK'
<1>1. ClusterTyped'
  BY WriteClusterType DEF Edit, ClusterTyped
<1>2. WorkerTyped'
  BY StaleLocalsType, EventType DEF Edit, WorkerTyped, TypeOK
<1>3. BudgetTyped'
  BY BudgetType DEF Edit, BudgetTyped
<1>4. StsTyped' /\ HpaTyped' /\ OthersTyped'
  BY KeepTypes DEF Edit
<1> QED
  BY <1>1, <1>2, <1>3, <1>4, TypeOKFromParts

LEMMA UsersType == TypeOK /\ Users => TypeOK'
<1> SUFFICES ASSUME TypeOK, Users PROVE TypeOK'
  OBVIOUS
<1> USE DEF TypeOK
<1>1. CASE UserSetsSize
  <2> PICK n \in Sizes : Edit([cluster EXCEPT !.size = n])
    BY <1>1 DEF UserSetsSize
  <2> QED
    BY EditType, ConstantsAssumption DEF Cluster
<1>2. CASE UserSetsVersion
  <2> PICK v \in Versions : Edit([cluster EXCEPT !.version = v])
    BY <1>2 DEF UserSetsVersion
  <2> QED
    BY EditType DEF Cluster
<1>3. CASE UserSetsAutoScaling
  <2> PICK a \in AutoConfigs : Edit([cluster EXCEPT !.auto = a])
    BY <1>3 DEF UserSetsAutoScaling
  <2> QED
    BY EditType DEF Cluster
<1>4. CASE UserTogglesOverride
  BY <1>4, EditType DEF UserTogglesOverride, Cluster
<1>5. CASE UserTogglesRestore
  BY <1>5, EditType DEF UserTogglesRestore, Cluster
<1>6. CASE UserDeletes
  BY <1>6, EditType, EmptyObjectTypes DEF UserDeletes, Cluster
<1>7. CASE UserMirrorsImage
  <2>1. [sts EXCEPT !.image.repo = "mirror"] \in StatefulSet
    BY DEF StatefulSet, Image
  <2>2. StsTyped'
    BY <1>7, <2>1, WriteStsType DEF UserMirrorsImage, StsTyped
  <2>3. WorkerTyped' /\ BudgetTyped'
    BY <1>7, EventType, BudgetType DEF UserMirrorsImage, WorkerTyped, BudgetTyped
  <2>4. ClusterTyped' /\ HpaTyped' /\ OthersTyped'
    BY <1>7, KeepTypes DEF UserMirrorsImage
  <2> QED
    BY <2>2, <2>3, <2>4, TypeOKFromParts
<1> QED
  BY <1>1, <1>2, <1>3, <1>4, <1>5, <1>6, <1>7 DEF Users

LEMMA StsStatusType ==
    ASSUME TypeOK, NEW s \in StatefulSet, StsStatus(s), budget' \in Budget
    PROVE  TypeOK'
<1>1. StsTyped'
  BY WriteStsType DEF StsStatus, StsTyped
<1>2. WorkerTyped'
  BY EventType DEF StsStatus, WorkerTyped, TypeOK
<1>3. ClusterTyped' /\ HpaTyped' /\ OthersTyped'
  BY KeepTypes DEF StsStatus
<1> QED
  BY <1>1, <1>2, <1>3, TypeOKFromParts DEF BudgetTyped

\* The two status writes that compute the flag stuck.
LEMMA StuckType ==
    ASSUME NEW s \in StatefulSet, NEW r \in Nat, NEW b \in BOOLEAN
    PROVE  /\ [s EXCEPT !.ready = r, !.stuck = b] \in StatefulSet
           /\ [s EXCEPT !.pods = s.replicas, !.ready = r,
                        !.updateRevision = s.image, !.stuck = b] \in StatefulSet
  BY DEF StatefulSet

LEMMA WorkloadType == TypeOK /\ Workload => TypeOK'
<1> SUFFICES ASSUME TypeOK, Workload PROVE TypeOK'
  OBVIOUS
<1> USE DEF TypeOK
<1>1. CASE StsObserves
  <2> PICK r \in 0..sts.ready :
        StsStatus([sts EXCEPT !.pods = sts.replicas, !.ready = r,
                              !.updateRevision = sts.image,
                              !.stuck = @ /\ sts.pods <= sts.replicas])
    BY <1>1 DEF StsObserves
  <2>1. (sts.stuck /\ sts.pods <= sts.replicas) \in BOOLEAN
    BY Zenon
  <2>2. r \in Nat
    BY DEF StatefulSet
  <2>3. [sts EXCEPT !.pods = sts.replicas, !.ready = r,
                    !.updateRevision = sts.image,
                    !.stuck = @ /\ sts.pods <= sts.replicas] \in StatefulSet
    BY <2>1, <2>2, StuckType, Zenon
  <2> QED
    BY <1>1, <2>3, StsStatusType DEF StsObserves, BudgetTyped
<1>2. CASE PodBecomesReady
  <2>1. [sts EXCEPT !.ready = @ + 1] \in StatefulSet
    BY DEF StatefulSet
  <2> QED
    BY <1>2, <2>1, StsStatusType DEF PodBecomesReady
<1>3. CASE PodFails
  <2>1. sts.ready > 0 => [sts EXCEPT !.ready = @ - 1] \in StatefulSet
    BY DEF StatefulSet
  <2> QED
    BY <1>3, <2>1, StsStatusType, BudgetType DEF PodFails
<1>4. CASE RolloutReplacesPod
  <2>1. Unpullable(sts.updateRevision) \in BOOLEAN
    BY SMT DEF Unpullable
  <2>2. sts.ready - 1 \in Nat
    BY <1>4 DEF StatefulSet, RolloutReplacesPod
  <2>3. [sts EXCEPT !.ready = @ - 1, !.stuck = Unpullable(sts.updateRevision)]
          \in StatefulSet
    BY <2>1, <2>2, StuckType, Zenon
  <2> QED
    BY <1>4, <2>3, StsStatusType DEF RolloutReplacesPod
<1>5. CASE RolloutReplacesStuckPod
  <2>1. [sts EXCEPT !.stuck = FALSE] \in StatefulSet
    BY DEF StatefulSet
  <2> QED
    BY <1>5, <2>1, StsStatusType DEF RolloutReplacesStuckPod
<1>6. CASE RolloutCompletes
  <2>1. [sts EXCEPT !.currentRevision = sts.updateRevision] \in StatefulSet
    BY DEF StatefulSet
  <2> QED
    BY <1>6, <2>1, StsStatusType DEF RolloutCompletes
<1> QED
  BY <1>1, <1>2, <1>3, <1>4, <1>5, <1>6 DEF Workload

LEMMA AgedType ==
    ASSUME NEW c \in Cluster
    PROVE  Aged(c) \in Cluster
  BY DEF Aged, Cluster, Status, UpdateStatus

LEMMA EnvironmentType == TypeOK /\ Environment => TypeOK'
<1> SUFFICES ASSUME TypeOK, Environment PROVE TypeOK'
  OBVIOUS
<1>1. CASE HpaScales
  <2> PICK n \in hpa.min..hpa.max : WriteSts([sts EXCEPT !.replicas = n])
    BY <1>1 DEF HpaScales
  <2>1. [sts EXCEPT !.replicas = n] \in StatefulSet
    BY DEF TypeOK, StatefulSet, Hpa
  <2>2. StsTyped'
    BY <2>1, WriteStsType DEF StsTyped
  <2>3. WorkerTyped' /\ BudgetTyped'
    BY <1>1, EventType, BudgetType DEF HpaScales, WorkerTyped, BudgetTyped, TypeOK
  <2>4. ClusterTyped' /\ HpaTyped' /\ OthersTyped'
    BY <1>1, KeepTypes DEF HpaScales
  <2> QED
    BY <2>2, <2>3, <2>4, TypeOKFromParts
<1>2. CASE GarbageCollects
  <2>1. StsTyped' /\ HpaTyped'
    BY <1>2, EmptyObjectTypes, WriteStsType, WriteHpaType
       DEF GarbageCollects, StsTyped, HpaTyped, TypeOK
  <2>2. WorkerTyped' /\ BudgetTyped' /\ OthersTyped'
    BY <1>2, EventType
       DEF GarbageCollects, WorkerTyped, BudgetTyped, OthersTyped, TypeOK
  <2>3. ClusterTyped'
    BY <1>2, KeepTypes DEF GarbageCollects
  <2> QED
    BY <2>1, <2>2, <2>3, TypeOKFromParts
<1>3. CASE UpdateTimeoutElapses
  <2>1. ClusterTyped'
    BY <1>3, AgedType DEF UpdateTimeoutElapses, TypeOK, ClusterTyped, CacheOf
  <2>2. my' \in Locals
    BY <1>3, AgedType DEF UpdateTimeoutElapses, TypeOK, Locals
  <2> QED
    BY <1>3, <2>1, <2>2 DEF UpdateTimeoutElapses, TypeOK, ClusterTyped
<1> QED
  BY <1>1, <1>2, <1>3, InformersType, UsersType, WorkloadType DEF Environment

\* The values the call writes or keeps in my.cluster.
LEMMA StatusEditTypes ==
    ASSUME NEW c \in Cluster
    PROVE  /\ WithUpdateStatus(c) \in Cluster
           /\ [c EXCEPT !.status.versionValid = "False"] \in Cluster
           /\ [c EXCEPT !.status.scalingAllowed = "False"] \in Cluster
           /\ [c EXCEPT !.finalizer = TRUE] \in Cluster
           /\ \A phase \in {"Paused", "InProgress", "Failed", "RolledBack"} :
                 [c EXCEPT !.status.update.phase = phase] \in Cluster
<1>1. WithUpdateStatus(c) \in Cluster
  <2>1. [phase |-> "Pending", target |-> c.version, start |-> "recent"] \in UpdateStatus
    BY DEF UpdateStatus, Cluster
  <2>2. \A u \in UpdateStatus : [c EXCEPT !.status.update = u] \in Cluster
    BY DEF Cluster, Status
  <2> QED
    BY <2>1, <2>2 DEF WithUpdateStatus
<1>2. /\ [c EXCEPT !.status.versionValid = "False"] \in Cluster
      /\ [c EXCEPT !.status.scalingAllowed = "False"] \in Cluster
      /\ [c EXCEPT !.finalizer = TRUE] \in Cluster
  BY DEF Cluster, Status
<1>3. ASSUME NEW phase \in {"Paused", "InProgress", "Failed", "RolledBack"}
      PROVE  [c EXCEPT !.status.update.phase = phase] \in Cluster
  BY DEF Cluster, Status, UpdateStatus
<1> QED
  BY <1>1, <1>2, <1>3

LEMMA LocalsEditTypes ==
    ASSUME TypeOK
    PROVE  /\ \A c \in Cluster : [my EXCEPT !.cluster = c] \in Locals
           /\ \A s \in StatefulSet : [my EXCEPT !.sts = s] \in Locals
           /\ \A phase \in {"Paused", "InProgress", "Failed", "RolledBack"} :
                 [my EXCEPT !.cluster.status.update.phase = phase] \in Locals
           /\ \A b \in BOOLEAN : [my EXCEPT !.cluster.status.hpaEnabled = b] \in Locals
<1>1. /\ \A c \in Cluster : [my EXCEPT !.cluster = c] \in Locals
      /\ \A s \in StatefulSet : [my EXCEPT !.sts = s] \in Locals
  BY DEF TypeOK, Locals
<1>2. \A b \in BOOLEAN : [my EXCEPT !.cluster.status.hpaEnabled = b] \in Locals
  BY DEF TypeOK, Locals, Cluster, Status
<1>3. ASSUME NEW phase \in {"Paused", "InProgress", "Failed", "RolledBack"}
      PROVE  [my EXCEPT !.cluster.status.update.phase = phase] \in Locals
  <2>1. [my.cluster EXCEPT !.status.update.phase = phase] \in Cluster
    BY StatusEditTypes DEF TypeOK, Locals
  <2> QED
    BY <2>1 DEF TypeOK, Locals
<1> QED
  BY <1>1, <1>2, <1>3

LEMMA StatusUpdateType ==
    ASSUME TypeOK, NEW c \in Cluster, StatusUpdate(c)
    PROVE  ClusterTyped'
  BY WriteClusterType, KeepTypes DEF StatusUpdate, ClusterTyped

LEMMA RollingUpdateType == TypeOK /\ RollingUpdateStep => TypeOK'
<1> SUFFICES ASSUME TypeOK, RollingUpdateStep PROVE TypeOK'
  OBVIOUS
<1>0. my.cluster \in Cluster /\ my \in Locals /\ sts \in StatefulSet
  BY DEF TypeOK, Locals
<1>1. CASE VersionUpdateRejected
  <2>1. ClusterTyped'
    BY <1>0, <1>1, StatusEditTypes, StatusUpdateType DEF VersionUpdateRejected
  <2>2. WorkerTyped' /\ BudgetTyped'
    BY <1>1, ReturnRequeueType DEF VersionUpdateRejected
  <2> QED
    BY <1>1, <2>1, <2>2, KeepTypes, TypeOKFromParts DEF VersionUpdateRejected
<1>2. CASE HandleRollingUpdate
  <2> DEFINE c == WithUpdateStatus(my.cluster)
  <2>1. c \in Cluster /\ [c EXCEPT !.status.update.phase = "Paused"] \in Cluster
    BY <1>0, StatusEditTypes
  <2>2. [my EXCEPT !.cluster = c] \in Locals
    BY <2>1, LocalsEditTypes
  <2> HIDE DEF c
  <2>3. StsTyped' /\ HpaTyped' /\ OthersTyped'
    BY <1>2, KeepTypes DEF HandleRollingUpdate
  <2>4. CASE Continue("rollback", [my EXCEPT !.cluster = c]) /\ KeepCluster
    BY <2>2, <2>3, <2>4, ContinueType, KeepTypes, TypeOKFromParts DEF Steps
  <2>5. CASE /\ StatusUpdate([c EXCEPT !.status.update.phase = "Paused"])
             /\ ReturnRequeue
    BY <2>1, <2>3, <2>5, StatusUpdateType, ReturnRequeueType, TypeOKFromParts
  <2>6. CASE Continue("patchImage", [my EXCEPT !.cluster = c]) /\ KeepCluster
    BY <2>2, <2>3, <2>6, ContinueType, KeepTypes, TypeOKFromParts DEF Steps
  <2> QED
    BY <1>2, <2>4, <2>5, <2>6 DEF HandleRollingUpdate, c
<1>3. CASE PatchImage
  <2>1. [sts EXCEPT !.image = ImageOf(my.cluster.version)] \in StatefulSet
    BY <1>0 DEF StatefulSet, ImageOf, Image, Cluster
  <2>2. StsTyped'
    BY <1>3, <2>1, WriteStsType DEF PatchImage, StsTyped
  <2>3. WorkerTyped' /\ BudgetTyped'
    BY <1>3, LocalsEditTypes, EventType
       DEF PatchImage, WorkerTyped, BudgetTyped, TypeOK, Steps
  <2> QED
    BY <1>3, <2>2, <2>3, KeepTypes, TypeOKFromParts DEF PatchImage
<1>4. CASE PatchImageFails
  <2>1. WorkerTyped' /\ BudgetTyped'
    BY <1>4, LocalsEditTypes, BudgetType
       DEF PatchImageFails, WorkerTyped, BudgetTyped, TypeOK, Steps
  <2> QED
    BY <1>4, <2>1, KeepTypes, TypeOKFromParts DEF PatchImageFails
<1>5. CASE UpdatePhase
  <2>1. ClusterTyped'
    BY <1>0, <1>5, StatusUpdateType DEF UpdatePhase
  <2> QED
    BY <1>5, <2>1, ReturnRequeueType, KeepTypes, TypeOKFromParts DEF UpdatePhase
<1>6. CASE PerformRollback
  <2>1. RollbackPatch(sts) \in StatefulSet
    BY <1>0 DEF StatefulSet, ImageOf, Image, Locals, found, RollbackPatch
  <2>2. StsTyped'
    BY <1>6, <2>1, WriteStsType DEF PerformRollback, StsTyped
  <2>3. WorkerTyped' /\ BudgetTyped'
    BY <1>6, LocalsEditTypes, EventType
       DEF PerformRollback, WorkerTyped, BudgetTyped, TypeOK, Steps
  <2> QED
    BY <1>6, <2>2, <2>3, KeepTypes, TypeOKFromParts DEF PerformRollback
<1>7. CASE PerformRollbackFails
  <2>1. WorkerTyped' /\ BudgetTyped'
    BY <1>7, LocalsEditTypes, BudgetType
       DEF PerformRollbackFails, WorkerTyped, BudgetTyped, TypeOK, Steps
  <2> QED
    BY <1>7, <2>1, KeepTypes, TypeOKFromParts DEF PerformRollbackFails
<1>8. CASE RecordFailedRollback
  <2>1. ClusterTyped'
    BY <1>0, <1>8, StatusUpdateType DEF RecordFailedRollback
  <2>2. WorkerTyped' /\ BudgetTyped'
    BY <1>0, <1>8, ReturnRequeueType, EventType
       DEF RecordFailedRollback, WorkerTyped, BudgetTyped, TypeOK, Steps
  <2> QED
    BY <1>8, <2>1, <2>2, KeepTypes, TypeOKFromParts DEF RecordFailedRollback
<1> QED
  BY <1>1, <1>2, <1>3, <1>4, <1>5, <1>6, <1>7, <1>8 DEF RollingUpdateStep

\* The bounds that either manager computes.
LEMMA BoundsTypes ==
    ASSUME NEW c \in Cluster, NEW owned \in BOOLEAN
    PROVE  /\ NewHpa(Bounds(c), ScalingManagerMetrics, owned) \in Hpa
           /\ NewHpa(QuorumAwareBounds(c.auto.min, c.auto.max), QuorumAwareMetrics, owned)
                \in Hpa
<1>1. c.auto.min \in Nat /\ c.auto.max \in Nat
  BY ConstantsAssumption DEF Cluster, AutoScaling, NoAutoScaling
<1>2. /\ Bounds(c).min \in Nat /\ Bounds(c).max \in Nat
      /\ QuorumAwareBounds(c.auto.min, c.auto.max).min \in Nat
      /\ QuorumAwareBounds(c.auto.min, c.auto.max).max \in Nat
  BY <1>1 DEF Bounds, ScalingManagerBounds, QuorumAwareBounds, EnsureOdd, IsOdd
<1> QED
  BY <1>2 DEF NewHpa, Hpa, ScalingManagerMetrics, QuorumAwareMetrics

LEMMA AfterScalingType ==
    ASSUME TypeOK, NEW c \in Cluster, NEW created, AfterScaling(c, created)
    PROVE  WorkerTyped' /\ BudgetTyped'
<1>1. WantsHpa(c) \in BOOLEAN
  BY DEF WantsHpa
<1>2. [my EXCEPT !.cluster.status.hpaEnabled = WantsHpa(c)] \in Locals
  BY <1>1, LocalsEditTypes
<1> QED
  BY <1>2, ContinueType, ReturnRequeueType DEF AfterScaling, Steps

LEMMA ReconcileScalingType == TypeOK /\ ReconcileScaling => TypeOK'
<1> SUFFICES ASSUME TypeOK, ReconcileScaling PROVE TypeOK'
  OBVIOUS
<1> DEFINE c == my.cluster
<1>0. c \in Cluster /\ hpa.owned \in BOOLEAN
  BY DEF TypeOK, Locals, Hpa
<1>1. /\ NewHpa(Bounds(c), ScalingManagerMetrics, TRUE) \in Hpa
      /\ NewHpa(Bounds(c), ScalingManagerMetrics, hpa.owned) \in Hpa
      /\ NoHpa \in Hpa
  BY <1>0, BoundsTypes, EmptyObjectTypes
<1> HIDE DEF c
<1>2. HpaTyped' /\ WorkerTyped' /\ BudgetTyped'
  <2>1. CASE CreateHpa(c)
    BY <1>0, <1>1, <2>1, WriteHpaType, AfterScalingType, KeepTypes, ReturnRequeueType
       DEF CreateHpa, ScalingConflict, HpaTyped
  <2>2. CASE UpdateHpa(c)
    BY <1>0, <1>1, <2>2, WriteHpaType, AfterScalingType, KeepTypes, ReturnRequeueType
       DEF UpdateHpa, ScalingConflict, HpaTyped
  <2>3. CASE KeepHpaAsItIs(c)
    BY <1>0, <2>3, AfterScalingType, KeepTypes DEF KeepHpaAsItIs
  <2>4. CASE DeleteHpa(c)
    BY <1>0, <1>1, <2>4, WriteHpaType, AfterScalingType, KeepTypes, ReturnRequeueType
       DEF DeleteHpa, ScalingConflict, HpaTyped
  <2>5. CASE NoHpaToDelete(c)
    BY <1>0, <2>5, AfterScalingType, KeepTypes DEF NoHpaToDelete
  <2> QED
    BY <2>1, <2>2, <2>3, <2>4, <2>5 DEF ReconcileScaling, c
<1> QED
  BY <1>2, KeepTypes, TypeOKFromParts DEF ReconcileScaling

LEMMA QuorumAwareReplicasType ==
    ASSUME NEW c \in Cluster, NEW s \in StatefulSet
    PROVE  QuorumAwareReplicas(c, s) \in Nat
<1>1. c.auto.min \in Nat /\ c.auto.max \in Nat /\ s.replicas \in Nat
  BY ConstantsAssumption DEF Cluster, AutoScaling, NoAutoScaling, StatefulSet
<1> QED
  BY <1>1 DEF QuorumAwareReplicas, CalculateQuorumAwareReplicas, IsOdd

LEMMA QuorumAwareType == TypeOK /\ QuorumAwareStep => TypeOK'
<1> SUFFICES ASSUME TypeOK, QuorumAwareStep PROVE TypeOK'
  OBVIOUS
<1>0. /\ my \in Locals /\ my.cluster \in Cluster /\ hpa.owned \in BOOLEAN
      /\ sts \in StatefulSet /\ seenSts.obj \in StatefulSet
  BY DEF TypeOK, Locals, Hpa, CacheOf
<1>1. CASE CreateOrUpdateHPA
  <2>1. /\ NoHpa \in Hpa
        /\ \A owned \in BOOLEAN :
              NewHpa(QuorumAwareBounds(my.cluster.auto.min, my.cluster.auto.max),
                     QuorumAwareMetrics, owned) \in Hpa
    BY <1>0, BoundsTypes, EmptyObjectTypes
  <2>2. HpaTyped'
    BY <1>0, <1>1, <2>1, WriteHpaType, KeepTypes
       DEF CreateOrUpdateHPA, CleanupHPA, BuildPanics, CreateOrUpdate, HpaTyped
  <2>3. Proceed \/ ReturnRequeue
    BY <1>1 DEF CreateOrUpdateHPA, CleanupHPA, BuildPanics, CreateOrUpdate
  <2>4. WorkerTyped' /\ BudgetTyped'
    BY <1>0, <2>3, ContinueType, ReturnRequeueType DEF Proceed, Steps
  <2> QED
    BY <1>1, <2>2, <2>4, KeepTypes, TypeOKFromParts DEF CreateOrUpdateHPA
<1>2. CASE EvaluateIntelligentScaling
  <2> DEFINE n == QuorumAwareReplicas(my.cluster, seenSts.obj)
  <2>1. n \in Nat
    BY <1>0, QuorumAwareReplicasType
  <2> HIDE DEF n
  <2>2. [sts EXCEPT !.replicas = n] \in StatefulSet
    BY <1>0, <2>1 DEF StatefulSet
  <2>3. CASE KeepSts /\ Continue("updateStatus", my)
    BY <1>0, <1>2, <2>3, ContinueType, KeepTypes, TypeOKFromParts
       DEF EvaluateIntelligentScaling, Steps
  <2>4. CASE /\ WriteSts([sts EXCEPT !.replicas = n])
             /\ pc' = "updateStatus" /\ my' = my /\ EventOf("sts")
             /\ UNCHANGED budget
    <3>1. StsTyped'
      BY <2>2, <2>4, WriteStsType DEF StsTyped
    <3>2. WorkerTyped' /\ BudgetTyped'
      BY <2>4, EventType DEF WorkerTyped, BudgetTyped, TypeOK, Steps
    <3> QED
      BY <1>2, <3>1, <3>2, KeepTypes, TypeOKFromParts DEF EvaluateIntelligentScaling
  <2>5. CASE KeepSts /\ ReturnRequeue
    BY <1>2, <2>5, ReturnRequeueType, KeepTypes, TypeOKFromParts
       DEF EvaluateIntelligentScaling
  <2> QED
    BY <1>2, <2>3, <2>4, <2>5 DEF EvaluateIntelligentScaling, n
<1> QED
  BY <1>1, <1>2 DEF QuorumAwareStep

LEMMA ReportedStatusType ==
    ASSUME NEW c \in Cluster, NEW s \in StatefulSet, NEW healthy \in BOOLEAN
    PROVE  [c EXCEPT !.status = ReportedStatus(c, s, healthy)] \in Cluster
<1>1. ReportedStatus(c, s, healthy) \in Status
  <2> DEFINE progress == IF Rolling(s) THEN "RollingUpdate"
                         ELSE IF s.pods # c.size THEN "Scaling"
                         ELSE IF s.ready < c.size THEN "WaitingForPods"
                         ELSE "Stable"
  <2>1. progress \in {"RollingUpdate", "Scaling", "WaitingForPods", "Stable"}
    OBVIOUS
  <2>2. (s.ready >= c.size) \in BOOLEAN
    OBVIOUS
  <2>3. \A a \in BOOLEAN,
          p \in {"RollingUpdate", "Scaling", "WaitingForPods", "Stable"} :
          [c.status EXCEPT !.available = a, !.progressing = p,
                           !.scalingAllowed = "True", !.leaderHealthy = healthy]
            \in Status
    BY DEF Cluster, Status
  <2> HIDE DEF progress
  <2>4. [c.status EXCEPT !.available = (s.ready >= c.size), !.progressing = progress,
                         !.scalingAllowed = "True", !.leaderHealthy = healthy]
          \in Status
    BY <2>1, <2>2, <2>3, Zenon
  <2> QED
    BY <2>4 DEF ReportedStatus, progress
<1> QED
  BY <1>1 DEF Cluster

LEMMA ReconcileType == TypeOK /\ Reconcile => TypeOK'
<1> SUFFICES ASSUME TypeOK, Reconcile PROVE TypeOK'
  OBVIOUS
<1>0. /\ my \in Locals /\ my.cluster \in Cluster /\ my.sts \in StatefulSet
      /\ sts \in StatefulSet /\ seenSts.obj \in StatefulSet
      /\ seenCluster.obj \in Cluster /\ seenCluster.current \in BOOLEAN
  BY DEF TypeOK, Locals, CacheOf
<1>1. CASE ReconcileStarts
  <2>1. [cluster |-> seenCluster.obj, fresh |-> seenCluster.current,
         sts |-> NoStatefulSet] \in Locals
    BY <1>0, EmptyObjectTypes DEF Locals
  <2>2. WorkerTyped' /\ BudgetTyped'
    BY <1>1, <2>1
       DEF ReconcileStarts, FirstStep, WorkerTyped, BudgetTyped, TypeOK, Steps
  <2> QED
    BY <1>1, <2>2, KeepTypes, TypeOKFromParts DEF ReconcileStarts
<1>2. CASE RemoveFinalizer
  <2>1. ClusterTyped'
    BY <1>2, EmptyObjectTypes, WriteClusterType, KeepTypes
       DEF RemoveFinalizer, ClusterTyped
  <2>2. WorkerTyped' /\ BudgetTyped'
    BY <1>2, EmptyObjectTypes, EventType, ReturnRequeueType
       DEF RemoveFinalizer, WorkerTyped, BudgetTyped, TypeOK, Steps
  <2> QED
    BY <1>2, <2>1, <2>2, KeepTypes, TypeOKFromParts DEF RemoveFinalizer
<1>3. CASE AddFinalizer
  <2>1. [my.cluster EXCEPT !.finalizer = TRUE] \in Cluster
    BY <1>0, StatusEditTypes
  <2>2. ClusterTyped'
    BY <1>3, <2>1, WriteClusterType, KeepTypes DEF AddFinalizer, ClusterTyped
  <2> QED
    BY <1>3, <2>2, ReturnRequeueType, KeepTypes, TypeOKFromParts DEF AddFinalizer
<1>4. CASE ReconcileServices
  <2>1. OthersTyped'
    BY <1>4 DEF ReconcileServices, OthersTyped, TypeOK
  <2>2. WorkerTyped' /\ BudgetTyped'
    BY <1>0, <1>4, ContinueType, ReturnRequeueType DEF ReconcileServices, Steps
  <2> QED
    BY <1>4, <2>1, <2>2, KeepTypes, TypeOKFromParts DEF ReconcileServices
<1>5. CASE ReconcileStatefulSet
  <2>1. NewStatefulSet(DesiredReplicas(my.cluster), ImageOf(my.cluster.version))
          \in StatefulSet
    BY <1>0, NewStatefulSetType DEF DesiredReplicas, Cluster
  <2>2. StsTyped'
    BY <1>5, <2>1, WriteStsType, KeepTypes DEF ReconcileStatefulSet, CreateStatefulSet, StsTyped
  <2>3. [my EXCEPT !.sts = seenSts.obj] \in Locals
    BY <1>0, LocalsEditTypes
  <2>4. \/ ReturnRequeue
        \/ \E step \in {"rollingUpdate", "scalingManager"} :
              Continue(step, [my EXCEPT !.sts = seenSts.obj])
    BY <1>5 DEF ReconcileStatefulSet, CreateStatefulSet
  <2>5. WorkerTyped' /\ BudgetTyped'
    BY <2>3, <2>4, ContinueType, ReturnRequeueType DEF Steps
  <2> QED
    BY <1>5, <2>2, <2>5, KeepTypes, TypeOKFromParts DEF ReconcileStatefulSet
<1>6. CASE ReplicasMatch
  <2>1. WorkerTyped' /\ BudgetTyped'
    BY <1>0, <1>6, ContinueType DEF ReplicasMatch, Steps
  <2> QED
    BY <1>6, <2>1, KeepTypes, TypeOKFromParts DEF ReplicasMatch
<1>7. CASE ScalingBlocked
  <2>1. [my.cluster EXCEPT !.status.scalingAllowed = "False"] \in Cluster
    BY <1>0, StatusEditTypes
  <2>2. ClusterTyped'
    BY <1>7, <2>1, StatusUpdateType DEF ScalingBlocked
  <2> QED
    BY <1>7, <2>2, ReturnRequeueType, KeepTypes, TypeOKFromParts DEF ScalingBlocked
<1>8. CASE PatchReplicas
  <2>1. [sts EXCEPT !.replicas = my.cluster.size] \in StatefulSet
    BY <1>0 DEF StatefulSet, Cluster
  <2>2. StsTyped'
    BY <1>8, <2>1, WriteStsType DEF PatchReplicas, StsTyped
  <2> QED
    BY <1>8, <2>2, ReturnRequeueType, KeepTypes, TypeOKFromParts DEF PatchReplicas
<1>9. CASE ReconcilePdb
  <2>1. OthersTyped'
    BY <1>0, <1>9
       DEF ReconcilePdb, OthersTyped, TypeOK, PodDisruptionBudgetFor, QuorumOf, Cluster
  <2>2. WorkerTyped' /\ BudgetTyped'
    BY <1>0, <1>9, ContinueType, ReturnRequeueType DEF ReconcilePdb, Steps
  <2> QED
    BY <1>9, <2>1, <2>2, KeepTypes, TypeOKFromParts DEF ReconcilePdb
<1>10. CASE FinishReconcile
  <2> PICK healthy \in LeaderHealth(my.sts), contactChanged \in BOOLEAN :
        LET c == [my.cluster EXCEPT
                    !.status = ReportedStatus(my.cluster, my.sts, healthy)]
        IN  IF my.fresh
            THEN /\ WriteCluster(c)
                 /\ pc' = "idle" /\ my' = NoLocals /\ UNCHANGED budget
                 /\ queued' = (queued \/ contactChanged
                               \/ (c # cluster /\ "cluster" \notin Lagging))
            ELSE KeepCluster /\ ReturnRequeue
    BY <1>10 DEF FinishReconcile
  <2> DEFINE c == [my.cluster EXCEPT
                    !.status = ReportedStatus(my.cluster, my.sts, healthy)]
  <2>1. c \in Cluster
    BY <1>0, ReportedStatusType DEF LeaderHealth
  <2> HIDE DEF c
  <2>2. CASE my.fresh
    <3>1. ClusterTyped'
      BY <2>1, <2>2, WriteClusterType DEF ClusterTyped, c
    <3>2. (queued \/ contactChanged \/ (c # cluster /\ "cluster" \notin Lagging))
            \in BOOLEAN
      BY Zenon
    <3>3. WorkerTyped' /\ BudgetTyped'
      BY <2>2, <3>2, EmptyObjectTypes DEF WorkerTyped, BudgetTyped, TypeOK, Steps, c
    <3> QED
      BY <1>10, <3>1, <3>3, KeepTypes, TypeOKFromParts DEF FinishReconcile
  <2>3. CASE ~my.fresh
    BY <1>10, <2>3, ReturnRequeueType, KeepTypes, TypeOKFromParts DEF FinishReconcile
  <2> QED
    BY <2>2, <2>3
<1> QED
  BY <1>1, <1>2, <1>3, <1>4, <1>5, <1>6, <1>7, <1>8, <1>9, <1>10,
     RollingUpdateType, ReconcileScalingType, QuorumAwareType DEF Reconcile

LEMMA FailureType == TypeOK /\ (ApiError \/ OperatorRestarts) => TypeOK'
<1> SUFFICES ASSUME TypeOK, ApiError \/ OperatorRestarts PROVE TypeOK'
  OBVIOUS
<1>1. WorkerTyped' /\ BudgetTyped'
  BY EmptyObjectTypes, BudgetType
     DEF ApiError, OperatorRestarts, WorkerTyped, BudgetTyped, TypeOK, Steps
<1>2. ClusterTyped' /\ StsTyped' /\ HpaTyped' /\ OthersTyped'
  <2>1. CASE ApiError
    BY <2>1, KeepTypes DEF ApiError
  <2>2. CASE OperatorRestarts
    BY <2>2 DEF OperatorRestarts, TypeOK, ClusterTyped, StsTyped, HpaTyped,
                OthersTyped, Cached, CacheOf
  <2> QED
    BY <2>1, <2>2
<1> QED
  BY <1>1, <1>2, TypeOKFromParts

LEMMA InitType == Init => TypeOK
<1> SUFFICES ASSUME Init PROVE TypeOK
  OBVIOUS
<1>1. cluster \in Cluster
  <2> PICK size \in Sizes, version \in Versions, auto \in AutoConfigs :
        cluster = [GoneCluster EXCEPT !.state = "live", !.size = size,
                                      !.version = version, !.auto = auto]
    BY DEF Init
  <2> QED
    BY EmptyObjectTypes, ConstantsAssumption DEF Cluster
<1>2. budget \in Budget
  BY ConstantsAssumption DEF Init, Budget
<1> QED
  BY <1>1, <1>2, EmptyObjectTypes DEF Init, TypeOK, Cached, CacheOf, Steps

LEMMA StepType == TypeOK /\ [Next]_vars => TypeOK'
<1>1. TypeOK /\ UNCHANGED vars => TypeOK'
  BY DEF vars, TypeOK
<1> QED
  BY <1>1, ReconcileType, FailureType, EnvironmentType DEF Next

\* In every behaviour every object, cache and local of the model holds a value
\* of its kind: no step of Reconcile writes an object the API server's schema
\* would refuse (negative replica counts, unknown update phases).
THEOREM TypeCorrect == Spec => []TypeOK
  BY InitType, StepType, PTL DEF Spec

-----------------------------------------------------------------------------
(* The finalizer protocol *)

FinalizerInv == TypeOK /\ FinalizerProtectsCluster

LEMMA InitFinalizer == Init => FinalizerProtectsCluster
<1> SUFFICES ASSUME Init PROVE FinalizerProtectsCluster
  OBVIOUS
<1>1. seenCluster = Cached(cluster) /\ pc = "idle"
  BY DEF Init
<1>2. ~cluster.finalizer
  BY DEF Init, GoneCluster
<1> QED
  BY <1>1, <1>2 DEF FinalizerProtectsCluster, Cached, WorkSteps

-----------------------------------------------------------------------------
(* Steps of the environment *)

\* The worker does not move, and the cluster and its copies do not change.
Elsewhere == UNCHANGED <<cluster, seenCluster, pc, my>>

LEMMA ElsewhereFinalizer ==
    FinalizerProtectsCluster /\ Elsewhere => FinalizerProtectsCluster'
  BY DEF FinalizerProtectsCluster, Elsewhere

\* What a write of the cluster leaves in its cache.
LEMMA WriteClusterCache ==
    ASSUME FinalizerInv, NEW c \in Cluster, WriteCluster(c)
    PROVE  /\ cluster' = c
           /\ seenCluster'.obj = seenCluster.obj \/ seenCluster'.obj = c
           /\ seenCluster'.current => seenCluster'.obj = c
           /\ c = cluster => seenCluster' = seenCluster
<1>1. CASE c = cluster
  BY <1>1 DEF WriteCluster, Behind, FinalizerInv, FinalizerProtectsCluster
<1>2. CASE c # cluster /\ "cluster" \in Lagging
  BY <1>2 DEF WriteCluster, Behind, FinalizerInv, TypeOK, CacheOf
<1>3. CASE c # cluster /\ "cluster" \notin Lagging
  BY <1>3 DEF WriteCluster, Behind, Cached
<1> QED
  BY <1>1, <1>2, <1>3

\* An edit neither removes the finalizer nor lets a finalized cluster go.
LEMMA EditFinalizer ==
    ASSUME FinalizerInv, NEW c \in Cluster, Edit(c),
           cluster.finalizer => c.finalizer /\ c.state # "gone",
           c.state = "live" /\ c.finalizer => cluster.finalizer
    PROVE  FinalizerProtectsCluster'
<1>1. WriteCluster(c) /\ pc' = pc /\ my' = [my EXCEPT !.fresh = FALSE]
  BY DEF Edit
<1>2. my'.cluster = my.cluster /\ my'.fresh = FALSE
  BY <1>1 DEF FinalizerInv, TypeOK, Locals
<1>3. /\ cluster' = c
      /\ seenCluster'.obj = seenCluster.obj \/ seenCluster'.obj = c
      /\ seenCluster'.current => seenCluster'.obj = c
  BY <1>1, WriteClusterCache
<1> QED
  BY <1>1, <1>2, <1>3 DEF FinalizerProtectsCluster, WorkSteps, FinalizerInv

LEMMA UsersFinalizer == FinalizerInv /\ Users => FinalizerProtectsCluster'
<1> SUFFICES ASSUME FinalizerInv, Users PROVE FinalizerProtectsCluster'
  OBVIOUS
<1>0. cluster \in Cluster
  BY DEF FinalizerInv, TypeOK
<1>live. \A c : Edit(c) => cluster.state = "live"
  BY DEF Edit
<1>1. CASE UserSetsSize
  <2> PICK n \in Sizes : Edit([cluster EXCEPT !.size = n])
    BY <1>1 DEF UserSetsSize
  <2>1. [cluster EXCEPT !.size = n] \in Cluster
    BY <1>0, ConstantsAssumption DEF Cluster
  <2> QED
    BY <1>0, <1>live, <2>1, EditFinalizer DEF Cluster
<1>2. CASE UserSetsVersion
  <2> PICK v \in Versions : Edit([cluster EXCEPT !.version = v])
    BY <1>2 DEF UserSetsVersion
  <2>1. [cluster EXCEPT !.version = v] \in Cluster
    BY <1>0 DEF Cluster
  <2> QED
    BY <1>0, <1>live, <2>1, EditFinalizer DEF Cluster
<1>3. CASE UserSetsAutoScaling
  <2> PICK a \in AutoConfigs : Edit([cluster EXCEPT !.auto = a])
    BY <1>3 DEF UserSetsAutoScaling
  <2>1. [cluster EXCEPT !.auto = a] \in Cluster
    BY <1>0 DEF Cluster
  <2> QED
    BY <1>0, <1>live, <2>1, EditFinalizer DEF Cluster
<1>4. CASE UserTogglesOverride
  <2>1. [cluster EXCEPT !.override = ~@] \in Cluster
    BY <1>0 DEF Cluster
  <2> QED
    BY <1>0, <1>4, <1>live, <2>1, EditFinalizer DEF UserTogglesOverride, Cluster
<1>5. CASE UserTogglesRestore
  <2>1. [cluster EXCEPT !.restore = ~@] \in Cluster
    BY <1>0 DEF Cluster
  <2> QED
    BY <1>0, <1>5, <1>live, <2>1, EditFinalizer DEF UserTogglesRestore, Cluster
<1>6. CASE UserDeletes
  <2>1. CASE cluster.finalizer
    <3>1. [cluster EXCEPT !.state = "deleting"] \in Cluster
      BY <1>0 DEF Cluster
    <3> QED
      BY <1>0, <1>6, <2>1, <3>1, EditFinalizer DEF UserDeletes, Cluster
  <2>2. CASE ~cluster.finalizer
    BY <1>6, <2>2, EmptyObjectTypes, EditFinalizer DEF UserDeletes, GoneCluster
  <2> QED
    BY <2>1, <2>2
<1>7. CASE UserMirrorsImage
  BY <1>7, ElsewhereFinalizer DEF UserMirrorsImage, Elsewhere, KeepCluster, FinalizerInv
<1> QED
  BY <1>1, <1>2, <1>3, <1>4, <1>5, <1>6, <1>7 DEF Users

LEMMA EnvironmentFinalizer == FinalizerInv /\ Environment => FinalizerProtectsCluster'
<1> SUFFICES ASSUME FinalizerInv, Environment PROVE FinalizerProtectsCluster'
  OBVIOUS
<1>1. CASE SyncCluster
  BY <1>1 DEF SyncCluster, FinalizerInv, FinalizerProtectsCluster, Cached, WorkSteps
<1>2. CASE SyncSts \/ SyncHpa
  BY <1>2, ElsewhereFinalizer DEF SyncSts, SyncHpa, Elsewhere, FinalizerInv
<1>3. CASE Workload
  <2>1. Elsewhere
    BY <1>3 DEF Workload, StsObserves, PodBecomesReady, PodFails, RolloutReplacesPod,
                RolloutReplacesStuckPod, RolloutCompletes, StsStatus, KeepCluster, Elsewhere
  <2> QED
    BY <2>1, ElsewhereFinalizer DEF FinalizerInv
<1>4. CASE HpaScales \/ GarbageCollects
  BY <1>4, ElsewhereFinalizer DEF HpaScales, GarbageCollects, KeepCluster, Elsewhere, FinalizerInv
<1>5. CASE UpdateTimeoutElapses
  <2>1. \A c \in Cluster : Aged(c).state = c.state /\ Aged(c).finalizer = c.finalizer
    BY DEF Aged, Cluster
  <2>2. /\ cluster \in Cluster /\ seenCluster.obj \in Cluster /\ my.cluster \in Cluster
        /\ cluster' = Aged(cluster) /\ seenCluster'.obj = Aged(seenCluster.obj)
        /\ seenCluster'.current = seenCluster.current
        /\ my'.cluster = Aged(my.cluster) /\ my'.fresh = my.fresh /\ pc' = pc
    BY <1>5 DEF UpdateTimeoutElapses, FinalizerInv, TypeOK, CacheOf, Locals
  <2> QED
    BY <2>1, <2>2 DEF FinalizerInv, FinalizerProtectsCluster, WorkSteps
<1> QED
  BY <1>1, <1>2, <1>3, <1>4, <1>5, UsersFinalizer DEF Environment, Informers

-----------------------------------------------------------------------------
(* Steps of the worker *)

\* A step after the finalizer was seen: the call goes on with a cluster in the
\* same state, or ends; what it writes is the cluster it holds, but for status.
WorkStep ==
    /\ pc \in WorkSteps /\ pc' \in WorkSteps \cup {"idle"}
    /\ pc' # "idle" => /\ my'.cluster.state = my.cluster.state
                       /\ my'.cluster.finalizer = my.cluster.finalizer
    /\ \/ KeepCluster
       \/ \E c \in Cluster : /\ c.state = my.cluster.state
                            /\ c.finalizer = my.cluster.finalizer
                            /\ c.size = my.cluster.size
                            /\ WriteCluster(c)

LEMMA WorkStepFinalizer == FinalizerInv /\ WorkStep => FinalizerProtectsCluster'
<1> SUFFICES ASSUME FinalizerInv, WorkStep PROVE FinalizerProtectsCluster'
  OBVIOUS
<1>1. my.cluster.state = "live" /\ my.cluster.finalizer
  BY DEF WorkStep, FinalizerInv, FinalizerProtectsCluster
<1>2. CASE KeepCluster
  BY <1>1, <1>2 DEF WorkStep, KeepCluster, FinalizerInv, FinalizerProtectsCluster, WorkSteps
<1>3. ASSUME NEW c \in Cluster, c.state = my.cluster.state,
             c.finalizer = my.cluster.finalizer, WriteCluster(c)
      PROVE  FinalizerProtectsCluster'
  BY <1>1, <1>3, WriteClusterCache DEF WorkStep, FinalizerProtectsCluster, WorkSteps
<1> QED
  BY <1>2, <1>3 DEF WorkStep

LEMMA ReconcileStartsFinalizer ==
    FinalizerInv /\ ReconcileStarts => FinalizerProtectsCluster'
<1> SUFFICES ASSUME FinalizerInv, ReconcileStarts PROVE FinalizerProtectsCluster'
  OBVIOUS
<1> DEFINE first == FirstStep(seenCluster.obj)
<1>1. cluster' = cluster /\ seenCluster' = seenCluster /\ pc = "idle"
  BY DEF ReconcileStarts, KeepCluster
<1>2. CASE first \in {"idle", "requeue"}
  BY <1>1, <1>2 DEF ReconcileStarts, FinalizerInv, FinalizerProtectsCluster, WorkSteps
<1>3. CASE first \notin {"idle", "requeue"}
  <2>1. pc' = first /\ my'.cluster = seenCluster.obj /\ my'.fresh = seenCluster.current
    BY <1>3 DEF ReconcileStarts
  <2>2. /\ first = "removeFinalizer" => seenCluster.obj.state = "deleting"
        /\ first = "addFinalizer" => seenCluster.obj.state = "live"
        /\ first \in WorkSteps => seenCluster.obj.state = "live" /\ seenCluster.obj.finalizer
    BY <1>3 DEF FirstStep, WorkSteps, FinalizerInv, TypeOK, CacheOf, Cluster
  <2> QED
    BY <1>1, <2>1, <2>2 DEF FinalizerInv, FinalizerProtectsCluster
<1> QED
  BY <1>2, <1>3

LEMMA RemoveFinalizerFinalizer ==
    FinalizerInv /\ RemoveFinalizer => FinalizerProtectsCluster'
<1> SUFFICES ASSUME FinalizerInv, RemoveFinalizer PROVE FinalizerProtectsCluster'
  OBVIOUS
<1>1. pc = "removeFinalizer" /\ pc' = "idle"
  BY DEF RemoveFinalizer, ReturnRequeue
<1>2. CASE my.fresh
  <2>1. seenCluster.obj.state = "deleting"
    BY <1>1, <1>2 DEF FinalizerInv, FinalizerProtectsCluster
  <2>2. WriteCluster(GoneCluster) /\ GoneCluster \in Cluster
    BY <1>2, EmptyObjectTypes DEF RemoveFinalizer
  <2>3. /\ cluster' = GoneCluster
        /\ seenCluster'.obj = seenCluster.obj \/ seenCluster'.obj = GoneCluster
        /\ seenCluster'.current => seenCluster'.obj = GoneCluster
    BY <2>2, WriteClusterCache
  <2>4. GoneCluster.state = "gone"
    BY DEF GoneCluster
  <2> QED
    BY <1>1, <2>1, <2>3, <2>4 DEF FinalizerProtectsCluster, WorkSteps
<1>3. CASE ~my.fresh
  BY <1>1, <1>3 DEF RemoveFinalizer, KeepCluster, FinalizerInv, FinalizerProtectsCluster, WorkSteps
<1> QED
  BY <1>2, <1>3

LEMMA AddFinalizerFinalizer ==
    FinalizerInv /\ AddFinalizer => FinalizerProtectsCluster'
<1> SUFFICES ASSUME FinalizerInv, AddFinalizer PROVE FinalizerProtectsCluster'
  OBVIOUS
<1>1. pc = "addFinalizer" /\ pc' = "idle"
  BY DEF AddFinalizer, ReturnRequeue
<1>2. CASE my.fresh
  <2> DEFINE c == [my.cluster EXCEPT !.finalizer = TRUE]
  <2>1. my.cluster \in Cluster
    BY DEF FinalizerInv, TypeOK, Locals
  <2>2. c \in Cluster /\ c.state = my.cluster.state /\ c.finalizer = TRUE
    BY <2>1, StatusEditTypes DEF Cluster
  <2>3. WriteCluster(c)
    BY <1>2 DEF AddFinalizer
  <2> HIDE DEF c
  <2>4. /\ cluster' = c
        /\ seenCluster'.current => seenCluster'.obj = c
    BY <2>2, <2>3, WriteClusterCache
  <2> QED
    BY <1>1, <1>2, <2>2, <2>4 DEF FinalizerInv, FinalizerProtectsCluster, WorkSteps
<1>3. CASE ~my.fresh
  BY <1>1, <1>3 DEF AddFinalizer, KeepCluster, FinalizerInv, FinalizerProtectsCluster, WorkSteps
<1> QED
  BY <1>2, <1>3

\* StatusUpdate with a copy that differs from the call's cluster in status.
LEMMA StatusUpdateWrites ==
    ASSUME NEW c \in Cluster, c.state = my.cluster.state,
           c.finalizer = my.cluster.finalizer, c.size = my.cluster.size, StatusUpdate(c)
    PROVE  \/ KeepCluster
           \/ \E d \in Cluster : /\ d.state = my.cluster.state
                                /\ d.finalizer = my.cluster.finalizer
                                /\ d.size = my.cluster.size
                                /\ WriteCluster(d)
  BY DEF StatusUpdate

\* Changes of status keep the state, the finalizer and the size.
LEMMA StatusEditsKeepFinalizer ==
    ASSUME NEW c \in Cluster
    PROVE  /\ WithUpdateStatus(c).state = c.state
           /\ WithUpdateStatus(c).finalizer = c.finalizer
           /\ WithUpdateStatus(c).size = c.size
           /\ \A st : /\ [c EXCEPT !.status = st].state = c.state
                     /\ [c EXCEPT !.status = st].finalizer = c.finalizer
                     /\ [c EXCEPT !.status = st].size = c.size
           /\ \A v : /\ [c EXCEPT !.status.versionValid = v].state = c.state
                    /\ [c EXCEPT !.status.versionValid = v].finalizer = c.finalizer
                    /\ [c EXCEPT !.status.versionValid = v].size = c.size
                    /\ [c EXCEPT !.status.scalingAllowed = v].state = c.state
                    /\ [c EXCEPT !.status.scalingAllowed = v].finalizer = c.finalizer
                    /\ [c EXCEPT !.status.scalingAllowed = v].size = c.size
                    /\ [c EXCEPT !.status.hpaEnabled = v].state = c.state
                    /\ [c EXCEPT !.status.hpaEnabled = v].finalizer = c.finalizer
                    /\ [c EXCEPT !.status.hpaEnabled = v].size = c.size
           /\ \A p : /\ [c EXCEPT !.status.update.phase = p].state = c.state
                    /\ [c EXCEPT !.status.update.phase = p].finalizer = c.finalizer
                    /\ [c EXCEPT !.status.update.phase = p].size = c.size
  BY DEF Cluster, WithUpdateStatus

LEMMA RollingUpdateWorks == FinalizerInv /\ RollingUpdateStep => WorkStep
<1> SUFFICES ASSUME FinalizerInv, RollingUpdateStep PROVE WorkStep
  OBVIOUS
<1>0. my \in Locals /\ my.cluster \in Cluster
  BY DEF FinalizerInv, TypeOK, Locals
<1>1. CASE VersionUpdateRejected
  <2> DEFINE c == [my.cluster EXCEPT !.status.versionValid = "False"]
  <2>1. /\ c \in Cluster /\ c.state = my.cluster.state
        /\ c.finalizer = my.cluster.finalizer /\ c.size = my.cluster.size
    BY <1>0, StatusEditTypes, StatusEditsKeepFinalizer
  <2>2. StatusUpdate(c) /\ pc = "rollingUpdate" /\ pc' = "idle"
    BY <1>1 DEF VersionUpdateRejected, ReturnRequeue
  <2> HIDE DEF c
  <2> QED
    BY <2>1, <2>2, StatusUpdateWrites DEF WorkStep, WorkSteps, Steps
<1>2. CASE HandleRollingUpdate
  <2> DEFINE c == WithUpdateStatus(my.cluster)
             d == [c EXCEPT !.status.update.phase = "Paused"]
  <2>1. /\ c \in Cluster /\ c.state = my.cluster.state
        /\ c.finalizer = my.cluster.finalizer /\ c.size = my.cluster.size
    BY <1>0, StatusEditTypes, StatusEditsKeepFinalizer
  <2>2. /\ d \in Cluster /\ d.state = my.cluster.state
        /\ d.finalizer = my.cluster.finalizer /\ d.size = my.cluster.size
    <3> HIDE DEF c
    <3> QED
      BY <2>1, StatusEditTypes, StatusEditsKeepFinalizer
  <2>3. [my EXCEPT !.cluster = c].cluster = c
    BY <1>0 DEF Locals
  <2> HIDE DEF c, d
  <2>4. /\ pc = "rollingUpdate"
        /\ \/ KeepCluster /\ pc' \in {"rollback", "patchImage"} /\ my' = [my EXCEPT !.cluster = c]
           \/ StatusUpdate(d) /\ pc' = "idle"
    BY <1>2 DEF HandleRollingUpdate, Continue, ReturnRequeue, c, d
  <2>5. CASE /\ KeepCluster /\ pc' \in {"rollback", "patchImage"}
             /\ my' = [my EXCEPT !.cluster = c]
    BY <2>1, <2>3, <2>4, <2>5 DEF WorkStep, WorkSteps, Steps
  <2>6. CASE StatusUpdate(d) /\ pc' = "idle"
    BY <2>2, <2>4, <2>6, StatusUpdateWrites DEF WorkStep, WorkSteps, Steps
  <2> QED
    BY <2>4, <2>5, <2>6
<1>3. CASE PatchImage \/ PatchImageFails \/ PerformRollback \/ PerformRollbackFails
  <2>1. /\ KeepCluster /\ pc \in {"patchImage", "rollback"}
        /\ pc' \in {"updatePhase", "rollbackFailed"}
        /\ \E p : my' = [my EXCEPT !.cluster.status.update.phase = p]
    BY <1>3 DEF PatchImage, PatchImageFails, PerformRollback, PerformRollbackFails
  <2>2. PICK p : my' = [my EXCEPT !.cluster.status.update.phase = p]
    BY <2>1
  <2>3. LET m == [my EXCEPT !.cluster.status.update.phase = p]
        IN  /\ m.cluster.state = my.cluster.state
            /\ m.cluster.finalizer = my.cluster.finalizer
    BY <1>0 DEF Locals, Cluster
  <2>4. /\ my'.cluster.state = my.cluster.state
        /\ my'.cluster.finalizer = my.cluster.finalizer
    BY <2>2, <2>3, Zenon
  <2> QED
    BY <2>1, <2>4 DEF WorkStep, WorkSteps, Steps
<1>4. CASE UpdatePhase \/ RecordFailedRollback
  <2>1. /\ StatusUpdate(my.cluster) /\ pc \in {"updatePhase", "rollbackFailed"}
        /\ pc' = "idle" \/ (pc' = "scalingManager" /\ my' = my)
    BY <1>4 DEF UpdatePhase, RecordFailedRollback, ReturnRequeue
  <2> QED
    BY <1>0, <2>1, StatusUpdateWrites DEF WorkStep, WorkSteps, Steps
<1> QED
  BY <1>1, <1>2, <1>3, <1>4 DEF RollingUpdateStep

LEMMA ScalingWorks ==
    FinalizerInv /\ (ReconcileScaling \/ QuorumAwareStep) => WorkStep
<1> SUFFICES ASSUME FinalizerInv, ReconcileScaling \/ QuorumAwareStep PROVE WorkStep
  OBVIOUS
<1>0. my \in Locals /\ my.cluster \in Cluster
  BY DEF FinalizerInv, TypeOK, Locals
<1>1. CASE ReconcileScaling
  <2>1. pc = "scalingManager" /\ KeepCluster
    BY <1>1 DEF ReconcileScaling
  <2>2. ReturnRequeue \/ \E created \in BOOLEAN : AfterScaling(my.cluster, created)
    BY <1>1 DEF ReconcileScaling, CreateHpa, UpdateHpa, KeepHpaAsItIs, DeleteHpa,
                NoHpaToDelete, ScalingConflict
  <2>3. \/ pc' = "idle"
        \/ /\ pc' = "replicas"
           /\ my' = [my EXCEPT !.cluster.status.hpaEnabled = WantsHpa(my.cluster)]
    BY <2>2 DEF AfterScaling, ReturnRequeue, Continue
  <2>4. CASE pc' = "idle"
    BY <2>1, <2>4 DEF WorkStep, WorkSteps, Steps
  <2>5. CASE /\ pc' = "replicas"
             /\ my' = [my EXCEPT !.cluster.status.hpaEnabled = WantsHpa(my.cluster)]
    <3>1. \A w : LET m == [my EXCEPT !.cluster.status.hpaEnabled = w]
                IN  /\ m.cluster.state = my.cluster.state
                    /\ m.cluster.finalizer = my.cluster.finalizer
      BY <1>0 DEF Locals, Cluster
    <3>2. /\ my'.cluster.state = my.cluster.state
          /\ my'.cluster.finalizer = my.cluster.finalizer
      BY <2>5, <3>1, Zenon
    <3> QED
      BY <2>1, <2>5, <3>2 DEF WorkStep, WorkSteps, Steps
  <2> QED
    BY <2>3, <2>4, <2>5
<1>2. CASE QuorumAwareStep
  <2>1. /\ KeepCluster /\ pc \in {"quorumAwareHpa", "evaluateScaling"}
        /\ \/ pc' = "idle"
           \/ pc' \in {"evaluateScaling", "updateStatus"} /\ my' = my
    BY <1>2 DEF QuorumAwareStep, CreateOrUpdateHPA, EvaluateIntelligentScaling, CleanupHPA,
                BuildPanics, CreateOrUpdate, Proceed, Continue, ReturnRequeue
  <2> QED
    BY <2>1 DEF WorkStep, WorkSteps, Steps
<1> QED
  BY <1>1, <1>2

LEMMA OtherStepsWork ==
    FinalizerInv /\ (\/ ReconcileServices \/ ReconcileStatefulSet \/ ReplicasMatch
            \/ ScalingBlocked \/ PatchReplicas \/ ReconcilePdb \/ FinishReconcile)
    => WorkStep
<1> SUFFICES ASSUME FinalizerInv,
                    \/ ReconcileServices \/ ReconcileStatefulSet \/ ReplicasMatch
                    \/ ScalingBlocked \/ PatchReplicas \/ ReconcilePdb \/ FinishReconcile
             PROVE  WorkStep
  OBVIOUS
<1>0. my \in Locals /\ my.cluster \in Cluster /\ my.sts \in StatefulSet
  BY DEF FinalizerInv, TypeOK, Locals
<1>1. CASE ReconcileServices \/ ReplicasMatch \/ PatchReplicas \/ ReconcilePdb
  <2>1. /\ KeepCluster /\ pc \in {"services", "replicas", "pdb"}
        /\ \/ pc' = "idle"
           \/ pc' \in {"statefulSet", "pdb", "quorumAwareHpa"} /\ my' = my
    BY <1>1 DEF ReconcileServices, ReplicasMatch, PatchReplicas, ReconcilePdb,
                Continue, ReturnRequeue
  <2> QED
    BY <2>1 DEF WorkStep, WorkSteps, Steps
<1>2. CASE ReconcileStatefulSet
  <2>1. /\ KeepCluster /\ pc = "statefulSet"
        /\ \/ pc' = "idle"
           \/ /\ pc' \in {"rollingUpdate", "scalingManager"}
              /\ my' = [my EXCEPT !.sts = seenSts.obj]
    BY <1>2 DEF ReconcileStatefulSet, CreateStatefulSet, Continue, ReturnRequeue
  <2>2. [my EXCEPT !.sts = seenSts.obj].cluster = my.cluster
    BY <1>0 DEF Locals
  <2> QED
    BY <2>1, <2>2 DEF WorkStep, WorkSteps, Steps
<1>3. CASE ScalingBlocked
  <2> DEFINE c == [my.cluster EXCEPT !.status.scalingAllowed = "False"]
  <2>1. /\ c \in Cluster /\ c.state = my.cluster.state
        /\ c.finalizer = my.cluster.finalizer /\ c.size = my.cluster.size
    BY <1>0, StatusEditTypes, StatusEditsKeepFinalizer
  <2>2. StatusUpdate(c) /\ pc = "replicas" /\ pc' = "idle"
    BY <1>3 DEF ScalingBlocked, ReturnRequeue
  <2> HIDE DEF c
  <2> QED
    BY <2>1, <2>2, StatusUpdateWrites DEF WorkStep, WorkSteps, Steps
<1>4. CASE FinishReconcile
  <2>1. /\ pc = "updateStatus" /\ pc' = "idle"
        /\ \/ KeepCluster
           \/ \E healthy \in LeaderHealth(my.sts) :
                 WriteCluster([my.cluster EXCEPT
                    !.status = ReportedStatus(my.cluster, my.sts, healthy)])
    BY <1>4 DEF FinishReconcile, ReturnRequeue
  <2>2. ASSUME NEW healthy \in LeaderHealth(my.sts)
        PROVE  LET c == [my.cluster EXCEPT
                          !.status = ReportedStatus(my.cluster, my.sts, healthy)]
               IN  /\ c \in Cluster
                   /\ c.state = my.cluster.state /\ c.finalizer = my.cluster.finalizer
                   /\ c.size = my.cluster.size
    BY <1>0, ReportedStatusType, StatusEditsKeepFinalizer DEF LeaderHealth
  <2> QED
    BY <2>1, <2>2 DEF WorkStep, WorkSteps, Steps
<1> QED
  BY <1>1, <1>2, <1>3, <1>4

LEMMA FailureFinalizer ==
    FinalizerInv /\ (ApiError \/ OperatorRestarts) => FinalizerProtectsCluster'
<1> SUFFICES ASSUME FinalizerInv, ApiError \/ OperatorRestarts PROVE FinalizerProtectsCluster'
  OBVIOUS
<1>1. CASE ApiError
  BY <1>1 DEF ApiError, KeepCluster, FinalizerInv, FinalizerProtectsCluster, WorkSteps
<1>2. CASE OperatorRestarts
  BY <1>2 DEF OperatorRestarts, Cached, FinalizerInv, FinalizerProtectsCluster, WorkSteps
<1> QED
  BY <1>1, <1>2

LEMMA StepInv == FinalizerInv /\ [Next]_vars => FinalizerInv'
<1> SUFFICES ASSUME FinalizerInv, [Next]_vars PROVE FinalizerInv'
  OBVIOUS
<1>1. TypeOK'
  BY StepType DEF FinalizerInv
<1>2. CASE UNCHANGED vars
  BY <1>2 DEF vars, FinalizerInv, FinalizerProtectsCluster, TypeOK
<1>3. CASE Reconcile
  BY <1>1, <1>3, ReconcileStartsFinalizer, RemoveFinalizerFinalizer, AddFinalizerFinalizer,
     RollingUpdateWorks, ScalingWorks, OtherStepsWork, WorkStepFinalizer DEF Reconcile, FinalizerInv
<1>4. CASE ApiError \/ OperatorRestarts
  BY <1>1, <1>4, FailureFinalizer DEF FinalizerInv
<1>5. CASE Environment
  BY <1>1, <1>5, EnvironmentFinalizer DEF FinalizerInv
<1> QED
  BY <1>2, <1>3, <1>4, <1>5 DEF Next

-----------------------------------------------------------------------------

\* While the operator works for a cluster, or is about to, the cluster still
\* has the finalizer that Reconcile put on it.
THEOREM FinalizerAlwaysProtects == Spec => []FinalizerProtectsCluster
<1>1. Init => FinalizerInv
  BY InitType, InitFinalizer DEF FinalizerInv
<1>2. FinalizerInv => FinalizerProtectsCluster
  BY DEF FinalizerInv
<1> QED
  BY <1>1, <1>2, StepInv, PTL DEF Spec

\* Once the cluster is gone no step of the operator writes anything: not the
\* cluster, whose removal a stale copy could undo, nor an object of it.
THEOREM NothingForGoneCluster == Spec => NothingDoneForGoneCluster
<1> DEFINE Written == <<cluster, sts, hpa, pdb, services>>
           Act == cluster.state = "gone" /\ pc # pc' => UNCHANGED Written
<1>1. Init => FinalizerInv
  BY InitType, InitFinalizer DEF FinalizerInv
<1>2. FinalizerInv /\ [Next]_vars => [Act]_vars
  <2> SUFFICES ASSUME FinalizerInv, Next, cluster.state = "gone", pc # pc'
               PROVE  UNCHANGED Written
    BY DEF vars
  <2>1. pc \notin WorkSteps
    BY DEF FinalizerInv, FinalizerProtectsCluster
  <2>2. CASE ReconcileStarts
    BY <2>2 DEF ReconcileStarts, KeepCluster, KeepSts, KeepHpa, KeepOthers
  <2>3. CASE RemoveFinalizer \/ AddFinalizer
    <3>1. ~my.fresh
      BY <2>3 DEF RemoveFinalizer, AddFinalizer, FinalizerInv, FinalizerProtectsCluster
    <3> QED
      BY <2>3, <3>1 DEF RemoveFinalizer, AddFinalizer, KeepCluster, KeepSts, KeepHpa, KeepOthers
  <2>4. CASE ApiError \/ OperatorRestarts
    BY <2>4 DEF ApiError, OperatorRestarts, KeepCluster, KeepSts, KeepHpa, KeepOthers
  <2>5. ~Environment
    BY DEF Environment, Informers, SyncCluster, SyncSts, SyncHpa, Users, UserSetsSize,
           UserSetsVersion, UserSetsAutoScaling, UserTogglesOverride, UserTogglesRestore,
           UserDeletes, UserMirrorsImage, Edit, Workload, StsObserves, PodBecomesReady,
           PodFails, RolloutReplacesPod, RolloutReplacesStuckPod, RolloutCompletes,
           StsStatus, HpaScales, GarbageCollects, UpdateTimeoutElapses
  <2>6. CASE Reconcile
    BY <2>1, <2>2, <2>3, <2>6, RollingUpdateWorks, ScalingWorks, OtherStepsWork
       DEF Reconcile, WorkStep
  <2> QED
    BY <2>4, <2>5, <2>6 DEF Next
<1> QED
  BY <1>1, <1>2, StepInv, PTL DEF Spec, NothingDoneForGoneCluster
=============================================================================
