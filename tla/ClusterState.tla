---------------------------- MODULE ClusterState ----------------------------
(***************************************************************************)
(* The Kubernetes objects one RqliteCluster consists of, the informer      *)
(* caches the operator reads them through, the state of the operator's     *)
(* single worker for this cluster, and the actors outside the operator:    *)
(* users, the StatefulSet controller, kubelets, the HPA controller, the    *)
(* garbage collector.  The operator's own steps are in the modules         *)
(* RollingUpdateManager, ScalingManager, QuorumAwareScaler and             *)
(* ClusterReconciler, which extend this one.                               *)
(*                                                                         *)
(* A controller-runtime client reads from a cache and writes to the API    *)
(* server.  Create fails if the object exists, Update and Status().Update  *)
(* fail if the object changed since it was read, Patch(MergeFrom) never    *)
(* conflicts.  The kinds in Lagging have a cache that may fall behind.     *)
(***************************************************************************)
EXTENDS ScalingRules

CONSTANTS
    Sizes,             \* values users give to spec.size
    Versions,          \* values users give to spec.version
    InvalidVersions,   \* those that are not semantic versions
    BrokenVersions,    \* those whose image cannot be pulled
    AutoConfigs,       \* values users give to spec.autoScaling
    RollbackOnFailure, \* spec.updateStrategy.rollingUpdate.rollbackOnFailure
    UserOps,           \* the kinds of edits users make
    Lagging,           \* the kinds whose informer cache may be stale
    MaxEdits,          \* bound: edits made by users
    MaxFaults,         \* bound: failed API calls and operator restarts
    MaxDisruptions     \* bound: pods that fail, and decisions of the HPA

VARIABLES
    cluster,      \* the RqliteCluster: metadata, spec and status
    sts,          \* its StatefulSet: spec, status, and what its pods do
    hpa,          \* the HorizontalPodAutoscaler <cluster>-hpa
    pdb,          \* maxUnavailable of the PodDisruptionBudget, 0: no budget
    services,     \* which of the two services exist
    seenCluster, seenSts, seenHpa,   \* the informer caches of three kinds
    queued,       \* the workqueue holds (or will hold) a request
    pc,           \* the step of Reconcile the worker is at
    my,           \* the variables of the running Reconcile call
    budget        \* how much of the bounds is used up

vars == <<cluster, sts, hpa, pdb, services, seenCluster, seenSts, seenHpa,
          queued, pc, my, budget>>

-----------------------------------------------------------------------------
(* Object types *)

NoVersion == "none"

AutoScaling == [enabled : BOOLEAN, hpa : {"absent", "disabled", "enabled"},
                min : Nat, max : Nat, storage : BOOLEAN]

NoAutoScaling == [enabled |-> FALSE, hpa |-> "absent", min |-> 0, max |-> 0,
                  storage |-> FALSE]

ASSUME ConstantsAssumption ==
    /\ Sizes \subseteq Nat \ {0}                   \* CRD: minimum 1
    /\ NoVersion \notin Versions
    /\ InvalidVersions \subseteq Versions
    /\ BrokenVersions \subseteq Versions
    /\ AutoConfigs \subseteq AutoScaling
    /\ \A a \in AutoConfigs :                      \* CRD: minimum 3, defaulted
          a.hpa # "absent" => a.min >= 3 /\ a.max >= 3
    /\ RollbackOnFailure \in BOOLEAN
    /\ Lagging \subseteq {"cluster", "sts", "hpa"}
    /\ MaxEdits \in Nat /\ MaxFaults \in Nat /\ MaxDisruptions \in Nat

\* status.updateStatus; phase "None" is the nil pointer.  start is whether
\* StartTime is further back than the update timeout.
UpdateStatus ==
    [phase : {"None", "Pending", "Paused", "InProgress", "Failed", "RolledBack"},
     target : Versions \cup {NoVersion},
     start : {"unset", "recent", "old"}]

NoUpdate == [phase |-> "None", target |-> NoVersion, start |-> "unset"]

\* The conditions and fields of status that a property refers to.
Status ==
    [available : BOOLEAN,
     progressing : {"None", "RollingUpdate", "Scaling", "WaitingForPods", "Stable"},
     scalingAllowed : {"None", "True", "False"},
     versionValid : {"None", "False"},
     leaderHealthy : BOOLEAN,
     hpaEnabled : BOOLEAN,
     update : UpdateStatus]

NewStatus ==
    [available |-> FALSE, progressing |-> "None", scalingAllowed |-> "None",
     versionValid |-> "None", leaderHealthy |-> FALSE, hpaEnabled |-> FALSE,
     update |-> NoUpdate]

\* override and restore are the annotations scaling-override and
\* restore-in-progress.
Cluster ==
    [state : {"live", "deleting", "gone"}, finalizer : BOOLEAN, size : Nat,
     version : Versions \cup {NoVersion}, auto : AutoConfigs \cup {NoAutoScaling},
     override : BOOLEAN, restore : BOOLEAN, status : Status]

GoneCluster ==
    [state |-> "gone", finalizer |-> FALSE, size |-> 0, version |-> NoVersion,
     auto |-> NoAutoScaling, override |-> FALSE, restore |-> FALSE,
     status |-> NewStatus]

\* A container image: the repository the operator uses, or another one.
Image == [repo : {"rqlite/rqlite", "mirror"}, tag : Versions \cup {NoVersion}]

ImageOf(version) == [repo |-> "rqlite/rqlite", tag |-> version]

\* spec: replicas, image.  status: pods (status.replicas), ready, and the
\* images of the current and the update revision.  stuck: one pod waits in
\* ImagePullBackOff.
StatefulSet ==
    [exists : BOOLEAN, replicas : Nat, image : Image, pods : Nat, ready : Nat,
     currentRevision : Image, updateRevision : Image, stuck : BOOLEAN]

NewStatefulSet(replicas, image) ==
    [exists |-> TRUE, replicas |-> replicas, image |-> image, pods |-> 0,
     ready |-> 0, currentRevision |-> image, updateRevision |-> image,
     stuck |-> FALSE]

NoStatefulSet ==
    [NewStatefulSet(0, ImageOf(NoVersion)) EXCEPT !.exists = FALSE]

\* metrics: how many it scales on.  owned: the object carries an owner
\* reference to the cluster.
Hpa == [exists : BOOLEAN, min : Nat, max : Nat, metrics : Nat, owned : BOOLEAN]

NewHpa(bounds, metrics, owned) ==
    [exists |-> TRUE, min |-> bounds.min, max |-> bounds.max,
     metrics |-> metrics, owned |-> owned]

NoHpa == [exists |-> FALSE, min |-> 0, max |-> 0, metrics |-> 0, owned |-> FALSE]

\* A cached copy; current: it is the latest version of the object.
CacheOf(Kind) == [obj : Kind, current : BOOLEAN]

Cached(o) == [obj |-> o, current |-> TRUE]

\* The steps of Reconcile: each is one API write, with the reads before it.
Steps == {"idle", "removeFinalizer", "addFinalizer", "services", "statefulSet",
          "rollingUpdate", "rollback", "patchImage", "updatePhase",
          "rollbackFailed", "scalingManager", "replicas", "pdb",
          "quorumAwareHpa", "evaluateScaling", "updateStatus"}

\* fresh: the cluster was not written since this call read it, so an Update
\* of it will not conflict.
Locals == [cluster : Cluster, fresh : BOOLEAN, sts : StatefulSet]

NoLocals == [cluster |-> GoneCluster, fresh |-> FALSE, sts |-> NoStatefulSet]

Budget == [edits : 0..MaxEdits, faults : 0..MaxFaults,
           disruptions : 0..MaxDisruptions]

\* Every object, cache and local holds a value of its kind.
TypeOK ==
    /\ cluster \in Cluster /\ seenCluster \in CacheOf(Cluster)
    /\ sts \in StatefulSet /\ seenSts \in CacheOf(StatefulSet)
    /\ hpa \in Hpa /\ seenHpa \in CacheOf(Hpa)
    /\ pdb \in Nat
    /\ services \subseteq {"headless", "client"}
    /\ queued \in BOOLEAN
    /\ pc \in Steps
    /\ my \in Locals
    /\ budget \in Budget

Init ==
    /\ \E size \in Sizes, version \in Versions, auto \in AutoConfigs :
          cluster = [GoneCluster EXCEPT !.state = "live", !.size = size,
                                        !.version = version, !.auto = auto]
    /\ seenCluster = Cached(cluster)
    /\ sts = NoStatefulSet /\ seenSts = Cached(NoStatefulSet)
    /\ hpa = NoHpa /\ seenHpa = Cached(NoHpa)
    /\ pdb = 0 /\ services = {}
    /\ queued = TRUE /\ pc = "idle" /\ my = NoLocals
    /\ budget = [edits |-> 0, faults |-> 0, disruptions |-> 0]

-----------------------------------------------------------------------------
(* Writes to the API server.  A write that changes nothing makes no new    *)
(* version.  The cache of a kind that does not lag follows at once.        *)

Behind(kind, cache, old, new) ==
    IF new = old THEN cache
    ELSE IF kind \in Lagging THEN [cache EXCEPT !.current = FALSE]
    ELSE Cached(new)

WriteCluster(c) ==
    /\ cluster' = c
    /\ seenCluster' = Behind("cluster", seenCluster, cluster, c)

WriteSts(s) ==
    /\ sts' = s
    /\ seenSts' = Behind("sts", seenSts, sts, s)

WriteHpa(h) ==
    /\ hpa' = h
    /\ seenHpa' = Behind("hpa", seenHpa, hpa, h)

KeepCluster == UNCHANGED <<cluster, seenCluster>>
KeepSts == UNCHANGED <<sts, seenSts>>
KeepHpa == UNCHANGED <<hpa, seenHpa>>
KeepOthers == UNCHANGED <<pdb, services>>

\* A delivered event of a watched kind (the cluster, or an object it owns)
\* puts the cluster's request in the queue.
EventOf(kind) == queued' = (queued \/ kind \notin Lagging)

-----------------------------------------------------------------------------
(* Informers deliver what a lagging cache misses.  The controller watches  *)
(* clusters and owned StatefulSets; an HPA is cached but causes no request.*)

SyncCluster ==
    /\ ~seenCluster.current
    /\ seenCluster' = Cached(cluster) /\ queued' = TRUE
    /\ UNCHANGED <<cluster, sts, hpa, pdb, services, seenSts, seenHpa, pc, my, budget>>

SyncSts ==
    /\ ~seenSts.current
    /\ seenSts' = Cached(sts) /\ queued' = TRUE
    /\ UNCHANGED <<cluster, sts, hpa, pdb, services, seenCluster, seenHpa, pc, my, budget>>

SyncHpa ==
    /\ ~seenHpa.current
    /\ seenHpa' = Cached(hpa)
    /\ UNCHANGED <<cluster, sts, hpa, pdb, services, seenCluster, seenSts, queued,
                   pc, my, budget>>

Informers == SyncCluster \/ SyncSts \/ SyncHpa

-----------------------------------------------------------------------------
(* Users.  An edit makes the copy held by a running Reconcile stale.       *)

Edit(c) ==
    /\ cluster.state = "live"
    /\ budget.edits < MaxEdits
    /\ budget' = [budget EXCEPT !.edits = @ + 1]
    /\ c # cluster
    /\ WriteCluster(c)
    /\ my' = [my EXCEPT !.fresh = FALSE]
    /\ EventOf("cluster")
    /\ KeepSts /\ KeepHpa /\ KeepOthers
    /\ UNCHANGED pc

UserSetsSize ==
    "size" \in UserOps /\ \E n \in Sizes : Edit([cluster EXCEPT !.size = n])

UserSetsVersion ==
    "version" \in UserOps /\ \E v \in Versions : Edit([cluster EXCEPT !.version = v])

UserSetsAutoScaling ==
    "auto" \in UserOps /\ \E a \in AutoConfigs : Edit([cluster EXCEPT !.auto = a])

UserTogglesOverride ==
    "override" \in UserOps /\ Edit([cluster EXCEPT !.override = ~@])

UserTogglesRestore ==
    "restore" \in UserOps /\ Edit([cluster EXCEPT !.restore = ~@])

\* The finalizer keeps a deleted cluster until the operator removes it.
UserDeletes ==
    /\ "delete" \in UserOps
    /\ Edit(IF cluster.finalizer THEN [cluster EXCEPT !.state = "deleting"]
                                 ELSE GoneCluster)

\* Somebody points the StatefulSet at a copy of the image elsewhere.
UserMirrorsImage ==
    /\ "mirror" \in UserOps
    /\ sts.exists /\ sts.image.repo # "mirror"
    /\ budget.edits < MaxEdits
    /\ budget' = [budget EXCEPT !.edits = @ + 1]
    /\ WriteSts([sts EXCEPT !.image.repo = "mirror"])
    /\ EventOf("sts")
    /\ KeepCluster /\ KeepHpa /\ KeepOthers
    /\ UNCHANGED <<pc, my>>

Users == \/ UserSetsSize \/ UserSetsVersion \/ UserSetsAutoScaling
         \/ UserTogglesOverride \/ UserTogglesRestore \/ UserDeletes
         \/ UserMirrorsImage

-----------------------------------------------------------------------------
(* The StatefulSet controller and the kubelets.  Pods are managed in       *)
(* parallel; a rollout replaces them one at a time and stops at a pod that *)
(* does not become ready.                                                  *)

StsStatus(s) ==
    /\ sts.exists
    /\ WriteSts(s)
    /\ EventOf("sts")
    /\ KeepCluster /\ KeepHpa /\ KeepOthers
    /\ UNCHANGED <<pc, my>>

Rolling(s) == s.currentRevision # s.updateRevision

Unpullable(image) == image.tag \in BrokenVersions

\* How many of the pods can be ready at all.
Startable(s) ==
    IF Unpullable(s.currentRevision) /\ Unpullable(s.updateRevision) THEN 0
    ELSE IF s.stuck THEN s.pods - 1 ELSE s.pods

\* The controller adopts the spec: creates missing pods, deletes the highest
\* ordinals (a stuck pod is the highest), and computes the update revision.
StsObserves ==
    /\ sts.pods # sts.replicas \/ sts.updateRevision # sts.image
    /\ \E r \in 0..sts.ready :
          /\ r <= sts.replicas
          /\ r >= sts.ready - (IF sts.pods > sts.replicas
                                 THEN sts.pods - sts.replicas ELSE 0)
          /\ StsStatus([sts EXCEPT !.pods = sts.replicas, !.ready = r,
                                   !.updateRevision = sts.image,
                                   !.stuck = @ /\ sts.pods <= sts.replicas])
    /\ UNCHANGED budget

PodBecomesReady ==
    /\ sts.ready < Startable(sts)
    /\ StsStatus([sts EXCEPT !.ready = @ + 1])
    /\ UNCHANGED budget

PodFails ==
    /\ sts.ready > 0
    /\ budget.disruptions < MaxDisruptions
    /\ budget' = [budget EXCEPT !.disruptions = @ + 1]
    /\ StsStatus([sts EXCEPT !.ready = @ - 1])

\* The rollout takes the next pod down.  A pod of an image that cannot be
\* pulled stays down and stops the rollout.
RolloutReplacesPod ==
    /\ Rolling(sts) /\ sts.pods > 0 /\ sts.ready = sts.pods
    /\ ~Unpullable(sts.currentRevision)
    /\ StsStatus([sts EXCEPT !.ready = @ - 1, !.stuck = Unpullable(sts.updateRevision)])
    /\ UNCHANGED budget

\* With a pullable update revision the stuck pod is deleted and recreated.
RolloutReplacesStuckPod ==
    /\ sts.stuck /\ ~Unpullable(sts.updateRevision)
    /\ StsStatus([sts EXCEPT !.stuck = FALSE])
    /\ UNCHANGED budget

RolloutCompletes ==
    /\ Rolling(sts) /\ ~Unpullable(sts.updateRevision) /\ ~sts.stuck
    /\ sts.ready = sts.pods /\ sts.pods = sts.replicas
    /\ StsStatus([sts EXCEPT !.currentRevision = sts.updateRevision])
    /\ UNCHANGED budget

Workload == \/ StsObserves \/ PodBecomesReady \/ PodFails \/ RolloutReplacesPod
            \/ RolloutReplacesStuckPod \/ RolloutCompletes

-----------------------------------------------------------------------------
(* Other Kubernetes controllers, and time *)

\* The HPA controller scales the StatefulSet within the bounds of the HPA.
HpaScales ==
    /\ hpa.exists /\ sts.exists
    /\ budget.disruptions < MaxDisruptions
    /\ budget' = [budget EXCEPT !.disruptions = @ + 1]
    /\ \E n \in hpa.min..hpa.max :
          n # sts.replicas /\ WriteSts([sts EXCEPT !.replicas = n])
    /\ EventOf("sts")
    /\ KeepCluster /\ KeepHpa /\ KeepOthers
    /\ UNCHANGED <<pc, my>>

\* Objects owned by a cluster that is gone are deleted.
GarbageCollects ==
    /\ cluster.state = "gone"
    /\ sts.exists \/ pdb # 0 \/ services # {} \/ (hpa.exists /\ hpa.owned)
    /\ WriteSts(NoStatefulSet)
    /\ WriteHpa(IF hpa.owned THEN NoHpa ELSE hpa)
    /\ pdb' = 0 /\ services' = {}
    /\ EventOf("sts")
    /\ KeepCluster
    /\ UNCHANGED <<pc, my, budget>>

\* The update timeout passes: every copy of StartTime is now too old.
Aged(c) ==
    [c EXCEPT !.status.update.start = IF @ = "unset" THEN @ ELSE "old"]

UpdateTimeoutElapses ==
    /\ RollbackOnFailure
    /\ "recent" \in {cluster.status.update.start, seenCluster.obj.status.update.start,
                     my.cluster.status.update.start}
    /\ cluster' = Aged(cluster) /\ seenCluster' = [seenCluster EXCEPT !.obj = Aged(@)]
    /\ my' = [my EXCEPT !.cluster = Aged(@)]
    /\ UNCHANGED <<sts, hpa, pdb, services, seenSts, seenHpa, queued, pc, budget>>

Environment == \/ Informers \/ Users \/ Workload \/ HpaScales
               \/ GarbageCollects \/ UpdateTimeoutElapses

-----------------------------------------------------------------------------
(* Control of a Reconcile call, used by the operator's modules *)

\* Proceed to the next step of the same call.
Continue(step, locals) == pc' = step /\ my' = locals /\ UNCHANGED <<queued, budget>>

\* Return.  An error, Requeue and RequeueAfter all bring the request back:
\* only the delay differs.
ReturnRequeue == pc' = "idle" /\ my' = NoLocals /\ queued' = TRUE /\ UNCHANGED budget

HpaManaged(c) == c.auto.enabled /\ c.auto.hpa = "enabled"
=============================================================================
