--------------------------- MODULE ScaleDown_proofs --------------------------
(***************************************************************************)
(* The quorum rule of validateScalingOperation, proved for any sizes, any  *)
(* lag of the caches and any auto-scaling settings: the operator decides   *)
(* on a copy of the StatefulSet, and where it breaks the rule an event of  *)
(* the StatefulSet is queued or still to be delivered.                     *)
(***************************************************************************)
EXTENDS Quiescence_proofs

-----------------------------------------------------------------------------
(* The two steps that lower the replica count *)

\* Unless an event is queued or due, the copy the patch was decided on is the
\* StatefulSet it changes.
LEMMA PatchKeepsRule ==
    ASSUME IInv, PatchReplicas, ~queued, seenSts.current, ~my.cluster.override,
           sts'.replicas < sts.replicas
    PROVE  ValidateQuorumRequirements(sts.replicas, sts'.replicas)
<1>1. my.sts = sts
  BY DEF PatchReplicas, IInv, CallIsOnCourse, SnapshotIsCurrent, AfterRead, AfterUpdate
<1>2. sts'.replicas = my.cluster.size
  BY DEF PatchReplicas, WriteSts, IInv, FinalizerInv, TypeOK, StatefulSet
<1>3. sts.replicas \in Nat /\ my.cluster.size \in Nat
  BY DEF IInv, FinalizerInv, TypeOK, Locals, Cluster, StatefulSet
<1> QED
  BY <1>1, <1>2, <1>3 DEF PatchReplicas, ScalingAllowed

\* The correction is refused unless it was decided on the StatefulSet as it is,
\* and the odd count next to an even one is a quorum of it.
LEMMA CorrectionKeepsRule ==
    ASSUME IInv, EvaluateIntelligentScaling, sts'.replicas < sts.replicas
    PROVE  ValidateQuorumRequirements(sts.replicas, sts'.replicas)
<1>1. TypeOK /\ StsCacheFollows /\ my.cluster \in Cluster /\ sts \in StatefulSet
  BY DEF IInv, FinalizerInv, CallIsOnCourse, TypeOK, Locals
<1> DEFINE n == QuorumAwareReplicas(my.cluster, seenSts.obj)
           c == my.cluster
<1>2. sts.replicas \in Nat
  BY <1>1 DEF StatefulSet
<1>3. n # seenSts.obj.replicas /\ seenSts.current /\ sts' = [sts EXCEPT !.replicas = n]
  <2>1. ~KeepSts
    BY <1>2 DEF KeepSts
  <2> QED
    BY <2>1 DEF EvaluateIntelligentScaling, WriteSts
<1>4. seenSts.obj = sts
  BY <1>1, <1>3 DEF StsCacheFollows
<1>5. sts'.replicas = n
  BY <1>1, <1>3 DEF StatefulSet
<1>6. /\ c.auto.enabled /\ sts.exists /\ sts.replicas > 0 /\ ~IsOdd(sts.replicas)
      /\ n = CalculateQuorumAwareReplicas(sts.replicas,
                 IF c.auto.hpa = "absent" THEN 3 ELSE c.auto.min,
                 IF c.auto.hpa = "absent" THEN 9 ELSE c.auto.max)
  BY <1>3, <1>4 DEF QuorumAwareReplicas
<1>7. c.auto \in AutoConfigs
  BY <1>1, <1>6 DEF Cluster, NoAutoScaling
<1>8. c.auto.min \in Nat /\ c.auto.max \in Nat
  BY <1>7, ConstantsAssumption DEF AutoScaling
<1>9. c.auto.hpa # "absent" => c.auto.min >= 3
  BY <1>7, ConstantsAssumption
<1> HIDE DEF n, c
<1>10. ValidateQuorumRequirements(sts.replicas, n)
  <2>1. CASE c.auto.hpa = "absent"
    BY <1>2, <1>6, <2>1, CorrectionIsSafe
  <2>2. CASE c.auto.hpa # "absent"
    BY <1>2, <1>6, <1>8, <1>9, <2>2, CorrectionIsSafe
  <2> QED
    BY <2>1, <2>2
<1> QED
  BY <1>5, <1>10

\* No other step of the operator lowers the replica count.
LEMMA OthersKeepReplicas ==
    ASSUME TypeOK, Next, pc # pc', sts.exists, sts'.exists
    PROVE  \/ PatchReplicas \/ EvaluateIntelligentScaling
           \/ sts'.replicas = sts.replicas
<1>1. sts \in StatefulSet
  BY DEF TypeOK
<1>2. CASE Environment
  BY <1>2 DEF Environment, Informers, SyncCluster, SyncSts, SyncHpa, Users,
         UserSetsSize, UserSetsVersion, UserSetsAutoScaling, UserTogglesOverride,
         UserTogglesRestore, UserDeletes, UserMirrorsImage, Edit, Workload, StsObserves,
         PodBecomesReady, PodFails, RolloutReplacesPod, RolloutReplacesStuckPod,
         RolloutCompletes, StsStatus, HpaScales, GarbageCollects, UpdateTimeoutElapses
<1>3. CASE RollingUpdateStep
  BY <1>1, <1>3 DEF RollingUpdateStep, VersionUpdateRejected, HandleRollingUpdate,
         PatchImage, PatchImageFails, UpdatePhase, PerformRollback, PerformRollbackFails,
         RollbackPatch, RecordFailedRollback, KeepSts, WriteSts, StatefulSet
<1>4. CASE ReconcileStatefulSet
  BY <1>4 DEF ReconcileStatefulSet, CreateStatefulSet, KeepSts, WriteSts
<1>5. CASE \/ ReconcileStarts \/ RemoveFinalizer \/ AddFinalizer \/ ReconcileServices
         \/ ReconcileScaling \/ ReplicasMatch \/ ScalingBlocked \/ ReconcilePdb
         \/ CreateOrUpdateHPA \/ FinishReconcile \/ ApiError \/ OperatorRestarts
  BY <1>5 DEF ReconcileStarts, RemoveFinalizer, AddFinalizer, ReconcileServices,
       ReconcileScaling, ReplicasMatch, ScalingBlocked, ReconcilePdb,
       CreateOrUpdateHPA, FinishReconcile, ApiError, OperatorRestarts, KeepSts
<1> QED
  BY <1>2, <1>3, <1>4, <1>5 DEF Next, Reconcile, QuorumAwareStep

-----------------------------------------------------------------------------

\* Every decrease of the replica count by the operator satisfies the rule of
\* ValidateQuorumRequirements for the count the StatefulSet has then, or the
\* StatefulSet was changed since the call read it and the controller will
\* hear of it, or the override annotation was set.
THEOREM QuorumIsBrokenOnlyUnseen == Spec => OnlyUnseenChangesBreakQuorum
<1> DEFINE Act == /\ pc # pc'
                  /\ sts.exists /\ sts'.exists /\ sts'.replicas < sts.replicas
                  /\ ~my.cluster.override
                  => \/ ValidateQuorumRequirements(sts.replicas, sts'.replicas)
                     \/ queued \/ ~seenSts.current
<1>1. IInv /\ [Next]_vars => [Act]_vars
  <2> SUFFICES ASSUME IInv, [Next]_vars, pc # pc', sts.exists, sts'.exists,
                      sts'.replicas < sts.replicas, ~my.cluster.override
               PROVE  \/ ValidateQuorumRequirements(sts.replicas, sts'.replicas)
                      \/ queued \/ ~seenSts.current
    BY Zenon
  <2>1. Next /\ TypeOK /\ sts.replicas \in Nat
    BY DEF vars, IInv, FinalizerInv, TypeOK, StatefulSet
  <2>2. PatchReplicas \/ EvaluateIntelligentScaling
    BY <2>1, OthersKeepReplicas
  <2> QED
    BY <2>2, PatchKeepsRule, CorrectionKeepsRule
<1> QED
  BY <1>1, AlwaysIInv, PTL DEF Spec, OnlyUnseenChangesBreakQuorum
=============================================================================
