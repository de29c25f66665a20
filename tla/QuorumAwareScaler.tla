------------------------- MODULE QuorumAwareScaler --------------------------
(***************************************************************************)
(* internal/managers/quorum_aware_scaler.go: the second manager of the HPA *)
(* and the correction of even replica counts.                              *)
(***************************************************************************)
EXTENDS ClusterState

\* The call proceeds to the next step, or fails on a conflict.
Proceed == Continue("evaluateScaling", my)

\* CreateOrUpdateHPA looks at autoScaling.enabled, not at hpa.enabled.
CleanupHPA ==
    /\ ~my.cluster.auto.enabled
    /\ WriteHpa(NoHpa)
    /\ Proceed

\* buildQuorumAwareHPA dereferences the absent HPA section: the panic is
\* recovered and returned as an error.
BuildPanics ==
    /\ my.cluster.auto.enabled /\ my.cluster.auto.hpa = "absent"
    /\ KeepHpa
    /\ ReturnRequeue

\* buildMetrics: requests per second besides CPU and memory, so the
\* ScalingManager never finds this HPA equal to its own.
QuorumAwareMetrics == 3

CreateOrUpdate ==
    /\ my.cluster.auto.enabled /\ my.cluster.auto.hpa # "absent"
    /\ LET bounds == QuorumAwareBounds(my.cluster.auto.min, my.cluster.auto.max)
       IN  \/ /\ ~seenHpa.obj.exists /\ ~hpa.exists
              /\ WriteHpa(NewHpa(bounds, QuorumAwareMetrics, FALSE)) /\ Proceed
           \/ /\ seenHpa.obj.exists /\ seenHpa.current
              /\ WriteHpa(NewHpa(bounds, QuorumAwareMetrics, hpa.owned)) /\ Proceed
           \/ /\ IF seenHpa.obj.exists THEN ~seenHpa.current ELSE hpa.exists
              /\ KeepHpa /\ ReturnRequeue

CreateOrUpdateHPA ==
    /\ pc = "quorumAwareHpa"
    /\ CleanupHPA \/ BuildPanics \/ CreateOrUpdate
    /\ KeepCluster /\ KeepSts /\ KeepOthers

\* Mutant: spec.size is looked at instead of the replica count.
QuorumAwareReplicas_OfSpec(c, s) ==
    IF c.auto.enabled /\ s.exists /\ ~IsOdd(c.size)
    THEN CalculateQuorumAwareReplicas(s.replicas, c.auto.min, c.auto.max)
    ELSE s.replicas

\* EvaluateIntelligentScaling: the count it wants instead of the one it reads.
QuorumAwareReplicas(c, s) ==
    IF c.auto.enabled /\ s.exists /\ s.replicas > 0 /\ ~IsOdd(s.replicas)
    THEN CalculateQuorumAwareReplicas(
            s.replicas,
            IF c.auto.hpa = "absent" THEN 3 ELSE c.auto.min,
            IF c.auto.hpa = "absent" THEN 9 ELSE c.auto.max)
    ELSE s.replicas

EvaluateIntelligentScaling ==
    /\ pc = "evaluateScaling"
    /\ LET n == QuorumAwareReplicas(my.cluster, seenSts.obj)
       IN  \/ /\ n = seenSts.obj.replicas
              /\ KeepSts
              /\ Continue("updateStatus", my)
           \/ /\ n # seenSts.obj.replicas /\ seenSts.current
              /\ WriteSts([sts EXCEPT !.replicas = n])
              /\ pc' = "updateStatus" /\ my' = my /\ EventOf("sts")
              /\ UNCHANGED budget
           \/ /\ n # seenSts.obj.replicas /\ ~seenSts.current
              /\ KeepSts
              /\ ReturnRequeue
    /\ KeepCluster /\ KeepHpa /\ KeepOthers

QuorumAwareStep == CreateOrUpdateHPA \/ EvaluateIntelligentScaling
=============================================================================
