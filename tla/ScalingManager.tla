--------------------------- MODULE ScalingManager ---------------------------
(***************************************************************************)
(* internal/managers/scaling_manager.go, ReconcileScaling: the first of    *)
(* the two managers that maintain the HPA, and the storage expansion.      *)
(***************************************************************************)
EXTENDS ClusterState

\* ReconcileScaling looks at hpa.enabled, not at autoScaling.enabled.
WantsHpa(c) == c.auto.hpa = "enabled"

Bounds(c) == ScalingManagerBounds(c.auto.min, c.auto.max)

\* buildHPA: the CPU and memory targets, which the CRD defaults; no custom
\* metrics are modelled.
ScalingManagerMetrics == 2

HpaSpecsEqual(h, bounds) ==
    h.min = bounds.min /\ h.max = bounds.max /\ h.metrics = ScalingManagerMetrics

\* What follows the HPA part.  The storage part ends every call in which it
\* is enabled, a created HPA ends it too.
AfterScaling(c, created) ==
    IF c.auto.storage \/ created
    THEN ReturnRequeue
    ELSE Continue("replicas",
                  [my EXCEPT !.cluster.status.hpaEnabled = WantsHpa(c)])

\* A write that meets an object it did not expect (created, changed or
\* deleted since the cached copy) fails, and the call returns the error.
ScalingConflict ==
    /\ ~seenHpa.current
    /\ KeepHpa
    /\ ReturnRequeue

\* reconcileHPA
CreateHpa(c) ==
    /\ WantsHpa(c) /\ ~seenHpa.obj.exists
    /\ \/ ~hpa.exists /\ WriteHpa(NewHpa(Bounds(c), ScalingManagerMetrics, TRUE)) /\ AfterScaling(c, TRUE)
       \/ hpa.exists /\ ScalingConflict

UpdateHpa(c) ==
    /\ WantsHpa(c) /\ seenHpa.obj.exists /\ ~HpaSpecsEqual(seenHpa.obj, Bounds(c))
    /\ \/ /\ seenHpa.current
          /\ WriteHpa(NewHpa(Bounds(c), ScalingManagerMetrics, hpa.owned)) /\ AfterScaling(c, FALSE)
       \/ ScalingConflict

KeepHpaAsItIs(c) ==
    /\ WantsHpa(c) /\ seenHpa.obj.exists /\ HpaSpecsEqual(seenHpa.obj, Bounds(c))
    /\ KeepHpa
    /\ AfterScaling(c, FALSE)

\* deleteHPA: Delete carries no resource version.
DeleteHpa(c) ==
    /\ ~WantsHpa(c) /\ seenHpa.obj.exists
    /\ \/ hpa.exists /\ WriteHpa(NoHpa) /\ AfterScaling(c, FALSE)
       \/ ~hpa.exists /\ ScalingConflict

NoHpaToDelete(c) ==
    /\ ~WantsHpa(c) /\ ~seenHpa.obj.exists
    /\ KeepHpa
    /\ AfterScaling(c, FALSE)

ReconcileScaling ==
    /\ pc = "scalingManager"
    /\ \/ CreateHpa(my.cluster) \/ UpdateHpa(my.cluster) \/ KeepHpaAsItIs(my.cluster)
       \/ DeleteHpa(my.cluster) \/ NoHpaToDelete(my.cluster)
    /\ KeepCluster /\ KeepSts /\ KeepOthers
=============================================================================
