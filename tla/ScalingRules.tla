---------------------------- MODULE ScalingRules ----------------------------
(***************************************************************************)
(* The arithmetic on replica counts that the operator's controllers share: *)
(* the quorum rule of internal/utils, the disruption budget of             *)
(* internal/controller, and the odd-count rules of the two managers that   *)
(* both maintain the HorizontalPodAutoscaler <cluster>-hpa.                *)
(*                                                                         *)
(* Go's int32 division of non-negative numbers is \div; replica counts are *)
(* far from the int32 limit, so no width is modelled.                      *)
(***************************************************************************)
EXTENDS Integers

\* Votes needed for a Raft majority among n members.
QuorumOf(n) == (n \div 2) + 1

IsOdd(n) == n % 2 = 1

\* utils.ValidateQuorumRequirements: TRUE where the code returns nil.
ValidateQuorumRequirements(currentSize, desiredSize) ==
    desiredSize = 1 \/ desiredSize >= QuorumOf(currentSize)

\* Mutant: one more pod is spared, without the minimum of 1.
PodDisruptionBudgetFor_NoMinimum(size) == size - QuorumOf(size) - 1

\* podDisruptionBudgetForRqliteCluster: maxUnavailable of the budget. The
\* code's "< 1" correction cannot apply above size 3.
PodDisruptionBudgetFor(size) == IF size <= 3 THEN 1 ELSE (size - 1) \div 2

\* Mutant: an odd number is not left alone.
EnsureOdd_Always(n) == n + 1

\* QuorumAwareScaler.ensureOdd
EnsureOdd(n) == IF IsOdd(n) THEN n ELSE n + 1

\* Bounds of the HPA as QuorumAwareScaler.buildQuorumAwareHPA writes them.
QuorumAwareBounds(min, max) ==
    [min |-> IF EnsureOdd(min) < 3 THEN 3 ELSE EnsureOdd(min),
     max |-> EnsureOdd(max)]

\* Bounds of the same HPA as ScalingManager.buildHPA writes them: only the
\* minimum is made odd.
ScalingManagerBounds(min, max) == [min |-> EnsureOdd(min), max |-> max]

\* QuorumAwareScaler.calculateQuorumAwareReplicas: the neighbour of an even
\* count, upwards while the odd maximum allows it, else downwards, else none.
CalculateQuorumAwareReplicas(current, min, max) ==
    LET minReplicas == IF IsOdd(min) THEN min ELSE min + 1
        maxReplicas == IF IsOdd(max) THEN max ELSE max - 1
    IN  IF current + 1 <= maxReplicas THEN current + 1
        ELSE IF current - 1 >= minReplicas THEN current - 1
        ELSE current
=============================================================================
