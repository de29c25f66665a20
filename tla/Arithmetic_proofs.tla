-------------------------- MODULE Arithmetic_proofs -------------------------
(***************************************************************************)
(* Facts about the arithmetic of the operator, for every replica count and *)
(* every size of a volume.                                                 *)
(***************************************************************************)
EXTENDS ScalingRules, StorageRules, TLAPS

-----------------------------------------------------------------------------
(* Replica counts *)

\* utils.ValidateQuorumRequirements: a permitted target other than 1 is a
\* majority of the count it starts from, so the members that stay can still
\* commit while the others are being removed.
THEOREM ScaleTargetIsMajority ==
    ASSUME NEW n \in Nat, NEW m \in Nat, m # 1,
           ValidateQuorumRequirements(n, m)
    PROVE  2 * m > n
  BY DEF ValidateQuorumRequirements, QuorumOf

\* podDisruptionBudgetForRqliteCluster: from size 3 on, evicting what the
\* budget permits leaves a quorum of the size the budget was computed for,
\* and evicting one pod more does not.
THEOREM PdbLeavesExactlyQuorum ==
    ASSUME NEW size \in Nat, size >= 3
    PROVE  /\ size - PodDisruptionBudgetFor(size) >= QuorumOf(size)
           /\ IsOdd(size) =>
                size - PodDisruptionBudgetFor(size) = QuorumOf(size)
<1>1. CASE size = 3
  BY <1>1 DEF PodDisruptionBudgetFor, QuorumOf
<1>2. CASE size > 3
  BY <1>2 DEF PodDisruptionBudgetFor, QuorumOf, IsOdd
<1> QED
  BY <1>1, <1>2

\* The same budget on a cluster of size 2 does not leave a quorum.
THEOREM PdbBreaksTwoNodes == 2 - PodDisruptionBudgetFor(2) < QuorumOf(2)
  BY DEF PodDisruptionBudgetFor, QuorumOf

\* QuorumAwareScaler.ensureOdd rounds to the nearest odd number from above.
THEOREM EnsureOddRoundsUp ==
    ASSUME NEW n \in Nat
    PROVE  /\ EnsureOdd(n) \in Nat
           /\ IsOdd(EnsureOdd(n))
           /\ n <= EnsureOdd(n) /\ EnsureOdd(n) <= n + 1
  BY DEF EnsureOdd, IsOdd

\* buildHPA and buildQuorumAwareHPA put the same bounds into the HPA they share
\* exactly when the user's maximum is odd; with an even one, the CRD default 10
\* among them, each replaces the bounds the other wrote.
THEOREM ManagersAgreeOnOddMaximum ==
    ASSUME NEW min \in Nat, NEW max \in Nat, min >= 3
    PROVE  ScalingManagerBounds(min, max) = QuorumAwareBounds(min, max)
             <=> IsOdd(max)
<1>1. EnsureOdd(min) >= 3
  BY EnsureOddRoundsUp
<1>2. QuorumAwareBounds(min, max) = [min |-> EnsureOdd(min), max |-> EnsureOdd(max)]
  BY <1>1, EnsureOddRoundsUp DEF QuorumAwareBounds
<1>3. EnsureOdd(max) = max <=> IsOdd(max)
  BY DEF EnsureOdd, IsOdd
<1>4. [min |-> EnsureOdd(min), max |-> EnsureOdd(max)].max = EnsureOdd(max)
  OBVIOUS
<1> QED
  BY <1>2, <1>3, <1>4 DEF ScalingManagerBounds

\* QuorumAwareScaler.calculateQuorumAwareReplicas moves an even count by at
\* most one; a count it changes to is odd and a quorum of the old one, so the
\* correction respects the rule for scaling down.
THEOREM CorrectionIsSafe ==
    ASSUME NEW current \in Nat, NEW min \in Nat, NEW max \in Nat,
           min >= 3, current > 0, ~IsOdd(current)
    PROVE  LET n == CalculateQuorumAwareReplicas(current, min, max)
           IN  /\ n \in Nat
               /\ n # current => IsOdd(n)
               /\ ValidateQuorumRequirements(current, n)
  BY DEF CalculateQuorumAwareReplicas, ValidateQuorumRequirements, QuorumOf, IsOdd

-----------------------------------------------------------------------------
(* Volumes *)

\* The API server accepts 10 to 200 (rqlitecluster_types.go:221).
Percentages == 10..200

\* The integer division of expandPVC: never down, and at most threefold.
LEMMA NewCapacityBounds ==
    ASSUME NEW bytes \in Nat, NEW percentage \in Percentages
    PROVE  /\ NewCapacity(bytes, percentage) \in Nat
           /\ bytes <= NewCapacity(bytes, percentage)
           /\ NewCapacity(bytes, percentage) <= 3 * bytes
           /\ bytes >= 10 => bytes < NewCapacity(bytes, percentage)
<1> DEFINE product == bytes * percentage
<1>1. product \in Nat /\ bytes * 10 <= product /\ product <= bytes * 200
  BY DEF Percentages
<1>2. /\ product \div 100 \in Nat /\ product \div 100 <= 2 * bytes
      /\ bytes >= 10 => product \div 100 >= 1
  <2> HIDE DEF product
  <2> QED
    BY <1>1
<1>3. NewCapacity(bytes, percentage) = bytes + product \div 100
  BY DEF NewCapacity
<1> HIDE DEF product
<1> QED
  BY <1>2, <1>3

\* A check never asks for less than there is, which the API server would refuse
\* in every later check, and never passes the maximum or three gibibytes: a
\* volume that is beyond either is left alone.
THEOREM ExpansionIsBounded ==
    ASSUME NEW class, NEW size \in Nat, NEW bytes \in Nat,
           NEW percentage \in Percentages, NEW maximum \in SUBSET Nat
    PROVE  LET after == Expanded(class, size, bytes, percentage, maximum)
           IN  /\ after \in Nat
               /\ bytes <= after
               /\ after # bytes => /\ WithinMaximum(after, maximum)
                                   /\ after <= 3 * OneGi
  BY NewCapacityBounds DEF Expanded, ShouldExpand, OneGi

\* Expansion comes to an end: each check that changes a volume of ten bytes or
\* more makes it larger, and none changes one of more than a gibibyte.  The
\* threshold the documentation speaks of has no part in it.
THEOREM ExpansionEnds ==
    ASSUME NEW class, NEW size \in Nat, NEW bytes \in Nat,
           NEW percentage \in Percentages, NEW maximum \in SUBSET Nat
    PROVE  LET after == Expanded(class, size, bytes, percentage, maximum)
           IN  /\ bytes > OneGi \/ size <= 5 => after = bytes
               /\ /\ SupportsExpansion(class) /\ ShouldExpand(size, bytes)
                  /\ bytes >= 10 /\ maximum = {}
                  => after > bytes
  BY NewCapacityBounds DEF Expanded, ShouldExpand, OneGi, WithinMaximum
=============================================================================
