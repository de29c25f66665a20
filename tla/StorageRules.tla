---------------------------- MODULE StorageRules ----------------------------
(***************************************************************************)
(* The growth of one volume by the scaling manager's storage expansion, in *)
(* bytes.  Sums and products stay far below the int64 limit: a volume that *)
(* grows has at most one gibibyte, and the percentage is at most 200.      *)
(***************************************************************************)
EXTENDS Integers

OneGi == 1073741824

\* storageClassSupportsExpansion; "" stands for no class.
SupportsExpansion(class) == class \in {"local-path", "gp2", "gp3", "standard", "fast"}

\* shouldExpandStorage: neither the usage of the volume nor
\* spec.autoScaling.storageExpansion.thresholdPercentage is looked at.
ShouldExpand(size, bytes) == bytes <= 10 * OneGi /\ size > 5 /\ bytes <= OneGi

NewCapacity(bytes, percentage) == bytes + (bytes * percentage) \div 100

\* expandPVC, maximum: the set of the one maximum, or empty.
WithinMaximum(bytes, maximum) == \A max \in maximum : bytes <= max

\* What one check makes of the volume's request.
Expanded(class, size, bytes, percentage, maximum) ==
    IF /\ SupportsExpansion(class) /\ ShouldExpand(size, bytes)
       /\ WithinMaximum(NewCapacity(bytes, percentage), maximum)
    THEN NewCapacity(bytes, percentage)
    ELSE bytes
=============================================================================
