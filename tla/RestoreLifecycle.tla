-------------------------- MODULE RestoreLifecycle --------------------------
(***************************************************************************)
(* What RqliteRestores promise their users, without Jobs, caches or        *)
(* controllers: the phases each passes through, and when the database of   *)
(* its cluster may be replaced on its behalf.                              *)
(***************************************************************************)

CONSTANT Restores

VARIABLES
    phase,   \* status.phase, or "gone" once the RqliteRestore is deleted
    loaded   \* whether the database received the complete backup

lifecycle == <<phase, loaded>>

Init == /\ phase = [r \in Restores |-> ""]
        /\ loaded = [r \in Restores |-> FALSE]

Becomes(r, from, to) ==
    /\ phase[r] \in from
    /\ phase' = [phase EXCEPT ![r] = to]
    /\ UNCHANGED loaded

Accept(r) == Becomes(r, {""}, "Pending")

Validate(r) == Becomes(r, {"Pending"}, "Loading")

Fail(r) == Becomes(r, {"Pending", "Loading"}, "Failed")

Succeed(r) == loaded[r] /\ Becomes(r, {"Loading"}, "Succeeded")

Delete(r) == Becomes(r, {"", "Pending", "Loading", "Succeeded", "Failed"}, "gone")

\* Not before it was validated, and not after it was reported as done.  An
\* attempt may outlive the report of a failure, and the RqliteRestore itself.
Load(r) ==
    /\ phase[r] \in {"Loading", "Failed", "gone"}
    /\ loaded' = [loaded EXCEPT ![r] = TRUE]
    /\ UNCHANGED phase

Next == \E r \in Restores :
            Accept(r) \/ Validate(r) \/ Fail(r) \/ Succeed(r) \/ Delete(r) \/ Load(r)

Spec == Init /\ [][Next]_lifecycle
=============================================================================
