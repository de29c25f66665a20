------------------------ MODULE MC_ClusterReconciler ------------------------
(* Instances of ClusterReconciler for TLC: the values of its constants. *)
EXTENDS ClusterProperties

\* autoScaling left out
MCNoAutoScaling == {NoAutoScaling}

Auto(enabled, hpaMode, min, max, storage) ==
    [enabled |-> enabled, hpa |-> hpaMode, min |-> min, max |-> max,
     storage |-> storage]

\* no auto-scaling, auto-scaling without an HPA section, or an HPA with both
\* switches on and odd bounds
MCConsistent == {NoAutoScaling, Auto(TRUE, "absent", 0, 0, FALSE),
                 Auto(TRUE, "enabled", 3, 5, FALSE)}

\* auto-scaling on, the HPA switched off
MCHpaSwitchedOff == {NoAutoScaling, Auto(TRUE, "disabled", 3, 5, FALSE)}

\* only the storage part, as in config/samples/autoscaling
MCStorage == {NoAutoScaling, Auto(TRUE, "disabled", 3, 5, TRUE)}
=============================================================================
