-------------------------- MODULE MC_BackupRestore --------------------------
(* Instances of BackupRestore for TLC: the values of its constants. *)
EXTENDS BackupRestoreProperties

\* Every restore is from the backup b.
MCSource == [r \in Restores |-> "b"]
=============================================================================
