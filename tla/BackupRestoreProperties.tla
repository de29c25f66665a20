----------------------- MODULE BackupRestoreProperties ----------------------
(***************************************************************************)
(* What the backup and restore controllers are expected to do, stated over *)
(* BackupRestore.                                                          *)
(***************************************************************************)
EXTENDS BackupRestore

\* A backup reported as Succeeded is on the volume, complete, and was written
\* for this very RqliteBackup; no later attempt overwrites it.
SucceededBackupIsOnVolume ==
    \A b \in Backups :
        backups[b].phase = "Succeeded" =>
            files[b] = [by |-> backups[b].uid, complete |-> TRUE]

\* A restore never puts a half-written file into the database, although the
\* backup it validated may be deleted, or its Job may still be retried, while
\* the restore's own Job reads the file.
OnlyCompleteFilesAreLoaded ==
    \A r \in Restores : loaded[r] # NoFile => loaded[r].complete

\* rqliterestore_controller.go:265, "Data successfully loaded from backup": a
\* restore that is reported as Succeeded did load it.
SucceededRestoreWasLoaded ==
    \A r \in Restores : restores[r].phase = "Succeeded" => loaded[r].complete

Lifecycle ==
    INSTANCE RestoreLifecycle WITH
        phase <- [r \in Restores |->
                    IF restores[r].exists THEN restores[r].phase ELSE "gone"],
        loaded <- [r \in Restores |-> loaded[r].complete]

\* Phases, Jobs, stale caches and lost pods together behave as
\* RestoreLifecycle promises: a restore moves forward only, succeeds only when
\* its data is loaded, and loads nothing before it is validated or after it
\* succeeded.
RestoresFollowLifecycle == Lifecycle!Spec

\* No undecided object is forgotten: it is in its queue, or a call for it is
\* running, or a change of it is still to be delivered.  Each path through the
\* two controllers has to bring the request back or decide the object for good,
\* with copies that may be old by then.
UndecidedAreAwaited ==
    /\ \A b \in Backups :
          backups[b].exists /\ ~Terminal(backups[b].phase) =>
              \/ b \in backupQueue \/ backupWorker.name = b
              \/ ~seenBackups[b].current
    /\ \A r \in Restores :
          restores[r].exists /\ ~Terminal(restores[r].phase) =>
              \/ r \in restoreQueue \/ restoreWorker.name = r
              \/ ~seenRestores[r].current

\* Every backup is decided, unless somebody deletes it.
BackupsEnd ==
    \A b \in Backups :
        <>[](backups[b].exists => Terminal(backups[b].phase))

\* Every restore is decided, unless somebody deletes it or its backup failed:
\* for that one it waits.
RestoresEnd ==
    \A r \in Restores :
        <>[](restores[r].exists =>
               \/ Terminal(restores[r].phase)
               \/ SourceOf[r] # NoName /\ backups[SourceOf[r]].phase = "Failed")
=============================================================================
