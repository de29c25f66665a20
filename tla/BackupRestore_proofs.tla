------------------------ MODULE BackupRestore_proofs ------------------------
(***************************************************************************)
(* Proofs about BackupRestore, for every set of backups and restores and   *)
(* every bound.                                                            *)
(***************************************************************************)
EXTENDS BackupRestoreProperties, TLAPS

\* Hypotheses: no restore has the name of a backup, nobody creates a backup again
\* under its name, and nobody deletes a Job.
NamesAreDisjoint == Backups \cap Restores = {}

JobsAreKept == {"recreateBackup", "deleteJob"} \cap UserOps = {}

-----------------------------------------------------------------------------
(* The inductive invariant *)

\* A Job is that of a backup or a restore of its name, and a restore has a
\* source before it has a Job.
JobIsNamed(job, n) ==
    job.exists => IF job.owner.kind = "backup" THEN n \in Backups
                  ELSE n \in Restores /\ SourceOf[n] # NoName

NamesAreKnown ==
    /\ \A n \in Names : JobIsNamed(jobs[n], n) /\ JobIsNamed(seenJobs[n].obj, n)
    /\ backupWorker.pc # "idle" => backupWorker.name \in Backups
    /\ restoreWorker.pc # "idle" => restoreWorker.name \in Restores
    /\ restoreWorker.pc = "createJob" => SourceOf[restoreWorker.name] # NoName

CachesFollow ==
    /\ \A b \in Backups : seenBackups[b].current => seenBackups[b].obj = backups[b]
    /\ \A r \in Restores : seenRestores[r].current => seenRestores[r].obj = restores[r]

\* There is one incarnation of each backup, and a Job of a name is that of the
\* object of this name.
OwnersAreKnown ==
    /\ \A b \in Backups :
         /\ backups[b].uid = 1 /\ seenBackups[b].obj.uid = 1
         /\ jobs[b].exists => jobs[b].owner = [kind |-> "backup", uid |-> 1]
    /\ \A r \in Restores : jobs[r].exists => jobs[r].owner = [kind |-> "restore", uid |-> 0]
    /\ backupWorker.pc # "idle" => backupWorker.obj.uid = 1

Written(b) == files[b] = [by |-> 1, complete |-> TRUE]

Completed(job) == job.exists /\ job.state = "complete"

\* A Job that is seen is still there while its backup is, and what it has
\* completed stays.
BackupJobsArePersistent ==
    \A b \in Backups :
        /\ Completed(jobs[b]) => Written(b)
        /\ backups[b].exists /\ seenJobs[b].obj.exists => jobs[b].exists
        /\ backups[b].exists /\ Completed(seenJobs[b].obj) => Completed(jobs[b])
        /\ backups[b].phase = "Succeeded" => /\ backups[b].exists
                                             /\ Completed(seenJobs[b].obj)

\* What a running call of the backup controller relies on.
BackupCallIsSound ==
    LET call == backupWorker
        b == backupWorker.name
    IN  /\ call.pc # "idle" /\ call.fresh =>
             /\ backups[b].exists /\ ~Terminal(backups[b].phase)
             /\ call.obj.exists
             /\ call.obj.phase = "Succeeded" => Completed(seenJobs[b].obj)
        /\ call.pc = "createJob" => backups[b].phase # "Succeeded"

\* The file of b is complete and nothing will write it again: no pod, no running
\* call that creates a Job, and no later one.
Sealed(b) ==
    /\ Written(b)
    /\ ~(jobs[b].exists /\ jobs[b].state = "active")
    /\ ~(backupWorker.pc = "createJob" /\ backupWorker.name = b)
    /\ \A backup \in {backups[b], seenBackups[b].obj} :
           backup.exists => backup.phase = "Succeeded"

\* What a restore needs to load its file.
Loadable(r) == SourceOf[r] # NoName /\ Sealed(SourceOf[r])

\* The restore was validated, and is if it still exists where validation leads.
Validated(r) ==
    /\ Loadable(r)
    /\ restores[r].exists => restores[r].phase \in {"Loading", "Succeeded", "Failed"}

SucceededIsSealed ==
    \A b \in Backups :
        seenBackups[b].obj.exists /\ seenBackups[b].obj.phase = "Succeeded" => Sealed(b)

RestoresAreValidated ==
    /\ \A r \in Restores :
         /\ restores[r].phase \in {"Loading", "Succeeded"} => Validated(r)
         /\ seenRestores[r].obj.phase \in {"Loading", "Succeeded"} => Validated(r)
         /\ jobs[r].exists => Validated(r)
    /\ restoreWorker.pc = "createJob" => Validated(restoreWorker.name)
    /\ restoreWorker.pc # "idle" /\ restoreWorker.obj.phase \in {"Loading", "Succeeded"} =>
         Loadable(restoreWorker.name)

\* The writes of a status that RestoreLifecycle permits, or that change nothing.
Forward == {<<"", "Pending">>, <<"Pending", "Pending">>, <<"Pending", "Loading">>,
            <<"Pending", "Failed">>, <<"Loading", "Loading">>, <<"Loading", "Failed">>,
            <<"Loading", "Succeeded">>}

RestoreCallIsForward ==
    restoreWorker.pc # "idle" /\ restoreWorker.fresh =>
        LET r == restoreWorker.name
        IN  /\ restores[r].exists /\ restoreWorker.obj.exists
            /\ <<restores[r].phase, restoreWorker.obj.phase>> \in Forward

LoadsAreComplete ==
    /\ \A r \in Restores :
         /\ loaded[r] # NoFile => loaded[r].complete
         /\ Completed(jobs[r]) => loaded[r].complete
         /\ Completed(seenJobs[r].obj) => loaded[r].complete
         /\ restores[r].phase = "Succeeded" => loaded[r].complete
    /\ restoreWorker.pc # "idle" /\ restoreWorker.obj.phase = "Succeeded" =>
         loaded[restoreWorker.name].complete

IInv ==
    /\ TypeOK /\ NamesAreKnown /\ CachesFollow /\ OwnersAreKnown
    /\ BackupJobsArePersistent /\ BackupCallIsSound /\ SucceededIsSealed
    /\ RestoresAreValidated /\ RestoreCallIsForward /\ LoadsAreComplete

-----------------------------------------------------------------------------
(* Type correctness *)

LEMMA NameFacts ==
    /\ NoName \notin Backups /\ NoName \notin Restores
    /\ Backups \subseteq Names /\ Restores \subseteq Names
  BY ConstantsAssumption DEF Names

LEMMA NoCallsType == NoBackupCall \in BackupWorker /\ NoRestoreCall \in RestoreWorker
  BY DEF NoBackupCall, NoRestoreCall, BackupWorker, RestoreWorker, NoBackup, NoRestore, Backup,
     Restore

LEMMA JobsTypes ==
    /\ NoJob \in Job /\ NewJob("restore", 0) \in Job
    /\ \A uid \in Nat : NewJob("backup", uid) \in Job
  BY DEF NoJob, NewJob, Job, Owner

\* What Behind does to a cache.
LEMMA BehindType ==
    ASSUME NEW Kind, NEW N, NEW cache \in [N -> CacheOf(Kind)], NEW n \in N, NEW changed
    PROVE  /\ Behind(cache, n, changed) \in [N -> CacheOf(Kind)]
           /\ \A m \in N : Behind(cache, n, changed)[m].obj = cache[m].obj
           /\ \A m \in N : Behind(cache, n, changed)[m].current =>
                             cache[m].current /\ (changed => m # n)
  BY DEF Behind, CacheOf

LEMMA WriteJobType ==
    ASSUME TypeOK, NEW n \in Names, NEW job \in Job, WriteJob(n, job)
    PROVE  /\ jobs' \in [Names -> Job] /\ seenJobs' \in [Names -> CacheOf(Job)]
           /\ \A m \in Names : seenJobs'[m].obj = seenJobs[m].obj
<1>1. jobs' \in [Names -> Job]
  BY DEF WriteJob, TypeOK
<1>2. seenJobs \in [Names -> CacheOf(Job)] /\ seenJobs' = Behind(seenJobs, n, job # jobs[n])
  BY DEF WriteJob, TypeOK
<1> QED
  BY <1>1, <1>2, BehindType

LEMMA InitTypeOK == Init => TypeOK
<1> SUFFICES ASSUME Init PROVE TypeOK
  OBVIOUS
<1>1. backups \in [Backups -> Backup] /\ restores \in [Restores -> Restore]
  BY DEF Init, NoBackup, NoRestore, Backup, Restore
<1>2. jobs \in [Names -> Job] /\ seenJobs \in [Names -> CacheOf(Job)]
  BY JobsTypes DEF Init, Cached, CacheOf
<1>3. seenBackups \in [Backups -> CacheOf(Backup)] /\ seenRestores \in [Restores -> CacheOf(Restore)]
  BY <1>1 DEF Init, Cached, CacheOf
<1>4. files \in [Backups -> File] /\ loaded \in [Restores -> File]
  BY DEF Init, NoFile, File
<1>5. budget \in [edits : 0..MaxEdits, faults : 0..MaxFaults, evictions : 0..MaxEvictions]
  BY ConstantsAssumption DEF Init
<1> QED
  BY <1>1, <1>2, <1>3, <1>4, <1>5, NoCallsType DEF Init, TypeOK

LEMMA BackupReturnsType ==
    ASSUME TypeOK, NamesAreKnown, backupWorker.pc # "idle", NEW again \in BOOLEAN, BackupReturns(again)
    PROVE  backupWorker' \in BackupWorker /\ backupQueue' \subseteq Backups
  BY NoCallsType DEF BackupReturns, NamesAreKnown, TypeOK

LEMMA RestoreReturnsType ==
    ASSUME TypeOK, NamesAreKnown, restoreWorker.pc # "idle", NEW again \in BOOLEAN, RestoreReturns(again)
    PROVE  restoreWorker' \in RestoreWorker /\ restoreQueue' \subseteq Restores
  BY NoCallsType DEF RestoreReturns, NamesAreKnown, TypeOK

LEMMA JobResultType ==
    ASSUME NEW job PROVE JobResult(job) \in {"Running", "Succeeded", "Failed"}
  BY DEF JobResult

\* A call that starts: what it read, and what it is about to write.
BackupCallStarted(b) ==
    LET backup == seenBackups[b].obj
        job == seenJobs[b].obj
    IN  /\ backup.exists /\ ~Terminal(backup.phase)
        /\ backupWorker'.name = b /\ backupWorker'.fresh = seenBackups[b].current
        /\ backupWorker'.obj.exists /\ backupWorker'.obj.uid = backup.uid
        /\ \/ /\ ~job.exists
              /\ backupWorker'.pc = "createJob" /\ backupWorker'.obj.phase = "Running"
           \/ /\ job.exists /\ Terminal(JobResult(job))
              /\ backupWorker'.pc = "writeStatus"
              /\ backupWorker'.obj.phase = JobResult(job)

LEMMA BackupStartsCall ==
    ASSUME TypeOK, NEW b \in Backups, BackupStarts(b)
    PROVE  /\ backupWorker' \in BackupWorker
           /\ backupWorker' = backupWorker \/ BackupCallStarted(b)
<1> DEFINE backup == seenBackups[b].obj
           result == JobResult(seenJobs[b].obj)
           call == [pc |-> "createJob", name |-> b, obj |-> [backup EXCEPT !.phase = "Running"],
                    fresh |-> seenBackups[b].current]
           done == [call EXCEPT !.pc = "writeStatus", !.obj.phase = result]
<1>1. backup \in Backup /\ seenBackups[b].current \in BOOLEAN /\ backupWorker \in BackupWorker
  BY DEF TypeOK, CacheOf
<1>2. result \in {"Running", "Succeeded", "Failed"}
  BY JobResultType
<1>3. /\ call \in BackupWorker /\ call.pc = "createJob" /\ call.name = b
      /\ call.fresh = seenBackups[b].current
      /\ call.obj.exists = backup.exists /\ call.obj.uid = backup.uid
      /\ call.obj.phase = "Running"
  BY <1>1 DEF BackupWorker, Backup
<1>4. \/ backupWorker' = backupWorker
      \/ /\ backup.exists /\ ~Terminal(backup.phase)
         /\ \/ ~seenJobs[b].obj.exists /\ backupWorker' = call
            \/ seenJobs[b].obj.exists /\ Terminal(result) /\ backupWorker' = done
  BY DEF BackupStarts
<1> HIDE DEF call, result
<1>5. /\ done \in BackupWorker /\ done.pc = "writeStatus" /\ done.name = call.name
      /\ done.fresh = call.fresh
      /\ done.obj.exists = call.obj.exists /\ done.obj.uid = call.obj.uid
      /\ done.obj.phase = result
  <2>1. done = [call EXCEPT !.pc = "writeStatus", !.obj = [call.obj EXCEPT !.phase = result]]
    BY <1>3 DEF BackupWorker
  <2>2. [call.obj EXCEPT !.phase = result] \in Backup
    BY <1>2, <1>3 DEF BackupWorker, Backup
  <2> HIDE DEF done
  <2> QED
    BY <1>2, <1>3, <2>1, <2>2 DEF BackupWorker, Backup
<1> HIDE DEF done
<1>6. backupWorker' = backupWorker \/ BackupCallStarted(b)
  BY <1>1, <1>3, <1>4, <1>5 DEF BackupCallStarted, result
<1> QED
  BY <1>1, <1>3, <1>4, <1>5, <1>6

LEMMA BackupStartsType ==
    ASSUME TypeOK, NEW b \in Backups, BackupStarts(b)
    PROVE  TypeOK'
<1>1. backupWorker' \in BackupWorker
  BY BackupStartsCall
<1>2. backupQueue' \subseteq Backups
  BY DEF BackupStarts, TypeOK
<1> QED
  BY <1>1, <1>2 DEF BackupStarts, TypeOK, objects, caches, world

LEMMA BackupCreatesJobType ==
    ASSUME TypeOK, NamesAreKnown, BackupCreatesJob
    PROVE  TypeOK'
<1> DEFINE b == backupWorker.name
<1>1. b \in Backups /\ b \in Names /\ backupWorker.obj \in Backup /\ backupWorker.pc # "idle"
  BY NameFacts DEF BackupCreatesJob, NamesAreKnown, TypeOK, BackupWorker
<1>2. CASE jobs[b].exists
  BY <1>1, <1>2, BackupReturnsType DEF BackupCreatesJob, TypeOK, world
<1>3. CASE ~jobs[b].exists
  <2>1. NewJob("backup", backupWorker.obj.uid) \in Job
    BY <1>1, JobsTypes DEF Backup
  <2>2. jobs' \in [Names -> Job] /\ seenJobs' \in [Names -> CacheOf(Job)]
    BY <1>1, <1>3, <2>1, WriteJobType DEF BackupCreatesJob
  <2>3. backupWorker' \in BackupWorker
    <3>1. backupWorker' = [backupWorker EXCEPT !.pc = "writeStatus"]
      BY <1>3 DEF BackupCreatesJob
    <3> QED
      BY <3>1 DEF TypeOK, BackupWorker
  <2> QED
    BY <1>3, <2>2, <2>3 DEF BackupCreatesJob, TypeOK, world
<1> QED
  BY <1>2, <1>3

LEMMA BackupWritesStatusType ==
    ASSUME TypeOK, NamesAreKnown, BackupWritesStatus
    PROVE  TypeOK'
<1>1. backupWorker.name \in Backups /\ backupWorker.obj \in Backup /\ backupWorker.pc # "idle"
  BY DEF BackupWritesStatus, NamesAreKnown, TypeOK, BackupWorker
<1>2. backupWorker' \in BackupWorker /\ backupQueue' \subseteq Backups
  BY <1>1, BackupReturnsType DEF BackupWritesStatus
<1>3. backups' \in [Backups -> Backup]
  BY <1>1 DEF BackupWritesStatus, TypeOK
<1>4. seenBackups' \in [Backups -> CacheOf(Backup)]
  <2>1. seenBackups \in [Backups -> CacheOf(Backup)]
    BY DEF TypeOK
  <2>2. \/ seenBackups' = Behind(seenBackups, backupWorker.name,
                               backupWorker.obj # backups[backupWorker.name])
        \/ seenBackups' = seenBackups
    BY DEF BackupWritesStatus
  <2> QED
    BY <1>1, <2>1, <2>2, BehindType
<1> QED
  BY <1>2, <1>3, <1>4 DEF BackupWritesStatus, TypeOK, world

\* A restore's call that starts: what it read, and what it is about to write.
RestoreCallStarted(r) ==
    LET restore == seenRestores[r].obj
        to == Decision(r, restore, SourceRead(r), seenJobs[r].obj)
    IN  /\ restore.exists /\ ~Terminal(restore.phase)
        /\ restoreWorker'.pc = IF to.note = "created" THEN "createJob" ELSE "writeStatus"
        /\ restoreWorker'.name = r /\ restoreWorker'.fresh = seenRestores[r].current
        /\ restoreWorker'.obj.exists /\ restoreWorker'.obj.phase = to.phase

LEMMA DecisionType ==
    ASSUME NEW r, NEW restore, NEW b, NEW job
    PROVE  /\ Decision(r, restore, b, job).phase \in {"Pending", "Loading", "Succeeded", "Failed"}
           /\ Decision(r, restore, b, job).note \in {"", "waiting", "created", "progress"}
<1>1. /\ Progress(job).phase \in {"Pending", "Loading", "Succeeded", "Failed"}
      /\ Progress(job).note \in {"", "progress"}
  BY JobResultType DEF Progress, Terminal, To
<1>2. /\ Validation(b).phase \in {"Pending", "Loading", "Failed"}
      /\ Validation(b).note \in {"", "waiting"}
  BY DEF Validation, To
<1> QED
  BY <1>1, <1>2 DEF Decision, To

LEMMA RestoreStartsCall ==
    ASSUME TypeOK, NEW r \in Restores, RestoreStarts(r)
    PROVE  /\ restoreWorker' \in RestoreWorker
           /\ restoreWorker' = restoreWorker \/ RestoreCallStarted(r)
<1> DEFINE restore == seenRestores[r].obj
           to == Decision(r, restore, SourceRead(r), seenJobs[r].obj)
           call == [pc |-> IF to.note = "created" THEN "createJob" ELSE "writeStatus",
                    name |-> r, obj |-> [restore EXCEPT !.phase = to.phase, !.note = to.note],
                    fresh |-> seenRestores[r].current,
                    hasPath |-> SourceRead(r).phase = "Succeeded"]
<1>1. restore \in Restore /\ seenRestores[r].current \in BOOLEAN /\ restoreWorker \in RestoreWorker
  BY DEF TypeOK, CacheOf
<1>2. /\ to.phase \in {"Pending", "Loading", "Succeeded", "Failed"}
      /\ to.note \in {"", "waiting", "created", "progress"}
  BY DecisionType
<1>3. \/ restoreWorker' = restoreWorker
      \/ restore.exists /\ ~Terminal(restore.phase) /\ restoreWorker' = call
  BY DEF RestoreStarts
<1> HIDE DEF to
<1>4. /\ call \in RestoreWorker /\ call.name = r /\ call.fresh = seenRestores[r].current
      /\ call.pc = IF to.note = "created" THEN "createJob" ELSE "writeStatus"
      /\ call.obj.exists = restore.exists /\ call.obj.phase = to.phase
  BY <1>1, <1>2 DEF RestoreWorker, Restore
<1> HIDE DEF call
<1>5. restoreWorker' = restoreWorker \/ RestoreCallStarted(r)
  BY <1>3, <1>4 DEF RestoreCallStarted, to
<1> QED
  BY <1>1, <1>3, <1>4, <1>5

LEMMA RestoreStartsType ==
    ASSUME TypeOK, NEW r \in Restores, RestoreStarts(r)
    PROVE  TypeOK'
<1>1. restoreWorker' \in RestoreWorker
  BY RestoreStartsCall
<1>2. restoreQueue' \subseteq Restores
  BY DEF RestoreStarts, TypeOK
<1> QED
  BY <1>1, <1>2 DEF RestoreStarts, TypeOK, objects, caches, world

LEMMA RestoreCreatesJobType ==
    ASSUME TypeOK, NamesAreKnown, RestoreCreatesJob
    PROVE  TypeOK'
<1> DEFINE r == restoreWorker.name
<1>1. r \in Restores /\ r \in Names /\ restoreWorker.pc # "idle"
  BY NameFacts DEF RestoreCreatesJob, NamesAreKnown
<1>2. CASE jobs[r].exists \/ ~restoreWorker.hasPath
  BY <1>1, <1>2, RestoreReturnsType DEF RestoreCreatesJob, TypeOK, world
<1>3. CASE ~(jobs[r].exists \/ ~restoreWorker.hasPath)
  <2>1. jobs' \in [Names -> Job] /\ seenJobs' \in [Names -> CacheOf(Job)]
    BY <1>1, <1>3, JobsTypes, WriteJobType DEF RestoreCreatesJob
  <2>2. restoreWorker' \in RestoreWorker
    <3>1. restoreWorker' = [restoreWorker EXCEPT !.pc = "writeStatus"]
      BY <1>3 DEF RestoreCreatesJob
    <3> QED
      BY <3>1 DEF TypeOK, RestoreWorker
  <2> QED
    BY <1>3, <2>1, <2>2 DEF RestoreCreatesJob, TypeOK, world
<1> QED
  BY <1>2, <1>3

LEMMA RestoreWritesStatusType ==
    ASSUME TypeOK, NamesAreKnown, RestoreWritesStatus
    PROVE  TypeOK'
<1>1. restoreWorker.name \in Restores /\ restoreWorker.obj \in Restore /\ restoreWorker.pc # "idle"
  BY DEF RestoreWritesStatus, NamesAreKnown, TypeOK, RestoreWorker
<1>2. restoreWorker' \in RestoreWorker /\ restoreQueue' \subseteq Restores
  BY <1>1, RestoreReturnsType DEF RestoreWritesStatus
<1>3. restores' \in [Restores -> Restore]
  BY <1>1 DEF RestoreWritesStatus, TypeOK
<1>4. seenRestores' \in [Restores -> CacheOf(Restore)]
  <2>1. seenRestores \in [Restores -> CacheOf(Restore)]
    BY DEF TypeOK
  <2>2. \/ seenRestores' = Behind(seenRestores, restoreWorker.name,
                               restoreWorker.obj # restores[restoreWorker.name])
        \/ seenRestores' = seenRestores
    BY DEF RestoreWritesStatus
  <2> QED
    BY <1>1, <2>1, <2>2, BehindType
<1> QED
  BY <1>2, <1>3, <1>4 DEF RestoreWritesStatus, TypeOK, world

LEMMA InformersType == ASSUME TypeOK, NamesAreKnown, Informers PROVE TypeOK'
<1>1. ASSUME NEW b \in Backups, SyncBackup(b) PROVE TypeOK'
  <2>1. seenBackups' \in [Backups -> CacheOf(Backup)]
    BY <1>1 DEF SyncBackup, Cached, TypeOK, CacheOf
  <2> QED
    BY <1>1, <2>1 DEF SyncBackup, TypeOK, objects, world
<1>2. ASSUME NEW r \in Restores, SyncRestore(r) PROVE TypeOK'
  <2>1. seenRestores' \in [Restores -> CacheOf(Restore)]
    BY <1>2 DEF SyncRestore, Cached, TypeOK, CacheOf
  <2> QED
    BY <1>2, <2>1 DEF SyncRestore, TypeOK, objects, world
<1>3. ASSUME NEW n \in Names, SyncJob(n) PROVE TypeOK'
  <2>1. seenJobs' \in [Names -> CacheOf(Job)]
    BY <1>3 DEF SyncJob, Cached, TypeOK, CacheOf
  <2>2. backupQueue' \subseteq Backups /\ restoreQueue' \subseteq Restores
    <3> DEFINE kinds == {o.owner.kind : o \in {j \in {jobs[n], seenJobs[n].obj} : j.exists}}
    <3>1. ("backup" \in kinds => n \in Backups) /\ ("restore" \in kinds => n \in Restores)
      BY DEF NamesAreKnown, JobIsNamed
    <3>2. /\ backupQueue' = backupQueue \cup (IF "backup" \in kinds THEN {n} ELSE {})
          /\ restoreQueue' = restoreQueue \cup (IF "restore" \in kinds THEN {n} ELSE {})
      BY <1>3 DEF SyncJob
    <3> HIDE DEF kinds
    <3> QED
      BY <3>1, <3>2 DEF TypeOK
  <2> QED
    BY <1>3, <2>1, <2>2 DEF SyncJob, TypeOK, objects, world
<1> QED
  BY <1>1, <1>2, <1>3 DEF Informers

LEMMA JobStepsType == ASSUME TypeOK, NamesAreKnown, JobSteps PROVE TypeOK'
<1>1. PICK n \in Names : \/ AttemptSucceeds(n) \/ AttemptFails(n) \/ JobGivesUp(n)
                         \/ PodEvicted(n) \/ GarbageCollects(n)
  BY DEF JobSteps
<1>2. jobs[n] \in Job /\ jobs[n].owner.uid \in Nat
  BY DEF TypeOK, Job, Owner
<1>3. /\ Runs(n, "backup") => n \in Backups
      /\ Runs(n, "restore") => n \in Restores /\ SourceOf[n] \in Backups
  BY ConstantsAssumption DEF Runs, NamesAreKnown, JobIsNamed
<1>4. jobs' \in [Names -> Job] /\ seenJobs' \in [Names -> CacheOf(Job)]
  <2>1. /\ [jobs[n] EXCEPT !.state = "complete"] \in Job
        /\ [jobs[n] EXCEPT !.state = "failed", !.failed = TRUE] \in Job
        /\ [jobs[n] EXCEPT !.failed = TRUE] \in Job
    BY <1>2 DEF Job
  <2>2. CASE UNCHANGED <<jobs, seenJobs>>
    BY <2>2 DEF TypeOK
  <2>3. CASE \E job \in Job : WriteJob(n, job)
    BY <2>3, WriteJobType
  <2>4. UNCHANGED <<jobs, seenJobs>> \/ \E job \in Job : WriteJob(n, job)
    BY <1>1, <2>1, JobsTypes
    DEF AttemptSucceeds, AttemptFails, JobGivesUp, PodEvicted, GarbageCollects
  <2> QED
    BY <2>2, <2>3, <2>4
<1>5. files' \in [Backups -> File] /\ loaded' \in [Restores -> File]
  <2>1. CASE UNCHANGED <<files, loaded>>
    BY <2>1 DEF TypeOK
  <2>2. CASE Runs(n, "backup") /\ \E complete \in BOOLEAN : WritesFile(n, complete)
    BY <1>2, <1>3, <2>2 DEF WritesFile, TypeOK, File
  <2>3. CASE Runs(n, "restore") /\ LoadsFile(n)
    BY <1>3, <2>3 DEF LoadsFile, TypeOK
  <2> QED
    BY <1>1, <2>1, <2>2, <2>3
    DEF AttemptSucceeds, AttemptFails, JobGivesUp, PodEvicted, GarbageCollects
<1>6. budget' \in [edits : 0..MaxEdits, faults : 0..MaxFaults, evictions : 0..MaxEvictions]
  <2>1. CASE UNCHANGED budget
    BY <2>1 DEF TypeOK
  <2>2. CASE PodEvicted(n)
    BY <2>2, ConstantsAssumption DEF PodEvicted, TypeOK
  <2> QED
    BY <1>1, <2>1, <2>2 DEF AttemptSucceeds, AttemptFails, JobGivesUp, GarbageCollects
<1>7. KeepControllers
  BY <1>1 DEF AttemptSucceeds, AttemptFails, JobGivesUp, PodEvicted, GarbageCollects
<1> QED
  BY <1>4, <1>5, <1>6, <1>7 DEF KeepControllers, TypeOK, workers

LEMMA EditType ==
    ASSUME TypeOK, NEW op, Edit(op)
    PROVE  budget' \in [edits : 0..MaxEdits, faults : 0..MaxFaults, evictions : 0..MaxEvictions]
  BY ConstantsAssumption DEF Edit, TypeOK

LEMMA FaultType ==
    ASSUME TypeOK, Fault
    PROVE  budget' \in [edits : 0..MaxEdits, faults : 0..MaxFaults, evictions : 0..MaxEvictions]
  BY ConstantsAssumption DEF Fault, TypeOK

LEMMA UsersType == ASSUME TypeOK, Users PROVE TypeOK'
<1>1. ASSUME NEW b \in Backups, UserDeletesBackup(b) PROVE TypeOK'
  <2>1. [NoBackup EXCEPT !.uid = backups[b].uid] \in Backup
    BY DEF NoBackup, Backup, TypeOK
  <2>2. backups' \in [Backups -> Backup]
    BY <1>1, <2>1 DEF UserDeletesBackup, TypeOK
  <2>3. seenBackups \in [Backups -> CacheOf(Backup)] /\ seenBackups' = Behind(seenBackups, b, TRUE)
    BY <1>1 DEF UserDeletesBackup, TypeOK
  <2>4. seenBackups' \in [Backups -> CacheOf(Backup)]
    BY <2>3, BehindType
  <2>5. backupWorker' \in BackupWorker
    <3>1. backupWorker' = [backupWorker EXCEPT !.fresh = @ /\ backupWorker.name # b]
      BY <1>1 DEF UserDeletesBackup
    <3> QED
      BY <3>1 DEF TypeOK, BackupWorker
  <2> QED
    BY <1>1, <2>2, <2>4, <2>5, EditType DEF UserDeletesBackup, TypeOK, world
<1>2. ASSUME NEW b \in Backups, UserRecreatesBackup(b) PROVE TypeOK'
  <2>1. [NoBackup EXCEPT !.exists = TRUE, !.uid = backups[b].uid + 1] \in Backup
    <3>1. backups[b].uid + 1 \in Nat
      <4>1. backups[b] \in Backup
        BY DEF TypeOK
      <4>2. backups[b].uid \in Nat
        BY <4>1 DEF Backup
      <4> QED
        BY <4>2
    <3> QED
      BY <3>1 DEF NoBackup, Backup
  <2>2. backups' \in [Backups -> Backup]
    BY <1>2, <2>1 DEF UserRecreatesBackup, TypeOK
  <2>3. seenBackups \in [Backups -> CacheOf(Backup)] /\ seenBackups' = Behind(seenBackups, b, TRUE)
    BY <1>2 DEF UserRecreatesBackup, TypeOK
  <2>4. seenBackups' \in [Backups -> CacheOf(Backup)]
    BY <2>3, BehindType
  <2> QED
    BY <1>2, <2>2, <2>4, EditType DEF UserRecreatesBackup, TypeOK, world, workers
<1>3. ASSUME NEW r \in Restores, UserDeletesRestore(r) PROVE TypeOK'
  <2>1. restores' \in [Restores -> Restore]
    BY <1>3 DEF UserDeletesRestore, NoRestore, Restore, TypeOK
  <2>2. seenRestores \in [Restores -> CacheOf(Restore)] /\ seenRestores' = Behind(seenRestores, r, TRUE)
    BY <1>3 DEF UserDeletesRestore, TypeOK
  <2>3. seenRestores' \in [Restores -> CacheOf(Restore)]
    BY <2>2, BehindType
  <2>4. restoreWorker' \in RestoreWorker
    <3>1. restoreWorker' = [restoreWorker EXCEPT !.fresh = @ /\ restoreWorker.name # r]
      BY <1>3 DEF UserDeletesRestore
    <3> QED
      BY <3>1 DEF TypeOK, RestoreWorker
  <2> QED
    BY <1>3, <2>1, <2>3, <2>4, EditType DEF UserDeletesRestore, TypeOK, world
<1>4. ASSUME NEW n \in Names, UserDeletesJob(n) PROVE TypeOK'
  <2>1. jobs' \in [Names -> Job] /\ seenJobs' \in [Names -> CacheOf(Job)]
    BY <1>4, JobsTypes, WriteJobType DEF UserDeletesJob
  <2> QED
    BY <1>4, <2>1, EditType DEF UserDeletesJob, KeepControllers, TypeOK, workers
<1>5. CASE UserDeletesCluster
  BY <1>5, EditType DEF UserDeletesCluster, TypeOK, objects, caches, workers
<1> QED
  BY <1>1, <1>2, <1>3, <1>4, <1>5 DEF Users

LEMMA FaultsType ==
    ASSUME TypeOK, NamesAreKnown, BackupCallFails \/ RestoreCallFails \/ OperatorRestarts
    PROVE  TypeOK'
<1>1. CASE BackupCallFails
  BY <1>1, FaultType, BackupReturnsType DEF BackupCallFails, TypeOK, objects, caches, world
<1>2. CASE RestoreCallFails
  BY <1>2, FaultType, RestoreReturnsType DEF RestoreCallFails, TypeOK, objects, caches, world
<1>3. CASE OperatorRestarts
  <2>1. /\ seenBackups' \in [Backups -> CacheOf(Backup)]
        /\ seenRestores' \in [Restores -> CacheOf(Restore)]
        /\ seenJobs' \in [Names -> CacheOf(Job)]
    <3>1. seenBackups' \in [Backups -> CacheOf(Backup)]
      BY <1>3 DEF OperatorRestarts, Cached, TypeOK, CacheOf
    <3>2. seenRestores' \in [Restores -> CacheOf(Restore)]
      BY <1>3 DEF OperatorRestarts, Cached, TypeOK, CacheOf
    <3>3. seenJobs' \in [Names -> CacheOf(Job)]
      BY <1>3 DEF OperatorRestarts, Cached, TypeOK, CacheOf
    <3> QED
      BY <3>1, <3>2, <3>3
  <2> QED
    BY <1>3, <2>1, NoCallsType, FaultType DEF OperatorRestarts, TypeOK, objects, world
<1> QED
  BY <1>1, <1>2, <1>3

LEMMA NextTypeOK == ASSUME TypeOK, NamesAreKnown, [Next]_vars PROVE TypeOK'
<1>1. CASE Next
  BY <1>1, BackupStartsType, BackupCreatesJobType, BackupWritesStatusType,
     RestoreStartsType, RestoreCreatesJobType, RestoreWritesStatusType,
     InformersType, JobStepsType, UsersType, FaultsType
  DEF Next, BackupReconcile, RestoreReconcile
<1>2. CASE UNCHANGED vars
  BY <1>2 DEF vars, objects, caches, world, workers, TypeOK
<1> QED
  BY <1>1, <1>2

-----------------------------------------------------------------------------
(* What a step does to each variable *)

\* The controller writes the status its call decided on, to the object the call
\* read; or a user deletes the backup, and a call that read it is stale.
BackupStep(b) ==
    \/ backups'[b] = backups[b]
    \/ /\ backupWorker.pc = "writeStatus" /\ backupWorker.fresh /\ backupWorker.name = b
       /\ backups'[b] = backupWorker.obj /\ backupWorker' = NoBackupCall
    \/ /\ ~backups'[b].exists /\ backups'[b].phase = "" /\ backups'[b].uid = backups[b].uid
       /\ backupWorker' = [backupWorker EXCEPT !.fresh = @ /\ backupWorker.name # b]

LEMMA BackupSteps ==
    ASSUME TypeOK, NamesAreKnown, JobsAreKept, [Next]_vars, NEW b \in Backups
    PROVE  BackupStep(b)
<1>1. \/ BackupWritesStatus
      \/ \E c \in Backups : UserDeletesBackup(c)
      \/ UNCHANGED backups
  BY DEF Next, BackupReconcile, BackupStarts, BackupCreatesJob, RestoreReconcile, RestoreStarts,
     RestoreCreatesJob, RestoreWritesStatus, Informers, SyncBackup, SyncRestore, SyncJob,
     JobSteps, AttemptSucceeds, AttemptFails, JobGivesUp, PodEvicted, GarbageCollects,
     KeepControllers, Users, UserRecreatesBackup, UserDeletesRestore, UserDeletesJob,
     UserDeletesCluster, BackupCallFails, RestoreCallFails, OperatorRestarts, Edit, JobsAreKept,
     vars, objects
<1>2. CASE BackupWritesStatus
  BY <1>2 DEF BackupWritesStatus, BackupReturns, BackupStep, TypeOK
<1>3. ASSUME NEW c \in Backups, UserDeletesBackup(c) PROVE BackupStep(b)
  <2>1. backups' = [backups EXCEPT ![c] = [NoBackup EXCEPT !.uid = backups[c].uid]]
        /\ backupWorker' = [backupWorker EXCEPT !.fresh = @ /\ backupWorker.name # c]
    BY <1>3 DEF UserDeletesBackup
  <2>2. CASE b = c
    BY <2>1, <2>2 DEF BackupStep, NoBackup, TypeOK
  <2>3. CASE b # c
    BY <2>1, <2>3 DEF BackupStep, TypeOK
  <2> QED
    BY <2>2, <2>3
<1> QED
  BY <1>1, <1>2, <1>3 DEF BackupStep

RestoreStep(r) ==
    \/ restores'[r] = restores[r]
    \/ /\ restoreWorker.pc = "writeStatus" /\ restoreWorker.fresh /\ restoreWorker.name = r
       /\ restores'[r] = restoreWorker.obj /\ restoreWorker' = NoRestoreCall
    \/ /\ restores'[r] = NoRestore
       /\ restoreWorker' = [restoreWorker EXCEPT !.fresh = @ /\ restoreWorker.name # r]

LEMMA RestoreSteps ==
    ASSUME TypeOK, [Next]_vars, NEW r \in Restores
    PROVE  RestoreStep(r)
<1>1. \/ RestoreWritesStatus
      \/ \E c \in Restores : UserDeletesRestore(c)
      \/ UNCHANGED restores
  BY DEF Next, BackupReconcile, BackupStarts, BackupCreatesJob, BackupWritesStatus,
     RestoreReconcile, RestoreStarts, RestoreCreatesJob, Informers, SyncBackup, SyncRestore,
     SyncJob, JobSteps, AttemptSucceeds, AttemptFails, JobGivesUp, PodEvicted, GarbageCollects,
     KeepControllers, Users, UserDeletesBackup, UserRecreatesBackup, UserDeletesJob,
     UserDeletesCluster, BackupCallFails, RestoreCallFails, OperatorRestarts, vars, objects
<1>2. CASE RestoreWritesStatus
  BY <1>2 DEF RestoreWritesStatus, RestoreReturns, RestoreStep, TypeOK
<1>3. ASSUME NEW c \in Restores, UserDeletesRestore(c) PROVE RestoreStep(r)
  BY <1>3 DEF UserDeletesRestore, RestoreStep, TypeOK
<1> QED
  BY <1>1, <1>2, <1>3 DEF RestoreStep

\* A copy stays what it is, and is current only while the object does; or it is
\* read again.
CacheStep(copy, newCopy, object, newObject) ==
    \/ /\ newCopy.obj = copy.obj
       /\ newCopy.current => copy.current /\ newObject = object
    \/ newCopy.obj = object /\ newObject = object

LEMMA BackupCacheSteps ==
    ASSUME TypeOK, NamesAreKnown, [Next]_vars, NEW b \in Backups
    PROVE  CacheStep(seenBackups[b], seenBackups'[b], backups[b], backups'[b])
<1>1. seenBackups \in [Backups -> CacheOf(Backup)] /\ backups \in [Backups -> Backup]
  BY DEF TypeOK
<1>2. \/ BackupWritesStatus
      \/ \E c \in Backups : UserDeletesBackup(c) \/ UserRecreatesBackup(c) \/ SyncBackup(c)
      \/ OperatorRestarts
      \/ UNCHANGED <<backups, seenBackups>>
  BY DEF Next, BackupReconcile, BackupStarts, BackupCreatesJob, RestoreReconcile, RestoreStarts,
     RestoreCreatesJob, RestoreWritesStatus, Informers, SyncRestore, SyncJob,
     JobSteps, AttemptSucceeds, AttemptFails, JobGivesUp, PodEvicted, GarbageCollects,
     KeepControllers, Users, UserDeletesRestore, UserDeletesJob,
     UserDeletesCluster, BackupCallFails, RestoreCallFails, vars, objects, caches
<1>3. ASSUME NEW c \in Backups, NEW o, NEW changed, changed <=> o # backups[c],
             backups' = [backups EXCEPT ![c] = o], seenBackups' = Behind(seenBackups, c, changed)
      PROVE  CacheStep(seenBackups[b], seenBackups'[b], backups[b], backups'[b])
  <2>1. /\ seenBackups'[b].obj = seenBackups[b].obj
        /\ seenBackups'[b].current => seenBackups[b].current /\ (changed => b # c)
    BY <1>1, <1>3, BehindType
  <2> QED
    BY <1>1, <1>3, <2>1 DEF CacheStep
<1>4. CASE BackupWritesStatus
  <2>1. CASE backupWorker.fresh
    <3>1. backupWorker.name \in Backups
      BY <1>4 DEF BackupWritesStatus, NamesAreKnown
    <3> QED
      BY <1>3, <1>4, <2>1, <3>1 DEF BackupWritesStatus
  <2>2. CASE ~backupWorker.fresh
    BY <1>4, <2>2 DEF BackupWritesStatus, CacheStep
  <2> QED
    BY <2>1, <2>2
<1>5. ASSUME NEW c \in Backups, UserDeletesBackup(c) \/ UserRecreatesBackup(c)
      PROVE  CacheStep(seenBackups[b], seenBackups'[b], backups[b], backups'[b])
  <2>1. \E o \in {[NoBackup EXCEPT !.uid = backups[c].uid],
                  [NoBackup EXCEPT !.exists = TRUE, !.uid = backups[c].uid + 1]} :
           backups' = [backups EXCEPT ![c] = o] /\ o.exists # backups[c].exists
    BY <1>5 DEF UserDeletesBackup, UserRecreatesBackup, NoBackup
  <2>2. seenBackups' = Behind(seenBackups, c, TRUE)
    BY <1>5 DEF UserDeletesBackup, UserRecreatesBackup
  <2> QED
    BY <1>3, <2>1, <2>2
<1>6. ASSUME NEW c \in Backups, SyncBackup(c)
      PROVE  CacheStep(seenBackups[b], seenBackups'[b], backups[b], backups'[b])
  BY <1>1, <1>6 DEF SyncBackup, Cached, CacheStep, objects
<1>7. CASE OperatorRestarts
  BY <1>1, <1>7 DEF OperatorRestarts, Cached, CacheStep, objects
<1> QED
  BY <1>2, <1>4, <1>5, <1>6, <1>7 DEF CacheStep

LEMMA RestoreCacheSteps ==
    ASSUME TypeOK, NamesAreKnown, [Next]_vars, NEW r \in Restores
    PROVE  CacheStep(seenRestores[r], seenRestores'[r], restores[r], restores'[r])
<1>1. seenRestores \in [Restores -> CacheOf(Restore)] /\ restores \in [Restores -> Restore]
  BY DEF TypeOK
<1>2. \/ RestoreWritesStatus
      \/ \E c \in Restores : UserDeletesRestore(c) \/ SyncRestore(c)
      \/ OperatorRestarts
      \/ UNCHANGED <<restores, seenRestores>>
  BY DEF Next, BackupReconcile, BackupStarts, BackupCreatesJob, BackupWritesStatus,
     RestoreReconcile, RestoreStarts, RestoreCreatesJob, Informers, SyncBackup, SyncJob,
     JobSteps, AttemptSucceeds, AttemptFails, JobGivesUp, PodEvicted, GarbageCollects,
     KeepControllers, Users, UserDeletesBackup, UserRecreatesBackup, UserDeletesJob,
     UserDeletesCluster, BackupCallFails, RestoreCallFails, vars, objects, caches
<1>3. ASSUME NEW c \in Restores, NEW o, NEW changed, changed <=> o # restores[c],
             restores' = [restores EXCEPT ![c] = o],
             seenRestores' = Behind(seenRestores, c, changed)
      PROVE  CacheStep(seenRestores[r], seenRestores'[r], restores[r], restores'[r])
  <2>1. /\ seenRestores'[r].obj = seenRestores[r].obj
        /\ seenRestores'[r].current => seenRestores[r].current /\ (changed => r # c)
    BY <1>1, <1>3, BehindType
  <2> QED
    BY <1>1, <1>3, <2>1 DEF CacheStep
<1>4. CASE RestoreWritesStatus
  <2>1. CASE restoreWorker.fresh
    <3>1. restoreWorker.name \in Restores
      BY <1>4 DEF RestoreWritesStatus, NamesAreKnown
    <3> QED
      BY <1>3, <1>4, <2>1, <3>1 DEF RestoreWritesStatus
  <2>2. CASE ~restoreWorker.fresh
    BY <1>4, <2>2 DEF RestoreWritesStatus, CacheStep
  <2> QED
    BY <2>1, <2>2
<1>5. ASSUME NEW c \in Restores, UserDeletesRestore(c)
      PROVE  CacheStep(seenRestores[r], seenRestores'[r], restores[r], restores'[r])
  <2>1. NoRestore # restores[c]
    <3>1. restores[c].exists /\ ~NoRestore.exists
      BY <1>5 DEF UserDeletesRestore, NoRestore
    <3> QED
      BY <3>1
  <2>2. /\ restores' = [restores EXCEPT ![c] = NoRestore]
        /\ seenRestores' = Behind(seenRestores, c, TRUE)
    BY <1>5 DEF UserDeletesRestore
  <2> QED
    BY <1>3, <2>1, <2>2
<1>6. ASSUME NEW c \in Restores, SyncRestore(c)
      PROVE  CacheStep(seenRestores[r], seenRestores'[r], restores[r], restores'[r])
  BY <1>1, <1>6 DEF SyncRestore, Cached, CacheStep, objects
<1>7. CASE OperatorRestarts
  BY <1>1, <1>7 DEF OperatorRestarts, Cached, CacheStep, objects
<1> QED
  BY <1>2, <1>4, <1>5, <1>6, <1>7 DEF CacheStep

LEMMA NextCachesFollow ==
    ASSUME TypeOK, NamesAreKnown, CachesFollow, [Next]_vars
    PROVE  CachesFollow'
  BY BackupCacheSteps, RestoreCacheSteps DEF CachesFollow, CacheStep

\* A Job is created by a call, runs on as the same Job, or is gone: collected
\* once its owner is, or deleted by a user.
JobStep(n) ==
    \/ jobs'[n] = jobs[n]
    \/ /\ backupWorker.pc = "createJob" /\ backupWorker.name = n /\ ~jobs[n].exists
       /\ jobs'[n] = NewJob("backup", backupWorker.obj.uid)
       /\ UNCHANGED <<backups, seenBackups, files, loaded>>
    \/ /\ restoreWorker.pc = "createJob" /\ restoreWorker.name = n /\ ~jobs[n].exists
       /\ jobs'[n] = NewJob("restore", 0)
       /\ UNCHANGED <<restores, seenRestores, files, loaded>>
    \/ /\ jobs[n].exists /\ jobs[n].state = "active"
       /\ jobs'[n].exists /\ jobs'[n].owner = jobs[n].owner
       /\ jobs'[n].state = "complete" => AttemptSucceeds(n)
       /\ UNCHANGED <<backups, restores, workers>>
    \/ /\ jobs'[n] = NoJob
       /\ JobsAreKept => jobs[n].exists /\ ~OwnerExists(n)
       /\ UNCHANGED <<backups, restores, files, loaded, workers>>

LEMMA JobStepsAre ==
    ASSUME TypeOK, NamesAreKnown, [Next]_vars, NEW n \in Names
    PROVE  JobStep(n)
<1>1. jobs \in [Names -> Job] /\ jobs[n] \in Job
  BY DEF TypeOK
<1>2. \/ BackupCreatesJob \/ RestoreCreatesJob \/ JobSteps
      \/ \E m \in Names : UserDeletesJob(m)
      \/ UNCHANGED jobs
  BY DEF Next, BackupReconcile, BackupStarts, BackupWritesStatus, RestoreReconcile, RestoreStarts,
     RestoreWritesStatus, Informers, SyncBackup, SyncRestore, SyncJob,
     Users, UserDeletesBackup, UserRecreatesBackup, UserDeletesRestore,
     UserDeletesCluster, BackupCallFails, RestoreCallFails, OperatorRestarts, vars, objects
<1>3. CASE BackupCreatesJob
  BY <1>1, <1>3 DEF BackupCreatesJob, WriteJob, JobStep, world
<1>4. CASE RestoreCreatesJob
  BY <1>1, <1>4 DEF RestoreCreatesJob, WriteJob, JobStep, world
<1>5. CASE JobSteps
  <2>1. PICK m \in Names : \/ AttemptSucceeds(m) \/ AttemptFails(m) \/ JobGivesUp(m)
                           \/ PodEvicted(m) \/ GarbageCollects(m)
    BY <1>5 DEF JobSteps
  <2>2. KeepControllers
    BY <2>1 DEF AttemptSucceeds, AttemptFails, JobGivesUp, PodEvicted, GarbageCollects
  <2>3. CASE m # n
    BY <1>1, <2>1, <2>3
    DEF AttemptSucceeds, AttemptFails, JobGivesUp, PodEvicted, GarbageCollects, WriteJob, JobStep
  <2>4. CASE m = n
    <3>1. CASE AttemptSucceeds(n)
      <4>1. jobs'[n] = [jobs[n] EXCEPT !.state = "complete"] /\ jobs[n].exists /\ jobs[n].state = "active"
        BY <1>1, <3>1 DEF AttemptSucceeds, WriteJob, Runs
      <4> QED
        BY <1>1, <2>2, <3>1, <4>1 DEF JobStep, KeepControllers, Job
    <3>2. CASE AttemptFails(n)
      BY <3>2 DEF AttemptFails, JobStep
    <3>3. CASE JobGivesUp(n)
      <4>1. /\ jobs'[n] = [jobs[n] EXCEPT !.state = "failed", !.failed = TRUE]
            /\ jobs[n].exists /\ jobs[n].state = "active"
        BY <1>1, <3>3 DEF JobGivesUp, WriteJob, Runs
      <4> QED
        BY <1>1, <2>2, <4>1 DEF JobStep, KeepControllers, Job
    <3>4. CASE PodEvicted(n)
      <4>1. jobs'[n] = [jobs[n] EXCEPT !.failed = TRUE] /\ jobs[n].exists /\ jobs[n].state = "active"
        BY <1>1, <3>4 DEF PodEvicted, WriteJob, Runs
      <4> QED
        BY <1>1, <2>2, <4>1 DEF JobStep, KeepControllers, Job
    <3>5. CASE GarbageCollects(n)
      BY <1>1, <2>2, <3>5 DEF GarbageCollects, WriteJob, JobStep, KeepControllers
    <3> QED
      BY <2>1, <2>4, <3>1, <3>2, <3>3, <3>4, <3>5
  <2> QED
    BY <2>3, <2>4
<1>6. CASE UNCHANGED jobs
  BY <1>6 DEF JobStep
<1>7. ASSUME NEW m \in Names, UserDeletesJob(m) PROVE JobStep(n)
  BY <1>1, <1>7 DEF UserDeletesJob, Edit, JobsAreKept, WriteJob, KeepControllers, JobStep
<1> QED
  BY <1>2, <1>3, <1>4, <1>5, <1>6, <1>7

LEMMA JobCacheSteps ==
    ASSUME TypeOK, NamesAreKnown, [Next]_vars, NEW n \in Names
    PROVE  \/ seenJobs'[n].obj = seenJobs[n].obj
           \/ seenJobs'[n].obj = jobs[n] /\ UNCHANGED objects
<1>1. seenJobs \in [Names -> CacheOf(Job)]
  BY DEF TypeOK
<1>2. \/ BackupCreatesJob \/ RestoreCreatesJob \/ JobSteps
      \/ \E m \in Names : UserDeletesJob(m) \/ SyncJob(m)
      \/ OperatorRestarts
      \/ UNCHANGED seenJobs
  BY DEF Next, BackupReconcile, BackupStarts, BackupWritesStatus, RestoreReconcile, RestoreStarts,
     RestoreWritesStatus, Informers, SyncBackup, SyncRestore, Users, UserDeletesBackup,
     UserRecreatesBackup, UserDeletesRestore, UserDeletesCluster, BackupCallFails,
     RestoreCallFails, vars, caches
<1>3. ASSUME NEW m \in Names, NEW job, WriteJob(m, job)
      PROVE  seenJobs'[n].obj = seenJobs[n].obj
  BY <1>1, <1>3, BehindType DEF WriteJob
<1>4. ASSUME NEW m \in Names, SyncJob(m)
      PROVE  \/ seenJobs'[n].obj = seenJobs[n].obj
             \/ seenJobs'[n].obj = jobs[n] /\ UNCHANGED objects
  BY <1>1, <1>4 DEF SyncJob, Cached
<1>5. CASE OperatorRestarts
  BY <1>1, <1>5 DEF OperatorRestarts, Cached
<1>6. CASE BackupCreatesJob
  <2>1. backupWorker.name \in Names
    BY <1>6, NameFacts DEF BackupCreatesJob, NamesAreKnown
  <2> QED
    BY <1>3, <1>6, <2>1 DEF BackupCreatesJob
<1>7. CASE RestoreCreatesJob
  <2>1. restoreWorker.name \in Names
    BY <1>7, NameFacts DEF RestoreCreatesJob, NamesAreKnown
  <2> QED
    BY <1>3, <1>7, <2>1 DEF RestoreCreatesJob
<1>8. CASE JobSteps
  BY <1>3, <1>8
  DEF JobSteps, AttemptSucceeds, AttemptFails, JobGivesUp, PodEvicted, GarbageCollects
<1>9. ASSUME NEW m \in Names, UserDeletesJob(m)
      PROVE  seenJobs'[n].obj = seenJobs[n].obj
  BY <1>3, <1>9 DEF UserDeletesJob
<1> QED
  BY <1>2, <1>4, <1>5, <1>6, <1>7, <1>8, <1>9

\* A file is written by the Job of its backup only, and what is loaded is the
\* file of the source.
LEMMA FileSteps ==
    ASSUME TypeOK, [Next]_vars
    PROVE  /\ \A b \in Backups : files'[b] = files[b] \/ Runs(b, "backup")
           /\ \A r \in Restores :
                \/ loaded'[r] = loaded[r]
                \/ /\ Runs(r, "restore") /\ loaded'[r] = files[SourceOf[r]]
                   /\ UNCHANGED restores
<1>1. \/ \E n \in Names : AttemptSucceeds(n) \/ AttemptFails(n)
      \/ UNCHANGED <<files, loaded>>
  BY DEF Next, BackupReconcile, BackupStarts, BackupCreatesJob, BackupWritesStatus,
     RestoreReconcile, RestoreStarts, RestoreCreatesJob, RestoreWritesStatus, Informers,
     SyncBackup, SyncRestore, SyncJob, JobSteps, JobGivesUp, PodEvicted,
     GarbageCollects, Users, UserDeletesBackup, UserRecreatesBackup, UserDeletesRestore,
     UserDeletesJob, UserDeletesCluster, BackupCallFails, RestoreCallFails, OperatorRestarts,
     vars, world
<1>2. ASSUME NEW n \in Names, AttemptSucceeds(n) \/ AttemptFails(n)
      PROVE  /\ \/ Runs(n, "backup") /\ (\E complete \in BOOLEAN : WritesFile(n, complete))
                \/ Runs(n, "restore") /\ LoadsFile(n)
             /\ UNCHANGED restores
  BY <1>2 DEF AttemptSucceeds, AttemptFails, KeepControllers
<1>3. files \in [Backups -> File] /\ loaded \in [Restores -> File]
  BY DEF TypeOK
<1> QED
  BY <1>1, <1>2, <1>3 DEF WritesFile, LoadsFile

LEMMA SuccessfulAttempt ==
    ASSUME TypeOK, NEW n \in Names, AttemptSucceeds(n)
    PROVE  /\ n \in Backups /\ jobs[n].owner.kind = "backup" =>
                files'[n] = [by |-> jobs[n].owner.uid, complete |-> TRUE]
           /\ n \in Restores /\ jobs[n].owner.kind = "restore" =>
                loaded'[n] = files[SourceOf[n]]
<1>1. files \in [Backups -> File] /\ loaded \in [Restores -> File]
  BY DEF TypeOK
<1> QED
  BY <1>1 DEF AttemptSucceeds, Runs, WritesFile, LoadsFile

\* A call starts, creates its Job, ends, or is made stale by a user.
LEMMA BackupWorkerSteps ==
    ASSUME TypeOK, NamesAreKnown, [Next]_vars
    PROVE  \/ backupWorker' = backupWorker
           \/ backupWorker' = NoBackupCall
           \/ /\ backupWorker.pc = "createJob" /\ ~jobs[backupWorker.name].exists
              /\ backupWorker' = [backupWorker EXCEPT !.pc = "writeStatus"]
              /\ UNCHANGED <<backups, seenBackups>>
           \/ /\ \E b \in Backups : BackupCallStarted(b)
              /\ UNCHANGED <<objects, caches, files, loaded>>
           \/ \E b \in Backups :
                /\ ~backups'[b].exists
                /\ backupWorker' = [backupWorker EXCEPT !.fresh = @ /\ backupWorker.name # b]
                /\ \A c \in Backups \ {b} : backups'[c] = backups[c]
                /\ UNCHANGED <<jobs, seenJobs>>
<1>1. \/ BackupReconcile \/ BackupCallFails \/ OperatorRestarts
      \/ \E b \in Backups : UserDeletesBackup(b)
      \/ UNCHANGED backupWorker
  BY DEF Next, RestoreReconcile, RestoreStarts, RestoreCreatesJob, RestoreWritesStatus, Informers,
     SyncBackup, SyncRestore, SyncJob, JobSteps, AttemptSucceeds, AttemptFails, JobGivesUp,
     PodEvicted, GarbageCollects, KeepControllers, Users, UserRecreatesBackup,
     UserDeletesRestore, UserDeletesJob, UserDeletesCluster, RestoreCallFails, vars, workers
<1>2. ASSUME NEW b \in Backups, BackupStarts(b)
      PROVE  /\ backupWorker' = backupWorker \/ BackupCallStarted(b)
             /\ UNCHANGED <<objects, caches, files, loaded>>
  BY <1>2, BackupStartsCall DEF BackupStarts, world
<1>3. CASE BackupCreatesJob
  BY <1>3 DEF BackupCreatesJob, BackupReturns
<1>4. CASE BackupWritesStatus \/ BackupCallFails \/ OperatorRestarts
  BY <1>4 DEF BackupWritesStatus, BackupCallFails, BackupReturns, OperatorRestarts
<1>5. ASSUME NEW b \in Backups, UserDeletesBackup(b)
      PROVE  /\ ~backups'[b].exists
             /\ backupWorker' = [backupWorker EXCEPT !.fresh = @ /\ backupWorker.name # b]
             /\ \A c \in Backups \ {b} : backups'[c] = backups[c]
             /\ UNCHANGED <<jobs, seenJobs>>
  BY <1>5 DEF UserDeletesBackup, NoBackup, TypeOK
<1> QED
  BY <1>1, <1>2, <1>3, <1>4, <1>5 DEF BackupReconcile

LEMMA RestoreWorkerSteps ==
    ASSUME TypeOK, NamesAreKnown, [Next]_vars
    PROVE  \/ restoreWorker' = restoreWorker
           \/ restoreWorker' = NoRestoreCall
           \/ /\ restoreWorker.pc = "createJob"
              /\ restoreWorker' = [restoreWorker EXCEPT !.pc = "writeStatus"]
              /\ UNCHANGED <<restores, seenRestores>>
           \/ /\ \E r \in Restores : RestoreCallStarted(r)
              /\ UNCHANGED <<objects, caches, files, loaded, backupWorker>>
           \/ \E r \in Restores :
                /\ ~restores'[r].exists
                /\ restoreWorker' = [restoreWorker EXCEPT !.fresh = @ /\ restoreWorker.name # r]
                /\ \A c \in Restores \ {r} : restores'[c] = restores[c]
<1>1. \/ RestoreReconcile \/ RestoreCallFails \/ OperatorRestarts
      \/ \E r \in Restores : UserDeletesRestore(r)
      \/ UNCHANGED restoreWorker
  BY DEF Next, BackupReconcile, BackupStarts, BackupCreatesJob, BackupWritesStatus, Informers,
     SyncBackup, SyncRestore, SyncJob, JobSteps, AttemptSucceeds, AttemptFails, JobGivesUp,
     PodEvicted, GarbageCollects, KeepControllers, Users, UserDeletesBackup,
     UserRecreatesBackup, UserDeletesJob, UserDeletesCluster, BackupCallFails, vars, workers
<1>2. ASSUME NEW r \in Restores, RestoreStarts(r)
      PROVE  /\ restoreWorker' = restoreWorker \/ RestoreCallStarted(r)
             /\ UNCHANGED <<objects, caches, files, loaded, backupWorker>>
  BY <1>2, RestoreStartsCall DEF RestoreStarts, world
<1>3. CASE RestoreCreatesJob
  BY <1>3 DEF RestoreCreatesJob, RestoreReturns
<1>4. CASE RestoreWritesStatus \/ RestoreCallFails \/ OperatorRestarts
  BY <1>4 DEF RestoreWritesStatus, RestoreCallFails, RestoreReturns, OperatorRestarts
<1>5. ASSUME NEW r \in Restores, UserDeletesRestore(r)
      PROVE  /\ ~restores'[r].exists
             /\ restoreWorker' = [restoreWorker EXCEPT !.fresh = @ /\ restoreWorker.name # r]
             /\ \A c \in Restores \ {r} : restores'[c] = restores[c]
  BY <1>5 DEF UserDeletesRestore, NoRestore, TypeOK
<1> QED
  BY <1>1, <1>2, <1>3, <1>4, <1>5 DEF RestoreReconcile

-----------------------------------------------------------------------------
(* Names and types *)

\* What Reconcile makes of a restore that is not yet decided.
LEMMA DecisionIsForward ==
    ASSUME NEW r, NEW restore \in Restore, NEW b, NEW job, ~Terminal(restore.phase)
    PROVE  LET to == Decision(r, restore, b, job)
           IN  /\ <<restore.phase, to.phase>> \in Forward
               /\ to.note = "created" => restore.phase = "Loading" /\ b.exists
               /\ to.phase = "Loading" =>
                    \/ restore.phase = "Loading"
                    \/ SourceOf[r] # NoName /\ b.exists /\ b.phase = "Succeeded"
               /\ to.phase = "Succeeded" => restore.phase = "Loading" /\ Completed(job)
<1>1. restore.phase \in {"", "Pending", "Loading"}
  BY DEF Restore, Terminal
<1>2. CASE restore.phase = ""
  BY <1>2 DEF Decision, To, Forward
<1>3. CASE restore.phase = "Pending"
  BY <1>3 DEF Decision, Validation, To, Forward
<1>4. CASE restore.phase = "Loading"
  <2>1. CASE ~b.exists \/ ~job.exists
    BY <1>4, <2>1 DEF Decision, To, Forward
  <2>2. CASE b.exists /\ job.exists
    <3>1. Decision(r, restore, b, job) = Progress(job)
      BY <1>4, <2>2 DEF Decision
    <3>2. /\ Progress(job).phase \in {"Loading", "Succeeded", "Failed"}
          /\ Progress(job).note # "created"
          /\ Progress(job).phase = "Succeeded" => job.state = "complete"
      BY DEF Progress, To, Terminal, JobResult
    <3> QED
      BY <1>4, <2>2, <3>1, <3>2 DEF Forward, Completed
  <2> QED
    BY <2>1, <2>2
<1> QED
  BY <1>1, <1>2, <1>3, <1>4

LEMMA SourceReadExists ==
    ASSUME NEW r, SourceRead(r).exists
    PROVE  SourceOf[r] # NoName
  BY DEF SourceRead, NoBackup

LEMMA InitNamesAreKnown == Init => NamesAreKnown
<1> SUFFICES ASSUME Init PROVE NamesAreKnown
  OBVIOUS
<1>1. ~NoJob.exists
  BY DEF NoJob, NewJob
<1>2. \A n \in Names : JobIsNamed(jobs[n], n) /\ JobIsNamed(seenJobs[n].obj, n)
  BY <1>1 DEF Init, JobIsNamed, Cached
<1>3. backupWorker.pc = "idle" /\ restoreWorker.pc = "idle"
  BY DEF Init, NoBackupCall, NoRestoreCall
<1> QED
  BY <1>2, <1>3 DEF NamesAreKnown

LEMMA NextNamesAreKnown ==
    ASSUME TypeOK, NamesAreKnown, [Next]_vars
    PROVE  NamesAreKnown'
<1>1. ASSUME NEW n \in Names PROVE JobIsNamed(jobs'[n], n) /\ JobIsNamed(seenJobs'[n].obj, n)
  <2>1. JobIsNamed(jobs'[n], n)
    BY JobStepsAre DEF JobStep, NamesAreKnown, JobIsNamed, NewJob, NoJob
  <2>2. JobIsNamed(seenJobs'[n].obj, n)
    BY JobCacheSteps DEF NamesAreKnown
  <2> QED
    BY <2>1, <2>2
<1>2. backupWorker'.pc # "idle" => backupWorker'.name \in Backups
  BY BackupWorkerSteps DEF NamesAreKnown, NoBackupCall, BackupCallStarted, TypeOK, BackupWorker
<1>3. restoreWorker'.pc # "idle" => restoreWorker'.name \in Restores
  BY RestoreWorkerSteps DEF NamesAreKnown, NoRestoreCall, RestoreCallStarted, TypeOK, RestoreWorker
<1>4. restoreWorker'.pc = "createJob" => SourceOf[restoreWorker'.name] # NoName
  <2>1. ASSUME NEW r \in Restores, RestoreCallStarted(r), restoreWorker'.pc = "createJob"
        PROVE  SourceOf[restoreWorker'.name] # NoName
    <3> DEFINE restore == seenRestores[r].obj
               to == Decision(r, restore, SourceRead(r), seenJobs[r].obj)
    <3>1. restore \in Restore
      BY DEF TypeOK, CacheOf
    <3>2. ~Terminal(restore.phase) /\ to.note = "created" /\ restoreWorker'.name = r
      BY <2>1 DEF RestoreCallStarted
    <3>3. SourceRead(r).exists
      BY <3>1, <3>2, DecisionIsForward
    <3> QED
      BY <3>2, <3>3, SourceReadExists
  <2> QED
    BY <2>1, RestoreWorkerSteps DEF NamesAreKnown, NoRestoreCall, TypeOK, RestoreWorker
<1> QED
  BY <1>1, <1>2, <1>3, <1>4 DEF NamesAreKnown

\* Every object, cache, file and call of the backup and restore controllers keeps
\* its type, whatever the names and whatever users do; a Job has an owner of its
\* name.
THEOREM TypeCorrect == Spec => []TypeOK
<1>1. Init => TypeOK /\ NamesAreKnown
  BY InitTypeOK, InitNamesAreKnown
<1>2. TypeOK /\ NamesAreKnown /\ [Next]_vars => (TypeOK /\ NamesAreKnown)'
  BY NextTypeOK, NextNamesAreKnown
<1> QED
  BY <1>1, <1>2, PTL DEF Spec

-----------------------------------------------------------------------------
(* Backups *)

LEMMA NextOwnersAreKnown ==
    ASSUME NamesAreDisjoint, JobsAreKept, IInv, [Next]_vars
    PROVE  OwnersAreKnown'
<1>1. TypeOK /\ NamesAreKnown /\ OwnersAreKnown
  BY DEF IInv
<1>2. ASSUME NEW b \in Backups
      PROVE  /\ backups'[b].uid = 1 /\ seenBackups'[b].obj.uid = 1
             /\ jobs'[b].exists => jobs'[b].owner = [kind |-> "backup", uid |-> 1]
  <2>1. backups'[b].uid = 1
    <3>1. BackupStep(b)
      BY <1>1, BackupSteps
    <3>2. \/ backups'[b].uid = backups[b].uid
          \/ backupWorker.pc # "idle" /\ backups'[b] = backupWorker.obj
      BY <3>1 DEF BackupStep
    <3> QED
      BY <1>1, <3>2 DEF OwnersAreKnown
  <2>2. seenBackups'[b].obj.uid = 1
    BY <1>1, BackupCacheSteps DEF CacheStep, OwnersAreKnown
  <2>3. jobs'[b].exists => jobs'[b].owner = [kind |-> "backup", uid |-> 1]
    <3>1. JobStep(b) /\ b \notin Restores
      BY <1>1, NameFacts, JobStepsAre DEF NamesAreDisjoint
    <3> QED
      BY <1>1, <3>1 DEF JobStep, OwnersAreKnown, NamesAreKnown, NewJob, NoJob
  <2> QED
    BY <2>1, <2>2, <2>3
<1>3. ASSUME NEW r \in Restores
      PROVE  jobs'[r].exists => jobs'[r].owner = [kind |-> "restore", uid |-> 0]
  <2>1. JobStep(r) /\ r \notin Backups
    BY <1>1, NameFacts, JobStepsAre DEF NamesAreDisjoint
  <2> QED
    BY <1>1, <2>1 DEF JobStep, OwnersAreKnown, NamesAreKnown, NewJob, NoJob
<1>4. backupWorker'.pc # "idle" => backupWorker'.obj.uid = 1
  BY <1>1, BackupWorkerSteps
  DEF OwnersAreKnown, NoBackupCall, BackupCallStarted, TypeOK, BackupWorker
<1> QED
  BY <1>2, <1>3, <1>4 DEF OwnersAreKnown

\* A Job that has completed is not collected before its backup is deleted.
LEMMA NextBackupJobsArePersistent ==
    ASSUME NamesAreDisjoint, JobsAreKept, IInv, [Next]_vars
    PROVE  BackupJobsArePersistent'
<1>1. TypeOK /\ NamesAreKnown /\ OwnersAreKnown /\ BackupJobsArePersistent /\ BackupCallIsSound
  BY DEF IInv
<1> SUFFICES ASSUME NEW b \in Backups
             PROVE  /\ Completed(jobs'[b]) => Written(b)'
                    /\ backups'[b].exists /\ seenJobs'[b].obj.exists => jobs'[b].exists
                    /\ backups'[b].exists /\ Completed(seenJobs'[b].obj) => Completed(jobs'[b])
                    /\ backups'[b].phase = "Succeeded" => /\ backups'[b].exists
                                                          /\ Completed(seenJobs'[b].obj)
  BY DEF BackupJobsArePersistent, Completed
<1>2. b \in Names /\ b \notin Restores
  BY NameFacts DEF NamesAreDisjoint
<1>3. JobStep(b) /\ BackupStep(b)
  BY <1>1, <1>2, JobStepsAre, BackupSteps
<1>4. backups'[b].exists => backups[b].exists
  BY <1>1, <1>3 DEF BackupStep, BackupCallIsSound
<1>5. jobs[b].exists => /\ jobs[b].owner.kind = "backup" /\ jobs[b].owner.uid = 1
                        /\ OwnerExists(b) <=> backups[b].exists
  BY <1>1 DEF OwnersAreKnown, OwnerExists
<1>6. jobs[b].exists /\ backups'[b].exists => jobs'[b].exists
  BY <1>1, <1>3, <1>4, <1>5 DEF JobStep, NewJob
<1>7. Completed(jobs[b]) => jobs'[b] = jobs[b] \/ ~backups'[b].exists
  BY <1>1, <1>3, <1>4, <1>5 DEF JobStep, Completed
<1>8. Completed(jobs'[b]) => Written(b)'
  <2>1. CASE jobs'[b] = jobs[b]
    <3>1. files'[b] = files[b] \/ Runs(b, "backup")
      BY <1>1, FileSteps
    <3> QED
      BY <1>1, <2>1, <3>1 DEF BackupJobsArePersistent, Completed, Runs, Written
  <2>2. CASE AttemptSucceeds(b)
    BY <1>1, <1>2, <1>5, <2>2, SuccessfulAttempt DEF AttemptSucceeds, Runs, Written
  <2>3. CASE jobs'[b] # jobs[b] /\ ~AttemptSucceeds(b)
    BY <1>3, <2>3 DEF JobStep, Completed, NewJob, NoJob
  <2> QED
    BY <2>1, <2>2, <2>3
<1>9. \/ seenJobs'[b].obj = seenJobs[b].obj
      \/ seenJobs'[b].obj = jobs[b] /\ UNCHANGED objects
  BY <1>1, <1>2, JobCacheSteps
<1>10. backups'[b].exists /\ seenJobs'[b].obj.exists => jobs'[b].exists
  BY <1>1, <1>4, <1>6, <1>9 DEF BackupJobsArePersistent
<1>11. backups'[b].exists /\ Completed(seenJobs'[b].obj) => Completed(jobs'[b])
  BY <1>1, <1>4, <1>7, <1>9 DEF BackupJobsArePersistent
<1>12. backups'[b].phase = "Succeeded" => backups'[b].exists /\ Completed(seenJobs'[b].obj)
  <2>1. CASE backups'[b] = backups[b]
    BY <1>1, <1>9, <2>1 DEF BackupJobsArePersistent
  <2>3. UNCHANGED objects => backups'[b] = backups[b]
    BY DEF objects
  <2>4. backups'[b] = backups[b] \/ seenJobs'[b].obj = seenJobs[b].obj
    BY <1>9, <2>3
  <2> QED
    BY <1>1, <1>3, <2>1, <2>4 DEF BackupStep, BackupJobsArePersistent, BackupCallIsSound
<1> QED
  BY <1>8, <1>10, <1>11, <1>12

\* A running call of the backup controller keeps what it relies on, or is stale.
LEMMA NextBackupCallIsSound ==
    ASSUME NamesAreDisjoint, JobsAreKept, IInv, [Next]_vars
    PROVE  BackupCallIsSound'
<1>1. /\ TypeOK /\ NamesAreKnown /\ CachesFollow /\ BackupJobsArePersistent /\ BackupCallIsSound
      /\ BackupJobsArePersistent'
  BY NextBackupJobsArePersistent DEF IInv
<1>2. ASSUME NEW b \in Backups, backups[b].exists, Completed(seenJobs[b].obj)
      PROVE  Completed(seenJobs'[b].obj)
  BY <1>1, <1>2, NameFacts, JobCacheSteps DEF BackupJobsArePersistent
<1>3. ASSUME backupWorker'.name = backupWorker.name, backupWorker'.obj = backupWorker.obj,
             backupWorker.pc # "idle",
             backupWorker'.fresh => backupWorker.fresh,
             backupWorker'.pc = "createJob" => backupWorker.pc = "createJob",
             \/ backups'[backupWorker.name] = backups[backupWorker.name]
             \/ ~backups'[backupWorker.name].exists /\ ~backupWorker'.fresh
      PROVE  BackupCallIsSound'
  <2> DEFINE b == backupWorker.name
  <2>1. b \in Backups
    BY <1>1, <1>3 DEF NamesAreKnown
  <2>2. backupWorker.fresh /\ backupWorker.obj.phase = "Succeeded" => Completed(seenJobs'[b].obj)
    BY <1>1, <1>2, <1>3, <2>1 DEF BackupCallIsSound
  <2>3. backups'[b].phase = "Succeeded" => backups'[b].exists
    BY <1>1, <2>1 DEF BackupJobsArePersistent
  <2> QED
    BY <1>1, <1>3, <2>2, <2>3 DEF BackupCallIsSound, Completed
<1>4. CASE backupWorker' = backupWorker /\ backupWorker.pc # "idle"
  <2> DEFINE b == backupWorker.name
  <2>1. b \in Backups
    BY <1>1, <1>4 DEF NamesAreKnown
  <2>2. backupWorker' # NoBackupCall
    BY <1>4 DEF NoBackupCall
  <2>3. BackupStep(b)
    BY <1>1, <2>1, BackupSteps
  <2>4. [backupWorker EXCEPT !.fresh = @ /\ backupWorker.name # b].fresh = FALSE
    BY <1>1 DEF TypeOK, BackupWorker
  <2>5. \/ backups'[b] = backups[b]
        \/ ~backups'[b].exists /\ ~backupWorker'.fresh
    BY <2>2, <2>3, <2>4 DEF BackupStep
  <2> QED
    BY <1>3, <1>4, <2>5
<1>5. CASE backupWorker'.pc = "idle"
  BY <1>5 DEF BackupCallIsSound
<1>6. CASE /\ backupWorker.pc = "createJob"
           /\ backupWorker' = [backupWorker EXCEPT !.pc = "writeStatus"]
           /\ UNCHANGED <<backups, seenBackups>>
  BY <1>1, <1>3, <1>6 DEF TypeOK, BackupWorker
<1>7. ASSUME NEW b \in Backups, BackupCallStarted(b), UNCHANGED <<objects, caches, files, loaded>>
      PROVE  BackupCallIsSound'
  <2> DEFINE job == seenJobs[b].obj
  <2>1. UNCHANGED <<backups, seenBackups, seenJobs>> /\ backupWorker'.name = b
    BY <1>7 DEF objects, caches, BackupCallStarted
  <2>2. backupWorker'.obj.phase = "Succeeded" => Completed(job)
    BY <1>7 DEF BackupCallStarted, JobResult, Completed
  <2>3. backupWorker'.fresh => backups[b].exists /\ ~Terminal(backups[b].phase)
    BY <1>1, <1>7 DEF BackupCallStarted, CachesFollow
  <2>4. backupWorker'.pc = "createJob" => backups[b].phase # "Succeeded"
    BY <1>1, <1>7 DEF BackupCallStarted, BackupJobsArePersistent, Completed
  <2> QED
    BY <1>7, <2>1, <2>2, <2>3, <2>4 DEF BackupCallIsSound, BackupCallStarted, Completed, Terminal
<1>8. ASSUME NEW d \in Backups, ~backups'[d].exists,
             backupWorker' = [backupWorker EXCEPT !.fresh = @ /\ backupWorker.name # d],
             \A c \in Backups \ {d} : backups'[c] = backups[c],
             backupWorker'.pc # "idle"
      PROVE  BackupCallIsSound'
  <2>1. /\ backupWorker'.name = backupWorker.name /\ backupWorker'.obj = backupWorker.obj
        /\ backupWorker'.pc = backupWorker.pc
        /\ backupWorker'.fresh = (backupWorker.fresh /\ backupWorker.name # d)
    BY <1>1, <1>8 DEF TypeOK, BackupWorker
  <2>2. backupWorker.name \in Backups
    BY <1>1, <1>8, <2>1 DEF NamesAreKnown
  <2> QED
    BY <1>3, <1>8, <2>1, <2>2
<1> QED
  BY <1>1, <1>4, <1>5, <1>6, <1>7, <1>8, BackupWorkerSteps DEF NoBackupCall

\* Once sealed, the file of a backup is never written again.
LEMMA SealedStays ==
    ASSUME NamesAreDisjoint, JobsAreKept, IInv, [Next]_vars, NEW b \in Backups, Sealed(b)
    PROVE  Sealed(b)'
<1>1. TypeOK /\ NamesAreKnown /\ BackupCallIsSound
  BY DEF IInv
<1>2. Written(b)'
  <2>1. files'[b] = files[b] \/ Runs(b, "backup")
    BY <1>1, FileSteps
  <2> QED
    BY <2>1 DEF Sealed, Written, Runs
<1>3. ~(jobs'[b].exists /\ jobs'[b].state = "active")
  <2>1. JobStep(b) /\ b \notin Restores
    BY <1>1, NameFacts, JobStepsAre DEF NamesAreDisjoint
  <2> QED
    BY <1>1, <2>1 DEF JobStep, Sealed, NamesAreKnown, NoJob, NewJob
<1>4. ~(backupWorker'.pc = "createJob" /\ backupWorker'.name = b)
  <2>1. ~BackupCallStarted(b)
    BY DEF BackupCallStarted, Sealed, Terminal
  <2>2. \A c \in Backups : BackupCallStarted(c) => backupWorker'.name = c
    BY DEF BackupCallStarted
  <2> QED
    BY <1>1, <2>1, <2>2, BackupWorkerSteps DEF Sealed, NoBackupCall, TypeOK, BackupWorker
<1>5. backups'[b].exists => backups'[b].phase = "Succeeded"
  <2>1. BackupStep(b)
    BY <1>1, BackupSteps
  <2> QED
    BY <1>1, <2>1 DEF BackupStep, Sealed, BackupCallIsSound, Terminal
<1>6. seenBackups'[b].obj.exists => seenBackups'[b].obj.phase = "Succeeded"
  <2>1. CacheStep(seenBackups[b], seenBackups'[b], backups[b], backups'[b])
    BY <1>1, BackupCacheSteps
  <2> QED
    BY <2>1 DEF CacheStep, Sealed
<1> QED
  BY <1>2, <1>3, <1>4, <1>5, <1>6 DEF Sealed

LEMMA NextSucceededIsSealed ==
    ASSUME NamesAreDisjoint, JobsAreKept, IInv, [Next]_vars
    PROVE  SucceededIsSealed'
<1>1. /\ TypeOK /\ NamesAreKnown /\ SucceededIsSealed
      /\ BackupJobsArePersistent' /\ BackupCallIsSound'
  BY NextBackupJobsArePersistent, NextBackupCallIsSound DEF IInv
<1> SUFFICES ASSUME NEW b \in Backups, seenBackups'[b].obj.exists,
                    seenBackups'[b].obj.phase = "Succeeded"
             PROVE  Sealed(b)'
  BY DEF SucceededIsSealed
<1>2. CacheStep(seenBackups[b], seenBackups'[b], backups[b], backups'[b])
  BY <1>1, BackupCacheSteps
<1>3. CASE seenBackups'[b].obj = seenBackups[b].obj
  BY <1>1, <1>3, SealedStays DEF SucceededIsSealed
<1>4. CASE seenBackups'[b].obj = backups'[b]
  <2>1. Completed(jobs'[b]) /\ Written(b)'
    BY <1>1, <1>4 DEF BackupJobsArePersistent, Completed
  <2>2. ~(backupWorker'.pc = "createJob" /\ backupWorker'.name = b)
    BY <1>1, <1>4 DEF BackupCallIsSound
  <2> QED
    BY <1>4, <2>1, <2>2 DEF Sealed, Completed
<1> QED
  BY <1>2, <1>3, <1>4 DEF CacheStep

-----------------------------------------------------------------------------
(* Restores *)

LEMMA RestoreFacts ==
    ASSUME IInv
    PROVE  /\ TypeOK /\ NamesAreKnown /\ CachesFollow /\ OwnersAreKnown /\ SucceededIsSealed
           /\ RestoresAreValidated /\ RestoreCallIsForward /\ LoadsAreComplete
           /\ \A r \in Restores : SourceOf[r] # NoName => SourceOf[r] \in Backups
           /\ \A r \in Restores : seenRestores[r].obj \in Restore
  BY ConstantsAssumption DEF IInv, TypeOK, CacheOf

LEMMA RestoreChanges ==
    ASSUME IInv, [Next]_vars, NEW r \in Restores
    PROVE  \/ restores'[r] = restores[r]
           \/ /\ restoreWorker.pc # "idle" /\ restoreWorker.fresh /\ restoreWorker.name = r
              /\ restores'[r] = restoreWorker.obj
           \/ ~restores'[r].exists /\ restores'[r].phase = ""
<1>1. RestoreStep(r)
  BY RestoreFacts, RestoreSteps
<1>2. ~NoRestore.exists /\ NoRestore.phase = ""
  BY DEF NoRestore
<1> QED
  BY <1>1, <1>2 DEF RestoreStep

\* A restore that may load its file may do so ever after, and does not go back.
LEMMA ValidatedStays ==
    ASSUME NamesAreDisjoint, JobsAreKept, IInv, [Next]_vars, NEW r \in Restores
    PROVE  /\ Loadable(r) => Loadable(r)'
           /\ Validated(r) => Validated(r)'
<1>1. RestoreCallIsForward
  BY RestoreFacts
<1>2. Loadable(r) => Loadable(r)'
  BY RestoreFacts, SealedStays DEF Loadable
<1>3. ASSUME restores[r].exists => restores[r].phase \in {"Loading", "Succeeded", "Failed"},
             restores'[r].exists
      PROVE  restores'[r].phase \in {"Loading", "Succeeded", "Failed"}
  <2>1. \/ restores'[r] = restores[r]
        \/ /\ restores[r].exists /\ restores'[r] = restoreWorker.obj
           /\ <<restores[r].phase, restoreWorker.obj.phase>> \in Forward
    BY <1>1, <1>3, RestoreChanges DEF RestoreCallIsForward
  <2> QED
    BY <1>3, <2>1 DEF Forward
<1> QED
  BY <1>2, <1>3 DEF Validated

\* What a call that starts knows.
LEMMA StartedRestoreCall ==
    ASSUME IInv, NEW r \in Restores, RestoreCallStarted(r)
    PROVE  /\ seenRestores[r].obj.exists /\ restoreWorker'.name = r
           /\ restoreWorker'.fresh = seenRestores[r].current /\ restoreWorker'.obj.exists
           /\ <<seenRestores[r].obj.phase, restoreWorker'.obj.phase>> \in Forward
           /\ restoreWorker'.pc = "createJob" => Validated(r)
           /\ restoreWorker'.obj.phase \in {"Loading", "Succeeded"} => Loadable(r)
           /\ restoreWorker'.obj.phase = "Succeeded" => Completed(seenJobs[r].obj)
<1> DEFINE restore == seenRestores[r].obj
           b == SourceRead(r)
           job == seenJobs[r].obj
           to == Decision(r, restore, b, job)
<1>1. restore \in Restore /\ RestoresAreValidated /\ SucceededIsSealed
  BY RestoreFacts
<1>2. /\ restore.exists /\ ~Terminal(restore.phase) /\ restoreWorker'.name = r
      /\ restoreWorker'.fresh = seenRestores[r].current /\ restoreWorker'.obj.exists
      /\ restoreWorker'.obj.phase = to.phase
      /\ restoreWorker'.pc = "createJob" => to.note = "created"
  BY DEF RestoreCallStarted
<1>3. /\ <<restore.phase, to.phase>> \in Forward
      /\ to.note = "created" => restore.phase = "Loading"
      /\ to.phase = "Loading" =>
           restore.phase = "Loading" \/ (SourceOf[r] # NoName /\ b.exists /\ b.phase = "Succeeded")
      /\ to.phase = "Succeeded" => restore.phase = "Loading" /\ Completed(job)
  <2>1. restore \in Restore /\ ~Terminal(restore.phase)
    BY <1>1, <1>2
  <2> HIDE DEF restore, b, job
  <2> QED
    BY <2>1, DecisionIsForward
<1> HIDE DEF to
<1>4. restore.phase = "Loading" => Validated(r)
  BY <1>1 DEF RestoresAreValidated
<1>5. SourceOf[r] # NoName /\ SourceRead(r).exists /\ SourceRead(r).phase = "Succeeded" => Loadable(r)
  BY <1>1, RestoreFacts DEF SucceededIsSealed, SourceRead, Loadable
<1> QED
  BY <1>2, <1>3, <1>4, <1>5 DEF Validated

\* A call ends, starts, or goes on with what it decided.
LEMMA RestoreCallGoesOn ==
    ASSUME IInv, [Next]_vars
    PROVE  \/ restoreWorker'.pc = "idle"
           \/ /\ \E r \in Restores : RestoreCallStarted(r)
              /\ UNCHANGED <<objects, caches, files, loaded, backupWorker>>
           \/ /\ restoreWorker.name \in Restores /\ restoreWorker.pc # "idle"
              /\ restoreWorker'.name = restoreWorker.name /\ restoreWorker'.obj = restoreWorker.obj
              /\ restoreWorker'.pc = "createJob" => restoreWorker.pc = "createJob"
              /\ restoreWorker'.fresh => /\ restoreWorker.fresh
                                         /\ restores'[restoreWorker.name] = restores[restoreWorker.name]
<1>1. TypeOK /\ NamesAreKnown
  BY RestoreFacts
<1>2. CASE restoreWorker' = restoreWorker /\ restoreWorker.pc # "idle"
  <2>1. restoreWorker.name \in Restores
    BY <1>1, <1>2 DEF NamesAreKnown
  <2>2. RestoreStep(restoreWorker.name)
    BY <1>1, <2>1, RestoreSteps
  <2>3. [restoreWorker EXCEPT !.fresh = @ /\ restoreWorker.name # restoreWorker.name].fresh = FALSE
    BY <1>1 DEF TypeOK, RestoreWorker
  <2>4. restoreWorker' # NoRestoreCall
    BY <1>2 DEF NoRestoreCall
  <2>5. restoreWorker'.fresh => restores'[restoreWorker.name] = restores[restoreWorker.name]
    BY <1>2, <2>2, <2>3, <2>4 DEF RestoreStep
  <2> QED
    BY <1>2, <2>1, <2>5
<1>3. CASE /\ restoreWorker.pc = "createJob"
           /\ restoreWorker' = [restoreWorker EXCEPT !.pc = "writeStatus"]
           /\ UNCHANGED <<restores, seenRestores>>
  BY <1>1, <1>3 DEF NamesAreKnown, TypeOK, RestoreWorker
<1>4. ASSUME NEW r \in Restores,
             restoreWorker' = [restoreWorker EXCEPT !.fresh = @ /\ restoreWorker.name # r],
             \A c \in Restores \ {r} : restores'[c] = restores[c],
             restoreWorker'.pc # "idle"
      PROVE  /\ restoreWorker.name \in Restores /\ restoreWorker.pc # "idle"
             /\ restoreWorker'.name = restoreWorker.name /\ restoreWorker'.obj = restoreWorker.obj
             /\ restoreWorker'.pc = "createJob" => restoreWorker.pc = "createJob"
             /\ restoreWorker'.fresh => /\ restoreWorker.fresh
                                        /\ restores'[restoreWorker.name] = restores[restoreWorker.name]
  BY <1>1, <1>4 DEF NamesAreKnown, TypeOK, RestoreWorker
<1> QED
  BY <1>1, <1>2, <1>3, <1>4, RestoreWorkerSteps DEF NoRestoreCall

LEMMA NextRestoresAreValidated ==
    ASSUME NamesAreDisjoint, JobsAreKept, IInv, [Next]_vars
    PROVE  RestoresAreValidated'
<1>1. TypeOK /\ NamesAreKnown /\ RestoresAreValidated
  BY RestoreFacts
<1>2. ASSUME NEW r \in Restores
      PROVE  /\ restores'[r].phase \in {"Loading", "Succeeded"} => Validated(r)'
             /\ seenRestores'[r].obj.phase \in {"Loading", "Succeeded"} => Validated(r)'
             /\ jobs'[r].exists => Validated(r)'
  <2>1. JobStep(r) /\ r \notin Backups
    BY <1>1, NameFacts, JobStepsAre DEF NamesAreDisjoint
  <2>2. CacheStep(seenRestores[r], seenRestores'[r], restores[r], restores'[r])
    BY <1>1, RestoreCacheSteps
  <2>3. (Validated(r) => Validated(r)') /\ (Loadable(r) => Loadable(r)')
    BY ValidatedStays
  <2>4. restores'[r].phase \in {"Loading", "Succeeded"} => Validated(r)'
    BY <1>1, <2>3, RestoreChanges DEF RestoresAreValidated, Validated
  <2>5. seenRestores'[r].obj.phase \in {"Loading", "Succeeded"} => Validated(r)'
    BY <1>1, <2>2, <2>3 DEF CacheStep, RestoresAreValidated
  <2>6. jobs'[r].exists => Validated(r)'
    BY <1>1, <2>1, <2>3 DEF JobStep, RestoresAreValidated, NamesAreKnown, NoJob
  <2> QED
    BY <2>4, <2>5, <2>6
<1>3. /\ restoreWorker'.pc = "createJob" => Validated(restoreWorker.name)'
      /\ restoreWorker'.pc # "idle" /\ restoreWorker'.obj.phase \in {"Loading", "Succeeded"} =>
           Loadable(restoreWorker.name)'
  <2>1. ASSUME NEW r \in Restores, restoreWorker'.name = r
        PROVE  /\ Validated(r) => Validated(restoreWorker.name)'
               /\ Loadable(r) => Loadable(restoreWorker.name)'
    BY <2>1, ValidatedStays DEF Validated, Loadable, Sealed, Written
  <2>2. ASSUME NEW r \in Restores, RestoreCallStarted(r)
        PROVE  /\ restoreWorker'.pc = "createJob" => Validated(restoreWorker.name)'
               /\ restoreWorker'.obj.phase \in {"Loading", "Succeeded"} =>
                    Loadable(restoreWorker.name)'
    BY <2>1, <2>2, StartedRestoreCall
  <2> QED
    BY <1>1, <2>1, <2>2, RestoreCallGoesOn DEF RestoresAreValidated
<1> QED
  BY <1>2, <1>3 DEF RestoresAreValidated

LEMMA NextRestoreCallIsForward ==
    ASSUME IInv, [Next]_vars
    PROVE  RestoreCallIsForward'
<1>1. ASSUME NEW r \in Restores, RestoreCallStarted(r), UNCHANGED objects
      PROVE  RestoreCallIsForward'
  <2> SUFFICES ASSUME restoreWorker'.fresh
               PROVE  /\ restores[r].exists /\ restoreWorker'.obj.exists
                      /\ <<restores[r].phase, restoreWorker'.obj.phase>> \in Forward
    BY <1>1, StartedRestoreCall DEF RestoreCallIsForward, objects
  <2>1. /\ seenRestores[r].current /\ seenRestores[r].obj.exists /\ restoreWorker'.obj.exists
        /\ <<seenRestores[r].obj.phase, restoreWorker'.obj.phase>> \in Forward
    BY <1>1, StartedRestoreCall
  <2>2. seenRestores[r].obj = restores[r]
    BY <2>1, RestoreFacts DEF CachesFollow
  <2> QED
    BY <2>1, <2>2
<1>2. RestoreCallIsForward
  BY RestoreFacts
<1> QED
  BY <1>1, <1>2, RestoreCallGoesOn DEF RestoreCallIsForward

LEMMA NextLoadsAreComplete ==
    ASSUME NamesAreDisjoint, JobsAreKept, IInv, [Next]_vars
    PROVE  LoadsAreComplete'
<1>1. TypeOK /\ NamesAreKnown /\ OwnersAreKnown /\ RestoresAreValidated /\ LoadsAreComplete
  BY RestoreFacts
<1>2. ASSUME NEW r \in Restores, jobs[r].exists PROVE files[SourceOf[r]].complete
  BY <1>1, <1>2 DEF RestoresAreValidated, Validated, Loadable, Sealed, Written
<1>3. ASSUME NEW r \in Restores
      PROVE  /\ loaded[r].complete => loaded'[r].complete
             /\ loaded'[r] # NoFile => loaded'[r].complete
  <2>1. \/ loaded'[r] = loaded[r]
        \/ jobs[r].exists /\ loaded'[r] = files[SourceOf[r]]
    BY <1>1, FileSteps DEF Runs
  <2>2. loaded'[r] = loaded[r] \/ loaded'[r].complete
    BY <1>2, <2>1
  <2>3. loaded[r] # NoFile => loaded[r].complete
    BY <1>1 DEF LoadsAreComplete
  <2> QED
    BY <2>2, <2>3
<1>4. ASSUME NEW r \in Restores
      PROVE  /\ Completed(jobs'[r]) => loaded'[r].complete
             /\ Completed(seenJobs'[r].obj) => loaded'[r].complete
             /\ restores'[r].phase = "Succeeded" => loaded'[r].complete
  <2>1. JobStep(r) /\ r \in Names
    BY <1>1, NameFacts, JobStepsAre
  <2>2. \/ seenJobs'[r].obj = seenJobs[r].obj
        \/ seenJobs'[r].obj = jobs[r]
    BY <1>1, <2>1, JobCacheSteps
  <2>3. AttemptSucceeds(r) => loaded'[r].complete
    <3>1. AttemptSucceeds(r) => jobs[r].exists
      BY DEF AttemptSucceeds, Runs
    <3>2. jobs[r].exists => jobs[r].owner.kind = "restore"
      BY <1>1 DEF OwnersAreKnown
    <3>3. AttemptSucceeds(r) => loaded'[r] = files[SourceOf[r]]
      BY <1>1, <2>1, <3>1, <3>2, SuccessfulAttempt
    <3> QED
      BY <1>2, <3>1, <3>3
  <2>4. Completed(jobs'[r]) => loaded'[r].complete
    BY <1>1, <1>3, <2>1, <2>3 DEF JobStep, LoadsAreComplete, Completed, NewJob, NoJob
  <2>5. Completed(seenJobs'[r].obj) => loaded'[r].complete
    BY <1>1, <1>3, <2>2 DEF LoadsAreComplete
  <2>6. restores'[r].phase = "Succeeded" => loaded'[r].complete
    BY <1>1, <1>3, RestoreChanges DEF LoadsAreComplete
  <2> QED
    BY <2>4, <2>5, <2>6
<1>5. restoreWorker'.pc # "idle" /\ restoreWorker'.obj.phase = "Succeeded" =>
        loaded'[restoreWorker'.name].complete
  <2>1. ASSUME NEW r \in Restores, RestoreCallStarted(r), restoreWorker'.obj.phase = "Succeeded"
        PROVE  loaded'[restoreWorker'.name].complete
    BY <1>1, <1>3, <2>1, StartedRestoreCall DEF LoadsAreComplete
  <2> QED
    BY <1>1, <1>3, <2>1, RestoreCallGoesOn DEF LoadsAreComplete
<1> QED
  BY <1>3, <1>4, <1>5 DEF LoadsAreComplete, Completed

-----------------------------------------------------------------------------
(* The inductive invariant holds *)

LEMMA InitIInv == Init => IInv
<1> SUFFICES ASSUME Init PROVE IInv
  OBVIOUS
<1>1. /\ ~NoJob.exists /\ ~Completed(NoJob)
      /\ NoBackupCall.pc = "idle" /\ NoRestoreCall.pc = "idle"
  BY DEF NoJob, NewJob, Completed, NoBackupCall, NoRestoreCall
<1>2. backupWorker.pc = "idle" /\ restoreWorker.pc = "idle"
  BY <1>1 DEF Init
<1>3. \A n \in Names : /\ ~jobs[n].exists /\ ~Completed(jobs[n])
                       /\ ~seenJobs[n].obj.exists /\ ~Completed(seenJobs[n].obj)
  BY <1>1 DEF Init, Cached
<1>4. \A b \in Backups : /\ backups[b].exists /\ backups[b].uid = 1 /\ backups[b].phase = ""
                         /\ seenBackups[b].obj = backups[b]
  BY DEF Init, Cached, NoBackup
<1>5. \A r \in Restores : /\ restores[r].phase = "" /\ seenRestores[r].obj = restores[r]
                          /\ loaded[r] = NoFile
  BY DEF Init, Cached, NoRestore
<1>6. CachesFollow
  BY <1>4, <1>5 DEF CachesFollow
<1>7. OwnersAreKnown
  BY <1>2, <1>3, <1>4, NameFacts DEF OwnersAreKnown
<1>8. BackupJobsArePersistent /\ SucceededIsSealed
  BY <1>3, <1>4, NameFacts DEF BackupJobsArePersistent, SucceededIsSealed
<1>9. BackupCallIsSound /\ RestoreCallIsForward
  BY <1>2 DEF BackupCallIsSound, RestoreCallIsForward
<1>10. RestoresAreValidated /\ LoadsAreComplete
  BY <1>2, <1>3, <1>5, NameFacts DEF RestoresAreValidated, LoadsAreComplete
<1> QED
  BY InitTypeOK, InitNamesAreKnown, <1>6, <1>7, <1>8, <1>9, <1>10 DEF IInv

LEMMA NextIInv ==
    ASSUME NamesAreDisjoint, JobsAreKept, IInv, [Next]_vars
    PROVE  IInv'
<1>1. TypeOK /\ NamesAreKnown /\ CachesFollow
  BY DEF IInv
<1>2. TypeOK' /\ NamesAreKnown' /\ CachesFollow'
  BY <1>1, NextTypeOK, NextNamesAreKnown, NextCachesFollow
<1>3. OwnersAreKnown' /\ BackupJobsArePersistent' /\ BackupCallIsSound' /\ SucceededIsSealed'
  BY NextOwnersAreKnown, NextBackupJobsArePersistent, NextBackupCallIsSound, NextSucceededIsSealed
<1>4. RestoresAreValidated' /\ RestoreCallIsForward' /\ LoadsAreComplete'
  BY NextRestoresAreValidated, NextRestoreCallIsForward, NextLoadsAreComplete
<1> QED
  BY <1>2, <1>3, <1>4 DEF IInv

LEMMA AlwaysIInv ==
    ASSUME NamesAreDisjoint, JobsAreKept
    PROVE  Spec => []IInv
<1>1. IInv /\ [Next]_vars => IInv'
  BY NextIInv
<1> QED
  BY <1>1, InitIInv, PTL DEF Spec

\* A backup reported as Succeeded is on the volume, complete, and written for this
\* RqliteBackup, if no restore has its name, nobody creates it again and nobody
\* deletes its Job.
THEOREM ReportedBackupsAreOnVolume ==
    ASSUME NamesAreDisjoint, JobsAreKept
    PROVE  Spec => []SucceededBackupIsOnVolume
<1>1. IInv => SucceededBackupIsOnVolume
  BY DEF IInv, OwnersAreKnown, BackupJobsArePersistent, Written, SucceededBackupIsOnVolume
<1> QED
  BY <1>1, AlwaysIInv, PTL

\* No restore puts a half-written file into the database, under the same
\* hypotheses.
THEOREM LoadedFilesAreComplete ==
    ASSUME NamesAreDisjoint, JobsAreKept
    PROVE  Spec => []OnlyCompleteFilesAreLoaded
<1>1. IInv => OnlyCompleteFilesAreLoaded
  BY DEF IInv, LoadsAreComplete, OnlyCompleteFilesAreLoaded
<1> QED
  BY <1>1, AlwaysIInv, PTL

\* A restore reported as Succeeded did load its backup, under the same
\* hypotheses.
THEOREM ReportedRestoresWereLoaded ==
    ASSUME NamesAreDisjoint, JobsAreKept
    PROVE  Spec => []SucceededRestoreWasLoaded
<1>1. IInv => SucceededRestoreWasLoaded
  BY DEF IInv, LoadsAreComplete, SucceededRestoreWasLoaded
<1> QED
  BY <1>1, AlwaysIInv, PTL

-----------------------------------------------------------------------------
(* The refinement of RestoreLifecycle *)

Phase == [r \in Restores |-> IF restores[r].exists THEN restores[r].phase ELSE "gone"]

IsLoaded == [r \in Restores |-> loaded[r].complete]

\* Of the two variables that the lifecycle looks at, a step changes one, for one
\* restore.
LEMMA LifecycleSteps ==
    ASSUME TypeOK, NamesAreKnown, [Next]_vars
    PROVE  \/ UNCHANGED <<restores, loaded>>
           \/ \E r \in Restores :
                /\ restoreWorker.pc # "idle" /\ restoreWorker.fresh /\ restoreWorker.name = r
                /\ restores' = [restores EXCEPT ![r] = restoreWorker.obj] /\ UNCHANGED loaded
           \/ \E r \in Restores :
                /\ restores[r].exists
                /\ restores' = [restores EXCEPT ![r] = NoRestore] /\ UNCHANGED loaded
           \/ \E r \in Restores :
                /\ Runs(r, "restore")
                /\ loaded' = [loaded EXCEPT ![r] = files[SourceOf[r]]] /\ UNCHANGED restores
<1>1. \/ RestoreWritesStatus
      \/ \E r \in Restores : UserDeletesRestore(r)
      \/ \E n \in Names : AttemptSucceeds(n) \/ AttemptFails(n)
      \/ UNCHANGED <<restores, loaded>>
  BY DEF Next, BackupReconcile, BackupStarts, BackupCreatesJob, BackupWritesStatus,
     RestoreReconcile, RestoreStarts, RestoreCreatesJob, Informers, SyncBackup, SyncRestore,
     SyncJob, JobSteps, JobGivesUp, PodEvicted, GarbageCollects, KeepControllers, Users,
     UserDeletesBackup, UserRecreatesBackup, UserDeletesJob, UserDeletesCluster,
     BackupCallFails, RestoreCallFails, OperatorRestarts, vars, objects, world
<1>2. CASE RestoreWritesStatus
  BY <1>2 DEF RestoreWritesStatus, NamesAreKnown, world
<1>3. ASSUME NEW r \in Restores, UserDeletesRestore(r)
      PROVE  /\ restores[r].exists
             /\ restores' = [restores EXCEPT ![r] = NoRestore] /\ UNCHANGED loaded
  BY <1>3 DEF UserDeletesRestore, world
<1>4. ASSUME NEW n \in Names, AttemptSucceeds(n) \/ AttemptFails(n)
      PROVE  \/ UNCHANGED <<restores, loaded>>
             \/ /\ n \in Restores /\ Runs(n, "restore")
                /\ loaded' = [loaded EXCEPT ![n] = files[SourceOf[n]]] /\ UNCHANGED restores
  <2>1. /\ \/ UNCHANGED loaded
           \/ Runs(n, "restore") /\ LoadsFile(n)
        /\ UNCHANGED restores
    BY <1>4 DEF AttemptSucceeds, AttemptFails, KeepControllers, WritesFile
  <2>2. Runs(n, "restore") => n \in Restores
    BY DEF Runs, NamesAreKnown, JobIsNamed
  <2> QED
    BY <2>1, <2>2 DEF LoadsFile
<1> QED
  BY <1>1, <1>2, <1>3, <1>4

LEMMA LifecycleWrite ==
    ASSUME NEW r \in Restores, restores[r].exists, restoreWorker.obj.exists,
           restores \in [Restores -> Restore],
           <<restores[r].phase, restoreWorker.obj.phase>> \in Forward,
           restoreWorker.obj.phase = "Succeeded" => loaded[r].complete,
           restores' = [restores EXCEPT ![r] = restoreWorker.obj], UNCHANGED loaded
    PROVE  [Lifecycle!Next]_(Lifecycle!lifecycle)
<1> DEFINE from == restores[r].phase
           to == restoreWorker.obj.phase
<1>1. Phase' = [Phase EXCEPT ![r] = to] /\ Phase[r] = from /\ UNCHANGED IsLoaded
  BY DEF Phase, IsLoaded
<1>2. CASE from = to
  BY <1>1, <1>2 DEF Phase, IsLoaded, Lifecycle!lifecycle
<1>3. CASE from = "" /\ to = "Pending"
  BY <1>1, <1>3 DEF Phase, IsLoaded, Lifecycle!Next, Lifecycle!Accept, Lifecycle!Becomes
<1>4. CASE from = "Pending" /\ to = "Loading"
  BY <1>1, <1>4 DEF Phase, IsLoaded, Lifecycle!Next, Lifecycle!Validate, Lifecycle!Becomes
<1>5. CASE from \in {"Pending", "Loading"} /\ to = "Failed"
  BY <1>1, <1>5 DEF Phase, IsLoaded, Lifecycle!Next, Lifecycle!Fail, Lifecycle!Becomes
<1>6. CASE from = "Loading" /\ to = "Succeeded"
  BY <1>1, <1>6 DEF Phase, IsLoaded, Lifecycle!Next, Lifecycle!Succeed, Lifecycle!Becomes
<1> QED
  BY <1>2, <1>3, <1>4, <1>5, <1>6 DEF Forward

\* Phases, Jobs, stale caches and lost pods together implement RestoreLifecycle:
\* a restore moves forward only and loads nothing before it is validated or after
\* it is reported as done, under the same hypotheses.
THEOREM RestoresImplementLifecycle ==
    ASSUME NamesAreDisjoint, JobsAreKept
    PROVE  Spec => RestoresFollowLifecycle
<1>1. Init => Lifecycle!Init
  <2> SUFFICES ASSUME Init PROVE Lifecycle!Init
    OBVIOUS
  <2>1. \A r \in Restores : /\ restores[r].exists /\ restores[r].phase = ""
                            /\ loaded[r].complete = FALSE
    BY DEF Init, NoRestore, NoFile
  <2> QED
    BY <2>1 DEF Lifecycle!Init
<1>2. ASSUME IInv, [Next]_vars PROVE [Lifecycle!Next]_(Lifecycle!lifecycle)
  <2>1. /\ TypeOK /\ NamesAreKnown /\ RestoresAreValidated /\ RestoreCallIsForward
        /\ LoadsAreComplete
    BY <1>2 DEF IInv
  <2>2. restores \in [Restores -> Restore] /\ loaded \in [Restores -> File]
    BY <2>1 DEF TypeOK
  <2>3. CASE UNCHANGED <<restores, loaded>>
    BY <2>3 DEF Lifecycle!lifecycle
  <2>4. ASSUME NEW r \in Restores, restoreWorker.pc # "idle", restoreWorker.fresh,
               restoreWorker.name = r,
               restores' = [restores EXCEPT ![r] = restoreWorker.obj], UNCHANGED loaded
        PROVE  [Lifecycle!Next]_(Lifecycle!lifecycle)
    BY <2>1, <2>2, <2>4, LifecycleWrite DEF RestoreCallIsForward, LoadsAreComplete
  <2>5. ASSUME NEW r \in Restores, restores[r].exists,
               restores' = [restores EXCEPT ![r] = NoRestore], UNCHANGED loaded
        PROVE  [Lifecycle!Next]_(Lifecycle!lifecycle)
    <3>1. /\ Phase' = [Phase EXCEPT ![r] = "gone"] /\ UNCHANGED IsLoaded
          /\ Phase[r] \in {"", "Pending", "Loading", "Succeeded", "Failed"}
      BY <2>2, <2>5 DEF Phase, IsLoaded, NoRestore, Restore
    <3> QED
      BY <3>1 DEF Phase, IsLoaded, Lifecycle!Next, Lifecycle!Delete, Lifecycle!Becomes
  <2>6. ASSUME NEW r \in Restores, Runs(r, "restore"),
               loaded' = [loaded EXCEPT ![r] = files[SourceOf[r]]], UNCHANGED restores
        PROVE  [Lifecycle!Next]_(Lifecycle!lifecycle)
    <3>1. files[SourceOf[r]].complete = TRUE /\ (restores[r].exists =>
            restores[r].phase \in {"Loading", "Succeeded", "Failed"})
      BY <2>1, <2>6 DEF RestoresAreValidated, Validated, Loadable, Sealed, Written, Runs
    <3>2. IsLoaded' = [IsLoaded EXCEPT ![r] = TRUE] /\ UNCHANGED Phase
      BY <2>2, <2>6, <3>1 DEF Phase, IsLoaded
    <3>3. CASE restores[r].exists /\ restores[r].phase = "Succeeded"
      <4>1. IsLoaded[r] = TRUE
        BY <2>1, <2>2, <3>3 DEF LoadsAreComplete, IsLoaded, File
      <4> QED
        BY <3>2, <4>1 DEF Phase, IsLoaded, Lifecycle!lifecycle
    <3>4. CASE ~(restores[r].exists /\ restores[r].phase = "Succeeded")
      <4>1. Phase[r] \in {"Loading", "Failed", "gone"}
        BY <3>1, <3>4 DEF Phase
      <4> QED
        BY <3>2, <4>1 DEF Phase, IsLoaded, Lifecycle!Next, Lifecycle!Load
    <3> QED
      BY <3>3, <3>4
  <2> QED
    BY <1>2, <2>1, <2>3, <2>4, <2>5, <2>6, LifecycleSteps
<1> QED
  BY <1>1, <1>2, AlwaysIInv, PTL DEF Spec, RestoresFollowLifecycle, Lifecycle!Spec

-----------------------------------------------------------------------------
(* No request is lost *)

BackupIsAwaited(b) ==
    backups[b].exists /\ ~Terminal(backups[b].phase) =>
        b \in backupQueue \/ backupWorker.name = b \/ ~seenBackups[b].current

RestoreIsAwaited(r) ==
    restores[r].exists /\ ~Terminal(restores[r].phase) =>
        r \in restoreQueue \/ restoreWorker.name = r \/ ~seenRestores[r].current

\* A worker names an object only while it runs a call for it.
IdleIsNameless ==
    /\ backupWorker.pc = "idle" => backupWorker.name = NoName
    /\ restoreWorker.pc = "idle" => restoreWorker.name = NoName

RequestInv == TypeOK /\ NamesAreKnown /\ CachesFollow /\ IdleIsNameless /\ UndecidedAreAwaited

LEMMA NextIdleIsNameless ==
    ASSUME TypeOK, NamesAreKnown, IdleIsNameless, [Next]_vars
    PROVE  IdleIsNameless'
<1>1. backupWorker \in BackupWorker /\ restoreWorker \in RestoreWorker
  BY DEF TypeOK
<1>2. backupWorker'.pc = "idle" => backupWorker'.name = NoName
  <2>1. \/ backupWorker' = backupWorker \/ backupWorker' = NoBackupCall
        \/ backupWorker' = [backupWorker EXCEPT !.pc = "writeStatus"]
        \/ \E b \in Backups : BackupCallStarted(b)
        \/ \E b \in Backups :
             backupWorker' = [backupWorker EXCEPT !.fresh = @ /\ backupWorker.name # b]
    BY BackupWorkerSteps
  <2>2. ASSUME NEW b \in Backups, BackupCallStarted(b) PROVE backupWorker'.pc # "idle"
    BY <2>2 DEF BackupCallStarted
  <2> QED
    BY <1>1, <2>1, <2>2 DEF IdleIsNameless, NoBackupCall, BackupWorker
<1>3. restoreWorker'.pc = "idle" => restoreWorker'.name = NoName
  <2>1. \/ restoreWorker' = restoreWorker \/ restoreWorker' = NoRestoreCall
        \/ restoreWorker' = [restoreWorker EXCEPT !.pc = "writeStatus"]
        \/ \E r \in Restores : RestoreCallStarted(r)
        \/ \E r \in Restores :
             restoreWorker' = [restoreWorker EXCEPT !.fresh = @ /\ restoreWorker.name # r]
    BY RestoreWorkerSteps
  <2>2. ASSUME NEW r \in Restores, RestoreCallStarted(r) PROVE restoreWorker'.pc # "idle"
    BY <2>2 DEF RestoreCallStarted
  <2> QED
    BY <1>1, <2>1, <2>2 DEF IdleIsNameless, NoRestoreCall, RestoreWorker
<1> QED
  BY <1>2, <1>3 DEF IdleIsNameless

\* A request that leaves the queue becomes a call, or is for a backup that the cache
\* shows decided or gone.
LEMMA BackupRequestIsKept ==
    ASSUME NEW b \in Backups, BackupStarts(b)
    PROVE  \/ backupWorker'.name = b \/ b \in backupQueue'
           \/ ~seenBackups[b].obj.exists \/ Terminal(seenBackups[b].obj.phase)
<1> DEFINE backup == seenBackups[b].obj
           result == JobResult(seenJobs[b].obj)
           call == [pc |-> "createJob", name |-> b, obj |-> [backup EXCEPT !.phase = "Running"],
                    fresh |-> seenBackups[b].current]
           done == [call EXCEPT !.pc = "writeStatus", !.obj.phase = result]
<1>1. \/ ~backup.exists \/ Terminal(backup.phase)
      \/ backupWorker' = call \/ backupWorker' = done
      \/ b \in backupQueue'
  BY DEF BackupStarts
<1>2. call.name = b /\ done.name = b
  OBVIOUS
<1> HIDE DEF call, done
<1> QED
  BY <1>1, <1>2

\* A call takes its request from the queue, and gives it back or decides the
\* backup; a cache that shows it decided or gone is right or not current.
LEMMA BackupCallAwaits ==
    ASSUME RequestInv, NEW b \in Backups, BackupIsAwaited(b), BackupReconcile \/ BackupCallFails
    PROVE  BackupIsAwaited(b)'
<1> USE DEF BackupIsAwaited
<1>1. /\ TypeOK /\ NamesAreKnown /\ CachesFollow /\ IdleIsNameless
      /\ backupWorker \in BackupWorker /\ backups \in [Backups -> Backup]
      /\ seenBackups \in [Backups -> CacheOf(Backup)]
  BY DEF RequestInv, TypeOK
<1>2. ASSUME NEW c \in Backups, BackupStarts(c) PROVE BackupIsAwaited(b)'
  <2>1. /\ UNCHANGED <<backups, seenBackups>> /\ backupWorker.pc = "idle"
        /\ backupWorker.name # b
    BY <1>1, <1>2, NameFacts DEF BackupStarts, IdleIsNameless, objects, caches
  <2>2. CASE b # c
    <3>1. backupQueue' = backupQueue \/ backupQueue' = backupQueue \ {c}
      BY <1>2 DEF BackupStarts
    <3> QED
      BY <2>1, <2>2, <3>1
  <2>3. CASE b = c
    <3>1. \/ backupWorker'.name = b \/ b \in backupQueue'
          \/ ~seenBackups[b].obj.exists \/ Terminal(seenBackups[b].obj.phase)
      BY <1>2, <2>3, BackupRequestIsKept
    <3> QED
      BY <1>1, <2>1, <3>1 DEF CachesFollow
  <2> QED
    BY <2>2, <2>3
<1>3. ASSUME BackupReturns(TRUE), UNCHANGED <<backups, seenBackups>> PROVE BackupIsAwaited(b)'
  BY <1>3 DEF BackupReturns
<1>4. CASE BackupCreatesJob
  <2>1. CASE jobs[backupWorker.name].exists
    BY <1>3, <1>4, <2>1 DEF BackupCreatesJob
  <2>2. CASE ~jobs[backupWorker.name].exists
    <3>1. /\ UNCHANGED <<backups, seenBackups, backupQueue>>
          /\ backupWorker'.name = backupWorker.name
      BY <1>1, <1>4, <2>2 DEF BackupCreatesJob, BackupWorker
    <3> QED
      BY <3>1
  <2> QED
    BY <2>1, <2>2
<1>5. CASE BackupWritesStatus
  <2>1. CASE ~backupWorker.fresh
    BY <1>3, <1>5, <2>1 DEF BackupWritesStatus
  <2>2. CASE backupWorker.fresh
    <3> DEFINE c == backupWorker.name
    <3>1. /\ backups' = [backups EXCEPT ![c] = backupWorker.obj]
          /\ seenBackups' = Behind(seenBackups, c, backupWorker.obj # backups[c])
          /\ backupQueue' = IF ~Terminal(backupWorker.obj.phase) THEN backupQueue \cup {c}
                            ELSE backupQueue
      BY <1>5, <2>2 DEF BackupWritesStatus, BackupReturns
    <3>2. CASE b = c
      BY <1>1, <3>1, <3>2
    <3>3. CASE b # c
      <4>1. backups'[b] = backups[b] /\ seenBackups'[b] = seenBackups[b]
        BY <1>1, <3>1, <3>3 DEF Behind
      <4> QED
        BY <3>1, <3>3, <4>1
    <3> QED
      BY <3>2, <3>3
  <2> QED
    BY <2>1, <2>2
<1>6. CASE BackupCallFails
  BY <1>3, <1>6 DEF BackupCallFails, objects, caches
<1> QED
  BY <1>2, <1>4, <1>5, <1>6 DEF BackupReconcile

\* Whoever else changes a backup or its cache queues it or makes the cache old.
LEMMA BackupOthersAwait ==
    ASSUME RequestInv, [Next]_vars, NEW b \in Backups, BackupIsAwaited(b),
           ~BackupReconcile, ~BackupCallFails
    PROVE  BackupIsAwaited(b)'
<1> USE DEF BackupIsAwaited
<1>1. /\ backupWorker \in BackupWorker /\ backups \in [Backups -> Backup]
      /\ seenBackups \in [Backups -> CacheOf(Backup)]
  BY DEF RequestInv, TypeOK
<1>2. CASE /\ UNCHANGED <<backups, seenBackups, backupWorker>>
           /\ backupQueue \subseteq backupQueue'
  BY <1>2
<1>3. ASSUME NEW n \in Names, SyncJob(n) PROVE BackupIsAwaited(b)'
  BY <1>2, <1>3 DEF SyncJob, objects
<1>4. ASSUME NEW c \in Backups, SyncBackup(c) PROVE BackupIsAwaited(b)'
  BY <1>1, <1>4 DEF SyncBackup, objects
<1>5. ASSUME NEW c \in Backups, UserDeletesBackup(c) \/ UserRecreatesBackup(c)
      PROVE  BackupIsAwaited(b)'
  <2>1. /\ seenBackups' = [seenBackups EXCEPT ![c].current = FALSE]
        /\ backupWorker'.name = backupWorker.name /\ UNCHANGED backupQueue
    BY <1>1, <1>5 DEF UserDeletesBackup, UserRecreatesBackup, Behind, BackupWorker, workers
  <2>2. b # c => backups'[b] = backups[b]
    BY <1>1, <1>5 DEF UserDeletesBackup, UserRecreatesBackup
  <2>3. CASE b = c
    <3>1. ~seenBackups'[b].current
      BY <1>1, <2>1, <2>3 DEF CacheOf
    <3> QED
      BY <3>1
  <2>4. CASE b # c
    BY <1>1, <2>1, <2>2, <2>4
  <2> QED
    BY <2>3, <2>4
<1>6. CASE OperatorRestarts
  BY <1>6 DEF OperatorRestarts
<1>7. CASE UNCHANGED <<backups, seenBackups, backupWorker, backupQueue>>
  BY <1>2, <1>7
<1>8. \/ \E n \in Names : SyncJob(n)
      \/ \E c \in Backups : SyncBackup(c) \/ UserDeletesBackup(c) \/ UserRecreatesBackup(c)
      \/ OperatorRestarts
      \/ UNCHANGED <<backups, seenBackups, backupWorker, backupQueue>>
  BY DEF Next, RestoreReconcile, RestoreStarts, RestoreCreatesJob, RestoreWritesStatus,
     Informers, SyncRestore, JobSteps, AttemptSucceeds, AttemptFails, JobGivesUp, PodEvicted,
     GarbageCollects, KeepControllers, Users, UserDeletesRestore, UserDeletesJob,
     UserDeletesCluster, RestoreCallFails, vars, objects, caches, workers
<1> QED
  BY <1>3, <1>4, <1>5, <1>6, <1>7, <1>8

\* The same of restores.
LEMMA RestoreCallAwaits ==
    ASSUME RequestInv, NEW r \in Restores, RestoreIsAwaited(r), RestoreReconcile \/ RestoreCallFails
    PROVE  RestoreIsAwaited(r)'
<1> USE DEF RestoreIsAwaited
<1>1. /\ TypeOK /\ NamesAreKnown /\ CachesFollow /\ IdleIsNameless
      /\ restoreWorker \in RestoreWorker /\ restores \in [Restores -> Restore]
      /\ seenRestores \in [Restores -> CacheOf(Restore)]
  BY DEF RequestInv, TypeOK
<1>2. ASSUME NEW c \in Restores, RestoreStarts(c) PROVE RestoreIsAwaited(r)'
  <2>1. /\ UNCHANGED <<restores, seenRestores>> /\ restoreWorker.pc = "idle"
        /\ restoreWorker.name # r
    BY <1>1, <1>2, NameFacts DEF RestoreStarts, IdleIsNameless, objects, caches
  <2>2. CASE r # c
    <3>1. restoreQueue' = restoreQueue \/ restoreQueue' = restoreQueue \ {c}
      BY <1>2 DEF RestoreStarts
    <3> QED
      BY <2>1, <2>2, <3>1
  <2>3. CASE r = c
    <3>1. \/ restoreWorker'.name = r
          \/ ~seenRestores[r].obj.exists \/ Terminal(seenRestores[r].obj.phase)
      BY <1>2, <2>3 DEF RestoreStarts
    <3> QED
      BY <1>1, <2>1, <3>1 DEF CachesFollow
  <2> QED
    BY <2>2, <2>3
<1>3. ASSUME RestoreReturns(TRUE), UNCHANGED <<restores, seenRestores>> PROVE RestoreIsAwaited(r)'
  BY <1>3 DEF RestoreReturns
<1>4. CASE RestoreCreatesJob
  <2>1. CASE jobs[restoreWorker.name].exists \/ ~restoreWorker.hasPath
    BY <1>3, <1>4, <2>1 DEF RestoreCreatesJob
  <2>2. CASE ~(jobs[restoreWorker.name].exists \/ ~restoreWorker.hasPath)
    <3>1. /\ UNCHANGED <<restores, seenRestores, restoreQueue>>
          /\ restoreWorker'.name = restoreWorker.name
      BY <1>1, <1>4, <2>2 DEF RestoreCreatesJob, RestoreWorker
    <3> QED
      BY <3>1
  <2> QED
    BY <2>1, <2>2
<1>5. CASE RestoreWritesStatus
  <2>1. CASE ~restoreWorker.fresh
    BY <1>3, <1>5, <2>1 DEF RestoreWritesStatus
  <2>2. CASE restoreWorker.fresh
    <3> DEFINE c == restoreWorker.name
    <3>1. /\ restores' = [restores EXCEPT ![c] = restoreWorker.obj]
          /\ seenRestores' = Behind(seenRestores, c, restoreWorker.obj # restores[c])
          /\ restoreQueue' = IF ~Terminal(restoreWorker.obj.phase) THEN restoreQueue \cup {c}
                            ELSE restoreQueue
      BY <1>5, <2>2 DEF RestoreWritesStatus, RestoreReturns
    <3>2. CASE r = c
      BY <1>1, <3>1, <3>2
    <3>3. CASE r # c
      <4>1. restores'[r] = restores[r] /\ seenRestores'[r] = seenRestores[r]
        BY <1>1, <3>1, <3>3 DEF Behind
      <4> QED
        BY <3>1, <3>3, <4>1
    <3> QED
      BY <3>2, <3>3
  <2> QED
    BY <2>1, <2>2
<1>6. CASE RestoreCallFails
  BY <1>3, <1>6 DEF RestoreCallFails, objects, caches
<1> QED
  BY <1>2, <1>4, <1>5, <1>6 DEF RestoreReconcile

LEMMA RestoreOthersAwait ==
    ASSUME RequestInv, [Next]_vars, NEW r \in Restores, RestoreIsAwaited(r),
           ~RestoreReconcile, ~RestoreCallFails
    PROVE  RestoreIsAwaited(r)'
<1> USE DEF RestoreIsAwaited
<1>1. /\ restoreWorker \in RestoreWorker /\ restores \in [Restores -> Restore]
      /\ seenRestores \in [Restores -> CacheOf(Restore)]
  BY DEF RequestInv, TypeOK
<1>2. CASE /\ UNCHANGED <<restores, seenRestores, restoreWorker>>
           /\ restoreQueue \subseteq restoreQueue'
  BY <1>2
<1>3. ASSUME NEW n \in Names, SyncJob(n) PROVE RestoreIsAwaited(r)'
  BY <1>2, <1>3 DEF SyncJob, objects
<1>4. ASSUME NEW c \in Restores, SyncRestore(c) PROVE RestoreIsAwaited(r)'
  BY <1>1, <1>4 DEF SyncRestore, objects
<1>5. ASSUME NEW c \in Restores, UserDeletesRestore(c)
      PROVE  RestoreIsAwaited(r)'
  <2>1. /\ seenRestores' = [seenRestores EXCEPT ![c].current = FALSE]
        /\ restoreWorker'.name = restoreWorker.name /\ UNCHANGED restoreQueue
    BY <1>1, <1>5 DEF UserDeletesRestore, Behind, RestoreWorker, workers
  <2>2. r # c => restores'[r] = restores[r]
    BY <1>1, <1>5 DEF UserDeletesRestore
  <2>3. CASE r = c
    <3>1. ~seenRestores'[r].current
      BY <1>1, <2>1, <2>3 DEF CacheOf
    <3> QED
      BY <3>1
  <2>4. CASE r # c
    BY <1>1, <2>1, <2>2, <2>4
  <2> QED
    BY <2>3, <2>4
<1>6. CASE OperatorRestarts
  BY <1>6 DEF OperatorRestarts
<1>7. CASE UNCHANGED <<restores, seenRestores, restoreWorker, restoreQueue>>
  BY <1>2, <1>7
<1>8. \/ \E n \in Names : SyncJob(n)
      \/ \E c \in Restores : SyncRestore(c) \/ UserDeletesRestore(c)
      \/ OperatorRestarts
      \/ UNCHANGED <<restores, seenRestores, restoreWorker, restoreQueue>>
  BY DEF Next, BackupReconcile, BackupStarts, BackupCreatesJob, BackupWritesStatus,
     Informers, SyncBackup, JobSteps, AttemptSucceeds, AttemptFails, JobGivesUp, PodEvicted,
     GarbageCollects, KeepControllers, Users, UserDeletesBackup, UserRecreatesBackup,
     UserDeletesJob, UserDeletesCluster, BackupCallFails, vars, objects, caches, workers
<1> QED
  BY <1>3, <1>4, <1>5, <1>6, <1>7, <1>8

\* No request is lost: an undecided backup or restore is always queued, in a
\* running call, or about to be queued by an event, whatever the names, whatever
\* fails, and whatever users delete and create again.
THEOREM UndecidedAlwaysAwaited == Spec => []UndecidedAreAwaited
<1>1. Init => RequestInv
  <2> SUFFICES ASSUME Init PROVE RequestInv
    OBVIOUS
  <2>1. CachesFollow
    BY DEF Init, Cached, CachesFollow
  <2>2. IdleIsNameless
    BY DEF Init, NoBackupCall, NoRestoreCall, IdleIsNameless
  <2>3. UndecidedAreAwaited
    BY DEF Init, UndecidedAreAwaited
  <2> QED
    BY <2>1, <2>2, <2>3, InitTypeOK, InitNamesAreKnown DEF RequestInv
<1>2. RequestInv /\ [Next]_vars => RequestInv'
  <2> SUFFICES ASSUME RequestInv, [Next]_vars PROVE RequestInv'
    OBVIOUS
  <2>1. TypeOK /\ NamesAreKnown /\ CachesFollow /\ IdleIsNameless
    BY DEF RequestInv
  <2>2. TypeOK' /\ NamesAreKnown' /\ CachesFollow' /\ IdleIsNameless'
    BY <2>1, NextTypeOK, NextNamesAreKnown, NextCachesFollow, NextIdleIsNameless
  <2>3. ASSUME NEW b \in Backups PROVE BackupIsAwaited(b)'
    <3>1. BackupIsAwaited(b)
      BY DEF RequestInv, UndecidedAreAwaited, BackupIsAwaited
    <3> QED
      BY <3>1, BackupCallAwaits, BackupOthersAwait
  <2>4. ASSUME NEW r \in Restores PROVE RestoreIsAwaited(r)'
    <3>1. RestoreIsAwaited(r)
      BY DEF RequestInv, UndecidedAreAwaited, RestoreIsAwaited
    <3> QED
      BY <3>1, RestoreCallAwaits, RestoreOthersAwait
  <2>5. UndecidedAreAwaited'
    BY <2>3, <2>4 DEF UndecidedAreAwaited, BackupIsAwaited, RestoreIsAwaited
  <2> QED
    BY <2>2, <2>5 DEF RequestInv
<1>3. RequestInv => UndecidedAreAwaited
  BY DEF RequestInv
<1> QED
  BY <1>1, <1>2, <1>3, PTL DEF Spec
=============================================================================
