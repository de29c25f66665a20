---------------------- MODULE ContinuousBackup_proofs -----------------------
(***************************************************************************)
(* Proofs about ContinuousBackup, for every interval, retention and bound. *)
(***************************************************************************)
EXTENDS ContinuousBackupProperties, FiniteSetTheorems, TLAPS

Timers == {Never} \cup 1..now + Interval + Recheck

Started == {t \in Times : jobs[t] # "none"}

\* What a status can say at time n, where S are the backups that have a Job: its
\* last backup has one, of the same call, and it counts no more than there are.
KnownAt(o, n, S) ==
    /\ o.last # Never => /\ o.last <= n
                         /\ \E t \in S : t <= o.last /\ o.last <= t + MaxCall
    /\ o.count <= Cardinality(S)

Known(o) == KnownAt(o, now, Started)

\* Wherever a status is: stored, cached or about to be stored.
ObjectsAreKnown == Known(cb) /\ Known(seenCb.obj) /\ Known(worker.obj)

\* A call does not outlast MaxCall, and cleans up only after it created its Job.
CallIsTimely ==
    /\ worker.pc # "idle" => worker.at <= now /\ now <= worker.at + MaxCall
    /\ worker.pc = "cleanup" => Retention > 0 /\ worker.at \in Started

\* Each cleanup follows a Job by no more than a call takes.
CleanupsFollowJobs ==
    \A c \in cleanups : /\ Retention > 0 /\ c <= now
                        /\ \E u \in Started : c <= u + MaxCall

\* A file is written by the pod of its Job, at the Job's second or later.
FilesFollowJobs ==
    /\ \A t \in Started : t <= now
    /\ \A t \in Times : files[t].state # "none" => t <= files[t].written

\* A newer backup was begun when a cleanup found its file old, so that it does
\* not matter when the file is deleted, nor whether it was written again.
CondemnedAreReplaced ==
    \A c \in Times : condemned[c] # Never => \E u \in Started : u > condemned[c]

IInv ==
    /\ BackupTypeOK /\ ObjectsAreKnown /\ CallIsTimely
    /\ CleanupsFollowJobs /\ FilesFollowJobs
    /\ CondemnedAreReplaced /\ NewerBackupIsBegun

-----------------------------------------------------------------------------
(* Type correctness *)

LEMMA ConstantTypes ==
    /\ 0 \in Times /\ Times \subseteq Nat /\ Never \in Nat /\ Never \notin Times
    /\ Interval \in Nat /\ Interval > 0 /\ Recheck \in Nat /\ Recheck > 0
    /\ Retention \in Nat /\ MaxCall \in Nat /\ MaxTime \in Nat /\ MaxMishaps \in Nat
    /\ \A t \in Times : t <= MaxTime
  BY ConstantsAssumption DEF Times, Never

LEMMA NewObjectType ==
    ASSUME NEW valid \in BOOLEAN
    PROVE  NewObject(valid) \in ContinuousBackupObject
  BY ConstantTypes DEF NewObject, ContinuousBackupObject

LEMMA NoCallType == NoCall \in Call
  BY ConstantTypes, NewObjectType DEF NoCall, Call

LEMMA InitTypeOK == BackupInit => BackupTypeOK
<1> SUFFICES ASSUME BackupInit PROVE BackupTypeOK
  OBVIOUS
<1>1. cb \in ContinuousBackupObject
  BY NewObjectType DEF BackupInit
<1>2. seenCb \in [obj : ContinuousBackupObject, current : BOOLEAN]
  BY <1>1 DEF BackupInit, Cached
<1>3. files \in [Times -> File]
  BY ConstantTypes DEF BackupInit, NoFile, File
<1>4. jobs \in [Times -> JobState]
  BY DEF BackupInit, JobState
<1> QED
  BY <1>1, <1>2, <1>3, <1>4, ConstantTypes, NoCallType DEF BackupInit, BackupTypeOK

LEMMA MishapType == ASSUME BackupTypeOK, Mishap PROVE mishaps' \in 0..MaxMishaps
  BY ConstantTypes DEF Mishap, BackupTypeOK

LEMMA WakeByIsTimer ==
    ASSUME BackupTypeOK, NEW t \in Timers
    PROVE  WakeBy(t) \in Timers
  BY DEF WakeBy, BackupTypeOK, Timers

LEMMA ReturnsErrorType ==
    ASSUME BackupTypeOK, ReturnsError
    PROVE  worker' \in Call /\ queued' \in BOOLEAN /\ wake' \in Timers
  BY NoCallType DEF ReturnsError, BackupTypeOK, Timers

\* What the call works on is what the cache held when it started.
LEMMA StartedCall ==
    ASSUME BackupTypeOK, CallStarts
    PROVE  \/ worker' = worker
           \/ /\ worker' \in Call
              /\ worker'.pc \in {"createJob", "writeStatus"} /\ worker'.at = now
              /\ worker'.obj.last = seenCb.obj.last /\ worker'.obj.count = seenCb.obj.count
<1> DEFINE o == seenCb.obj
           call == [pc |-> "createJob", at |-> now, obj |-> o, fresh |-> seenCb.current]
<1>1. o \in ContinuousBackupObject /\ seenCb.current \in BOOLEAN /\ now \in Times
  BY DEF BackupTypeOK
<1>2. call \in Call /\ call.obj = o /\ call.at = now /\ call.pc = "createJob"
  BY <1>1 DEF Call
<1>3. \/ worker' = worker \/ worker' = call
      \/ worker' = [call EXCEPT !.pc = "writeStatus", !.obj.reason = "Suspended",
                                !.obj.named = 0]
  BY DEF CallStarts
<1> HIDE DEF call
<1>4. [call EXCEPT !.pc = "writeStatus", !.obj.reason = "Suspended", !.obj.named = 0]
      = [call EXCEPT !.pc = "writeStatus",
                     !.obj = [call.obj EXCEPT !.reason = "Suspended", !.named = 0]]
  BY <1>2 DEF Call
<1> DEFINE status == [call.obj EXCEPT !.reason = "Suspended", !.named = 0]
<1>5. status \in ContinuousBackupObject /\ status.last = o.last /\ status.count = o.count
  BY <1>1, <1>2, ConstantTypes DEF ContinuousBackupObject
<1> HIDE DEF status, o
<1> QED
  BY <1>2, <1>3, <1>4, <1>5 DEF Call, status, o

LEMMA CallStartsType == ASSUME BackupTypeOK, ObjectsAreKnown, CallStarts PROVE BackupTypeOK'
<1> DEFINE o == seenCb.obj
<1>1. o \in ContinuousBackupObject /\ seenCb.current \in BOOLEAN /\ now \in Times
  BY DEF BackupTypeOK
<1>2. worker' \in Call
  BY StartedCall DEF BackupTypeOK
<1>3. wake' \in Timers
  <2>1. CASE UNCHANGED wake
    BY <2>1 DEF BackupTypeOK, Timers
  <2>2. CASE ~Due(o) /\ WaitsUntil(NextRun(o))
    <3>1. NextRun(o) \in Timers
      <4>1. o.last # Never => o.last <= now /\ o.last \in Nat
        BY <1>1, ConstantTypes DEF ObjectsAreKnown, Known, KnownAt, ContinuousBackupObject
      <4>2. now \in Nat
        BY <1>1, ConstantTypes
      <4>3. o.last # Never /\ (o.valid => ~(now >= o.last + Interval))
        BY <1>1, <2>2 DEF Due, ContinuousBackupObject
      <4> HIDE DEF o
      <4> QED
        BY <4>1, <4>2, <4>3, ConstantTypes DEF NextRun, Timers
    <3> QED
      BY <2>2, <3>1, WakeByIsTimer DEF WaitsUntil
  <2> QED
    BY <2>1, <2>2 DEF CallStarts
<1>4. mishaps' \in 0..MaxMishaps
  BY MishapType DEF CallStarts, BackupTypeOK
<1> QED
  BY <1>2, <1>3, <1>4 DEF CallStarts, BackupTypeOK, volume, Timers

LEMMA RecordedType ==
    ASSUME BackupTypeOK, NEW c \in ContinuousBackupObject
    PROVE  Recorded(c) \in ContinuousBackupObject
<1>1. now \in Times /\ 0 \in Times
  BY ConstantTypes DEF BackupTypeOK
<1>2. c.count \in Nat
  BY DEF ContinuousBackupObject
<1>3. c.count + 1 \in Nat
  BY <1>2
<1>4. Recorded(c) = [c EXCEPT !.count = c.count + 1, !.last = now,
                              !.reason = "BackupSuccessful", !.named = 0]
  BY DEF Recorded
<1> QED
  BY <1>1, <1>3, <1>4 DEF ContinuousBackupObject

LEMMA JobIsRefusedType ==
    ASSUME BackupTypeOK, NEW t \in Times, JobIsRefused(t)
    PROVE  worker' \in Call
<1>1. worker.obj \in ContinuousBackupObject
  BY DEF BackupTypeOK, Call
<1>2. [worker.obj EXCEPT !.reason = "BackupFailed", !.named = t] \in ContinuousBackupObject
  BY <1>1 DEF ContinuousBackupObject
<1>3. worker' = [worker EXCEPT !.pc = "writeStatus",
                   !.obj = [worker.obj EXCEPT !.reason = "BackupFailed", !.named = t]]
  BY DEF JobIsRefused, AfterFailure, BackupTypeOK, Call
<1> QED
  BY <1>2, <1>3 DEF BackupTypeOK, Call

LEMMA CreatesJobType == ASSUME BackupTypeOK, CreatesJob PROVE BackupTypeOK'
<1>1. worker.at \in Times /\ worker.obj \in ContinuousBackupObject
  BY DEF BackupTypeOK, Call
<1>2. CASE jobs[worker.at] # "none"
  BY <1>1, <1>2, JobIsRefusedType DEF CreatesJob, BackupTypeOK
<1>3. CASE jobs[worker.at] = "none"
  <2>1. worker' \in Call
    <3>1. Recorded(worker.obj) \in ContinuousBackupObject /\ worker \in Call
      BY <1>1, RecordedType DEF BackupTypeOK
    <3>2. \E step \in {"cleanup", "writeStatus"} :
            worker' = [worker EXCEPT !.obj = Recorded(@), !.pc = step]
      BY <1>3 DEF CreatesJob
    <3> QED
      BY <3>1, <3>2 DEF Call
  <2>2. jobs' \in [Times -> JobState]
    BY <1>1, <1>3 DEF CreatesJob, BackupTypeOK, JobState
  <2> QED
    BY <1>3, <2>1, <2>2 DEF CreatesJob, BackupTypeOK
<1> QED
  BY <1>2, <1>3

LEMMA CreatesCleanupType == ASSUME BackupTypeOK, CreatesCleanup PROVE BackupTypeOK'
<1>1. worker' \in Call
  BY DEF CreatesCleanup, BackupTypeOK, Call
<1> QED
  BY <1>1 DEF CreatesCleanup, BackupTypeOK

LEMMA WritesStatusType == ASSUME BackupTypeOK, WritesStatus PROVE BackupTypeOK'
<1>1. worker.obj \in ContinuousBackupObject /\ now \in Times
  BY DEF BackupTypeOK, Call
<1>2. CASE ~worker.fresh
  BY <1>2, ReturnsErrorType DEF WritesStatus, BackupTypeOK, volume, Timers
<1>3. CASE worker.fresh
  <2>1. wake' \in Timers
    <3>1. now + Recheck \in Timers /\ now + Interval \in Timers
      BY <1>1, ConstantTypes DEF Timers
    <3> QED
      BY <1>3, <3>1, WakeByIsTimer DEF WritesStatus, RequeuesAfter, BackupTypeOK, Timers
  <2>2. seenCb' \in [obj : ContinuousBackupObject, current : BOOLEAN]
    BY <1>3 DEF WritesStatus, BackupTypeOK
  <2> QED
    BY <1>1, <1>3, <2>1, <2>2, NoCallType DEF WritesStatus, BackupTypeOK, volume, Timers
<1> QED
  BY <1>2, <1>3

\* Clock, timer, informer.
LEMMA MachineryType ==
    ASSUME BackupTypeOK, Tick \/ TimerFires \/ SyncCb
    PROVE  BackupTypeOK'
<1>1. CASE Tick
  BY <1>1, ConstantTypes DEF Tick, BackupTypeOK, Times, control, volume
<1>2. CASE TimerFires
  BY <1>2 DEF TimerFires, BackupTypeOK, volume
<1>3. CASE SyncCb
  BY <1>3 DEF SyncCb, Cached, BackupTypeOK, volume
<1> QED
  BY <1>1, <1>2, <1>3

\* What pods leave alone.
LEMMA PodsKeep ==
    ASSUME Pods
    PROVE  UNCHANGED <<now, control, cleanups>> /\ (UNCHANGED mishaps \/ Mishap)
  BY DEF Pods, BackupPod, CleanupPod, BackupOpens, BackupSucceeds, BackupAttemptFails,
     CleanupStats, CleanupRemoves, KeepController

\* The pod of a backup works for its Job and may write its file; the others look
\* or delete.
LEMMA PodSteps ==
    ASSUME Pods
    PROVE  \/ \E t \in Times :
                /\ jobs[t] # "none" /\ UNCHANGED condemned
                /\ \E s \in JobState \ {"none"} : jobs' = [jobs EXCEPT ![t] = s]
                /\ UNCHANGED files \/ \E s \in {"partial", "complete"} : WritesFile(t, s)
           \/ \E t \in Times : CleanupStats(t) \/ CleanupRemoves(t)
<1>1. PICK t \in Times : BackupPod(t) \/ CleanupPod(t)
  BY DEF Pods
<1>2. CASE CleanupPod(t)
  BY <1>2 DEF CleanupPod
<1>3. CASE BackupPod(t)
  BY <1>3 DEF BackupPod, BackupOpens, BackupSucceeds, BackupAttemptFails, JobState
<1> QED
  BY <1>1, <1>2, <1>3

LEMMA PodsType == ASSUME BackupTypeOK, Pods PROVE BackupTypeOK'
<1>1. UNCHANGED <<now, control, cleanups>> /\ mishaps' \in 0..MaxMishaps
  BY PodsKeep, MishapType DEF BackupTypeOK
<1>2. now \in Times /\ files \in [Times -> File]
      /\ condemned \in [Times -> Times \cup {Never}]
  BY DEF BackupTypeOK
<1>3. ASSUME NEW t \in Times, NEW s \in {"partial", "complete"}, WritesFile(t, s)
      PROVE  files' \in [Times -> File]
  <2>1. [state |-> s, written |-> now] \in File
    BY <1>2 DEF File
  <2> QED
    BY <1>2, <1>3, <2>1 DEF WritesFile
<1>4. ASSUME NEW t \in Times, CleanupStats(t) \/ CleanupRemoves(t)
      PROVE  /\ files' \in [Times -> File] /\ UNCHANGED jobs
             /\ condemned' \in [Times -> Times \cup {Never}]
  <2>1. CASE CleanupStats(t)
    BY <1>2, <2>1 DEF CleanupStats
  <2>2. CASE CleanupRemoves(t)
    <3>1. condemned[t] \in Times
      BY <1>2, <2>2 DEF CleanupRemoves
    <3>2. [files[condemned[t]] EXCEPT !.state = "deleted"] \in File
      BY <1>2, <3>1 DEF File
    <3> QED
      BY <1>2, <2>2, <3>1, <3>2 DEF CleanupRemoves
  <2> QED
    BY <1>4, <2>1, <2>2
<1>5. jobs' \in [Times -> JobState] /\ files' \in [Times -> File]
      /\ condemned' \in [Times -> Times \cup {Never}]
  BY <1>2, <1>3, <1>4, PodSteps DEF BackupTypeOK
<1> QED
  BY <1>1, <1>5 DEF BackupTypeOK, control

\* Users, failures and restarts.
LEMMA MishapsType ==
    ASSUME BackupTypeOK, UserEdits \/ CallFails \/ OperatorRestarts
    PROVE  BackupTypeOK'
<1>1. mishaps' \in 0..MaxMishaps
  BY MishapType DEF UserEdits, CallFails, OperatorRestarts
<1>2. CASE UserEdits
  <2>1. cb' \in ContinuousBackupObject
    BY <1>2 DEF UserEdits, BackupTypeOK, ContinuousBackupObject
  <2>2. seenCb' \in [obj : ContinuousBackupObject, current : BOOLEAN] /\ worker' \in Call
    BY <1>2 DEF UserEdits, BackupTypeOK, Call
  <2> QED
    BY <1>1, <1>2, <2>1, <2>2 DEF UserEdits, BackupTypeOK, volume
<1>3. CASE CallFails
  <2>1. CASE JobIsRefused(0) /\ UNCHANGED <<queued, wake>>
    BY <1>1, <1>3, <2>1, JobIsRefusedType, ConstantTypes DEF CallFails, BackupTypeOK, volume
  <2>2. CASE worker' = [worker EXCEPT !.pc = "writeStatus"] /\ UNCHANGED <<queued, wake>>
    <3>1. worker' \in Call
      BY <2>2 DEF BackupTypeOK, Call
    <3> QED
      BY <1>1, <1>3, <2>2, <3>1 DEF CallFails, BackupTypeOK, volume
  <2>3. CASE ReturnsError
    BY <1>1, <1>3, <2>3, ReturnsErrorType DEF CallFails, BackupTypeOK, volume, Timers
  <2> QED
    BY <1>3, <2>1, <2>2, <2>3 DEF CallFails
<1>4. CASE OperatorRestarts
  BY <1>1, <1>4, NoCallType DEF OperatorRestarts, Cached, BackupTypeOK, volume
<1> QED
  BY <1>2, <1>3, <1>4

LEMMA NextTypeOK ==
    ASSUME BackupTypeOK, ObjectsAreKnown, [BackupNext]_backupVars
    PROVE  BackupTypeOK'
<1>1. CASE BackupNext
  BY <1>1, CallStartsType, CreatesJobType, CreatesCleanupType, WritesStatusType,
     MachineryType, PodsType, MishapsType
  DEF BackupNext, Reconcile
<1>2. CASE UNCHANGED backupVars
  BY <1>2 DEF backupVars, control, volume, BackupTypeOK
<1> QED
  BY <1>1, <1>2

-----------------------------------------------------------------------------
(* The clock and the Jobs only grow *)

LEMMA StartedType ==
    ASSUME BackupTypeOK
    PROVE  Started \subseteq Times /\ IsFiniteSet(Started) /\ Cardinality(Started) \in Nat
<1>1. IsFiniteSet(Times)
  BY ConstantTypes, FS_Interval DEF Times
<1>2. Started \subseteq Times
  BY DEF Started
<1> QED
  BY <1>1, <1>2, FS_Subset, FS_CardinalityType

LEMMA JobsStay ==
    ASSUME BackupTypeOK, [BackupNext]_backupVars
    PROVE  now' >= now /\ Started \subseteq Started'
<1>1. now \in Nat
  BY ConstantTypes DEF BackupTypeOK
<1>2. CASE CreatesJob
  <2>1. \A t \in Times : jobs[t] # "none" => jobs'[t] # "none"
    BY <1>2 DEF CreatesJob, BackupTypeOK
  <2> QED
    BY <1>1, <1>2, <2>1 DEF CreatesJob, Started
<1>3. CASE Pods
  <2>1. \A t \in Times : jobs[t] # "none" => jobs'[t] # "none"
    BY <1>3, PodSteps DEF CleanupStats, CleanupRemoves, BackupTypeOK
  <2> QED
    BY <1>1, <1>3, <2>1, PodsKeep DEF Started
<1>4. CASE Tick
  BY <1>1, <1>4 DEF Tick, volume, Started
<1>5. CASE UNCHANGED <<now, jobs>>
  BY <1>1, <1>5 DEF Started
<1>6. CreatesJob \/ Pods \/ Tick \/ UNCHANGED <<now, jobs>>
  BY DEF BackupNext, Reconcile, CallStarts, CreatesCleanup, WritesStatus, TimerFires, SyncCb,
     UserEdits, CallFails, OperatorRestarts, backupVars, volume
<1> QED
  BY <1>2, <1>3, <1>4, <1>5, <1>6

LEMMA KnownAtStays ==
    ASSUME NEW o, NEW n \in Nat, NEW m \in Nat, n <= m, NEW S, NEW T, S \subseteq T,
           IsFiniteSet(T), o.last \in Nat, o.count \in Nat, KnownAt(o, n, S)
    PROVE  KnownAt(o, m, T)
<1>1. IsFiniteSet(S) /\ Cardinality(S) <= Cardinality(T)
  BY FS_Subset
<1>2. Cardinality(S) \in Nat /\ Cardinality(T) \in Nat
  BY <1>1, FS_CardinalityType
<1>3. o.count <= Cardinality(T)
  BY <1>1, <1>2 DEF KnownAt
<1> QED
  BY <1>3 DEF KnownAt

-----------------------------------------------------------------------------
(* Statuses *)

\* A status is changed in what does not matter here, or records the Job of this
\* very call.
LEMMA NextKnown ==
    ASSUME IInv, BackupTypeOK', [BackupNext]_backupVars
    PROVE  ObjectsAreKnown'
<1> DEFINE Same(p, o) == p.last = o.last /\ p.count = o.count
           Old == {cb, seenCb.obj, worker.obj}
           Fine(p) == (p.last = Never /\ p.count = 0) \/ \E o \in Old : Same(p, o)
<1>1. BackupTypeOK /\ ObjectsAreKnown /\ CallIsTimely
  BY DEF IInv
<1>2. now \in Nat /\ now' \in Nat /\ now <= now' /\ Started \subseteq Started'
  BY <1>1, ConstantTypes, JobsStay DEF BackupTypeOK
<1>3. IsFiniteSet(Started') /\ Cardinality(Started') \in Nat
  <2>1. Started' \subseteq Times /\ IsFiniteSet(Times)
    BY ConstantTypes, FS_Interval DEF Started, Times
  <2> QED
    BY <2>1, FS_Subset, FS_CardinalityType
<1>4. \A o \in Old : o.last \in Nat /\ o.count \in Nat /\ KnownAt(o, now, Started)
  <2>1. cb \in ContinuousBackupObject /\ seenCb.obj \in ContinuousBackupObject
        /\ worker.obj \in ContinuousBackupObject
    BY <1>1 DEF BackupTypeOK, Call
  <2>2. \A o \in ContinuousBackupObject : o.last \in Nat /\ o.count \in Nat
    BY ConstantTypes DEF ContinuousBackupObject
  <2> QED
    BY <1>1, <2>1, <2>2 DEF ObjectsAreKnown, Known
<1>5. ASSUME NEW p, Fine(p) PROVE KnownAt(p, now', Started')
  <2>1. CASE p.last = Never /\ p.count = 0
    BY <1>3, <2>1 DEF KnownAt
  <2>2. CASE \E o \in Old : Same(p, o)
    <3>1. PICK o \in Old : Same(p, o)
      BY <2>2
    <3>2. KnownAt(o, now', Started')
      BY <1>2, <1>3, <1>4, <3>1, KnownAtStays
    <3> QED
      BY <3>1, <3>2 DEF KnownAt
  <2> QED
    BY <1>5, <2>1, <2>2
<1>6. SUFFICES KnownAt(cb', now', Started') /\ KnownAt(seenCb'.obj, now', Started')
               /\ KnownAt(worker'.obj, now', Started')
  BY DEF ObjectsAreKnown, Known
<1>7. Fine(cb) /\ Fine(seenCb.obj) /\ Fine(worker.obj)
  OBVIOUS
<1>8. Fine(NoCall.obj)
  BY DEF NoCall, NewObject
<1>9. Fine(cb') /\ Fine(seenCb'.obj)
  <2>1. CASE UserEdits
    BY <1>1, <2>1 DEF UserEdits, BackupTypeOK, ContinuousBackupObject
  <2>2. CASE WritesStatus
    BY <1>1, <2>2 DEF WritesStatus, BackupTypeOK
  <2>3. CASE SyncCb \/ OperatorRestarts
    BY <2>3 DEF SyncCb, OperatorRestarts, Cached
  <2>4. CASE UNCHANGED <<cb, seenCb>>
    BY <2>4
  <2>5. UserEdits \/ WritesStatus \/ SyncCb \/ OperatorRestarts \/ UNCHANGED <<cb, seenCb>>
    BY PodsKeep DEF BackupNext, Reconcile, CallStarts, CreatesJob, CreatesCleanup, Tick,
       TimerFires, CallFails, backupVars, control
  <2> QED
    BY <2>1, <2>2, <2>3, <2>4, <2>5
<1>10. Fine(worker'.obj) \/ (CreatesJob /\ jobs[worker.at] = "none")
  <2>1. worker \in Call /\ worker.obj \in ContinuousBackupObject
        /\ seenCb.obj \in ContinuousBackupObject
    BY <1>1 DEF BackupTypeOK, Call
  <2>2. \A p : Same(p, worker.obj) \/ Same(p, seenCb.obj) => Fine(p)
    OBVIOUS
  <2> HIDE DEF Fine, Old
  <2>3. ASSUME NEW t \in Times, JobIsRefused(t) PROVE Fine(worker'.obj)
    <3>1. worker'.obj = [worker.obj EXCEPT !.reason = "BackupFailed", !.named = t]
      BY <2>1, <2>3 DEF JobIsRefused, Call
    <3> QED
      BY <2>1, <2>2, <3>1 DEF ContinuousBackupObject
  <2>11. CASE CallStarts
    BY <1>1, <2>2, <2>11, StartedCall
  <2>4. CASE CreatesJob /\ jobs[worker.at] # "none"
    BY <2>1, <2>3, <2>4 DEF CreatesJob, Call
  <2>5. CASE worker' = NoCall
    BY <1>8, <2>5
  <2>6. CASE worker'.obj = worker.obj
    BY <2>2, <2>6
  <2>7. CASE CallFails
    <3>1. CASE JobIsRefused(0)
      <4>1. 0 \in Times
        BY ConstantTypes
      <4> QED
        BY <2>3, <3>1, <4>1
    <3>2. CASE worker' = [worker EXCEPT !.pc = "writeStatus"] \/ ReturnsError
      BY <2>1, <2>5, <2>6, <3>2 DEF ReturnsError, Call
    <3> QED
      BY <2>7, <3>1, <3>2 DEF CallFails
  <2>8. CASE CreatesCleanup \/ WritesStatus \/ UserEdits \/ OperatorRestarts
    <3>1. worker' = NoCall \/ worker'.obj = worker.obj
      BY <2>1, <2>8 DEF CreatesCleanup, WritesStatus, ReturnsError, UserEdits, OperatorRestarts,
         Call
    <3> QED
      BY <2>5, <2>6, <3>1
  <2>9. CASE UNCHANGED worker
    BY <2>6, <2>9
  <2>10. \/ CallStarts \/ CreatesJob \/ CallFails
         \/ CreatesCleanup \/ WritesStatus \/ UserEdits \/ OperatorRestarts
         \/ UNCHANGED worker
    BY PodsKeep DEF BackupNext, Reconcile, Tick, TimerFires, SyncCb, backupVars, control
  <2> QED
    BY <2>4, <2>7, <2>8, <2>9, <2>10, <2>11
<1>11. ASSUME CreatesJob, jobs[worker.at] = "none"
       PROVE  KnownAt(worker'.obj, now', Started')
  <2>1. worker \in Call /\ worker.obj \in ContinuousBackupObject /\ worker.at \in Times
        /\ worker.at \in Nat /\ worker.at <= now /\ now <= worker.at + MaxCall
    BY <1>1, <1>11, ConstantTypes DEF CallIsTimely, CreatesJob, BackupTypeOK, Call
  <2>2. Started' = Started \cup {worker.at} /\ worker.at \notin Started
    BY <1>1, <1>11, <2>1 DEF CreatesJob, Started, BackupTypeOK
  <2>3. Cardinality(Started') = Cardinality(Started) + 1 /\ Cardinality(Started) \in Nat
    BY <1>1, <2>2, StartedType, FS_AddElement
  <2>4. worker'.obj = Recorded(worker.obj) /\ now' = now
    BY <1>11, <2>1 DEF CreatesJob, Call
  <2>5. worker'.obj.last = now /\ worker'.obj.count = worker.obj.count + 1
    BY <2>1, <2>4 DEF Recorded, ContinuousBackupObject
  <2>6. worker.obj.count \in Nat /\ worker.obj.count <= Cardinality(Started)
    BY <1>4 DEF KnownAt
  <2>7. worker'.obj.count <= Cardinality(Started')
    BY <2>3, <2>5, <2>6
  <2>8. worker.at \in Started' /\ worker.at <= worker'.obj.last
        /\ worker'.obj.last <= worker.at + MaxCall /\ worker'.obj.last <= now'
    BY <1>2, <2>1, <2>2, <2>4, <2>5
  <2> QED
    BY <2>7, <2>8 DEF KnownAt
<1> QED
  BY <1>5, <1>9, <1>10, <1>11

\* A running call is at most MaxCall old: the clock waits for it.
LEMMA NextCallIsTimely ==
    ASSUME IInv, BackupTypeOK', [BackupNext]_backupVars
    PROVE  CallIsTimely'
<1>1. BackupTypeOK /\ CallIsTimely /\ now \in Nat /\ worker \in Call /\ worker.at \in Nat
      /\ worker.at \in Times
  BY ConstantTypes DEF IInv, BackupTypeOK, Call
<1>2. now' >= now /\ Started \subseteq Started'
  BY <1>1, JobsStay
<1>3. CASE Tick
  BY <1>1, <1>2, <1>3, ConstantTypes DEF CallIsTimely, Tick, control
<1>4. CASE now' = now /\ worker'.pc = "idle"
  BY <1>4 DEF CallIsTimely
<1>5. CASE now' = now /\ worker'.at = worker.at /\ worker.pc # "idle" /\ worker'.pc # "cleanup"
  BY <1>1, <1>5 DEF CallIsTimely
<1>6. CASE now' = now /\ worker'.at = worker.at /\ worker'.pc = worker.pc
  BY <1>1, <1>2, <1>6 DEF CallIsTimely
<1>7. CASE CallStarts
  <2>1. worker' = worker \/ (worker'.at = now /\ worker'.pc \in {"createJob", "writeStatus"})
    BY <1>1, <1>7, StartedCall
  <2>2. now <= now + MaxCall /\ now' = now
    BY <1>1, <1>7, ConstantTypes DEF CallStarts
  <2> QED
    BY <1>6, <2>1, <2>2, <1>1 DEF CallIsTimely
<1>8. CASE CreatesJob
  <2>1. CASE jobs[worker.at] # "none"
    BY <1>1, <1>5, <1>8, <2>1 DEF CreatesJob, JobIsRefused, AfterFailure, Call
  <2>2. CASE jobs[worker.at] = "none"
    <3>1. worker'.at = worker.at /\ now' = now /\ (worker'.pc = "cleanup" => Retention > 0)
      BY <1>1, <1>8, <2>2, ConstantTypes DEF CreatesJob, Call
    <3>2. jobs'[worker.at] # "none"
      BY <1>1, <1>8, <2>2 DEF CreatesJob, BackupTypeOK
    <3> QED
      BY <1>1, <1>8, <3>1, <3>2 DEF CreatesJob, CallIsTimely, Started
  <2> QED
    BY <2>1, <2>2
<1>9. CASE CreatesCleanup \/ WritesStatus \/ UserEdits
  <2>1. /\ now' = now
        /\ \/ worker'.pc = "idle"
           \/ worker'.at = worker.at /\ worker'.pc = worker.pc
           \/ worker'.at = worker.at /\ worker.pc = "cleanup" /\ worker'.pc = "writeStatus"
    <3>1. CASE CreatesCleanup
      BY <1>1, <3>1 DEF CreatesCleanup, Call
    <3>2. CASE WritesStatus
      <4>1. worker' = NoCall /\ now' = now
        BY <3>2 DEF WritesStatus, ReturnsError
      <4> QED
        BY <4>1 DEF NoCall
    <3>3. CASE UserEdits
      BY <1>1, <3>3 DEF UserEdits, Call
    <3> QED
      BY <1>9, <3>1, <3>2, <3>3
  <2> QED
    BY <1>4, <1>5, <1>6, <2>1
<1>10. CASE CallFails \/ OperatorRestarts
  <2>1. /\ now' = now
        /\ \/ worker'.pc = "idle"
           \/ worker'.at = worker.at /\ worker.pc # "idle" /\ worker'.pc = "writeStatus"
    <3>1. CASE OperatorRestarts
      BY <3>1 DEF OperatorRestarts, NoCall
    <3>2. CASE CallFails /\ ReturnsError
      BY <3>2 DEF CallFails, ReturnsError, NoCall
    <3>3. CASE CallFails /\ worker.pc = "createJob" /\ JobIsRefused(0)
      BY <1>1, <3>3 DEF CallFails, JobIsRefused, AfterFailure, Call
    <3>4. CASE CallFails /\ worker.pc = "cleanup" /\ worker' = [worker EXCEPT !.pc = "writeStatus"]
      BY <1>1, <3>4 DEF CallFails, Call
    <3> QED
      BY <1>10, <3>1, <3>2, <3>3, <3>4 DEF CallFails
  <2> QED
    BY <1>4, <1>5, <2>1
<1>11. CASE UNCHANGED <<now, worker>>
  BY <1>6, <1>11
<1>12. \/ Tick \/ CallStarts \/ CreatesJob \/ CreatesCleanup \/ WritesStatus \/ UserEdits
       \/ CallFails \/ OperatorRestarts \/ UNCHANGED <<now, worker>>
  BY PodsKeep DEF BackupNext, Reconcile, TimerFires, SyncCb, backupVars, control
<1> QED
  BY <1>3, <1>7, <1>8, <1>9, <1>10, <1>11, <1>12

-----------------------------------------------------------------------------
(* Cleanups and files *)

LEMMA NextCleanupsFollowJobs ==
    ASSUME IInv, [BackupNext]_backupVars
    PROVE  CleanupsFollowJobs'
<1>1. BackupTypeOK /\ CallIsTimely /\ CleanupsFollowJobs /\ now \in Nat
  BY ConstantTypes DEF IInv, BackupTypeOK
<1>2. now' >= now /\ now' \in Nat /\ Started \subseteq Started'
  BY <1>1, JobsStay, NextTypeOK, ConstantTypes DEF IInv, BackupTypeOK
<1>3. cleanups \subseteq Nat
  BY <1>1, ConstantTypes DEF BackupTypeOK
<1>4. CASE CreatesCleanup
  <2>1. cleanups' = cleanups \cup {now} /\ worker.pc = "cleanup" /\ now' = now
    BY <1>4 DEF CreatesCleanup
  <2>2. Retention > 0 /\ worker.at \in Started /\ now <= worker.at + MaxCall
    BY <1>1, <2>1 DEF CallIsTimely
  <2> QED
    BY <1>1, <1>2, <2>1, <2>2 DEF CleanupsFollowJobs
<1>5. CASE UNCHANGED cleanups
  BY <1>1, <1>2, <1>3, <1>5 DEF CleanupsFollowJobs
<1>6. CreatesCleanup \/ UNCHANGED cleanups
  BY PodsKeep DEF BackupNext, Reconcile, CallStarts, CreatesJob, WritesStatus, Tick, TimerFires,
     SyncCb, UserEdits, CallFails, OperatorRestarts, backupVars, volume
<1> QED
  BY <1>4, <1>5, <1>6

\* A cleanup changes nothing but the state of the file it deletes.
LEMMA RemovedFile ==
    ASSUME BackupTypeOK, NEW c \in Times, CleanupStats(c) \/ CleanupRemoves(c),
           NEW t \in Times
    PROVE  \/ files'[t] = files[t]
           \/ /\ CleanupRemoves(c) /\ condemned[c] = t /\ files[t].state # "none"
              /\ files'[t].written = files[t].written
  BY DEF CleanupStats, CleanupRemoves, OnVolume, BackupTypeOK, File

LEMMA NextFilesFollowJobs ==
    ASSUME IInv, [BackupNext]_backupVars
    PROVE  FilesFollowJobs'
<1>1. BackupTypeOK /\ CallIsTimely /\ FilesFollowJobs /\ now \in Nat
  BY ConstantTypes DEF IInv, BackupTypeOK
<1>2. now' >= now /\ now' \in Nat /\ BackupTypeOK'
  BY <1>1, JobsStay, NextTypeOK, ConstantTypes DEF IInv, BackupTypeOK
<1>3. \A t \in Started' : t <= now'
  <2>1. CASE CreatesJob
    <3>1. worker.pc = "createJob" /\ now' = now /\ worker.at <= now
      BY <1>1, <2>1 DEF CreatesJob, CallIsTimely
    <3>2. \A t \in Started' : t \in Started \/ t = worker.at
      BY <1>1, <2>1 DEF CreatesJob, Started, BackupTypeOK
    <3> QED
      BY <1>1, <3>1, <3>2 DEF FilesFollowJobs
  <2>2. CASE Pods
    <3>1. \A t \in Times : jobs'[t] # "none" => jobs[t] # "none"
      BY <1>1, <2>2, PodSteps DEF CleanupStats, CleanupRemoves, BackupTypeOK
    <3>2. Started' \subseteq Started /\ now' = now
      BY <2>2, <3>1, PodsKeep DEF Started
    <3> QED
      BY <1>1, <3>2 DEF FilesFollowJobs
  <2>3. CASE UNCHANGED jobs
    <3>1. Started' = Started
      BY <2>3 DEF Started
    <3>2. \A t \in Started : t \in Nat
      BY ConstantTypes DEF Started
    <3> QED
      BY <1>1, <1>2, <3>1, <3>2 DEF FilesFollowJobs
  <2>4. CreatesJob \/ Pods \/ UNCHANGED jobs
    BY DEF BackupNext, Reconcile, CallStarts, CreatesCleanup, WritesStatus, Tick, TimerFires,
       SyncCb, UserEdits, CallFails, OperatorRestarts, backupVars, volume
  <2> QED
    BY <2>1, <2>2, <2>3, <2>4
<1>4. \A t \in Times : files'[t].state # "none" => t <= files'[t].written
  <2>1. CASE Pods
    <3>1. CASE UNCHANGED files
      BY <1>1, <3>1 DEF FilesFollowJobs
    <3>2. ASSUME NEW t \in Times, jobs[t] # "none", NEW s, WritesFile(t, s)
          PROVE  \A u \in Times : files'[u].state # "none" => u <= files'[u].written
      <4>1. t <= now
        BY <1>1, <3>2 DEF FilesFollowJobs, Started
      <4>2. files'[t].written = now /\ \A u \in Times \ {t} : files'[u] = files[u]
        BY <1>1, <3>2 DEF WritesFile, BackupTypeOK
      <4> QED
        BY <1>1, <4>1, <4>2 DEF FilesFollowJobs
    <3>3. ASSUME NEW c \in Times, CleanupStats(c) \/ CleanupRemoves(c)
          PROVE  \A u \in Times : files'[u].state # "none" => u <= files'[u].written
      BY <1>1, <3>3, RemovedFile DEF FilesFollowJobs
    <3> QED
      BY <2>1, <3>1, <3>2, <3>3, PodSteps
  <2>2. CASE UNCHANGED files
    BY <1>1, <2>2 DEF FilesFollowJobs
  <2>3. Pods \/ UNCHANGED files
    BY DEF BackupNext, Reconcile, CallStarts, CreatesJob, CreatesCleanup, WritesStatus, Tick,
       TimerFires, SyncCb, UserEdits, CallFails, OperatorRestarts, backupVars, volume
  <2> QED
    BY <2>1, <2>2, <2>3
<1> QED
  BY <1>3, <1>4 DEF FilesFollowJobs

\* What a cleanup finds old is Retention old when the cleanup is created, and then
\* a Job that is at most MaxCall old had been created.
LEMMA StatsAreReplaced ==
    ASSUME IInv, NEW c \in Times, NEW f \in Times,
           c \in cleanups, OnVolume(files[f]), Expired(files[f], c)
    PROVE  \E u \in Started : u > f
<1>1. BackupTypeOK /\ CleanupsFollowJobs /\ FilesFollowJobs
  BY DEF IInv
<1>2. c \in Nat /\ f \in Nat /\ files[f].written \in Nat
  BY <1>1, ConstantTypes DEF BackupTypeOK, File
<1>3. files[f].written < c - Retention /\ f <= files[f].written
  BY <1>1 DEF Expired, OnVolume, FilesFollowJobs
<1>4. PICK u \in Started : c <= u + MaxCall
  BY <1>1 DEF CleanupsFollowJobs
<1>5. MaxCall <= Retention /\ MaxCall \in Nat /\ Retention \in Nat
  BY <1>1, ConstantsAssumption DEF CleanupsFollowJobs
<1>6. u \in Nat
  BY ConstantTypes DEF Started
<1> QED
  BY <1>2, <1>3, <1>4, <1>5, <1>6

LEMMA NextCondemned ==
    ASSUME IInv, [BackupNext]_backupVars
    PROVE  CondemnedAreReplaced'
<1>1. BackupTypeOK /\ CondemnedAreReplaced
  BY DEF IInv
<1>2. Started \subseteq Started'
  BY <1>1, JobsStay
<1>3. CASE UNCHANGED condemned
  BY <1>1, <1>2, <1>3 DEF CondemnedAreReplaced
<1>4. ASSUME NEW c \in Times, CleanupStats(c) PROVE CondemnedAreReplaced'
  <2>1. PICK f \in Times : /\ OnVolume(files[f]) /\ Expired(files[f], c)
                           /\ condemned' = [condemned EXCEPT ![c] = f]
    BY <1>4 DEF CleanupStats
  <2>2. \E u \in Started : u > f
    BY <1>4, <2>1, StatsAreReplaced DEF CleanupStats
  <2> QED
    BY <1>1, <1>2, <2>1, <2>2 DEF CondemnedAreReplaced, BackupTypeOK
<1>5. ASSUME NEW c \in Times, CleanupRemoves(c) PROVE CondemnedAreReplaced'
  BY <1>1, <1>2, <1>5 DEF CleanupRemoves, CondemnedAreReplaced, BackupTypeOK
<1>6. Pods \/ UNCHANGED condemned
  BY DEF BackupNext, Reconcile, CallStarts, CreatesJob, CreatesCleanup, WritesStatus, Tick,
     TimerFires, SyncCb, UserEdits, CallFails, OperatorRestarts, backupVars, volume
<1> QED
  BY <1>3, <1>4, <1>5, <1>6, PodSteps

\* What is deleted was condemned.
LEMMA NextDeletions ==
    ASSUME IInv, [BackupNext]_backupVars
    PROVE  NewerBackupIsBegun'
<1>1. BackupTypeOK /\ CondemnedAreReplaced /\ NewerBackupIsBegun
  BY DEF IInv
<1>2. Started \subseteq Started'
  BY <1>1, JobsStay
<1>3. ASSUME NEW t \in Times, files'[t].state = "deleted"
      PROVE  \E u \in Times : u > t /\ jobs'[u] # "none"
  <2>1. CASE files'[t] = files[t]
    <3>1. \E u \in Started : u > t
      BY <1>1, <1>3, <2>1 DEF NewerBackupIsBegun, Started
    <3> QED
      BY <1>2, <3>1 DEF Started
  <2>2. ASSUME NEW c \in Times, CleanupRemoves(c), condemned[c] = t
        PROVE  \E u \in Times : u > t /\ jobs'[u] # "none"
    <3>1. \E u \in Started : u > t
      BY <1>1, <2>2 DEF CleanupRemoves, CondemnedAreReplaced
    <3> QED
      BY <1>2, <3>1 DEF Started
  <2>3. ASSUME NEW j \in Times, NEW s \in {"partial", "complete"}, WritesFile(j, s)
        PROVE  files'[t] = files[t]
    BY <1>1, <1>3, <2>3 DEF WritesFile, BackupTypeOK
  <2>4. ASSUME NEW c \in Times, CleanupStats(c) \/ CleanupRemoves(c)
        PROVE  files'[t] = files[t] \/ (CleanupRemoves(c) /\ condemned[c] = t)
    BY <1>1, <2>4, RemovedFile
  <2>5. Pods \/ UNCHANGED files
    BY DEF BackupNext, Reconcile, CallStarts, CreatesJob, CreatesCleanup, WritesStatus, Tick,
       TimerFires, SyncCb, UserEdits, CallFails, OperatorRestarts, backupVars, volume
  <2> QED
    BY <2>1, <2>2, <2>3, <2>4, <2>5, PodSteps
<1> QED
  BY <1>3 DEF NewerBackupIsBegun

-----------------------------------------------------------------------------
(* The theorems *)

LEMMA InitIInv == BackupInit => IInv
<1> SUFFICES ASSUME BackupInit PROVE IInv
  OBVIOUS
<1>1. Started = {}
  BY DEF BackupInit, Started
<1>2. Cardinality(Started) = 0
  BY <1>1, FS_EmptySet
<1>3. PICK valid \in BOOLEAN : cb = NewObject(valid)
  BY DEF BackupInit
<1>4. cb.last = Never /\ cb.count = 0 /\ seenCb.obj = cb
      /\ worker.obj.last = Never /\ worker.obj.count = 0 /\ worker.pc = "idle"
  BY <1>3 DEF BackupInit, NewObject, Cached, NoCall
<1>5. ObjectsAreKnown
  BY <1>2, <1>4 DEF ObjectsAreKnown, Known, KnownAt
<1>6. CallIsTimely /\ CleanupsFollowJobs
  BY <1>4 DEF BackupInit, CallIsTimely, CleanupsFollowJobs
<1>7. \A t \in Times : files[t].state = "none"
  BY DEF BackupInit, NoFile
<1>8. FilesFollowJobs /\ CondemnedAreReplaced /\ NewerBackupIsBegun
  BY <1>1, <1>7 DEF BackupInit, FilesFollowJobs, CondemnedAreReplaced, NewerBackupIsBegun
<1> QED
  BY <1>5, <1>6, <1>8, InitTypeOK DEF IInv

LEMMA NextIInv == IInv /\ [BackupNext]_backupVars => IInv'
<1> SUFFICES ASSUME IInv, [BackupNext]_backupVars PROVE IInv'
  OBVIOUS
<1>1. BackupTypeOK'
  BY NextTypeOK DEF IInv
<1> QED
  BY <1>1, NextKnown, NextCallIsTimely, NextCleanupsFollowJobs, NextFilesFollowJobs,
     NextCondemned, NextDeletions
  DEF IInv

LEMMA AlwaysIInv == BackupSpec => []IInv
  BY InitIInv, NextIInv, PTL DEF BackupSpec

\* Every object, Job, file, timer and call of a continuous backup keeps its
\* type, for every interval, retention and bound.
THEOREM BackupTypeCorrect == BackupSpec => []BackupTypeOK
<1>1. IInv => BackupTypeOK
  BY DEF IInv
<1> QED
  BY <1>1, AlwaysIInv, PTL

\* No file is deleted before a newer backup was begun, as long as a call is no
\* longer than the retention period, whatever happens to the file between the
\* look and the deletion.
THEOREM DeletesOnlyReplacedBackups == BackupSpec => []NewerBackupIsBegun
<1>1. IInv => NewerBackupIsBegun
  BY DEF IInv
<1> QED
  BY <1>1, AlwaysIInv, PTL

\* The status counts no backup without a Job and records the time of none,
\* whatever failed, restarted or was edited in between.
THEOREM RecordedBackupsAlwaysHaveJobs == BackupSpec => []RecordedBackupsHaveJobs
<1>1. IInv => RecordedBackupsHaveJobs
  BY DEF IInv, ObjectsAreKnown, Known, KnownAt, Started, RecordedBackupsHaveJobs
<1> QED
  BY <1>1, AlwaysIInv, PTL

-----------------------------------------------------------------------------
(* One Job for an interval *)

\* The names that are taken, and the one that the running call is about to take.
Claimed == {t \in Times : jobs[t] # "none" \/ (worker.pc = "createJob" /\ worker.at = t)}

\* The running call read the object as it still is and makes a backup of it.
BacksUp ==
    /\ worker.fresh
    /\ \/ worker.pc = "createJob" /\ jobs[worker.at] = "none"
       \/ worker.pc \in {"cleanup", "writeStatus"} /\ worker.obj.reason = "BackupSuccessful"

\* The intervals that a recorded time accounts for.
Slots(last) == IF last = Never THEN 0 ELSE 1 + last \div Interval

\* Each Job has an interval of its own, a mishap, or the running call.
JobsAreCharged ==
    Cardinality(Claimed) <= Slots(cb.last) + mishaps + IF BacksUp THEN 1 ELSE 0

CacheFollows == seenCb.current => seenCb.obj = cb

DueAt(last, t) == last = Never \/ last + Interval <= t

\* A call whose object has not changed was due if it makes a backup, and leaves
\* the recorded time alone if it does not.
CallIsDue ==
    worker.fresh =>
        /\ worker.pc = "createJob" => worker.obj.last = cb.last /\ DueAt(cb.last, worker.at)
        /\ worker.pc = "cleanup" => worker.obj.reason = "BackupSuccessful"
        /\ worker.pc \in {"cleanup", "writeStatus"} =>
             IF worker.obj.reason = "BackupSuccessful"
             THEN /\ DueAt(cb.last, worker.at)
                  /\ worker.obj.last # Never /\ worker.at <= worker.obj.last
             ELSE worker.obj.last = cb.last

ChargeInv == IInv /\ CacheFollows /\ CallIsDue /\ JobsAreCharged

LEMMA ProductsAreOrdered ==
    ASSUME NEW p \in Nat, NEW k \in Nat, p * Interval < k * Interval + Interval
    PROVE  p <= k
<1>1. Interval \in Nat /\ k * Interval \in Nat
  BY ConstantTypes
<1>2. ASSUME p > k PROVE FALSE
  <2>1. PICK d \in Nat : p = k + 1 + d
    <3>1. p - (k + 1) \in Nat /\ p = k + 1 + (p - (k + 1))
      BY <1>2
    <3> QED
      BY <3>1
  <2>2. p * Interval = k * Interval + Interval + d * Interval /\ d * Interval \in Nat
    BY <1>1, <2>1
  <2> QED
    BY <1>1, <2>2
<1> QED
  BY <1>2

\* A second that is an Interval later lies in a later interval.
LEMMA LaterInterval ==
    ASSUME NEW a \in Nat, NEW b \in Nat, a <= b
    PROVE  /\ a \div Interval \in Nat /\ b \div Interval \in Nat
           /\ a \div Interval <= b \div Interval
           /\ a + Interval <= b => a \div Interval + 1 <= b \div Interval
<1> DEFINE q == a \div Interval
           k == b \div Interval
<1>1. Interval \in Nat /\ Interval > 0
  BY ConstantTypes
<1>2. /\ q \in Nat /\ q * Interval <= a
      /\ k \in Nat /\ b < k * Interval + Interval
  BY <1>1
<1> HIDE DEF q, k
<1>3. q * Interval \in Nat /\ k * Interval \in Nat
  BY <1>1, <1>2
<1>4. q <= k
  BY <1>1, <1>2, <1>3, ProductsAreOrdered
<1>5. ASSUME a + Interval <= b PROVE q + 1 <= k
  <2>1. (q + 1) * Interval = q * Interval + Interval /\ q + 1 \in Nat
    BY <1>1, <1>2
  <2>2. (q + 1) * Interval < k * Interval + Interval
    BY <1>1, <1>2, <1>3, <1>5, <2>1
  <2> QED
    BY <1>2, <2>1, <2>2, ProductsAreOrdered
<1> QED
  BY <1>2, <1>4, <1>5 DEF q, k

LEMMA SlotsType ==
    ASSUME NEW last \in Times \cup {Never} PROVE Slots(last) \in Nat
<1>1. CASE last = Never
  BY <1>1 DEF Slots
<1>2. CASE last # Never
  <2>1. last \in Nat
    BY <1>2, ConstantTypes
  <2>2. last \div Interval \in Nat
    BY <2>1, LaterInterval
  <2> QED
    BY <1>2, <2>2 DEF Slots
<1> QED
  BY <1>1, <1>2

\* Recording the time of a Job that was due accounts for one interval more.
LEMMA RecordTakesSlot ==
    ASSUME NEW last \in Times \cup {Never}, NEW at \in Times, NEW t \in Times,
           DueAt(last, at), at <= t
    PROVE  Slots(last) + 1 <= Slots(t)
<1>1. at \in Nat /\ t \in Nat /\ t # Never
  BY ConstantTypes
<1>2. CASE last = Never
  BY <1>1, <1>2, LaterInterval DEF Slots
<1>3. CASE last # Never
  <2>1. last \in Nat /\ last + Interval <= t /\ last <= t
    BY <1>1, <1>3, ConstantTypes DEF DueAt
  <2>2. last \div Interval + 1 <= t \div Interval /\ last \div Interval \in Nat
    /\ t \div Interval \in Nat
    BY <1>1, <2>1, LaterInterval
  <2> QED
    BY <1>1, <1>3, <2>2 DEF Slots
<1> QED
  BY <1>2, <1>3

LEMMA ClaimedType ==
    ASSUME NEW S \in SUBSET Times PROVE IsFiniteSet(S) /\ Cardinality(S) \in Nat
<1>1. IsFiniteSet(Times)
  BY ConstantTypes, FS_Interval DEF Times
<1> QED
  BY <1>1, FS_Subset, FS_CardinalityType

LEMMA StatusFields ==
    ASSUME NEW o \in ContinuousBackupObject, NEW reason, NEW named
    PROVE  /\ [o EXCEPT !.reason = reason, !.named = named].reason = reason
           /\ [o EXCEPT !.reason = reason, !.named = named].last = o.last
<1>1. [o EXCEPT !.reason = reason, !.named = named].last = o.last
  BY DEF ContinuousBackupObject
<1>2. [o EXCEPT !.reason = reason, !.named = named].reason = reason
  BY DEF ContinuousBackupObject
<1> QED
  BY <1>1, <1>2

LEMMA LastType ==
    ASSUME NEW o \in ContinuousBackupObject
    PROVE  o.last \in Times \cup {Never}
  BY Zenon DEF ContinuousBackupObject

LEMMA TimeTypes ==
    ASSUME BackupTypeOK
    PROVE  /\ now \in Times /\ now \in Nat /\ now # Never /\ mishaps \in Nat
           /\ worker \in Call /\ worker.at \in Times /\ worker.at \in Nat
           /\ cb.last \in Times \cup {Never} /\ seenCb.obj.last \in Times \cup {Never}
           /\ worker.obj.last \in Times \cup {Never}
           /\ Slots(cb.last) \in Nat
<1>1. now \in Times /\ mishaps \in Nat /\ worker \in Call /\ cb \in ContinuousBackupObject
      /\ seenCb.obj \in ContinuousBackupObject
  BY ConstantTypes DEF BackupTypeOK
<1>2. worker.at \in Times /\ worker.obj \in ContinuousBackupObject
  BY <1>1 DEF Call
<1>3. /\ cb.last \in Times \cup {Never} /\ seenCb.obj.last \in Times \cup {Never}
      /\ worker.obj.last \in Times \cup {Never}
  BY <1>1, <1>2, LastType
<1> QED
  BY <1>1, <1>2, <1>3, ConstantTypes, SlotsType

\* What a call that starts holds.
LEMMA StartCases ==
    ASSUME BackupTypeOK, CallStarts
    PROVE  /\ worker.pc = "idle" /\ UNCHANGED <<now, cb, seenCb, jobs>>
           /\ \/ UNCHANGED <<worker, mishaps>>
              \/ /\ worker'.pc = "writeStatus" /\ worker'.obj.reason = "Suspended"
                 /\ worker'.obj.last = seenCb.obj.last
                 /\ worker'.fresh = seenCb.current /\ UNCHANGED mishaps
              \/ /\ worker'.pc = "createJob" /\ worker'.at = now /\ worker'.obj = seenCb.obj
                 /\ worker'.fresh = seenCb.current /\ Due(seenCb.obj)
                 /\ IF seenCb.current THEN UNCHANGED mishaps ELSE mishaps' = mishaps + 1
<1> DEFINE o == seenCb.obj
           call == [pc |-> "createJob", at |-> now, obj |-> o, fresh |-> seenCb.current]
<1>1. o \in ContinuousBackupObject /\ seenCb.current \in BOOLEAN /\ now \in Times
  BY DEF BackupTypeOK
<1>2. /\ call \in Call /\ call.obj = o /\ call.at = now /\ call.pc = "createJob"
      /\ call.fresh = seenCb.current
  BY <1>1 DEF Call
<1>3. \/ UNCHANGED <<worker, mishaps>>
      \/ /\ worker' = [call EXCEPT !.pc = "writeStatus", !.obj.reason = "Suspended",
                                   !.obj.named = 0]
         /\ UNCHANGED mishaps
      \/ /\ worker' = call /\ Due(o)
         /\ IF seenCb.current THEN UNCHANGED mishaps ELSE Mishap
  BY DEF CallStarts
<1>4. worker.pc = "idle" /\ UNCHANGED <<now, cb, seenCb, jobs>>
  BY DEF CallStarts, volume
<1> HIDE DEF call
<1>5. [call EXCEPT !.pc = "writeStatus", !.obj.reason = "Suspended", !.obj.named = 0]
      = [call EXCEPT !.pc = "writeStatus",
                     !.obj = [call.obj EXCEPT !.reason = "Suspended", !.named = 0]]
  BY <1>2 DEF Call
<1> DEFINE status == [call.obj EXCEPT !.reason = "Suspended", !.named = 0]
<1>6. status.last = o.last /\ status.reason = "Suspended"
  BY <1>1, <1>2, StatusFields
<1> HIDE DEF status
<1>7. CASE worker' = [call EXCEPT !.pc = "writeStatus", !.obj = status] /\ UNCHANGED mishaps
  BY <1>2, <1>4, <1>6, <1>7 DEF Call
<1>8. CASE UNCHANGED <<worker, mishaps>>
  BY <1>4, <1>8
<1>9. CASE /\ worker' = call /\ Due(o)
           /\ IF seenCb.current THEN UNCHANGED mishaps ELSE Mishap
  BY <1>2, <1>4, <1>9 DEF Mishap
<1> QED
  BY <1>3, <1>5, <1>7, <1>8, <1>9 DEF status

\* A second is taken for good, and by a call only.
LEMMA JobSteps ==
    ASSUME BackupTypeOK, [BackupNext]_backupVars, ~CreatesJob, NEW t \in Times
    PROVE  jobs'[t] = "none" <=> jobs[t] = "none"
<1>1. CASE Pods
  BY <1>1, PodSteps DEF CleanupStats, CleanupRemoves, BackupTypeOK
<1>2. CASE UNCHANGED jobs
  BY <1>2
<1>3. Pods \/ UNCHANGED jobs
  BY DEF BackupNext, Reconcile, CallStarts, CreatesCleanup, WritesStatus, Tick, TimerFires,
     SyncCb, UserEdits, CallFails, OperatorRestarts, backupVars, volume
<1> QED
  BY <1>1, <1>2, <1>3

\* A Job that is refused leaves the recorded time alone.
LEMMA RefusedCall ==
    ASSUME BackupTypeOK, NEW t \in Times, JobIsRefused(t)
    PROVE  /\ worker'.pc = "writeStatus" /\ worker'.at = worker.at
           /\ worker'.fresh = worker.fresh
           /\ worker'.obj.reason = "BackupFailed" /\ worker'.obj.last = worker.obj.last
<1>1. worker \in Call /\ worker.obj \in ContinuousBackupObject
  BY DEF BackupTypeOK, Call
<1> DEFINE status == [worker.obj EXCEPT !.reason = "BackupFailed", !.named = t]
<1>2. status.reason = "BackupFailed" /\ status.last = worker.obj.last
  BY <1>1, StatusFields
<1>3. worker' = [worker EXCEPT !.pc = "writeStatus", !.obj = status]
  BY <1>1 DEF JobIsRefused, AfterFailure, Call
<1> HIDE DEF status
<1> QED
  BY <1>1, <1>2, <1>3 DEF Call

\* What the rest of a call does to it.
LEMMA CreatedJob ==
    ASSUME BackupTypeOK, CreatesJob
    PROVE  /\ worker.pc = "createJob" /\ UNCHANGED <<now, cb, seenCb, mishaps>>
           /\ worker'.at = worker.at /\ worker'.fresh = worker.fresh
           /\ worker'.pc \in {"cleanup", "writeStatus"}
           /\ IF jobs[worker.at] # "none"
              THEN /\ UNCHANGED jobs /\ worker'.pc = "writeStatus"
                   /\ worker'.obj.reason = "BackupFailed"
                   /\ worker'.obj.last = worker.obj.last
              ELSE /\ jobs' = [jobs EXCEPT ![worker.at] = "active"]
                   /\ worker'.obj.reason = "BackupSuccessful" /\ worker'.obj.last = now
<1>1. worker \in Call /\ worker.obj \in ContinuousBackupObject /\ worker.at \in Times
  BY DEF BackupTypeOK, Call
<1>2. CASE jobs[worker.at] # "none"
  BY <1>1, <1>2, RefusedCall DEF CreatesJob
<1>3. CASE jobs[worker.at] = "none"
  <2>1. /\ worker'.obj = Recorded(worker.obj) /\ worker'.at = worker.at
        /\ worker'.fresh = worker.fresh /\ worker'.pc \in {"cleanup", "writeStatus"}
    BY <1>1, <1>3, ConstantTypes DEF CreatesJob, Call
  <2>2. /\ Recorded(worker.obj).reason = "BackupSuccessful"
        /\ Recorded(worker.obj).last = now
    <3> DEFINE count == worker.obj.count + 1
    <3>1. Recorded(worker.obj) = [worker.obj EXCEPT !.count = count, !.last = now,
                                    !.reason = "BackupSuccessful", !.named = 0]
      BY DEF Recorded
    <3> HIDE DEF count
    <3>2. Recorded(worker.obj).last = now
      BY <1>1, <3>1 DEF ContinuousBackupObject
    <3>3. Recorded(worker.obj).reason = "BackupSuccessful"
      BY <1>1, <3>1 DEF ContinuousBackupObject
    <3> QED
      BY <3>2, <3>3
  <2> QED
    BY <1>3, <2>1, <2>2 DEF CreatesJob
<1> QED
  BY <1>2, <1>3

\* A call goes on, or a mishap ends it or makes it stale.
LEMMA CallSteps ==
    ASSUME BackupTypeOK, [BackupNext]_backupVars
    PROVE  \/ CallStarts \/ CreatesJob \/ WritesStatus
           \/ UNCHANGED <<worker, cb>> /\ mishaps' >= mishaps
           \/ /\ worker.pc = "cleanup" /\ worker'.pc = "writeStatus"
              /\ worker'.fresh = worker.fresh /\ worker'.at = worker.at
              /\ worker'.obj = worker.obj /\ UNCHANGED cb /\ mishaps' >= mishaps
           \/ /\ mishaps' = mishaps + 1 /\ cb'.last = cb.last /\ ~worker'.fresh
              /\ worker'.pc = "createJob" => worker.pc = "createJob" /\ worker'.at = worker.at
           \/ /\ mishaps' = mishaps + 1 /\ UNCHANGED cb
              /\ worker.pc = "createJob" /\ worker'.pc = "writeStatus"
              /\ worker'.fresh = worker.fresh /\ worker'.at = worker.at
              /\ worker'.obj.reason = "BackupFailed" /\ worker'.obj.last = worker.obj.last
<1>1. worker \in Call /\ cb \in ContinuousBackupObject /\ mishaps \in Nat
  BY ConstantTypes DEF BackupTypeOK
<1>2. CASE Tick \/ TimerFires \/ SyncCb \/ Pods \/ UNCHANGED backupVars
  BY <1>1, <1>2, PodsKeep DEF Tick, TimerFires, SyncCb, Mishap, control, backupVars
<1>3. CASE CreatesCleanup
  BY <1>1, <1>3 DEF CreatesCleanup, Call
<1>4. CASE UserEdits
  <2>1. mishaps' = mishaps + 1 /\ cb'.last = cb.last
    <3>1. \/ cb' = [cb EXCEPT !.valid = ~cb.valid]
          \/ cb' = [cb EXCEPT !.suspended = ~cb.suspended]
          \/ cb' = [cb EXCEPT !.exists = FALSE]
      BY <1>4 DEF UserEdits
    <3>2. /\ [cb EXCEPT !.valid = ~cb.valid].last = cb.last
          /\ [cb EXCEPT !.suspended = ~cb.suspended].last = cb.last
          /\ [cb EXCEPT !.exists = FALSE].last = cb.last
      <4>1. [cb EXCEPT !.valid = ~cb.valid].last = cb.last
        BY <1>1 DEF ContinuousBackupObject
      <4>2. [cb EXCEPT !.suspended = ~cb.suspended].last = cb.last
        BY <1>1 DEF ContinuousBackupObject
      <4>3. [cb EXCEPT !.exists = FALSE].last = cb.last
        BY <1>1 DEF ContinuousBackupObject
      <4> QED
        BY <4>1, <4>2, <4>3
    <3>3. cb'.last = cb.last
      BY <3>1, <3>2
    <3> QED
      BY <1>4, <3>3 DEF UserEdits, Mishap
  <2>2. ~worker'.fresh /\ worker'.pc = worker.pc /\ worker'.at = worker.at
    BY <1>1, <1>4 DEF UserEdits, Call
  <2> QED
    BY <2>1, <2>2
<1>5. CASE CallFails
  <2>1. mishaps' = mishaps + 1 /\ UNCHANGED cb
    BY <1>5 DEF CallFails, Mishap
  <2>2. CASE worker.pc = "createJob" /\ JobIsRefused(0)
    BY <2>1, <2>2, RefusedCall, ConstantTypes
  <2>3. CASE worker.pc = "cleanup" /\ worker' = [worker EXCEPT !.pc = "writeStatus"]
    BY <1>1, <2>1, <2>3 DEF Call
  <2>4. CASE ReturnsError
    <3>1. ~worker'.fresh /\ worker'.pc = "idle"
      BY <2>4 DEF ReturnsError, NoCall
    <3> QED
      BY <2>1, <3>1
  <2> QED
    BY <1>5, <2>2, <2>3, <2>4 DEF CallFails
<1>6. CASE OperatorRestarts
  <2>1. ~worker'.fresh /\ worker'.pc = "idle"
    BY <1>6 DEF OperatorRestarts, NoCall
  <2> QED
    BY <1>6, <2>1 DEF OperatorRestarts, Mishap
<1> QED
  BY <1>2, <1>3, <1>4, <1>5, <1>6 DEF BackupNext, Reconcile

LEMMA NextCacheFollows ==
    ASSUME BackupTypeOK, CacheFollows, [BackupNext]_backupVars
    PROVE  CacheFollows'
<1>1. CASE SyncCb \/ OperatorRestarts
  BY <1>1 DEF SyncCb, OperatorRestarts, Cached, CacheFollows
<1>2. CASE WritesStatus \/ UserEdits
  BY <1>2 DEF WritesStatus, UserEdits, ReturnsError, BackupTypeOK, CacheFollows
<1>3. CASE UNCHANGED <<cb, seenCb>>
  BY <1>3 DEF CacheFollows
<1> QED
  BY <1>1, <1>2, <1>3, PodsKeep DEF BackupNext, Reconcile, CallStarts, CreatesJob,
     CreatesCleanup, Tick, TimerFires, CallFails, control, backupVars

LEMMA NextCallIsDue ==
    ASSUME IInv, CacheFollows, CallIsDue, [BackupNext]_backupVars
    PROVE  CallIsDue'
<1>1. /\ BackupTypeOK /\ CacheFollows /\ CallIsDue /\ CallIsTimely
      /\ worker \in Call /\ now \in Times /\ now # Never
  BY ConstantTypes DEF IInv, BackupTypeOK
<1>2. CASE CallStarts
  <2>1. CASE UNCHANGED worker
    BY <1>1, <1>2, <2>1 DEF CallStarts, CallIsDue, DueAt
  <2>2. CASE worker'.pc = "writeStatus" /\ worker'.obj.reason = "Suspended"
             /\ worker'.obj.last = seenCb.obj.last /\ worker'.fresh = seenCb.current
    BY <1>1, <1>2, <2>2, StartCases DEF CallIsDue, CacheFollows
  <2>3. CASE worker'.pc = "createJob" /\ worker'.at = now /\ worker'.obj = seenCb.obj
             /\ worker'.fresh = seenCb.current /\ Due(seenCb.obj)
    <3>1. Due(seenCb.obj) => DueAt(seenCb.obj.last, now)
      <4>1. seenCb.obj.last \in Nat /\ now \in Nat
        BY <1>1, TimeTypes, ConstantTypes
      <4> QED
        BY <4>1, ConstantTypes DEF Due, DueAt
    <3> QED
      BY <1>1, <1>2, <2>3, <3>1, StartCases DEF CallIsDue, CacheFollows
  <2> QED
    BY <1>1, <1>2, <2>1, <2>2, <2>3, StartCases
<1>3. CASE CreatesJob
  <2>1. worker.at <= now
    BY <1>1, <1>3, CreatedJob DEF CallIsTimely
  <2> QED
    BY <1>1, <1>3, <2>1, CreatedJob DEF CallIsDue
<1>4. CASE WritesStatus
  <2>1. worker' = NoCall
    BY <1>4 DEF WritesStatus, ReturnsError
  <2> QED
    BY <2>1 DEF CallIsDue, NoCall
<1>5. CASE UNCHANGED <<worker, cb>>
  BY <1>1, <1>5 DEF CallIsDue, DueAt
<1>6. CASE ~worker'.fresh
  BY <1>6 DEF CallIsDue
<1>7. CASE /\ worker.pc = "cleanup" /\ worker'.pc = "writeStatus"
           /\ worker'.fresh = worker.fresh /\ worker'.at = worker.at
           /\ worker'.obj = worker.obj /\ UNCHANGED cb
  BY <1>1, <1>7 DEF CallIsDue, DueAt
<1>8. CASE /\ worker.pc = "createJob" /\ worker'.pc = "writeStatus"
           /\ worker'.fresh = worker.fresh /\ UNCHANGED cb
           /\ worker'.obj.reason = "BackupFailed" /\ worker'.obj.last = worker.obj.last
  BY <1>1, <1>8 DEF CallIsDue
<1> QED
  BY <1>1, <1>2, <1>3, <1>4, <1>5, <1>6, <1>7, <1>8, CallSteps

\* Only a call that starts adds a claim.
LEMMA ClaimSteps ==
    ASSUME BackupTypeOK, [BackupNext]_backupVars, ~CallStarts
    PROVE  Claimed' \subseteq Claimed
<1>1. worker \in Call
  BY DEF BackupTypeOK
<1>2. CASE CreatesJob
  <2>1. worker.pc = "createJob" /\ worker'.pc # "createJob"
    BY <1>1, <1>2, CreatedJob
  <2>2. \A t \in Times : jobs'[t] # "none" => jobs[t] # "none" \/ t = worker.at
    BY <1>1, <1>2, CreatedJob DEF BackupTypeOK
  <2> QED
    BY <2>1, <2>2 DEF Claimed
<1>3. CASE ~CreatesJob
  <2>1. worker'.pc = "createJob" => worker.pc = "createJob" /\ worker'.at = worker.at
    <3>1. CASE WritesStatus
      <4>1. worker' = NoCall
        BY <3>1 DEF WritesStatus, ReturnsError
      <4> QED
        BY <4>1 DEF NoCall
    <3> QED
      BY <1>3, <3>1, CallSteps
  <2> QED
    BY <1>3, <2>1, JobSteps DEF Claimed
<1> QED
  BY <1>2, <1>3

\* A call that starts on the object as it is makes a backup or takes no name.
LEMMA StartCharges == ASSUME ChargeInv, CallStarts PROVE JobsAreCharged'
<1>1. /\ BackupTypeOK /\ CacheFollows /\ JobsAreCharged /\ now \in Times /\ mishaps \in Nat
  BY TimeTypes DEF ChargeInv, IInv
<1>2. /\ worker.pc = "idle" /\ UNCHANGED <<now, cb, seenCb, jobs>> /\ ~BacksUp
      /\ Slots(cb.last) \in Nat /\ Slots(cb'.last) = Slots(cb.last)
  BY <1>1, StartCases, TimeTypes DEF BacksUp
<1>3. Cardinality(Claimed) <= Slots(cb.last) + mishaps
  BY <1>1, <1>2, ConstantTypes DEF JobsAreCharged
<1>4. Claimed \in SUBSET Times /\ Claimed' \in SUBSET Times
  BY DEF Claimed
<1>5. /\ Cardinality(Claimed) \in Nat /\ IsFiniteSet(Claimed)
      /\ Cardinality(Claimed') \in Nat
  BY <1>4, ClaimedType
<1>6. CASE Claimed' = Claimed /\ mishaps' >= mishaps /\ mishaps' \in Nat
  <2> DEFINE S == Slots(cb.last)
             extra == IF BacksUp' THEN 1 ELSE 0
  <2>1. extra \in Nat /\ S \in Nat
    BY <1>2
  <2>2. Cardinality(Claimed') <= S + mishaps' + extra
    <3> HIDE DEF S, extra
    <3>1. Cardinality(Claimed) <= S + mishaps
      BY <1>3 DEF S
    <3> QED
      BY <1>1, <1>5, <1>6, <2>1, <3>1
  <2> QED
    BY <1>2, <2>2 DEF JobsAreCharged
<1>7. CASE worker'.pc = "createJob" /\ worker'.at = now /\ worker'.fresh = seenCb.current
           /\ IF seenCb.current THEN UNCHANGED mishaps ELSE mishaps' = mishaps + 1
  <2>1. Claimed' \subseteq Claimed \cup {now}
    BY <1>2, <1>7 DEF Claimed
  <2>2. /\ IsFiniteSet(Claimed \cup {now})
        /\ Cardinality(Claimed \cup {now}) <= Cardinality(Claimed) + 1
    <3>1. /\ IsFiniteSet(Claimed \cup {now})
          /\ Cardinality(Claimed \cup {now})
               = IF now \in Claimed THEN Cardinality(Claimed) ELSE Cardinality(Claimed) + 1
      BY <1>5, FS_AddElement
    <3> QED
      BY <1>5, <3>1
  <2>3. Cardinality(Claimed \cup {now}) \in Nat
    BY <2>2, FS_CardinalityType
  <2>4. Cardinality(Claimed') <= Cardinality(Claimed) + 1
    BY <1>5, <2>1, <2>2, <2>3, FS_Subset
  <2>5. CASE ~seenCb.current
    <3>1. mishaps' = mishaps + 1 /\ ~BacksUp'
      BY <1>7, <2>5 DEF BacksUp
    <3>2. Cardinality(Claimed') <= Slots(cb.last) + mishaps'
      BY <1>1, <1>2, <1>3, <1>5, <2>4, <3>1
    <3> QED
      BY <1>2, <3>1, <3>2, <1>1 DEF JobsAreCharged
  <2>6. CASE seenCb.current /\ jobs[now] = "none"
    <3>1. BacksUp' /\ mishaps' = mishaps
      BY <1>2, <1>7, <2>6 DEF BacksUp
    <3>2. Cardinality(Claimed') <= Slots(cb.last) + mishaps' + 1
      BY <1>1, <1>2, <1>3, <1>5, <2>4, <3>1
    <3> QED
      BY <1>2, <3>1, <3>2 DEF JobsAreCharged
  <2>7. CASE seenCb.current /\ jobs[now] # "none"
    <3>1. Claimed' = Claimed /\ mishaps' = mishaps
      BY <1>1, <1>2, <1>7, <2>7 DEF Claimed
    <3> QED
      BY <1>1, <1>6, <3>1
  <2> QED
    BY <2>5, <2>6, <2>7
<1>8. CASE worker'.pc # "createJob" \/ UNCHANGED worker
  <2>1. Claimed' = Claimed /\ mishaps' = mishaps
    BY <1>1, <1>2, <1>8, StartCases DEF Claimed
  <2> QED
    BY <1>1, <1>6, <2>1
<1> QED
  BY <1>1, <1>7, <1>8, StartCases

LEMMA SumsAreOrdered ==
    ASSUME NEW s \in Nat, NEW m \in Nat, NEW n \in Nat, NEW c \in Nat, NEW d \in Nat,
           m <= n, c <= d
    PROVE  s + m + c <= s + n + d
  OBVIOUS

\* What is accounted for grows: the call that stops making its backup has recorded
\* it, or a mishap stopped it.
LEMMA AccountGrows ==
    ASSUME ChargeInv, BackupTypeOK', [BackupNext]_backupVars, ~CallStarts
    PROVE  Slots(cb.last) + mishaps + (IF BacksUp THEN 1 ELSE 0)
             <= Slots(cb'.last) + mishaps' + (IF BacksUp' THEN 1 ELSE 0)
<1>1. /\ BackupTypeOK /\ CallIsDue /\ CallIsTimely /\ worker \in Call
      /\ worker.at \in Times /\ mishaps \in Nat /\ mishaps' \in Nat
      /\ cb.last \in Times \cup {Never} /\ cb'.last \in Times \cup {Never}
      /\ worker.obj.last \in Times \cup {Never}
  <2>1. BackupTypeOK /\ CallIsDue /\ CallIsTimely
    BY DEF ChargeInv, IInv
  <2>2. mishaps' \in Nat
    BY ConstantTypes DEF BackupTypeOK
  <2>3. cb'.last \in Times \cup {Never}
    BY LastType DEF BackupTypeOK
  <2> QED
    BY <2>1, <2>2, <2>3, TimeTypes
<1> DEFINE S == Slots(cb.last)
           T == Slots(cb'.last)
           charge == IF BacksUp THEN 1 ELSE 0
           charge2 == IF BacksUp' THEN 1 ELSE 0
<1>2. S \in Nat /\ T \in Nat /\ charge \in 0..1 /\ charge2 \in 0..1
  BY <1>1, SlotsType
<1>3. ASSUME T = S, mishaps' = mishaps + 1 \/ (mishaps' >= mishaps /\ (BacksUp => BacksUp'))
      PROVE  S + mishaps + charge <= T + mishaps' + charge2
  <2>1. mishaps' = mishaps + 1 \/ (mishaps' >= mishaps /\ charge <= charge2)
    BY <1>2, <1>3
  <2>2. mishaps \in Nat /\ mishaps' \in Nat /\ S = T
    BY <1>1, <1>3
  <2> HIDE DEF S, T, charge, charge2
  <2>3. CASE mishaps' = mishaps + 1
    BY <1>2, <2>2, <2>3
  <2>4. CASE mishaps' >= mishaps /\ charge <= charge2
    <3>1. charge \in Nat /\ charge2 \in Nat
      BY <1>2
    <3> QED
      BY <1>2, <2>2, <2>4, <3>1, SumsAreOrdered
  <2> QED
    BY <2>1, <2>3, <2>4
<1>4. ASSUME ~BacksUp \/ T >= S + 1, T >= S, mishaps' = mishaps
      PROVE  S + mishaps + charge <= T + mishaps' + charge2
  <2>1. S + charge <= T
    BY <1>2, <1>4
  <2> HIDE DEF S, T, charge, charge2
  <2> QED
    BY <1>1, <1>2, <1>4, <2>1
<1>5. CASE CreatesJob
  <2>1. cb'.last = cb.last /\ mishaps' = mishaps /\ (BacksUp => BacksUp')
    BY <1>1, <1>5, CreatedJob DEF BacksUp
  <2> QED
    BY <1>1, <1>3, <2>1
<1>6. CASE WritesStatus
  <2>1. mishaps' = mishaps /\ worker.pc = "writeStatus"
    BY <1>6 DEF WritesStatus
  <2>2. CASE ~worker.fresh
    <3>1. ~BacksUp /\ cb' = cb
      BY <1>6, <2>2 DEF WritesStatus, BacksUp
    <3> QED
      BY <1>2, <1>4, <2>1, <3>1
  <2>3. CASE worker.fresh /\ worker.obj.reason = "BackupSuccessful"
    <3>1. cb'.last = worker.obj.last
      BY <1>6, <2>3 DEF WritesStatus
    <3>2. /\ DueAt(cb.last, worker.at) /\ worker.obj.last \in Times
          /\ worker.at <= worker.obj.last
      BY <1>1, <2>1, <2>3 DEF CallIsDue
    <3>3. S + 1 <= T
      BY <1>1, <3>1, <3>2, RecordTakesSlot
    <3> QED
      BY <1>2, <1>4, <2>1, <3>3
  <2>4. CASE worker.fresh /\ worker.obj.reason # "BackupSuccessful"
    <3>1. cb'.last = worker.obj.last /\ ~BacksUp
      BY <1>6, <2>1, <2>4 DEF WritesStatus, BacksUp
    <3>2. worker.obj.last = cb.last
      BY <1>1, <2>1, <2>4 DEF CallIsDue
    <3> QED
      BY <1>2, <1>4, <2>1, <3>1, <3>2
  <2> QED
    BY <2>2, <2>3, <2>4
<1>7. CASE UNCHANGED <<worker, cb>> /\ mishaps' >= mishaps /\ ~CreatesJob
  <2>1. BacksUp => BacksUp'
    BY <1>1, <1>7, JobSteps DEF BacksUp
  <2> QED
    BY <1>3, <1>7, <2>1
<1>8. CASE /\ worker.pc = "cleanup" /\ worker'.pc = "writeStatus"
           /\ worker'.fresh = worker.fresh
           /\ worker'.obj = worker.obj /\ UNCHANGED cb /\ mishaps' >= mishaps
  <2>1. BacksUp => BacksUp'
    BY <1>8 DEF BacksUp
  <2> QED
    BY <1>3, <1>8, <2>1
<1>9. CASE mishaps' = mishaps + 1 /\ cb'.last = cb.last
  BY <1>3, <1>9
<1> QED
  BY <1>1, <1>5, <1>6, <1>7, <1>8, <1>9, CallSteps

LEMMA NextJobsAreCharged ==
    ASSUME ChargeInv, BackupTypeOK', [BackupNext]_backupVars
    PROVE  JobsAreCharged'
<1>1. CASE CallStarts
  BY <1>1, StartCharges
<1>2. CASE ~CallStarts
  <2> DEFINE account == Slots(cb.last) + mishaps + (IF BacksUp THEN 1 ELSE 0)
  <2>1. BackupTypeOK /\ Cardinality(Claimed) <= account
    BY DEF ChargeInv, IInv, JobsAreCharged
  <2>2. Claimed \in SUBSET Times /\ Claimed' \in SUBSET Times /\ Claimed' \subseteq Claimed
    BY <1>2, <2>1, ClaimSteps DEF Claimed
  <2>3. /\ Cardinality(Claimed') <= Cardinality(Claimed)
        /\ Cardinality(Claimed) \in Nat /\ Cardinality(Claimed') \in Nat
    BY <2>2, ClaimedType, FS_Subset
  <2>4. account \in Nat /\ account' \in Nat
    <3>1. /\ mishaps \in Nat /\ mishaps' \in Nat /\ Slots(cb.last) \in Nat
          /\ Slots(cb'.last) \in Nat
      <4>1. mishaps' \in Nat
        BY ConstantTypes DEF BackupTypeOK
      <4>2. cb'.last \in Times \cup {Never}
        BY LastType DEF BackupTypeOK
      <4> QED
        BY <2>1, <4>1, <4>2, SlotsType, TimeTypes
    <3> QED
      BY <3>1
  <2>5. account <= account'
    BY <1>2, AccountGrows
  <2>6. Cardinality(Claimed') <= account'
    <3> HIDE DEF account
    <3> QED
      BY <2>1, <2>3, <2>4, <2>5
  <2> QED
    BY <2>6 DEF JobsAreCharged
<1> QED
  BY <1>1, <1>2

\* There are no more Jobs than intervals that have begun and mishaps: each Job is
\* accounted for by the recorded time, a mishap, or the call that will record it.
THEOREM IntervalsGetOneJob == BackupSpec => []OneJobPerInterval
<1>1. BackupInit => ChargeInv
  <2> SUFFICES ASSUME BackupInit PROVE ChargeInv
    OBVIOUS
  <2>1. CacheFollows /\ CallIsDue
    BY DEF BackupInit, Cached, NoCall, CacheFollows, CallIsDue
  <2>2. Claimed = {}
    BY DEF BackupInit, NoCall, Claimed
  <2>3. ~BacksUp /\ cb.last = Never /\ mishaps = 0
    <3>1. ~worker.fresh /\ mishaps = 0
      BY DEF BackupInit, NoCall
    <3>2. cb.last = Never
      <4>1. PICK valid \in BOOLEAN : cb = NewObject(valid)
        BY DEF BackupInit
      <4> QED
        BY <4>1 DEF NewObject
    <3> QED
      BY <3>1, <3>2 DEF BacksUp
  <2>4. JobsAreCharged
    BY <2>2, <2>3, FS_EmptySet DEF JobsAreCharged, Slots
  <2> QED
    BY <2>1, <2>4, InitIInv DEF ChargeInv
<1>2. ChargeInv /\ [BackupNext]_backupVars => ChargeInv'
  <2> SUFFICES ASSUME ChargeInv, [BackupNext]_backupVars PROVE ChargeInv'
    OBVIOUS
  <2>1. IInv' /\ BackupTypeOK' /\ BackupTypeOK
    BY NextIInv DEF ChargeInv, IInv
  <2>2. CacheFollows'
    BY <2>1, NextCacheFollows DEF ChargeInv
  <2> QED
    BY <2>1, <2>2, NextCallIsDue, NextJobsAreCharged DEF ChargeInv
<1>3. ChargeInv => OneJobPerInterval
  <2> SUFFICES ASSUME ChargeInv PROVE OneJobPerInterval
    OBVIOUS
  <2>1. /\ BackupTypeOK /\ ObjectsAreKnown /\ CallIsTimely /\ CallIsDue
        /\ now \in Times /\ mishaps \in Nat /\ cb.last \in Times \cup {Never}
        /\ worker \in Call /\ worker.at \in Times
    BY TimeTypes DEF ChargeInv, IInv
  <2>2. Slots(cb.last) + (IF BacksUp THEN 1 ELSE 0) <= Slots(now)
    <3>1. Slots(cb.last) \in Nat /\ Slots(now) \in Nat
      BY <2>1, SlotsType
    <3>2. CASE BacksUp
      <4>1. DueAt(cb.last, worker.at) /\ worker.at <= now
        BY <2>1, <3>2 DEF BacksUp, CallIsDue, CallIsTimely
      <4> QED
        BY <2>1, <3>2, <4>1, RecordTakesSlot
    <3>3. CASE ~BacksUp
      <4>1. Slots(cb.last) <= Slots(now)
        <5>1. now \in Nat /\ now # Never
          BY <2>1, ConstantTypes
        <5>2. CASE cb.last = Never
          BY <3>1, <5>2 DEF Slots
        <5>3. CASE cb.last # Never
          <6>1. cb.last \in Nat /\ cb.last <= now
            BY <2>1, <5>3, ConstantTypes DEF ObjectsAreKnown, Known, KnownAt
          <6>2. /\ cb.last \div Interval <= now \div Interval
                /\ cb.last \div Interval \in Nat /\ now \div Interval \in Nat
            BY <5>1, <6>1, LaterInterval
          <6> QED
            BY <5>1, <5>3, <6>2 DEF Slots
        <5> QED
          BY <5>2, <5>3
      <4> QED
        BY <3>1, <3>3, <4>1
    <3> QED
      BY <3>2, <3>3
  <2>3. Slots(now) = 1 + now \div Interval
    BY <2>1, ConstantTypes DEF Slots
  <2> DEFINE charge == IF BacksUp THEN 1 ELSE 0
             S == Slots(cb.last)
             C == Cardinality(Claimed)
             limit == 1 + now \div Interval
  <2>4. C <= S + mishaps + charge /\ S + charge <= limit
    BY <2>2, <2>3 DEF ChargeInv, JobsAreCharged
  <2>5. S \in Nat /\ charge \in Nat /\ C \in Nat /\ limit \in Nat
    <3>1. Claimed \in SUBSET Times /\ Slots(now) \in Nat /\ Slots(cb.last) \in Nat
      BY <2>1, SlotsType DEF Claimed
    <3> QED
      BY <2>3, <3>1, ClaimedType
  <2>6. C <= limit + mishaps
    <3> HIDE DEF charge, S, C, limit
    <3> QED
      BY <2>1, <2>4, <2>5
  <2>7. Cardinality(Started) <= C /\ Cardinality(Started) \in Nat
    <3>1. Started \in SUBSET Claimed /\ Claimed \in SUBSET Times /\ Started \in SUBSET Times
      BY DEF Started, Claimed
    <3> QED
      BY <3>1, ClaimedType, FS_Subset
  <2>8. Cardinality(Started) <= limit + mishaps
    <3> HIDE DEF C, limit
    <3> QED
      BY <2>1, <2>5, <2>6, <2>7
  <2> QED
    BY <2>8 DEF OneJobPerInterval, Started
<1> QED
  BY <1>1, <1>2, <1>3, PTL DEF BackupSpec

-----------------------------------------------------------------------------
(* What the status records *)

\* The fields a status keeps or gets.
LEMMA SuspendedFields ==
    ASSUME NEW o \in ContinuousBackupObject, NEW reason, NEW named
    PROVE  [o EXCEPT !.reason = reason, !.named = named].suspended = o.suspended
  BY DEF ContinuousBackupObject

LEMMA RecordedFields ==
    ASSUME NEW o \in ContinuousBackupObject
    PROVE  /\ Recorded(o).suspended = o.suspended /\ Recorded(o).count = o.count + 1
           /\ Recorded(o).last = now /\ Recorded(o).reason = "BackupSuccessful"
<1> DEFINE count == o.count + 1
<1>1. Recorded(o) = [o EXCEPT !.count = count, !.last = now,
                              !.reason = "BackupSuccessful", !.named = 0]
  BY DEF Recorded
<1> HIDE DEF count
<1>2. Recorded(o).suspended = o.suspended
  BY <1>1 DEF ContinuousBackupObject
<1>3. Recorded(o).count = count
  BY <1>1 DEF ContinuousBackupObject
<1>4. Recorded(o).last = now
  BY <1>1 DEF ContinuousBackupObject
<1>5. Recorded(o).reason = "BackupSuccessful"
  BY <1>1 DEF ContinuousBackupObject
<1> QED
  BY <1>2, <1>3, <1>4, <1>5 DEF count

\* A Job that is created is recorded, at this second.
LEMMA JobIsRecorded ==
    ASSUME BackupTypeOK, CreatesJob, jobs[worker.at] = "none"
    PROVE  /\ worker'.obj.suspended = worker.obj.suspended
           /\ worker'.obj.count = worker.obj.count + 1
           /\ worker'.obj.last = now /\ worker'.obj.reason = "BackupSuccessful"
<1>1. worker \in Call /\ worker.obj \in ContinuousBackupObject
  BY DEF BackupTypeOK, Call
<1>2. worker'.obj = Recorded(worker.obj)
  BY <1>1 DEF CreatesJob, Call
<1> QED
  BY <1>1, <1>2, RecordedFields

\* A call whose object has not changed counts the backup it made.
CallCounts ==
    worker.fresh =>
        /\ worker.pc = "createJob" => worker.obj.count = cb.count
        /\ worker.pc \in {"cleanup", "writeStatus"} /\ worker.obj.reason = "BackupSuccessful"
              => worker.obj.count = cb.count + 1

LEMMA NextCallCounts ==
    ASSUME BackupTypeOK, CacheFollows, CallCounts, [BackupNext]_backupVars
    PROVE  CallCounts'
<1> USE DEF CallCounts
<1>1. CASE CallStarts
  BY <1>1, StartCases DEF CacheFollows
<1>2. CASE CreatesJob
  <2>1. /\ worker.pc = "createJob" /\ UNCHANGED cb /\ worker'.fresh = worker.fresh
        /\ worker'.pc \in {"cleanup", "writeStatus"}
    BY <1>2, CreatedJob
  <2>2. CASE jobs[worker.at] # "none"
    BY <1>2, <2>1, <2>2, CreatedJob
  <2>3. CASE jobs[worker.at] = "none"
    BY <1>2, <2>1, <2>3, JobIsRecorded
  <2> QED
    BY <2>2, <2>3
<1>3. CASE WritesStatus
  <2>1. worker' = NoCall
    BY <1>3 DEF WritesStatus, ReturnsError
  <2> QED
    BY <2>1 DEF NoCall
<1>4. CASE ~CallStarts /\ ~CreatesJob /\ ~WritesStatus
  BY <1>4, CallSteps
<1> QED
  BY <1>1, <1>2, <1>3, <1>4

\* Only the end of a call changes what is recorded.
LEMMA StatusIsWritten ==
    ASSUME BackupTypeOK, [BackupNext]_backupVars, cb'.last # cb.last
    PROVE  worker.pc = "writeStatus" /\ worker.fresh /\ cb' = worker.obj
<1>1. WritesStatus
  BY CallSteps, StartCases, CreatedJob
<1> QED
  BY <1>1 DEF WritesStatus

RecordInv == IInv /\ CacheFollows /\ CallIsDue /\ CallCounts

\* What the status records lies an interval apart and is counted once, for every
\* interval and bound.
THEOREM RecordsAreAnIntervalApart == BackupSpec => RecordedBackupsAreAnIntervalApart
<1> DEFINE Apart == cb'.last # cb.last =>
                      /\ cb.last # Never => cb'.last >= cb.last + Interval
                      /\ cb'.last # Never /\ cb'.count = cb.count + 1
<1>1. BackupInit => RecordInv
  BY InitIInv DEF BackupInit, Cached, NoCall, RecordInv, CacheFollows, CallIsDue, CallCounts
<1>2. RecordInv /\ [BackupNext]_backupVars => RecordInv'
  <2> SUFFICES ASSUME RecordInv, [BackupNext]_backupVars PROVE RecordInv'
    OBVIOUS
  <2>1. BackupTypeOK /\ IInv'
    BY NextIInv DEF RecordInv, IInv
  <2> QED
    BY <2>1, NextCacheFollows, NextCallIsDue, NextCallCounts DEF RecordInv
<1>3. RecordInv /\ [BackupNext]_backupVars => [Apart]_backupVars
  <2> SUFFICES ASSUME RecordInv, [BackupNext]_backupVars, cb'.last # cb.last
               PROVE  /\ cb.last # Never => cb'.last >= cb.last + Interval
                      /\ cb'.last # Never /\ cb'.count = cb.count + 1
    OBVIOUS
  <2>1. BackupTypeOK /\ CallIsDue /\ CallCounts
    BY DEF RecordInv, IInv
  <2>2. worker.pc = "writeStatus" /\ worker.fresh /\ cb' = worker.obj
    BY <2>1, StatusIsWritten
  <2>3. worker.obj.reason = "BackupSuccessful"
    BY <2>1, <2>2 DEF CallIsDue
  <2>4. /\ DueAt(cb.last, worker.at) /\ worker.obj.last # Never
        /\ worker.at <= worker.obj.last /\ worker.obj.count = cb.count + 1
    BY <2>1, <2>2, <2>3 DEF CallIsDue, CallCounts
  <2>5. cb.last \in Nat /\ worker.at \in Nat /\ worker.obj.last \in Nat
    BY <2>1, TimeTypes, ConstantTypes
  <2> QED
    BY <2>2, <2>4, <2>5, ConstantTypes DEF DueAt
<1>4. BackupSpec => [][Apart]_backupVars
  <2> HIDE DEF Apart
  <2> QED
    BY <1>1, <1>2, <1>3, PTL DEF BackupSpec
<1> QED
  BY <1>4 DEF RecordedBackupsAreAnIntervalApart

-----------------------------------------------------------------------------
(* The timer for the next backup *)

\* What a call will say in the status, and since when.
CallIsDecided ==
    /\ worker.pc = "createJob" => ~worker.obj.suspended
    /\ worker.pc \in {"cleanup", "writeStatus"} =>
         IF worker.obj.suspended THEN worker.obj.reason = "Suspended"
         ELSE \/ worker.obj.reason = "BackupFailed"
              \/ /\ worker.obj.reason = "BackupSuccessful"
                 /\ worker.obj.last \in Times /\ worker.at <= worker.obj.last

TimerInv == IInv /\ CacheFollows /\ CallIsDecided /\ NextBackupIsInTime

\* A call starts with what the cache holds.
LEMMA StartIsDecided == ASSUME BackupTypeOK, CallIsDecided, CallStarts PROVE CallIsDecided'
<1> USE DEF CallIsDecided
<1> DEFINE o == seenCb.obj
           call == [pc |-> "createJob", at |-> now, obj |-> o, fresh |-> seenCb.current]
<1>1. o \in ContinuousBackupObject /\ seenCb.current \in BOOLEAN /\ now \in Times
  BY DEF BackupTypeOK
<1>2. call \in Call /\ call.obj = o /\ call.pc = "createJob"
  BY <1>1 DEF Call
<1>3. \/ worker' = worker
      \/ o.suspended /\ worker' = [call EXCEPT !.pc = "writeStatus",
                                      !.obj.reason = "Suspended", !.obj.named = 0]
      \/ ~o.suspended /\ worker' = call
  BY DEF CallStarts
<1> HIDE DEF call
<1>4. [call EXCEPT !.pc = "writeStatus", !.obj.reason = "Suspended", !.obj.named = 0]
      = [call EXCEPT !.pc = "writeStatus",
                     !.obj = [call.obj EXCEPT !.reason = "Suspended", !.named = 0]]
  BY <1>2 DEF Call
<1> DEFINE status == [call.obj EXCEPT !.reason = "Suspended", !.named = 0]
<1>5. status.suspended = o.suspended /\ status.reason = "Suspended"
  BY <1>1, <1>2, StatusFields, SuspendedFields
<1> HIDE DEF status
<1>6. CASE o.suspended /\ worker' = [call EXCEPT !.pc = "writeStatus", !.obj = status]
  BY <1>2, <1>5, <1>6 DEF Call
<1>7. CASE ~o.suspended /\ worker' = call
  BY <1>2, <1>7
<1>8. CASE worker' = worker
  BY <1>8
<1> QED
  BY <1>3, <1>4, <1>6, <1>7, <1>8 DEF status

LEMMA RefusalIsDecided ==
    ASSUME BackupTypeOK, CallIsDecided, worker.pc = "createJob",
           NEW t \in Times, JobIsRefused(t)
    PROVE  CallIsDecided'
<1>1. worker \in Call /\ worker.obj \in ContinuousBackupObject
  BY DEF BackupTypeOK, Call
<1> DEFINE status == [worker.obj EXCEPT !.reason = "BackupFailed", !.named = t]
<1>2. status.reason = "BackupFailed" /\ status.suspended = worker.obj.suspended
  BY <1>1, StatusFields, SuspendedFields
<1>3. worker' = [worker EXCEPT !.pc = "writeStatus", !.obj = status]
  BY <1>1 DEF JobIsRefused, AfterFailure, Call
<1> HIDE DEF status
<1> QED
  BY <1>1, <1>2, <1>3 DEF Call, CallIsDecided

LEMMA NextCallIsDecided ==
    ASSUME IInv, CallIsDecided, [BackupNext]_backupVars
    PROVE  CallIsDecided'
<1>1. /\ BackupTypeOK /\ CallIsTimely /\ worker \in Call /\ now \in Times
      /\ worker.at \in Times
  BY TimeTypes DEF IInv
<1>2. CASE CreatesJob
  <2>1. CASE jobs[worker.at] # "none"
    BY <1>1, <1>2, <2>1, RefusalIsDecided DEF CreatesJob
  <2>2. CASE jobs[worker.at] = "none"
    <3>1. /\ worker.pc = "createJob" /\ worker'.at = worker.at
          /\ worker'.pc \in {"cleanup", "writeStatus"}
      BY <1>1, <1>2, CreatedJob
    <3>2. ~worker'.obj.suspended /\ worker'.obj.last = now
          /\ worker'.obj.reason = "BackupSuccessful"
      BY <1>1, <1>2, <2>2, <3>1, JobIsRecorded DEF CallIsDecided
    <3> QED
      BY <1>1, <3>1, <3>2 DEF CallIsDecided, CallIsTimely
  <2> QED
    BY <2>1, <2>2
<1>3. ASSUME worker.pc = "cleanup", worker' = [worker EXCEPT !.pc = "writeStatus"]
      PROVE  CallIsDecided'
  BY <1>1, <1>3 DEF Call, CallIsDecided
<1>4. CASE worker' = NoCall
  BY <1>4 DEF NoCall, CallIsDecided
<1>5. CASE WritesStatus \/ ReturnsError \/ OperatorRestarts
  BY <1>4, <1>5 DEF WritesStatus, ReturnsError, OperatorRestarts
<1>6. CASE UserEdits
  <2>1. worker' = [worker EXCEPT !.fresh = FALSE]
    BY <1>6 DEF UserEdits
  <2> QED
    BY <1>1, <2>1 DEF Call, CallIsDecided
<1>7. CASE CallFails
  BY <1>1, <1>3, <1>5, <1>7, RefusalIsDecided, ConstantTypes DEF CallFails
<1>8. CASE UNCHANGED worker
  BY <1>8 DEF CallIsDecided
<1>9. CASE Tick \/ TimerFires \/ SyncCb \/ Pods \/ UNCHANGED backupVars
  BY <1>8, <1>9, PodsKeep DEF Tick, TimerFires, SyncCb, control, backupVars
<1>10. CASE CallStarts
  BY <1>1, <1>10, StartIsDecided
<1>11. CASE CreatesCleanup
  BY <1>3, <1>11 DEF CreatesCleanup
<1> QED
  BY <1>2, <1>5, <1>6, <1>7, <1>9, <1>10, <1>11 DEF BackupNext, Reconcile

\* The earlier of two timers is no later than either.
LEMMA WakeByIsEarlier ==
    ASSUME BackupTypeOK, NEW t \in Nat
    PROVE  WakeBy(t) <= t /\ WakeBy(t) <= wake /\ WakeBy(t) \in Int /\ wake \in Int
<1>1. wake \in Int
  BY ConstantTypes DEF BackupTypeOK
<1> QED
  BY <1>1 DEF WakeBy

LEMMA WaitsAreOrdered ==
    ASSUME NEW t \in Int, NEW m \in Nat, NEW n \in Nat, m <= n, NEW wait \in Nat
    PROVE  t <= m + wait => t <= n + wait
  OBVIOUS

LEMMA CallStartsInTime == ASSUME TimerInv, CallStarts PROVE NextBackupIsInTime'
<1>1. BackupTypeOK /\ CacheFollows /\ ObjectsAreKnown /\ now \in Nat
  BY TimeTypes DEF TimerInv, IInv
<1>2. UNCHANGED <<now, cb, seenCb>>
  BY DEF CallStarts
<1> SUFFICES ASSUME worker'.pc = "idle", seenCb.current, cb.exists, cb.valid
             PROVE  /\ cb.suspended => wake' <= now + Recheck
                    /\ ~cb.suspended => wake' <= now + Interval
                    /\ ~cb.suspended /\ cb.reason = "BackupSuccessful" =>
                          wake' <= cb.last + Interval + MaxCall
  BY <1>2 DEF NextBackupIsInTime
<1>3. seenCb.obj = cb
  BY <1>1 DEF CacheFollows
<1>4. UNCHANGED worker
  BY <1>1, StartCases
<1>5. ~cb.suspended /\ ~Due(cb) /\ WaitsUntil(NextRun(cb))
  <2>1. worker.pc = "idle" /\ worker \in Call
    BY <1>1 DEF CallStarts, BackupTypeOK
  <2> DEFINE call == [pc |-> "createJob", at |-> now, obj |-> cb, fresh |-> TRUE]
  <2>2. CASE cb.suspended
    <3>1. worker' = [call EXCEPT !.pc = "writeStatus", !.obj.reason = "Suspended",
                                 !.obj.named = 0]
      BY <1>3, <2>2 DEF CallStarts
    <3> QED
      BY <3>1
  <2>3. CASE ~cb.suspended /\ Due(cb)
    <3>1. worker' = call
      BY <1>3, <2>3 DEF CallStarts
    <3> QED
      BY <3>1
  <2>4. CASE ~cb.suspended /\ ~Due(cb)
    BY <1>3, <2>4 DEF CallStarts
  <2> QED
    BY <2>2, <2>3, <2>4
<1>6. cb.last \in Nat /\ cb.last <= now
  BY <1>1, <1>5, TimeTypes, ConstantTypes DEF Due, ObjectsAreKnown, Known, KnownAt
<1>7. wake' <= cb.last + Interval /\ wake' \in Int
  BY <1>1, <1>5, <1>6, WakeByIsEarlier, ConstantTypes DEF WaitsUntil, NextRun
<1> QED
  BY <1>1, <1>5, <1>6, <1>7, ConstantTypes

LEMMA WritesStatusInTime == ASSUME TimerInv, WritesStatus PROVE NextBackupIsInTime'
<1>1. /\ BackupTypeOK /\ CallIsDecided /\ CallIsTimely /\ now \in Nat
      /\ worker.at \in Nat /\ worker.obj.last \in Nat
  BY TimeTypes, ConstantTypes DEF TimerInv, IInv
<1>2. CASE ~worker.fresh
  BY <1>2 DEF WritesStatus, ReturnsError, NextBackupIsInTime
<1>3. CASE worker.fresh
  <2>1. /\ cb' = worker.obj /\ wake' = RequeuesAfter(worker.obj) /\ UNCHANGED now
        /\ worker.pc = "writeStatus"
    BY <1>3 DEF WritesStatus
  <2> SUFFICES ASSUME worker.obj.valid
               PROVE  /\ worker.obj.suspended => wake' <= now + Recheck
                      /\ ~worker.obj.suspended => wake' <= now + Interval
                      /\ ~worker.obj.suspended /\ worker.obj.reason = "BackupSuccessful" =>
                            wake' <= worker.obj.last + Interval + MaxCall
    BY <2>1 DEF NextBackupIsInTime
  <2>2. CASE worker.obj.suspended
    <3>1. wake' = WakeBy(now + Recheck)
      BY <1>1, <2>1, <2>2 DEF RequeuesAfter, CallIsDecided
    <3> QED
      BY <1>1, <2>2, <3>1, WakeByIsEarlier, ConstantTypes
  <2>3. CASE ~worker.obj.suspended
    <3>1. wake' = WakeBy(now + Interval)
      BY <1>1, <2>1, <2>3 DEF RequeuesAfter, CallIsDecided
    <3>2. wake' <= now + Interval /\ wake' \in Int
      BY <1>1, <3>1, WakeByIsEarlier, ConstantTypes
    <3>3. now <= worker.at + MaxCall
      BY <1>1, <2>1 DEF CallIsTimely
    <3>4. worker.obj.reason = "BackupSuccessful" => worker.at <= worker.obj.last
      BY <1>1, <2>1, <2>3 DEF CallIsDecided
    <3> QED
      BY <1>1, <2>3, <3>2, <3>3, <3>4, ConstantTypes
  <2> QED
    BY <2>2, <2>3
<1> QED
  BY <1>2, <1>3

\* The other steps: a call goes on, an event queues the object, an edit makes the
\* cache old, and the clock only brings the timer closer.
LEMMA OthersInTime ==
    ASSUME TimerInv, [BackupNext]_backupVars, ~CallStarts, ~WritesStatus
    PROVE  NextBackupIsInTime'
<1> USE DEF NextBackupIsInTime
<1>1. /\ BackupTypeOK /\ NextBackupIsInTime /\ worker \in Call /\ now \in Nat
      /\ wake \in Int /\ cb \in ContinuousBackupObject
      /\ seenCb \in [obj : ContinuousBackupObject, current : BOOLEAN]
  <2>1. BackupTypeOK /\ NextBackupIsInTime
    BY DEF TimerInv, IInv
  <2> QED
    BY <2>1, TimeTypes, WakeByIsEarlier DEF BackupTypeOK
<1>2. CASE worker'.pc # "idle" \/ queued' \/ ~seenCb'.current
  BY <1>2
<1>3. CASE TimerFires \/ SyncCb \/ OperatorRestarts \/ ReturnsError
  BY <1>2, <1>3 DEF TimerFires, SyncCb, OperatorRestarts, ReturnsError
<1>4. CASE CreatesJob
  BY <1>1, <1>2, <1>4, CreatedJob
<1>5. CASE CreatesCleanup
  <2>1. worker'.pc = "writeStatus"
    BY <1>1, <1>5 DEF CreatesCleanup, Call
  <2> QED
    BY <1>2, <2>1
<1>6. CASE UserEdits
  <2>1. ~seenCb'.current
    BY <1>1, <1>6 DEF UserEdits
  <2> QED
    BY <1>2, <2>1
<1>7. CASE CallFails
  <2>1. CASE JobIsRefused(0)
    BY <1>1, <1>2, <2>1, RefusedCall, ConstantTypes
  <2>2. CASE worker' = [worker EXCEPT !.pc = "writeStatus"]
    BY <1>1, <1>2, <2>2 DEF Call
  <2> QED
    BY <1>3, <1>7, <2>1, <2>2 DEF CallFails
<1>8. CASE now' \in Nat /\ now' >= now /\ UNCHANGED control
  <2>1. /\ cb' = cb /\ seenCb' = seenCb /\ queued' = queued /\ wake' = wake
        /\ worker' = worker
    BY <1>8 DEF control
  <2> SUFFICES ASSUME worker.pc = "idle", ~queued, seenCb.current, cb.exists, cb.valid
               PROVE  /\ cb.suspended => wake <= now' + Recheck
                      /\ ~cb.suspended => wake <= now' + Interval
                      /\ ~cb.suspended /\ cb.reason = "BackupSuccessful" =>
                            wake <= cb.last + Interval + MaxCall
    BY <2>1
  <2>2. /\ cb.suspended => wake <= now + Recheck
        /\ ~cb.suspended => wake <= now + Interval
        /\ ~cb.suspended /\ cb.reason = "BackupSuccessful" =>
              wake <= cb.last + Interval + MaxCall
    BY <1>1
  <2>3. ASSUME NEW wait \in Nat PROVE wake <= now + wait => wake <= now' + wait
    BY <1>1, <1>8, WaitsAreOrdered
  <2>4. /\ wake <= now + Recheck => wake <= now' + Recheck
        /\ wake <= now + Interval => wake <= now' + Interval
    BY <2>3, ConstantTypes
  <2> QED
    BY <2>2, <2>4
<1>9. CASE Tick \/ Pods \/ UNCHANGED backupVars
  <2>1. UNCHANGED control /\ (now' = now \/ now' = now + 1)
    BY <1>9, PodsKeep DEF Tick, backupVars
  <2> QED
    BY <1>1, <1>8, <2>1
<1> QED
  BY <1>3, <1>4, <1>5, <1>6, <1>7, <1>9 DEF BackupNext, Reconcile

\* The controller never comes to rest without a timer that brings the next backup
\* in time, on no path through a call, a failure, an edit or a restart: for every
\* interval, retention and bound.
THEOREM NextBackupAlwaysInTime == BackupSpec => []NextBackupIsInTime
<1>1. BackupInit => TimerInv
  BY InitIInv DEF BackupInit, Cached, NoCall, TimerInv, CacheFollows, CallIsDecided,
     NextBackupIsInTime
<1>2. TimerInv /\ [BackupNext]_backupVars => TimerInv'
  <2> SUFFICES ASSUME TimerInv, [BackupNext]_backupVars PROVE TimerInv'
    OBVIOUS
  <2>1. BackupTypeOK /\ IInv'
    BY NextIInv DEF TimerInv, IInv
  <2>2. CacheFollows' /\ CallIsDecided'
    BY <2>1, NextCacheFollows, NextCallIsDecided DEF TimerInv
  <2>3. NextBackupIsInTime'
    BY CallStartsInTime, WritesStatusInTime, OthersInTime
  <2> QED
    BY <2>1, <2>2, <2>3 DEF TimerInv
<1>3. TimerInv => NextBackupIsInTime
  BY DEF TimerInv
<1> QED
  BY <1>1, <1>2, <1>3, PTL DEF BackupSpec
=============================================================================
