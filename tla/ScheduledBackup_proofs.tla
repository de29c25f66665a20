----------------------- MODULE ScheduledBackup_proofs -----------------------
(***************************************************************************)
(* Proofs about ScheduledBackup, for every period, retention and bound.    *)
(***************************************************************************)
EXTENDS ScheduledBackupProperties, FiniteSetTheorems, TLAPS

Wakes == {Never} \cup {t \in 1..Never : t % Period = 0}

\* schedule.Next gives a tick, later than t by at most a period.
LEMMA NextRunIsTick ==
    ASSUME NEW t \in Times
    PROVE  NextRun(t) \in Wakes /\ t < NextRun(t)
<1>1. Period \in Nat /\ Period > 0 /\ MaxTime \in Nat /\ t \in Nat /\ t <= MaxTime
  BY ConstantsAssumption DEF Times
<1> DEFINE q == t \div Period
<1>2. q \in Nat /\ q * Period <= t /\ t < q * Period + Period
  BY <1>1
<1>3. NextRun(t) = q * Period + Period
  <2>1. NextRun(t) = (q + 1) * Period
    BY DEF NextRun
  <2> HIDE DEF q
  <2> QED
    BY <1>1, <1>2, <2>1
<1>4. NextRun(t) % Period = 0
  <2>1. NextRun(t) = (q + 1) * Period
    BY DEF NextRun
  <2> HIDE DEF q
  <2> QED
    BY <1>1, <1>2, <2>1
<1> HIDE DEF q
<1> QED
  BY <1>1, <1>2, <1>3, <1>4 DEF Wakes, Never

\* The earlier of two timers is a timer.
LEMMA WakeByIsTimer ==
    ASSUME TypeOK, NEW t \in Wakes
    PROVE  WakeBy(t) \in Wakes
  BY DEF WakeBy, TypeOK, Wakes

-----------------------------------------------------------------------------
(* Type correctness *)

LEMMA InitTypeOK == Init => TypeOK
<1> SUFFICES ASSUME Init PROVE TypeOK
  OBVIOUS
<1>1. 0 \in Times /\ 0 \in 0..MaxMishaps
  BY ConstantsAssumption DEF Times
<1>2. schedule \in Schedule /\ seenSchedule \in [obj : Schedule, current : BOOLEAN]
  BY <1>1 DEF Init, Schedule, Cached
<1>3. backups \in [Times -> Backup] /\ seenBackups \in [Times -> Backup]
  BY <1>1 DEF Init, NoBackup, Backup, BackupPhase
<1>4. worker \in Call
  BY <1>1 DEF Init, NoCall, Call
<1> QED
  BY <1>1, <1>2, <1>3, <1>4 DEF Init, TypeOK

\* The ends of a call, and what counts a mishap.
LEMMA MishapType == ASSUME TypeOK, Mishap PROVE mishaps' \in 0..MaxMishaps
  BY ConstantsAssumption DEF Mishap, TypeOK

LEMMA NoCallType == NoCall \in Call
  BY ConstantsAssumption DEF NoCall, Call, Times

LEMMA ReturnsErrorType ==
    ASSUME TypeOK, ReturnsError
    PROVE  worker' \in Call /\ queued' \in BOOLEAN /\ wake' \in Wakes
  BY NoCallType DEF ReturnsError, TypeOK, Wakes

LEMMA ReturnsRequeueAfterType ==
    ASSUME TypeOK, NEW t \in Times, ReturnsRequeueAfter(NextRun(t))
    PROVE  worker' \in Call /\ queued' \in BOOLEAN /\ wake' \in Wakes
  BY NoCallType, NextRunIsTick, WakeByIsTimer DEF ReturnsRequeueAfter, TypeOK

\* A change of one backup's phase.
LEMMA PhaseType ==
    ASSUME TypeOK, NEW t \in Times, NEW phase \in BackupPhase
    PROVE  [backups EXCEPT ![t].phase = phase] \in [Times -> Backup]
<1>1. backups[t] \in Backup
  BY DEF TypeOK
<1>2. [backups[t] EXCEPT !.phase = phase] \in Backup
  BY <1>1 DEF Backup
<1> QED
  BY <1>2 DEF TypeOK

LEMMA CallStartsType == ASSUME TypeOK, CallStarts PROVE TypeOK'
<1>1. seenSchedule.obj.last \in Times /\ seenSchedule.current \in BOOLEAN /\ now \in Times
  BY DEF TypeOK, Schedule
<1>2. worker' \in Call
  BY <1>1 DEF CallStarts, FirstWrite, Call, TypeOK
<1>3. wake' \in Wakes
  BY <1>1, NextRunIsTick, WakeByIsTimer DEF CallStarts, WaitsUntil, TypeOK, Wakes
<1>4. mishaps' \in 0..MaxMishaps
  BY MishapType DEF CallStarts, TypeOK
<1> QED
  BY <1>2, <1>3, <1>4 DEF CallStarts, TypeOK, Wakes

LEMMA CreatesBackupType == ASSUME TypeOK, CreatesBackup PROVE TypeOK'
<1>1. worker.at \in Times /\ now \in Times
  BY DEF TypeOK, Call
<1>2. CASE backups[worker.at].phase # "None"
  BY <1>2, ReturnsErrorType DEF CreatesBackup, TypeOK, Wakes
<1>3. CASE backups[worker.at].phase = "None"
  <2>1. [phase |-> "Running", created |-> now] \in Backup
    BY <1>1 DEF Backup, BackupPhase
  <2>2. backups' \in [Times -> Backup]
    BY <1>3, <2>1 DEF CreatesBackup, TypeOK
  <2>3. worker' \in Call
    BY <1>3 DEF CreatesBackup, TypeOK, Call
  <2> QED
    BY <1>3, <2>2, <2>3 DEF CreatesBackup, TypeOK
<1> QED
  BY <1>2, <1>3

LEMMA WritesStatusType == ASSUME TypeOK, WritesStatus PROVE TypeOK'
<1>1. worker.at \in Times
  BY DEF TypeOK, Call
<1>2. CASE ~worker.fresh
  BY <1>2, ReturnsErrorType DEF WritesStatus, TypeOK, Wakes
<1>3. CASE worker.fresh
  <2>1. schedule' \in Schedule
    BY <1>1, <1>3 DEF WritesStatus, TypeOK, Schedule
  <2>2. seenSchedule' \in [obj : Schedule, current : BOOLEAN]
    BY <1>3 DEF WritesStatus, TypeOK
  <2>3. worker' \in Call /\ queued' \in BOOLEAN /\ wake' \in Wakes
    <3>1. CASE KeepLast > 0
      BY <1>3, <3>1 DEF WritesStatus, TypeOK, Call, Wakes
    <3>2. CASE ~(KeepLast > 0)
      BY <1>1, <1>3, <3>2, ReturnsRequeueAfterType DEF WritesStatus
    <3> QED
      BY <3>1, <3>2
  <2> QED
    BY <2>1, <2>2, <2>3 DEF WritesStatus, TypeOK, Wakes
<1> QED
  BY <1>2, <1>3

LEMMA RetentionType ==
    ASSUME TypeOK, ListsBackups \/ DeletesBackup \/ RetentionEnds
    PROVE  TypeOK'
<1>1. CASE ListsBackups
  <2>1. worker' \in Call
    BY <1>1 DEF ListsBackups, Candidates, TypeOK, Call
  <2> QED
    BY <1>1, <2>1 DEF ListsBackups, TypeOK
<1>2. CASE DeletesBackup
  <2>1. PICK t \in worker.victims :
          /\ backups' = IF Exists(backups[t])
                        THEN [backups EXCEPT ![t].phase = "Retired"] ELSE backups
          /\ worker' = [worker EXCEPT !.victims = @ \ {t}]
    BY <1>2 DEF DeletesBackup
  <2>2. t \in Times
    BY <2>1 DEF TypeOK, Call
  <2>3. backups' \in [Times -> Backup]
    BY <2>1, <2>2, PhaseType DEF BackupPhase, TypeOK
  <2>4. worker' \in Call
    BY <2>1 DEF TypeOK, Call
  <2> QED
    BY <1>2, <2>3, <2>4 DEF DeletesBackup, TypeOK
<1>3. CASE RetentionEnds
  <2>1. worker.at \in Times
    BY DEF TypeOK, Call
  <2> QED
    BY <1>3, <2>1, ReturnsRequeueAfterType DEF RetentionEnds, TypeOK, Wakes
<1> QED
  BY <1>1, <1>2, <1>3

\* Clock, timer, informers.
LEMMA MachineryType ==
    ASSUME TypeOK, Tick \/ TimerFires \/ SyncSchedule \/ SyncBackups
    PROVE  TypeOK'
<1>1. CASE Tick
  BY <1>1, ConstantsAssumption DEF Tick, TypeOK, Times
<1>2. CASE TimerFires
  BY <1>2 DEF TimerFires, TypeOK
<1>3. CASE SyncSchedule
  BY <1>3 DEF SyncSchedule, Cached, TypeOK
<1>4. CASE SyncBackups
  BY <1>4 DEF SyncBackups, TypeOK
<1> QED
  BY <1>1, <1>2, <1>3, <1>4

LEMMA EnvironmentType == ASSUME TypeOK, Environment PROVE TypeOK'
<1>1. PICK t \in Times : BackupEnds(t) \/ GarbageCollects(t)
  BY DEF Environment
<1>2. backups' \in [Times -> Backup]
  <2>1. PICK phase \in {"Succeeded", "Failed", "Deleted"} :
               backups' = [backups EXCEPT ![t].phase = phase]
    BY <1>1 DEF BackupEnds, GarbageCollects
  <2>2. phase \in BackupPhase
    BY DEF BackupPhase
  <2>3. [backups EXCEPT ![t].phase = phase] \in [Times -> Backup]
    BY <2>2, PhaseType
  <2> QED
    BY <2>1, <2>3
<1>3. mishaps' \in 0..MaxMishaps
  BY <1>1, MishapType DEF BackupEnds, GarbageCollects, TypeOK
<1> QED
  BY <1>1, <1>2, <1>3 DEF BackupEnds, GarbageCollects, KeepController, TypeOK

LEMMA UsersType == ASSUME TypeOK, Users PROVE TypeOK'
<1>1. CASE UserEditsSchedule
  <2>1. mishaps' \in 0..MaxMishaps
    BY <1>1, MishapType DEF UserEditsSchedule, Edit
  <2>2. schedule' \in Schedule
    BY <1>1 DEF UserEditsSchedule, TypeOK, Schedule
  <2>3. seenSchedule' \in [obj : Schedule, current : BOOLEAN] /\ worker' \in Call
    BY <1>1 DEF UserEditsSchedule, TypeOK, Call
  <2> QED
    BY <1>1, <2>1, <2>2, <2>3 DEF UserEditsSchedule, TypeOK
<1>2. ASSUME NEW t \in Times, UserDeletesBackup(t) PROVE TypeOK'
  <2>1. mishaps' \in 0..MaxMishaps /\ backups' \in [Times -> Backup]
    BY <1>2, MishapType, PhaseType DEF UserDeletesBackup, Edit, BackupPhase
  <2> QED
    BY <1>2, <2>1 DEF UserDeletesBackup, KeepController, TypeOK
<1> QED
  BY <1>1, <1>2 DEF Users

LEMMA FailureType == ASSUME TypeOK, CallFails \/ OperatorRestarts PROVE TypeOK'
<1>1. mishaps' \in 0..MaxMishaps
  BY MishapType DEF CallFails, OperatorRestarts
<1>2. CASE CallFails
  <2>1. worker' \in Call /\ queued' \in BOOLEAN /\ wake' \in Wakes
    <3>1. CASE ReturnsError
      BY <3>1, ReturnsErrorType
    <3>2. CASE ReturnsRequeueAfter(NextRun(worker.at))
      <4>1. worker.at \in Times
        BY DEF TypeOK, Call
      <4> QED
        BY <3>2, <4>1, ReturnsRequeueAfterType
    <3>3. ASSUME NEW t \in worker.victims, worker' = [worker EXCEPT !.victims = @ \ {t}],
                 UNCHANGED <<queued, wake>>
          PROVE  worker' \in Call /\ queued' \in BOOLEAN /\ wake' \in Wakes
      BY <3>3 DEF TypeOK, Call, Wakes
    <3> QED
      BY <1>2, <3>1, <3>2, <3>3 DEF CallFails
  <2> QED
    BY <1>1, <1>2, <2>1 DEF CallFails, TypeOK, Wakes
<1>3. CASE OperatorRestarts
  BY <1>1, <1>3, NoCallType DEF OperatorRestarts, Cached, TypeOK
<1> QED
  BY <1>2, <1>3

LEMMA NextTypeOK == TypeOK /\ [Next]_vars => TypeOK'
<1> SUFFICES ASSUME TypeOK, [Next]_vars PROVE TypeOK'
  OBVIOUS
<1>1. CASE Next
  BY <1>1, CallStartsType, CreatesBackupType, WritesStatusType, RetentionType,
     MachineryType, EnvironmentType, UsersType, FailureType
  DEF Next, Reconcile
<1>2. CASE UNCHANGED vars
  BY <1>2 DEF vars, TypeOK
<1> QED
  BY <1>1, <1>2

\* Every object, cache and call of a schedule keeps its type, and its timer is
\* always set to a tick, for every period and every number of mishaps.
THEOREM TypeCorrect == Spec => []TypeOK
  BY InitTypeOK, NextTypeOK, PTL DEF Spec

-----------------------------------------------------------------------------
(* What the status records was created *)

\* There is a backup of the second t, created then or later.
HasBackup(t) == backups[t].phase # "None" /\ backups[t].created >= t

\* A call that is about to write its status has created its backup.  With it
\* RecordedRunsHaveBackups is inductive.
CallHasBackup ==
    /\ worker.pc # "idle" => worker.at <= now
    /\ worker.pc = "writeStatus" => HasBackup(worker.at)

IInv == TypeOK /\ RecordedRunsHaveBackups /\ CallHasBackup

LEMMA InitIInv == Init => IInv
  BY InitTypeOK DEF Init, IInv, RecordedRunsHaveBackups, CallHasBackup, NoCall

\* No step takes a backup out of the history, or changes when it was created.
LEMMA BackupsStay ==
    ASSUME TypeOK, [Next]_vars, NEW t \in Times, HasBackup(t)
    PROVE  HasBackup(t)'
<1> USE DEF HasBackup
<1>1. backups \in [Times -> Backup]
  BY DEF TypeOK
<1>2. ASSUME NEW u \in Times, NEW phase \in {"Succeeded", "Failed", "Deleted", "Retired"},
             backups' = [backups EXCEPT ![u].phase = phase]
      PROVE  HasBackup(t)'
  <2>1. CASE u = t
    BY <1>1, <1>2, <2>1 DEF Backup
  <2>2. CASE u # t
    BY <1>1, <1>2, <2>2
  <2> QED
    BY <2>1, <2>2
<1>3. CASE UNCHANGED backups
  BY <1>3
<1>4. CASE CreatesBackup
  BY <1>1, <1>4 DEF CreatesBackup, TypeOK, Call
<1>5. CASE DeletesBackup
  BY <1>2, <1>3, <1>5 DEF DeletesBackup, TypeOK, Call
<1>6. CASE Environment
  BY <1>2, <1>6 DEF Environment, BackupEnds, GarbageCollects
<1>7. CASE Users
  BY <1>2, <1>3, <1>7 DEF Users, UserEditsSchedule, UserDeletesBackup
<1>8. CASE CallStarts \/ WritesStatus \/ ListsBackups \/ RetentionEnds \/ Tick
           \/ TimerFires \/ SyncSchedule \/ SyncBackups \/ CallFails \/ OperatorRestarts
           \/ UNCHANGED vars
  BY <1>3, <1>8 DEF CallStarts, WritesStatus, ListsBackups, RetentionEnds, Tick, TimerFires,
     SyncSchedule, SyncBackups, CallFails, OperatorRestarts, vars
<1> QED
  BY <1>4, <1>5, <1>6, <1>7, <1>8 DEF Next, Reconcile

LEMMA NextCallHasBackup == ASSUME IInv, [Next]_vars PROVE CallHasBackup'
<1> USE DEF IInv
<1>1. worker \in Call /\ now \in Nat
  BY ConstantsAssumption DEF TypeOK, Times
<1>2. worker.at \in Times
  BY <1>1 DEF Call
<1>3. CASE CallStarts
  BY <1>1, <1>2, <1>3, BackupsStay DEF CallStarts, FirstWrite, CallHasBackup, HasBackup, Times
<1>4. CASE CreatesBackup
  <2>1. CASE backups[worker.at].phase # "None"
    BY <1>4, <2>1 DEF CreatesBackup, ReturnsError, NoCall, CallHasBackup
  <2>2. CASE backups[worker.at].phase = "None"
    <3>1. worker'.at = worker.at /\ now' = now /\ worker.at <= now
      BY <1>1, <1>2, <1>4, <2>2 DEF CreatesBackup, CallHasBackup, Call
    <3>2. HasBackup(worker.at)'
      BY <1>2, <1>4, <2>2, <3>1 DEF CreatesBackup, HasBackup, TypeOK
    <3> QED
      BY <3>1, <3>2 DEF CallHasBackup, HasBackup
  <2> QED
    BY <2>1, <2>2
<1>5. CASE \/ worker' = NoCall
           \/ /\ worker'.pc \in {"list", "delete"} /\ worker.pc # "idle"
              /\ worker'.at = worker.at /\ now' = now
  BY <1>5 DEF NoCall, CallHasBackup
<1>6. CASE /\ worker'.pc = worker.pc /\ worker'.at = worker.at
           /\ now' \in Nat /\ now <= now'
  BY <1>1, <1>2, <1>6, BackupsStay DEF CallHasBackup, HasBackup, Times
<1>7. CASE WritesStatus
  BY <1>1, <1>5, <1>7 DEF WritesStatus, ReturnsError, ReturnsRequeueAfter, Call
<1>8. CASE ListsBackups \/ DeletesBackup \/ RetentionEnds
  BY <1>1, <1>5, <1>8 DEF ListsBackups, DeletesBackup, RetentionEnds, ReturnsRequeueAfter, Call
<1>9. CASE CallFails
  BY <1>1, <1>5, <1>9 DEF CallFails, ReturnsError, ReturnsRequeueAfter, Call
<1>10. CASE OperatorRestarts
  BY <1>5, <1>10 DEF OperatorRestarts
<1>11. CASE Tick
  BY <1>1, <1>6, <1>11 DEF Tick
<1>12. CASE Environment \/ Users
  BY <1>1, <1>6, <1>12 DEF Environment, BackupEnds, GarbageCollects, Users, UserEditsSchedule,
     UserDeletesBackup, KeepController, Call
<1>13. CASE TimerFires \/ SyncSchedule \/ SyncBackups \/ UNCHANGED vars
  BY <1>1, <1>6, <1>13 DEF TimerFires, SyncSchedule, SyncBackups, vars
<1> QED
  BY <1>3, <1>4, <1>7, <1>8, <1>9, <1>10, <1>11, <1>12, <1>13 DEF Next, Reconcile

LEMMA NextRecorded == ASSUME IInv, [Next]_vars PROVE RecordedRunsHaveBackups'
<1>1. TypeOK /\ RecordedRunsHaveBackups /\ CallHasBackup
  BY DEF IInv
<1>2. schedule.last \in Times /\ worker.at \in Times
  BY <1>1 DEF TypeOK, Schedule, Call
<1>3. CASE schedule'.last = schedule.last
  BY <1>1, <1>2, <1>3, BackupsStay DEF RecordedRunsHaveBackups, HasBackup
<1>4. CASE WritesStatus
  <2>1. CASE ~worker.fresh
    BY <1>3, <1>4, <2>1 DEF WritesStatus
  <2>2. CASE worker.fresh
    <3>1. schedule'.last = worker.at /\ worker.pc = "writeStatus"
      BY <1>1, <1>4, <2>2 DEF WritesStatus, TypeOK, Schedule
    <3> QED
      BY <1>1, <1>2, <3>1, BackupsStay DEF CallHasBackup, RecordedRunsHaveBackups, HasBackup
  <2> QED
    BY <2>1, <2>2
<1>5. CASE Users
  BY <1>1, <1>3, <1>5 DEF Users, UserEditsSchedule, UserDeletesBackup, KeepController,
     TypeOK, Schedule
<1>6. CASE [Next]_vars /\ ~WritesStatus /\ ~Users
  <2>1. UNCHANGED schedule
    BY <1>6 DEF Next, Reconcile, Environment, CallStarts, CreatesBackup, ListsBackups,
       DeletesBackup, RetentionEnds, Tick, TimerFires, SyncSchedule, SyncBackups, BackupEnds,
       GarbageCollects, KeepController, CallFails, OperatorRestarts, vars
  <2> QED
    BY <1>3, <2>1
<1> QED
  BY <1>4, <1>5, <1>6

\* The backup that the status of a schedule names was created, at the recorded
\* second or later, whatever failed or was deleted since, for every period and
\* every number of mishaps.
THEOREM RecordedRunsAlwaysHaveBackups == Spec => []RecordedRunsHaveBackups
<1>1. Init => IInv
  BY InitIInv
<1>2. IInv /\ [Next]_vars => IInv'
  BY NextTypeOK, NextCallHasBackup, NextRecorded DEF IInv
<1>3. IInv => RecordedRunsHaveBackups
  BY DEF IInv
<1> QED
  BY <1>1, <1>2, <1>3, PTL DEF Spec

-----------------------------------------------------------------------------
(* A tick gets one backup *)

\* The names taken at a tick, and the one that the running call is about to take.
Claimed(tick) ==
    {t \in Times : /\ tick <= t /\ t < tick + Period
                   /\ \/ backups[t].phase # "None"
                      \/ worker.pc = "create" /\ worker.at = t}

\* The running call read the schedule of before the tick, as it still is, and is
\* the one that gives the tick its backup.
RunsFor(tick) ==
    /\ worker.fresh /\ tick <= worker.at /\ worker.at < tick + Period
    /\ \/ worker.pc = "create" /\ backups[worker.at].phase = "None"
       \/ worker.pc = "writeStatus"

\* While nothing is recorded at the tick and no call is about to, mishaps account
\* for every name.
ClaimsAreCharged ==
    \A tick \in {t \in Times : t % Period = 0} :
        /\ Cardinality(Claimed(tick)) <= 1 + mishaps
        /\ schedule.last < tick /\ ~RunsFor(tick) => Cardinality(Claimed(tick)) <= mishaps

CacheFollows == seenSchedule.current => seenSchedule.obj = schedule

\* A call whose schedule has not changed was due.
CallIsDue ==
    worker.pc \in {"create", "writeStatus"} /\ worker.fresh =>
        NextRun(schedule.last) <= worker.at

ChargeInv == TypeOK /\ CacheFollows /\ CallIsDue /\ ClaimsAreCharged

\* A run that is due at a tick was last made before it.
LEMMA DueIsLater ==
    ASSUME NEW last \in Times, NEW at \in Times, NextRun(last) <= at,
           NEW tick \in Times, tick % Period = 0, tick <= at, at < tick + Period
    PROVE  last < tick
<1>1. Period \in Nat /\ Period > 0 /\ last \in Nat /\ at \in Nat /\ tick \in Nat
  BY ConstantsAssumption DEF Times
<1> DEFINE q == last \div Period
           k == tick \div Period
<1>2. q \in Nat /\ k \in Nat /\ last < q * Period + Period /\ tick = k * Period
  BY <1>1
<1>3. NextRun(last) = q * Period + Period
  <2>1. NextRun(last) = (q + 1) * Period
    BY DEF NextRun
  <2> HIDE DEF q
  <2> QED
    BY <1>1, <1>2, <2>1
<1>4. q * Period \in Nat /\ k * Period \in Nat
  <2> HIDE DEF q, k
  <2> QED
    BY <1>1, <1>2
<1> HIDE DEF q, k
<1>5. q * Period < k * Period
  BY <1>1, <1>2, <1>3, <1>4
<1>6. q + 1 <= k
  <2>1. ASSUME k <= q PROVE FALSE
    <3>1. PICK d \in Nat : q = k + d
      <4>1. q - k \in Nat /\ q = k + (q - k)
        BY <1>2, <2>1
      <4> QED
        BY <4>1
    <3>2. q * Period = k * Period + d * Period /\ d * Period \in Nat
      BY <1>1, <1>2, <3>1
    <3> QED
      BY <1>4, <1>5, <3>2
  <2> QED
    BY <1>2, <2>1
<1>7. q * Period + Period <= k * Period
  <2>1. PICK d \in Nat : k = q + 1 + d
    <3>1. k - (q + 1) \in Nat /\ k = q + 1 + (k - (q + 1))
      BY <1>2, <1>6
    <3> QED
      BY <3>1
  <2>2. k * Period = q * Period + Period + d * Period /\ d * Period \in Nat
    BY <1>1, <1>2, <2>1
  <2> QED
    BY <1>1, <1>4, <2>2
<1> QED
  BY <1>1, <1>2, <1>4, <1>7

\* Claimed sets are finite.
LEMMA ClaimedIsFinite ==
    ASSUME NEW S \in SUBSET Times PROVE IsFiniteSet(S) /\ Cardinality(S) \in Nat
<1>1. IsFiniteSet(Times)
  BY ConstantsAssumption, FS_Interval DEF Times
<1> QED
  BY <1>1, FS_Subset, FS_CardinalityType

\* A name is taken for good, and by a call only.
LEMMA PhaseSteps ==
    ASSUME TypeOK, [Next]_vars, NEW t \in Times
    PROVE  \/ backups'[t].phase = "None" <=> backups[t].phase = "None"
           \/ CreatesBackup /\ t = worker.at
<1>1. backups \in [Times -> Backup]
  BY DEF TypeOK
<1>2. ASSUME NEW u \in Times, backups[u].phase # "None",
             NEW phase \in {"Succeeded", "Failed", "Deleted", "Retired"},
             backups' = [backups EXCEPT ![u].phase = phase]
      PROVE  backups'[t].phase = "None" <=> backups[t].phase = "None"
  BY <1>1, <1>2 DEF Backup
<1>3. CASE UNCHANGED backups
  BY <1>3
<1>4. CASE CreatesBackup
  <2>1. backups' = [backups EXCEPT ![worker.at] = backups'[worker.at]] \/ UNCHANGED backups
    BY <1>1, <1>4 DEF CreatesBackup
  <2> QED
    BY <1>1, <1>4 DEF CreatesBackup, ReturnsError
<1>5. CASE DeletesBackup
  BY <1>2, <1>3, <1>5 DEF DeletesBackup, TypeOK, Call, Exists
<1>6. CASE Environment
  BY <1>2, <1>6 DEF Environment, BackupEnds, GarbageCollects, Exists
<1>7. CASE Users
  BY <1>2, <1>3, <1>7 DEF Users, UserEditsSchedule, UserDeletesBackup, Exists
<1>8. CASE CallStarts \/ WritesStatus \/ ListsBackups \/ RetentionEnds \/ Tick
           \/ TimerFires \/ SyncSchedule \/ SyncBackups \/ CallFails \/ OperatorRestarts
           \/ UNCHANGED vars
  BY <1>3, <1>8 DEF CallStarts, WritesStatus, ListsBackups, RetentionEnds, Tick, TimerFires,
     SyncSchedule, SyncBackups, CallFails, OperatorRestarts, vars
<1> QED
  BY <1>4, <1>5, <1>6, <1>7, <1>8 DEF Next, Reconcile

\* What a step does to the call and to the status.
LEMMA CallSteps ==
    ASSUME TypeOK, [Next]_vars
    PROVE  \/ UNCHANGED <<worker, schedule>> /\ mishaps' >= mishaps
           \/ CallStarts \/ CreatesBackup \/ WritesStatus
           \/ /\ worker.pc \in {"list", "delete"} /\ worker'.pc \in {"idle", "list", "delete"}
              /\ UNCHANGED <<schedule, mishaps>>
           \/ /\ mishaps' = mishaps + 1 /\ schedule'.last = schedule.last
              /\ worker'.pc \in {"create", "writeStatus"} =>
                    worker'.pc = worker.pc /\ worker'.at = worker.at /\ ~worker'.fresh
<1>1. worker \in Call /\ schedule \in Schedule /\ mishaps \in Nat
  BY ConstantsAssumption DEF TypeOK
<1>2. CASE Tick \/ TimerFires \/ SyncSchedule \/ SyncBackups \/ Environment \/ UNCHANGED vars
           \/ \E t \in Times : UserDeletesBackup(t)
  BY <1>1, <1>2 DEF Tick, TimerFires, SyncSchedule, SyncBackups, Environment, BackupEnds,
     GarbageCollects, UserDeletesBackup, Edit, Mishap, KeepController, vars
<1>3. CASE UserEditsSchedule
  BY <1>1, <1>3 DEF UserEditsSchedule, Edit, Mishap, Call, Schedule
<1>4. CASE CallFails
  BY <1>1, <1>4 DEF CallFails, Mishap, ReturnsError, ReturnsRequeueAfter, NoCall, Call
<1>5. CASE OperatorRestarts
  BY <1>1, <1>5 DEF OperatorRestarts, Mishap, NoCall
<1>6. CASE ListsBackups
  BY <1>1, <1>6 DEF ListsBackups, Call
<1>7. CASE DeletesBackup
  BY <1>1, <1>7 DEF DeletesBackup, Call
<1>8. CASE RetentionEnds
  BY <1>8 DEF RetentionEnds, ReturnsRequeueAfter, NoCall
<1> QED
  BY <1>2, <1>3, <1>4, <1>5, <1>6, <1>7, <1>8 DEF Next, Reconcile, Users

\* Only a call that starts adds a claim.
LEMMA ClaimSteps ==
    ASSUME TypeOK, [Next]_vars, ~CallStarts, NEW tick \in Times
    PROVE  Claimed(tick)' \subseteq Claimed(tick)
<1>1. worker \in Call
  BY DEF TypeOK
<1>2. worker'.pc = "create" => worker.pc = "create" /\ worker'.at = worker.at
  <2>1. CASE CreatesBackup
    BY <1>1, <2>1 DEF CreatesBackup, ReturnsError, NoCall, Call
  <2>2. CASE WritesStatus
    BY <1>1, <2>2 DEF WritesStatus, ReturnsError, ReturnsRequeueAfter, NoCall, Call
  <2> QED
    BY <2>1, <2>2, CallSteps
<1>3. CreatesBackup => worker.pc = "create"
  BY DEF CreatesBackup
<1> QED
  BY <1>2, <1>3, PhaseSteps DEF Claimed

\* The claims of a call that starts.
LEMMA StartCharges ==
    ASSUME ChargeInv, CallStarts, NEW tick \in Times, tick % Period = 0
    PROVE  /\ Cardinality(Claimed(tick)') <= 1 + mishaps'
           /\ schedule'.last < tick /\ ~RunsFor(tick)' => Cardinality(Claimed(tick)') <= mishaps'
<1>1. /\ TypeOK /\ CacheFollows /\ ClaimsAreCharged
      /\ now \in Times /\ schedule.last \in Times /\ seenSchedule.obj.last \in Times
      /\ mishaps \in Nat
  BY ConstantsAssumption DEF ChargeInv, TypeOK, Schedule
<1>2. /\ Cardinality(Claimed(tick)) <= 1 + mishaps
      /\ schedule.last < tick => Cardinality(Claimed(tick)) <= mishaps
      /\ UNCHANGED <<schedule, backups>> /\ worker.pc = "idle"
  BY <1>1 DEF ClaimsAreCharged, RunsFor, CallStarts
<1>3. CASE UNCHANGED worker
  <2>1. Claimed(tick)' = Claimed(tick) /\ mishaps' >= mishaps /\ mishaps' \in Nat
    BY <1>1, <1>2, <1>3 DEF Claimed, CallStarts, Mishap
  <2>2. Cardinality(Claimed(tick)) \in Nat
    BY ClaimedIsFinite DEF Claimed
  <2> QED
    BY <1>1, <1>2, <2>1, <2>2
<1>4. CASE worker' # worker
  <2>1. /\ NextRun(seenSchedule.obj.last) <= now
        /\ worker'.pc = "create" /\ worker'.at = now /\ worker'.fresh = seenSchedule.current
        /\ IF seenSchedule.current THEN UNCHANGED mishaps ELSE mishaps' = mishaps + 1
    <3>1. NextRun(seenSchedule.obj.last) \in Int
      BY <1>1, ConstantsAssumption, NextRunIsTick DEF Wakes, Never
    <3> QED
      BY <1>1, <1>4, <3>1 DEF CallStarts, FirstWrite, Mishap, Times
  <2>2. Claimed(tick)' \subseteq Claimed(tick) \cup {now}
    BY <1>2, <2>1 DEF Claimed
  <2>3. /\ Cardinality(Claimed(tick)') <= Cardinality(Claimed(tick)) + 1
        /\ Cardinality(Claimed(tick)') \in Nat /\ Cardinality(Claimed(tick)) \in Nat
    <3>1. /\ IsFiniteSet(Claimed(tick)) /\ Cardinality(Claimed(tick)) \in Nat
          /\ Cardinality(Claimed(tick)') \in Nat
      <4>1. Claimed(tick) \in SUBSET Times /\ Claimed(tick)' \in SUBSET Times
        BY DEF Claimed
      <4> QED
        BY <4>1, ClaimedIsFinite
    <3>2. /\ IsFiniteSet(Claimed(tick) \cup {now})
          /\ Cardinality(Claimed(tick) \cup {now}) <= Cardinality(Claimed(tick)) + 1
      BY <3>1, FS_AddElement
    <3>3. Cardinality(Claimed(tick)') <= Cardinality(Claimed(tick) \cup {now})
      BY <2>2, <3>2, FS_Subset
    <3>4. Cardinality(Claimed(tick) \cup {now}) \in Nat
      BY <3>2, FS_CardinalityType
    <3> QED
      BY <3>1, <3>2, <3>3, <3>4
  <2>4. CASE ~(tick <= now /\ now < tick + Period)
    <3>1. Claimed(tick)' = Claimed(tick)
      BY <1>2, <2>1, <2>4 DEF Claimed
    <3>2. mishaps' >= mishaps /\ mishaps' \in Nat
      BY <1>1, <2>1
    <3> QED
      BY <1>1, <1>2, <2>3, <3>1, <3>2
  <2>5. CASE tick <= now /\ now < tick + Period
    <3>1. seenSchedule.obj.last < tick
      BY <1>1, <2>1, <2>5, DueIsLater
    <3>2. CASE seenSchedule.current
      <4>1. Cardinality(Claimed(tick)) <= mishaps
        BY <1>1, <1>2, <3>1, <3>2 DEF CacheFollows
      <4>2. CASE backups[now].phase = "None"
        <5>1. RunsFor(tick)'
          BY <1>2, <2>1, <2>5, <3>2, <4>2 DEF RunsFor
        <5> QED
          BY <1>1, <2>1, <2>3, <3>2, <4>1, <5>1
      <4>3. CASE backups[now].phase # "None"
        <5>1. Claimed(tick)' = Claimed(tick)
          BY <1>1, <1>2, <2>1, <2>5, <4>3 DEF Claimed
        <5> QED
          BY <1>1, <2>1, <2>3, <3>2, <4>1, <5>1
      <4> QED
        BY <4>2, <4>3
    <3>3. CASE ~seenSchedule.current
      BY <1>1, <1>2, <2>1, <2>3, <3>3
    <3> QED
      BY <3>2, <3>3
  <2> QED
    BY <2>4, <2>5
<1> QED
  BY <1>3, <1>4

\* Where a tick has no record after a step and no call to give it one, it had none
\* before, or the step is a mishap.
LEMMA RunSteps ==
    ASSUME ChargeInv, [Next]_vars, ~CallStarts, NEW tick \in Times
    PROVE  /\ mishaps' \in Nat /\ mishaps' >= mishaps
           /\ schedule'.last < tick /\ ~RunsFor(tick)' =>
                \/ mishaps' = mishaps + 1
                \/ schedule.last < tick /\ ~RunsFor(tick)
<1>1. /\ TypeOK /\ CallIsDue /\ worker \in Call /\ schedule \in Schedule
      /\ mishaps \in Nat /\ tick \in Nat
  BY ConstantsAssumption DEF ChargeInv, TypeOK, Times
<1>2. schedule.last \in Nat /\ worker.at \in Times /\ worker.at \in Nat
  BY <1>1 DEF Schedule, Call, Times
<1>3. CASE CreatesBackup
  <2>1. UNCHANGED <<schedule, mishaps>> /\ worker.pc = "create"
    BY <1>3 DEF CreatesBackup
  <2>2. RunsFor(tick) => RunsFor(tick)'
    BY <1>1, <1>3, <2>1 DEF CreatesBackup, RunsFor, Call
  <2> QED
    BY <1>1, <2>1, <2>2
<1>4. CASE WritesStatus
  <2>1. UNCHANGED mishaps /\ worker.pc = "writeStatus"
    BY <1>4 DEF WritesStatus
  <2>2. CASE ~worker.fresh
    BY <1>1, <1>4, <2>1, <2>2 DEF WritesStatus, RunsFor
  <2>3. CASE worker.fresh
    <3>1. schedule'.last = worker.at
      BY <1>1, <1>4, <2>3 DEF WritesStatus, Schedule
    <3>2. schedule.last < NextRun(schedule.last) /\ NextRun(schedule.last) \in Nat
      <4>1. schedule.last \in Times
        BY <1>1 DEF Schedule
      <4>2. NextRun(schedule.last) \in Wakes /\ schedule.last < NextRun(schedule.last)
        BY <4>1, NextRunIsTick
      <4>3. Wakes \subseteq Nat
        BY ConstantsAssumption DEF Wakes, Never
      <4> QED
        BY <4>2, <4>3
    <3>3. schedule.last < worker.at
      BY <1>1, <1>2, <2>1, <2>3, <3>2 DEF CallIsDue
    <3> QED
      BY <1>1, <1>2, <2>1, <3>1, <3>3 DEF RunsFor
  <2> QED
    BY <2>2, <2>3
<1>5. CASE UNCHANGED <<worker, schedule>> /\ mishaps' >= mishaps /\ ~CreatesBackup
  <2>1. mishaps' \in Nat
    BY <1>1, NextTypeOK, ConstantsAssumption DEF TypeOK
  <2>2. RunsFor(tick)' = RunsFor(tick)
    BY <1>2, <1>5, PhaseSteps, <1>1 DEF RunsFor
  <2> QED
    BY <1>5, <2>1, <2>2
<1>6. CASE /\ worker.pc \in {"list", "delete"} /\ worker'.pc \in {"idle", "list", "delete"}
           /\ UNCHANGED <<schedule, mishaps>>
  BY <1>1, <1>6 DEF RunsFor
<1>7. CASE mishaps' = mishaps + 1
  <2>1. mishaps' \in Nat /\ mishaps' >= mishaps
    BY <1>1, <1>7
  <2> QED
    BY <1>7, <2>1
<1> QED
  BY <1>1, <1>3, <1>4, <1>5, <1>6, <1>7, CallSteps

LEMMA NextClaims == ASSUME ChargeInv, [Next]_vars PROVE ClaimsAreCharged'
<1> SUFFICES ASSUME NEW tick \in Times, tick % Period = 0
             PROVE  /\ Cardinality(Claimed(tick)') <= 1 + mishaps'
                    /\ schedule'.last < tick /\ ~RunsFor(tick)' =>
                         Cardinality(Claimed(tick)') <= mishaps'
  BY DEF ClaimsAreCharged
<1>1. CASE CallStarts
  BY <1>1, StartCharges
<1>2. CASE ~CallStarts
  <2>1. /\ Cardinality(Claimed(tick)) <= 1 + mishaps
        /\ schedule.last < tick /\ ~RunsFor(tick) => Cardinality(Claimed(tick)) <= mishaps
        /\ mishaps \in Nat /\ TypeOK
    BY ConstantsAssumption DEF ChargeInv, ClaimsAreCharged, TypeOK
  <2>2. /\ Cardinality(Claimed(tick)') <= Cardinality(Claimed(tick))
        /\ Cardinality(Claimed(tick)') \in Nat /\ Cardinality(Claimed(tick)) \in Nat
    <3>1. Claimed(tick) \in SUBSET Times /\ Claimed(tick)' \in SUBSET Claimed(tick)
      BY <1>2, <2>1, ClaimSteps DEF Claimed
    <3> QED
      BY <3>1, ClaimedIsFinite, FS_Subset
  <2> QED
    BY <1>2, <2>1, <2>2, RunSteps
<1> QED
  BY <1>1, <1>2

LEMMA NextCacheFollows == ASSUME TypeOK, CacheFollows, [Next]_vars PROVE CacheFollows'
<1>1. CASE SyncSchedule \/ OperatorRestarts
  BY <1>1 DEF SyncSchedule, OperatorRestarts, Cached, CacheFollows
<1>2. CASE WritesStatus \/ UserEditsSchedule
  BY <1>2 DEF WritesStatus, UserEditsSchedule, ReturnsError, TypeOK, CacheFollows
<1>3. CASE UNCHANGED <<schedule, seenSchedule>>
  BY <1>3 DEF CacheFollows
<1> QED
  BY <1>1, <1>2, <1>3 DEF Next, Reconcile, CallStarts, CreatesBackup, ListsBackups,
     DeletesBackup, RetentionEnds, Tick, TimerFires, SyncBackups, Environment, BackupEnds,
     GarbageCollects, Users, UserDeletesBackup, KeepController, CallFails, vars

LEMMA NextCallIsDue ==
    ASSUME TypeOK, CacheFollows, CallIsDue, [Next]_vars
    PROVE  CallIsDue'
<1>1. TypeOK /\ CacheFollows /\ CallIsDue /\ worker \in Call /\ now \in Times
  BY DEF TypeOK
<1>2. CASE CallStarts
  <2>1. seenSchedule.obj.last \in Times
    BY <1>1 DEF TypeOK, Schedule
  <2>2. NextRun(seenSchedule.obj.last) \in Int
    BY <2>1, ConstantsAssumption, NextRunIsTick DEF Wakes, Never
  <2>3. CASE UNCHANGED worker
    BY <1>1, <1>2, <2>3 DEF CallStarts, CallIsDue
  <2>4. CASE worker' # worker
    BY <1>1, <1>2, <2>2, <2>4 DEF CallStarts, CallIsDue, CacheFollows, Times
  <2> QED
    BY <2>3, <2>4
<1>3. CASE CreatesBackup
  BY <1>1, <1>3 DEF CreatesBackup, ReturnsError, NoCall, CallIsDue, Call
<1>4. CASE WritesStatus
  BY <1>1, <1>4 DEF WritesStatus, ReturnsError, ReturnsRequeueAfter, NoCall, CallIsDue, Call
<1> QED
  BY <1>1, <1>2, <1>3, <1>4, CallSteps DEF CallIsDue

\* A tick gets one backup, and another one only by a mishap, for every period and
\* every number of mishaps.
THEOREM TicksGetOneBackup == Spec => []OneBackupPerTick
<1>1. Init => ChargeInv
  <2> SUFFICES ASSUME Init PROVE ChargeInv
    OBVIOUS
  <2>1. CacheFollows /\ CallIsDue
    BY DEF Init, Cached, NoCall, CacheFollows, CallIsDue
  <2>2. \A tick \in Times : Claimed(tick) = {}
    BY DEF Init, NoBackup, NoCall, Claimed
  <2>3. Cardinality({}) = 0 /\ mishaps = 0
    BY FS_EmptySet DEF Init
  <2>4. ClaimsAreCharged
    BY <2>2, <2>3 DEF ClaimsAreCharged
  <2> QED
    BY <2>1, <2>4, InitTypeOK DEF ChargeInv
<1>2. ChargeInv /\ [Next]_vars => ChargeInv'
  BY NextTypeOK, NextCacheFollows, NextCallIsDue, NextClaims DEF ChargeInv
<1>3. ChargeInv => OneBackupPerTick
  <2> SUFFICES ASSUME ChargeInv, NEW tick \in {t \in Times : t % Period = 0}
               PROVE  Cardinality({t \in Times : /\ backups[t].phase # "None"
                                                 /\ tick <= t /\ t < tick + Period})
                        <= 1 + mishaps
    BY DEF OneBackupPerTick
  <2> DEFINE taken == {t \in Times : /\ backups[t].phase # "None"
                                     /\ tick <= t /\ t < tick + Period}
  <2>1. taken \in SUBSET Claimed(tick) /\ Claimed(tick) \in SUBSET Times
    BY DEF Claimed
  <2>2. /\ Cardinality(taken) <= Cardinality(Claimed(tick))
        /\ Cardinality(taken) \in Nat /\ Cardinality(Claimed(tick)) \in Nat
    BY <2>1, ClaimedIsFinite, FS_Subset
  <2>3. Cardinality(Claimed(tick)) <= 1 + mishaps /\ mishaps \in Nat
    BY ConstantsAssumption DEF ChargeInv, ClaimsAreCharged, TypeOK
  <2> QED
    BY <2>2, <2>3
<1> QED
  BY <1>1, <1>2, <1>3, PTL DEF Spec

-----------------------------------------------------------------------------
(* A tick is recorded once *)

RecordInv == TypeOK /\ CacheFollows /\ CallIsDue

LEMMA NextRecordInv == RecordInv /\ [Next]_vars => RecordInv'
  BY NextTypeOK, NextCacheFollows, NextCallIsDue DEF RecordInv

\* A run that is due is for a later tick than the last one.
LEMMA DueIsForALaterTick ==
    ASSUME NEW last \in Times, NEW at \in Times, NextRun(last) <= at
    PROVE  at \div Period > last \div Period
<1>1. Period \in Nat /\ Period > 0 /\ last \in Nat /\ at \in Nat
  BY ConstantsAssumption DEF Times
<1> DEFINE q == last \div Period
           k == at \div Period
<1>2. q \in Nat /\ k \in Nat /\ k * Period <= at /\ at < k * Period + Period
  BY <1>1
<1>3. (q + 1) * Period <= at
  BY DEF NextRun
<1> HIDE DEF q, k
<1>4. ASSUME k <= q PROVE FALSE
  <2>1. q - k \in Nat /\ q = k + (q - k)
    BY <1>2, <1>4
  <2>2. PICK d \in Nat : q = k + d
    BY <2>1
  <2>3. (q + 1) * Period = k * Period + d * Period + Period
    BY <1>1, <1>2, <2>2
  <2>4. d * Period \in Nat /\ k * Period \in Nat
    BY <1>1, <1>2
  <2> QED
    BY <1>1, <1>2, <1>3, <2>3, <2>4
<1>5. q < k
  BY <1>2, <1>4
<1> QED
  BY <1>5 DEF q, k

\* Only a call that was due writes the record.
LEMMA RecordsADueRun ==
    ASSUME RecordInv, [Next]_vars, schedule'.last # schedule.last
    PROVE  /\ schedule.last \in Times /\ schedule'.last \in Times
           /\ NextRun(schedule.last) <= schedule'.last
<1>1. TypeOK /\ TypeOK' /\ CallIsDue
  BY NextTypeOK DEF RecordInv
<1>2. schedule \in Schedule /\ schedule' \in Schedule /\ worker \in Call
  BY <1>1 DEF TypeOK
<1>3. WritesStatus
  BY <1>1, CallSteps DEF CallStarts, CreatesBackup
<1>4. worker.pc = "writeStatus" /\ worker.fresh /\ schedule'.last = worker.at
  BY <1>2, <1>3 DEF WritesStatus, Schedule
<1> QED
  BY <1>1, <1>2, <1>4 DEF CallIsDue, Schedule

\* The status never takes back a run and never records a tick twice, whatever
\* failed and however old the caches are, for every period.
THEOREM TicksAreNeverRecordedTwice == Spec => TicksAreRecordedOnce
<1>1. Init => RecordInv
  BY InitTypeOK DEF Init, Cached, NoCall, RecordInv, CacheFollows, CallIsDue
<1>2. RecordInv /\ [Next]_vars =>
        [schedule'.last # schedule.last =>
            schedule'.last \div Period > schedule.last \div Period]_vars
  <2> SUFFICES ASSUME RecordInv, [Next]_vars, schedule'.last # schedule.last
               PROVE  schedule'.last \div Period > schedule.last \div Period
    OBVIOUS
  <2> QED
    BY RecordsADueRun, DueIsForALaterTick
<1> QED
  BY <1>1, <1>2, NextRecordInv, PTL DEF Spec, TicksAreRecordedOnce

-----------------------------------------------------------------------------
(* No tick is forgotten *)

\* A call in its retention has written the status: the event of that write is
\* still to come, or has queued the schedule again.
RetentionIsFollowed ==
    worker.pc \in {"list", "delete"} => queued \/ ~seenSchedule.current

AwaitInv == RecordInv /\ RetentionIsFollowed /\ NextTickIsAwaited

\* The earlier of two timers is no later than either.
LEMMA WakeByIsEarlier ==
    ASSUME TypeOK, NEW t \in Wakes
    PROVE  WakeBy(t) <= t /\ WakeBy(t) <= wake
<1>1. t \in Int /\ wake \in Int
  BY ConstantsAssumption DEF TypeOK, Wakes, Never
<1> QED
  BY <1>1 DEF WakeBy

LEMMA CallStartsAwaits == ASSUME AwaitInv, CallStarts PROVE AwaitInv'
<1>1. TypeOK /\ RecordInv' /\ CacheFollows /\ worker.pc = "idle"
  BY NextRecordInv DEF AwaitInv, RecordInv, CallStarts, Next, Reconcile
<1>2. seenSchedule.obj \in Schedule /\ worker \in Call
  BY <1>1 DEF TypeOK
<1>3. RetentionIsFollowed'
  BY <1>1 DEF CallStarts, FirstWrite, RetentionIsFollowed
<1>4. NextTickIsAwaited'
  <2> SUFFICES ASSUME worker'.pc = "idle", seenSchedule.current,
                      schedule.exists, schedule.valid
               PROVE  wake' <= NextRun(schedule.last)
    BY DEF CallStarts, NextTickIsAwaited
  <2>1. seenSchedule.obj = schedule
    BY <1>1 DEF CacheFollows
  <2>2. WaitsUntil(NextRun(schedule.last))
    BY <2>1 DEF CallStarts, FirstWrite
  <2>3. NextRun(schedule.last) \in Wakes
    BY <1>2, <2>1, NextRunIsTick DEF Schedule
  <2> QED
    BY <1>1, <2>2, <2>3, WakeByIsEarlier DEF WaitsUntil
<1> QED
  BY <1>1, <1>3, <1>4 DEF AwaitInv

\* The other steps of a call: it goes on, is queued again, or leaves the event of
\* its write to come.
LEMMA CallAwaits ==
    ASSUME AwaitInv,
           CreatesBackup \/ WritesStatus \/ ListsBackups \/ DeletesBackup \/ RetentionEnds
              \/ CallFails
    PROVE  RetentionIsFollowed' /\ NextTickIsAwaited'
<1>1. TypeOK /\ RetentionIsFollowed /\ worker \in Call
      /\ seenSchedule \in [obj : Schedule, current : BOOLEAN]
  BY DEF AwaitInv, RecordInv, TypeOK
<1>2. CASE ReturnsError
  BY <1>2 DEF ReturnsError, NoCall, RetentionIsFollowed, NextTickIsAwaited
<1>3. CASE /\ worker'.pc \in {"list", "delete"} \/ ReturnsRequeueAfter(NextRun(worker.at))
           /\ queued' \/ ~seenSchedule'.current
  BY <1>3 DEF ReturnsRequeueAfter, NoCall, RetentionIsFollowed, NextTickIsAwaited
<1>4. CASE CreatesBackup
  <2>1. CASE worker' = [worker EXCEPT !.pc = "writeStatus"]
    BY <1>1, <2>1 DEF Call, RetentionIsFollowed, NextTickIsAwaited
  <2> QED
    BY <1>2, <1>4, <2>1 DEF CreatesBackup
<1>5. CASE WritesStatus
  <2>1. CASE worker.fresh
    <3>1. ~seenSchedule'.current
      BY <1>1, <1>5, <2>1 DEF WritesStatus
    <3>2. worker'.pc = "list" \/ ReturnsRequeueAfter(NextRun(worker.at))
      BY <1>1, <1>5, <2>1 DEF WritesStatus, Call
    <3> QED
      BY <1>3, <3>1, <3>2
  <2> QED
    BY <1>2, <1>5, <2>1 DEF WritesStatus
<1>6. CASE ListsBackups
  <2>1. worker.pc = "list" /\ worker'.pc = "delete" /\ UNCHANGED <<queued, seenSchedule>>
    BY <1>1, <1>6 DEF ListsBackups, Call
  <2> QED
    BY <1>1, <1>3, <2>1 DEF RetentionIsFollowed
<1>7. CASE DeletesBackup
  <2>1. worker.pc = "delete" /\ worker'.pc = "delete" /\ UNCHANGED <<queued, seenSchedule>>
    BY <1>1, <1>7 DEF DeletesBackup, Call
  <2> QED
    BY <1>1, <1>3, <2>1 DEF RetentionIsFollowed
<1>8. CASE RetentionEnds
  BY <1>1, <1>3, <1>8 DEF RetentionEnds, ReturnsRequeueAfter, RetentionIsFollowed
<1>9. CASE CallFails
  <2>1. CASE worker.pc = "list" /\ ReturnsRequeueAfter(NextRun(worker.at))
    BY <1>1, <1>3, <1>9, <2>1 DEF CallFails, ReturnsRequeueAfter, RetentionIsFollowed
  <2>2. CASE /\ worker.pc = "delete" /\ UNCHANGED queued
             /\ \E t \in worker.victims : worker' = [worker EXCEPT !.victims = @ \ {t}]
    <3>1. worker'.pc = "delete"
      BY <1>1, <2>2 DEF Call
    <3> QED
      BY <1>1, <1>3, <1>9, <2>2, <3>1 DEF CallFails, RetentionIsFollowed
  <2> QED
    BY <1>2, <1>9, <2>1, <2>2 DEF CallFails
<1> QED
  BY <1>4, <1>5, <1>6, <1>7, <1>8, <1>9

\* Steps of others: an event queues the schedule, an edit makes the cache old.
LEMMA OthersAwait ==
    ASSUME AwaitInv,
           \/ Tick \/ TimerFires \/ SyncSchedule \/ SyncBackups \/ Environment \/ Users
           \/ OperatorRestarts \/ UNCHANGED vars
    PROVE  RetentionIsFollowed' /\ NextTickIsAwaited'
<1> USE DEF RetentionIsFollowed, NextTickIsAwaited
<1>1. /\ RetentionIsFollowed /\ NextTickIsAwaited /\ worker \in Call
      /\ seenSchedule \in [obj : Schedule, current : BOOLEAN]
  BY DEF AwaitInv, RecordInv, TypeOK
<1>2. CASE TimerFires \/ SyncSchedule \/ SyncBackups \/ OperatorRestarts
  BY <1>2 DEF TimerFires, SyncSchedule, SyncBackups, OperatorRestarts
<1>3. CASE UserEditsSchedule
  <2>1. ~seenSchedule'.current
    BY <1>1, <1>3 DEF UserEditsSchedule
  <2> QED
    BY <2>1
<1>4. CASE UNCHANGED <<schedule, seenSchedule, queued, wake, worker>>
  BY <1>1, <1>4
<1>5. CASE Tick \/ Environment \/ UNCHANGED vars \/ \E t \in Times : UserDeletesBackup(t)
  BY <1>4, <1>5 DEF Tick, Environment, BackupEnds, GarbageCollects, UserDeletesBackup,
     KeepController, vars
<1> QED
  BY <1>2, <1>3, <1>5 DEF Users

\* The controller never comes to rest without a timer for the next tick, on no path
\* through a call, a failure, an edit or a restart: for every period, retention
\* and bound.
THEOREM NextTickAlwaysAwaited == Spec => []NextTickIsAwaited
<1>1. Init => AwaitInv
  BY InitTypeOK DEF Init, Cached, NoCall, AwaitInv, RecordInv, CacheFollows, CallIsDue,
     RetentionIsFollowed, NextTickIsAwaited
<1>2. AwaitInv /\ [Next]_vars => AwaitInv'
  <2> SUFFICES ASSUME AwaitInv, [Next]_vars PROVE AwaitInv'
    OBVIOUS
  <2>1. RecordInv'
    BY NextRecordInv DEF AwaitInv
  <2>2. CASE CallStarts
    BY <2>2, CallStartsAwaits
  <2>3. CASE ~CallStarts
    BY <2>1, <2>3, CallAwaits, OthersAwait DEF Next, Reconcile, AwaitInv
  <2> QED
    BY <2>2, <2>3
<1>3. AwaitInv => NextTickIsAwaited
  BY DEF AwaitInv
<1> QED
  BY <1>1, <1>2, <1>3, PTL DEF Spec

-----------------------------------------------------------------------------
(* The retention keeps the newest *)

Ended(t) == backups[t].phase \in {"Succeeded", "Deleted", "Retired"}

\* What counts against t: succeeded later, and not deleted by the retention.
Newer(t) ==
    {u \in Times : /\ backups[u].phase \in {"Succeeded", "Deleted"}
                   /\ backups[u].created > backups[t].created}

\* A list may be old, but what had succeeded then has not been undone.
ListIsPast ==
    \A t \in Times :
        seenBackups[t].phase = "Succeeded" =>
            Ended(t) /\ seenBackups[t].created = backups[t].created

\* The running call keeps as many as it should, none older than a victim.
VictimsAreOlder ==
    worker.pc = "delete" =>
        /\ \A t \in worker.victims : Ended(t)
        /\ worker.victims # {} =>
             \E kept \in SUBSET Times :
                 /\ Cardinality(kept) = KeepLast /\ kept \cap worker.victims = {}
                 /\ \A t \in kept : Ended(t)
                 /\ \A t \in kept, u \in worker.victims :
                        backups[t].created >= backups[u].created

\* What an earlier call deleted had enough newer ones too, and still has.
RetiredHaveNewer ==
    NoTies => \A t \in Times : backups[t].phase = "Retired" => Cardinality(Newer(t)) >= KeepLast

RetentionInv == TypeOK /\ ListIsPast /\ VictimsAreOlder /\ RetiredHaveNewer

\* A victim has enough newer ones: those that the call keeps, or, if another call
\* has deleted one of them, those that are newer than that one.
LEMMA VictimHasNewer ==
    ASSUME RetentionInv, NoTies, worker.pc = "delete", NEW t \in worker.victims
    PROVE  Cardinality(Newer(t)) >= KeepLast
<1>1. worker.victims \in SUBSET Times /\ t \in Times /\ backups \in [Times -> Backup]
      /\ KeepLast \in Nat
  BY ConstantsAssumption DEF RetentionInv, TypeOK, Call
<1>2. PICK kept \in SUBSET Times :
          /\ Cardinality(kept) = KeepLast /\ kept \cap worker.victims = {}
          /\ \A u \in kept : Ended(u)
          /\ \A u \in kept, v \in worker.victims : backups[u].created >= backups[v].created
  BY DEF RetentionInv, VictimsAreOlder
<1>3. Ended(t)
  BY DEF RetentionInv, VictimsAreOlder
<1>4. \A u \in Times : backups[u].created \in Nat
  BY <1>1, ConstantsAssumption DEF Backup, Times
<1>5. \A u \in kept : backups[u].created > backups[t].created
  <2> SUFFICES ASSUME NEW u \in kept PROVE backups[u].created > backups[t].created
    OBVIOUS
  <2>1. u # t /\ backups[u].phase # "None" /\ backups[t].phase # "None"
    BY <1>2, <1>3 DEF Ended
  <2>2. backups[u].created # backups[t].created
    BY <1>1, <2>1 DEF NoTies
  <2>3. backups[u].created >= backups[t].created
    BY <1>2
  <2> QED
    BY <1>1, <1>4, <2>2, <2>3
<1>6. CASE \A u \in kept : backups[u].phase # "Retired"
  <2>1. kept \in SUBSET Newer(t) /\ Newer(t) \in SUBSET Times
    BY <1>2, <1>5, <1>6 DEF Newer, Ended
  <2> QED
    BY <1>1, <1>2, <2>1, ClaimedIsFinite, FS_Subset
<1>7. CASE \E u \in kept : backups[u].phase = "Retired"
  <2>1. PICK u \in kept : backups[u].phase = "Retired"
    BY <1>7
  <2>2. Cardinality(Newer(u)) >= KeepLast
    BY <2>1 DEF RetentionInv, RetiredHaveNewer
  <2>3. Newer(u) \in SUBSET Newer(t) /\ Newer(t) \in SUBSET Times
    BY <1>1, <1>4, <1>5 DEF Newer
  <2>4. /\ Cardinality(Newer(u)) <= Cardinality(Newer(t))
        /\ Cardinality(Newer(u)) \in Nat /\ Cardinality(Newer(t)) \in Nat
    BY <2>3, ClaimedIsFinite, FS_Subset
  <2> QED
    BY <1>1, <2>2, <2>4
<1> QED
  BY <1>6, <1>7

\* What a step does to a backup: it is created, it ends, it is deleted by somebody,
\* or by the running call.
LEMMA RetentionSteps ==
    ASSUME TypeOK, [Next]_vars
    PROVE  \/ UNCHANGED backups
           \/ /\ worker.pc = "create" /\ UNCHANGED seenBackups
              /\ \E t \in Times : /\ backups[t].phase = "None" /\ backups'[t].phase = "Running"
                                  /\ \A u \in Times \ {t} : backups'[u] = backups[u]
              /\ worker'.pc = "writeStatus"
           \/ /\ \E t \in Times :
                    /\ backups[t].phase \in {"Running", "Succeeded", "Failed"}
                    /\ \/ backups'[t].phase = "Deleted"
                       \/ /\ backups[t].phase = "Running"
                          /\ backups'[t].phase \in {"Succeeded", "Failed"}
                    /\ backups'[t].created = backups[t].created
                    /\ \A u \in Times \ {t} : backups'[u] = backups[u]
              /\ UNCHANGED <<seenBackups, worker>>
           \/ /\ worker.pc = "delete"
              /\ \E t \in worker.victims :
                    /\ backups'[t].phase = "Retired" /\ backups'[t].created = backups[t].created
                    /\ \A u \in Times \ {t} : backups'[u] = backups[u]
                    /\ worker' = [worker EXCEPT !.victims = @ \ {t}]
              /\ UNCHANGED seenBackups
<1>1. backups \in [Times -> Backup] /\ worker \in Call
  BY DEF TypeOK
<1>2. ASSUME NEW t \in Times, NEW phase, backups' = [backups EXCEPT ![t].phase = phase]
      PROVE  /\ backups'[t].phase = phase /\ backups'[t].created = backups[t].created
             /\ \A u \in Times \ {t} : backups'[u] = backups[u]
  BY <1>1, <1>2 DEF Backup
<1>3. CASE CreatesBackup /\ backups[worker.at].phase = "None"
  <2>1. worker.at \in Times
    BY <1>1 DEF Call
  <2> QED
    BY <1>1, <1>3, <2>1 DEF CreatesBackup, Call
<1>4. CASE DeletesBackup /\ backups' # backups
  <2>1. PICK t \in worker.victims :
          /\ backups' = IF Exists(backups[t])
                        THEN [backups EXCEPT ![t].phase = "Retired"] ELSE backups
          /\ worker' = [worker EXCEPT !.victims = @ \ {t}]
    BY <1>4 DEF DeletesBackup
  <2>2. t \in Times /\ backups' = [backups EXCEPT ![t].phase = "Retired"]
    BY <1>1, <1>4, <2>1 DEF Call
  <2> QED
    BY <1>2, <1>4, <2>1, <2>2 DEF DeletesBackup
<1>5. ASSUME NEW t \in Times, BackupEnds(t) \/ GarbageCollects(t) \/ UserDeletesBackup(t)
      PROVE  /\ backups[t].phase \in {"Running", "Succeeded", "Failed"}
             /\ \/ backups'[t].phase = "Deleted"
                \/ /\ backups[t].phase = "Running"
                   /\ backups'[t].phase \in {"Succeeded", "Failed"}
             /\ backups'[t].created = backups[t].created
             /\ \A u \in Times \ {t} : backups'[u] = backups[u]
             /\ UNCHANGED <<seenBackups, worker>>
  BY <1>2, <1>5 DEF BackupEnds, GarbageCollects, UserDeletesBackup, KeepController, Exists
<1>6. \/ UNCHANGED backups
      \/ CreatesBackup /\ backups[worker.at].phase = "None"
      \/ DeletesBackup /\ backups' # backups
      \/ \E t \in Times : BackupEnds(t) \/ GarbageCollects(t) \/ UserDeletesBackup(t)
  BY DEF Next, Reconcile, Environment, Users, CallStarts, CreatesBackup, WritesStatus, ListsBackups,
     RetentionEnds, Tick, TimerFires, SyncSchedule, SyncBackups, UserEditsSchedule, CallFails,
     OperatorRestarts, vars
<1> QED
  BY <1>3, <1>4, <1>5, <1>6

LEMMA EndedStays ==
    ASSUME TypeOK, [Next]_vars, NEW t \in Times, Ended(t)
    PROVE  Ended(t)' /\ backups'[t].created = backups[t].created
<1>1. worker.victims \in SUBSET Times
  BY DEF TypeOK, Call
<1> QED
  BY <1>1, RetentionSteps DEF Ended

LEMMA NextListIsPast == ASSUME RetentionInv, [Next]_vars PROVE ListIsPast'
<1>1. TypeOK /\ ListIsPast
  BY DEF RetentionInv
<1>2. CASE SyncBackups \/ OperatorRestarts
  BY <1>2 DEF SyncBackups, OperatorRestarts, ListIsPast, Ended
<1>3. CASE UNCHANGED seenBackups
  BY <1>1, <1>3, EndedStays DEF ListIsPast, Ended
<1> QED
  BY <1>2, <1>3 DEF Next, Reconcile, CallStarts, CreatesBackup, WritesStatus, ListsBackups,
     DeletesBackup, RetentionEnds, Tick, TimerFires, SyncSchedule, Environment, BackupEnds,
     GarbageCollects, Users, UserEditsSchedule, UserDeletesBackup, KeepController, CallFails, vars

LEMMA NextVictimsAreOlder == ASSUME RetentionInv, [Next]_vars PROVE VictimsAreOlder'
<1>1. TypeOK /\ ListIsPast /\ VictimsAreOlder /\ worker \in Call
  BY DEF RetentionInv, TypeOK
<1>2. CASE ListsBackups
  <2>1. PICK victims \in SUBSET Candidates :
          /\ victims # {} => Cardinality(Candidates \ victims) = KeepLast
          /\ \A t \in Candidates \ victims, u \in victims :
                seenBackups[t].created >= seenBackups[u].created
          /\ worker' = [worker EXCEPT !.pc = "delete", !.victims = victims]
    BY <1>2 DEF ListsBackups
  <2>2. worker'.victims = victims /\ UNCHANGED backups
    BY <1>1, <1>2, <2>1 DEF ListsBackups, Call
  <2>3. \A t \in Candidates : Ended(t) /\ seenBackups[t].created = backups[t].created
    BY <1>1 DEF Candidates, ListIsPast
  <2>4. Candidates \in SUBSET Times
    BY DEF Candidates
  <2>5. \A t \in worker'.victims : Ended(t)'
    BY <2>1, <2>2, <2>3 DEF Ended
  <2>6. ASSUME worker'.victims # {}
        PROVE  \E kept \in SUBSET Times :
                 /\ Cardinality(kept) = KeepLast /\ kept \cap worker'.victims = {}
                 /\ \A t \in kept : Ended(t)'
                 /\ \A t \in kept, u \in worker'.victims :
                        backups'[t].created >= backups'[u].created
    <3> DEFINE kept == Candidates \ victims
    <3>1. kept \in SUBSET Times /\ Cardinality(kept) = KeepLast /\ kept \cap worker'.victims = {}
      BY <2>1, <2>2, <2>4, <2>6
    <3>2. \A t \in kept : Ended(t)'
      BY <2>2, <2>3 DEF Ended
    <3>3. \A t \in kept, u \in worker'.victims : backups'[t].created >= backups'[u].created
      BY <2>1, <2>2, <2>3
    <3> QED
      BY <3>1, <3>2, <3>3
  <2> QED
    BY <2>5, <2>6 DEF VictimsAreOlder, Ended
<1>3. CASE /\ worker.pc = "delete" /\ worker'.victims \subseteq worker.victims
  <2>1. worker.victims \in SUBSET Times
    BY <1>1 DEF Call
  <2>2. \A t \in worker'.victims : Ended(t)'
    BY <1>1, <1>3, <2>1, EndedStays DEF VictimsAreOlder
  <2>3. ASSUME worker'.victims # {}
        PROVE  \E kept \in SUBSET Times :
                 /\ Cardinality(kept) = KeepLast /\ kept \cap worker'.victims = {}
                 /\ \A t \in kept : Ended(t)'
                 /\ \A t \in kept, u \in worker'.victims :
                        backups'[t].created >= backups'[u].created
    <3>1. PICK kept \in SUBSET Times :
                 /\ Cardinality(kept) = KeepLast /\ kept \cap worker.victims = {}
                 /\ \A t \in kept : Ended(t)
                 /\ \A t \in kept, u \in worker.victims :
                        backups[t].created >= backups[u].created
      BY <1>1, <1>3, <2>3 DEF VictimsAreOlder
    <3>2. \A t \in kept : Ended(t)' /\ backups'[t].created = backups[t].created
      BY <1>1, <3>1, EndedStays
    <3>3. \A u \in worker'.victims : backups'[u].created = backups[u].created
      BY <1>1, <1>3, <2>1, EndedStays DEF VictimsAreOlder
    <3>4. \A t \in kept, u \in worker'.victims : backups'[t].created >= backups'[u].created
      BY <1>3, <3>1, <3>2, <3>3
    <3>5. kept \cap worker'.victims = {}
      BY <1>3, <3>1
    <3> QED
      BY <3>1, <3>2, <3>4, <3>5
  <2> QED
    BY <2>2, <2>3 DEF VictimsAreOlder, Ended
<1>4. CASE worker'.pc # "delete"
  BY <1>4 DEF VictimsAreOlder
<1>5. \/ ListsBackups \/ worker'.pc # "delete"
      \/ worker.pc = "delete" /\ worker'.victims \subseteq worker.victims
  <2>1. CASE DeletesBackup \/ CallFails
    BY <1>1, <2>1 DEF DeletesBackup, CallFails, ReturnsError, ReturnsRequeueAfter, NoCall, Call
  <2>2. CASE CallStarts
    BY <1>1, <2>2 DEF CallStarts, FirstWrite, Call
  <2>3. CASE CreatesBackup \/ WritesStatus
    BY <1>1, <2>3 DEF CreatesBackup, WritesStatus, ReturnsError, ReturnsRequeueAfter, NoCall, Call
  <2>4. CASE RetentionEnds \/ OperatorRestarts
    BY <2>4 DEF RetentionEnds, OperatorRestarts, ReturnsRequeueAfter, NoCall
  <2>5. CASE Users
    BY <1>1, <2>5 DEF Users, UserEditsSchedule, UserDeletesBackup, KeepController, Call
  <2>6. CASE Tick \/ TimerFires \/ SyncSchedule \/ SyncBackups \/ Environment \/ UNCHANGED vars
    BY <2>6 DEF Tick, TimerFires, SyncSchedule, SyncBackups, Environment, BackupEnds,
       GarbageCollects, KeepController, vars
  <2> QED
    BY <2>1, <2>2, <2>3, <2>4, <2>5, <2>6 DEF Next, Reconcile
<1> QED
  BY <1>2, <1>3, <1>4, <1>5

LEMMA NextRetiredHaveNewer == ASSUME RetentionInv, [Next]_vars PROVE RetiredHaveNewer'
<1>1. /\ TypeOK /\ RetiredHaveNewer /\ VictimsAreOlder /\ backups \in [Times -> Backup]
      /\ worker.victims \in SUBSET Times /\ KeepLast \in Nat
  BY ConstantsAssumption DEF RetentionInv, TypeOK, Call
<1>2. \A t \in Times : backups[t].created \in Nat
  BY <1>1, ConstantsAssumption DEF Backup, Times
<1>3. \A t \in Times : backups[t].phase # "None" =>
        backups'[t].phase # "None" /\ backups'[t].created = backups[t].created
  BY <1>1, RetentionSteps
<1>4. NoTies' => NoTies
  BY <1>3 DEF NoTies
<1> SUFFICES ASSUME NoTies, NEW t \in Times, backups'[t].phase = "Retired"
             PROVE  Cardinality(Newer(t)') >= KeepLast
  BY <1>4 DEF RetiredHaveNewer
<1>5. ASSUME NEW u \in Times, Cardinality(Newer(u)) >= KeepLast, Newer(u) \subseteq Newer(t)'
      PROVE  Cardinality(Newer(t)') >= KeepLast
  <2>1. Newer(u) \in SUBSET Newer(t)' /\ Newer(t)' \in SUBSET Times
    BY <1>5 DEF Newer
  <2>2. /\ Cardinality(Newer(u)) <= Cardinality(Newer(t)')
        /\ Cardinality(Newer(u)) \in Nat /\ Cardinality(Newer(t)') \in Nat
    BY <2>1, ClaimedIsFinite, FS_Subset
  <2> QED
    BY <1>1, <1>5, <2>2
<1>6. CASE /\ backups[t].phase = "Retired"
           /\ \A u \in Times : backups[u].phase \in {"Succeeded", "Deleted"} =>
                                 backups'[u].phase \in {"Succeeded", "Deleted"}
  <2>1. Newer(t) \subseteq Newer(t)'
    BY <1>3, <1>6 DEF Newer
  <2>2. Cardinality(Newer(t)) >= KeepLast
    BY <1>1, <1>6 DEF RetiredHaveNewer
  <2> QED
    BY <1>5, <2>1, <2>2
<1>7. ASSUME worker.pc = "delete", NEW v \in worker.victims, backups'[v].phase = "Retired",
             \A u \in Times \ {v} : backups'[u] = backups[u]
      PROVE  Cardinality(Newer(t)') >= KeepLast
  <2>1. Cardinality(Newer(v)) >= KeepLast /\ v \in Times
    BY <1>1, <1>7, VictimHasNewer
  <2>2. Ended(v)
    BY <1>1, <1>7 DEF VictimsAreOlder
  <2>3. backups'[v].created = backups[v].created
    BY <1>3, <2>1, <2>2 DEF Ended
  <2>4. v \notin Newer(v)
    BY <1>2, <2>1 DEF Newer
  <2>5. CASE t = v \/ v \in Newer(t)
    <3>1. backups[t].created <= backups[v].created /\ backups'[t].created = backups[t].created
      BY <1>2, <1>7, <2>1, <2>3, <2>5 DEF Newer
    <3>2. Newer(v) \subseteq Newer(t)'
      <4> SUFFICES ASSUME NEW u \in Newer(v) PROVE u \in Newer(t)'
        OBVIOUS
      <4>1. u \in Times \ {v} /\ backups[u].phase \in {"Succeeded", "Deleted"}
            /\ backups[u].created > backups[v].created
        BY <2>4 DEF Newer
      <4>2. backups[u].created > backups[t].created
        BY <1>2, <2>1, <3>1, <4>1
      <4> QED
        BY <1>7, <3>1, <4>1, <4>2 DEF Newer
    <3> QED
      BY <1>5, <2>1, <3>2
  <2>6. CASE t # v /\ v \notin Newer(t)
    <3>1. Newer(t) \subseteq Newer(t)' /\ backups[t].phase = "Retired"
      BY <1>7, <2>6 DEF Newer
    <3>2. Cardinality(Newer(t)) >= KeepLast
      BY <1>1, <3>1 DEF RetiredHaveNewer
    <3> QED
      BY <1>5, <3>1, <3>2
  <2> QED
    BY <2>5, <2>6
<1> QED
  BY <1>1, <1>6, <1>7, RetentionSteps

\* The retention deletes a backup only when KeepLast newer ones have succeeded and
\* are there or were deleted by somebody else, for every period, retention and
\* number of mishaps.
THEOREM RetentionAlwaysKeepsNewest == Spec => RetentionKeepsNewest
<1> DEFINE Keeps ==
        \A t \in Times :
          backups[t].phase = "Succeeded" /\ backups'[t].phase = "Retired" /\ NoTies =>
              Cardinality({u \in Times : /\ backups[u].phase \in {"Succeeded", "Deleted"}
                                         /\ backups[u].created > backups[t].created})
                  >= KeepLast
<1>1. Init => RetentionInv
  BY InitTypeOK DEF Init, NoBackup, NoCall, RetentionInv, ListIsPast, VictimsAreOlder, RetiredHaveNewer
<1>2. RetentionInv /\ [Next]_vars => RetentionInv'
  BY NextTypeOK, NextListIsPast, NextVictimsAreOlder, NextRetiredHaveNewer DEF RetentionInv
<1>3. RetentionInv /\ [Next]_vars => [Keeps]_vars
  <2> SUFFICES ASSUME RetentionInv, [Next]_vars, NEW t \in Times,
                      backups[t].phase = "Succeeded", backups'[t].phase = "Retired", NoTies
               PROVE  Cardinality(Newer(t)) >= KeepLast
    BY DEF Newer
  <2>1. worker.pc = "delete" /\ t \in worker.victims
    BY RetentionSteps DEF RetentionInv
  <2> QED
    BY <2>1, VictimHasNewer
<1> QED
  BY <1>1, <1>2, <1>3, PTL DEF Spec, RetentionKeepsNewest
=============================================================================
