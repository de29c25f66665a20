-------------------------- MODULE ScheduledBackup --------------------------
(***************************************************************************)
(* The controller of RqliteScheduledBackup: one schedule, the RqliteBackups *)
(* it creates at its ticks and the retention that deletes the oldest.      *)
(*                                                                         *)
(* The clock counts seconds from the creation of the schedule, and the     *)
(* schedule has a tick at every multiple of Period.  The name of a backup  *)
(* is the second at which Reconcile read the clock.                        *)
(***************************************************************************)
EXTENDS Integers, FiniteSets

CONSTANTS
    Period,        \* seconds from one tick to the next
    KeepLast,      \* spec.retention.keepLast, 0: no retention
    UserOps,       \* the kinds of changes users make
    MaxTime,       \* bound: where the clock stops
    MaxMishaps     \* bound: changes made by users, failed API calls and backups,
                   \* restarts, calls that decide on an old schedule, together

VARIABLES
    now,           \* the clock
    schedule,      \* the RqliteScheduledBackup
    backups,       \* the RqliteBackups it owns, by the second in the name
    seenSchedule, seenBackups,  \* the informer caches
    queued, wake,  \* the work queue: waiting now, and the time of RequeueAfter
    worker,        \* the running call
    mishaps        \* how many there were

vars == <<now, schedule, backups, seenSchedule, seenBackups, queued, wake, worker, mishaps>>

ASSUME ConstantsAssumption ==
    /\ Period \in Nat \ {0} /\ KeepLast \in Nat /\ MaxTime \in Nat
    /\ MaxMishaps \in Nat

Times == 0..MaxTime
Never == MaxTime + Period + 1

-----------------------------------------------------------------------------
(* Objects *)

\* valid: the cron expression parses; last: status.lastScheduledTime, 0 while
\* there is none.  status.lastBackupName holds the same second.
Schedule == [exists : BOOLEAN, valid : BOOLEAN, last : Times]

\* Deleted by a user or with the schedule, Retired by the retention.
BackupPhase == {"None", "Running", "Succeeded", "Failed", "Deleted", "Retired"}

Backup == [phase : BackupPhase, created : Times]

NoBackup == [phase |-> "None", created |-> 0]

Exists(backup) == backup.phase \in {"Running", "Succeeded", "Failed"}

Cached(o) == [obj |-> o, current |-> TRUE]

\* at: the time the call read; fresh: the schedule has not changed since it was
\* read; victims: what the retention still has to delete.
Call == [pc : {"idle", "create", "writeStatus", "list", "delete"}, at : Times,
         fresh : BOOLEAN, victims : SUBSET Times]

NoCall == [pc |-> "idle", at |-> 0, fresh |-> FALSE, victims |-> {}]

\* Every object, cache and call holds a value of its kind, and the timer is set
\* to a tick.
TypeOK ==
    /\ now \in Times
    /\ schedule \in Schedule
    /\ seenSchedule \in [obj : Schedule, current : BOOLEAN]
    /\ backups \in [Times -> Backup] /\ seenBackups \in [Times -> Backup]
    /\ queued \in BOOLEAN
    /\ wake \in {Never} \cup {t \in 1..Never : t % Period = 0}
    /\ worker \in Call
    /\ mishaps \in 0..MaxMishaps

Init ==
    /\ now = 0
    /\ schedule \in [exists : {TRUE}, valid : BOOLEAN, last : {0}]
    /\ backups = [t \in Times |-> NoBackup]
    /\ seenSchedule = Cached(schedule) /\ seenBackups = backups
    /\ queued = TRUE /\ wake = Never
    /\ worker = NoCall
    /\ mishaps = 0

-----------------------------------------------------------------------------
(* Reconcile *)

Mishap == mishaps < MaxMishaps /\ mishaps' = mishaps + 1

\* Mutant: an interval in place of a schedule.
NextRun_Interval(t) == t + Period

\* Mutant: the first tick at t or after.
NextRun_NotAfter(t) == ((t + Period - 1) \div Period) * Period

\* schedule.Next: the first tick after t.
NextRun(t) == (t \div Period + 1) * Period

\* The queue keeps the earliest timer of a request.
WakeBy(t) == IF t < wake THEN t ELSE wake

\* Mutant: the timer is not set.
WaitsUntil_Event(t) == UNCHANGED wake

\* RequeueAfter of a run that is not due.
WaitsUntil(t) == wake' = WakeBy(t)

\* An error queues the request again.
ReturnsError ==
    /\ worker' = NoCall /\ queued' = TRUE
    /\ UNCHANGED wake

ReturnsRequeueAfter(t) ==
    /\ worker' = NoCall
    /\ wake' = WakeBy(t)
    /\ UNCHANGED queued

\* Mutant: the status is written before the backup is created.
FirstWrite_Status == "writeStatus"

FirstWrite == "create"

\* Reconcile up to its first write.  An expression that does not parse is
\* left until the next event.
CallStarts ==
    /\ worker.pc = "idle" /\ queued
    /\ queued' = FALSE
    /\ LET read == seenSchedule.obj
       IN  IF ~read.exists \/ ~read.valid
           THEN UNCHANGED <<wake, worker, mishaps>>
           ELSE IF now < NextRun(read.last)
           THEN WaitsUntil(NextRun(read.last)) /\ UNCHANGED <<worker, mishaps>>
           ELSE /\ worker' = [pc |-> FirstWrite, at |-> now, fresh |-> seenSchedule.current,
                              victims |-> {}]
                /\ IF seenSchedule.current THEN UNCHANGED mishaps ELSE Mishap
                /\ UNCHANGED wake
    /\ UNCHANGED <<now, schedule, backups, seenSchedule, seenBackups>>

\* Bound: a name is not used again in the second in which its backup is gone.
CreatesBackup ==
    /\ worker.pc = "create"
    /\ IF backups[worker.at].phase # "None"
       THEN ReturnsError /\ UNCHANGED backups
       ELSE /\ backups' = [backups EXCEPT ![worker.at] =
                             [phase |-> "Running", created |-> now]]
            /\ worker' = [worker EXCEPT !.pc = "writeStatus"]
            /\ UNCHANGED <<queued, wake>>
    /\ UNCHANGED <<now, schedule, seenSchedule, seenBackups, mishaps>>

\* The retention comes after the status, in the same call.
WritesStatus ==
    /\ worker.pc = "writeStatus"
    /\ IF ~worker.fresh
       THEN ReturnsError /\ UNCHANGED <<schedule, seenSchedule>>
       ELSE /\ schedule' = [schedule EXCEPT !.last = worker.at]
            /\ seenSchedule' = [seenSchedule EXCEPT !.current = FALSE]
            /\ IF KeepLast > 0
               THEN worker' = [worker EXCEPT !.pc = "list"] /\ UNCHANGED <<queued, wake>>
               ELSE ReturnsRequeueAfter(NextRun(worker.at))
    /\ UNCHANGED <<now, backups, seenBackups, mishaps>>

\* Mutant: failed and running backups count as kept.
Candidates_Any == {t \in Times : Exists(seenBackups[t])}

\* Owned backups in the cache that succeeded.
Candidates == {t \in Times : seenBackups[t].phase = "Succeeded"}

\* applyRetentionPolicy: keeps the first KeepLast of the sorted list; backups
\* of the same second are sorted in any order.
ListsBackups ==
    /\ worker.pc = "list"
    /\ \E victims \in SUBSET Candidates :
          /\ victims = {} => Cardinality(Candidates) <= KeepLast
          /\ victims # {} => Cardinality(Candidates \ victims) = KeepLast
          /\ \A t \in Candidates \ victims, u \in victims :
                seenBackups[t].created >= seenBackups[u].created
          /\ worker' = [worker EXCEPT !.pc = "delete", !.victims = victims]
    /\ UNCHANGED <<now, schedule, backups, seenSchedule, seenBackups, queued, wake, mishaps>>

\* One backup of the list; it may be gone already.
DeletesBackup ==
    /\ worker.pc = "delete"
    /\ \E t \in worker.victims :
          /\ backups' = IF Exists(backups[t])
                        THEN [backups EXCEPT ![t].phase = "Retired"] ELSE backups
          /\ worker' = [worker EXCEPT !.victims = @ \ {t}]
    /\ UNCHANGED <<now, schedule, seenSchedule, seenBackups, queued, wake, mishaps>>

RetentionEnds ==
    /\ worker.pc = "delete" /\ worker.victims = {}
    /\ ReturnsRequeueAfter(NextRun(worker.at))
    /\ UNCHANGED <<now, schedule, backups, seenSchedule, seenBackups, mishaps>>

Reconcile == \/ CallStarts \/ CreatesBackup \/ WritesStatus
             \/ ListsBackups \/ DeletesBackup \/ RetentionEnds

-----------------------------------------------------------------------------
(* The clock, the timer and the informers.  Events of the schedule and of  *)
(* the backups it owns queue the schedule.                                 *)

Tick ==
    /\ now < MaxTime
    /\ now' = now + 1
    /\ UNCHANGED <<schedule, backups, seenSchedule, seenBackups, queued, wake, worker, mishaps>>

TimerFires ==
    /\ now >= wake
    /\ queued' = TRUE /\ wake' = Never
    /\ UNCHANGED <<now, schedule, backups, seenSchedule, seenBackups, worker, mishaps>>

SyncSchedule ==
    /\ ~seenSchedule.current
    /\ seenSchedule' = Cached(schedule)
    /\ queued' = TRUE
    /\ UNCHANGED <<now, schedule, backups, seenBackups, wake, worker, mishaps>>

SyncBackups ==
    /\ seenBackups # backups
    /\ seenBackups' = backups
    /\ queued' = TRUE
    /\ UNCHANGED <<now, schedule, backups, seenSchedule, wake, worker, mishaps>>

-----------------------------------------------------------------------------
(* The RqliteBackup controller decides each backup (module BackupRestore), *)
(* and what a schedule leaves behind is collected.                         *)

KeepController == UNCHANGED <<now, schedule, seenSchedule, seenBackups, queued, wake, worker>>

\* Bound: not in the second it was created.
BackupEnds(t) ==
    /\ backups[t].phase = "Running" /\ backups[t].created < now
    /\ \/ backups' = [backups EXCEPT ![t].phase = "Succeeded"] /\ UNCHANGED mishaps
       \/ backups' = [backups EXCEPT ![t].phase = "Failed"] /\ Mishap
    /\ KeepController

GarbageCollects(t) ==
    /\ ~schedule.exists /\ Exists(backups[t])
    /\ backups' = [backups EXCEPT ![t].phase = "Deleted"]
    /\ KeepController /\ UNCHANGED mishaps

-----------------------------------------------------------------------------
(* Users, failures and restarts *)

Edit(op) ==
    op \in UserOps /\ Mishap

UserDeletesBackup(t) ==
    /\ Edit("deleteBackup") /\ Exists(backups[t])
    /\ backups' = [backups EXCEPT ![t].phase = "Deleted"]
    /\ KeepController

\* A change of the schedule to or from one that does not parse, or its end.
UserEditsSchedule ==
    /\ schedule.exists
    /\ \/ Edit("schedule") /\ schedule' = [schedule EXCEPT !.valid = ~@]
       \/ Edit("delete") /\ schedule' = [schedule EXCEPT !.exists = FALSE]
    /\ seenSchedule' = [seenSchedule EXCEPT !.current = FALSE]
    /\ worker' = [worker EXCEPT !.fresh = FALSE]
    /\ UNCHANGED <<now, backups, seenBackups, queued, wake>>

Users == UserEditsSchedule \/ \E t \in Times : UserDeletesBackup(t)

\* A failed write returns the error; a failed list or delete is only logged.
CallFails ==
    /\ Mishap
    /\ \/ worker.pc \in {"create", "writeStatus"} /\ ReturnsError
       \/ worker.pc = "list" /\ ReturnsRequeueAfter(NextRun(worker.at))
       \/ /\ worker.pc = "delete"
          /\ \E t \in worker.victims : worker' = [worker EXCEPT !.victims = @ \ {t}]
          /\ UNCHANGED <<queued, wake>>
    /\ UNCHANGED <<now, schedule, backups, seenSchedule, seenBackups>>

OperatorRestarts ==
    /\ Mishap
    /\ seenSchedule' = Cached(schedule) /\ seenBackups' = backups
    /\ queued' = TRUE /\ wake' = Never
    /\ worker' = NoCall
    /\ UNCHANGED <<now, schedule, backups>>

-----------------------------------------------------------------------------

Environment == \E t \in Times : BackupEnds(t) \/ GarbageCollects(t)

Next == \/ Reconcile \/ Tick \/ TimerFires \/ SyncSchedule \/ SyncBackups
        \/ Environment \/ Users \/ CallFails \/ OperatorRestarts

Spec == Init /\ [][Next]_vars

\* The clock, the timer, the worker and the informers go on.
FairSpec == /\ Spec
            /\ WF_vars(Tick) /\ WF_vars(TimerFires) /\ WF_vars(Reconcile)
            /\ WF_vars(SyncSchedule) /\ WF_vars(SyncBackups)
=============================================================================
