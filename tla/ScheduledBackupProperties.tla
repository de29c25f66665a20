---------------------- MODULE ScheduledBackupProperties ---------------------
(***************************************************************************)
(* What a schedule is expected to do, stated over ScheduledBackup.         *)
(***************************************************************************)
EXTENDS ScheduledBackup

\* A tick gets one backup.  Only a failed write, a restart, an edit under a
\* running call, or a call that still sees the schedule of before the tick
\* (the event of the backup it created queues it at once) add another one.
OneBackupPerTick ==
    \A tick \in {t \in Times : t % Period = 0} :
        Cardinality({t \in Times : /\ backups[t].phase # "None"
                                   /\ tick <= t /\ t < tick + Period})
            <= 1 + mishaps

\* The backup that status.lastBackupName names was created, at the recorded
\* second or later, whatever failed in between.
RecordedRunsHaveBackups ==
    schedule.last # 0 =>
        /\ backups[schedule.last].phase # "None"
        /\ backups[schedule.last].created >= schedule.last

\* Two backups created in one second have no order: with an old list the
\* retention may delete each of them in favour of the other.
NoTies ==
    \A t, u \in {v \in Times : backups[v].phase # "None"} :
        backups[t].created = backups[u].created => t = u

\* The retention deletes a backup only when KeepLast newer ones have succeeded
\* and are still there, or were deleted by somebody else: although its list
\* may be old, running and failed backups do not count.
RetentionKeepsNewest ==
    [][\A t \in Times :
          backups[t].phase = "Succeeded" /\ backups'[t].phase = "Retired" /\ NoTies =>
              Cardinality({u \in Times : /\ backups[u].phase \in {"Succeeded", "Deleted"}
                                         /\ backups[u].created > backups[t].created})
                  >= KeepLast]_vars

\* The status never takes back a run, nor records a tick twice: each run it
\* records is for a later tick than the one before, although a call decides on
\* a cached schedule and writes the whole status.
TicksAreRecordedOnce ==
    [][schedule'.last # schedule.last =>
          schedule'.last \div Period > schedule.last \div Period]_vars

\* Nothing but the timer brings the next tick.  On no path, whatever failed or
\* was edited, does the controller come to rest without one, and it is set for
\* the first tick that was not taken or earlier.
NextTickIsAwaited ==
    /\ worker.pc = "idle" /\ ~queued /\ seenSchedule.current
    /\ schedule.exists /\ schedule.valid
    => wake <= NextRun(schedule.last)

\* The schedule never falls silent.  Ticks may be left out: a call that comes late
\* makes one backup for all that came due since the recorded run.  But as long as
\* the schedule is there and parses, the last tick before the end of the clock, or
\* a later second, is recorded, through failed calls, restarts, conflicts and a
\* time in which the expression did not parse.  (A call that fails in the very
\* second at which the clock stops finds its name taken for ever.)
ScheduleCatchesUp ==
    <>[](schedule.exists /\ schedule.valid =>
           \/ schedule.last >= (MaxTime \div Period) * Period
           \/ backups[MaxTime].phase # "None")
=============================================================================
