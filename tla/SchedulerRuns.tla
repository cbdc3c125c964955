---------------------------- MODULE SchedulerRuns ----------------------------
(***************************************************************************)
(* The Tier 1 scheduler of one host: the daemon with its two cron jobs and *)
(* its start-up catch-up, the processes an operator or the back end start, *)
(* the file lock that keeps their runs apart and the run history that says *)
(* what is in progress, what failed and what need not be caught up.        *)
(*                                                                         *)
(* A day has Period ticks and one slot, SlotOffset into it; a slot belongs *)
(* to the job of the day.  A tick that is a slot's begins with the slot.   *)
(***************************************************************************)
EXTENDS Integers, Sequences, FiniteSets, FiniteSetsExt

CONSTANTS Period, SlotOffset,
          DailyDays,   \* Monday to Thursday
          WeeklyDays,  \* Friday
          Grace,       \* misfire_grace_time
          StaleAfter,  \* age at which a RUNNING row is taken for abandoned
          Processes,   \* processes of the command line and of the back end
          Outcomes,    \* what the phases of a run may decide
          Faults,      \* whether the run history's database may fail
          MaxTime,     \* bound on the clock
          MaxRuns,     \* bound on the rows of the history
          None

\* Whether the universe was read, the tickers that were collected and calculated,
\* and the phase that failed.
Outcome ==
    [universe : BOOLEAN, tickers : {"all", "some", "none"},
     error : {"none", "observation", "other"}]

ASSUME OutcomesAssumption == Outcomes \subseteq Outcome

ASSUME ClockAssumption ==
    /\ Period \in Nat \ {0} /\ SlotOffset \in 0..(Period - 1)
    /\ DailyDays \subseteq Nat /\ WeeklyDays \subseteq Nat
    /\ DailyDays \cap WeeklyDays = {}
    /\ Grace \in Nat /\ StaleAfter \in Nat /\ MaxTime \in Nat /\ MaxRuns \in Nat
    /\ Faults \in BOOLEAN
    /\ None \notin Int

Jobs == {"daily", "weekly"}

\* The daemon runs a job in a thread of its own, one at a time (max_instances),
\* and the catch-up in its main thread.
DaemonThreads == Jobs \cup {"main"}
Threads       == DaemonThreads \cup Processes

ASSUME ThreadsAssumption ==
    /\ None \notin Threads
    /\ Processes \cap DaemonThreads = {}

VARIABLES now,
          daemon,  \* the daemon process and when its jobs fire next
          thread,  \* what each thread is doing
          lock,    \* the thread that holds runtime/herd-tier1.lock, or None
          rows     \* scheduler_runs

vars == <<now, daemon, thread, lock, rows>>

-----------------------------------------------------------------------------
(* Slots of a job. *)

Days(j) == IF j = "daily" THEN DailyDays ELSE WeeklyDays

Slots(j) == {d * Period + SlotOffset : d \in {e \in Days(j) : e * Period <= MaxTime}}

NextSlot(j, t) == Min({s \in Slots(j) : s > t} \cup {MaxTime + 1})

LastSlot(j, t) == Max({s \in Slots(j) : s <= t})

SucceededSince(j, t) ==
    \E i \in DOMAIN rows :
        rows[i].job = j /\ rows[i].status = "SUCCESS" /\ rows[i].finished >= t

\* Mutant: the catch-up asks for the slot only.
CatchupDueAnyway(j, t) ==
    \E s \in Slots(j) : s \div Period = t \div Period /\ s <= t

\* Mutant: the slot that is now is taken to be still to come.
CatchupDueLater(j, t) ==
    \E s \in Slots(j) : s \div Period = t \div Period /\ s < t /\ ~SucceededSince(j, s)

\* startup_catchup_due for the job of the day: the slot of t's day is past and no
\* run has succeeded since.
CatchupDue(j, t) ==
    \E s \in Slots(j) : s \div Period = t \div Period /\ s <= t /\ ~SucceededSince(j, s)

-----------------------------------------------------------------------------
(* Threads. *)

Idle == [stage |-> "idle"]

Called(j, trigger) == [stage |-> "called", job |-> j, trigger |-> trigger]

Running(t, run) ==
    [stage |-> "running", job |-> thread[t].job, trigger |-> thread[t].trigger, run |-> run]
Returning(t, result) ==
    [stage |-> "returning", job |-> thread[t].job, trigger |-> thread[t].trigger,
     result |-> result]

Busy(t) == thread[t].stage # "idle"

\* Room in the history for the rows of a call: the daemon's call may have a retry.
Room(n) ==
    LET busy(threads) == Cardinality({t \in threads : Busy(t)})
    IN  Len(rows) + 2 * busy(DaemonThreads) + busy(Processes) + n <= MaxRuns

Retryable == {"FAILED", "PARTIAL_FAILURE", "EXCEPTION"}

\* run_with_single_retry in the daemon; other processes call the job once.
AfterCall(t, result) ==
    IF t \in DaemonThreads /\ thread[t].trigger # "AUTOMATIC_RETRY" /\ result \in Retryable
    THEN Called(thread[t].job, "AUTOMATIC_RETRY")
    ELSE Idle

Verdict(j, o) ==
    CASE ~o.universe -> "FAILED"
      [] o.universe /\ o.tickers = "all" /\ o.error = "none" -> "SUCCESS"
      [] o.universe /\ (o.tickers # "all" \/ o.error # "none") ->
            IF o.tickers = "none" \/ (j = "daily" /\ o.error = "observation")
            THEN "FAILED" ELSE "PARTIAL_FAILURE"

-----------------------------------------------------------------------------
(* The run history. *)

Row(j, trigger) ==
    [job |-> j, trigger |-> trigger, status |-> "RUNNING", started |-> now, finished |-> None]

Finished(row, status) == [row EXCEPT !.status = status, !.finished = now]

\* Mutant: every old row is taken for abandoned.
StaleByAge(row, j) == row.job = j /\ row.started < now - StaleAfter

Stale(row, j) ==
    row.job = j /\ row.status = "RUNNING" /\ row.started < now - StaleAfter

\* Mutant: a recovered row gets no time.
RecoveredUntimed(j) ==
    [i \in DOMAIN rows |->
        IF Stale(rows[i], j) THEN [rows[i] EXCEPT !.status = "FAILED"] ELSE rows[i]]

Recovered(j) ==
    [i \in DOMAIN rows |-> IF Stale(rows[i], j) THEN Finished(rows[i], "FAILED") ELSE rows[i]]

\* Whether a transaction of the history commits.
Stored == IF Faults THEN BOOLEAN ELSE {TRUE}

-----------------------------------------------------------------------------
Down == [stage |-> "down"]

Up(stage, started, due) == [stage |-> stage, started |-> started, due |-> due]

NoJobs == [j \in Jobs |-> MaxTime + 1]

Init ==
    /\ now = 0
    /\ daemon = Down
    /\ thread = [t \in Threads |-> Idle]
    /\ lock = None
    /\ rows = <<>>

\* The host may be suspended past a slot, and past its grace.
Tick ==
    /\ now < MaxTime
    /\ now' = now + 1
    /\ UNCHANGED <<daemon, thread, lock, rows>>

\* The daemon's clock is read before the history.
DaemonStart ==
    /\ daemon = Down
    /\ Room(2)
    /\ daemon' = Up("starting", now, NoJobs)
    /\ UNCHANGED <<now, thread, lock, rows>>

\* A history that cannot be read is logged, and the daemon goes on.
Decide(read) ==
    /\ daemon.stage = "starting"
    /\ daemon' = [daemon EXCEPT !.stage = "catching"]
    /\ thread' = [thread EXCEPT !["main"] =
                    IF read /\ \E j \in Jobs : CatchupDue(j, daemon.started)
                    THEN Called(CHOOSE j \in Jobs : CatchupDue(j, daemon.started),
                                "STARTUP_CATCHUP")
                    ELSE Idle]
    /\ UNCHANGED <<now, lock, rows>>

\* scheduler.start computes the fire times.
Serve ==
    /\ daemon.stage = "catching"
    /\ ~Busy("main")
    /\ daemon' = Up("serving", daemon.started, [j \in Jobs |-> NextSlot(j, now)])
    /\ UNCHANGED <<now, thread, lock, rows>>

\* Missed slots are coalesced into the last one, which is dropped when it is too
\* late or when the job's thread is busy.
Fire(j) ==
    /\ daemon.stage = "serving"
    /\ now >= daemon.due[j]
    /\ daemon' = [daemon EXCEPT !.due[j] = NextSlot(j, now)]
    /\ IF now - LastSlot(j, now) <= Grace /\ ~Busy(j)
       THEN /\ Room(2)
            /\ thread' = [thread EXCEPT ![j] = Called(j, "SCHEDULED")]
       ELSE UNCHANGED thread
    /\ UNCHANGED <<now, lock, rows>>

Launch(p, j) ==
    /\ ~Busy(p)
    /\ Room(1)
    /\ thread' = [thread EXCEPT ![p] =
                    Called(j, IF j = "daily" THEN "MANUAL_DAILY" ELSE "MANUAL")]
    /\ UNCHANGED <<now, daemon, lock, rows>>

\* The lock is taken and the run's row stored before anything else is done.  The
\* rows of runs that died are closed in the transaction that opens the new one.
Begin(t, stored) ==
    /\ thread[t].stage = "called"
    /\ lock = None
    /\ lock' = t
    /\ rows' = IF stored
               THEN Append(Recovered(thread[t].job), Row(thread[t].job, thread[t].trigger))
               ELSE rows
    /\ thread' = [thread EXCEPT ![t] = Running(t, IF stored THEN Len(rows) + 1 ELSE None)]
    /\ UNCHANGED <<now, daemon>>

\* Mutant: a call that did not get the lock releases it.
SkipReleasing(t) ==
    /\ thread[t].stage = "called"
    /\ lock # None
    /\ lock' = None
    /\ thread' = [thread EXCEPT ![t] = AfterCall(t, "DUPLICATE_SKIPPED")]
    /\ UNCHANGED <<now, daemon, rows>>

\* DUPLICATE_SKIPPED.
Skip(t) ==
    /\ thread[t].stage = "called"
    /\ lock # None
    /\ thread' = [thread EXCEPT ![t] = AfterCall(t, "DUPLICATE_SKIPPED")]
    /\ UNCHANGED <<now, daemon, lock, rows>>

Conclude(t, outcome, stored) ==
    /\ thread[t].stage = "running"
    /\ LET verdict == Verdict(thread[t].job, outcome)
           run     == thread[t].run
       IN  /\ rows' = IF stored /\ run # None
                      THEN [rows EXCEPT ![run] = Finished(@, verdict)]
                      ELSE rows
           /\ thread' = [thread EXCEPT ![t] = Returning(t, verdict)]
    /\ UNCHANGED <<now, daemon, lock>>

\* An exception that no phase catches: the row stays RUNNING.
Raise(t) ==
    /\ thread[t].stage = "running"
    /\ thread' = [thread EXCEPT ![t] = Returning(t, "EXCEPTION")]
    /\ UNCHANGED <<now, daemon, lock, rows>>

\* Mutant: an exception passes the release.
LeaveUnlessRaised(t) ==
    /\ thread[t].stage = "returning" /\ thread[t].result # "EXCEPTION"
    /\ lock' = None
    /\ thread' = [thread EXCEPT ![t] = AfterCall(t, thread[t].result)]
    /\ UNCHANGED <<now, daemon, rows>>

\* The lock is released on every path, before the retry takes it again.
Leave(t) ==
    /\ thread[t].stage = "returning"
    /\ lock' = None
    /\ thread' = [thread EXCEPT ![t] = AfterCall(t, thread[t].result)]
    /\ UNCHANGED <<now, daemon, rows>>

\* The lock of a process that dies goes with it; its row does not.
Die(threads) ==
    /\ thread' = [t \in Threads |-> IF t \in threads THEN Idle ELSE thread[t]]
    /\ lock' = IF lock \in threads THEN None ELSE lock
    /\ UNCHANGED <<now, rows>>

Crash ==
    /\ daemon # Down
    /\ daemon' = Down
    /\ Die(DaemonThreads)

Kill(p) ==
    /\ Busy(p)
    /\ Die({p})
    /\ UNCHANGED daemon

\* An interrupt: nothing fires any more, and the process ends with its threads.
Stop ==
    /\ daemon.stage = "serving"
    /\ daemon' = [daemon EXCEPT !.stage = "stopping"]
    /\ UNCHANGED <<now, thread, lock, rows>>

Exit ==
    /\ daemon.stage = "stopping"
    /\ \A t \in DaemonThreads : ~Busy(t)
    /\ daemon' = Down
    /\ UNCHANGED <<now, thread, lock, rows>>

Work(t) ==
    \/ \E stored \in Stored : Begin(t, stored)
    \/ Skip(t)
    \/ \E outcome \in Outcomes, stored \in Stored : Conclude(t, outcome, stored)
    \/ Raise(t)
    \/ Leave(t)

Next ==
    \/ Tick
    \/ DaemonStart
    \/ \E read \in Stored : Decide(read)
    \/ Serve
    \/ \E j \in Jobs : Fire(j)
    \/ \E p \in Processes, j \in Jobs : Launch(p, j)
    \/ \E t \in Threads : Work(t)
    \/ Crash
    \/ \E p \in Processes : Kill(p)
    \/ Stop
    \/ Exit

Spec == Init /\ [][Next]_vars

\* A thread that has something to do does it: the collectors' calls return or are
\* killed with their process.
FairSpec == Spec /\ \A t \in Threads : WF_vars(Work(t))

-----------------------------------------------------------------------------
Statuses == {"RUNNING", "SUCCESS", "PARTIAL_FAILURE", "FAILED"}
Triggers == {"SCHEDULED", "AUTOMATIC_RETRY", "STARTUP_CATCHUP", "MANUAL", "MANUAL_DAILY"}

\* A row is RUNNING or has the time of its verdict; a thread's run is a row.
TypeOK ==
    /\ now \in 0..MaxTime
    /\ daemon.stage \in {"down", "starting", "catching", "serving", "stopping"}
    /\ lock \in Threads \cup {None}
    /\ \A i \in DOMAIN rows :
         /\ rows[i].job \in Jobs /\ rows[i].trigger \in Triggers
         /\ rows[i].status \in Statuses /\ rows[i].started \in 0..now
         /\ rows[i].finished \in IF rows[i].status = "RUNNING" THEN {None}
                                  ELSE rows[i].started..now
    /\ \A t \in Threads :
         thread[t].stage = "running" => thread[t].run \in DOMAIN rows \cup {None}

Working(t) == thread[t].stage \in {"running", "returning"}

\* The run in progress is the only one, and its row is RUNNING however long it has
\* taken: SchedulerRunRecorder.start closes rows by their age alone, and nothing
\* but the lock keeps the row of a slow run from being closed under it.
LiveRunOpen ==
    \A t \in Threads : Working(t) =>
        /\ \A u \in Threads : Working(u) => u = t
        /\ thread[t].stage = "running" /\ thread[t].run # None
           => /\ rows[thread[t].run].status = "RUNNING"
              /\ rows[thread[t].run].job = thread[t].job

\* A verdict is final: no later run, retry or recovery rewrites the row of a run
\* that has one, and no row is taken out.
VerdictsAreFinal ==
    [][\A i \in DOMAIN rows :
         /\ i \in DOMAIN rows'
         /\ rows[i].status # "RUNNING" => rows'[i] = rows[i]]_vars

\* The catch-up of a restart repeats nothing the daemon has done, and the job it
\* has caught up is not fired again for the same slot: the one decides by the
\* clock at its start, the other by the clock when it starts to serve.
OfDaemon(row) == row.trigger \in {"SCHEDULED", "AUTOMATIC_RETRY", "STARTUP_CATCHUP"}

CatchupRepeatsNothing ==
    \A i, k \in DOMAIN rows :
        /\ i # k /\ rows[i].job = rows[k].job
        /\ rows[i].trigger = "STARTUP_CATCHUP" /\ OfDaemon(rows[k])
        /\ rows[i].status = "SUCCESS" /\ rows[k].status = "SUCCESS"
        => LastSlot(rows[i].job, rows[i].started) # LastSlot(rows[k].job, rows[k].started)

\* Every call returns: the lock is never waited for, and a failure is retried once.
CallsReturn == \A t \in Threads : Busy(t) ~> ~Busy(t)

\* startup_catchup_due's promise: a daemon that serves has either found a success of
\* today's slot that was past when it started, or has made a run for it since, however
\* often it was stopped, killed or suspended before.
SlotsCovered ==
    daemon.stage = "serving" =>
        \A j \in Jobs : \A s \in Slots(j) :
            s \div Period = now \div Period /\ s <= daemon.started
            => \/ SucceededSince(j, s)
               \/ \E i \in DOMAIN rows : rows[i].job = j /\ rows[i].started >= daemon.started

=============================================================================
