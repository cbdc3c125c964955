------------------------- MODULE SchedulerRunsProofs ------------------------
(***************************************************************************)
(* What holds of SchedulerRuns for any days, slots, processes, outcomes    *)
(* and faults: the lock is what keeps the rows of the run history from     *)
(* being rewritten.                                                        *)
(***************************************************************************)
EXTENDS SchedulerRuns, WellFoundedInduction, TLAPS

RunRow == [job : Jobs, trigger : Triggers, status : Statuses,
           started : Nat, finished : Nat \cup {None}]

\* The rows are rows, with the time of their verdict.
RowsKept ==
    /\ now \in 0..MaxTime
    /\ rows \in Seq(RunRow)
    /\ \A i \in DOMAIN rows :
         /\ rows[i].started \in 0..now
         /\ rows[i].finished \in IF rows[i].status = "RUNNING" THEN {None}
                                  ELSE rows[i].started..now

\* A thread that is in a call knows its job.
CallsKept ==
    /\ DOMAIN thread = Threads
    /\ lock \in Threads \cup {None}
    /\ \A t \in Threads :
         Busy(t) => thread[t].job \in Jobs /\ thread[t].trigger \in Triggers

DaemonKept ==
    /\ "stage" \in DOMAIN daemon
    /\ daemon.stage \in {"down", "starting", "catching", "serving", "stopping"}

\* A run in progress has the lock, and its row is open.
LockHeld == \A t \in Threads : Working(t) => lock = t

RunsOpen ==
    \A t \in Threads : thread[t].stage = "running" /\ thread[t].run # None
        => /\ thread[t].run \in DOMAIN rows
           /\ rows[thread[t].run].status = "RUNNING"
           /\ rows[thread[t].run].job = thread[t].job

IInv == RowsKept /\ CallsKept /\ DaemonKept /\ LockHeld /\ RunsOpen

-----------------------------------------------------------------------------
(* The operators. *)

\* Closing the rows of dead runs keeps the rows of the history and their order.
LEMMA RecoveredRows ==
    ASSUME RowsKept, NEW j \in Jobs
    PROVE  /\ Recovered(j) \in Seq(RunRow)
           /\ Len(Recovered(j)) = Len(rows)
           /\ \A i \in 1..Len(rows) :
                Recovered(j)[i] = IF Stale(rows[i], j) THEN Finished(rows[i], "FAILED")
                                  ELSE rows[i]
<1>1. DOMAIN rows = 1..Len(rows) /\ Len(rows) \in Nat
  BY DEF RowsKept
<1>2. ASSUME NEW i \in 1..Len(rows)
      PROVE  rows[i] \in RunRow /\ Finished(rows[i], "FAILED") \in RunRow
  <2>1. rows[i] \in RunRow
    BY <1>1 DEF RowsKept
  <2>2. now \in Nat
    BY DEF RowsKept
  <2> QED BY <2>1, <2>2 DEF Finished, RunRow, Statuses
<1>3. Recovered(j) = [i \in 1..Len(rows) |->
                        IF Stale(rows[i], j) THEN Finished(rows[i], "FAILED") ELSE rows[i]]
  BY <1>1 DEF Recovered
<1>4. Recovered(j) \in [1..Len(rows) -> RunRow]
  BY <1>2, <1>3
<1> QED BY <1>1, <1>3, <1>4

\* Every combination of phases has a verdict.
LEMMA VerdictStatus ==
    ASSUME NEW j, NEW o \in Outcomes
    PROVE  Verdict(j, o) \in {"SUCCESS", "PARTIAL_FAILURE", "FAILED"}
<1>1. o \in Outcome
  BY OutcomesAssumption
<1> QED BY <1>1 DEF Verdict, Outcome

\* A call that ends is followed by its one retry or by nothing.
LEMMA AfterCallKept ==
    ASSUME CallsKept, NEW t \in Threads, Busy(t), NEW result
    PROVE  \/ AfterCall(t, result) = Idle
           \/ AfterCall(t, result) = Called(thread[t].job, "AUTOMATIC_RETRY")
BY DEF AfterCall

-----------------------------------------------------------------------------
(* The steps. *)

\* No row is taken out, and a row with a verdict stays as it is.
FinalStep ==
    \A i \in DOMAIN rows :
        /\ i \in DOMAIN rows'
        /\ rows[i].status # "RUNNING" => rows'[i] = rows[i]

\* Threads that are told to do something, or nothing any more, while the rows are
\* left alone: no run starts, and the lock leaves only those threads.
Reassigned(assigned) ==
    /\ rows' = rows /\ now' = now
    /\ DOMAIN thread' = Threads
    /\ \A t \in Threads \ assigned : thread'[t] = thread[t]
    /\ \A t \in assigned :
         \/ thread'[t] = Idle
         \/ \E j \in Jobs, trigger \in Triggers : thread'[t] = Called(j, trigger)
    /\ lock' = lock \/ (lock' = None /\ lock \in assigned \cup {None})

\* Such a step changes no run in progress but those of the threads it reassigns.
LEMMA ReassignedKeeps ==
    ASSUME IInv, NEW assigned \in SUBSET Threads, Reassigned(assigned), DaemonKept'
    PROVE  IInv' /\ FinalStep
<1>1. RowsKept' /\ FinalStep
  BY DEF IInv, RowsKept, Reassigned, FinalStep
<1>2. ASSUME NEW t \in Threads
      PROVE  \/ t \notin assigned /\ thread'[t] = thread[t]
             \/ ~Working(t)' /\ ~Busy(t)'
             \/ ~Working(t)' /\ thread'[t].job \in Jobs /\ thread'[t].trigger \in Triggers
  <2>1. CASE t \notin assigned
    BY <2>1 DEF Reassigned
  <2>2. CASE thread'[t] = Idle
    BY <2>2 DEF Working, Busy, Idle
  <2>3. ASSUME NEW j \in Jobs, NEW trigger \in Triggers, thread'[t] = Called(j, trigger)
        PROVE  ~Working(t)' /\ thread'[t].job \in Jobs /\ thread'[t].trigger \in Triggers
    BY <2>3 DEF Working, Called
  <2> QED BY <2>1, <2>2, <2>3 DEF Reassigned
<1>3. CallsKept'
  <2>1. lock' \in Threads \cup {None}
    BY DEF IInv, CallsKept, Reassigned
  <2>2. ASSUME NEW t \in Threads, Busy(t)'
        PROVE  thread'[t].job \in Jobs /\ thread'[t].trigger \in Triggers
    BY <1>2, <2>2 DEF IInv, CallsKept, Busy
  <2> QED BY <2>1, <2>2 DEF CallsKept, Reassigned
<1>4. LockHeld'
  <2> SUFFICES ASSUME NEW t \in Threads, Working(t)' PROVE lock' = t
    BY DEF LockHeld
  <2>1. t \notin assigned /\ Working(t)
    BY <1>2 DEF Working
  <2>2. lock = t /\ t # None
    BY <2>1, ThreadsAssumption DEF IInv, LockHeld
  <2> QED BY <2>1, <2>2 DEF Reassigned
<1>5. RunsOpen'
  BY <1>2 DEF IInv, RunsOpen, Reassigned, Working
<1> QED BY <1>1, <1>3, <1>4, <1>5 DEF IInv

\* The steps of the daemon and of the processes, and the ends of calls.
LEMMA DaemonStepsReassign ==
    ASSUME IInv,
           \/ DaemonStart \/ (\E read \in Stored : Decide(read)) \/ Serve
           \/ (\E j \in Jobs : Fire(j)) \/ Crash \/ Stop \/ Exit
    PROVE  (\E assigned \in SUBSET Threads : Reassigned(assigned)) /\ DaemonKept'
<1>1. DOMAIN thread = Threads /\ "main" \in Threads /\ Jobs \subseteq Threads
  BY DEF IInv, CallsKept, Threads, DaemonThreads
<1>2. CASE DaemonStart \/ Serve \/ Stop \/ Exit
  <2>1. Reassigned({})
    BY <1>1, <1>2 DEF DaemonStart, Serve, Stop, Exit, Reassigned
  <2>2. DaemonKept'
    BY <1>2 DEF IInv, DaemonKept, DaemonStart, Serve, Stop, Exit, Up, Down
  <2> QED BY <2>1, <2>2
<1>3. ASSUME NEW read \in Stored, Decide(read)
      PROVE  Reassigned({"main"}) /\ DaemonKept'
  <2> DEFINE due == \E j \in Jobs : CatchupDue(j, daemon.started)
             j   == CHOOSE i \in Jobs : CatchupDue(i, daemon.started)
  <2>1. thread'["main"] = Idle
          \/ (j \in Jobs /\ thread'["main"] = Called(j, "STARTUP_CATCHUP"))
    BY <1>1, <1>3 DEF Decide
  <2>2. Reassigned({"main"})
    BY <1>1, <1>3, <2>1 DEF Decide, Reassigned, Triggers
  <2> QED BY <1>3, <2>2 DEF Decide, IInv, DaemonKept
<1>4. ASSUME NEW j \in Jobs, Fire(j)
      PROVE  (\E assigned \in SUBSET Threads : Reassigned(assigned)) /\ DaemonKept'
  <2>1. \/ thread' = [thread EXCEPT ![j] = Called(j, "SCHEDULED")]
        \/ thread' = thread
    BY <1>4, Zenon DEF Fire
  <2>2. UNCHANGED <<now, lock, rows>>
    BY <1>4 DEF Fire
  <2>3. ASSUME thread' = [thread EXCEPT ![j] = Called(j, "SCHEDULED")]
        PROVE  \E assigned \in SUBSET Threads : Reassigned(assigned)
    <3>1. Reassigned({j})
      BY <1>1, <2>2, <2>3 DEF Reassigned, Triggers
    <3> QED BY <1>1, <3>1
  <2>4. ASSUME thread' = thread
        PROVE  \E assigned \in SUBSET Threads : Reassigned(assigned)
    <3>1. Reassigned({})
      BY <1>1, <2>2, <2>4 DEF Reassigned
    <3> QED BY <3>1
  <2>5. daemon' = [daemon EXCEPT !.due = [daemon.due EXCEPT ![j] = NextSlot(j, now)]]
    BY <1>4, Zenon DEF Fire
  <2>6. DaemonKept'
    BY <2>5 DEF IInv, DaemonKept
  <2> QED BY <2>1, <2>3, <2>4, <2>6
<1>5. CASE Crash
  <2>1. Reassigned(DaemonThreads)
    BY <1>5, <1>1 DEF Crash, Die, Reassigned, Threads
  <2>2. DaemonKept'
    BY <1>5 DEF Crash, Down, DaemonKept
  <2> QED BY <2>1, <2>2 DEF Threads
<1> QED BY <1>1, <1>2, <1>3, <1>4, <1>5

\* The steps of the processes, and the steps that end a call or pass the lock by.
LEMMA CallStepsReassign ==
    ASSUME IInv,
           \/ \E p \in Processes, j \in Jobs : Launch(p, j)
           \/ \E p \in Processes : Kill(p)
           \/ \E t \in Threads : Skip(t) \/ Leave(t)
    PROVE  (\E assigned \in SUBSET Threads : Reassigned(assigned)) /\ DaemonKept'
<1>1. DOMAIN thread = Threads /\ Processes \subseteq Threads
  BY DEF IInv, CallsKept, Threads
<1>2. ASSUME NEW p \in Processes, NEW j \in Jobs, Launch(p, j)
      PROVE  Reassigned({p}) /\ DaemonKept'
  <2>1. \E trigger \in Triggers : thread' = [thread EXCEPT ![p] = Called(j, trigger)]
    BY <1>2 DEF Launch, Triggers
  <2> QED BY <1>1, <1>2, <2>1 DEF Launch, Reassigned, IInv, DaemonKept
<1>3. ASSUME NEW p \in Processes, Kill(p)
      PROVE  Reassigned({p}) /\ DaemonKept'
  BY <1>1, <1>3 DEF Kill, Die, Reassigned, IInv, DaemonKept
<1>4. ASSUME NEW t \in Threads, NEW result, Busy(t),
             thread' = [thread EXCEPT ![t] = AfterCall(t, result)],
             lock' = lock \/ (lock' = None /\ lock = t),
             UNCHANGED <<now, daemon, rows>>
      PROVE  Reassigned({t}) /\ DaemonKept'
  <2>1. thread'[t] = Idle \/ thread'[t] = Called(thread[t].job, "AUTOMATIC_RETRY")
    BY <1>1, <1>4, AfterCallKept DEF IInv
  <2>2. thread[t].job \in Jobs /\ "AUTOMATIC_RETRY" \in Triggers
    BY <1>4 DEF IInv, CallsKept, Triggers
  <2> QED BY <1>1, <1>4, <2>1, <2>2 DEF Reassigned, IInv, DaemonKept
<1>5. ASSUME NEW t \in Threads, Skip(t)
      PROVE  Reassigned({t}) /\ DaemonKept'
  BY <1>4, <1>5 DEF Skip, Busy
<1>6. ASSUME NEW t \in Threads, Leave(t)
      PROVE  Reassigned({t}) /\ DaemonKept'
  <2>1. Busy(t) /\ lock = t
    BY <1>6 DEF Leave, Busy, Working, IInv, LockHeld
  <2> QED BY <1>4, <1>6, <2>1 DEF Leave
<1> QED BY <1>1, <1>2, <1>3, <1>5, <1>6

\* The rows when a run begins: those of dead runs are closed, and its own is added.
LEMMA BegunRows ==
    ASSUME IInv, NEW t \in Threads, Begin(t, TRUE)
    PROVE  /\ rows' \in Seq(RunRow) /\ DOMAIN rows = 1..Len(rows) /\ Len(rows) \in Nat
           /\ DOMAIN rows' = 1..(Len(rows) + 1)
           /\ rows'[Len(rows) + 1] = Row(thread[t].job, thread[t].trigger)
           /\ \A i \in 1..Len(rows) :
                \/ rows'[i] = rows[i]
                \/ /\ rows[i].status = "RUNNING"
                   /\ rows'[i].status = "FAILED" /\ rows'[i].finished = now
                   /\ rows'[i].started = rows[i].started /\ rows'[i].job = rows[i].job
                   /\ rows'[i].trigger = rows[i].trigger
<1> DEFINE j   == thread[t].job
           row == Row(j, thread[t].trigger)
<1>1. j \in Jobs /\ thread[t].trigger \in Triggers
  BY DEF Begin, IInv, CallsKept, Busy
<1>2. rows' = Append(Recovered(j), row)
  BY DEF Begin
<1>3. /\ Recovered(j) \in Seq(RunRow) /\ Len(Recovered(j)) = Len(rows)
      /\ \A i \in 1..Len(rows) :
           Recovered(j)[i] = IF Stale(rows[i], j) THEN Finished(rows[i], "FAILED")
                             ELSE rows[i]
  BY <1>1, RecoveredRows DEF IInv
<1>4. Len(rows) \in Nat /\ DOMAIN rows = 1..Len(rows) /\ now \in Nat
  BY DEF IInv, RowsKept
<1>5. row \in RunRow
  BY <1>1, <1>4 DEF Row, RunRow, Statuses
<1>6. /\ rows' \in Seq(RunRow) /\ DOMAIN rows' = 1..(Len(rows) + 1)
      /\ rows'[Len(rows) + 1] = row
      /\ \A i \in 1..Len(rows) : rows'[i] = Recovered(j)[i]
  BY <1>2, <1>3, <1>4, <1>5
<1>7. ASSUME NEW i \in 1..Len(rows), Stale(rows[i], j)
      PROVE  /\ rows[i].status = "RUNNING"
             /\ rows'[i].status = "FAILED" /\ rows'[i].finished = now
             /\ rows'[i].started = rows[i].started /\ rows'[i].job = rows[i].job
             /\ rows'[i].trigger = rows[i].trigger
  <2>1. rows'[i] = Finished(rows[i], "FAILED") /\ rows[i] \in RunRow
    BY <1>3, <1>4, <1>6, <1>7 DEF IInv, RowsKept
  <2> QED BY <1>7, <2>1 DEF Stale, Finished, RunRow
<1> QED BY <1>3, <1>4, <1>6, <1>7

\* The lock is free when a run begins: nobody is working, so that no row it
\* closes is of a run in progress.
LEMMA BeginKeeps ==
    ASSUME IInv, NEW t \in Threads, NEW stored \in BOOLEAN, Begin(t, stored)
    PROVE  IInv' /\ FinalStep
<1>1. DOMAIN thread = Threads /\ t # None /\ lock = None /\ lock' = t
  BY ThreadsAssumption DEF Begin, IInv, CallsKept
<1>2. \A u \in Threads : ~Working(u)
  BY <1>1, ThreadsAssumption DEF IInv, LockHeld
<1> DEFINE j   == thread[t].job
           run == IF stored THEN Len(rows) + 1 ELSE None
<1>3. j \in Jobs /\ thread[t].trigger \in Triggers
  BY DEF Begin, IInv, CallsKept, Busy
<1>4. /\ thread' = [thread EXCEPT ![t] = Running(t, run)]
      /\ now' = now /\ daemon' = daemon
  BY DEF Begin
<1>5. /\ DOMAIN thread' = Threads
      /\ thread'[t].stage = "running" /\ thread'[t].run = run
      /\ thread'[t].job = j /\ thread'[t].trigger = thread[t].trigger
      /\ \A u \in Threads \ {t} : thread'[u] = thread[u]
  BY <1>1, <1>4 DEF Running
<1>6. CallsKept' /\ LockHeld' /\ DaemonKept'
  <2>1. CallsKept'
    BY <1>1, <1>3, <1>5 DEF CallsKept, IInv, Busy
  <2>2. LockHeld'
    BY <1>1, <1>2, <1>5 DEF LockHeld, Working
  <2> QED BY <1>4, <2>1, <2>2 DEF DaemonKept, IInv
<1>7. CASE ~stored
  <2>1. rows' = rows
    BY <1>7 DEF Begin
  <2>2. RowsKept' /\ FinalStep
    BY <1>4, <2>1 DEF RowsKept, IInv, FinalStep
  <2>3. RunsOpen'
    BY <1>2, <1>5, <1>7 DEF RunsOpen, Working
  <2> QED BY <1>6, <2>2, <2>3 DEF IInv
<1>8. CASE stored
  <2> DEFINE row == Row(j, thread[t].trigger)
  <2>1. now \in Nat
    BY DEF IInv, RowsKept
  <2>2. /\ rows' \in Seq(RunRow) /\ DOMAIN rows = 1..Len(rows) /\ Len(rows) \in Nat
        /\ DOMAIN rows' = 1..(Len(rows) + 1) /\ rows'[Len(rows) + 1] = row
        /\ \A i \in 1..Len(rows) :
             \/ rows'[i] = rows[i]
             \/ /\ rows[i].status = "RUNNING"
                /\ rows'[i].status = "FAILED" /\ rows'[i].finished = now
                /\ rows'[i].started = rows[i].started
    BY <1>8, BegunRows
  <2>3. RowsKept'
    <3> SUFFICES ASSUME NEW i \in 1..(Len(rows) + 1)
                 PROVE  /\ rows'[i].started \in 0..now
                        /\ rows'[i].finished \in IF rows'[i].status = "RUNNING" THEN {None}
                                                  ELSE rows'[i].started..now
      BY <1>4, <2>2 DEF RowsKept, IInv
    <3>1. CASE i = Len(rows) + 1
      BY <2>1, <2>2, <3>1 DEF Row
    <3>2. CASE i \in 1..Len(rows)
      BY <2>1, <2>2, <3>2 DEF RowsKept, IInv
    <3> QED BY <2>2, <3>1, <3>2
  <2>4. FinalStep
    BY <2>2 DEF FinalStep
  <2>5. RunsOpen'
    <3> SUFFICES ASSUME NEW u \in Threads, thread'[u].stage = "running"
                 PROVE  /\ thread'[u].run \in DOMAIN rows'
                        /\ rows'[thread'[u].run].status = "RUNNING"
                        /\ rows'[thread'[u].run].job = thread'[u].job
      BY DEF RunsOpen
    <3>1. u = t
      BY <1>2, <1>5 DEF Working
    <3> QED BY <1>5, <1>8, <2>2, <3>1 DEF Row
  <2> QED BY <1>6, <2>3, <2>4, <2>5 DEF IInv
<1> QED BY <1>7, <1>8

\* The verdict of a run is written to its own row, which is open.
LEMMA ConcludeKeeps ==
    ASSUME IInv, NEW t \in Threads, NEW outcome \in Outcomes, NEW stored \in BOOLEAN,
           Conclude(t, outcome, stored)
    PROVE  IInv' /\ FinalStep
<1> DEFINE j       == thread[t].job
           run     == thread[t].run
           verdict == Verdict(j, outcome)
<1>1. /\ DOMAIN thread = Threads /\ thread[t].stage = "running"
      /\ now' = now /\ daemon' = daemon /\ lock' = lock
      /\ thread' = [thread EXCEPT ![t] = Returning(t, verdict)]
      /\ rows' = IF stored /\ run # None THEN [rows EXCEPT ![run] = Finished(@, verdict)]
                 ELSE rows
  BY DEF Conclude, IInv, CallsKept
<1>2. /\ DOMAIN thread' = Threads
      /\ thread'[t].stage = "returning" /\ thread'[t].job = j
      /\ thread'[t].trigger = thread[t].trigger
      /\ \A u \in Threads \ {t} : thread'[u] = thread[u]
  BY <1>1 DEF Returning
<1>3. \A u \in Threads \ {t} : ~Working(u)
  BY <1>1 DEF IInv, LockHeld, Working
<1>4. CallsKept' /\ LockHeld' /\ DaemonKept'
  <2>1. CallsKept'
    BY <1>1, <1>2 DEF CallsKept, IInv, Busy
  <2>2. LockHeld'
    BY <1>1, <1>2 DEF LockHeld, IInv, Working
  <2> QED BY <1>1, <2>1, <2>2 DEF DaemonKept, IInv
<1>5. RunsOpen'
  BY <1>2, <1>3 DEF RunsOpen, Working
<1>6. CASE ~(stored /\ run # None)
  <2>1. rows' = rows
    BY <1>1, <1>6
  <2>2. RowsKept' /\ FinalStep
    BY <1>1, <2>1 DEF RowsKept, IInv, FinalStep
  <2> QED BY <1>4, <1>5, <2>2 DEF IInv
<1>7. CASE stored /\ run # None
  <2> DEFINE row == Finished(rows[run], verdict)
  <2>1. run \in DOMAIN rows /\ rows[run].status = "RUNNING"
    BY <1>1, <1>7 DEF IInv, RunsOpen
  <2>2. /\ rows \in Seq(RunRow) /\ rows[run] \in RunRow /\ now \in Nat
        /\ rows[run].started \in 0..now
    BY <2>1 DEF IInv, RowsKept
  <2>3. verdict \in {"SUCCESS", "PARTIAL_FAILURE", "FAILED"}
    BY VerdictStatus
  <2>4. /\ row \in RunRow /\ row.status = verdict /\ row.finished = now
        /\ row.started = rows[run].started
    <3>1. verdict \in Statuses
      BY <2>3 DEF Statuses
    <3> HIDE DEF verdict
    <3> QED BY <2>2, <3>1 DEF Finished, RunRow
  <2>5. rows' = [rows EXCEPT ![run] = row]
    BY <1>1, <1>7
  <2>6. /\ rows' \in Seq(RunRow) /\ DOMAIN rows' = DOMAIN rows
        /\ rows'[run] = row
        /\ \A i \in DOMAIN rows \ {run} : rows'[i] = rows[i]
    <3> HIDE DEF row
    <3> QED BY <2>1, <2>2, <2>4, <2>5
  <2>7. RowsKept'
    <3> SUFFICES ASSUME NEW i \in DOMAIN rows
                 PROVE  /\ rows'[i].started \in 0..now
                        /\ rows'[i].finished \in IF rows'[i].status = "RUNNING" THEN {None}
                                                  ELSE rows'[i].started..now
      BY <1>1, <2>6 DEF RowsKept, IInv
    <3>1. CASE i = run
      <4> HIDE DEF row, verdict
      <4> QED BY <2>2, <2>3, <2>4, <2>6, <3>1
    <3>2. CASE i # run
      BY <2>6, <3>2 DEF RowsKept, IInv
    <3> QED BY <3>1, <3>2
  <2>8. FinalStep
    BY <2>1, <2>6 DEF FinalStep
  <2> QED BY <1>4, <1>5, <2>7, <2>8 DEF IInv
<1> QED BY <1>6, <1>7

\* An exception leaves the row open; the run is no longer the one in progress.
LEMMA RaiseKeeps ==
    ASSUME IInv, NEW t \in Threads, Raise(t)
    PROVE  IInv' /\ FinalStep
<1>1. /\ DOMAIN thread = Threads /\ thread[t].stage = "running"
      /\ now' = now /\ daemon' = daemon /\ lock' = lock /\ rows' = rows
      /\ thread' = [thread EXCEPT ![t] = Returning(t, "EXCEPTION")]
  BY DEF Raise, IInv, CallsKept
<1>2. /\ DOMAIN thread' = Threads
      /\ thread'[t].stage = "returning" /\ thread'[t].job = thread[t].job
      /\ thread'[t].trigger = thread[t].trigger
      /\ \A u \in Threads \ {t} : thread'[u] = thread[u]
  BY <1>1 DEF Returning
<1>3. CallsKept'
  BY <1>1, <1>2 DEF CallsKept, IInv, Busy
<1>4. LockHeld' /\ RunsOpen'
  BY <1>1, <1>2 DEF LockHeld, RunsOpen, IInv, Working
<1>5. RowsKept' /\ FinalStep /\ DaemonKept'
  BY <1>1 DEF RowsKept, FinalStep, DaemonKept, IInv
<1> QED BY <1>3, <1>4, <1>5 DEF IInv

\* Time passes: what has been stored is of the past.
LEMMA TickKeeps ==
    ASSUME IInv, Tick
    PROVE  IInv' /\ FinalStep
<1>1. now \in Nat /\ now' = now + 1 /\ now' \in 0..MaxTime
  BY ClockAssumption DEF Tick, IInv, RowsKept
<1>2. UNCHANGED <<daemon, thread, lock, rows>>
  BY DEF Tick
<1>3. RowsKept'
  <2> SUFFICES ASSUME NEW i \in DOMAIN rows
               PROVE  /\ rows[i].started \in 0..now'
                      /\ rows[i].finished \in IF rows[i].status = "RUNNING" THEN {None}
                                               ELSE rows[i].started..now'
    BY <1>1, <1>2 DEF RowsKept, IInv
  <2> QED BY <1>1 DEF IInv, RowsKept
<1>4. CallsKept' /\ DaemonKept' /\ LockHeld' /\ RunsOpen'
  BY <1>2 DEF IInv, CallsKept, Busy, DaemonKept, LockHeld, RunsOpen, Working
<1>5. FinalStep
  BY <1>2 DEF FinalStep
<1> QED BY <1>3, <1>4, <1>5 DEF IInv

\* Every step keeps the invariant and the verdicts.
LEMMA StepKeeps ==
    ASSUME IInv, Next
    PROVE  IInv' /\ FinalStep
<1>1. CASE Tick
  BY <1>1, TickKeeps
<1>2. CASE \/ DaemonStart \/ (\E read \in Stored : Decide(read)) \/ Serve
           \/ (\E j \in Jobs : Fire(j)) \/ Crash \/ Stop \/ Exit
  BY <1>2, DaemonStepsReassign, ReassignedKeeps
<1>3. CASE \/ \E p \in Processes, j \in Jobs : Launch(p, j)
           \/ \E p \in Processes : Kill(p)
           \/ \E t \in Threads : Skip(t) \/ Leave(t)
  BY <1>3, CallStepsReassign, ReassignedKeeps
<1>4. Stored \subseteq BOOLEAN
  BY DEF Stored
<1>5. ASSUME NEW t \in Threads, NEW stored \in Stored, Begin(t, stored)
      PROVE  IInv' /\ FinalStep
  BY <1>4, <1>5, BeginKeeps
<1>6. ASSUME NEW t \in Threads, NEW outcome \in Outcomes, NEW stored \in Stored,
             Conclude(t, outcome, stored)
      PROVE  IInv' /\ FinalStep
  BY <1>4, <1>6, ConcludeKeeps
<1>7. ASSUME NEW t \in Threads, Raise(t)
      PROVE  IInv' /\ FinalStep
  BY <1>7, RaiseKeeps
<1> QED BY <1>1, <1>2, <1>3, <1>5, <1>6, <1>7 DEF Next, Work

-----------------------------------------------------------------------------
(* The theorems. *)

\* The invariant holds in every state.
LEMMA Invariant == Spec => []IInv
<1>1. Init => IInv
  <2> SUFFICES ASSUME Init PROVE IInv
    OBVIOUS
  <2>1. RowsKept
    BY ClockAssumption DEF Init, RowsKept
  <2>2. CallsKept /\ LockHeld /\ RunsOpen
    BY DEF Init, CallsKept, LockHeld, RunsOpen, Busy, Working, Idle
  <2>3. DaemonKept
    BY DEF Init, DaemonKept, Down
  <2> QED BY <2>1, <2>2, <2>3 DEF IInv
<1>2. IInv /\ [Next]_vars => IInv'
  <2>1. IInv /\ UNCHANGED vars => IInv'
    BY DEF vars, IInv, RowsKept, CallsKept, DaemonKept, LockHeld, RunsOpen, Busy, Working
  <2> QED BY <2>1, StepKeeps
<1> QED BY <1>1, <1>2, PTL DEF Spec

\* Rows have a job, a trigger, a status and times that fit; a thread's run is one of
\* them.
THEOREM RunTypes == Spec => []TypeOK
<1>1. IInv => TypeOK
  <2> SUFFICES ASSUME IInv PROVE TypeOK
    OBVIOUS
  <2>1. \A i \in DOMAIN rows : rows[i] \in RunRow
    BY DEF IInv, RowsKept
  <2> QED BY <2>1 DEF IInv, RowsKept, CallsKept, DaemonKept, RunsOpen, TypeOK, RunRow
<1> QED BY <1>1, Invariant, PTL

\* SchedulerRunLock: two runs never work at once, whatever their age, the threads
\* or processes they are in, the kills and the failures of the history, and the
\* row of the one that works is open.
THEOREM LiveRunsStayOpen == Spec => []LiveRunOpen
<1>1. IInv => LiveRunOpen
  BY DEF IInv, LockHeld, RunsOpen, LiveRunOpen
<1> QED BY <1>1, Invariant, PTL

\* SchedulerRunRecorder: start closes rows that are open, finish writes the row of
\* its own run, and neither rewrites a verdict.
THEOREM VerdictsStay == Spec => VerdictsAreFinal
<1>1. IInv /\ [Next]_vars =>
        [\A i \in DOMAIN rows :
           /\ i \in DOMAIN rows'
           /\ rows[i].status # "RUNNING" => rows'[i] = rows[i]]_vars
  BY StepKeeps DEF FinalStep
<1> QED BY <1>1, Invariant, PTL DEF Spec, VerdictsAreFinal

-----------------------------------------------------------------------------
(* Slots. *)

LessThan == OpToRel(<, Nat)

\* A set of natural numbers has a least element,
LEMMA LeastElement ==
    ASSUME NEW S \in SUBSET Nat, S # {}
    PROVE  \E x \in S : \A y \in S : x <= y
<1>1. IsWellFoundedOn(LessThan, Nat)
  BY NatLessThanWellFounded, Zenon DEF LessThan
<1>2. PICK x \in S : \A y \in S : ~(<<y, x>> \in LessThan)
  BY <1>1, WFMin, Zenon
<1>3. \A y, z \in Nat : y < z => <<y, z>> \in LessThan
  BY DEF LessThan, OpToRel
<1>4. \A y \in S : ~(y < x)
  BY <1>2, <1>3
<1> QED BY <1>4

\* which is its Min, and when it is bounded a greatest one, its Max.
LEMMA MinAndMax ==
    ASSUME NEW S \in SUBSET Nat, S # {}
    PROVE  /\ Min(S) \in S /\ \A y \in S : Min(S) <= y
           /\ \A n \in Nat : (\A y \in S : y <= n) => Max(S) \in S /\ \A y \in S : Max(S) >= y
<1>1. Min(S) \in S /\ \A y \in S : Min(S) <= y
  BY LeastElement DEF Min
<1>2. ASSUME NEW n \in Nat, \A y \in S : y <= n
      PROVE  Max(S) \in S /\ \A y \in S : Max(S) >= y
  <2> DEFINE T == {n - x : x \in S}
  <2>1. T \in SUBSET Nat /\ T # {}
    <3>1. \A x \in S : x \in Nat /\ n - x \in Nat
      BY <1>2
    <3> QED BY <3>1
  <2>2. PICK t \in T : \A u \in T : t <= u
    <3> HIDE DEF T
    <3> QED BY <2>1, LeastElement
  <2>3. \E x \in S : \A y \in S : x >= y
    <3>1. PICK x \in S : t = n - x
      OBVIOUS
    <3>2. \A y \in S : n - y \in T /\ x \in Nat /\ y \in Nat
      OBVIOUS
    <3> HIDE DEF T
    <3>3. \A y \in S : t <= n - y
      BY <2>2, <3>2
    <3>4. \A y \in S : x >= y
      BY <3>1, <3>2, <3>3
    <3> QED BY <3>4
  <2> QED BY <2>3 DEF Max
<1> QED BY <1>1, <1>2

\* The slots of a job are times.
LEMMA SlotsAreTimes == ASSUME NEW j \in Jobs PROVE Slots(j) \subseteq Nat
<1>1. \A d \in Nat : d * Period + SlotOffset \in Nat
  BY ClockAssumption
<1> QED BY <1>1, ClockAssumption DEF Slots, Days

\* The last slot by a time is none of the later ones, nor earlier than any other by then.
LEMMA LastSlotIs ==
    ASSUME NEW j \in Jobs, NEW t \in Nat, NEW s \in Slots(j), s <= t
    PROVE  LastSlot(j, t) \in Nat /\ s <= LastSlot(j, t) /\ LastSlot(j, t) <= t
<1> DEFINE S == {r \in Slots(j) : r <= t}
<1>1. S \in SUBSET Nat /\ s \in S /\ S # {} /\ \A y \in S : y <= t
  BY SlotsAreTimes
<1>2. LastSlot(j, t) = Max(S)
  BY DEF LastSlot
<1> HIDE DEF S
<1>3. Max(S) \in S /\ \A y \in S : Max(S) >= y
  BY <1>1, MinAndMax
<1> QED BY <1>1, <1>2, <1>3

\* The next slot after a time, or none on the clock.
LEMMA NextSlotIs ==
    ASSUME NEW j \in Jobs, NEW t \in 0..MaxTime
    PROVE  NextSlot(j, t) \in Slots(j) \cup {MaxTime + 1} /\ NextSlot(j, t) \in Nat /\ NextSlot(j, t) > t
<1> DEFINE S == {s \in Slots(j) : s > t} \cup {MaxTime + 1}
<1>1. S \in SUBSET Nat /\ S # {}
  BY SlotsAreTimes, ClockAssumption
<1>2. NextSlot(j, t) = Min(S)
  BY DEF NextSlot
<1>3. Min(S) \in S
  <2> HIDE DEF S
  <2> QED BY <1>1, MinAndMax
<1> QED BY <1>1, <1>2, <1>3, ClockAssumption

-----------------------------------------------------------------------------
(* The daemon and its rows. *)

\* Rows stay, with their job, trigger and start.
RowsStay ==
    \A i \in DOMAIN rows :
        /\ i \in DOMAIN rows'
        /\ rows'[i].job = rows[i].job /\ rows'[i].trigger = rows[i].trigger
        /\ rows'[i].started = rows[i].started

\* The catch-up is made before the daemon serves, the jobs' runs from then on, and a row
\* tells who made it.
TurnsKept ==
    /\ daemon.stage # "down" =>
         /\ daemon = Up(daemon.stage, daemon.started, daemon.due)
         /\ daemon.started \in 0..now /\ DOMAIN daemon.due = Jobs
    /\ \A t \in DaemonThreads : Busy(t) =>
         \/ t = "main" /\ daemon.stage = "catching"
         \/ t \in Jobs /\ daemon.stage \in {"serving", "stopping"}
    /\ \A t \in Threads : Busy(t) =>
         /\ t \in Processes => thread[t].trigger \in {"MANUAL", "MANUAL_DAILY"}
         /\ t = "main" => thread[t].trigger \in {"STARTUP_CATCHUP", "AUTOMATIC_RETRY"}
         /\ t \in Jobs => thread[t].job = t /\ thread[t].trigger \in {"SCHEDULED", "AUTOMATIC_RETRY"}
    /\ \A t \in Threads : thread[t].stage = "running" /\ thread[t].run # None =>
         rows[thread[t].run].trigger = thread[t].trigger

\* A run of the daemon for job j that has succeeded; none of them ended after s; and no
\* catch-up of the job was begun after s.
Done(row, j) == row.job = j /\ OfDaemon(row) /\ row.status = "SUCCESS"

NoneSince(j, s) == \A i \in DOMAIN rows : Done(rows[i], j) => rows[i].finished < s

CaughtUpBefore(j, s) ==
    \A i \in DOMAIN rows : rows[i].job = j /\ rows[i].trigger = "STARTUP_CATCHUP" => rows[i].started < s

\* Thread t is at a run for slot s, which is past.
IsFor(t, s) ==
    /\ s \in Slots(thread[t].job) /\ s <= now
    /\ thread[t].stage = "running" /\ thread[t].run # None => s <= rows[thread[t].run].started

HasSucceeded(t) == thread[t].stage = "returning" /\ thread[t].result = "SUCCESS"

\* The catch-up is for a slot no run has succeeded since, until its own does.
MainKept ==
    Busy("main") => \E s \in Slots(thread["main"].job) :
        /\ IsFor("main", s) /\ s <= daemon.started
        /\ ~HasSucceeded("main") => NoneSince(thread["main"].job, s)

\* A job is fired for a slot later than all catch-ups.
FiringKept ==
    \A j \in Jobs :
        /\ Busy(j) => \E s \in Slots(j) : IsFor(j, s) /\ CaughtUpBefore(j, s)
        /\ daemon.stage = "serving" =>
             daemon.due[j] \in Slots(j) \cup {MaxTime + 1} /\ CaughtUpBefore(j, daemon.due[j])

Between(j, a, b) == \E s \in Slots(j) : a < s /\ s <= b

\* Each run of the daemon follows a slot, and there is one between a catch-up and any
\* other of them.
RowsApart ==
    /\ \A i \in DOMAIN rows : OfDaemon(rows[i]) => \E s \in Slots(rows[i].job) : s <= rows[i].started
    /\ \A i, k \in DOMAIN rows :
         i # k /\ rows[i].trigger = "STARTUP_CATCHUP" /\ Done(rows[i], rows[i].job) /\ Done(rows[k], rows[i].job)
         => \/ Between(rows[i].job, rows[i].started, rows[k].started)
            \/ Between(rows[i].job, rows[k].started, rows[i].started)

CatchupInv == TurnsKept /\ MainKept /\ FiringKept /\ RowsApart

\* The rows when a run is concluded: its own has the verdict, or none has changed.
LEMMA ConcludedRows ==
    ASSUME IInv, NEW t \in Threads, NEW outcome, NEW stored, Conclude(t, outcome, stored)
    PROVE  \/ rows' = rows
           \/ /\ thread[t].run # None /\ thread[t].run \in DOMAIN rows /\ DOMAIN rows' = DOMAIN rows
              /\ rows[thread[t].run].status = "RUNNING"
              /\ rows'[thread[t].run].job = rows[thread[t].run].job
              /\ rows'[thread[t].run].trigger = rows[thread[t].run].trigger
              /\ rows'[thread[t].run].started = rows[thread[t].run].started
              /\ rows'[thread[t].run].status = Verdict(thread[t].job, outcome)
              /\ rows'[thread[t].run].finished = now
              /\ \A i \in DOMAIN rows \ {thread[t].run} : rows'[i] = rows[i]
<1> DEFINE run     == thread[t].run
           verdict == Verdict(thread[t].job, outcome)
<1>1. rows' = IF stored /\ run # None THEN [rows EXCEPT ![run] = Finished(@, verdict)] ELSE rows
  BY DEF Conclude
<1>2. CASE stored /\ run # None
  <2>1. run \in DOMAIN rows /\ rows[run].status = "RUNNING"
    BY <1>2 DEF IInv, RunsOpen, Conclude
  <2>2. rows[run] \in RunRow
    BY <2>1 DEF IInv, RowsKept
  <2> DEFINE row == Finished(rows[run], verdict)
  <2>3. rows' = [rows EXCEPT ![run] = row]
    BY <1>1, <1>2
  <2> HIDE DEF verdict
  <2>4. /\ row.job = rows[run].job /\ row.trigger = rows[run].trigger
        /\ row.started = rows[run].started /\ row.status = verdict /\ row.finished = now
    BY <2>2 DEF Finished, RunRow
  <2> HIDE DEF row
  <2>5. /\ DOMAIN rows' = DOMAIN rows /\ rows'[run] = row
        /\ \A i \in DOMAIN rows \ {run} : rows'[i] = rows[i]
    BY <2>1, <2>3
  <2> QED BY <1>2, <2>1, <2>4, <2>5 DEF verdict
<1> QED BY <1>1, <1>2

\* No step takes a row out or changes what it was begun as.
LEMMA RowsAlwaysStay == ASSUME IInv, Next PROVE RowsStay
<1>1. CASE rows' = rows
  BY <1>1 DEF RowsStay
<1>2. ASSUME NEW t \in Threads, NEW stored \in Stored, Begin(t, stored) PROVE RowsStay
  <2>1. CASE stored
    <3>1. Begin(t, TRUE)
      BY <1>2, <2>1 DEF Stored
    <3>2. /\ DOMAIN rows = 1..Len(rows) /\ Len(rows) \in Nat
          /\ DOMAIN rows' = 1..(Len(rows) + 1)
          /\ \A i \in 1..Len(rows) :
               /\ rows'[i].started = rows[i].started /\ rows'[i].job = rows[i].job
               /\ rows'[i].trigger = rows[i].trigger
      BY <3>1, BegunRows
    <3> QED BY <3>2 DEF RowsStay
  <2>2. CASE ~stored
    BY <1>1, <1>2, <2>2 DEF Begin
  <2> QED BY <2>1, <2>2
<1>3. ASSUME NEW t \in Threads, NEW outcome \in Outcomes, NEW stored \in Stored,
             Conclude(t, outcome, stored)
      PROVE  RowsStay
  BY <1>1, <1>3, ConcludedRows DEF RowsStay
<1> QED
  BY <1>1, <1>2, <1>3 DEF Next, Work, Tick, DaemonStart, Decide, Serve, Fire, Launch, Skip, Raise, Leave,
                          Crash, Kill, Die, Stop, Exit

\* While the rows stay as they are, what is at a run is for the same slot.
LEMMA StaysFor ==
    ASSUME NEW t, thread'[t] = thread[t], rows' = rows, now \in Nat, now' \in Nat, now' >= now, NEW s,
           NEW j \in Jobs, j = thread[t].job, IsFor(t, s)
    PROVE  IsFor(t, s)'
<1>1. Slots(j)' = Slots(j) /\ s \in Nat
  BY SlotsAreTimes DEF IsFor, Slots, Days
<1> QED BY <1>1 DEF IsFor, Slots, Days

\* What keeps what is known of the catch-up: a main thread at the same, or at nothing.
LEMMA MainStays ==
    ASSUME IInv, MainKept, rows' = rows, now' \in Nat, now' >= now,
           Busy("main")' => thread'["main"] = thread["main"] /\ daemon'.started = daemon.started
    PROVE  MainKept'
<1> SUFFICES ASSUME Busy("main")'
             PROVE  \E s \in Slots(thread["main"].job)' :
                      /\ IsFor("main", s)' /\ s <= daemon'.started
                      /\ ~HasSucceeded("main")' => NoneSince(thread["main"].job, s)'
  BY DEF MainKept
<1>1. Busy("main") /\ "main" \in Threads /\ thread["main"].job \in Jobs /\ now \in Nat
  BY DEF Busy, IInv, CallsKept, RowsKept, Threads, DaemonThreads
<1>2. PICK s \in Slots(thread["main"].job) :
        /\ IsFor("main", s) /\ s <= daemon.started
        /\ ~HasSucceeded("main") => NoneSince(thread["main"].job, s)
  BY <1>1 DEF MainKept
<1>3. s \in Slots(thread["main"].job)' /\ IsFor("main", s)'
  BY <1>1, <1>2, StaysFor DEF Slots, Days
<1> QED BY <1>2, <1>3 DEF NoneSince, HasSucceeded, Done, OfDaemon

\* What keeps what is known of the jobs' runs.
LEMMA FiringStays ==
    ASSUME IInv, FiringKept, rows' = rows, now' \in Nat, now' >= now,
           \A j \in Jobs : Busy(j)' => thread'[j] = thread[j],
           daemon'.stage = "serving" => daemon.stage = "serving" /\ daemon'.due = daemon.due
    PROVE  FiringKept'
<1>1. now \in Nat
  BY DEF IInv, RowsKept
<1>2. ASSUME NEW j \in Jobs, Busy(j)' PROVE \E s \in Slots(j)' : IsFor(j, s)' /\ CaughtUpBefore(j, s)'
  <2>1. Busy(j) /\ thread[j].job \in Jobs
    BY <1>2 DEF Busy, IInv, CallsKept, Threads, DaemonThreads
  <2>2. PICK s \in Slots(j) : IsFor(j, s) /\ CaughtUpBefore(j, s)
    BY <2>1 DEF FiringKept
  <2>3. s \in Slots(j)' /\ IsFor(j, s)'
    BY <1>1, <1>2, <2>1, <2>2, StaysFor DEF Slots, Days
  <2> QED BY <2>2, <2>3 DEF CaughtUpBefore
<1>3. ASSUME NEW j \in Jobs, daemon'.stage = "serving"
      PROVE  daemon'.due[j] \in Slots(j)' \cup {MaxTime + 1} /\ CaughtUpBefore(j, daemon.due[j])'
  BY <1>3 DEF FiringKept, CaughtUpBefore, Slots, Days
<1> QED BY <1>2, <1>3 DEF FiringKept

\* The kinds of threads.
LEMMA ThreadKinds ==
    /\ "main" \in Threads /\ Jobs \subseteq Threads /\ Processes \subseteq Threads
    /\ "main" \notin Jobs /\ "main" \notin Processes /\ Jobs \cap Processes = {}
    /\ \A t \in Threads : t = "main" \/ t \in Jobs \/ t \in Processes
  BY ThreadsAssumption DEF Threads, DaemonThreads, Jobs

\* Time, the daemon's start and end, and the processes.
LEMMA QuietStepKeeps ==
    ASSUME IInv, IInv', CatchupInv,
           \/ Tick \/ DaemonStart \/ Crash \/ Stop \/ Exit
           \/ (\E p \in Processes, j \in Jobs : Launch(p, j)) \/ (\E p \in Processes : Kill(p))
    PROVE  CatchupInv'
<1> USE DEF CatchupInv
<1>1. DOMAIN thread = Threads /\ now \in Nat /\ now' \in Nat /\ now' >= now /\ rows' = rows
  BY DEF IInv, CallsKept, RowsKept, Tick, DaemonStart, Crash, Die, Stop, Exit, Launch, Kill
<1>2. RowsApart'
  BY <1>1 DEF RowsApart, Between, Done, OfDaemon, Slots, Days
<1>3. \/ daemon' = daemon
      \/ daemon' = Down
      \/ daemon.stage = "down" /\ daemon' = Up("starting", now, NoJobs) /\ now' = now
      \/ /\ daemon.stage = "serving" /\ now' = now
         /\ daemon' = Up("stopping", daemon.started, daemon.due)
  <2>1. CASE Stop
    <3>1. /\ daemon.stage = "serving" /\ daemon' = [daemon EXCEPT !.stage = "stopping"] /\ now' = now
          /\ daemon = Up(daemon.stage, daemon.started, daemon.due)
      BY <2>1 DEF Stop, TurnsKept
    <3>2. [Up(daemon.stage, daemon.started, daemon.due) EXCEPT !.stage = "stopping"]
            = Up("stopping", daemon.started, daemon.due)
      BY DEF Up
    <3> QED BY <3>1, <3>2
  <2> QED BY <2>1 DEF Tick, DaemonStart, Crash, Die, Exit, Launch, Kill, Down
<1>4. \A t \in DaemonThreads : Busy(t)' => thread'[t] = thread[t] /\ Busy(t)
  BY <1>1, ThreadKinds
     DEF Tick, DaemonStart, Crash, Die, Stop, Exit, Launch, Kill, Busy, Idle, DaemonThreads
<1>5. "main" \in DaemonThreads /\ Jobs \subseteq DaemonThreads
  BY DEF DaemonThreads
<1>6. Busy("main") => daemon.stage = "catching"
  BY <1>5, ThreadKinds DEF TurnsKept
<1>7. MainKept'
  <2>1. Busy("main")' => daemon'.started = daemon.started
    <3>1. ~(Crash /\ Busy("main")')
      BY <1>1, ThreadKinds DEF Crash, Die, DaemonThreads, Busy, Idle
    <3>2. ~(Exit /\ Busy("main")')
      BY <1>5 DEF Exit, Busy
    <3>3. ~(DaemonStart /\ Busy("main")) /\ ~(Stop /\ Busy("main"))
      BY <1>6 DEF DaemonStart, Stop, Down
    <3>4. Busy("main")' => Busy("main")
      BY <1>4, <1>5
    <3>5. CASE UNCHANGED daemon
      BY <3>5
    <3> QED BY <3>1, <3>2, <3>3, <3>4, <3>5 DEF Tick, Launch, Kill
  <2> QED BY <1>1, <1>4, <1>5, <2>1, MainStays
<1>8. FiringKept'
  <2>1. daemon'.stage = "serving" => daemon' = daemon
    BY <1>3 DEF Down, Up
  <2> QED BY <1>1, <1>4, <1>5, <2>1, FiringStays
<1>9. TurnsKept'
  <2>1. daemon'.stage # "down" =>
          /\ daemon' = Up(daemon'.stage, daemon'.started, daemon'.due)
          /\ daemon'.started \in 0..now' /\ DOMAIN daemon'.due = Jobs
    BY <1>1, <1>3 DEF TurnsKept, Down, Up, NoJobs
  <2>2. \A t \in DaemonThreads : Busy(t)' =>
         \/ t = "main" /\ daemon'.stage = "catching"
         \/ t \in Jobs /\ daemon'.stage \in {"serving", "stopping"}
    <3>1. CASE Crash
      <4>1. \A t \in DaemonThreads : ~Busy(t)'
        BY <3>1, <1>1 DEF Crash, Die, Busy, Idle, Threads
      <4> QED BY <4>1
    <3>2. CASE DaemonStart \/ Exit
      <4>1. \A t \in DaemonThreads : ~Busy(t)
        BY <3>2 DEF DaemonStart, Exit, TurnsKept, Down
      <4> QED BY <1>4, <4>1
    <3>3. CASE Stop
      <4>1. daemon.stage = "serving" /\ daemon'.stage = "stopping"
        BY <3>3 DEF Stop, IInv, DaemonKept
      <4> QED BY <1>4, <4>1 DEF TurnsKept
    <3>4. CASE daemon' = daemon
      BY <1>4, <3>4 DEF TurnsKept
    <3> QED BY <3>1, <3>2, <3>3, <3>4 DEF Tick, Launch, Kill
  <2>3. ASSUME NEW p \in Processes, NEW j \in Jobs, Launch(p, j)
        PROVE  \A t \in Threads :
                 \/ thread'[t] = thread[t]
                 \/ /\ t \in Processes /\ thread'[t].trigger \in {"MANUAL", "MANUAL_DAILY"}
                    /\ thread'[t].stage = "called"
    BY <1>1, <2>3, ThreadKinds DEF Launch, Called
  <2>4. \A t \in Threads :
          \/ thread'[t] = thread[t] \/ thread'[t] = Idle
          \/ /\ t \in Processes /\ thread'[t].trigger \in {"MANUAL", "MANUAL_DAILY"}
             /\ thread'[t].stage = "called"
    BY <1>1, <2>3 DEF Tick, DaemonStart, Crash, Die, Stop, Exit, Kill
  <2>5. ASSUME NEW t \in Threads
        PROVE  /\ Busy(t)' =>
                    /\ t \in Processes => thread'[t].trigger \in {"MANUAL", "MANUAL_DAILY"}
                    /\ t = "main" => thread'[t].trigger \in {"STARTUP_CATCHUP", "AUTOMATIC_RETRY"}
                    /\ t \in Jobs => thread'[t].job = t /\ thread'[t].trigger \in {"SCHEDULED", "AUTOMATIC_RETRY"}
               /\ thread'[t].stage = "running" /\ thread'[t].run # None =>
                    rows'[thread'[t].run].trigger = thread'[t].trigger
    <3>1. CASE thread'[t] = thread[t]
      BY <1>1, <3>1 DEF TurnsKept, Busy
    <3>2. CASE thread'[t] = Idle
      BY <3>2 DEF Idle, Busy
    <3>3. CASE t \in Processes /\ thread'[t].trigger \in {"MANUAL", "MANUAL_DAILY"} /\ thread'[t].stage = "called"
      BY <3>3, ThreadKinds
    <3> QED BY <2>4, <3>1, <3>2, <3>3
  <2> QED BY <2>1, <2>2, <2>5 DEF TurnsKept
<1> QED BY <1>2, <1>7, <1>8, <1>9

\* The daemon decides on a catch-up: it is for a slot that no run has succeeded since.
LEMMA DecideKeeps ==
    ASSUME IInv, CatchupInv, NEW read, Decide(read)
    PROVE  CatchupInv'
<1> USE DEF CatchupInv
<1> DEFINE due == \E j \in Jobs : CatchupDue(j, daemon.started)
           c   == CHOOSE j \in Jobs : CatchupDue(j, daemon.started)
           new == IF read /\ due THEN Called(c, "STARTUP_CATCHUP") ELSE Idle
<1>1. /\ DOMAIN thread = Threads /\ now \in Nat /\ UNCHANGED <<now, lock, rows>>
      /\ daemon.stage = "starting" /\ daemon' = [daemon EXCEPT !.stage = "catching"]
      /\ thread' = [thread EXCEPT !["main"] = new]
  BY DEF IInv, CallsKept, RowsKept, Decide
<1>2. daemon' = Up("catching", daemon.started, daemon.due)
  <2>1. daemon = Up(daemon.stage, daemon.started, daemon.due)
    BY <1>1 DEF TurnsKept
  <2>2. [Up(daemon.stage, daemon.started, daemon.due) EXCEPT !.stage = "catching"]
          = Up("catching", daemon.started, daemon.due)
    BY DEF Up
  <2> QED BY <1>1, <2>1, <2>2
<1>3. \A t \in DaemonThreads : ~Busy(t)
  BY <1>1 DEF TurnsKept
<1>4. thread'["main"] = new /\ \A t \in Threads \ {"main"} : thread'[t] = thread[t]
  BY <1>1, ThreadKinds
<1>5. new = Idle \/ (due /\ c \in Jobs /\ CatchupDue(c, daemon.started) /\ new = Called(c, "STARTUP_CATCHUP"))
  OBVIOUS
<1> HIDE DEF new, c, due
<1>6. RowsApart'
  BY <1>1 DEF RowsApart, Between, Done, OfDaemon, Slots, Days
<1>7. FiringKept'
  <2>1. \A j \in Jobs : Busy(j)' => thread'[j] = thread[j]
    BY <1>4, ThreadKinds
  <2>2. daemon'.stage = "catching"
    BY <1>2 DEF Up
  <2> QED BY <1>1, <2>1, <2>2, FiringStays
<1>8. MainKept'
  <2> SUFFICES ASSUME Busy("main")'
               PROVE  \E s \in Slots(thread["main"].job)' :
                        /\ IsFor("main", s)' /\ s <= daemon'.started
                        /\ NoneSince(thread["main"].job, s)'
    BY DEF MainKept
  <2>1. c \in Jobs /\ CatchupDue(c, daemon.started) /\ thread'["main"] = Called(c, "STARTUP_CATCHUP")
    BY <1>4, <1>5 DEF Busy, Idle
  <2>2. PICK s \in Slots(c) : s <= daemon.started /\ ~SucceededSince(c, s)
    BY <2>1 DEF CatchupDue
  <2>3. thread'["main"].stage = "called" /\ thread'["main"].job = c /\ daemon'.started = daemon.started
    BY <1>2, <2>1 DEF Called, Up
  <2>4. s \in Nat /\ daemon.started \in 0..now
    BY <1>1, <2>1, SlotsAreTimes DEF TurnsKept
  <2>5. s <= now
    BY <1>1, <2>2, <2>4
  <2>6. IsFor("main", s)'
    BY <1>1, <2>2, <2>3, <2>5 DEF IsFor, Slots, Days
  <2>7. ASSUME NEW i \in DOMAIN rows, Done(rows[i], c) PROVE rows[i].finished < s
    <3>1. rows[i].status = "SUCCESS" /\ rows[i].job = c
      BY <2>7 DEF Done
    <3>2. rows[i].started \in 0..now /\ rows[i].finished \in rows[i].started..now
      BY <3>1 DEF IInv, RowsKept
    <3>3. ~(rows[i].finished >= s)
      BY <2>2, <3>1 DEF SucceededSince
    <3> QED BY <1>1, <2>4, <3>2, <3>3
  <2>8. NoneSince(thread["main"].job, s)'
    BY <1>1, <2>3, <2>7 DEF NoneSince, Done, OfDaemon
  <2>9. s \in Slots(thread["main"].job)'
    BY <2>2, <2>3 DEF Slots, Days
  <2> QED BY <2>2, <2>3, <2>6, <2>8, <2>9
<1>9. TurnsKept'
  <2>1. daemon'.stage = "catching" /\ daemon'.started \in 0..now' /\ DOMAIN daemon'.due = Jobs
        /\ daemon' = Up(daemon'.stage, daemon'.started, daemon'.due)
    BY <1>1, <1>2 DEF Up, TurnsKept
  <2>2. \A t \in DaemonThreads : Busy(t)' => t = "main"
    BY <1>3, <1>4, ThreadKinds DEF Busy, DaemonThreads
  <2>3. thread'["main"].stage # "running" /\ (Busy("main")' => thread'["main"].trigger = "STARTUP_CATCHUP")
    BY <1>4, <1>5 DEF Idle, Called, Busy
  <2>4. \A t \in Threads \ {"main"} : Busy(t)' = Busy(t)
    BY <1>4 DEF Busy
  <2> QED BY <1>1, <1>4, <2>1, <2>2, <2>3, <2>4, ThreadKinds DEF TurnsKept
<1> QED BY <1>6, <1>7, <1>8, <1>9

\* The daemon begins to serve: the jobs are due later than all catch-ups.
LEMMA ServeKeeps ==
    ASSUME IInv, CatchupInv, Serve
    PROVE  CatchupInv'
<1> USE DEF CatchupInv
<1>1. /\ now \in 0..MaxTime /\ UNCHANGED <<now, thread, lock, rows>>
      /\ daemon.stage = "catching" /\ ~Busy("main")
      /\ daemon' = Up("serving", daemon.started, [j \in Jobs |-> NextSlot(j, now)])
  BY DEF IInv, RowsKept, Serve
<1>2. \A t \in DaemonThreads : ~Busy(t)
  BY <1>1, ThreadKinds DEF TurnsKept, DaemonThreads
<1>3. RowsApart'
  BY <1>1 DEF RowsApart, Between, Done, OfDaemon, Slots, Days
<1>4. MainKept'
  BY <1>1 DEF MainKept, Busy
<1>5. FiringKept'
  <2>1. ASSUME NEW j \in Jobs
        PROVE  /\ daemon'.due[j] \in Slots(j)' \cup {MaxTime + 1}
               /\ CaughtUpBefore(j, daemon.due[j])'
    <3>1. daemon'.due[j] = NextSlot(j, now)
      BY <1>1 DEF Up
    <3>2. NextSlot(j, now) \in Slots(j) \cup {MaxTime + 1} /\ NextSlot(j, now) \in Nat /\ NextSlot(j, now) > now
      BY <1>1, NextSlotIs
    <3> DEFINE due == NextSlot(j, now)
    <3> HIDE DEF due
    <3>3. \A i \in DOMAIN rows : rows[i].started \in 0..now
      BY DEF IInv, RowsKept
    <3>4. \A i \in DOMAIN rows : rows[i].started < due
      BY <1>1, <3>2, <3>3, ClockAssumption DEF due
    <3> QED BY <1>1, <3>1, <3>2, <3>4 DEF CaughtUpBefore, Slots, Days, due
  <2>2. \A j \in Jobs : ~Busy(j)'
    BY <1>1, <1>2 DEF DaemonThreads, Busy
  <2> QED BY <2>1, <2>2 DEF FiringKept
<1>6. TurnsKept'
  BY <1>1, <1>2 DEF TurnsKept, Up, Busy
<1> QED BY <1>3, <1>4, <1>5, <1>6

\* A job is fired for the slot it was due at.
LEMMA FireKeeps ==
    ASSUME IInv, CatchupInv, NEW j \in Jobs, Fire(j)
    PROVE  CatchupInv'
<1> USE DEF CatchupInv
<1>1. /\ DOMAIN thread = Threads /\ now \in 0..MaxTime /\ UNCHANGED <<now, lock, rows>>
      /\ daemon.stage = "serving" /\ now >= daemon.due[j]
      /\ thread' = thread \/ (~Busy(j) /\ thread' = [thread EXCEPT ![j] = Called(j, "SCHEDULED")])
  BY DEF IInv, CallsKept, RowsKept, Fire
<1> DEFINE due == [daemon.due EXCEPT ![j] = NextSlot(j, now)]
<1>2. daemon' = Up("serving", daemon.started, due)
  <2>1. daemon' = [daemon EXCEPT !.due = due]
    BY Zenon DEF Fire
  <2>2. daemon = Up("serving", daemon.started, daemon.due)
    BY <1>1 DEF TurnsKept
  <2> HIDE DEF due
  <2>3. [Up("serving", daemon.started, daemon.due) EXCEPT !.due = due] = Up("serving", daemon.started, due)
    BY DEF Up
  <2> QED BY <2>1, <2>2, <2>3
<1>3. DOMAIN daemon.due = Jobs /\ daemon.started \in 0..now
  BY <1>1 DEF TurnsKept
<1>4. \A t \in Threads \ {j} : thread'[t] = thread[t]
  BY <1>1
<1>5. thread'[j] = thread[j] \/ (~Busy(j) /\ thread'[j] = Called(j, "SCHEDULED"))
  BY <1>1, ThreadKinds
<1>6. RowsApart'
  BY <1>1 DEF RowsApart, Between, Done, OfDaemon, Slots, Days
<1>7. MainKept'
  <2>1. ~Busy("main")
    BY <1>1, ThreadKinds DEF TurnsKept, DaemonThreads
  <2>2. thread'["main"] = thread["main"]
    BY <1>4, ThreadKinds
  <2> QED BY <2>1, <2>2 DEF MainKept, Busy
<1>8. \A i \in DOMAIN rows : rows[i].started \in 0..now
  BY DEF IInv, RowsKept
<1>9. FiringKept'
  <2>1. ASSUME NEW k \in Jobs
        PROVE  /\ daemon'.due[k] \in Slots(k)' \cup {MaxTime + 1}
               /\ CaughtUpBefore(k, daemon.due[k])'
    <3>1. CASE k = j
      <4>1. daemon'.due[k] = NextSlot(k, now)
        BY <1>2, <1>3, <3>1 DEF Up
      <4> DEFINE next == NextSlot(k, now)
      <4>2. next \in Slots(k) \cup {MaxTime + 1} /\ next \in Nat /\ next > now
        BY <1>1, NextSlotIs
      <4> HIDE DEF next
      <4>3. \A i \in DOMAIN rows : rows[i].started < next
        BY <1>1, <1>8, <4>2, ClockAssumption
      <4> QED BY <1>1, <4>1, <4>2, <4>3 DEF CaughtUpBefore, Slots, Days, next
    <3>2. CASE k # j
      <4>1. daemon'.due[k] = daemon.due[k]
        BY <1>2, <1>3, <3>2 DEF Up
      <4> QED BY <1>1, <4>1 DEF FiringKept, CaughtUpBefore, Slots, Days
    <3> QED BY <3>1, <3>2
  <2>2. ASSUME NEW k \in Jobs, Busy(k)'
        PROVE  \E s \in Slots(k)' : IsFor(k, s)' /\ CaughtUpBefore(k, s)'
    <3>1. CASE thread'[k] = thread[k]
      <4>1. Busy(k) /\ thread[k].job \in Jobs /\ k \in Threads
        BY <2>2, <3>1, ThreadKinds DEF Busy, IInv, CallsKept
      <4>2. PICK s \in Slots(k) : IsFor(k, s) /\ CaughtUpBefore(k, s)
        BY <4>1 DEF FiringKept
      <4>3. s \in Slots(k)' /\ IsFor(k, s)'
        BY <1>1, <3>1, <4>1, <4>2, StaysFor DEF Slots, Days
      <4> QED BY <1>1, <4>2, <4>3 DEF CaughtUpBefore
    <3>2. CASE k = j /\ thread'[j] = Called(j, "SCHEDULED")
      <4>1. daemon.due[j] \in Slots(j) \cup {MaxTime + 1} /\ CaughtUpBefore(j, daemon.due[j])
        BY <1>1 DEF FiringKept
      <4>2. daemon.due[j] \in Slots(j)
        BY <1>1, <4>1, ClockAssumption
      <4>3. thread'[j].stage = "called" /\ thread'[j].job = j
        BY <3>2 DEF Called
      <4> QED BY <1>1, <3>2, <4>1, <4>2, <4>3, SlotsAreTimes DEF IsFor, CaughtUpBefore, Slots, Days
    <3> QED BY <1>4, <1>5, <3>1, <3>2, ThreadKinds
  <2> QED BY <2>1, <2>2 DEF FiringKept
<1>10. TurnsKept'
  <2>1. daemon'.stage = "serving" /\ daemon'.started \in 0..now' /\ DOMAIN daemon'.due = Jobs
        /\ daemon' = Up(daemon'.stage, daemon'.started, daemon'.due)
    BY <1>1, <1>2, <1>3 DEF Up
  <2>2. \A t \in Threads \ {j} : Busy(t)' = Busy(t)
    BY <1>4 DEF Busy
  <2>3. \/ thread'[j] = thread[j] /\ Busy(j)' = Busy(j)
        \/ /\ thread'[j].stage = "called" /\ thread'[j].job = j /\ thread'[j].trigger = "SCHEDULED"
    BY <1>5 DEF Busy, Called
  <2>4. \A t \in DaemonThreads : Busy(t)' => t \in Jobs
    BY <1>1, <2>2, <2>3, ThreadKinds DEF TurnsKept, DaemonThreads
  <2> QED BY <1>1, <1>4, <2>1, <2>2, <2>3, <2>4, ThreadKinds DEF TurnsKept
<1> QED BY <1>6, <1>7, <1>9, <1>10

\* A call is skipped, returns or leaves, with no row written: it is over, or goes on for the
\* same slot.
LEMMA GoesOnKeeps ==
    ASSUME IInv, CatchupInv, NEW t \in Threads, Busy(t), NEW next,
           thread' = [thread EXCEPT ![t] = next], UNCHANGED <<now, daemon, rows>>,
           \/ next = Idle
           \/ /\ next.stage \in {"called", "returning"} /\ next.job = thread[t].job
              /\ \/ next.trigger = thread[t].trigger
                 \/ next.trigger = "AUTOMATIC_RETRY" /\ t \in DaemonThreads
              /\ HasSucceeded(t) => next.stage = "returning" /\ next.result = "SUCCESS"
    PROVE  CatchupInv'
<1> USE DEF CatchupInv
<1>1. DOMAIN thread = Threads /\ now \in Nat /\ now' = now /\ rows' = rows /\ daemon' = daemon
  BY DEF IInv, CallsKept, RowsKept
<1>2. thread'[t] = next /\ \A u \in Threads \ {t} : thread'[u] = thread[u]
  BY <1>1
<1>3. Busy(t)' => /\ thread'[t].stage \in {"called", "returning"} /\ thread'[t].job = thread[t].job
                  /\ \/ thread'[t].trigger = thread[t].trigger
                     \/ thread'[t].trigger = "AUTOMATIC_RETRY" /\ t \in DaemonThreads
                  /\ HasSucceeded(t) => HasSucceeded(t)'
  BY <1>2 DEF Busy, Idle, HasSucceeded
<1>4. RowsApart'
  BY <1>1 DEF RowsApart, Between, Done, OfDaemon, Slots, Days
<1>5. thread'[t].stage # "running"
  BY <1>2 DEF Idle
<1>6. MainKept'
  <2>1. CASE t # "main"
    BY <1>1, <1>2, <2>1, ThreadKinds, MainStays
  <2>2. CASE t = "main" /\ Busy("main")'
    <3>1. PICK s \in Slots(thread["main"].job) :
            /\ IsFor("main", s) /\ s <= daemon.started
            /\ ~HasSucceeded("main") => NoneSince(thread["main"].job, s)
      BY <2>2 DEF MainKept
    <3>2. s \in Slots(thread["main"].job)' /\ IsFor("main", s)'
      BY <1>1, <1>3, <1>5, <2>2, <3>1 DEF IsFor, Slots, Days
    <3>3. ~HasSucceeded("main")' => NoneSince(thread["main"].job, s)'
      BY <1>1, <1>3, <2>2, <3>1 DEF NoneSince, Done, OfDaemon
    <3> QED BY <1>1, <3>1, <3>2, <3>3 DEF MainKept
  <2>3. CASE ~Busy("main")'
    BY <2>3 DEF MainKept
  <2> QED BY <2>1, <2>2, <2>3
<1>7. FiringKept'
  <2>1. CASE t \notin Jobs
    BY <1>1, <1>2, <2>1, ThreadKinds, FiringStays
  <2>2. CASE t \in Jobs
    <3>1. ASSUME NEW j \in Jobs, Busy(j)' PROVE \E s \in Slots(j)' : IsFor(j, s)' /\ CaughtUpBefore(j, s)'
      <4>1. Busy(j) /\ j \in Threads /\ thread[j].job \in Jobs
        BY <1>2, <3>1, ThreadKinds DEF Busy, IInv, CallsKept
      <4>2. PICK s \in Slots(j) : IsFor(j, s) /\ CaughtUpBefore(j, s)
        BY <4>1 DEF FiringKept
      <4>3. s \in Slots(j)' /\ CaughtUpBefore(j, s)'
        BY <1>1, <4>2 DEF CaughtUpBefore, Slots, Days
      <4>4. CASE j = t
        BY <1>1, <1>3, <1>5, <3>1, <4>2, <4>3, <4>4 DEF IsFor, Slots, Days
      <4>5. CASE j # t
        BY <1>1, <1>2, <4>1, <4>2, <4>3, <4>5, StaysFor
      <4> QED BY <4>4, <4>5
    <3>2. \A j \in Jobs : daemon'.stage = "serving" =>
             daemon'.due[j] \in Slots(j)' \cup {MaxTime + 1} /\ CaughtUpBefore(j, daemon.due[j])'
      BY <1>1 DEF FiringKept, CaughtUpBefore, Slots, Days
    <3> QED BY <3>1, <3>2 DEF FiringKept
  <2> QED BY <2>1, <2>2
<1>8. TurnsKept'
  <2>1. \A u \in Threads : Busy(u)' => Busy(u)
    BY <1>2 DEF Busy
  <2>2. ASSUME NEW u \in Threads, Busy(u)'
        PROVE  /\ u \in Processes => thread'[u].trigger \in {"MANUAL", "MANUAL_DAILY"}
               /\ u = "main" => thread'[u].trigger \in {"STARTUP_CATCHUP", "AUTOMATIC_RETRY"}
               /\ u \in Jobs => thread'[u].job = u /\ thread'[u].trigger \in {"SCHEDULED", "AUTOMATIC_RETRY"}
    BY <1>2, <1>3, <2>1, <2>2, ThreadKinds, ThreadsAssumption DEF TurnsKept
  <2>3. DaemonThreads \subseteq Threads
    BY DEF Threads
  <2> QED BY <1>1, <1>2, <1>5, <2>1, <2>2, <2>3 DEF TurnsKept
<1> QED BY <1>4, <1>6, <1>7, <1>8

\* The calls that are skipped, and the runs that raise, leave or are not stored.
LEMMA CallStepKeeps ==
    ASSUME IInv, CatchupInv, NEW t \in Threads,
           \/ Skip(t) \/ Raise(t) \/ Leave(t)
           \/ rows' = rows /\ \E outcome \in Outcomes, stored \in Stored : Conclude(t, outcome, stored)
    PROVE  CatchupInv'
<1>1. ASSUME NEW result, thread' = [thread EXCEPT ![t] = Returning(t, result)],
             thread[t].stage = "running", UNCHANGED <<now, daemon, rows>>
      PROVE  CatchupInv'
  <2> DEFINE next == Returning(t, result)
  <2>1. next.stage = "returning" /\ next.job = thread[t].job /\ next.trigger = thread[t].trigger
    BY DEF Returning
  <2> HIDE DEF next
  <2>2. ~HasSucceeded(t) /\ Busy(t)
    BY <1>1 DEF HasSucceeded, Busy
  <2>3. thread' = [thread EXCEPT ![t] = next]
    BY <1>1 DEF next
  <2> QED BY <1>1, <2>1, <2>2, <2>3, GoesOnKeeps
<1>2. ASSUME NEW result, thread' = [thread EXCEPT ![t] = AfterCall(t, result)],
             Busy(t), HasSucceeded(t) => result = "SUCCESS", UNCHANGED <<now, daemon, rows>>
      PROVE  CatchupInv'
  <2> DEFINE next == AfterCall(t, result)
  <2>1. \/ next = Idle
        \/ /\ next = Called(thread[t].job, "AUTOMATIC_RETRY")
           /\ t \in DaemonThreads /\ result \in Retryable
    BY DEF AfterCall
  <2>2. ASSUME next = Called(thread[t].job, "AUTOMATIC_RETRY"), result \in Retryable
        PROVE  /\ next.stage = "called" /\ next.job = thread[t].job /\ next.trigger = "AUTOMATIC_RETRY"
               /\ ~HasSucceeded(t)
    BY <1>2, <2>2 DEF Called, Retryable
  <2>3. thread' = [thread EXCEPT ![t] = next]
    BY <1>2
  <2> HIDE DEF next
  <2> QED BY <1>2, <2>1, <2>2, <2>3, GoesOnKeeps
<1>3. CASE Skip(t)
  <2>1. Busy(t) /\ ~HasSucceeded(t)
    BY <1>3 DEF Skip, Busy, HasSucceeded
  <2> QED BY <1>2, <1>3, <2>1 DEF Skip
<1>4. CASE Raise(t)
  BY <1>1, <1>4 DEF Raise
<1>5. CASE Leave(t)
  <2>1. Busy(t) /\ (HasSucceeded(t) => thread[t].result = "SUCCESS")
    BY <1>5 DEF Leave, Busy, HasSucceeded
  <2> QED BY <1>2, <1>5, <2>1 DEF Leave
<1>6. ASSUME rows' = rows, NEW outcome \in Outcomes, NEW stored \in Stored, Conclude(t, outcome, stored)
      PROVE  CatchupInv'
  BY <1>1, <1>6 DEF Conclude
<1> QED BY <1>3, <1>4, <1>5, <1>6

\* A run begins now, and so after the slot it is for.
LEMMA BeginStepKeeps ==
    ASSUME IInv, CatchupInv, NEW t \in Threads, NEW stored \in BOOLEAN, Begin(t, stored)
    PROVE  CatchupInv'
<1> USE DEF CatchupInv
<1> DEFINE j   == thread[t].job
           run == IF stored THEN Len(rows) + 1 ELSE None
<1>1. /\ DOMAIN thread = Threads /\ now \in Nat /\ now' = now /\ daemon' = daemon
      /\ thread[t].stage = "called" /\ Busy(t) /\ j \in Jobs
      /\ thread' = [thread EXCEPT ![t] = Running(t, run)]
  BY DEF Begin, IInv, CallsKept, RowsKept, Busy
<1>2. /\ thread'[t].stage = "running" /\ thread'[t].run = run
      /\ thread'[t].job = j /\ thread'[t].trigger = thread[t].trigger
      /\ \A u \in Threads \ {t} : thread'[u] = thread[u]
  BY <1>1 DEF Running
<1>3. /\ \A i \in DOMAIN rows :
           /\ i \in DOMAIN rows' /\ rows'[i].started = rows[i].started
           /\ rows'[i].job = rows[i].job /\ rows'[i].trigger = rows[i].trigger
           /\ rows'[i].status = "SUCCESS" => rows'[i] = rows[i]
      /\ \A i \in DOMAIN rows' \ DOMAIN rows :
           i = run /\ rows'[i] = Row(j, thread[t].trigger)
      /\ run # None => run \in DOMAIN rows' \ DOMAIN rows
  <2>1. CASE stored
    <3>1. /\ DOMAIN rows = 1..Len(rows) /\ Len(rows) \in Nat
          /\ DOMAIN rows' = 1..(Len(rows) + 1)
          /\ rows'[Len(rows) + 1] = Row(j, thread[t].trigger)
          /\ \A i \in 1..Len(rows) :
               \/ rows'[i] = rows[i]
               \/ /\ rows'[i].status = "FAILED"
                  /\ rows'[i].started = rows[i].started /\ rows'[i].job = rows[i].job
                  /\ rows'[i].trigger = rows[i].trigger
      BY <2>1, BegunRows
    <3> QED BY <2>1, <3>1
  <2>2. CASE ~stored
    BY <2>2 DEF Begin
  <2> QED BY <2>1, <2>2
<1>4. \A i \in DOMAIN rows' \ DOMAIN rows :
        /\ rows'[i].job = j /\ rows'[i].trigger = thread[t].trigger
        /\ rows'[i].started = now /\ rows'[i].status = "RUNNING"
  BY <1>3 DEF Row
<1> HIDE DEF run, j
<1>5. ASSUME NEW u \in Threads \ {t}, NEW s, IsFor(u, s) PROVE IsFor(u, s)'
  <2>1. thread[u].stage = "running" /\ thread[u].run # None => thread[u].run \in DOMAIN rows
    BY DEF IInv, RunsOpen
  <2> QED BY <1>1, <1>2, <1>3, <1>5, <2>1 DEF IsFor, Slots, Days
<1>6. ASSUME NEW s, IsFor(t, s) PROVE IsFor(t, s)'
  BY <1>1, <1>2, <1>3, <1>4, <1>6 DEF IsFor, Slots, Days, j
<1>7. ASSUME NEW k, NEW s, NoneSince(k, s) PROVE NoneSince(k, s)'
  <2> SUFFICES ASSUME NEW i \in DOMAIN rows', Done(rows'[i], k) PROVE rows'[i].finished < s
    BY DEF NoneSince, Done, OfDaemon
  <2>1. i \in DOMAIN rows /\ rows'[i] = rows[i]
    BY <1>3, <1>4 DEF Done
  <2> QED BY <1>7, <2>1 DEF NoneSince
<1>8. MainKept'
  <2> SUFFICES ASSUME Busy("main")'
               PROVE  \E s \in Slots(thread["main"].job)' :
                        /\ IsFor("main", s)' /\ s <= daemon'.started
                        /\ ~HasSucceeded("main")' => NoneSince(thread["main"].job, s)'
    BY DEF MainKept
  <2>1. Busy("main") /\ thread'["main"].job = thread["main"].job
    BY <1>1, <1>2, ThreadKinds DEF Busy, j
  <2>2. PICK s \in Slots(thread["main"].job) :
          /\ IsFor("main", s) /\ s <= daemon.started
          /\ ~HasSucceeded("main") => NoneSince(thread["main"].job, s)
    BY <2>1 DEF MainKept
  <2>3. s \in Slots(thread["main"].job)' /\ IsFor("main", s)'
    BY <1>5, <1>6, <2>1, <2>2, ThreadKinds DEF Slots, Days
  <2>4. ~HasSucceeded("main")' => ~HasSucceeded("main")
    BY <1>1, <1>2, ThreadKinds DEF HasSucceeded
  <2>5. NoneSince(thread["main"].job, s) => NoneSince(thread["main"].job, s)'
    BY <1>7, <2>1 DEF NoneSince, Done, OfDaemon
  <2> QED BY <1>1, <2>2, <2>3, <2>4, <2>5
<1>9. ASSUME NEW k \in Jobs, NEW s, Busy(k) \/ daemon.stage = "serving", CaughtUpBefore(k, s)
      PROVE  CaughtUpBefore(k, s)'
  <2>1. t # "main"
    BY <1>1, <1>9, ThreadKinds DEF TurnsKept, DaemonThreads
  <2>2. thread[t].trigger # "STARTUP_CATCHUP"
    BY <1>1, <2>1, ThreadKinds DEF TurnsKept
  <2> QED BY <1>3, <1>4, <1>9, <2>2 DEF CaughtUpBefore
<1>10. FiringKept'
  <2>1. ASSUME NEW k \in Jobs, Busy(k)' PROVE \E s \in Slots(k)' : IsFor(k, s)' /\ CaughtUpBefore(k, s)'
    <3>1. Busy(k)
      BY <1>1, <1>2, <2>1, ThreadKinds DEF Busy
    <3>2. PICK s \in Slots(k) : IsFor(k, s) /\ CaughtUpBefore(k, s)
      BY <3>1 DEF FiringKept
    <3>3. s \in Slots(k)' /\ IsFor(k, s)' /\ CaughtUpBefore(k, s)'
      BY <1>5, <1>6, <1>9, <3>1, <3>2, ThreadKinds DEF Slots, Days
    <3> QED BY <3>3
  <2>2. ASSUME NEW k \in Jobs, daemon'.stage = "serving"
        PROVE  daemon'.due[k] \in Slots(k)' \cup {MaxTime + 1} /\ CaughtUpBefore(k, daemon.due[k])'
    <3>1. daemon.due[k] \in Slots(k) \cup {MaxTime + 1} /\ CaughtUpBefore(k, daemon.due[k])
      BY <1>1, <2>2 DEF FiringKept
    <3>2. CaughtUpBefore(k, daemon.due[k])'
      BY <1>1, <1>9, <2>2, <3>1 DEF CaughtUpBefore
    <3> QED BY <1>1, <3>1, <3>2 DEF Slots, Days
  <2> QED BY <2>1, <2>2 DEF FiringKept
<1>11. RowsApart'
  <2>1. ASSUME NEW i \in DOMAIN rows', OfDaemon(rows'[i])
        PROVE  \E s \in Slots(rows[i].job)' : s <= rows'[i].started
    <3>1. CASE i \in DOMAIN rows
      <4>1. /\ rows'[i].job = rows[i].job /\ rows'[i].started = rows[i].started
            /\ OfDaemon(rows[i])
        BY <1>3, <2>1, <3>1 DEF OfDaemon
      <4>2. \E s \in Slots(rows[i].job) : s <= rows[i].started
        BY <3>1, <4>1 DEF RowsApart
      <4> QED BY <4>1, <4>2 DEF Slots, Days
    <3>2. CASE i \notin DOMAIN rows
      <4>1. t \in DaemonThreads
        BY <1>1, <1>4, <2>1, <3>2, ThreadKinds DEF TurnsKept, OfDaemon, DaemonThreads
      <4>2. \E s \in Slots(j) : s <= now
        <5>1. CASE t = "main"
          <6>1. Busy("main")
            BY <1>1, <5>1
          <6>2. PICK s \in Slots(thread["main"].job) : IsFor("main", s)
            BY <6>1 DEF MainKept
          <6> QED BY <5>1, <6>2 DEF IsFor, j
        <5>2. CASE t \in Jobs
          <6>1. PICK s \in Slots(t) : IsFor(t, s)
            BY <1>1, <5>2 DEF FiringKept
          <6>2. j = t
            BY <1>1, <5>2 DEF TurnsKept, j
          <6> QED BY <6>1, <6>2 DEF IsFor
        <5> QED BY <4>1, <5>1, <5>2 DEF DaemonThreads
      <4>3. rows'[i].job = j /\ rows'[i].started = now
        BY <1>4, <3>2
      <4> QED BY <4>2, <4>3 DEF Slots, Days
    <3> QED BY <3>1, <3>2
  <2>2. ASSUME NEW i \in DOMAIN rows', rows'[i].status = "SUCCESS"
        PROVE  i \in DOMAIN rows /\ rows'[i] = rows[i]
    BY <1>3, <1>4, <2>2
  <2> QED BY <2>1, <2>2 DEF RowsApart, Done, OfDaemon, Between, Slots, Days
<1>12. TurnsKept'
  <2>1. \A u \in Threads : Busy(u)' => Busy(u) /\ thread'[u].job = thread[u].job /\ thread'[u].trigger = thread[u].trigger
    BY <1>1, <1>2 DEF Busy, j
  <2>2. ASSUME NEW u \in Threads, thread'[u].stage = "running", thread'[u].run # None
        PROVE  rows'[thread'[u].run].trigger = thread'[u].trigger
    <3>1. CASE u = t
      BY <1>2, <1>3, <1>4, <2>2, <3>1
    <3>2. CASE u # t
      BY <1>2, <1>3, <2>2, <3>2 DEF TurnsKept, IInv, RunsOpen
    <3> QED BY <3>1, <3>2
  <2>3. DaemonThreads \subseteq Threads
    BY DEF Threads
  <2> QED BY <1>1, <2>1, <2>2, <2>3 DEF TurnsKept
<1> QED BY <1>8, <1>10, <1>11, <1>12

\* A run of the daemon succeeds: it has begun after a slot that the earlier runs it must be
\* apart from were before.
LEMMA ConcludeStepKeeps ==
    ASSUME IInv, CatchupInv, NEW t \in Threads, NEW outcome \in Outcomes, NEW stored \in Stored,
           Conclude(t, outcome, stored)
    PROVE  CatchupInv'
<1> USE DEF CatchupInv
<1> DEFINE run     == thread[t].run
           j       == thread[t].job
           verdict == Verdict(thread[t].job, outcome)
<1>0. CASE rows' = rows
  BY <1>0, CallStepKeeps
<1>1. CASE /\ run # None /\ run \in DOMAIN rows /\ DOMAIN rows' = DOMAIN rows
           /\ rows[run].status = "RUNNING"
           /\ rows'[run].job = rows[run].job
           /\ rows'[run].trigger = rows[run].trigger
           /\ rows'[run].started = rows[run].started
           /\ rows'[run].status = verdict /\ rows'[run].finished = now
           /\ \A i \in DOMAIN rows \ {run} : rows'[i] = rows[i]
  <2>1. /\ DOMAIN thread = Threads /\ now \in Nat /\ now' = now /\ daemon' = daemon
        /\ thread[t].stage = "running" /\ Busy(t) /\ j \in Jobs
        /\ thread' = [thread EXCEPT ![t] = Returning(t, verdict)]
    BY DEF Conclude, IInv, CallsKept, RowsKept, Busy
  <2>2. /\ thread'[t].stage = "returning" /\ thread'[t].result = verdict
        /\ thread'[t].job = j /\ thread'[t].trigger = thread[t].trigger
        /\ \A u \in Threads \ {t} : thread'[u] = thread[u]
    BY <2>1 DEF Returning
  <2>3. rows[run].job = j /\ rows[run].trigger = thread[t].trigger
    BY <1>1, <2>1 DEF IInv, RunsOpen, TurnsKept
  <2> HIDE DEF run, j, verdict
  <2>4. \A i \in DOMAIN rows :
          /\ rows'[i].job = rows[i].job /\ rows'[i].trigger = rows[i].trigger
          /\ rows'[i].started = rows[i].started
          /\ rows[i].status = "SUCCESS" => rows'[i] = rows[i] /\ i # run
          /\ rows'[i].status = "SUCCESS" => \/ rows'[i] = rows[i] /\ i # run
                                            \/ i = run /\ verdict = "SUCCESS"
    BY <1>1
  <2>5. ASSUME NEW u \in Threads, NEW s, IsFor(u, s) PROVE IsFor(u, s)'
    <3>1. CASE u = t
      BY <2>1, <2>2, <2>5, <3>1 DEF IsFor, Slots, Days, j
    <3>2. CASE u # t
      <4>1. thread[u].stage = "running" /\ thread[u].run # None => thread[u].run \in DOMAIN rows
        BY DEF IInv, RunsOpen
      <4> QED BY <2>1, <2>2, <2>4, <2>5, <3>2, <4>1 DEF IsFor, Slots, Days
    <3> QED BY <3>1, <3>2
  <2>6. ASSUME NEW k, NEW s, NoneSince(k, s), verdict # "SUCCESS" \/ t \in Processes
        PROVE  NoneSince(k, s)'
    <3> SUFFICES ASSUME NEW i \in DOMAIN rows', Done(rows'[i], k) PROVE rows'[i].finished < s
      BY DEF NoneSince, Done, OfDaemon
    <3>1. i \in DOMAIN rows /\ rows'[i].status = "SUCCESS" /\ OfDaemon(rows'[i])
      BY <1>1 DEF Done
    <3>2. t \in Processes => thread[t].trigger \in {"MANUAL", "MANUAL_DAILY"}
      BY <2>1 DEF TurnsKept
    <3>3. rows'[i] = rows[i]
      BY <2>3, <2>4, <2>6, <3>1, <3>2 DEF OfDaemon
    <3> QED BY <2>6, <3>1, <3>3 DEF NoneSince
  <2>7. ASSUME NEW k, NEW s, CaughtUpBefore(k, s) PROVE CaughtUpBefore(k, s)'
    BY <1>1, <2>4, <2>7 DEF CaughtUpBefore
  <2>8. MainKept'
    <3> SUFFICES ASSUME Busy("main")'
                 PROVE  \E s \in Slots(thread["main"].job)' :
                          /\ IsFor("main", s)' /\ s <= daemon'.started
                          /\ ~HasSucceeded("main")' => NoneSince(thread["main"].job, s)'
      BY DEF MainKept
    <3>1. Busy("main") /\ thread'["main"].job = thread["main"].job
      BY <2>1, <2>2, ThreadKinds DEF Busy, j
    <3>2. PICK s \in Slots(thread["main"].job) :
            /\ IsFor("main", s) /\ s <= daemon.started
            /\ ~HasSucceeded("main") => NoneSince(thread["main"].job, s)
      BY <3>1 DEF MainKept
    <3>3. s \in Slots(thread["main"].job)' /\ IsFor("main", s)'
      BY <2>5, <3>1, <3>2, ThreadKinds DEF Slots, Days
    <3>4. t \notin Jobs
      BY <2>1, <3>1, ThreadKinds DEF TurnsKept, DaemonThreads
    <3>5. ASSUME ~HasSucceeded("main")' PROVE NoneSince(thread["main"].job, s)'
      <4>1. ~HasSucceeded("main") /\ (verdict # "SUCCESS" \/ t \in Processes)
        BY <2>1, <2>2, <3>4, <3>5, ThreadKinds DEF HasSucceeded
      <4>2. \A k : NoneSince(k, s) => NoneSince(k, s)'
        BY <2>6, <4>1
      <4> QED BY <3>1, <3>2, <4>1, <4>2 DEF NoneSince, Done, OfDaemon
    <3> QED BY <2>1, <3>2, <3>3, <3>5
  <2>9. FiringKept'
    <3>1. ASSUME NEW k \in Jobs, Busy(k)' PROVE \E s \in Slots(k)' : IsFor(k, s)' /\ CaughtUpBefore(k, s)'
      <4>1. Busy(k)
        BY <2>1, <2>2, <3>1, ThreadKinds DEF Busy
      <4>2. PICK s \in Slots(k) : IsFor(k, s) /\ CaughtUpBefore(k, s)
        BY <4>1 DEF FiringKept
      <4> QED BY <2>5, <2>7, <4>2, ThreadKinds DEF Slots, Days
    <3>2. ASSUME NEW k \in Jobs, daemon'.stage = "serving"
          PROVE  daemon'.due[k] \in Slots(k)' \cup {MaxTime + 1} /\ CaughtUpBefore(k, daemon.due[k])'
      <4>1. daemon.due[k] \in Slots(k) \cup {MaxTime + 1} /\ CaughtUpBefore(k, daemon.due[k])
        BY <2>1, <3>2 DEF FiringKept
      <4>2. CaughtUpBefore(k, daemon.due[k])'
        BY <2>1, <2>7, <4>1 DEF CaughtUpBefore
      <4> QED BY <2>1, <4>1, <4>2 DEF Slots, Days
    <3> QED BY <3>1, <3>2 DEF FiringKept
  <2>10. ASSUME NEW i \in DOMAIN rows, i # run, Done(rows[i], j), OfDaemon(rows[run]), verdict = "SUCCESS",
                rows[i].trigger = "STARTUP_CATCHUP" \/ rows[run].trigger = "STARTUP_CATCHUP"
         PROVE  Between(j, rows[i].started, rows[run].started)
    <3>1. rows[i].job = j /\ rows[i].status = "SUCCESS" /\ rows[i].started \in Nat
          /\ rows[i].finished \in rows[i].started..now /\ rows[run].started \in Nat
      BY <1>1, <2>10 DEF Done, IInv, RowsKept
    <3>2. CASE t = "main"
      <4>1. Busy("main") /\ ~HasSucceeded("main")
        BY <2>1, <3>2 DEF HasSucceeded
      <4>2. PICK s \in Slots(j) : IsFor("main", s) /\ NoneSince(j, s)
        BY <3>2, <4>1 DEF MainKept, j
      <4>3. s <= rows[run].started /\ rows[i].finished < s /\ s \in Nat
        BY <1>1, <2>1, <2>10, <3>2, <4>2, SlotsAreTimes DEF IsFor, NoneSince, run
      <4>4. rows[i].started < s
        BY <2>1, <3>1, <4>3
      <4> QED BY <4>2, <4>3, <4>4 DEF Between
    <3>3. CASE t \in Jobs
      <4>1. j = t /\ thread[t].trigger \in {"SCHEDULED", "AUTOMATIC_RETRY"}
        BY <2>1, <3>3, ThreadKinds DEF TurnsKept, j
      <4>2. PICK s \in Slots(t) : IsFor(t, s) /\ CaughtUpBefore(t, s)
        BY <2>1, <3>3 DEF FiringKept
      <4>3. rows[i].trigger = "STARTUP_CATCHUP"
        BY <2>3, <2>10, <4>1
      <4>4. s <= rows[run].started /\ rows[i].started < s
        BY <1>1, <2>1, <3>1, <4>1, <4>2, <4>3 DEF IsFor, CaughtUpBefore, run
      <4> QED BY <4>1, <4>2, <4>4 DEF Between
    <3>4. CASE t \in Processes
      <4>1. thread[t].trigger \in {"MANUAL", "MANUAL_DAILY"}
        BY <2>1, <3>4 DEF TurnsKept
      <4> QED BY <2>3, <2>10, <4>1 DEF OfDaemon
    <3> QED BY <3>2, <3>3, <3>4, ThreadKinds
  <2>11. RowsApart'
    <3>1. ASSUME NEW i \in DOMAIN rows', OfDaemon(rows'[i])
          PROVE  \E s \in Slots(rows[i].job)' : s <= rows'[i].started
      <4>1. i \in DOMAIN rows /\ OfDaemon(rows[i])
            /\ rows'[i].job = rows[i].job /\ rows'[i].started = rows[i].started
        BY <1>1, <2>4, <3>1 DEF OfDaemon
      <4>2. \E s \in Slots(rows[i].job) : s <= rows[i].started
        BY <4>1 DEF RowsApart
      <4> QED BY <4>1, <4>2 DEF Slots, Days
    <3>2. ASSUME NEW i \in DOMAIN rows', NEW k \in DOMAIN rows', i # k,
                 rows'[i].trigger = "STARTUP_CATCHUP", Done(rows'[i], rows'[i].job), Done(rows'[k], rows'[i].job)
          PROVE  \/ Between(rows[i].job, rows[i].started, rows[k].started)
                 \/ Between(rows[i].job, rows[k].started, rows[i].started)
      <4>1. /\ i \in DOMAIN rows /\ k \in DOMAIN rows
            /\ rows[i].trigger = "STARTUP_CATCHUP" /\ rows[k].job = rows[i].job
            /\ OfDaemon(rows[i]) /\ OfDaemon(rows[k])
            /\ rows'[i].status = "SUCCESS" /\ rows'[k].status = "SUCCESS"
        BY <1>1, <2>4, <3>2 DEF Done, OfDaemon
      <4>2. CASE i # run /\ k # run
        <5>1. Done(rows[i], rows[i].job) /\ Done(rows[k], rows[i].job)
          BY <2>4, <4>1, <4>2 DEF Done
        <5> QED BY <3>2, <4>1, <5>1 DEF RowsApart
      <4>3. CASE i = run
        <5>1. verdict = "SUCCESS" /\ k # run /\ Done(rows[k], j)
          BY <2>3, <2>4, <3>2, <4>1, <4>3 DEF Done
        <5> QED BY <2>3, <2>10, <4>1, <4>3, <5>1
      <4>4. CASE k = run
        <5>1. verdict = "SUCCESS" /\ i # run /\ Done(rows[i], j)
          BY <2>3, <2>4, <3>2, <4>1, <4>4 DEF Done
        <5> QED BY <2>3, <2>10, <4>1, <4>4, <5>1
      <4> QED BY <4>2, <4>3, <4>4
    <3>3. \A i \in DOMAIN rows' : rows'[i].job = rows[i].job /\ rows'[i].started = rows[i].started
      BY <1>1, <2>4
    <3> QED BY <3>1, <3>2, <3>3 DEF RowsApart, Done, OfDaemon, Between, Slots, Days
  <2>12. TurnsKept'
    <3>1. \A u \in Threads : Busy(u)' => Busy(u) /\ thread'[u].job = thread[u].job
                                         /\ thread'[u].trigger = thread[u].trigger
      BY <2>1, <2>2 DEF Busy, j
    <3>2. ASSUME NEW u \in Threads, thread'[u].stage = "running", thread'[u].run # None
          PROVE  rows'[thread'[u].run].trigger = thread'[u].trigger
      BY <2>2, <2>4, <3>2 DEF TurnsKept, IInv, RunsOpen
    <3>3. DaemonThreads \subseteq Threads
      BY DEF Threads
    <3> QED BY <2>1, <3>1, <3>2, <3>3 DEF TurnsKept
  <2> QED BY <2>8, <2>9, <2>11, <2>12
<1> QED BY <1>0, <1>1, ConcludedRows

\* A catch-up remembers what the history said, in every state.
LEMMA CatchupInvariant == Spec => []CatchupInv
<1>1. Init => CatchupInv
  <2> SUFFICES ASSUME Init PROVE CatchupInv
    OBVIOUS
  <2>1. rows = <<>> /\ daemon.stage = "down" /\ (\A t \in Threads : ~Busy(t) /\ thread[t].stage = "idle")
    BY DEF Init, Down, Busy, Idle
  <2>2. DOMAIN rows = {}
    BY <2>1
  <2> QED BY <2>1, <2>2, ThreadKinds
          DEF CatchupInv, TurnsKept, MainKept, FiringKept, RowsApart, DaemonThreads
<1>2. IInv /\ IInv' /\ CatchupInv /\ [Next]_vars => CatchupInv'
  <2> SUFFICES ASSUME IInv, IInv', CatchupInv, [Next]_vars PROVE CatchupInv'
    OBVIOUS
  <2>1. CASE UNCHANGED vars
    BY <2>1
       DEF vars, CatchupInv, TurnsKept, MainKept, FiringKept, RowsApart, Busy, IsFor, HasSucceeded,
           NoneSince, CaughtUpBefore, Done, OfDaemon, Between, Slots, Days
  <2>2. CASE \/ Tick \/ DaemonStart \/ Crash \/ Stop \/ Exit
             \/ (\E p \in Processes, j \in Jobs : Launch(p, j)) \/ (\E p \in Processes : Kill(p))
    BY <2>2, QuietStepKeeps
  <2>3. CASE Serve \/ (\E read \in Stored : Decide(read)) \/ (\E j \in Jobs : Fire(j))
    BY <2>3, ServeKeeps, DecideKeeps, FireKeeps
  <2>4. ASSUME NEW t \in Threads, Work(t) PROVE CatchupInv'
    <3>1. CASE Skip(t) \/ Raise(t) \/ Leave(t)
      BY <3>1, CallStepKeeps
    <3>2. ASSUME NEW stored \in Stored, Begin(t, stored) PROVE CatchupInv'
      BY <3>2, BeginStepKeeps DEF Stored
    <3>3. ASSUME NEW outcome \in Outcomes, NEW stored \in Stored, Conclude(t, outcome, stored)
          PROVE  CatchupInv'
      BY <3>3, ConcludeStepKeeps
    <3> QED BY <2>4, <3>1, <3>2, <3>3 DEF Work
  <2> QED BY <2>1, <2>2, <2>3, <2>4 DEF Next
<1> QED BY <1>1, <1>2, Invariant, PTL DEF Spec

\* startup_catchup_due and _run_catchup: whatever the restarts, suspensions, manual runs and
\* failures of the history, the catch-up and another run of the daemon never both succeed for
\* the same slot.
THEOREM CatchupsRepeatNothing == Spec => []CatchupRepeatsNothing
<1>1. IInv /\ CatchupInv => CatchupRepeatsNothing
  <2> SUFFICES ASSUME IInv, CatchupInv, NEW i \in DOMAIN rows, NEW k \in DOMAIN rows,
                      i # k, rows[i].job = rows[k].job,
                      rows[i].trigger = "STARTUP_CATCHUP", OfDaemon(rows[k]),
                      rows[i].status = "SUCCESS", rows[k].status = "SUCCESS"
               PROVE  LastSlot(rows[i].job, rows[i].started) # LastSlot(rows[k].job, rows[k].started)
    BY DEF CatchupRepeatsNothing
  <2> DEFINE j == rows[i].job
             a == rows[i].started
             b == rows[k].started
  <2>1. j \in Jobs /\ a \in Nat /\ b \in Nat
    <3>1. rows[i] \in RunRow /\ rows[k] \in RunRow
      BY DEF IInv, RowsKept
    <3> QED BY <3>1 DEF RunRow
  <2>2. OfDaemon(rows[i]) /\ Done(rows[i], j) /\ Done(rows[k], j)
    BY DEF OfDaemon, Done
  <2>3. (\E s \in Slots(j) : s <= a) /\ (\E s \in Slots(j) : s <= b)
    BY <2>2 DEF CatchupInv, RowsApart
  <2>4. Between(j, a, b) \/ Between(j, b, a)
    BY <2>2 DEF CatchupInv, RowsApart
  <2> HIDE DEF j, a, b
  <2>5. \A x, y \in Nat : Between(j, x, y) /\ (\E s \in Slots(j) : s <= x)
                          => LastSlot(j, x) # LastSlot(j, y)
    <3> SUFFICES ASSUME NEW x \in Nat, NEW y \in Nat, NEW r \in Slots(j), x < r, r <= y,
                        NEW s \in Slots(j), s <= x
                 PROVE  LastSlot(j, x) # LastSlot(j, y)
      BY DEF Between
    <3>1. LastSlot(j, x) \in Nat /\ LastSlot(j, x) <= x
      BY <2>1, LastSlotIs
    <3>2. LastSlot(j, y) \in Nat /\ r <= LastSlot(j, y)
      BY <2>1, LastSlotIs
    <3>3. r \in Nat
      BY <2>1, SlotsAreTimes
    <3> QED BY <3>1, <3>2, <3>3
  <2>6. LastSlot(j, a) # LastSlot(j, b)
    BY <2>1, <2>3, <2>4, <2>5
  <2> QED BY <2>6 DEF j, a, b
<1> QED BY <1>1, Invariant, CatchupInvariant, PTL

-----------------------------------------------------------------------------
(* The slots that were missed. *)

\* A slot of the day the daemon was started on, and past when it was.
OfStart(s) == s <= daemon.started /\ s \div Period = daemon.started \div Period

RunSince(j) == \E i \in DOMAIN rows : rows[i].job = j /\ rows[i].started >= daemon.started

AboutToCatch(j) ==
    daemon.stage = "catching" /\ thread["main"].stage = "called" /\ thread["main"].job = j

\* From its decision on, a daemon whose slot was missed is about to make its run, or has.
DayCovered ==
    daemon.stage \in {"catching", "serving"} =>
        \A j \in Jobs : \A s \in Slots(j) :
            OfStart(s) => SucceededSince(j, s) \/ RunSince(j) \/ AboutToCatch(j)

\* The lock is held by a run that works, or by nobody.
LockWorks == lock # None => Working(lock)

\* A slot's day is its own.
LEMMA DayOfSlot ==
    ASSUME NEW j \in Jobs, NEW s \in Slots(j)
    PROVE  s \div Period \in Days(j)
<1>1. PICK d \in Days(j) : s = d * Period + SlotOffset
  BY DEF Slots
<1>2. d \in Nat
  BY <1>1, ClockAssumption DEF Days
<1>3. \A p \in Nat \ {0} : \A o \in 0..(p - 1) : (d * p + o) \div p = d
  BY <1>2
<1>4. Period \in Nat \ {0} /\ SlotOffset \in 0..(Period - 1)
  BY ClockAssumption
<1>5. s \div Period = d
  BY <1>1, <1>3, <1>4
<1> QED BY <1>1, <1>5

\* A day has the slot of one job.
LEMMA OneJobADay ==
    ASSUME NEW j \in Jobs, NEW k \in Jobs, NEW r \in Slots(j), NEW s \in Slots(k),
           r \div Period = s \div Period
    PROVE  j = k
<1> DEFINE d == r \div Period
<1>1. d \in Days(j) /\ d \in Days(k)
  BY DayOfSlot
<1> HIDE DEF d
<1>2. d \in DailyDays => d \notin WeeklyDays
  BY ClockAssumption
<1> QED BY <1>1, <1>2 DEF Days, Jobs

\* What is covered stays covered while the daemon is up and the run that was called is not
\* given up.
LEMMA CoverStays ==
    ASSUME IInv, DayCovered, RowsStay, FinalStep,
           daemon'.stage \in {"catching", "serving"} =>
               daemon.stage \in {"catching", "serving"} /\ daemon'.started = daemon.started,
           \A j \in Jobs : daemon'.stage \in {"catching", "serving"} /\ AboutToCatch(j)
                           => AboutToCatch(j)' \/ RunSince(j)'
    PROVE  DayCovered'
<1> SUFFICES ASSUME daemon'.stage \in {"catching", "serving"}, NEW j \in Jobs, NEW s \in Slots(j), OfStart(s)'
             PROVE  SucceededSince(j, s)' \/ RunSince(j)' \/ AboutToCatch(j)'
  BY DEF DayCovered, Slots, Days
<1>1. SucceededSince(j, s) \/ RunSince(j) \/ AboutToCatch(j)
  BY DEF DayCovered, OfStart
<1>2. SucceededSince(j, s) => SucceededSince(j, s)'
  BY DEF SucceededSince, FinalStep
<1>3. RunSince(j) => RunSince(j)'
  BY DEF RunSince, RowsStay
<1> QED BY <1>1, <1>2, <1>3

\* No step lets two runs into the lock.
LEMMA LockWorksStays == ASSUME IInv, CatchupInv, LockWorks, Next PROVE LockWorks'
<1>1. DOMAIN thread = Threads /\ lock \in Threads \cup {None} /\ None \notin Threads
  BY ThreadsAssumption DEF IInv, CallsKept
<1>2. CASE lock' = lock /\ (lock # None => thread'[lock] = thread[lock])
  BY <1>2 DEF LockWorks, Working
<1>3. ASSUME NEW j \in Jobs, Fire(j) PROVE LockWorks'
  <2>1. lock' = lock /\ (thread' = thread \/ (~Busy(j) /\ thread' = [thread EXCEPT ![j] = Called(j, "SCHEDULED")]))
    BY <1>3 DEF Fire
  <2>2. lock # None => Busy(lock)
    BY DEF LockWorks, Working, Busy
  <2> QED BY <1>1, <1>2, <2>1, <2>2
<1>4. ASSUME NEW t \in Threads, Work(t) PROVE LockWorks'
  <2>1. ASSUME NEW stored \in Stored, Begin(t, stored) PROVE LockWorks'
    BY <1>1, <2>1 DEF Begin, LockWorks, Working, Running
  <2>2. CASE Skip(t)
    <3>1. lock # t /\ lock' = lock /\ thread' = [thread EXCEPT ![t] = AfterCall(t, "DUPLICATE_SKIPPED")]
      BY <2>2 DEF Skip, LockWorks, Working
    <3> QED BY <1>1, <1>2, <3>1
  <2>3. ASSUME NEW result, thread' = [thread EXCEPT ![t] = Returning(t, result)], lock' = lock PROVE LockWorks'
    BY <1>1, <2>3 DEF LockWorks, Working, Returning
  <2>4. CASE Leave(t)
    BY <2>4 DEF Leave, LockWorks
  <2>5. ASSUME NEW outcome \in Outcomes, NEW stored \in Stored, Conclude(t, outcome, stored) PROVE LockWorks'
    BY <2>3, <2>5 DEF Conclude
  <2> QED BY <1>4, <2>1, <2>2, <2>3, <2>4, <2>5 DEF Work, Raise
<1>5. ASSUME NEW read \in Stored, Decide(read) PROVE LockWorks'
  <2>1. lock' = lock /\ \A t \in Threads \ {"main"} : thread'[t] = thread[t]
    BY <1>1, <1>5 DEF Decide
  <2>2. ~Busy("main")
    BY <1>5 DEF Decide, CatchupInv, TurnsKept, DaemonThreads
  <2>3. lock # "main"
    BY <1>1, <2>2, ThreadKinds DEF LockWorks, Working, Busy
  <2> QED BY <1>1, <1>2, <2>1, <2>3
<1>6. ASSUME NEW p \in Processes, NEW j \in Jobs, Launch(p, j) PROVE LockWorks'
  <2>1. lock' = lock /\ \A t \in Threads \ {p} : thread'[t] = thread[t]
    BY <1>1, <1>6 DEF Launch
  <2>2. lock # p
    BY <1>1, <1>6, ThreadKinds DEF Launch, LockWorks, Working, Busy
  <2> QED BY <1>1, <1>2, <2>1, <2>2
<1>7. ASSUME NEW threads, Die(threads) PROVE LockWorks'
  BY <1>1, <1>7 DEF Die, LockWorks, Working
<1>8. CASE UNCHANGED <<thread, lock>>
  BY <1>2, <1>8
<1> QED BY <1>3, <1>4, <1>5, <1>6, <1>7, <1>8
        DEF Next, Tick, DaemonStart, Serve, Crash, Kill, Stop, Exit

\* The decision: the job of the day is called for, if it was missed.
LEMMA DecideCovers ==
    ASSUME IInv, CatchupInv, Decide(TRUE)
    PROVE  DayCovered'
<1> DEFINE due == \E j \in Jobs : CatchupDue(j, daemon.started)
           c   == CHOOSE j \in Jobs : CatchupDue(j, daemon.started)
<1>1. /\ DOMAIN thread = Threads /\ rows' = rows /\ daemon.stage = "starting"
      /\ daemon' = [daemon EXCEPT !.stage = "catching"]
      /\ thread' = [thread EXCEPT !["main"] = IF due THEN Called(c, "STARTUP_CATCHUP") ELSE Idle]
  BY DEF IInv, CallsKept, Decide
<1>2. due => c \in Jobs /\ CatchupDue(c, daemon.started)
  OBVIOUS
<1> HIDE DEF c
<1>3. daemon'.stage = "catching" /\ daemon'.started = daemon.started
  <2>1. daemon = Up(daemon.stage, daemon.started, daemon.due)
    BY <1>1 DEF CatchupInv, TurnsKept
  <2>2. [Up(daemon.stage, daemon.started, daemon.due) EXCEPT !.stage = "catching"]
          = Up("catching", daemon.started, daemon.due)
    BY DEF Up
  <2>3. daemon' = Up("catching", daemon.started, daemon.due)
    BY <1>1, <2>1, <2>2
  <2> QED BY <2>3 DEF Up
<1> SUFFICES ASSUME NEW j \in Jobs, NEW s \in Slots(j), OfStart(s), ~SucceededSince(j, s)
             PROVE  AboutToCatch(j)'
  BY <1>1, <1>3 DEF DayCovered, OfStart, SucceededSince, Slots, Days
<1>4. CatchupDue(j, daemon.started)
  BY DEF CatchupDue, OfStart
<1>5. due /\ CatchupDue(c, daemon.started) /\ c \in Jobs
  BY <1>2, <1>4
<1>6. PICK r \in Slots(c) : r \div Period = daemon.started \div Period
  BY <1>5 DEF CatchupDue
<1>7. j = c
  BY <1>5, <1>6, OneJobADay DEF OfStart
<1>8. thread'["main"] = Called(c, "STARTUP_CATCHUP")
  BY <1>1, <1>5, ThreadKinds
<1> QED BY <1>3, <1>7, <1>8 DEF AboutToCatch, Called

\* Only the run itself takes the call of the catch-up away, when no other process can hold
\* the lock against it, and it stores its row.
LEMMA StepCovers ==
    ASSUME Processes = {}, Faults = FALSE, IInv, CatchupInv, LockWorks, DayCovered, Next
    PROVE  DayCovered'
<1>1. RowsStay /\ FinalStep /\ DOMAIN thread = Threads
  BY RowsAlwaysStay, StepKeeps DEF IInv, CallsKept
<1>2. Stored = {TRUE}
  BY DEF Stored
<1>3. CASE UNCHANGED daemon /\ thread'["main"] = thread["main"]
  <2>1. \A j \in Jobs : AboutToCatch(j) => AboutToCatch(j)'
    BY <1>3 DEF AboutToCatch
  <2> QED BY <1>1, <1>3, <2>1, CoverStays
<1>4. CASE daemon'.stage \notin {"catching", "serving"}
  BY <1>4 DEF DayCovered
<1>5. CASE Tick
  BY <1>3, <1>5 DEF Tick
<1>6. CASE DaemonStart \/ Crash \/ Exit
  BY <1>4, <1>6 DEF DaemonStart, Crash, Exit, Up, Down
<1>7. CASE Stop
  <2>1. daemon'.stage = "stopping"
    BY <1>7 DEF Stop, IInv, DaemonKept
  <2> QED BY <1>4, <2>1
<1>8. CASE \E read \in Stored : Decide(read)
  BY <1>2, <1>8, DecideCovers
<1>9. CASE Serve
  <2>1. daemon.stage = "catching" /\ daemon'.started = daemon.started /\ ~AboutToCatch("daily")
        /\ ~AboutToCatch("weekly")
    BY <1>9 DEF Serve, Up, AboutToCatch, Busy
  <2> QED BY <1>1, <2>1, CoverStays DEF Jobs
<1>10. ASSUME NEW j \in Jobs, Fire(j) PROVE DayCovered'
  <2>1. daemon.stage = "serving" /\ daemon' = [daemon EXCEPT !.due = [daemon.due EXCEPT ![j] = NextSlot(j, now)]]
    BY <1>10, Zenon DEF Fire
  <2>2. daemon = Up(daemon.stage, daemon.started, daemon.due)
    BY <2>1 DEF CatchupInv, TurnsKept
  <2>3. daemon'.started = daemon.started
    BY <2>1, <2>2 DEF Up
  <2>4. \A k \in Jobs : ~AboutToCatch(k)
    BY <2>1 DEF AboutToCatch
  <2> QED BY <1>1, <2>1, <2>3, <2>4, CoverStays
<1>11. ASSUME NEW t \in Threads, Work(t) PROVE DayCovered'
  <2>1. daemon' = daemon
    BY <1>11 DEF Work, Begin, Skip, Conclude, Raise, Leave
  <2>2. CASE t # "main"
    <3>1. thread'["main"] = thread["main"]
      <4>1. \E next : thread' = [thread EXCEPT ![t] = next]
        BY <1>11, Zenon DEF Work, Begin, Skip, Conclude, Raise, Leave
      <4> QED BY <1>1, <2>2, <4>1, ThreadKinds
    <3> QED BY <1>3, <2>1, <3>1
  <2>3. ASSUME t = "main", NEW j \in Jobs, AboutToCatch(j) PROVE RunSince(j)'
    <3>1. ~Skip(t)
      <4>1. Busy(t) /\ \A u \in DaemonThreads : Busy(u) => u = "main"
        BY <2>3, ThreadKinds DEF AboutToCatch, Busy, CatchupInv, TurnsKept
      <4>2. \A u \in Threads : ~Working(u)
        BY <2>3, <4>1 DEF AboutToCatch, Working, Busy, Threads
      <4> QED BY <4>2 DEF Skip, LockWorks, IInv, CallsKept
    <3>2. Begin(t, TRUE)
      BY <1>2, <1>11, <2>3, <3>1 DEF Work, AboutToCatch, Conclude, Raise, Leave
    <3>3. /\ DOMAIN rows' = 1..(Len(rows) + 1) /\ Len(rows) \in Nat
          /\ rows'[Len(rows) + 1] = Row(j, thread[t].trigger)
      BY <2>3, <3>2, BegunRows DEF AboutToCatch
    <3>4. daemon.started \in 0..now /\ now \in Nat
      BY <2>3 DEF AboutToCatch, CatchupInv, TurnsKept, IInv, RowsKept
    <3> QED BY <2>1, <3>3, <3>4 DEF RunSince, Row
  <2> QED BY <1>1, <2>1, <2>2, <2>3, CoverStays
<1> QED BY <1>5, <1>6, <1>7, <1>8, <1>9, <1>10, <1>11 DEF Next

\* startup_catchup_due's promise, on a host where the daemon is alone with the lock and the
\* history can be read and written: a daemon that serves has found a success of today's slot
\* that was past when it started, or has made a run for it since.
THEOREM MissedSlotsAreCovered ==
    ASSUME Processes = {}, Faults = FALSE
    PROVE  Spec => []SlotsCovered
<1> DEFINE Covers == LockWorks /\ DayCovered
<1>1. Init => Covers
  BY DEF Init, LockWorks, DayCovered, Down
<1>2. IInv /\ CatchupInv /\ Covers /\ [Next]_vars => Covers'
  <2>1. CASE UNCHANGED vars
    BY <2>1 DEF vars, LockWorks, Working, DayCovered, OfStart, SucceededSince, RunSince, AboutToCatch, Slots, Days
  <2> QED BY <2>1, LockWorksStays, StepCovers
<1>3. IInv /\ CatchupInv /\ Covers => SlotsCovered
  <2> SUFFICES ASSUME IInv, CatchupInv, DayCovered, daemon.stage = "serving",
                      NEW j \in Jobs, NEW s \in Slots(j), s \div Period = now \div Period, s <= daemon.started
               PROVE  SucceededSince(j, s) \/ RunSince(j)
    BY DEF SlotsCovered, RunSince
  <2>1. daemon.started \in Nat /\ daemon.started <= now /\ now \in Nat /\ s \in Nat /\ Period \in Nat \ {0}
    BY SlotsAreTimes, ClockAssumption DEF CatchupInv, TurnsKept, IInv, RowsKept
  <2>2. \A a, b \in Nat, p \in Nat \ {0} : a <= b => a \div p <= b \div p /\ a \div p \in Nat /\ b \div p \in Nat
    OBVIOUS
  <2>3. s \div Period = daemon.started \div Period
    <3>1. s \div Period <= daemon.started \div Period /\ daemon.started \div Period <= now \div Period
          /\ s \div Period \in Nat /\ daemon.started \div Period \in Nat
      BY <2>1, <2>2
    <3> QED BY <3>1
  <2> QED BY <2>3 DEF DayCovered, OfStart, AboutToCatch
<1> QED BY <1>1, <1>2, <1>3, Invariant, CatchupInvariant, PTL DEF Spec

=============================================================================
