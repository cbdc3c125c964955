------------------------------ MODULE Operations ------------------------------
(***************************************************************************)
(* Python processes the back end starts for a user, and the rows they store. *)
(* A request thread refreshes the HERD score of a ticker or of the whole     *)
(* portfolio, or values the portfolio at current prices; the one thread of   *)
(* the operations executor runs a weekly or daily job by hand.  All go       *)
(* through PythonGateway.  The processes share the tables of scores and      *)
(* prices (herd_scores, herd_indicators, daily_prices: one transaction) and  *)
(* the daily snapshots of portfolio_history.                                 *)
(***************************************************************************)
EXTENDS Naturals, FiniteSets, FiniteSetsExt

CONSTANTS Requests,      \* request threads of the back end
          Worker,        \* the thread of schedulerOperationsExecutor
          Pids,          \* bound: processes that live at the same time
          MaxProcesses,  \* MAX_CONCURRENT_PROCESSES
          Nothing,       \* no process, task, program or row
          Tickers,       \* tickers whose scores are asked for
          Holdings,      \* those the user holds
          Operational,   \* those the jobs collect, _fetch_operational_tickers
          Mixes,         \* sets of kinds of tasks that are asked for together
          Dates,         \* the sessions a collected frame may end with
          Stored         \* those of the rows that are stored at first

VARIABLES permits, call, pid, process,  \* those of PythonGateway
          task,       \* what each thread is at
          requested,  \* the AtomicBoolean of SchedulerOperationsService
          worker,     \* the worker: "free", "busy" (before its call), "calling", "done", "closed"
          program,    \* the state of each process
          prices,     \* per ticker, the dates of its rows of scores and prices
          history,    \* the day's row of portfolio_history
          kinds       \* the kinds of tasks that are asked for

gateway == <<permits, call, pid, process>>
server == <<task, requested, worker>>
tables == <<prices, history>>
vars == <<gateway, server, program, tables, kinds>>

Callers == Requests \cup {Worker}

G == INSTANCE PythonGateway WITH Interruptible <- {Worker}, NoPid <- Nothing

Jobs == {"weekly", "daily"}
Kinds == {"single", "batch", "value"} \cup Jobs

\* What a thread is at: the tickers asked for and, once its process has ended well,
\* the dates of the rows the process stored.
Task(kind, tickers) == [kind |-> kind, tickers |-> tickers, answer |-> Nothing]

\* A process: the tickers it is for, those left, the one it is at, the dates of the frames it has
\* collected, the tickers that failed, the snapshot it is about to store, and
\* whether it found no row to update.
Started(kind, tickers) ==
    [kind |-> kind, of |-> tickers, todo |-> tickers, at |-> Nothing, dates |-> [t \in Tickers |-> 0],
     errors |-> {}, row |-> Nothing, insert |-> FALSE,
     step |-> IF kind = "value" THEN "load" ELSE "collect"]

TaskRecord ==
    [kind : Kinds, tickers : SUBSET Tickers, answer : [Tickers -> Dates \cup {0}] \cup {Nothing}]

\* A snapshot of the portfolio: who took it, the holdings it has no price of, and those
\* whose price is older than the frame the same process has collected.
Snapshots == [by : Kinds, missing : SUBSET Tickers, outdated : SUBSET Tickers]

ProgramSteps == {"collect", "calculate", "save", "load", "price", "store", "end"}

ProgramRecord ==
    [kind : Kinds, of : SUBSET Tickers, todo : SUBSET Tickers, at : Tickers \cup {Nothing},
     dates : [Tickers -> Dates \cup {0}], errors : SUBSET Tickers,
     row : Snapshots \cup {Nothing}, insert : BOOLEAN, step : ProgramSteps]

ASSUME OperationsAssumption ==
    /\ Worker \notin Requests
    /\ G!GatewayAssumption
    /\ Operational \subseteq Tickers
    /\ Holdings \subseteq Tickers
    /\ Dates \subseteq Nat \ {0}
    /\ Stored \subseteq Dates
    /\ Nothing \notin TaskRecord \cup ProgramRecord \cup Snapshots

Init ==
    /\ G!Init
    /\ task = [c \in Callers |-> Nothing]
    /\ requested = FALSE
    /\ worker = "free"
    /\ program = [p \in Pids |-> Nothing]
    /\ prices = [t \in Tickers |-> Stored]
    /\ history = Nothing
    /\ kinds \in Mixes

-----------------------------------------------------------------------------
(* The back end.                                                            *)

Begin(r, new) ==
    /\ task[r] = Nothing
    /\ new.kind \in kinds
    /\ G!Ask(r)
    /\ task' = [task EXCEPT ![r] = new]
    /\ UNCHANGED <<requested, worker, program, tables, kinds>>

RefreshStock(r, t) == Begin(r, Task("single", {t}))

RefreshPortfolio(r) == Begin(r, Task("batch", Holdings))

CurrentPortfolio(r) == Begin(r, Task("value", {}))

\* requestManualRun and requestDailyRun: the compareAndSet,
RequestRun(r, job) ==
    /\ task[r] = Nothing
    /\ job \in kinds
    /\ ~requested
    /\ requested' = TRUE
    /\ task' = [task EXCEPT ![r] = Task(job, {})]
    /\ UNCHANGED <<gateway, worker, program, tables, kinds>>

Handing(r) == task[r] # Nothing /\ task[r].kind \in Jobs

\* and the execute, which an executor without a queue rejects while its only
\* thread is not free.
Execute(r) ==
    /\ Handing(r)
    /\ IF worker = "free"
       THEN /\ task' = [task EXCEPT ![r] = Nothing, ![Worker] = task[r]]
            /\ worker' = "busy"
            /\ UNCHANGED requested
       ELSE /\ task' = [task EXCEPT ![r] = Nothing]
            /\ requested' = FALSE
            /\ UNCHANGED worker
    /\ UNCHANGED <<gateway, program, tables, kinds>>

\* runManualUpdate, runDailyUpdate.
RunUpdate ==
    /\ worker = "busy"
    /\ G!Ask(Worker)
    /\ worker' = "calling"
    /\ UNCHANGED <<task, requested, program, tables, kinds>>

\* What is left of the programs when processes have been reaped.
Remaining == [p \in Pids |-> IF process'[p] = "free" THEN Nothing ELSE program[p]]

\* Their finally, however the call ended.
ClearRequested ==
    /\ worker = "calling"
    /\ call[Worker] = "idle"
    /\ requested' = FALSE
    /\ worker' = "done"
    /\ task' = [task EXCEPT ![Worker] = Nothing]
    /\ UNCHANGED <<gateway, program, tables, kinds>>

\* Mutant: the flag is not cleared when the wait is interrupted.
ShutDownRequested ==
    /\ G!Interrupt(Worker)
    /\ worker' = "closed"
    /\ task' = [task EXCEPT ![Worker] = Nothing]
    /\ program' = Remaining
    /\ UNCHANGED <<requested, tables, kinds>>

\* The executor is shut down and interrupts its thread; it takes no task any more.
ShutDown ==
    /\ G!Interrupt(Worker)
    /\ requested' = FALSE
    /\ worker' = "closed"
    /\ task' = [task EXCEPT ![Worker] = Nothing]
    /\ program' = Remaining
    /\ UNCHANGED <<tables, kinds>>

FreeWorker ==
    /\ worker = "done"
    /\ worker' = "free"
    /\ UNCHANGED <<gateway, task, requested, program, tables, kinds>>

Acquire(c) ==
    /\ G!Acquire(c)
    /\ UNCHANGED <<server, program, tables, kinds>>

Start(c, p) ==
    /\ G!Start(c, p)
    /\ program' = [program EXCEPT ![p] = Started(task[c].kind,
                     IF task[c].kind \in Jobs THEN Operational ELSE task[c].tickers)]
    /\ UNCHANGED <<server, tables, kinds>>

\* Mutant: the errors of a batch are not looked at.
AcceptableAnyway(output) == TRUE

\* failOnBatchErrors: one ticker's error fails the whole batch.
Acceptable(output) == output.kind = "batch" => output.errors = {}

\* The process has ended well.  A refresh goes on to read what is stored.
Receive(c) ==
    /\ G!Receive(c)
    /\ LET output == program[pid[c]]
       IN  task' = [task EXCEPT ![c] =
                      IF @.kind \in {"single", "batch"} /\ Acceptable(output)
                      THEN [@ EXCEPT !.answer = output.dates]
                      ELSE IF c = Worker THEN @ ELSE Nothing]
    /\ program' = Remaining
    /\ UNCHANGED <<requested, worker, tables, kinds>>

\* The refreshed rows are read and the request is answered.
Answer(r) ==
    /\ task[r] # Nothing
    /\ task[r].answer # Nothing
    /\ task' = [task EXCEPT ![r] = Nothing]
    /\ UNCHANGED <<gateway, requested, worker, program, tables, kinds>>

\* The call throws: refused, not started, failed or out of time.
Throw(c) ==
    /\ G!Refuse(c) \/ G!NotStarted(c) \/ G!Fail(c) \/ G!GiveUp(c)
    /\ task' = [task EXCEPT ![c] = IF c = Worker THEN @ ELSE Nothing]
    /\ program' = Remaining
    /\ UNCHANGED <<requested, worker, tables, kinds>>

TimeOut(c) ==
    /\ G!TimeOut(c)
    /\ UNCHANGED <<server, program, tables, kinds>>

\* The server ends and starts again; processes that run stay behind.
Restart ==
    /\ G!Restart
    /\ task' = [c \in Callers |-> Nothing]
    /\ requested' = FALSE
    /\ worker' = "free"
    /\ program' = Remaining
    /\ UNCHANGED <<tables, kinds>>

-----------------------------------------------------------------------------
(* The processes.                                                           *)

\* Process p is at a step of its program, and a kill signal has not reached it.
At(p, step) ==
    /\ process[p] \in {"running", "doomed"}
    /\ program[p] # Nothing
    /\ program[p].step = step

Continue(p, next) ==
    /\ program' = [program EXCEPT ![p] = next]
    /\ UNCHANGED <<gateway, server, kinds>>

\* The process ends by itself.
Ends(p, state) ==
    /\ G!End(p, state)
    /\ program' = Remaining
    /\ UNCHANGED <<server, tables, kinds>>

\* A program that has nothing left to do.
Stopped(prog) == [prog EXCEPT !.row = Nothing, !.insert = FALSE, !.step = "end"]

\* Where a program goes when it is through with ticker t.
After(prog, t) ==
    LET left == prog.todo \ {t}
    IN  [prog EXCEPT !.todo = left, !.at = Nothing, !.insert = FALSE,
                     !.step = IF left # {} THEN (IF prog.kind \in Jobs THEN "calculate" ELSE "collect")
                              ELSE IF prog.kind \in Jobs THEN "load" ELSE "end"]

\* Program p looks in its transaction for a row of the date of the frame of t.
Looking(prog, t) ==
    [prog EXCEPT !.at = t, !.step = "save", !.insert = prog.dates[t] \notin prices[t]]

\* calculate_on_demand with force: collect and calculate, and save_herd_result looks
\* for a row of the frame's last date.
Calculate(p, t, d) ==
    /\ At(p, "collect")
    /\ program[p].kind \notin Jobs
    /\ t \in program[p].todo
    /\ Continue(p, Looking([program[p] EXCEPT !.dates[t] = d], t))
    /\ UNCHANGED tables

\* SchedulerRunLock: the job of another process is at work.
LockHeld(p) ==
    \E q \in Pids \ {p} :
        program[q] # Nothing /\ program[q].kind \in Jobs /\ program[q].step \notin {"collect", "end"}

\* Mutant: the tickers without a frame are not taken out.
SavedAnyway(kind, dates) == IF kind = "weekly" THEN Operational ELSE {}

\* The tickers whose rows a job goes on to save: the weekly one those it has a frame
\* of, the daily one none.
Saved(kind, dates) == IF kind = "weekly" THEN {t \in Operational : dates[t] > 0} ELSE {}

\* The jobs collect all frames first.
CollectFrames(p, dates) ==
    /\ At(p, "collect")
    /\ program[p].kind \in Jobs
    /\ ~LockHeld(p)
    /\ \A t \in Tickers \ Operational : dates[t] = 0
    /\ LET saved == Saved(program[p].kind, dates)
       IN  Continue(p, [program[p] EXCEPT !.dates = dates, !.todo = saved,
                          !.step = IF saved = {} THEN "load" ELSE "calculate"])
    /\ UNCHANGED tables

\* DUPLICATE_SKIPPED: another process has the lock, the daemon's or the one of a
\* caller that gave up.
SkipRun(p) ==
    /\ At(p, "collect")
    /\ program[p].kind \in Jobs
    /\ Continue(p, Stopped(program[p]))
    /\ UNCHANGED tables

\* execute_tickers calculates, and save_herd_result looks for the row.
CalculateNext(p, t) ==
    /\ At(p, "calculate")
    /\ t \in program[p].todo
    /\ Continue(p, Looking(program[p], t))
    /\ UNCHANGED tables

\* Another transaction has inserted the row since: the unique key is violated.
Violated(prog) == prog.insert /\ prog.dates[prog.at] \in prices[prog.at]

\* The rows of all tables are committed.
SaveRow(p) ==
    /\ At(p, "save")
    /\ ~Violated(program[p])
    /\ LET t == program[p].at
       IN  /\ prices' = [prices EXCEPT ![t] = @ \cup {program[p].dates[t]}]
           /\ Continue(p, After(program[p], t))
    /\ UNCHANGED history

\* The tickers that failed.  Those of a job only change its verdict, which
\* SchedulerRuns has.
Reported(p, t) == IF program[p].kind = "batch" THEN program[p].errors \cup {t} ELSE {}

\* Mutant: a save that was rolled back is not reported.
TickerFailsUnseen(p, t) ==
    /\ \/ At(p, "collect") /\ program[p].kind \notin Jobs /\ t \in program[p].todo
       \/ At(p, "calculate") /\ t \in program[p].todo
       \/ At(p, "save") /\ t = program[p].at
    /\ IF program[p].kind = "single"
       THEN Ends(p, "failed")
       ELSE /\ Continue(p, After([program[p] EXCEPT
                  !.errors = IF At(p, "save") THEN @ ELSE Reported(p, t)], t))
            /\ UNCHANGED tables

\* Collecting, calculating or saving one ticker fails.  It fails the process of a
\* single ticker, and is an error of one ticker in a batch or job.
TickerFails(p, t) ==
    /\ \/ At(p, "collect") /\ program[p].kind \notin Jobs /\ t \in program[p].todo
       \/ At(p, "calculate") /\ t \in program[p].todo
       \/ At(p, "save") /\ t = program[p].at
    /\ IF program[p].kind = "single"
       THEN Ends(p, "failed")
       ELSE /\ Continue(p, After([program[p] EXCEPT !.errors = Reported(p, t)], t))
            /\ UNCHANGED tables

Snapshot(kind, missing, outdated) ==
    [by |-> kind, missing |-> missing, outdated |-> outdated]

\* calculate_portfolio_value: the holdings, their newest closing prices and the row
\* of the day, read in one transaction; a holding without a price is left out.
LoadClosing(p) ==
    /\ At(p, "load")
    /\ program[p].kind \in Jobs
    /\ LET frames  == program[p].dates
           closing == [t \in Holdings |-> IF prices[t] = {} THEN 0 ELSE Max(prices[t])]
           row     == Snapshot(program[p].kind, {t \in Holdings : closing[t] = 0},
                               {t \in Holdings : closing[t] \in 1..(frames[t] - 1)})
           loaded  == [Started(program[p].kind, {}) EXCEPT !.row = row, !.step = "store",
                                                           !.insert = (history = Nothing)]
       IN  Continue(p, IF row.missing # Holdings THEN loaded ELSE Stopped(loaded))
    /\ UNCHANGED tables

\* A current valuation is stored when it is COMPLETE.
Storable(prog) == prog.row.missing = {}

\* calculate_current_portfolio: the holdings,
LoadHoldings(p) ==
    /\ At(p, "load")
    /\ program[p].kind = "value"
    /\ IF Holdings = {}
       THEN Continue(p, Stopped(program[p]))
       ELSE Continue(p, [program[p] EXCEPT !.of = Holdings, !.row = Snapshot("value", {}, {}),
                                         !.step = "price"])
    /\ UNCHANGED tables

\* the current prices of all but some of them, and upsert_snapshot.
LoadPrices(p, missing) ==
    /\ At(p, "price")
    /\ missing \subseteq program[p].of
    /\ LET priced == [program[p] EXCEPT !.row.missing = missing, !.step = "store",
                                        !.insert = (history = Nothing)]
       IN  Continue(p, IF Storable(priced) THEN priced ELSE Stopped(priced))
    /\ UNCHANGED tables

StoreSnapshot(p) ==
    /\ At(p, "store")
    /\ program[p].insert => history = Nothing
    /\ history' = program[p].row
    /\ Continue(p, Stopped(program[p]))
    /\ UNCHANGED prices

\* Storing the snapshot fails: a job keeps the error, a valuation ends with it.
SnapshotFails(p) ==
    /\ At(p, "store")
    /\ IF program[p].kind = "value"
       THEN Ends(p, "failed")
       ELSE /\ Continue(p, Stopped(program[p]))
            /\ UNCHANGED tables

Finish(p) ==
    /\ At(p, "end")
    /\ Ends(p, "exited")

Die(p) ==
    /\ G!Die(p)
    /\ program' = Remaining
    /\ UNCHANGED <<server, tables, kinds>>

-----------------------------------------------------------------------------
CallStep(c) ==
    \/ Acquire(c) \/ (\E p \in Pids : Start(c, p)) \/ Receive(c) \/ Throw(c) \/ TimeOut(c)

RequestStep(r) == Execute(r) \/ Answer(r)

WorkerStep == RunUpdate \/ ClearRequested \/ FreeWorker

ProcessStep(p) ==
    \/ \E t \in Tickers, d \in Dates : Calculate(p, t, d)
    \/ \E dates \in [Tickers -> Dates \cup {0}] : CollectFrames(p, dates)
    \/ \E t \in Tickers : CalculateNext(p, t) \/ TickerFails(p, t)
    \/ SkipRun(p) \/ SaveRow(p)
    \/ LoadClosing(p) \/ LoadHoldings(p) \/ StoreSnapshot(p)
    \/ \E missing \in SUBSET Tickers : LoadPrices(p, missing)
    \/ SnapshotFails(p) \/ Finish(p) \/ Die(p)

Next ==
    \/ \E r \in Requests :
         \/ \E t \in Tickers : RefreshStock(r, t)
         \/ RefreshPortfolio(r) \/ CurrentPortfolio(r)
         \/ \E job \in Jobs : RequestRun(r, job)
         \/ RequestStep(r)
    \/ WorkerStep
    \/ ShutDown
    \/ \E c \in Callers : CallStep(c)
    \/ \E p \in Pids : ProcessStep(p)
    \/ Restart

Spec == Init /\ [][Next]_vars

\* The server's own threads run, and wait for nothing without a time limit.
FairSpec ==
    /\ Spec
    /\ \A c \in Callers : WF_vars(CallStep(c))
    /\ \A r \in Requests : WF_vars(RequestStep(r))
    /\ WF_vars(WorkerStep)

-----------------------------------------------------------------------------
\* Threads and programs are at what they were started for.
TypeOK ==
    /\ G!TypeOK
    /\ requested \in BOOLEAN
    /\ worker \in {"free", "busy", "calling", "done", "closed"}
    /\ task \in [Callers -> TaskRecord \cup {Nothing}]
    /\ \A c \in Callers : task[c] # Nothing => task[c].kind \in kinds
    /\ program \in [Pids -> ProgramRecord \cup {Nothing}]
    /\ \A p \in Pids : (program[p] = Nothing) = (process[p] = "free")
    /\ \A p \in Pids : program[p] # Nothing =>
         program[p].todo \subseteq program[p].of /\ program[p].errors \subseteq program[p].of
    /\ prices \in [Tickers -> SUBSET Dates]
    /\ history \in Snapshots \cup {Nothing}

\* PythonProcessGateway: no way a call ends, or the server does, loses a permit or
\* gives one back twice.
PermitsConserved == G!PermitsConserved

\* The calls of all threads use the gateway as a pool of permits.
PermitPool == G!PoolSpec

\* SchedulerOperationsService: the request flag is set just while a request is being
\* handed to the executor or the worker is at one.  A run is not refused for good, and
\* two are not accepted, whatever way the runs before it ended.
RequestedMeansWork ==
    requested <=> (\E r \in Requests : Handing(r)) \/ worker \in {"busy", "calling"}

\* calculate_many: when a batch is through, each ticker has its row or is reported,
\* whoever else stores rows of the same tickers at the same time.
BatchTriesAll ==
    \A p \in Pids :
        program[p] # Nothing /\ program[p].kind = "batch" /\ program[p].step = "end" =>
            \A t \in program[p].of : t \in program[p].errors \/ program[p].dates[t] \in prices[t]

\* HerdService: a refresh that is answered has stored a row of every ticker it was
\* asked for, of the session its own process collected.
AnswersAreStored ==
    \A r \in Requests :
        task[r] # Nothing /\ task[r].answer # Nothing =>
            \A t \in task[r].tickers : task[r].answer[t] \in prices[t]

\* A job's snapshot values a holding at a price no older than the frame the job has
\* just collected of it.
SnapshotsUseCollectedPrices ==
    history # Nothing => history.outdated = {}

\* Every call of the gateway comes to an end, also if its process never does, and
\* every request flag is cleared in the end: another run can be asked for.
WorkEnds ==
    /\ \A c \in Callers : call[c] # "idle" ~> call[c] = "idle"
    /\ requested ~> ~requested

=============================================================================
