# A verification development for HERD SIGNAL

HERD SIGNAL observes crowding in single stocks and shows it beside a user's
portfolio. It is three programs around one MariaDB schema:

- a Spring Boot back end (`src/backend`): portfolio, ledger, observations,
  policies in front of any "action", starting Python processes;
- Python jobs (`src/data`): a scheduler daemon that collects prices, calculates
  and stores HERD scores and keeps evidence files, single-ticker and portfolio
  calculators, and a large body of research programs;
- a React client (`src/frontend`).

This directory has TLA+ models of the parts where order, concurrency and failure
matter, the configurations that check them with TLC, and theorems checked by
TLAPS. The code is the reference for every definition; `PROJECT.json` maps each
one to the lines it stands for.

## 1. Inventory

| Component | State | Operations | What makes it correct | Here |
|---|---|---|---|---|
| Ledger replay (`PortfolioLedgerCalculator`) | none: a function of the entries | `calculate` | cash and FIFO lots agree with their definitions, money is conserved, an oversold sale is reported | `LedgerReplay`, `LedgerBook` |
| Ledger service and projection (`PortfolioLedgerService`, `PortfolioLedgerProjectionService`) | `portfolio_ledger_entries`, rewrites `user_portfolio`, `user_cash_balances`, `user_cash_history` | `create`, `delete`, `synchronizeIfManaged` | a managed account is its ledger's projection; a request that cannot be projected leaves nothing behind | `PortfolioStore`, `PortfolioAccount`, `PortfolioTransactions` |
| Source mode, reconciliation, opening snapshot (`PortfolioSource…`, `PortfolioOpeningSnapshotService`) | "managed" is derived from the ledger | `isLedgerManaged`, `reconcile`, `importCurrentSnapshot` | imported once, and only if the ledger says what the holdings say; manual writes are refused afterwards | same |
| Holdings and cash (`PortfolioService`, `PortfolioCashService`, `UsMarketSessionClock`) | holdings, balance, history by session | `addStock`, `removeStock`, `updateAvgPrice`, `updateTargetWeight`, `updateCashBalance` | target weights survive projections; the history shows the balance | same |
| Queries, performance, time-weighted return (`PortfolioPerformanceService`, `PortfolioTwrCalculator`) | none | reads | flows of money do not change the return; the benchmark gets the same flows | `PortfolioReturn` (queries: no) |
| Scheduler daemon, lock, run history (`daemon.py`, `run_lock.py`, `run_history.py`) | cron jobs, `flock` file, `scheduler_runs` | start with catch-up, fire, retry, recover, stop | one run at a time; a verdict is final; no slot lost, none repeated | `SchedulerRuns` |
| Tier 1 jobs (`herd_scheduler.py`, `ticker_job.py`, `data_quality_gate.py`) | scores, prices, observations | weekly and daily job, phase by phase | the verdict follows from what was stored | `Tier1Jobs`, `Operations`, `SchedulerRuns` |
| Heartbeat and freshness (`heartbeat.py`, `SchedulerHeartbeatService`, `DataFreshnessService`) | heartbeat file | start, pulse, stop, read | a live daemon is not reported dead, nor a dead one alive; missing data are not called fresh | `Heartbeat`, `DataFreshness` |
| Prospective evidence (`prospective_evidence.py`) | immutable JSON files | archive, mature outcomes, audit | nothing is overwritten; outcomes are of archived observations, start after them and are confirmed in the end | `EvidenceArchive` |
| Python gateway, manual runs (`PythonProcessGateway`, `SchedulerOperationsService`) | semaphore, request flag, one-thread executor | `execute`, `requestManualRun`, `requestDailyRun` | permits bound processes and are never lost; a request is not refused for good | `PythonGateway`, `CallPool`, `Operations` |
| On-demand scores (`on_demand.py`, `HerdOnDemandRunner`, `HerdService`) | the stored scores and prices | forced calculation of a ticker or a portfolio | what is answered has been stored | `Operations` |
| Valuation and daily snapshots (`realtime_portfolio.py`, `herd/portfolio_calculator.py`) | `portfolio_history` | upsert of a day by two writers | one row a day, at the prices collected for it | `Operations` |
| Observations, changes, receipts (`herd_transition_s1.py`, `ObservationChangeService`) | observations, receipts | label, store, read, acknowledge | a label does not depend on the window it is computed from; a change is shown until seen | `HerdTransition`, `ObservationInbox` |
| Frontend (`pages/Portfolio`, `pages/ObservationChanges`) | what the back end answered, a cache in the browser | requests whose answers come in any order | a page at rest shows what is stored | `PortfolioPage`, `ObservationInbox` |
| Institutional holdings (`sec_13f_pit_holdings_v1.py`, `sec_13f_slow_context_v1.py`) | tables `filings` and `effective` of the newest generation | generate from all filings, read the positions of a quarter and day | the positions of a day are what was reported by then; later filings do not change them | `FilingLedger` |
| Earnings events (`append_only_ledger.py`, `sec_earnings_event_ledger_v1.py`, `earnings_event_intake.py`) | hash-chained JSON lines, a lock file | collect and append, read | nothing answered for is lost or doubled; a damaged file is not read | `EventLedger` |
| HERD queries and lifecycle | none | reads, classification by thresholds | examples in the unit tests | no |
| Watchlist, journal, profile | single rows | CRUD | row-wise | no |
| Action policies, decision synthesis, operating review, promotion | review ledger, promotion audit, approval file | decide, insert, grant | guards over one request | no |
| Evidence review by a language model | none | one validated call | external | no |
| Sign-in and claim of local data | user id of every user table | `claimIfOwner` | moved once and as a whole | no |
| Market data, fundamentals, indicators, score | caches | external calls, floating-point formulas | numerical tests | no |
| Other research programs, reports, scripts, CI, migrations | files | run by hand | not part of the running product | no |

How they interact: the back end's portfolio services share four tables and
nothing else (no cache, no lock, no version column, default isolation); the
daemon and any process started by hand or by the back end share the lock file,
`scheduler_runs`, the score and price tables and `portfolio_history`; the back end
reads what the jobs store and the heartbeat file, and kills a process that exceeds
its time; the client's pages send requests without an order and keep what they
are answered.

The hard behaviours are therefore concurrent transactions on one account,
back-dated and deleted entries, decimals rounded at different scales, market
sessions that change under a request; on the Python side, processes that
die, are suspended, are slow, outlive the server, or meet each other at the lock
or in a table or a file; reports that are amended after a day has used them; and in
the client, answers that overtake each other.
`PROJECT.json` lists them one by one as hazards, with the properties that watch
them.

## 2. Modules

### Portfolio

`LedgerReplay` is the calculator as pure operators (folds, no `RECURSIVE`).
Decimals are integers, each at the scale the code rounds it to: money in cents,
costs in calculation units (`Cent` of them to a cent, standing for
`CALCULATION_SCALE`), stored quantities in steps (the sixth decimal) and lot
quantities in `1/QStep` of a step, since `SPLIT` multiplies without rounding.
`HALF_UP` is `RoundHalfUp`. The `ArithmeticException` of a division by a lot of
zero shares is the flag `undefined` of the result.

`LedgerBook` is the ledger of an account that no snapshot manages: `Record` and
`Erase` in any order, each day of an entry free. Its properties restate the
calculator's result without replaying. `SPLIT` multiplies `BigDecimal`s and rounds
nothing, so a quantity has finitely many decimals whatever the splits: `QStep` is a
unit that the splits of a ledger of `MaxId` entries divide (`EntriesAssumption`).

`PortfolioStore` is one user's rows and, for each request, a function from the
rows it reads to a set of writes: empty when the service throws, one element when
the transaction may commit. A trailing `synchronizeIfManaged` is inside that
function, a column's range is `Storable`. Both modules below use it, so that the
same request is judged one at a time and concurrently.

`PortfolioAccount` is the promise: each request takes effect as a whole on the
rows as they are (`Create`, `Delete`, `ImportCurrentSnapshot`, `AddStock`,
`RemoveStock`, `UpdateAvgPrice`, `UpdateTargetWeight`, `UpdateCashBalance`), the
date moves (`NextDay`) and market sessions close (`SessionClose`).

`PortfolioTransactions` is what the server runs: a request thread takes an InnoDB
snapshot and computes its writes (`Begin…`), and later commits or rolls back. A
commit fails when it inserts a key that exists by then, updates or deletes a row
that is gone (Hibernate's row count) or, with `innodb_snapshot_isolation`, writes
a row changed since the snapshot. That option became MariaDB's default in 11.6.2
and the repository pins no version, so it is the constant `SnapshotIsolation`.
`updateCashBalance` has no transaction: its guard and its write are two
(`GuardCash`, `BeginCash`). The module instantiates `PortfolioAccount` as
`Alone`, and `Serial` says that a step is one of the promise's, or changes no row.
`MCPortfolioTransactions` has three scenarios: "ledger", an account managed from the
start, on which every step has to be `Serial` (`LedgerSerial`); "given", an account
with manual rows that is imported while sessions close, in which no balance is typed;
and "race", in which all requests meet.

`PortfolioReturn` is `getPerformance`: the ledger replayed over the sessions whose
closes are stored, the time-weighted growth and the virtual benchmark account,
around it sessions with their closes and a user who invests, sells, splits and
redeems. Growth is a fraction; the code's rounding to 12 and 16 digits is left out.

`PortfolioPage` is the client's portfolio page: rows, valuation, cash, the cache in
the browser, and a bag of requests under way whose answers arrive in any order
(`…Arrives`, `…Fails`), with focus, deletions, saved holdings and new visits.

### Jobs

`SchedulerRuns` is one host: the daemon (`DaemonStart`, `Decide`, `Serve`, `Fire`,
`Stop`, `Exit`), the processes started by hand or by the back end (`Launch`), and
for every thread the call of a job (`Begin`, `Skip`, `Conclude`, `Raise`, `Leave`)
with the single retry after it. `Crash` and `Kill` end a process at any step; the
kernel drops its `flock`, its row stays `RUNNING`. Time is a number of ticks with
one slot a day; a run takes any number of ticks. `Faults` lets the history's
database fail, in which case the code goes on without a row.

`Tier1Jobs` is what a run does between lock and verdict: the phases `Collect`,
`Scores`, the S1 and D1 observations, and the rest, what each stores, and what it
leaves out when it fails; `Verdict` is the code's choice of a status. The gate accepts
frames up to a week old (`Dates`, bounded by `MaxLag`, and `NotStale`), and what is
made of a frame is stored under the frame's own last date. A bundle observes less than
was collected: the market and `Targets`, which are neither a benchmark nor a ticker
without a sector, without its benchmark's frame or with too few references in the
sector (`Available`); a row's session is the last one that has a close of the benchmark too
(`LastRow`, the market's `MarketRow`). What was left out does not change the verdict,
in the code as here. `DataFreshness`
extends it with the status the back end gives the data. `Heartbeat` is
the file that the daemon's two threads replace through one temporary name, and
the back end's reading of its age.

`EvidenceArchive` is the evidence ledger of the scheduler's runs: files
`observations` (one per observation date) and `outcomes` (one per date, ticker and
horizon), and the one run that the lock lets through, with its `phase`. A run
collects a frame per ticker, of its universe and then of archived tickers it has
none for (`Collect`), archives a weekly bundle or refuses it
(`ArchiveObservation`, `RejectBundle`), and confirms file after file in the order
of their names (`MatureNext`) until it is through (`Finish`) or meets a file the
present prices no longer give (`Conflict`, the code's `RuntimeError`). `Kill`
leaves behind the files that were renamed into place and nothing else. Outside the run,
sessions end with dividends and splits (`NextSession`) and users change what is
followed (`Retrack`), also while it works. Hashes and the files' contents are
values: a hash is what it is the hash of, a price row is how often it has been
re-based since, because the collector asks for adjusted prices. That only one run
is at it is what `SchedulerRuns` shows of the lock; here it is taken from there.

`HerdTransition` is the labelling of a ticker's weeks: raw labels from the state's
change and its families' votes, confirmation, and the cooldown between opposite
directions. `ObservationInbox` is what becomes of the labelled weeks: the bundle's
upsert, the receipts of what a user has seen, the query of changes after them, and
the tabs that show and acknowledge them.

### Data from filings

`FilingLedger` is the point-in-time ledger of 13F holdings: managers file and amend
reports of a quarter (`File`), days end (`EndOfDay`), and a generation builds the
tables anew from everything published (`Generate`): which filings become rows
(`Inserted`), the session each is available from, and the state that follows each
one (`Flush`, `After`), flushed along the order of availability (`Chronological`).
`PeriodPositions` is the query of `_period_positions`, for
any day the tables cover. `Reported` is what it has to give, from the filings
themselves.

`EventLedger` is the hash-chained file of earnings events: `append_unique` of
several processes, with its lock, its reading of the whole file (`Read`), and each
payload skipped, refused or written (`Skip`, `Refuse`, `AppendLine`), while the
source discloses and corrects events (`Disclose`). A process may die between lines
(`Die`) or in one (`Tear`), which leaves the line whole, without its end, or cut. A
hash is the sequence of payloads it hashes.

### Processes of the back end

`PythonGateway` is `PythonProcessGateway`: permits, the phases of a call, the
processes, which may live on after the signal that kills them, and the server's
restart. `CallPool` is what it promises: at most so many callers inside. The
refinement is `Holders`, the callers with a permit.

`Operations` composes the gateway with what goes through it. Its variables are the
gateway's, and each of its actions that touches them is an action of the instance
`G` with what the thread or the process does besides: request threads that
refresh a ticker or the portfolio or value it (`RefreshStock`, `RefreshPortfolio`,
`CurrentPortfolio`), the request flag and the executor without a queue
(`RequestRun`, `Execute`, `RunUpdate`, `ClearRequested`, `FreeWorker`, `ShutDown`),
and the programs of the processes, which look for a row and save it in two steps
(`Calculate`, `CollectFrames`, `SaveRow`, `LoadClosing`, `LoadPrices`,
`StoreSnapshot`) in the tables they share.

`MCServices` is one instance for the components that share no state with each
other: `LedgerBook`, `HerdTransition`, `Heartbeat`, `DataFreshness` over `Tier1Jobs`,
`ObservationInbox`, `PortfolioPage`, `PortfolioReturn`, `FilingLedger` and
`EventLedger`. A behaviour is one of one of them. Two of them, the books and the
holdings, are in modules it extends (`LedgerBook`, `ReportBook`), so that their proofs
are of the same instances. The other `MC…` modules give the constants that a `.cfg` cannot write. An
operator marked "Mutant" is a plausible wrong version of the definition that follows
it: it documents, for a property, a mistake that breaks it, and is used by no
specification.

## 3. Runs

| Run | Instance | Shows |
|---|---|---|
| `portfolio_account` | one ticker, two days, ids to 4, a purchase, a sale of two purchases, a halving split, an import, manual rows and balances | managed accounts stay their ledger's projection; at most one opening deposit; the history shows the balance; holdings move only with the ledger; weights survive |
| `portfolio_transactions` | two threads under snapshot isolation, on a managed account and on one about to be imported whose sessions close | every commit on a managed account is one request alone; the history shows the balance, whoever computes the session first |
| `import_race` (violated) | import against a deletion or another write of holdings or cash by hand; the run records no ledger entry (`EntryRequests` is empty) | both read an account that is not managed and write different rows, so both commit: the account is managed, and the holding that its ledger opens with is gone (so may two imports, which both read an empty ledger) |
| `price_gaps` (violated) | three sessions, the closes of some are not stored | a deposit of an unstored session counts at the next stored close: an account all in one ticker earns another return than the ticker |
| `scheduler_runs` | daemon and one other process, one day, crashes, failing history, threshold of one tick | a live run's row is never closed under it, and a verdict is never rewritten |
| `scheduler_days` | the daemon alone over two days (one of each job), all outcomes, suspensions, crashes | a catch-up repeats no successful run and leaves out no slot that was past at the start; every call returns |
| `evidence_archive` | one reference ticker and the market, four sessions in weeks of two, horizons 1 and 2, one action per ticker, frames that lag, one kill | nothing written is rewritten; an outcome has its source and starts the session after it; a pass ends in a conflict only over re-based prices |
| `evidence_maturity` | three tickers, one followed and dropped at will, late frames and refused bundles, one kill, no actions | an outcome whose horizon has passed is confirmed in the end, of dropped tickers too |
| `evidence_rebased` (violated) | actions | one re-based price makes a confirmed outcome differ and ends every later pass before the files behind it |
| `operations` | one request thread and the executor's, two processes, one permit, two tickers, mixes of tasks | permits are neither lost nor given back twice; the flag is set just while there is work; a batch stores or reports every ticker; an answer is stored; the gateway is a pool; every call and request ends |
| `stale_snapshot` (violated) | the daily job, frames newer than the stored prices | the job takes the day's snapshot at the prices stored before it |
| `services` | the components of `MCServices`, each alone | below |

What `services` asks. Of ledgers of up to four entries of nine kinds: conservation,
FIFO and oversale against definitions that do not replay. Of eight weeks of labels:
no opposite label inside the cooldown, events apart, and the same label from every
window that is long enough. Of the daemon: once gone it is not shown as running for
longer than the age allows, and while its pulses arrive it is. Of two and a half
weeks of jobs that fail, are killed or do not start, over frames that may lag: after a weekly success the prices of
every followed ticker with enough history, and both observations of the market and of
every ticker that can be compared with its sector, are at most a week older than the
run, and data that lack the last week are not called fresh. Of the
inbox, with a job that rewrites a week, two tabs and receipts under way: the
unread changes are exactly those after what was seen, a page that shows one offers
to acknowledge it, and receipts never go back. Of the page: with nothing under way
and nothing failed it shows what is stored. Of the return: an account all in one
ticker earns the ticker's return whatever flows, splits and sales there are, and
what is done at the last close changes nothing. Of the holdings: whatever is amended
and whenever the tables are generated, the positions of a day are what the reports
said by its session, and no later generation changes them. Of the event ledger, with
two writers and a crash: the chain breaks only after a crash in a line, and a reader
who gets an answer gets every event that was answered for, each once.

The violated runs are the findings of `PROJECT.json`; each quotes what the
repository says.

Bounds, and why they are enough. A projection touches one holding at a time
except for the set of rows it drops, so one ticker in the account runs and two in
the books (where a wrong ticker would show) suffice. Four ids hold an import
(two entries), one entry besides and a deletion with its replacement; five
entries of a book hold two purchases, two sales and a split between them,
the least in which a partial sale, a remainder and a rescaled remainder meet. Two
threads are the least that interleave, and a request takes effect at its commit
against one snapshot, so a third thread adds no new kind of conflict. Three rows
of the history are an abandoned run, a run and its retry. `MaxQuantity`,
`MaxPrice`, `MaxMoney` are small, so that the columns' ranges are reached.
In `EvidenceArchive` four sessions are an
observation in mid-week or at its end, its two horizons, and a session for a
second pass over confirmed outcomes; two horizons make a pass of more than one
file, which is what a conflict or a kill cuts short. A frame is longer than the run
(`FrameLength`), as five years are longer than the longest horizon; the theorems
have no such bound. In `operations` one permit and two callers are a caller too
many, two processes are one that its caller gave up and the next one; the mixes are
the tasks that meet in a table (a batch beside one that outlived the server, a
valuation beside the daily job). The labels' limits are smaller than the contract's (change over 4 weeks,
memory 13, confirmation 2, cooldown 4, limits 5 and 10 and votes 2 and 3 of more
families), in the same order, so that eight weeks hold a label, its opposite and the
end of the cooldown. Weeks of two sessions are the least with a session in mid-week;
`MCDataStale.cfg` has weeks of five and the code's limits. Three requests of the page
are two valuations that overtake each other and one that stores. Three sessions of a
return are a flow, the session it is linked over, and one more. The jobs have a
reference ticker, its benchmark and the market, the least with an observation besides
the market's, and frames that lack a session. Three filings are a
report, its restatement and an addition, in any order; of their four days the third
is no session, so that filings of two days become available together, and those of the
first are available on days that later generations cover again: positions that are
not empty are compared across amendments. Two writers,
two events that may be corrected and one crash are the least in which a line lacks
its end and another follows it.
`MaxTime`, `MaxRuns`, `MaxId`, `MaxDay`, `LastSession`, `MaxActions`,
`MaxKills`, `MaxWeeks`, `LastDay`, `MaxLag`, `LastWeek`, `MaxCalls`, `MaxCash`, `MaxSessions`,
`MaxTrades`, `MaxFilings`, `LastFilingDay`, `MaxCrashes`, `Pids` and `Inodes` bound counters and sets in guards.
`CHECK_DEADLOCK FALSE` everywhere but in the evidence runs: with the bounds used up
nothing need be left to do, and in the code an idle server is normal.

Fairness. `SchedulerRuns!FairSpec` has weak fairness of `Work(t)`, the
steps of a thread inside a call. The code justifies it because nothing in a call
waits for another thread: the lock is tried once, and a collector's call returns,
raises, or ends with its process. Nothing is fair about the clock, the daemon's
starts or the operators. `EvidenceArchive!FairSpec` has weak fairness of `Step`, for the same reason
(a run writes local files and waits for nobody), and strong fairness of
`CollectAll`: a daily run starts every trading day, and one whose collection
reaches every ticker comes again and again. Kills are bounded. Without the second
nothing could be confirmed of a ticker that is never collected again, in the code as
in the model. `Operations!FairSpec` has weak fairness of the steps of the server's own
threads (`CallStep`, `RequestStep`, `WorkerStep`): they wait for a permit for a
second, for a process for its timeout and for a killed one for two seconds, and for
nothing else. Nothing is fair about the processes: `WorkEnds` holds of processes that
hang for ever and do not die when they are killed.

### Beside the runs

These configurations find violations too, and are kept to be run by hand. Of the first
four and the last nothing in the repository says the contrary. `MCRestatement.cfg`
contradicts a sentence of the documentation.

| Configuration | Module | What TLC finds |
|---|---|---|
| `MCSplitRounding.cfg` | `PortfolioAccount` | `ManagedMatches`: after a split the stored quantity is rounded and the reconciliation compares it unrounded, so a managed account is DIVERGED |
| `MCDataStale.cfg` | `MCServices` | `StaleNeedsARun`: the data are STALE from Wednesday on although every run succeeded, because no job but the weekly one stores prices |
| `MCHeartbeatTorn.cfg` | `Heartbeat` | `NeverTorn`: the two writers share the temporary file, so a reader may meet an empty one |
| `MCPageValues.cfg` | `MCServices` | `RowsAreValued`: an answer from before a holding was saved arrives after the page was patched, and the row and its valuation differ until the next focus |
| `MCRestatement.cfg` | `MCServices` | `RestatementReplaces`: `docs/HERD_POINT_IN_TIME_DATA.md:189` has a `RESTATEMENT` replace the whole state from its availability; `_insert_archive` (line 304) makes a filing a row only for a selected security, so one that withdraws them all replaces nothing |
| `MCEventTorn.cfg` | `MCServices` | `AnsweredIsReadable`: a line without its end is joined by the next writer's, whose call succeeds, and no one can read the file afterwards |

Other things met while modelling:

- A slot that passes between `now` (daemon.py:153) and `scheduler.start()` is neither
  caught up nor fired; `SlotsCovered` speaks of slots that were past when the daemon
  started.
- A weekly run started by hand in mid-week archives the unfinished week under its
  coming Friday, whose own run is then refused, and stores observations dated in the
  future; the documentation has new observations on Fridays only
  (`docs/HERD_RESEARCH_STATUS.md:366`).
- Without `innodb_snapshot_isolation` the later of two projections overwrites the
  earlier, and receipts of the inbox may go back. The constant is kept for it.
- `calculate_portfolio_value` stores a valuation with missing prices, where
  `realtime_portfolio.py` stores complete ones only.
- A manual run that was answered "started" may still be turned away or end as
  `DUPLICATE_SKIPPED`; the answer is given before the process is.
- The pulse is not written during a catch-up, so that one of more than three minutes
  is shown as stale; a STOPPED mark may be overwritten by the last pulse.
- `markAllSeen` stores the date of the latest row, not of the page's: a row stored
  since the page was loaded counts as seen. A row rewritten after it was seen is not
  shown again.
- A failure of SEC intake, or of S1 alone, does not make the weekly run FAILED.
- One missing close of a held ticker on a session that has others makes the
  performance invalid for good.

## 4. Proofs

`PortfolioAccountProofs` proves for every value of the constants that satisfies
their assumptions (any tickers, scales, requests, days and bounds):

- `TypeCorrect`: `Spec => []TypeOK`;
- `OpeningCapitalOnce`: `[]OpeningOnce`;
- `ManagedAccountsAreConsistent`: `[]ManagedConsistent`;
- `QuantitiesMoveWithTheLedger`: `HoldingsFollowLedger`, of quantities and cash (average
  prices are not compared);
- `TargetWeightsSurvive`: `WeightsSurvive`;
- `HistoryShowsTheBalance`: `[](HistoryTracksCash /\ HistoryIsPast)`.

The argument. The eight request actions are of four kinds (lemma `StepKinds`): an
edit of the ledger whose writes come from `SynchronizeIfManaged`, an import into
an empty ledger that adds rows and touches nothing else, a manual write that the
guard lets through only if the account is not managed, and an edit of a weight.
Each property is proved once per kind. `ManagedConsistent` is inductive together
with `TypeOK`: an edit that leaves the account managed stores exactly what
`Projection` computes from the ledger it stores (`ProjectionFollows`); an import
commits only if `Matched`, and since `QStep` divides what it adds, rounding the
quantities back gives the holdings it read (`ImportFollows`); the other kinds
leave the ledger, quantities and cash alone. `HistoryTracksCash` is inductive only
with `HistoryIsPast`, which is proved with it: no row is of a session later than the current one, so
that the row written with a balance is the latest. Of the replay only the shape of
its result is used: it is the same function of the ledger in both places.

`SchedulerRunsProofs` proves, for any days, slots, processes, outcomes and faults
(`OutcomesAssumption`, `ClockAssumption`, `ThreadsAssumption`):

- `RunTypes`: `Spec => []TypeOK`;
- `LiveRunsStayOpen`: `[]LiveRunOpen`;
- `VerdictsStay`: `VerdictsAreFinal`;
- `CatchupsRepeatNothing`: `[]CatchupRepeatsNothing`;
- `MissedSlotsAreCovered`: `[]SlotsCovered`, on a host where the daemon is alone
  with the lock and its history can be read and written (`Processes = {}`,
  `Faults = FALSE`, as in the run that checks it). With either the catch-up may be
  turned away at the lock, or see no history, and the slot stays uncovered.

The inductive invariant `IInv` adds to the types that whoever works has the lock
(`LockHeld`) and that the row of a run in progress is open and of its job
(`RunsOpen`). `LiveRunOpen` alone is not inductive: it does not say that nobody
works while the lock is free, which is what keeps `Begin`, the one step that
closes other runs' rows, from closing the row of a live run. The steps of the
daemon, of the processes and the ends of calls are one lemma (`ReassignedKeeps`):
they give a thread something to do, or nothing, and leave the rows alone.
`Begin`, `Conclude`, `Raise` and `Tick` have one each.

`CatchupRepeatsNothing` compares rows of the history by the last slot before they
began, and nothing in a row says for which slot it was made. `CatchupInv` says it:
the catch-up's thread is at a run for a slot that was past at the start and that no
run has succeeded since (`MainKept`); a job is fired for a slot later than every
catch-up (`FiringKept`); so between a catch-up and any other success of its job
there is a slot (`RowsApart`). `TurnsKept` is what makes the order of the daemon's
threads known: the catch-up is over before it serves. For `SlotsCovered` the
invariant follows the slot from the daemon's decision to the row of the run made for
it (`DayCovered`), which is made because the lock is held by a run that works or by
nobody (`LockWorks`).

`EvidenceArchiveProofs` proves, for any tickers, horizons, weeks, frame lengths,
sessions, actions and kills (`TickersAssumption`, `CalendarAssumption`):

- `SourcesAreKept`: `Spec => []OutcomesHaveTheirSource`;
- `FilesAreImmutable`: `ArchiveIsImmutable`;
- `ConflictsAreRepriced`: `ConflictsHaveACause`;
- `WindowsStayHonest`: `[]WindowsAreHonest`, the window of an outcome begins with the
  session after its observation or, where the frame no longer reached back to it,
  with the frame's first row;
- `EntriesFollowObservations`: `[]EntryFollowsObservation`, in the time a frame
  reaches back (`LastSession <= FrameLength`). Without the bound it is false: an
  outcome first confirmed when its entry has left the frame begins later. With
  five years of prices it holds of the archive's first five years.

The inductive invariant says of each confirmed outcome what a later pass must find
again: its window began at the first session after its observation, or at the
first row of the frame if that is later (`WindowsKept`), and its rows are
unadjusted unless the ticker has had an action since (`RowsKept`). Files to do
are files that differ from what the present frames give (`ObservationsKept`), so a
conflict over a frame that still reaches the entry, of a ticker without an action
since, would be a difference between two windows of unadjusted rows
(`UnadjustedRows`). `MarketKept` and `FramesKept` are the types this needs, and that a
frame ends in the past: a session's later action does not change its rows. That a
confirmed horizon is over (`HorizonsOver`) is inductive beside it, and the two give
`WindowsAreHonest`.

`OperationsProofs` proves of the gateway alone (`G!Spec`, the specification of
`PythonGateway` for the threads of `Operations`), for any callers, processes and permits:

- `TypeCorrect`: `[]G!TypeOK`;
- `PermitsAreConserved`: `[]PermitsConserved`;
- `CallsHaveTheirProcess`: `[]OwnInv`, a call that waits has a process, which no
  other call has and which has not been reaped;
- `RunningIsBounded`: `[]G!RunningBounded`, the processes somebody waits for are never
  more than the permits (what a restart or a caller who gave up has left behind is
  not counted, in the code as in the model);
- `GatewayIsAPool`: `PermitPool`, the gateway implements `CallPool`.

Every step of it is of one of six kinds (`StepKinds`): a caller on its way in (`Waits`),
one who takes a permit (`Enters`), keeps what it has (`Stays`) or gives it back
(`Leaves`), a step of a process (`HostStep`), and the restart. `PermitsConserved` is
inductive with the types, since each kind changes `permits` and the number of
`Holders` by opposite amounts; it is also what the refinement needs, because a
caller who finds a permit finds room in the pool. `RunningBounded` follows from the
two: processes waited for are the image of the callers with a permit.

The same module carries this to the composition, for any threads, tickers, mixes,
dates and tables (`OperationsAssumption`):

- `OperationsConservePermits`: `Spec => []PermitsConserved`;
- `OperationsUseAPool`: `Spec => PermitPool`;
- `OperationsTypes`: `Spec => []TypeOK`;
- `RequestsMeanWork`: `[]RequestedMeansWork`;
- `BatchesTryAll`: `[]BatchTriesAll`;
- `RefreshesStoreTheirAnswers`: `[]AnswersAreStored`.

Every step of `Operations` is a step of the gateway or leaves its variables alone
(`StepIsGatewayStep`), so its behaviours are the gateway's (`ThreadsUseTheGateway`), and
the theorems above apply to them. The other properties are of the tables, the tasks and the flag, and
their invariant joins what the gateway knows (`GatewayFits`) to it: a thread in a call
has a task (`CallsFit`), the process it waits for runs that task (`ProcessesFit`: the
answer of another's process would be no answer to its request), and a refresh has an
error or a stored row of every ticker it has done with (`ProgramFits`), whatever the
other processes store, since stored dates are only added. The flag
alone is not inductive: `FlagFits` adds that at most one request is being handed over,
and none while the worker is at a run, so that the worker who clears the flag clears
no other request's.

`PortfolioTransactionsProofs` proves of the scenarios of `MCPortfolioTransactions`, for
any requests, rows, amounts, days and threads (`BoundsAssumption`, `ConcurrencyAssumption`,
`AccountsAssumption`), where the database fails a flush on a row changed since the
snapshot (`SnapshotIsolation`):

- `HistoryShowsTheBalance`: `[](HistoryTracksCash /\ HistoryIsPast)`, of the scenarios without typed
  balances (`Scenarios \subseteq {"given", "ledger"}`, see section 5);
- `ManagedCommitsAreSerial`: `LedgerSerial`;
- `ManagedAccountsStayConsistent`: `[](scenario = "ledger" => ManagedConsistent)`, the
  promise of `PortfolioAccount` about managed accounts, kept by concurrent requests.

Without `SnapshotIsolation` all three are false, which the violations of section 3 show.
A transaction decides on the rows it saw and commits on rows that others may have
changed. So the invariants say of each thread in between what has become of its
decision: it is overtaken, a row that it writes has changed or been made since its
snapshot, and its flush will fail (`HistoryInv`, `Overtaken`), or its writes are still
those its request would decide on now (`Projecting`, `Releasing`, `Weighing`). Every
projection writes the balance and the row of every holding, so two projections always
meet, and each meets the edit of a weight in its row. The services of the promise and
those of the transactions are two instances of `PortfolioStore`; the lemmas `Same…`
say that they read and write the same.

`BooksProofs` proves `TheLedgerAddsUp`, that the books of `LedgerBook` balance
(`BooksBalance`), are first in, first out (`FirstInFirstOut`) and report what is
oversold and nothing else (`OversellReported`), for any entries, tickers, days, amounts
and split ratios (`ScaleAssumption`, `EntriesAssumption`). The replay is folds within
folds: over the tickers, over a ticker's entries in order, and for a sale over its lots.
Three ideas carry the proof.

- *Folds.* The library's induction theorems take an operator, so induction is done with
  the least element of a set of naturals instead (`Least`, `Induction`: a set that has 0
  and with a number the next one has them all). `FoldsExist` says with it that the
  function that `CHOOSE` picks in a fold of the library exists and follows its equation;
  `SumIsOnly` and `ProductIsOnly`, that what a fold over a set comes to does not depend
  on the order the library takes the elements in; `InOrderLists` and `OnlyList`, that the
  order of days and ids lists every entry, in one way only.
- *Splits.* A lot's quantity at the k-th entry and what it is worth after the last split
  are the same multiple of two products, of the ratio units and of the ratios to come
  (`Same`). Sums, differences and comparisons agree on both sides (`SameSum`,
  `SameDifference`, `SameOrder`), and a split passes a factor from one product to the
  other without a remainder (`SameSplit`): so the replay can be followed in the units of
  the last split, in which `FirstInFirstOut` counts.
- *The stack.* In these units the lots of a ticker lie end to end over the purchases,
  from where the sales end to where the purchases end, each over the purchase it is of
  (`Stacked`). A purchase lays one more on top (`BuyStacks`), a split stretches all of them
  (`SplitStacks`), and a sale takes from below: whole lots, and a part of the first one
  left (`ConsumeLeaves`, `SaleStacks`). `Kept` adds the money: the lots cost what has been
  paid less what the sales took, and a sale is noted as oversold exactly if it is of more
  than lies there. So at the end every lot is a `Remainder` (`LotsAreRemainders`), an
  oversold entry is one that was not covered (`OversoldIs`), and the cash effects of a
  ticker's trades, summed over the tickers (`SumByTicker`), leave the flows of money.

The module also has the lemmas about the holdings (`ReportBook`), which need the same
folds and orders; what they say is told with `ServicesProofs` below.

`ObservationInboxProofs` proves, for any tickers, records, tabs, weeks, look-back,
retention and limit (`InboxAssumption`):

- `UnreadChangesAreExact`: `[]UnreadIsExact`;
- `UnreadCanBeMarked`: `[]MarkAllOffered`;
- `NothingUnseen`: `ReceiptsNeverRecede`, where the database refuses to update a row
  that has changed since the transaction began (`SnapshotIsolation`).

The invariant says that every date in a receipt, on a page and in a request is that
of an observation of its ticker, which is never removed: so the row before the first
change after a receipt is among those the query fetches, and a change is told by the
same two rows whatever the query's first date is.

`ServicesProofs` proves of `MCServices`, for any constants that satisfy
`ServicesAssumption`, the conjunction of what its components assume:

| Theorem | Property | Invariant |
|---|---|---|
| `TheBooksAddUp` | `LedgerAddsUp` | that of `BooksProofs`, while the books run |
| `AQuietPageIsFresh` | `SettledIsFresh` | `PageInvariant` |
| `TheInboxIsExact` | `InboxIsExact` | that of `ObservationInboxProofs` |
| `NothingSeenIsTakenBack` | `ReceiptsNeverRecede` (with `SnapshotIsolation`) | the same |
| `ASuccessIsComplete`, `AMissedWeekShows` | `SuccessIsComplete`, `MissedWeekShows` | `DataInvariant` |
| `TheHeartbeatTellsLife` | `PulseTellsLife` | `PulseInvariant` |
| `NothingLooksAhead`, `ThePositionsAreReported` | `NoLookAhead`, `PositionsFollowReports` | `TablesFollow` |
| `CollectedEventsAreKept` | `EventsAreKept` | `ChainInv` |
| `TurnsAreApart`, `LabelsOfWindowsAgree` | `LabelsApart`, `WindowsAgree` | the weeks are a sequence |

A step of one component leaves the variables of the others alone (`StepsApart`), so
each has an invariant of its own; only a return replays a ledger too, with
trades of its own. The inbox is an instance of its proof module; the lemmas before it say that the operators of the instance are those of
`MCServices`.

*The labels.* They are computed by a fold over the weeks, and what is wanted of them is
about any two weeks of any history. Induction is by least elements, as in `BooksProofs`.
The fold has a closed form (`Settles`,
`StabilizedSettles`): a direction is shown in a week exactly if its label is confirmed and
the last direction shown before is not another one of the cooldown. Two opposite
directions inside the cooldown would have another pair between them or be refused
(`OppositesApart`); an event begins a confirmed label (`EventsConfirmed`); and two
histories that have the same labels before suppression (`RawShifts`) and show no
direction for a cooldown suppress the same from then on (`SameSettled`).

*The page.* While nothing has failed and no saved holding has overtaken an answer
from before it (see `MCPageValues.cfg`), one request at a time fetches the portfolio
or stores a change (`OneAtATime`), every answer under way agrees with the server in
what no later answer will correct (`AnswersFit`), and each part of what is shown is
what is stored unless a request that will show it is under way: the portfolio, the
answer of a change, the newest valuation, or the cash (`WillShow`). With no request
under way only the first alternative is left, which is `SettledIsFresh`. The bag of
requests counts those of earlier visits too, which may be of any number: only their
kind is used.

*The heartbeat.* What is in the file at its path is of the last pulse or of the one
that is being written (`Heard`), and everything in a file is at least as old as the
daemon's end (`FilesAge`). Both writers use one temporary name, so the invariant has
to say when only one of them is at it (`OneWriter`): a pulse that starts after the
main thread's first write has its own file, until the main thread writes STOPPED.

*The data.* Once collected, the frames of a run are at most a week old
(`FramesAreRecent`), and what each of its phases has stored is as new as the frames when
the run ends (`StoredSoFar`). A success has every frame, so every ticker that can be observed
is a target, and it and the market are observed in a session of the last week
(`ObservedLately`: neither a benchmark's last close nor the lack of a reference makes the
session older than the oldest frame). Stored dates never go back, so this stays true
until the next run (`CompleteStays`). A warning
for an observation is at most a week old, so an observation that causes none is not
of an earlier Friday than the last (`FridaysOf`, `FreshIncludesLastWeek`).

*The holdings.* The tables are those of the filings accepted by the last covered day,
and what was accepted since was filed after it (`TablesFollow`). A filing of a later
day is available in a later session or the same one (`SessionsFollow`), so a filing
that the next generation adds is available after the covered day's next day. The
newest row available by then is the same, and so are the rows before it, which is
all its state is computed from (`PositionsStay`).
What the state is takes an induction along the rows. Filings are accepted in the order
of their days (`Accepted`), and if their accession numbers follow too (`InOrder`), so
does the order of the rows (`RowsInTurn`, `PlacesFollow`), which their ranks give
(`ChronologicalOrders`, `RanksList`). After each row the state says of every security
what the first filing says that names it among those no later one replaced (`Says`,
`FlushSays`, `LastSays`). The rows available on a day are those of the filings the market
has seen by a session of it (`AvailableAre`), but for the filings without a selected
security, which are no rows: an assumption of the property (`NamesASecurity`) makes them
additions, so that they change nothing (`RowsStand`, `SaidIsReported`). Without it the
property is false, as the violation of section 3 shows.

*The events.* Who appends has the lock, without damage every line is whole, and either
a line is cut, which stays so and keeps everyone from reading, or the file is chained,
its events are unique, it holds what was answered, and the writer knows it line by line
(`ChainInv`, `ChainKept`). Written text is a line of its own (`ChainGrows`) or becomes
part of a line without its end (`WrittenLine`); a call that ends changes no file
(`LeaveKeeps`).

What the theorems assume of the constants is stated in the module that declares them
(`…Assumption`, `Calendar`), and TLC evaluates it in every run: sizes are natural
numbers, sets that are counted are finite, and a value that stands for "none"
(`Nothing`, `Null`, `NoPid`, `Nobody`) is none of the values it stands beside.

Only model-checked:

- the returns of `PortfolioReturn` (`ReturnIsTimeWeighted`): products of quotients over
  the sessions of a day's ledger, whose trades are of amounts that the price determines;
- `TypesOK` of the services, a conjunction with the types of the returns and of the
  holdings in it. The types of the books and the labels are proved (`BookIsBooked`,
  `LabelsTyped`), and those of the other components are part of their invariants as far
  as the properties need them;
- liveness (`CallsReturn`, `OutcomesMature`, `WorkEnds`), which is out of the prover's
  reach.

## 5. What the models leave out

- Wording, currency, notes and display fields.
- Quantities and ratios that pass `positive()` and are stored as zero: in `LedgerBook` they
  are excluded by `EntriesAssumption`, because selling such a lot makes
  `calculate` throw. `PortfolioStore` has the exception (`undefined`).
- A projection that commits after the last opening entry was deleted rewrites an
  account no longer managed; `LedgerSerial` is about accounts that are managed before
  and after the commit.
- A typed cash balance reads the session before its transaction. If the session
  closes in between and an other balance is stored for the new session first, the
  history's latest row is not the balance: the scenario in which sessions close ("given")
  has no typed balances, and `PortfolioAccount` treats the request as one step.
- InnoDB's waiting is not modelled: a flush that waits for another transaction's
  row happens after it. Deadlocks and lost connections are `Rollback`.
- In `SchedulerRuns` taking the lock and storing the row are one step (nobody else
  can store a row of the run, and a crash in between is a crash after a row that
  failed to be stored). One daemon per host; daylight saving is ignored; the
  hash of the data contract and the superseded `run_scheduler` are left out. A
  manual run that succeeds between the catch-up's decision and its `Begin` is
  followed by a harmless repetition: `CatchupRepeatsNothing` is about the
  daemon's own runs.
- In `EvidenceArchive`: contract, schema and corruption checks of files, the list
  of unavailable tickers, sector mapping, fields of a score beyond the sessions
  it saw, Fridays that are holidays, `shadow_ledger.py`. Supplementary frames
  skip the identity window that the weekly and daily frames are cut to; with
  tickers that keep their meaning the two do not differ.
- In `Operations` an output is acceptable or not, and of a valuation its missing and
  outdated prices are kept, not the amounts. The cached answer of `on_demand.py`,
  which no call of the back end asks for, only reads.
- In `Tier1Jobs` and `DataFreshness`: business days only, the gate's checks but the age
  of a frame (what they reject is a frame that is not there), gaps within a frame, runs
  shorter than half a day, only the newest run's row. The D1 observation's own status is left out.
- In `HerdTransition` the state is the sum of its families' levels, not their mean,
  with the limits scaled.
- In `PortfolioPage` one ticker is followed and one request that stores is under way
  at a time; failures of a visit are followed until the user leaves it (the retry
  button starts the same requests). Two handlers no page is wired to
  (`handleRefresh`, `handleCashSave`) are left out.
- In `PortfolioReturn` trades are at the close and without fees, closes divide
  `QStep`, and the benchmark is not split (the virtual account does not handle it).
- In `FilingLedger` a security has one identifier, and a filing is what it reports
  of shares: amounts, voting rights, managers' names, the amendment audit and the
  report are left out, and so are the features computed from positions. All filings
  of a day that is over are in the archives a generation reads. The properties
  assume that accession numbers of one day are in the order of acceptance
  (`InOrder`), which the data do not tell.
- In `EventLedger` the request to the SEC is what the source says at that moment; a
  payload without an identity, which the intake never makes, is left out.

Not modelled, and why:

- **Promotion, operating review, decision synthesis.** A promotion is one
  transaction with sequential guards, and nothing in the product uses its grant. A
  review is one insert whose hash is of its own row; no row refers to another.
- **Action policies.** Guards over one request. Two of them (`ActionDecisionService`,
  `ActionCooldownService`) are called by nothing in the product.
- **Watchlist, journal, profile.** One row at a time; the profile is overwritten as a
  whole, as a target weight is.
- **Sign-in and local data claim.** One transaction at the first sign-in of one
  owner.
- **HERD queries, lifecycle, indicators, scores, market data.** Reads, thresholds and
  floating-point formulas, out of TLC's and the provers' reach.
- **Language-model review.** An external answer, validated field by field.
- **Research programs.** Most of the lines of `src/data`: studies run once by hand,
  with files as results. Apart from the two ledgers above they are sequential scripts
  over data frames, each reading files whose hashes it checks first; no order of steps
  could break them, and what they compute is floating-point.
- **Migrations, scripts, CI.** Schema text and shell; the unique keys are used by
  `PortfolioTransactions!RowKeys`.

## 6. Plan

Done, in this order: `LedgerReplay`, `LedgerBook`, `PortfolioStore`,
`PortfolioAccount` and its proofs, `PortfolioTransactions` over it and its proofs,
`SchedulerRuns` and its proofs, `EvidenceArchive` and its proofs; `PythonGateway`,
`CallPool` and `Operations`, with the proofs of the pool and then of the tables and the
flag; `Tier1Jobs`, `DataFreshness`, `Heartbeat`; `HerdTransition`, `ObservationInbox`;
`PortfolioPage`; `PortfolioReturn`; `FilingLedger` and `EventLedger`; the proofs of the
inbox, of the services, the labels among them, and of the books.

What is left is proofs, by importance:

1. `ReturnIsTimeWeighted`, for which `BooksProofs` has the replay: the value of an account
   that is all in one ticker is its quantity times the close;
2. `TypesOK` of the services, with the types of the return and the holdings.
