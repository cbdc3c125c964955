------------------------------ MODULE Tier1Jobs ------------------------------
(***************************************************************************)
(* The two jobs of the scheduler, phase by phase: the weekly one collects   *)
(* every ticker's prices, scores and stores the tickers users follow, stores *)
(* the weekly State S1 and the daily D1 observations of the market and of   *)
(* the tickers that can be compared with their sector, matures outcomes,    *)
(* refreshes reports and takes the portfolios' snapshots; the daily one     *)
(* leaves out the scores and S1.  A phase that fails is noted and the job   *)
(* goes on.  A run is shorter than the time between two half-days.          *)
(***************************************************************************)
EXTENDS Integers, FiniteSetsExt

CONSTANTS Tickers,       \* the collection universe
          Market,        \* the ticker of the market, SPY
          Operational,   \* those a user holds or watches, and the market
          Reference,     \* those of the fixed reference universe
          Sector,        \* a ticker's sector benchmark, or Nothing if it has none or too
                         \* short a history for an observation
          MinReference,  \* how many references an observation needs
          MinPeers,      \* and how many of them in a ticker's sector
          Carry,         \* sessions for which a benchmark's last close stands in
          Week,          \* sessions in a week
          LastDay,       \* bound
          MaxLag,        \* bound: sessions a frame may lack
          Nothing        \* no row, no date

VARIABLES today,        \* business days, the first one is a Monday
          closed,       \* today's session is over
          run,          \* the row of the newest run of either job
          prices,       \* newest date of each followed ticker in daily_prices, or 0
          newestPrice,  \* newest date of any ticker there
          confirmed,    \* Friday of each ticker's newest S1 row, 0 if it has none
          provisional,  \* session of each ticker's newest D1 row, 0 if it has none
          phase,        \* the next one of the run in progress
          frames,       \* of that run: the last session of each collected frame, or 0
          skipped,      \* the tickers whose history is too short for a score
          unsaved,      \* those whose score was not saved
          errors,       \* the phases that failed
          counted       \* records of the published observation, or Nothing

clock == <<today, closed>>
store == <<prices, newestPrice, confirmed, provisional>>
results == <<frames, skipped, unsaved, errors, counted>>
vars == <<today, closed, run, prices, newestPrice, confirmed, provisional, phase, frames,
          skipped, unsaved, errors, counted>>

\* A finite universe: the followed tickers, the references with their benchmarks, and
\* the market, which is no benchmark of a sector.
JobsAssumption ==
    /\ IsFiniteSet(Tickers)
    /\ Market \in Operational /\ Operational \subseteq Tickers /\ Reference \subseteq Tickers
    /\ \A r \in Reference : Sector[r] \in Tickers \ {Market}
    /\ MinReference \in 1..Cardinality(Reference) /\ MinPeers \in Nat /\ Carry \in Nat
    /\ Week \in Nat \ {0} /\ LastDay \in Nat /\ MaxLag \in Nat
    /\ Nothing \notin Nat \cup Tickers

Jobs == {"weekly", "daily"}
Models == {"S1", "D1"}

\* The phases whose results are not modelled, outcomes, reports and snapshots, as one.
Others == {"others"}

Following ==
    CASE phase = "universe" -> "collect"
      [] phase = "collect"  -> IF run.job = "weekly" THEN "scores" ELSE "D1"
      [] phase = "scores"   -> "S1"
      [] phase = "S1"       -> "D1"
      [] phase = "D1"       -> "rest"

NoDates == [t \in Tickers |-> 0]

Init ==
    /\ today = 1
    /\ closed = FALSE
    /\ run = Nothing
    /\ prices = [t \in Operational |-> 0] /\ newestPrice = 0
    /\ confirmed = NoDates /\ provisional = NoDates
    /\ phase = "idle"
    /\ frames = NoDates /\ skipped = {} /\ unsaved = {} /\ errors = {} /\ counted = Nothing

\* The last completed session: no frame has a later one.
LastSession == IF closed THEN today ELSE today - 1

\* The Friday of a session's week, under which State S1 is stored.
Friday(session) == ((session + Week - 1) \div Week) * Week

\* Rows of earlier dates stay, so that the newest date of a table never goes back.
Newest(date, stored) == IF date > stored THEN date ELSE stored

-----------------------------------------------------------------------------
(* Time, and the refresh of single tickers between runs.                    *)

HalfDay ==
    /\ phase = "idle"
    /\ today < LastDay
    /\ closed' = ~closed
    /\ today' = IF closed THEN today + 1 ELSE today
    /\ UNCHANGED <<run, store, phase, results>>

\* calculate_on_demand saves the ticker's score with its prices, of the last session of
\* the frame it collects.
OnDemand(t, session) ==
    /\ phase = "idle"
    /\ prices' = [prices EXCEPT ![t] = Newest(session, @)]
    /\ newestPrice' = Newest(session, newestPrice)
    /\ UNCHANGED <<clock, run, confirmed, provisional, phase, results>>

-----------------------------------------------------------------------------
(* A run.                                                                   *)

Start(job) ==
    /\ phase = "idle"
    /\ LastSession > 0
    /\ run' = [job |-> job, status |-> "RUNNING", day |-> today, closed |-> closed,
               failed |-> FALSE, skipped |-> {}, observed |-> Nothing]
    /\ phase' = "universe"
    /\ UNCHANGED <<clock, store, results>>

Proceed == phase' = Following

FetchTickers ==
    /\ phase = "universe"
    /\ Proceed
    /\ UNCHANGED <<clock, run, store, results>>

\* The process is done with the run, or killed.
Leave ==
    /\ phase' = "idle"
    /\ frames' = NoDates /\ skipped' = {} /\ unsaved' = {} /\ errors' = {} /\ counted' = Nothing
    /\ UNCHANGED <<clock, store>>

\* The row of the run is closed, or the database refuses and it stays RUNNING.
Close(row) ==
    /\ run' \in {run, row}
    /\ Leave

\* The universe cannot be read.
NoUniverse ==
    /\ phase = "universe"
    /\ Close([run EXCEPT !.status = "FAILED"])

\* The last session a frame may have, and no frame.
Dates == {0} \cup {session \in 1..LastSession : session >= LastSession - MaxLag}

\* audit_price_frame: seven days, that is the sessions of a week.
NotStale(session) == today - session <= Week

\* collect_ticker_frames_with_retry: each ticker has a frame the gate accepts, or none.
Collect(collected) ==
    /\ phase = "collect"
    /\ \A t \in Tickers : collected[t] = 0 \/ NotStale(collected[t])
    /\ frames' = collected
    /\ Proceed
    /\ UNCHANGED <<clock, run, store, skipped, unsaved, errors, counted>>

Collected == {t \in Tickers : frames[t] # 0}

\* The followed tickers, or all when those cannot be read.
Scopes == {Operational \cap Collected, Collected}

\* execute_tickers: a ticker's history is too short, its score is saved with its prices,
\* or it fails.
Scores(scope, short, failing) ==
    /\ phase = "scores"
    /\ skipped' = short /\ unsaved' = failing
    /\ LET saved == scope \ (short \cup failing)
       IN  /\ prices' = [t \in Operational |-> IF t \in saved THEN Newest(frames[t], prices[t])
                                               ELSE prices[t]]
           /\ newestPrice' = Max({newestPrice} \cup {frames[t] : t \in saved})
    /\ Proceed
    /\ UNCHANGED <<clock, run, confirmed, provisional, frames, errors, counted>>

\* _prepare_observation_inputs: the references that can be observed,
Available(tickers) == {r \in Reference \cap tickers : Sector[r] \in tickers}

\* whether they are enough, with the market's frame that build_state_panel reads,
Covered == Cardinality(Available(Collected)) >= MinReference /\ Market \in Collected

\* and target_mapping: neither the market nor a benchmark, nor a ticker without a sector,
\* whose benchmark is not there or whose sector has too few references.
Targets(tickers) ==
    {t \in tickers \ ({Market} \cup {Sector[r] : r \in Reference}) :
        /\ Sector[t] \in tickers
        /\ Cardinality({r \in Available(tickers) : Sector[r] = Sector[t]}) >= MinPeers}

\* build_state_panel: a ticker's last session with a close of its benchmark to compare
\* with, carried over if it has none of that session.
LastRow(t) == IF frames[t] > frames[Sector[t]] + Carry THEN frames[Sector[t]] + Carry
              ELSE frames[t]

\* _market_panel: the last session with enough references.
MarketRow ==
    Max({s \in 0..LastSession :
            Cardinality({r \in Available(Collected) : LastRow(r) >= s}) >= MinReference})

\* The records of a bundle, and the session of each.
Bundle == Targets(Collected) \cup {Market}
Observed(t) == IF t = Market THEN MarketRow ELSE LastRow(t)

\* _build_and_write_observation, which stores a record under the Friday of its week.  The
\* weekly job's row counts the records of S1, the daily one's those of D1.
PublishS1 ==
    /\ phase = "S1"
    /\ Covered
    /\ confirmed' = [t \in Tickers |->
                        IF t \in Bundle THEN Newest(Friday(Observed(t)), confirmed[t])
                        ELSE confirmed[t]]
    /\ counted' = Cardinality(Bundle)
    /\ Proceed
    /\ UNCHANGED <<clock, run, prices, newestPrice, provisional, frames, skipped, unsaved, errors>>

\* _build_and_write_daily_observation.
PublishD1 ==
    /\ phase = "D1"
    /\ Covered
    /\ provisional' = [t \in Tickers |->
                          IF t \in Bundle THEN Newest(Observed(t), provisional[t])
                          ELSE provisional[t]]
    /\ counted' = IF run.job = "daily" THEN Cardinality(Bundle) ELSE counted
    /\ Proceed
    /\ UNCHANGED <<clock, run, prices, newestPrice, confirmed, frames, skipped, unsaved, errors>>

\* Too few references, or any other exception: the job notes it and goes on.
NotPublished(model) ==
    /\ phase = model
    /\ errors' = errors \cup {model}
    /\ counted' = IF run.job = "daily" THEN 0 ELSE counted
    /\ Proceed
    /\ UNCHANGED <<clock, run, store, frames, skipped, unsaved>>

Failed == (Tickers \ Collected) \cup unsaved

Succeeded == Collected \ (unsaved \cup skipped)

\* Mutant: a failed daily observation is not among the weekly job's errors.
VerdictWithoutD1(failing) ==
    IF Failed = {} /\ (errors \ {"D1"}) \cup failing = {} THEN "SUCCESS"
    ELSE IF Succeeded = {} THEN "FAILED" ELSE "PARTIAL_FAILURE"

\* The daily job's observation decides over FAILED, the weekly one's does not.
Verdict(failing) ==
    IF Failed = {} /\ errors \cup failing = {} THEN "SUCCESS"
    ELSE IF \/ run.job = "weekly" /\ Succeeded = {}
            \/ run.job = "daily" /\ (Collected = {} \/ "D1" \in errors)
         THEN "FAILED" ELSE "PARTIAL_FAILURE"

\* The other phases, some failing, and the end of the run.
Finish(failing) ==
    /\ phase = "rest"
    /\ Close([run EXCEPT !.status = Verdict(failing), !.failed = Failed # {},
                         !.skipped = skipped \cap Operational, !.observed = counted])

Kill ==
    /\ phase # "idle"
    /\ Leave
    /\ UNCHANGED run

Next ==
    \/ HalfDay
    \/ \E t \in Operational, session \in Dates \ {0} : OnDemand(t, session)
    \/ \E j \in Jobs : Start(j)
    \/ FetchTickers \/ NoUniverse
    \/ \E collected \in [Tickers -> Dates] : Collect(collected)
    \/ \E scope \in Scopes : \E short \in SUBSET scope : \E failing \in SUBSET (scope \ short) :
          Scores(scope, short, failing)
    \/ PublishS1 \/ PublishD1 \/ \E m \in Models : NotPublished(m)
    \/ \E failing \in SUBSET Others : Finish(failing)
    \/ Kill

Spec == Init /\ [][Next]_vars

-----------------------------------------------------------------------------
\* Nothing is dated after the sessions it can hold.
TypeOK ==
    /\ today \in 1..LastDay /\ closed \in BOOLEAN
    /\ run # Nothing =>
         /\ run.job \in Jobs /\ run.day \in 1..today
         /\ run.status \in {"RUNNING", "SUCCESS", "PARTIAL_FAILURE", "FAILED"}
         /\ phase # "idle" => run.status = "RUNNING"
    /\ newestPrice \in 0..LastSession
    /\ \A t \in Operational : prices[t] \in 0..newestPrice
    /\ \A t \in Tickers : /\ confirmed[t] \in 0..Friday(LastSession)
                          /\ provisional[t] \in 0..LastSession

\* herd_scheduler.py: a weekly run that reports SUCCESS has left nothing out, however many
\* phases may fail on their own and however old a frame the gate accepts: no older than
\* a week are the prices of every followed ticker with enough history and the two
\* observations of the market and of every ticker that can be observed.
SuccessIsComplete ==
    run # Nothing /\ run.job = "weekly" /\ run.status = "SUCCESS" =>
        LET oldest == run.day - Week
        IN  /\ \A t \in Operational \ run.skipped : prices[t] >= oldest
            /\ \A t \in Targets(Tickers) \cup {Market} :
                 confirmed[t] >= Friday(oldest) /\ provisional[t] >= oldest

=============================================================================
