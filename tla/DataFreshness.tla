---------------------------- MODULE DataFreshness ----------------------------
(***************************************************************************)
(* DataFreshnessService: what the back end tells its users of the jobs' data, *)
(* from the run history, the newest price and the newest observations.      *)
(***************************************************************************)
EXTENDS Tier1Jobs

CONSTANTS PriceWarning,        \* PRICE_WARNING_AFTER_BUSINESS_DAYS
          PriceStale,          \* PRICE_STALE_AFTER_BUSINESS_DAYS
          ObservationWarning,  \* OBSERVATION_WARNING_AFTER_BUSINESS_DAYS
          ObservationStale     \* OBSERVATION_STALE_AFTER_BUSINESS_DAYS

\* An observation that is old enough for a warning is not of the last week.
FreshnessAssumption == ObservationWarning \in Nat /\ ObservationWarning <= Week

LatestPriceDate == newestPrice

LatestObservationDate == Max({confirmed[t] : t \in Tickers})

\* Mutant: days are counted from the day after.
BusinessDaysSince(date) == IF date >= today THEN 0 ELSE today - date - 1

BusinessDaysBetween(date) == IF date >= today THEN 0 ELSE today - date

MissingObservations ==
    LET stored == {t \in Tickers : confirmed[t] = LatestObservationDate}
    IN  IF run.observed = Nothing THEN 0 ELSE Max({0, run.observed - Cardinality(stored)})

\* A run that started in an earlier half-day is older than MAX_RUNNING_HOURS.
Abandoned == run.status = "RUNNING" /\ <<run.day, run.closed>> # clock

Stale ==
    \/ BusinessDaysBetween(LatestPriceDate) > PriceStale
    \/ BusinessDaysBetween(LatestObservationDate) > ObservationStale

Warning ==
    \/ BusinessDaysBetween(LatestPriceDate) > PriceWarning
    \/ BusinessDaysBetween(LatestObservationDate) > ObservationWarning
    \/ run = Nothing
    \/ run # Nothing /\ (run.failed \/ MissingObservations > 0 \/ run.status # "SUCCESS")

DetermineStatus ==
    IF run # Nothing /\ (Abandoned \/ run.status = "FAILED") THEN "FAILED"
    ELSE IF run # Nothing /\ run.status = "RUNNING" THEN "RUNNING"
    ELSE IF LatestPriceDate = 0 \/ LatestObservationDate = 0 THEN "NO_DATA"
    ELSE IF Stale THEN "STALE"
    ELSE IF Warning THEN "WARNING" ELSE "FRESH"

-----------------------------------------------------------------------------
\* The last Friday before today.
LastFriday == ((today - 1) \div Week) * Week

\* Data shown as FRESH includes the State S1 of the last week that is over, of as many
\* tickers as the newest run observed, whichever runs failed, were killed or never
\* started, and whichever job ran last.
MissedWeekShows ==
    DetermineStatus = "FRESH" =>
        LET stored == {t \in Tickers : confirmed[t] >= LastFriday}
        IN  stored # {} /\ (run.observed # Nothing => Cardinality(stored) >= run.observed)

\* DataFreshnessService.java:245: data shown as STALE needs a run of the scheduler,
\* that is, either last week's data are not all there or the daily job has not
\* succeeded since the last session.
StaleNeedsARun ==
    LET daily     == /\ run # Nothing /\ run.job = "daily" /\ run.status = "SUCCESS"
                     /\ run.day = LastSession
        lastWeek  == /\ \A t \in Operational : prices[t] >= LastFriday
                     /\ \A t \in Targets(Tickers) \cup {Market} : confirmed[t] >= LastFriday
    IN  today > Week /\ daily /\ lastWeek => DetermineStatus # "STALE"

=============================================================================
