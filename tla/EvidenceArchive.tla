--------------------------- MODULE EvidenceArchive ---------------------------
(***************************************************************************)
(* The prospective evidence ledger (data/scheduler/prospective_evidence.py *)
(* and its callers in herd_scheduler.py): a weekly run archives what was   *)
(* observed, every run confirms the outcomes whose horizon has passed, and *)
(* neither file is ever rewritten.                                         *)
(*                                                                         *)
(* A hash is the value it is the hash of.  A price row is the number of    *)
(* dividends and splits it has been adjusted for, since the collector asks *)
(* for adjusted prices: an action re-bases every earlier row.  Sessions    *)
(* are numbered; tickers are their ranks in the order they are sorted.     *)
(***************************************************************************)
EXTENDS Integers, FiniteSets

CONSTANTS
    Tickers,       \* every ticker, a set of natural numbers
    Market,        \* SPY, whose record is the market aggregate
    Reference,     \* the fixed reference universe, always collected
    Followed,      \* tickers users take into and out of portfolios and watchlists
    MinReference,  \* how many of it the coverage gate asks for
    Horizons,      \* [21, 63, 126] in the contract
    WeekLength,    \* sessions of a week
    FrameLength,   \* sessions a collected frame reaches back
    MaxLag,        \* bound: how many sessions a frame that passes the quality gate may miss
    LastSession,   \* bound: sessions
    MaxActions,    \* bound: dividends and splits of one ticker
    MaxKills       \* bound: killed runs

ASSUME TickersAssumption ==
    /\ Tickers \subseteq Nat /\ IsFiniteSet(Tickers)
    /\ Market \in Tickers /\ Reference \subseteq Tickers \ {Market} /\ Followed \subseteq Tickers
ASSUME CalendarAssumption ==
    /\ WeekLength \in Nat \ {0} /\ FrameLength \in Nat \ {0} /\ LastSession \in Nat
    /\ Horizons \subseteq Nat \ {0} /\ MaxLag \in Nat /\ MinReference \in Nat \ {0}

VARIABLES
    today,         \* the last completed session
    actions,       \* ticker -> its ex-dates
    tracked,       \* tickers in some portfolio or watchlist
    observations,  \* observation date -> the archived envelope
    outcomes,      \* outcome file -> its payload
    phase,         \* where the run that holds the run lock is
    frames,        \* the frames it collected
    scored,        \* the tickers of its bundle; none if it has no bundle
    todo,          \* the outcome files it has still to write or to refuse
    kills

vars == <<today, actions, tracked, observations, outcomes, phase, frames, scored, todo, kills>>
market == <<today, actions, tracked>>
----------------------------------------------------------------------------
Put(f, x, v) == [y \in DOMAIN f \cup {x} |-> IF y = x THEN v ELSE f[y]]
Later(a, b) == IF a > b THEN a ELSE b
NoFiles == [x \in {} |-> x]

Friday(s) == ((s + WeekLength - 1) \div WeekLength) * WeekLength
FirstRow == Later(1, today - FrameLength + 1)

\* How often row r of t has been re-based in a frame that ends at session last.
Adjusted(t, r, last) == Cardinality({x \in actions[t] : r < x /\ x <= last})

\* The rows of t's frame within sessions lo..hi.
Rows(t, lo, hi) ==
    [r \in {s \in lo..hi : frames[t].first <= s /\ s <= frames[t].last} |-> Adjusted(t, r, frames[t].last)]

RecordsOf(date) == observations[date].evidence.records

\* Mutant: only what is still tracked is collected.
NoTickers == {}
ArchivedTickers == UNION {DOMAIN RecordsOf(d) : d \in DOMAIN observations}
FilesOf(obs) ==
    UNION {[date : {d}, ticker : DOMAIN obs[d].evidence.records, horizon : Horizons] : d \in DOMAIN obs}
----------------------------------------------------------------------------
(* The outcome of a file, <<observation date, ticker, horizon>>, from the frames collected *)

Before(a, b) ==
    \/ a.date < b.date
    \/ a.date = b.date /\ a.ticker < b.ticker
    \/ a.date = b.date /\ a.ticker = b.ticker /\ a.horizon < b.horizon
NextFile(f) == f \in todo /\ \A g \in todo \ {f} : Before(f, g)

\* Mutant: the entry follows the observation date, not the last session observed.
EntryAfterDate(f) == Later(f.date + 1, frames[f.ticker].first)
Entry(f) == Later(RecordsOf(f.date)[f.ticker].last + 1, frames[f.ticker].first)
Terminal(f) == Entry(f) + f.horizon - 1

Ripe(f) == f.ticker \in DOMAIN frames /\ Terminal(f) <= frames[f.ticker].last

\* Mutant: the hash covers every row from the entry on.
OutcomeToTheEnd(f) ==
    [source |-> observations[f.date].evidence, entry |-> Entry(f),
     rows |-> Rows(f.ticker, Entry(f), frames[f.ticker].last)]
Outcome(f) ==
    [source |-> observations[f.date].evidence, entry |-> Entry(f), rows |-> Rows(f.ticker, Entry(f), Terminal(f))]

\* What is pending, has no frame or is confirmed as it was is only counted.
Unconfirmed ==
    {f \in FilesOf(observations) : Ripe(f) /\ (f \in DOMAIN outcomes => outcomes[f] # Outcome(f))}
----------------------------------------------------------------------------
(* Collecting prices *)

Universe == Reference \cup {Market} \cup tracked

CanScore(S) == Market \in S /\ Cardinality(S \cap Reference) >= MinReference

\* A run of either job collects what it can of its universe and, in a second round, of
\* the archived tickers it has no frame for; only a weekly run has a bundle to archive.
Collect(job, got, extra, lag, published) ==
    /\ phase = "idle"
    /\ got \subseteq Universe /\ extra \subseteq ArchivedTickers \ got
    /\ published => job = "weekly" /\ CanScore(got)
    /\ \A t \in got \cup extra : FirstRow <= today - lag[t]
    /\ frames' = [t \in got \cup extra |-> [first |-> FirstRow, last |-> today - lag[t]]]
    /\ scored' = IF published THEN got ELSE {}
    /\ phase' = IF published THEN "archive" ELSE "mature"
    /\ UNCHANGED <<market, observations, outcomes, kills>>
    /\ todo' = IF published THEN {} ELSE Unconfirmed'

CollectSome ==
    \E job \in {"weekly", "daily"}, got \in SUBSET Universe, published \in BOOLEAN :
        \E extra \in SUBSET (ArchivedTickers \ got) :
            \E lag \in [got \cup extra -> 0..MaxLag] : Collect(job, got, extra, lag, published)

\* A daily run that reaches every ticker, as of the last session.
CollectAll ==
    Collect("daily", Universe, ArchivedTickers \ Universe, [t \in Universe \cup ArchivedTickers |-> 0], FALSE)
----------------------------------------------------------------------------
(* Archiving the observation *)

\* The week an observation belongs to is labelled with its Friday, also while it lasts.
Covered(w) == Cardinality({t \in scored \cap Reference : Friday(frames[t].last) >= w}) >= MinReference
MarketWeek ==
    LET weeks == {w \in {Friday(frames[t].last) : t \in scored \cap Reference} : Covered(w)}
    IN  CHOOSE w \in weeks : \A v \in weeks : v <= w

AsOf(t) == IF t = Market THEN MarketWeek ELSE Friday(frames[t].last)
LastObserved(t) == IF t = Market THEN MarketWeek ELSE frames[t].last
Dates == {AsOf(t) : t \in scored}
Cutoff == CHOOSE c \in {LastObserved(t) : t \in scored} : \A t \in scored : LastObserved(t) <= c

StableEvidence ==
    [records  |-> [t \in scored |-> [last |-> LastObserved(t), personal |-> t \in tracked]],
     manifest |-> [t \in DOMAIN frames |-> Rows(t, 1, Cutoff)]]

EndRun == phase' = "idle" /\ frames' = NoFiles /\ scored' = {} /\ todo' = {}

RejectBundle ==
    /\ phase = "archive" /\ \A d \in Dates : Dates # {d}
    /\ EndRun
    /\ UNCHANGED <<market, observations, outcomes, kills>>

Envelope == [recordedAt |-> today, evidence |-> StableEvidence]

\* Mutant: the new evidence takes the old one's place.
ArchivedAnew(date) == Put(observations, date, Envelope)
\* An archived date is left as it is, whether the new evidence agrees with it or not.
Archived(date) == IF date \in DOMAIN observations THEN observations ELSE Put(observations, date, Envelope)

ArchiveObservation(date) ==
    /\ phase = "archive" /\ Dates = {date}
    /\ observations' = Archived(date)
    /\ phase' = "mature" /\ scored' = {}
    /\ UNCHANGED <<market, outcomes, frames, kills>>
    /\ todo' = Unconfirmed'
----------------------------------------------------------------------------
(* Confirming outcomes, file by file *)

\* Mutant: a confirmed outcome is written again.
Rewritable(f) == TRUE
Writable(f) == f \notin DOMAIN outcomes

MatureNext(f) ==
    /\ phase = "mature" /\ NextFile(f) /\ Writable(f)
    /\ outcomes' = Put(outcomes, f, Outcome(f))
    /\ todo' = todo \ {f}
    /\ UNCHANGED <<market, observations, phase, frames, scored, kills>>

\* A confirmed outcome the present prices do not give again ends the whole pass.
Conflict(f) ==
    /\ phase = "mature" /\ NextFile(f) /\ f \in DOMAIN outcomes
    /\ EndRun
    /\ UNCHANGED <<market, observations, outcomes, kills>>

Finish ==
    /\ phase = "mature" /\ todo = {}
    /\ EndRun
    /\ UNCHANGED <<market, observations, outcomes, kills>>

Kill ==
    /\ phase # "idle" /\ kills < MaxKills
    /\ EndRun /\ kills' = kills + 1
    /\ UNCHANGED <<market, observations, outcomes>>
----------------------------------------------------------------------------
(* The world outside *)

\* A session ends; some tickers went ex-dividend or were split on it.
NextSession ==
    /\ today < LastSession
    /\ today' = today + 1
    /\ \E X \in SUBSET {t \in Tickers : Cardinality(actions[t]) < MaxActions} :
         actions' = [t \in Tickers |-> IF t \in X THEN actions[t] \cup {today + 1} ELSE actions[t]]
    /\ UNCHANGED <<tracked, observations, outcomes, phase, frames, scored, todo, kills>>

Retrack(t) ==
    /\ tracked' = IF t \in tracked THEN tracked \ {t} ELSE tracked \cup {t}
    /\ UNCHANGED <<today, actions, observations, outcomes, phase, frames, scored, todo, kills>>
----------------------------------------------------------------------------
Init ==
    /\ today = 1
    /\ actions = [t \in Tickers |-> {}]
    /\ tracked = Followed
    /\ observations = NoFiles /\ outcomes = NoFiles
    /\ phase = "idle" /\ frames = NoFiles /\ scored = {} /\ todo = {}
    /\ kills = 0

Step ==
    \/ \E f \in todo : MatureNext(f) \/ Conflict(f)
    \/ Finish
    \/ RejectBundle
    \/ \E d \in Dates : ArchiveObservation(d)

Next ==
    \/ CollectSome
    \/ Step
    \/ Kill
    \/ NextSession
    \/ \E t \in Followed : Retrack(t)

Spec == Init /\ [][Next]_vars
FairSpec == Spec /\ WF_vars(Step) /\ SF_vars(CollectAll)
----------------------------------------------------------------------------
(* Properties *)

Files == [date : Nat, ticker : Tickers, horizon : Horizons]

\* The files have the names, and a run the frames, the code gives them.
TypeOK ==
    /\ today \in 1..LastSession /\ kills \in 0..MaxKills
    /\ actions \in [Tickers -> SUBSET (1..LastSession)]
    /\ tracked \subseteq Tickers
    /\ DOMAIN observations \subseteq Nat
    /\ \A d \in DOMAIN observations :
         /\ DOMAIN RecordsOf(d) \subseteq Tickers
         /\ \A t \in DOMAIN RecordsOf(d) : RecordsOf(d)[t].last \in Nat
    /\ DOMAIN outcomes \subseteq Files
    /\ phase \in {"idle", "archive", "mature"}
    /\ DOMAIN frames \subseteq Tickers
    /\ \A t \in DOMAIN frames : frames[t].first \in Nat \ {0} /\ frames[t].last \in Nat
    /\ scored \subseteq DOMAIN frames /\ todo \subseteq FilesOf(observations)

\* Whatever is re-run, killed or collected again, a file that was once written keeps its
\* contents: a differing observation or outcome is refused.
ArchiveIsImmutable ==
    [][/\ \A d \in DOMAIN observations : d \in DOMAIN observations' /\ observations'[d] = observations[d]
       /\ \A f \in DOMAIN outcomes : f \in DOMAIN outcomes' /\ outcomes'[f] = outcomes[f]]_vars

\* audit_archive never meets an outcome without its source: every outcome names the evidence
\* its date was archived with, and a ticker of it.
OutcomesHaveTheirSource ==
    \A f \in DOMAIN outcomes :
        /\ f.date \in DOMAIN observations /\ f.ticker \in DOMAIN RecordsOf(f.date)
        /\ outcomes[f].source = observations[f.date].evidence

\* The return of an outcome is counted from the session after the last one its score has
\* seen, never from a later one and never from one the score already knows, and is
\* confirmed only when its horizon is complete.
EntryFollowsObservation ==
    \A f \in DOMAIN outcomes :
        /\ outcomes[f].entry = RecordsOf(f.date)[f.ticker].last + 1
        /\ outcomes[f].entry + f.horizon - 1 <= today

\* A pass ends in a conflict only when the ticker's prices were really re-based since the
\* entry session, or the frame no longer reaches back to it: a killed run, a late or a
\* partial collection and a longer frame never look like one.
ConflictsHaveACause ==
    [][\A f \in todo : Conflict(f) =>
         LET entry == RecordsOf(f.date)[f.ticker].last + 1
         IN  \/ frames[f.ticker].first > entry
             \/ \E x \in actions[f.ticker] : x > entry]_vars

\* An outcome whose horizon has passed is confirmed in the end, also of a ticker nobody
\* holds or watches any more, whatever runs fail or are killed on the way.
OutcomesMature ==
    \A f \in [date : 1..LastSession, ticker : Tickers, horizon : Horizons] :
        (/\ f \in FilesOf(observations)
         /\ RecordsOf(f.date)[f.ticker].last + f.horizon <= today) ~> f \in DOMAIN outcomes

\* When a run is through, every outcome its frames are long enough for is confirmed.
PossibleOutcomesMature ==
    [][phase = "mature" /\ phase' = "idle" /\ kills' = kills =>
         \A f \in FilesOf(observations) : Ripe(f) => f \in DOMAIN outcomes]_vars
=============================================================================
