----------------------------- MODULE MCServices -----------------------------
(***************************************************************************)
(* One instance for the components that share no state: the books of the   *)
(* ledger, the labels of the transition model, the heartbeat of the daemon,*)
(* the freshness of the data, the inbox of observation changes, the        *)
(* portfolio page, the return of a portfolio, the ledger of institutional   *)
(* holdings and the ledger of earnings events.  A behaviour is one of one   *)
(* of them, the others stay where they start.                              *)
(***************************************************************************)
EXTENDS ReportBook

CONSTANTS A, B,  \* two tickers of the ledger
          Nothing,
          \* HerdTransition
          Observations, Families, Short, Memory, Confirmation, Cooldown, Moderate, Severe,
          FamilyChange, ModerateVotes, SevereVotes, High, Upper, Lower, MaxWeeks,
          \* Heartbeat
          MaxAge,
          \* DataFreshness
          Universe, Market, Operational, Reference, Sector, MinReference, MinPeers, Carry,
          Week, LastDay, MaxLag,
          PriceWarning, PriceStale, ObservationWarning, ObservationStale,
          \* ObservationInbox
          Watched, Tabs, LastWeek, Lookback, Retained, Limit, SnapshotIsolation,
          \* PortfolioPage
          MaxQuantity, MaxCash, Accounts, MaxCalls,
          \* PortfolioReturn
          Prices, SplitRatio, Savings, MaxSessions, MaxTrades,
          \* EventLedger
          Collectors, EventIds, Versions, Nobody, MaxCrashes

Trade(type, date, ticker, qty, gross, fee) ==
    [type |-> type, day |-> date, ticker |-> ticker, qty |-> qty, ratio |-> 0,
     gross |-> gross, fee |-> fee]

Split(date, ticker, ratio) ==
    [type |-> "SPLIT", day |-> date, ticker |-> ticker, qty |-> 0, ratio |-> ratio,
     gross |-> 0, fee |-> 0]

\* Purchases and a sale whose costs do not divide evenly, a halving split and a
\* three for one, on two days, and two flows of money in and one out.
MCEntries ==
    {Trade("BUY", 1, A, 3, 10, 1), Trade("BUY", 2, A, 2, 5, 0), Trade("BUY", 1, B, 1, 2, 0),
     Trade("SELL", 2, A, 2, 9, 1), Split(2, A, 1), Split(1, A, 6),
     Trade("DEPOSIT", 1, Nothing, 0, 7, 0), Trade("FEE", 2, Nothing, 0, 1, 0),
     Trade("DIVIDEND", 2, A, 0, 1, 0)}

\* A week in which nothing, one family or both stand out.
MCObservations == {<<0, 0>>, <<3, 0>>, <<2, 2>>}

\* A ticker of the reference universe, its benchmark and the market.
MCSector == [t \in Universe |-> IF t = 1 THEN 2 ELSE Nothing]

Quiet == [stage |-> "low", transition |-> FALSE]
Loud  == [stage |-> "high", transition |-> TRUE]

\* A holding and cash, the holding sold elsewhere, and a holding without a price.
MCAccounts ==
    {[quantity |-> 1, cash |-> 1, priced |-> TRUE], [quantity |-> 0, cash |-> 1, priced |-> TRUE],
     [quantity |-> 1, cash |-> 1, priced |-> FALSE]}

Report(group, type, holdings) == [group |-> group, type |-> type, holdings |-> holdings]

\* A report and every kind of amendment, one that withdraws all and one that names a
\* security again, and a report of another manager.
MCFilable ==
    {Report(1, "INITIAL", A :> 2 @@ B :> 1), Report(1, "RESTATEMENT", B :> 2),
     Report(1, "RESTATEMENT", <<>>), Report(1, "NEW HOLDINGS", A :> 1 @@ Nothing :> 0),
     Report(1, "UNKNOWN", A :> 3), Report(2, "INITIAL", A :> 3)}

-----------------------------------------------------------------------------
VARIABLES component,
          weeks,                                                      \* HerdTransition
          stage, downFor, missed, due, step, open, stamp, named, content,  \* Heartbeat
          today, closed, run, prices, newestPrice, confirmed, provisional,  \* DataFreshness
          phase, frames, skipped, unsaved, errors, counted,
          week, observations, tracked, receipts, page, post,          \* ObservationInbox
          server, holdings, summary, cash, loading, cache, calls,     \* PortfolioPage
          failed, overtaken,
          closes, stored, moves,                                      \* PortfolioReturn
          source, file, lock, at, candidates, known, answered, damaged, crashes \* EventLedger

pulse == <<stage, downFor, missed, due, step, open, stamp, named, content>>
data == <<today, closed, run, prices, newestPrice, confirmed, provisional, phase, frames,
          skipped, unsaved, errors, counted>>

inbox == <<week, observations, tracked, receipts, page, post>>
dashboard == <<server, holdings, summary, cash, loading, cache, calls, failed, overtaken>>
market == <<closes, stored, moves>>
disclosures == <<source, file, lock, at, candidates, known, answered, damaged, crashes>>

services ==
    <<component, vars, weeks, pulse, data, inbox, dashboard, market, reports, disclosures>>

Labels == INSTANCE HerdTransition

Pulse == INSTANCE Heartbeat

Data == INSTANCE DataFreshness WITH Tickers <- Universe

\* Two tickers, every row a change, in one tab.
Inbox == INSTANCE ObservationInbox
    WITH Tickers <- Watched, Records <- {Loud}, Tabs <- {1}, rows <- observations

\* One ticker in all tabs.
Tabbed == INSTANCE ObservationInbox
    WITH Tickers <- {1}, Records <- {Quiet, Loud}, rows <- observations

Page == INSTANCE PortfolioPage WITH rows <- holdings

\* The first closes are the unit of price.
Return == INSTANCE PortfolioReturn
    WITH Tickers <- {A, B}, Benchmark <- B, NoTicker <- Nothing, QStep <- 4, RatioUnit <- 1

Chain == INSTANCE EventLedger WITH Writers <- Collectors, Events <- EventIds

ASSUME ServicesAssumption ==
    /\ Labels!TransitionAssumption
    /\ Pulse!HeartbeatAssumption
    /\ Data!JobsAssumption /\ Data!FreshnessAssumption
    /\ Inbox!InboxAssumption /\ Tabbed!InboxAssumption
    /\ Page!PageAssumption
    /\ Filings!Calendar /\ Filings!FilingAssumption
    /\ Chain!IntakeAssumption

ServicesInit ==
    /\ component \in {"books", "labels", "pulse", "data", "inbox", "tabs", "page", "return",
                     "filings", "events"}
    /\ Init
    /\ Labels!Init
    /\ Pulse!Init
    /\ Data!Init
    /\ IF component = "tabs" THEN Tabbed!Init ELSE Inbox!Init
    /\ Page!Init /\ (component # "page" => server = CHOOSE account \in Accounts : TRUE)
    /\ Return!Init /\ closes = <<[t \in {A, B} |-> 1]>>
    /\ Filings!Init
    /\ Chain!Init

Books ==
    /\ component = "books" /\ Next
    /\ UNCHANGED <<component, weeks, pulse, data, inbox, dashboard, market, reports, disclosures>>

Label ==
    /\ component = "labels" /\ Labels!Next
    /\ UNCHANGED <<component, vars, pulse, data, inbox, dashboard, market, reports, disclosures>>

Beat ==
    /\ component = "pulse" /\ Pulse!Next
    /\ UNCHANGED <<component, vars, weeks, data, inbox, dashboard, market, reports, disclosures>>

Refresh ==
    /\ component = "data" /\ Data!Next
    /\ UNCHANGED <<component, vars, weeks, pulse, inbox, dashboard, market, reports, disclosures>>

Read ==
    /\ component = "inbox" /\ Inbox!Next
    /\ UNCHANGED <<component, vars, weeks, pulse, data, dashboard, market, reports, disclosures>>

ReadInTabs ==
    /\ component = "tabs" /\ Tabbed!Next
    /\ UNCHANGED <<component, vars, weeks, pulse, data, dashboard, market, reports, disclosures>>

View ==
    /\ component = "page" /\ Page!Next
    /\ UNCHANGED <<component, vars, weeks, pulse, data, inbox, market, reports, disclosures>>

Invest ==
    /\ component = "return" /\ Return!Next
    /\ UNCHANGED <<component, nextId, weeks, pulse, data, inbox, dashboard, reports, disclosures>>

Submit ==
    /\ component = "filings" /\ Filings!Next
    /\ UNCHANGED <<component, vars, weeks, pulse, data, inbox, dashboard, market, disclosures>>

Intake ==
    /\ component = "events" /\ Chain!Next
    /\ UNCHANGED <<component, vars, weeks, pulse, data, inbox, dashboard, market, reports>>

ServicesNext == Books \/ Label \/ Beat \/ Refresh \/ Read \/ ReadInTabs \/ View \/ Invest
    \/ Submit \/ Intake

ServicesSpec == ServicesInit /\ [][ServicesNext]_services

-----------------------------------------------------------------------------
(* The properties of the component that runs; the modules say what they are about. *)

\* Every component stays in its types.
TypesOK ==
    CASE component = "books"  -> TypeOK
      [] component = "labels" -> Labels!TypeOK
      [] component = "pulse"  -> Pulse!TypeOK
      [] component = "data"   -> Data!TypeOK
      [] component = "inbox"  -> Inbox!TypeOK
      [] component = "tabs"   -> Tabbed!TypeOK
      [] component = "page"   -> Page!TypeOK
      [] component = "return" -> Return!TypeOK
      [] component = "filings" -> Filings!TypeOK
      [] component = "events" -> Chain!TypeOK

\* What the replay of a ledger adds up to: purchases less sales are what is held and
\* what it cost, and the flows of money are the cash; what is held at the end was bought
\* last, split by split; a sale is reported exactly if it exceeds what there is to sell.
LedgerAddsUp == component = "books" => BooksBalance /\ FirstInFirstOut /\ OversellReported

\* No label of the other direction comes inside the cooldown, and transition events
\* of one ticker are apart.
LabelsApart ==
    component = "labels" => Labels!NoOppositeInCooldown /\ Labels!EventsApart

\* Overlapping windows agree on the label of a week.
WindowsAgree == component = "labels" => Labels!WindowsAgree

\* A daemon that is gone is not shown as running for longer than the age allows, and
\* one whose pulses arrive is shown as running.
PulseTellsLife == component = "pulse" => Pulse!DeadIsNoticed /\ Pulse!PulsesShow

\* The status page never meets half a file.
NeverTorn == component = "pulse" => Pulse!NeverTorn

\* A run recorded as a success stored all it was to store.
SuccessIsComplete == component = "data" => Data!SuccessIsComplete

\* Data shown as fresh includes the last week that is over.
MissedWeekShows == component = "data" => Data!MissedWeekShows

\* Data shown as stale need a run of the scheduler.
StaleNeedsARun == component = "data" => Data!StaleNeedsARun

\* The unread changes of a ticker are exactly those after what was seen, and a page
\* that shows one offers to mark it as seen.
InboxIsExact ==
    /\ component = "inbox" => Inbox!UnreadIsExact /\ Inbox!MarkAllOffered
    /\ component = "tabs"  => Tabbed!UnreadIsExact /\ Tabbed!MarkAllOffered

\* No request takes back what the user has seen.
ReceiptsNeverRecede == Inbox!ReceiptsNeverRecede

\* A portfolio page with no request under way shows what is stored.
SettledIsFresh == component = "page" => Page!SettledIsFresh

\* It values a holding at the quantity its row has.
RowsAreValued == component = "page" => Page!RowsAreValued

\* An account all in one ticker has the ticker's return, whatever flows in and out, and
\* what is done at the last close changes no return.
ReturnIsTimeWeighted ==
    component = "return" => Return!AllInEarnsThePrice /\ Return!LastCloseIsNeutral

\* The positions of a day are those reported by the session, whatever was amended.
PositionsFollowReports == component = "filings" => Filings!PositionsFollowReports

\* A restatement replaces what was reported, whatever it still names.
RestatementReplaces == component = "filings" => Filings!RestatementReplaces

\* No filing changes the positions of a day before it was available.
NoLookAhead == Filings!NoLookAhead

\* Whoever can read the ledger of events reads every event a call said is in it.
EventsAreKept == component = "events" => Chain!EventsAreKept

\* Every event a call said is in the ledger can be read.
AnsweredIsReadable == component = "events" => Chain!AnsweredIsReadable

=============================================================================
