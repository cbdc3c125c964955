--------------------------- MODULE ObservationInbox ---------------------------
(***************************************************************************)
(* The inbox of observation changes.  A weekly job stores one row per ticker *)
(* and week, rewriting the rows of a week it has stored before; the page     *)
(* shows a user the changes of the tickers he tracks after what he has seen; *)
(* opening a change, or marking all, stores per ticker the date he has seen  *)
(* through.  Requests are transactions of ObservationChangeService.          *)
(***************************************************************************)
EXTENDS Integers, FiniteSets, FiniteSetsExt

CONSTANTS Tickers,
          Records,    \* what a weekly row may say: a stage, and whether it is a transition
          LastWeek,   \* bound: weeks, each with the date of its Friday
          Lookback,   \* INITIAL_LOOKBACK_DAYS, in weeks
          Retained,   \* MAX_UNREAD_DAYS, in weeks
          Limit,      \* the changes a page asks for
          Tabs,       \* pages the user has open
          Nothing,    \* no row, receipt, page or request
          SnapshotIsolation  \* innodb_snapshot_isolation of the database

VARIABLES week,      \* the current one
          rows,      \* herd_observations of State S1: per ticker and week
          tracked,   \* holdings and watchlist of the user
          receipts,  \* user_observation_receipts: seen_through_date per ticker
          page,      \* the data each tab shows
          post       \* the request of each tab to mark something as seen

vars == <<week, rows, tracked, receipts, page, post>>

\* Finitely many tickers, and weeks that are counted.
InboxAssumption ==
    /\ IsFiniteSet(Tickers)
    /\ LastWeek \in Nat /\ LastWeek >= 1 /\ Lookback \in Nat /\ Retained \in Nat /\ Limit \in Nat
    /\ Nothing \notin Records /\ Nothing \notin Int

Weeks == 1..LastWeek

Init ==
    /\ week = 1
    /\ rows = [t \in Tickers |-> [w \in Weeks |-> Nothing]]
    /\ tracked = Tickers
    /\ receipts = [t \in Tickers |-> Nothing]
    /\ page = [b \in Tabs |-> Nothing]
    /\ post = [b \in Tabs |-> Nothing]

-----------------------------------------------------------------------------
(* getChanges.                                                              *)

Observed(t) == {w \in Weeks : rows[t][w] # Nothing}

\* Tracked tickers that have rows.
Followed == {t \in tracked : Observed(t) # {}}

Latest(t) == Max(Observed(t))

EffectiveCursor(t) ==
    IF receipts[t] = Nothing
    THEN Latest(t) - Lookback
    ELSE Max({receipts[t], Latest(t) - Retained})

\* Mutant: the query starts at the newest cursor, not at the oldest.
QueryFromNewest == Max({EffectiveCursor(t) : t \in Followed}) - 1

\* One query brings the rows of all tickers.
QueryFrom == Min({EffectiveCursor(t) : t \in Followed}) - 1

Fetched(t) == {w \in Observed(t) : w >= QueryFrom}

\* A row that differs in stage from the row before it, or is a transition.
Changes(t, previous, w) ==
    \/ rows[t][w].transition
    \/ rows[t][previous].stage # rows[t][w].stage

\* The weeks of a ticker that are events.  The first row of it that was fetched has none
\* to be compared with.
ChangedIn(t) ==
    {w \in Fetched(t) :
        /\ w > EffectiveCursor(t)
        /\ LET before == {v \in Fetched(t) : v < w}
           IN  before # {} /\ Changes(t, Max(before), w)}

Event(t, w) == [ticker |-> t, date |-> w, unread |-> TRUE]

BuildEvents == UNION {{Event(t, w) : w \in ChangedIn(t)} : t \in Followed}

\* The newest events are visible; which ones of the same date is left open.
Visible(events) ==
    {chosen \in SUBSET events :
        /\ Cardinality(chosen) = Min({Limit, Cardinality(events)})
        /\ \A e \in chosen, f \in events \ chosen : e.date >= f.date}

GetChanges == {[count |-> Cardinality(BuildEvents), events |-> visible] : visible \in Visible(BuildEvents)}

-----------------------------------------------------------------------------
(* The jobs and the user's lists.                                           *)

NextWeek ==
    /\ week < LastWeek
    /\ week' = week + 1
    /\ UNCHANGED <<rows, tracked, receipts, page, post>>

\* save_observation_bundle: the tickers of the bundle get their row of the week.
SaveObservationBundle(tickers, record) ==
    /\ tickers # {}
    /\ rows' = [t \in Tickers |-> IF t \in tickers THEN [rows[t] EXCEPT ![week] = record[t]]
                                  ELSE rows[t]]
    /\ UNCHANGED <<week, tracked, receipts, page, post>>

Track(t) ==
    /\ tracked' = IF t \in tracked THEN tracked \ {t} ELSE tracked \cup {t}
    /\ UNCHANGED <<week, rows, receipts, page, post>>

-----------------------------------------------------------------------------
(* The page.                                                                *)

Unread(data) == {e \in data.events : e.unread}

\* fetchChanges.  Nothing else can be clicked while it loads.
FetchChanges(b) ==
    /\ post[b] = Nothing
    /\ page' \in {[page EXCEPT ![b] = data] : data \in GetChanges}
    /\ UNCHANGED <<week, rows, tracked, receipts, post>>

\* The events of a ticker up to a date become read on the page.
Read(events, opened) ==
    {IF e.ticker = opened.ticker /\ e.date <= opened.date THEN [e EXCEPT !.unread = FALSE] ELSE e
        : e \in events}

\* What the page shows of an event that is being opened, at once.
Opened(data, e) == [count |-> Max({0, data.count - 1}), events |-> Read(data.events, e)]

\* A request, and the transaction that serves it: the receipts it has read and the
\* date it is to store for each of its tickers.
Request(all, date) == [all |-> all, date |-> date, read |-> Nothing]

\* openEvent of an unread event.
OpenEvent(b, e) ==
    /\ page[b] # Nothing
    /\ post[b] = Nothing
    /\ e \in Unread(page[b])
    /\ page' = [page EXCEPT ![b] = Opened(@, e)]
    /\ post' = [post EXCEPT ![b] = Request(FALSE, [t \in {e.ticker} |-> e.date])]
    /\ UNCHANGED <<week, rows, tracked, receipts>>

\* markAllSeen of the page.
MarkAll(b) ==
    /\ page[b] # Nothing
    /\ post[b] = Nothing
    /\ page[b].count > 0
    /\ post' = [post EXCEPT ![b] = Request(TRUE, [t \in {} |-> 0])]
    /\ UNCHANGED <<week, rows, tracked, receipts, page>>

-----------------------------------------------------------------------------
(* markTickerSeen, markAllSeen of the service.                              *)

\* The dates a request is to store.
DatesToStore(request) ==
    IF request.all
    THEN [t \in Followed |-> Latest(t)]
    ELSE [t \in DOMAIN request.date |-> Min({request.date[t], Latest(t)})]

\* The transaction begins: everything it reads.
BeginSeen(b) ==
    /\ post[b] # Nothing
    /\ post[b].read = Nothing
    /\ post[b].all \/ DOMAIN post[b].date \subseteq tracked
    /\ post' = [post EXCEPT ![b].read = receipts, ![b].date = DatesToStore(post[b])]
    /\ UNCHANGED <<week, rows, tracked, receipts, page>>

\* Mutant: the date is stored whatever is stored already.
UpsertReceiptAnyway(request, t) == request.date[t]

\* upsertReceipt: the row that was read, with a later date.
UpsertReceipt(request, t) ==
    IF request.read[t] = Nothing THEN request.date[t]
    ELSE Max({request.read[t], request.date[t]})

\* A receipt this request inserts or, where the database looks, updates has been
\* stored by another one since.
Conflict(request) ==
    \E t \in DOMAIN request.date :
        /\ receipts[t] # request.read[t]
        /\ SnapshotIsolation \/ request.read[t] = Nothing

\* The page is left for the ticker's, or shows everything as read.
Seen(request, data) ==
    IF request.all
    THEN [count |-> 0, events |-> {[e EXCEPT !.unread = FALSE] : e \in data.events}]
    ELSE Nothing

CommitSeen(b) ==
    /\ post[b] # Nothing
    /\ post[b].read # Nothing
    /\ ~Conflict(post[b])
    /\ receipts' = [t \in Tickers |->
                      IF t \in DOMAIN post[b].date THEN UpsertReceipt(post[b], t) ELSE receipts[t]]
    /\ page' = [page EXCEPT ![b] = Seen(post[b], @)]
    /\ post' = [post EXCEPT ![b] = Nothing]
    /\ UNCHANGED <<week, rows, tracked>>

\* The request fails, at any point: a page that opened an event fetches again.
SeenFails(b) ==
    /\ post[b] # Nothing
    /\ IF post[b].all
       THEN UNCHANGED page
       ELSE page' \in {[page EXCEPT ![b] = data] : data \in GetChanges}
    /\ post' = [post EXCEPT ![b] = Nothing]
    /\ UNCHANGED <<week, rows, tracked, receipts>>

-----------------------------------------------------------------------------
Next ==
    \/ NextWeek
    \/ \E tickers \in SUBSET Tickers : \E record \in [tickers -> Records] :
         SaveObservationBundle(tickers, record)
    \/ \E t \in Tickers : Track(t)
    \/ \E b \in Tabs :
         \/ FetchChanges(b)
         \/ \E t \in Tickers, w \in Weeks : OpenEvent(b, Event(t, w))
         \/ MarkAll(b) \/ BeginSeen(b) \/ CommitSeen(b) \/ SeenFails(b)

Spec == Init /\ [][Next]_vars

-----------------------------------------------------------------------------
\* Nobody has seen an observation that is not there.
TypeOK ==
    /\ week \in Weeks
    /\ \A t \in Tickers, w \in Weeks : rows[t][w] # Nothing => w <= week /\ rows[t][w] \in Records
    /\ tracked \subseteq Tickers
    /\ \A t \in Tickers : receipts[t] # Nothing => receipts[t] \in Observed(t)
    /\ \A b \in Tabs : page[b] # Nothing =>
         page[b].events \subseteq [ticker : Tickers, date : 1..week, unread : BOOLEAN]

\* The changes of a ticker after a week, against the last row before each.
ChangesAfter(t, seen) ==
    {w \in Observed(t) : w > seen /\ \E v \in Observed(t) :
        v < w /\ (\A x \in Observed(t) : x <= v \/ x >= w) /\ Changes(t, v, w)}

\* ObservationChangeService: for a ticker whose receipt is within the retained
\* time the unread changes are exactly those after it, whatever rows are missing and
\* however far apart the cursors of the tickers are that one query serves.
UnreadIsExact ==
    \A t \in Followed :
        receipts[t] # Nothing /\ receipts[t] >= Latest(t) - Retained =>
            {e.date : e \in {e \in BuildEvents : e.ticker = t}} = ChangesAfter(t, receipts[t])

\* ObservationChanges.jsx: as long as a page shows an unread event, marking all as
\* seen is offered.
MarkAllOffered ==
    \A b \in Tabs : page[b] # Nothing => Cardinality(Unread(page[b])) <= page[b].count

\* No request, of a page that is out of date or of another tab, takes back what the
\* user has seen.
ReceiptsNeverRecede ==
    [][\A t \in DOMAIN receipts : receipts[t] # Nothing =>
          receipts'[t] # Nothing /\ receipts'[t] >= receipts[t]]_receipts

=============================================================================
