------------------------- MODULE ObservationInboxProofs -------------------------
(***************************************************************************)
(* The inbox for any tickers, weeks, tabs and limits: the unread changes    *)
(* are exactly those after what was seen, a page that shows one offers to   *)
(* mark it, and what was seen is never taken back.                          *)
(*                                                                          *)
(* The invariant says that every date on a page, in a request and in a      *)
(* receipt is that of an observation of its ticker, which is never removed.  *)
(***************************************************************************)
EXTENDS ObservationInbox, FiniteSetTheorems, WellFoundedInduction, TLAPS

Events == [ticker : Tickers, date : Weeks, unread : BOOLEAN]

Pages == [count : Nat, events : SUBSET Events]

\* A receipt is of an observation.
OfObservations(seen) ==
    /\ seen \in [Tickers -> Weeks \cup {Nothing}]
    /\ \A t \in Tickers : seen[t] # Nothing => seen[t] \in Observed(t)

RowsKept ==
    /\ week \in Weeks
    /\ rows \in [Tickers -> [Weeks -> Records \cup {Nothing}]]
    /\ \A t \in Tickers, w \in Weeks : rows[t][w] # Nothing => w <= week
    /\ tracked \subseteq Tickers

PageFits(data) ==
    /\ data \in Pages
    /\ \A e \in data.events : e.date \in Observed(e.ticker)
    /\ Cardinality(Unread(data)) <= data.count

PostFits(request) ==
    /\ request = [all |-> request.all, date |-> request.date, read |-> request.read]
    /\ DOMAIN request.date \subseteq Tickers
    /\ \A t \in DOMAIN request.date : request.date[t] \in Observed(t)
    /\ request.read # Nothing => OfObservations(request.read)

IInv ==
    /\ RowsKept
    /\ OfObservations(receipts)
    /\ page \in [Tabs -> Pages \cup {Nothing}]
    /\ \A b \in Tabs : page[b] # Nothing => PageFits(page[b])
    /\ DOMAIN post = Tabs
    /\ \A b \in Tabs : post[b] # Nothing => PostFits(post[b]) /\ (post[b].all => page[b] # Nothing)

-----------------------------------------------------------------------------
(* Numbers and finite sets. *)

LessThan == OpToRel(<, Nat)

\* A set of natural numbers has a least element,
LEMMA LeastElement ==
    ASSUME NEW S \in SUBSET Nat, S # {}
    PROVE  \E x \in S : \A y \in S : x <= y
<1>1. IsWellFoundedOn(LessThan, Nat)
  BY NatLessThanWellFounded, Zenon DEF LessThan
<1>2. PICK x \in S : \A y \in S : ~(<<y, x>> \in LessThan)
  BY <1>1, WFMin, Zenon
<1>3. \A y, z \in Nat : y < z => <<y, z>> \in LessThan
  BY DEF LessThan, OpToRel
<1>4. \A y \in S : ~(y < x)
  BY <1>2, <1>3
<1> QED
  BY <1>4

\* so that a set of integers with a lower bound has a Min
LEMMA MinIs ==
    ASSUME NEW S \in SUBSET Int, S # {}, NEW n \in Int, \A y \in S : n <= y
    PROVE  Min(S) \in S /\ \A y \in S : Min(S) <= y
<1> DEFINE T == {x - n : x \in S}
<1>1. T \in SUBSET Nat /\ T # {} /\ \A y \in S : y - n \in T
  <2>1. \A y \in S : y \in Int /\ y - n \in Nat
    OBVIOUS
  <2> QED
    BY <2>1
<1>2. PICK t \in T : \A u \in T : t <= u
  <2> HIDE DEF T
  <2> QED
    BY <1>1, LeastElement
<1>3. PICK x \in S : t = x - n
  OBVIOUS
<1> HIDE DEF T
<1>4. \A y \in S : x <= y
  <2> SUFFICES ASSUME NEW y \in S PROVE x <= y
    OBVIOUS
  <2>1. x - n <= y - n
    BY <1>1, <1>2, <1>3
  <2> QED
    BY <2>1
<1> QED
  BY <1>4 DEF Min

\* and one with an upper bound a Max.
LEMMA MaxIs ==
    ASSUME NEW S \in SUBSET Int, S # {}, NEW n \in Int, \A y \in S : y <= n
    PROVE  Max(S) \in S /\ \A y \in S : Max(S) >= y
<1> DEFINE T == {n - x : x \in S}
<1>1. T \in SUBSET Nat /\ T # {} /\ \A y \in S : n - y \in T
  <2>1. \A y \in S : y \in Int /\ n - y \in Nat
    OBVIOUS
  <2> QED
    BY <2>1
<1>2. PICK t \in T : \A u \in T : t <= u
  <2> HIDE DEF T
  <2> QED
    BY <1>1, LeastElement
<1>3. PICK x \in S : t = n - x
  OBVIOUS
<1> HIDE DEF T
<1>4. \A y \in S : x >= y
  <2> SUFFICES ASSUME NEW y \in S PROVE x >= y
    OBVIOUS
  <2>1. n - x <= n - y
    BY <1>1, <1>2, <1>3
  <2> QED
    BY <2>1
<1> QED
  BY <1>4 DEF Max

\* The larger of two weeks.
LEMMA MaxOfTwo ==
    ASSUME NEW x \in Int, NEW y \in Int
    PROVE  /\ Max({x, y}) \in {x, y} /\ Max({x, y}) >= x /\ Max({x, y}) >= y
           /\ Min({x, y}) \in {x, y} /\ Min({x, y}) <= x /\ Min({x, y}) <= y
<1>1. /\ Max({x, y}) \in {x, y} /\ \A z \in {x, y} : Max({x, y}) >= z
      /\ Min({x, y}) \in {x, y} /\ \A z \in {x, y} : Min({x, y}) <= z
  <2>1. \E z \in {x, y} : \A u \in {x, y} : z >= u
    BY x >= y \/ y >= x
  <2>2. \E z \in {x, y} : \A u \in {x, y} : z <= u
    BY x >= y \/ y >= x
  <2> QED
    BY <2>1, <2>2 DEF Max, Min
<1> QED
  BY <1>1

\* There are finitely many events.
LEMMA EventsFinite ==
    ASSUME InboxAssumption, NEW S \in SUBSET Events
    PROVE  IsFiniteSet(S) /\ Cardinality(S) \in Nat
<1> DEFINE D == (Tickers \X Weeks) \X BOOLEAN
           f == [d \in D |-> [ticker |-> d[1][1], date |-> d[1][2], unread |-> d[2]]]
<1>1. IsFiniteSet(Weeks) /\ IsFiniteSet(BOOLEAN)
  <2>1. BOOLEAN = {TRUE} \cup {FALSE}
    OBVIOUS
  <2>2. IsFiniteSet({TRUE} \cup {FALSE})
    BY FS_Singleton, FS_Union
  <2>3. IsFiniteSet(1..LastWeek)
    BY FS_Interval DEF InboxAssumption
  <2> QED
    BY <2>1, <2>2, <2>3 DEF Weeks
<1>2. IsFiniteSet(D)
  BY <1>1, FS_Product DEF InboxAssumption
<1>3. f \in Surjection(D, Events)
  <2>1. f \in [D -> Events]
    BY DEF Events
  <2>2. \A e \in Events : <<<<e.ticker, e.date>>, e.unread>> \in D /\ f[<<<<e.ticker, e.date>>, e.unread>>] = e
    BY DEF Events
  <2> QED
    BY <2>1, <2>2, Zenon DEF Surjection
<1>4. IsFiniteSet(Events)
  BY <1>2, <1>3, FS_Surjection
<1> QED
  BY <1>4, FS_Subset, FS_CardinalityType

\* The latest observation of a ticker that has one.
LEMMA LatestIs ==
    ASSUME InboxAssumption, NEW t, Observed(t) # {}
    PROVE  Latest(t) \in Observed(t) /\ \A w \in Observed(t) : w <= Latest(t)
<1>1. Observed(t) \in SUBSET Int /\ \A w \in Observed(t) : w <= LastWeek
  BY DEF Observed, Weeks, InboxAssumption
<1>2. LastWeek \in Int
  BY DEF InboxAssumption
<1>3. Latest(t) \in Observed(t) /\ \A w \in Observed(t) : Latest(t) >= w
  BY <1>1, <1>2, MaxIs DEF Latest
<1> QED
  BY <1>1, <1>3

-----------------------------------------------------------------------------
(* What the requests read. *)

\* What getChanges answers is of observations, and counts what it shows.
LEMMA ChangesFit ==
    ASSUME InboxAssumption, RowsKept, NEW data \in GetChanges
    PROVE  PageFits(data)
<1>1. BuildEvents \subseteq Events /\ \A e \in BuildEvents : e.date \in Observed(e.ticker)
  <2> SUFFICES ASSUME NEW t \in Followed, NEW w \in ChangedIn(t)
               PROVE  Event(t, w) \in Events /\ Event(t, w).date \in Observed(Event(t, w).ticker)
    BY DEF BuildEvents
  <2>1. w \in Observed(t) /\ t \in Tickers
    BY DEF ChangedIn, Fetched, Followed, RowsKept
  <2> QED
    BY <2>1 DEF Event, Events, Observed
<1>2. PICK visible \in SUBSET BuildEvents : data = [count |-> Cardinality(BuildEvents), events |-> visible]
  BY DEF GetChanges, Visible
<1>3. IsFiniteSet(BuildEvents) /\ Cardinality(BuildEvents) \in Nat
  BY <1>1, EventsFinite
<1>4. Unread(data) \subseteq BuildEvents
  BY <1>2 DEF Unread
<1>5. Cardinality(Unread(data)) <= Cardinality(BuildEvents)
  BY <1>3, <1>4, FS_Subset
<1> QED
  BY <1>1, <1>2, <1>3, <1>5 DEF PageFits, Pages

\* The dates a request is to store are of observations.
LEMMA DatesFit ==
    ASSUME InboxAssumption, RowsKept, NEW request, PostFits(request)
    PROVE  /\ DOMAIN DatesToStore(request) \subseteq Tickers
           /\ \A t \in DOMAIN DatesToStore(request) : DatesToStore(request)[t] \in Observed(t)
<1>1. CASE request.all
  <2>1. DatesToStore(request) = [t \in Followed |-> Latest(t)]
    BY <1>1 DEF DatesToStore
  <2>2. \A t \in Followed : t \in Tickers /\ Latest(t) \in Observed(t)
    BY LatestIs DEF Followed, RowsKept
  <2> QED
    BY <2>1, <2>2
<1>2. CASE ~request.all
  <2>1. DatesToStore(request) = [t \in DOMAIN request.date |-> Min({request.date[t], Latest(t)})]
    BY <1>2 DEF DatesToStore
  <2>2. ASSUME NEW t \in DOMAIN request.date
        PROVE  Min({request.date[t], Latest(t)}) \in Observed(t)
    <3>1. request.date[t] \in Observed(t) /\ Latest(t) \in Observed(t) /\ Observed(t) \subseteq Int
      BY LatestIs DEF PostFits, Observed, Weeks
    <3> QED
      BY <3>1, MaxOfTwo
  <2> QED
    BY <2>1, <2>2 DEF PostFits
<1> QED
  BY <1>1, <1>2

-----------------------------------------------------------------------------
(* The steps. *)

\* A step that changes rows or what is tracked.
LEMMA RowsStep ==
    ASSUME IInv, RowsKept', \A t \in Tickers : Observed(t) \subseteq Observed(t)',
           UNCHANGED <<receipts, page, post>>
    PROVE  IInv'
<1>1. OfObservations(receipts)'
  BY DEF IInv, OfObservations
<1>2. \A b \in Tabs : page'[b] # Nothing => PageFits(page[b])'
  <2> SUFFICES ASSUME NEW b \in Tabs, page[b] # Nothing PROVE PageFits(page[b])'
    OBVIOUS
  <2>1. PageFits(page[b]) /\ page[b]' = page[b]
    BY DEF IInv
  <2>2. \A e \in page[b].events : e.ticker \in Tickers
    BY <2>1 DEF PageFits, Pages, Events
  <2> QED
    BY <2>1, <2>2 DEF PageFits, Unread
<1>3. \A b \in Tabs : post'[b] # Nothing => PostFits(post[b])'
  <2> SUFFICES ASSUME NEW b \in Tabs, post[b] # Nothing PROVE PostFits(post[b])'
    OBVIOUS
  <2>1. PostFits(post[b]) /\ post[b]' = post[b]
    BY DEF IInv
  <2> QED
    BY <2>1 DEF PostFits, OfObservations
<1> QED
  BY <1>1, <1>2, <1>3 DEF IInv

\* A step of a tab.
LEMMA TabStep ==
    ASSUME IInv, UNCHANGED <<week, rows, tracked>>, OfObservations(receipts'),
           page' \in [Tabs -> Pages \cup {Nothing}], DOMAIN post' = Tabs,
           \A b \in Tabs : page'[b] # Nothing => PageFits(page'[b]),
           \A b \in Tabs : post'[b] # Nothing =>
               PostFits(post'[b]) /\ (post'[b].all => page'[b] # Nothing)
    PROVE  IInv'
<1>1. \A t : Observed(t)' = Observed(t)
  BY DEF Observed
<1>2. RowsKept' /\ OfObservations(receipts)'
  BY <1>1 DEF IInv, RowsKept, OfObservations
<1>3. \A b \in Tabs : page'[b] # Nothing => PageFits(page[b])'
  BY <1>1 DEF PageFits, Unread
<1>4. \A b \in Tabs : post'[b] # Nothing => PostFits(post[b])'
  BY <1>1 DEF PostFits, OfObservations
<1> QED
  BY <1>2, <1>3, <1>4 DEF IInv

\* Opening an event takes one off the count and the event off the unread.
LEMMA OpenedFits ==
    ASSUME InboxAssumption, NEW data, PageFits(data), NEW e \in Unread(data)
    PROVE  PageFits(Opened(data, e))
<1> DEFINE left == Opened(data, e)
<1>1. /\ left.events = Read(data.events, e) /\ left.count = Max({0, data.count - 1})
      /\ DOMAIN left = {"count", "events"}
  BY DEF Opened
<1>2. data.count \in Nat /\ data.events \subseteq Events /\ e \in data.events /\ e.unread
  BY DEF PageFits, Pages, Unread
<1>3. \A f \in data.events : [f EXCEPT !.unread = FALSE] \in Events
  BY <1>2 DEF Events
<1>4. left.events \subseteq Events
  BY <1>1, <1>2, <1>3 DEF Read
<1>5. \A f \in left.events : f.date \in Observed(f.ticker)
  <2> SUFFICES ASSUME NEW g \in data.events
               PROVE  [g EXCEPT !.unread = FALSE].date = g.date /\ [g EXCEPT !.unread = FALSE].ticker = g.ticker
    BY <1>1 DEF Read, PageFits
  <2>1. g \in Events
    BY <1>2
  <2> QED
    BY <2>1 DEF Events
<1>6. left.count \in Nat /\ left.count >= data.count - 1
  <2> DEFINE fewer == data.count - 1
  <2>1. fewer \in Int /\ 0 \in Int
    BY <1>2
  <2> HIDE DEF fewer
  <2>2. Max({0, fewer}) \in {0, fewer} /\ Max({0, fewer}) >= 0 /\ Max({0, fewer}) >= fewer
    BY <2>1, MaxOfTwo
  <2>3. left.count \in Int /\ left.count >= 0 /\ left.count >= fewer
    BY <1>1, <2>1, <2>2 DEF fewer
  <2> QED
    BY <2>3 DEF fewer
<1>7. Unread(left) \subseteq Unread(data) \ {e}
  <2> SUFFICES ASSUME NEW f \in left.events, f.unread PROVE f \in data.events /\ f # e
    BY DEF Unread
  <2>1. PICK g \in data.events :
             f = IF g.ticker = e.ticker /\ g.date <= e.date THEN [g EXCEPT !.unread = FALSE] ELSE g
    BY <1>1 DEF Read
  <2>2. ~(g.ticker = e.ticker /\ g.date <= e.date)
    <3>1. g \in Events
      BY <1>2
    <3> QED
      BY <2>1, <3>1 DEF Events
  <2>3. e.date <= e.date
    BY <1>2 DEF Events, Weeks
  <2> QED
    BY <2>1, <2>2, <2>3
<1>8. IsFiniteSet(Unread(data)) /\ Cardinality(Unread(data)) \in Nat /\ Unread(data) \subseteq Events
  <2>1. Unread(data) \subseteq Events
    BY <1>2 DEF Unread
  <2> QED
    BY <2>1, EventsFinite
<1>9. Cardinality(Unread(data) \ {e}) = Cardinality(Unread(data)) - 1 /\ IsFiniteSet(Unread(data) \ {e})
  BY <1>8, FS_RemoveElement
<1>10. Cardinality(Unread(left)) <= Cardinality(Unread(data)) - 1 /\ Cardinality(Unread(left)) \in Nat
  <2>1. Unread(left) \subseteq Events
    BY <1>7, <1>8
  <2> QED
    BY <1>7, <1>9, <2>1, EventsFinite, FS_Subset
<1>11. Cardinality(Unread(data)) <= data.count
  BY DEF PageFits
<1>12. Cardinality(Unread(left)) <= left.count
  BY <1>2, <1>6, <1>8, <1>10, <1>11
<1>13. left \in Pages
  BY <1>4, <1>6 DEF Opened, Pages
<1> QED
  BY <1>5, <1>12, <1>13 DEF PageFits

\* A page of which all is read.
LEMMA AllReadFits ==
    ASSUME InboxAssumption, NEW data, PageFits(data),
           NEW left, left = [count |-> 0, events |-> {[e EXCEPT !.unread = FALSE] : e \in data.events}]
    PROVE  PageFits(left)
<1>1. data.events \subseteq Events
  BY DEF PageFits, Pages
<1>2. \A e \in data.events : /\ [e EXCEPT !.unread = FALSE] \in Events
                             /\ [e EXCEPT !.unread = FALSE].ticker = e.ticker
                             /\ [e EXCEPT !.unread = FALSE].date = e.date
                             /\ ~[e EXCEPT !.unread = FALSE].unread
  BY <1>1 DEF Events
<1>3. Unread(left) = {} /\ Cardinality(Unread(left)) = 0
  BY <1>2, FS_EmptySet DEF Unread
<1>4. left.count = 0 /\ left.events = {[e EXCEPT !.unread = FALSE] : e \in data.events}
  OBVIOUS
<1>5. left \in Pages
  BY <1>2, <1>4 DEF Pages
<1>6. \A e \in left.events : e.date \in Observed(e.ticker)
  BY <1>2, <1>4 DEF PageFits
<1> QED
  BY <1>3, <1>4, <1>5, <1>6 DEF PageFits

\* What a request stores is of observations, too.
LEMMA StoredFits ==
    ASSUME NEW request, PostFits(request), request.read # Nothing, NEW t \in DOMAIN request.date
    PROVE  /\ UpsertReceipt(request, t) \in Observed(t)
           /\ request.read[t] # Nothing => UpsertReceipt(request, t) >= request.read[t]
<1>1. request.date[t] \in Observed(t) /\ t \in Tickers /\ OfObservations(request.read)
  BY DEF PostFits
<1>2. CASE request.read[t] = Nothing
  BY <1>1, <1>2 DEF UpsertReceipt
<1>3. CASE request.read[t] # Nothing
  <2>1. request.read[t] \in Observed(t) /\ Observed(t) \subseteq Int
    BY <1>1, <1>3 DEF OfObservations, Observed, Weeks
  <2>2. UpsertReceipt(request, t) = Max({request.read[t], request.date[t]})
    BY <1>3 DEF UpsertReceipt
  <2> DEFINE earlier == request.read[t]
             later == request.date[t]
  <2>3. earlier \in Int /\ later \in Int /\ earlier \in Observed(t) /\ later \in Observed(t)
    BY <1>1, <2>1
  <2>4. UpsertReceipt(request, t) = Max({earlier, later})
    BY <2>2
  <2> HIDE DEF earlier, later
  <2>5. Max({earlier, later}) \in {earlier, later} /\ Max({earlier, later}) >= earlier
    BY <2>3, MaxOfTwo
  <2>6. UpsertReceipt(request, t) \in Observed(t) /\ UpsertReceipt(request, t) >= earlier
    BY <2>3, <2>4, <2>5
  <2> QED
    BY <2>6 DEF earlier
<1> QED
  BY <1>2, <1>3

\* A receipt that is committed keeps the invariant.
LEMMA CommitKeeps ==
    ASSUME InboxAssumption, IInv, NEW b \in Tabs, CommitSeen(b)
    PROVE  /\ IInv'
           /\ SnapshotIsolation => \A t \in Tickers : receipts[t] # Nothing =>
                  receipts'[t] # Nothing /\ receipts'[t] >= receipts[t]
<1> DEFINE request == post[b]
<1>1. PostFits(request) /\ request.read # Nothing /\ ~Conflict(request)
  BY DEF IInv, CommitSeen
<1>2. receipts' = [t \in Tickers |-> IF t \in DOMAIN request.date THEN UpsertReceipt(request, t) ELSE receipts[t]]
  BY DEF CommitSeen
<1>3. OfObservations(receipts')
  <2>1. ASSUME NEW t \in Tickers
        PROVE  receipts'[t] \in Weeks \cup {Nothing} /\ (receipts'[t] # Nothing => receipts'[t] \in Observed(t))
    <3>1. CASE t \in DOMAIN request.date
      <4>1. UpsertReceipt(request, t) \in Observed(t)
        BY <1>1, <3>1, StoredFits
      <4> QED
        BY <1>2, <3>1, <4>1 DEF Observed
    <3>2. CASE t \notin DOMAIN request.date
      BY <1>2, <3>2 DEF IInv, OfObservations
    <3> QED
      BY <3>1, <3>2
  <2> QED
    BY <1>2, <2>1 DEF OfObservations
<1>4. /\ page' = [page EXCEPT ![b] = Seen(request, page[b])] /\ post' = [post EXCEPT ![b] = Nothing]
      /\ UNCHANGED <<week, rows, tracked>>
  BY DEF CommitSeen
<1>5. Seen(request, page[b]) # Nothing => PageFits(Seen(request, page[b]))
  <2> SUFFICES ASSUME request.all PROVE PageFits(Seen(request, page[b]))
    BY DEF Seen
  <2>1. Seen(request, page[b]) = [count |-> 0, events |-> {[e EXCEPT !.unread = FALSE] : e \in page[b].events}]
    BY DEF Seen
  <2>2. PageFits(page[b])
    BY <1>1 DEF IInv, CommitSeen
  <2> QED
    BY <2>1, <2>2, AllReadFits
<1>6. Seen(request, page[b]) \in Pages \cup {Nothing}
  <2>1. CASE request.all
    BY <1>5, <2>1 DEF Seen, PageFits
  <2>2. CASE ~request.all
    BY <2>2 DEF Seen
  <2> QED
    BY <2>1, <2>2
<1>7. IInv'
  <2>1. page' \in [Tabs -> Pages \cup {Nothing}] /\ DOMAIN post' = Tabs
    BY <1>4, <1>6 DEF IInv
  <2>2. \A c \in Tabs : page'[c] # Nothing => PageFits(page'[c])
    BY <1>4, <1>5 DEF IInv
  <2>3. \A c \in Tabs : post'[c] # Nothing => PostFits(post'[c]) /\ (post'[c].all => page'[c] # Nothing)
    BY <1>4 DEF IInv
  <2> QED
    BY <1>3, <1>4, <2>1, <2>2, <2>3, TabStep
<1>8. ASSUME SnapshotIsolation, NEW t \in Tickers, receipts[t] # Nothing
      PROVE  receipts'[t] # Nothing /\ receipts'[t] >= receipts[t]
  <2>1. CASE t \in DOMAIN request.date
    <3>1. request.read[t] = receipts[t]
      BY <1>1, <1>8, <2>1 DEF Conflict
    <3>2. receipts'[t] \in Observed(t) /\ receipts'[t] >= receipts[t]
      BY <1>1, <1>2, <1>8, <2>1, <3>1, StoredFits
    <3> QED
      BY <3>2 DEF Observed, Weeks, InboxAssumption
  <2>2. CASE t \notin DOMAIN request.date
    <3>1. receipts'[t] = receipts[t] /\ receipts[t] \in Int
      BY <1>2, <1>8, <2>2 DEF IInv, OfObservations, Weeks
    <3> QED
      BY <1>8, <3>1
  <2> QED
    BY <2>1, <2>2
<1> QED
  BY <1>7, <1>8

\* What a transaction that begins makes of a request.
LEMMA RequestsAre ==
    ASSUME NEW request, NEW seen, NEW dates,
           request = [all |-> request.all, date |-> request.date, read |-> request.read]
    PROVE  [request EXCEPT !.read = seen, !.date = dates] = [all |-> request.all, date |-> dates, read |-> seen]
<1>1. PICK all, date, read : request = [all |-> all, date |-> date, read |-> read]
  OBVIOUS
<1> DEFINE begun == [request EXCEPT !.read = seen]
<1>2. begun = [all |-> all, date |-> date, read |-> seen]
  BY <1>1
<1>3. [request EXCEPT !.read = seen, !.date = dates] = [begun EXCEPT !.date = dates]
  BY <1>1
<1>4. request.all = all
  BY <1>1
<1> HIDE DEF begun
<1>5. [begun EXCEPT !.date = dates] = [all |-> all, date |-> dates, read |-> seen]
  BY <1>2
<1> QED
  BY <1>3, <1>4, <1>5

\* Every step keeps the invariant.
LEMMA NextKeeps ==
    ASSUME InboxAssumption, IInv, [Next]_vars
    PROVE  IInv'
<1>1. CASE NextWeek
  <2>1. RowsKept'
    BY <1>1 DEF NextWeek, IInv, RowsKept, Weeks, InboxAssumption
  <2> QED
    BY <1>1, <2>1, RowsStep DEF NextWeek, Observed
<1>2. ASSUME NEW tickers \in SUBSET Tickers, NEW record \in [tickers -> Records],
             SaveObservationBundle(tickers, record)
      PROVE  IInv'
  <2>1. \A t \in Tickers, w \in Weeks :
            rows'[t][w] = IF t \in tickers /\ w = week THEN record[t] ELSE rows[t][w]
    BY <1>2 DEF SaveObservationBundle, IInv, RowsKept
  <2>2. rows' \in [Tickers -> [Weeks -> Records \cup {Nothing}]]
    <3>1. ASSUME NEW t \in Tickers
          PROVE  (IF t \in tickers THEN [rows[t] EXCEPT ![week] = record[t]] ELSE rows[t])
                    \in [Weeks -> Records \cup {Nothing}]
      <4>1. t \in tickers => record[t] \in Records
        BY <1>2
      <4> QED
        BY <4>1 DEF IInv, RowsKept
    <3> QED
      BY <1>2, <3>1 DEF SaveObservationBundle
  <2>3. \A t \in Tickers, w \in Weeks : rows'[t][w] # Nothing => w <= week
    BY <2>1 DEF IInv, RowsKept, Weeks
  <2>4. RowsKept'
    BY <1>2, <2>2, <2>3 DEF SaveObservationBundle, IInv, RowsKept
  <2>5. \A t \in Tickers : Observed(t) \subseteq Observed(t)'
    BY <1>2, <2>1 DEF Observed, InboxAssumption
  <2> QED
    BY <1>2, <2>4, <2>5, RowsStep DEF SaveObservationBundle
<1>3. ASSUME NEW t \in Tickers, Track(t) PROVE IInv'
  <2>1. RowsKept'
    BY <1>3 DEF Track, IInv, RowsKept
  <2> QED
    BY <1>3, <2>1, RowsStep DEF Track, Observed
<1>4. ASSUME NEW b \in Tabs, FetchChanges(b) PROVE IInv'
  <2>1. PICK answer \in GetChanges : page' = [page EXCEPT ![b] = answer]
    BY <1>4 DEF FetchChanges
  <2>2. PageFits(answer)
    BY <2>1, ChangesFit DEF IInv
  <2>3. page' \in [Tabs -> Pages \cup {Nothing}]
    BY <2>1, <2>2 DEF IInv, PageFits
  <2>4. \A c \in Tabs : page'[c] # Nothing => PageFits(page'[c])
    BY <2>1, <2>2 DEF IInv
  <2>5. post' = post /\ post[b] = Nothing /\ OfObservations(receipts') /\ UNCHANGED <<week, rows, tracked>>
    BY <1>4 DEF FetchChanges, IInv
  <2>6. \A c \in Tabs : post'[c] # Nothing => PostFits(post'[c]) /\ (post'[c].all => page'[c] # Nothing)
    BY <2>1, <2>5 DEF IInv
  <2> QED
    BY <2>3, <2>4, <2>5, <2>6, TabStep DEF IInv
<1>5. ASSUME NEW b \in Tabs, NEW t \in Tickers, NEW w \in Weeks, OpenEvent(b, Event(t, w)) PROVE IInv'
  <2> DEFINE e == Event(t, w)
             opened == Opened(page[b], e)
             request == Request(FALSE, [u \in {e.ticker} |-> e.date])
  <2>1. /\ page[b] # Nothing /\ e \in Unread(page[b])
        /\ page' = [page EXCEPT ![b] = opened] /\ post' = [post EXCEPT ![b] = request]
        /\ UNCHANGED <<week, rows, tracked, receipts>>
    BY <1>5 DEF OpenEvent
  <2>2. PageFits(page[b])
    BY <2>1 DEF IInv
  <2>3. PageFits(opened)
    BY <2>1, <2>2, OpenedFits
  <2>4. e.ticker \in Tickers /\ e.date \in Observed(e.ticker)
    BY <2>1, <2>2 DEF PageFits, Unread, Event
  <2>5. PostFits(request) /\ request.all = FALSE
    BY <2>4 DEF PostFits, Request
  <2>6. page' \in [Tabs -> Pages \cup {Nothing}]
    BY <2>1, <2>3 DEF IInv, PageFits
  <2>7. \A c \in Tabs : page'[c] # Nothing => PageFits(page'[c])
    BY <2>1, <2>3 DEF IInv
  <2>8. \A c \in Tabs : post'[c] # Nothing => PostFits(post'[c]) /\ (post'[c].all => page'[c] # Nothing)
    BY <2>1, <2>5 DEF IInv
  <2> QED
    BY <2>1, <2>6, <2>7, <2>8, TabStep DEF IInv
<1>6. ASSUME NEW b \in Tabs, MarkAll(b) PROVE IInv'
  <2> DEFINE request == Request(TRUE, [t \in {} |-> 0])
  <2>1. PostFits(request)
    BY DEF PostFits, Request
  <2>2. post' = [post EXCEPT ![b] = request] /\ page[b] # Nothing /\ UNCHANGED <<week, rows, tracked, receipts, page>>
    BY <1>6 DEF MarkAll
  <2>3. \A c \in Tabs : post'[c] # Nothing => PostFits(post'[c]) /\ (post'[c].all => page'[c] # Nothing)
    BY <2>1, <2>2 DEF IInv
  <2> QED
    BY <2>2, <2>3, TabStep DEF IInv
<1>7. ASSUME NEW b \in Tabs, BeginSeen(b) PROVE IInv'
  <2> DEFINE request == [all |-> post[b].all, date |-> DatesToStore(post[b]), read |-> receipts]
  <2>1. PostFits(post[b]) /\ post[b] # Nothing /\ UNCHANGED <<week, rows, tracked, receipts, page>>
    BY <1>7 DEF BeginSeen, IInv
  <2>2. post' = [post EXCEPT ![b] = request]
    <3> DEFINE old == post[b]
    <3>1. old = [all |-> old.all, date |-> old.date, read |-> old.read]
      BY <2>1 DEF PostFits
    <3>2. post' = [post EXCEPT ![b] = [old EXCEPT !.read = receipts, !.date = DatesToStore(old)]]
      BY <1>7 DEF BeginSeen
    <3>3. [old EXCEPT !.read = receipts, !.date = DatesToStore(old)]
            = [all |-> old.all, date |-> DatesToStore(old), read |-> receipts]
      BY <3>1, RequestsAre
    <3> QED
      BY <3>2, <3>3 DEF old
  <2>3. PostFits(request)
    BY <2>1, DatesFit DEF PostFits, IInv
  <2>4. \A c \in Tabs : post'[c] # Nothing => PostFits(post'[c]) /\ (post'[c].all => page'[c] # Nothing)
    BY <2>1, <2>2, <2>3 DEF IInv
  <2> QED
    BY <2>1, <2>2, <2>4, TabStep DEF IInv
<1>8. ASSUME NEW b \in Tabs, CommitSeen(b) PROVE IInv'
  BY <1>8, CommitKeeps
<1>9. ASSUME NEW b \in Tabs, SeenFails(b) PROVE IInv'
  <2>1. PICK shown : page' = [page EXCEPT ![b] = shown] /\ (shown = page[b] \/ shown \in GetChanges)
    BY <1>9 DEF SeenFails, IInv
  <2>2. post' = [post EXCEPT ![b] = Nothing] /\ UNCHANGED <<week, rows, tracked, receipts>>
    BY <1>9 DEF SeenFails
  <2>3. shown # Nothing => PageFits(shown)
    BY <2>1, ChangesFit DEF IInv
  <2>4. page' \in [Tabs -> Pages \cup {Nothing}]
    BY <2>1, <2>3 DEF IInv, PageFits
  <2>5. \A c \in Tabs : page'[c] # Nothing => PageFits(page'[c])
    BY <2>1, <2>3 DEF IInv
  <2>6. \A c \in Tabs : post'[c] # Nothing => PostFits(post'[c]) /\ (post'[c].all => page'[c] # Nothing)
    BY <2>1, <2>2 DEF IInv
  <2> QED
    BY <2>2, <2>4, <2>5, <2>6, TabStep DEF IInv
<1>10. CASE UNCHANGED vars
  BY <1>10, TabStep DEF vars, IInv
<1> QED
  BY <1>1, <1>2, <1>3, <1>4, <1>5, <1>6, <1>7, <1>8, <1>9, <1>10 DEF Next

-----------------------------------------------------------------------------
(* What the unread changes are. *)

\* For a ticker seen within the retained time everything from the row before the
\* receipt on is fetched.
LEMMA CursorOf ==
    ASSUME InboxAssumption, IInv, NEW t \in Followed, receipts[t] # Nothing,
           receipts[t] >= Latest(t) - Retained
    PROVE  /\ EffectiveCursor(t) = receipts[t]
           /\ QueryFrom \in Int /\ QueryFrom < receipts[t]
<1>1. \A u \in Followed : EffectiveCursor(u) \in Int /\ -(Lookback + Retained) <= EffectiveCursor(u)
  <2> SUFFICES ASSUME NEW u \in Followed
               PROVE  EffectiveCursor(u) \in Int /\ -(Lookback + Retained) <= EffectiveCursor(u)
    OBVIOUS
  <2>1. Latest(u) \in Int /\ Latest(u) >= 1
    BY LatestIs DEF Followed, Observed, Weeks, InboxAssumption
  <2>2. CASE receipts[u] = Nothing
    BY <2>1, <2>2 DEF EffectiveCursor, InboxAssumption
  <2>3. CASE receipts[u] # Nothing
    <3> DEFINE seen == receipts[u]
               oldest == Latest(u) - Retained
    <3>1. seen \in Int /\ seen >= 1
      BY <2>3 DEF IInv, OfObservations, Followed, RowsKept, Weeks, InboxAssumption
    <3>2. oldest \in Int
      BY <2>1 DEF InboxAssumption
    <3>3. EffectiveCursor(u) = Max({seen, oldest})
      BY <2>3 DEF EffectiveCursor
    <3> HIDE DEF seen, oldest
    <3>4. Max({seen, oldest}) \in Int /\ Max({seen, oldest}) >= seen
      BY <3>1, <3>2, MaxOfTwo
    <3> QED
      BY <3>1, <3>3, <3>4 DEF InboxAssumption
  <2> QED
    BY <2>2, <2>3
<1>2. EffectiveCursor(t) = receipts[t]
  <2> DEFINE seen == receipts[t]
             oldest == Latest(t) - Retained
  <2>1. Latest(t) \in Int
    BY LatestIs DEF Followed, Observed, Weeks
  <2>2. seen \in Int /\ oldest \in Int /\ seen >= oldest
    BY <2>1 DEF IInv, OfObservations, Followed, RowsKept, Weeks, InboxAssumption
  <2>3. EffectiveCursor(t) = Max({seen, oldest})
    BY DEF EffectiveCursor
  <2> HIDE DEF seen, oldest
  <2>4. Max({seen, oldest}) \in {seen, oldest} /\ Max({seen, oldest}) >= seen
    BY <2>2, MaxOfTwo
  <2>5. EffectiveCursor(t) = seen
    BY <2>2, <2>3, <2>4
  <2> QED
    BY <2>5 DEF seen
<1>3. QueryFrom \in Int /\ QueryFrom < EffectiveCursor(t)
  <2> DEFINE cursors == {EffectiveCursor(u) : u \in Followed}
             least == -(Lookback + Retained)
  <2>1. cursors \in SUBSET Int /\ cursors # {} /\ EffectiveCursor(t) \in cursors
        /\ \A c \in cursors : least <= c
    BY <1>1
  <2>2. QueryFrom = Min(cursors) - 1 /\ least \in Int
    BY DEF QueryFrom, InboxAssumption
  <2> HIDE DEF cursors, least
  <2>3. Min(cursors) \in cursors /\ \A c \in cursors : Min(cursors) <= c
    BY <2>1, <2>2, MinIs
  <2>4. Min(cursors) \in Int /\ EffectiveCursor(t) \in Int /\ Min(cursors) <= EffectiveCursor(t)
    BY <2>1, <2>3
  <2> QED
    BY <2>2, <2>4
<1> QED
  BY <1>2, <1>3

\* The row an event is compared with is the last one before it.
LEMMA UnreadExact ==
    ASSUME InboxAssumption, IInv
    PROVE  UnreadIsExact
<1> SUFFICES ASSUME NEW t \in Followed, receipts[t] # Nothing, receipts[t] >= Latest(t) - Retained
             PROVE  {e.date : e \in {e \in BuildEvents : e.ticker = t}} = ChangesAfter(t, receipts[t])
  BY DEF UnreadIsExact
<1>1. /\ EffectiveCursor(t) = receipts[t]
      /\ QueryFrom \in Int /\ QueryFrom < receipts[t]
  BY CursorOf
<1>2. receipts[t] \in Observed(t) /\ Observed(t) \subseteq Int /\ \A w \in Observed(t) : 1 <= w /\ w <= LastWeek
  BY DEF IInv, OfObservations, Followed, RowsKept, Observed, Weeks, InboxAssumption
<1>3. receipts[t] \in Fetched(t)
  BY <1>1, <1>2 DEF Fetched
<1>4. ASSUME NEW w \in Observed(t), w > receipts[t]
      PROVE  /\ w \in Fetched(t)
             /\ \E v \in Observed(t) :
                   /\ v < w /\ (\A x \in Observed(t) : x <= v \/ x >= w)
                   /\ {u \in Fetched(t) : u < w} # {} /\ Max({u \in Fetched(t) : u < w}) = v
  <2> DEFINE before == {u \in Fetched(t) : u < w}
             v == Max(before)
  <2>1. w \in Fetched(t)
    BY <1>1, <1>2, <1>4 DEF Fetched
  <2>2. receipts[t] \in before /\ before \in SUBSET Int /\ \A y \in before : y <= LastWeek
    BY <1>2, <1>3, <1>4 DEF Fetched
  <2>3. Max(before) \in before /\ \A y \in before : Max(before) >= y
    <3>1. LastWeek \in Int /\ before # {}
      BY <2>2 DEF InboxAssumption
    <3> HIDE DEF before
    <3> QED
      BY <2>2, <3>1, MaxIs
  <2>4. ASSUME NEW x \in Observed(t) PROVE x <= v \/ x >= w
    <3>1. CASE x \in Fetched(t) /\ x < w
      BY <1>2, <2>2, <2>3, <3>1
    <3>2. CASE x \notin Fetched(t)
      <4>1. x < QueryFrom
        BY <1>1, <1>2, <3>2 DEF Fetched
      <4>2. v \in Int /\ v >= receipts[t]
        BY <2>2, <2>3
      <4> QED
        BY <1>1, <1>2, <4>1, <4>2
    <3>3. CASE ~(x < w)
      BY <1>2, <3>3
    <3> QED
      BY <3>1, <3>2, <3>3
  <2>5. v \in Observed(t) /\ v < w
    BY <2>3 DEF Fetched
  <2> QED
    BY <2>1, <2>2, <2>4, <2>5
<1>5. ChangedIn(t) = ChangesAfter(t, receipts[t])
  <2>1. ASSUME NEW w \in ChangedIn(t) PROVE w \in ChangesAfter(t, receipts[t])
    <3>1. w \in Observed(t) /\ w > receipts[t] /\ Changes(t, Max({u \in Fetched(t) : u < w}), w)
      BY <1>1 DEF ChangedIn, Fetched
    <3> QED
      BY <1>4, <3>1 DEF ChangesAfter
  <2>2. ASSUME NEW w \in ChangesAfter(t, receipts[t]) PROVE w \in ChangedIn(t)
    <3>1. w \in Observed(t) /\ w > receipts[t]
      BY DEF ChangesAfter
    <3>2. PICK v \in Observed(t) : v < w /\ (\A x \in Observed(t) : x <= v \/ x >= w) /\ Changes(t, v, w)
      BY DEF ChangesAfter
    <3>3. PICK u \in Observed(t) :
                 /\ u < w /\ (\A x \in Observed(t) : x <= u \/ x >= w)
                 /\ {y \in Fetched(t) : y < w} # {} /\ Max({y \in Fetched(t) : y < w}) = u
      BY <1>4, <3>1
    <3>4. u = v
      <4>1. (v <= u \/ v >= w) /\ (u <= v \/ u >= w) /\ u \in Int /\ v \in Int /\ w \in Int
        BY <1>2, <3>1, <3>2, <3>3
      <4> QED
        BY <3>2, <3>3, <4>1
    <3> QED
      BY <1>1, <1>4, <3>1, <3>2, <3>3, <3>4 DEF ChangedIn
  <2> QED
    BY <2>1, <2>2
<1>6. \A u, w : Event(u, w).ticker = u /\ Event(u, w).date = w
  BY DEF Event
<1>7. {e \in BuildEvents : e.ticker = t} = {Event(t, w) : w \in ChangedIn(t)}
  BY <1>6 DEF BuildEvents
<1>8. {e.date : e \in {Event(t, w) : w \in ChangedIn(t)}} = ChangedIn(t)
  BY <1>6
<1> QED
  BY <1>5, <1>7, <1>8

-----------------------------------------------------------------------------
(* The theorems. *)

\* The inbox starts in the invariant.
LEMMA InitHolds ==
    ASSUME InboxAssumption, Init
    PROVE  IInv
BY DEF Init, IInv, RowsKept, OfObservations, Weeks, InboxAssumption

\* The invariant holds in every state.
LEMMA Invariance ==
    ASSUME InboxAssumption
    PROVE  Spec => []IInv
<1>1. Init => IInv
  BY InitHolds
<1>2. IInv /\ [Next]_vars => IInv'
  BY NextKeeps
<1> QED
  BY <1>1, <1>2, PTL DEF Spec

\* For a ticker whose receipt is within the retained time the page's unread changes
\* are exactly those after it (ObservationChangeService.getChanges).
THEOREM UnreadChangesAreExact ==
    ASSUME InboxAssumption
    PROVE  Spec => []UnreadIsExact
<1>1. IInv => UnreadIsExact
  BY UnreadExact
<1> QED
  BY <1>1, Invariance, PTL

\* A page that shows an unread event offers to mark all as seen
\* (ObservationChanges.jsx).
THEOREM UnreadCanBeMarked ==
    ASSUME InboxAssumption
    PROVE  Spec => []MarkAllOffered
<1>1. IInv => MarkAllOffered
  BY DEF IInv, PageFits, MarkAllOffered
<1> QED
  BY <1>1, Invariance, PTL

\* No step takes a receipt back.
LEMMA ReceiptsStep ==
    ASSUME InboxAssumption, IInv, SnapshotIsolation, [Next]_vars
    PROVE  [\A t \in DOMAIN receipts : receipts[t] # Nothing =>
               receipts'[t] # Nothing /\ receipts'[t] >= receipts[t]]_receipts
<1>1. DOMAIN receipts = Tickers
  BY DEF IInv, OfObservations
<1>2. ASSUME NEW b \in Tabs, CommitSeen(b)
      PROVE  \A t \in DOMAIN receipts : receipts[t] # Nothing =>
                receipts'[t] # Nothing /\ receipts'[t] >= receipts[t]
  BY <1>1, <1>2, CommitKeeps
<1>3. (\E b \in Tabs : CommitSeen(b)) \/ UNCHANGED receipts
  BY DEF Next, vars, NextWeek, SaveObservationBundle, Track, FetchChanges, OpenEvent, MarkAll, BeginSeen,
         SeenFails
<1> QED
  BY <1>2, <1>3

\* Where the database refuses an update of a row that has changed since the
\* transaction began, no request takes back what was seen (upsertReceipt).
THEOREM NothingUnseen ==
    ASSUME InboxAssumption, SnapshotIsolation
    PROVE  Spec => ReceiptsNeverRecede
<1>1. IInv /\ [Next]_vars => [\A t \in DOMAIN receipts : receipts[t] # Nothing =>
          receipts'[t] # Nothing /\ receipts'[t] >= receipts[t]]_receipts
  BY ReceiptsStep
<1> QED
  BY <1>1, Invariance, PTL DEF Spec, ReceiptsNeverRecede

=============================================================================
