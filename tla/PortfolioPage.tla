---------------------------- MODULE PortfolioPage ----------------------------
(***************************************************************************)
(* What the dashboard shows of a portfolio (frontend/src/pages/Portfolio):  *)
(* the rows of the portfolio, a valuation and the cash come from separate   *)
(* requests, which focus, deletions, saved holdings and new visits start at *)
(* any time, and whose answers arrive in any order.  Valuations of current  *)
(* prices are kept in the browser and shown at the next visit.              *)
(*                                                                         *)
(* One ticker is followed: its quantity, 0 when it is not held, stands for  *)
(* the rows of the portfolio and for the stocks of a valuation.             *)
(***************************************************************************)
EXTENDS Naturals, Bags

CONSTANTS MaxQuantity, MaxCash,  \* bounds
          Accounts,              \* what a user comes back with, and whether there is a price
          MaxCalls,              \* bound: requests under way
          Nothing                \* no rows, valuation or request

VARIABLES server,    \* the quantity and the cash that are stored, and whether there is a price
          rows,      \* portfolio
          summary,   \* the valuation that is shown
          cash,      \* cashBalance and its ref
          loading,
          cache,     \* CACHE_KEY_REALTIME
          calls,     \* the bag of the requests under way
          failed,    \* a request of this visit has failed
          overtaken  \* a holding was saved while an answer from before it was to arrive

vars == <<server, rows, summary, cash, loading, cache, calls, failed, overtaken>>

\* An account has a quantity and cash within the bounds, and nothing is none of what
\* a page shows or is answered.
PageAssumption ==
    /\ MaxQuantity \in Nat /\ MaxCash \in Nat
    /\ Accounts \subseteq [quantity : 0..MaxQuantity, cash : 0..MaxCash, priced : BOOLEAN]
    /\ Nothing \notin Nat /\ Nothing \notin [quantity : Nat, cash : Nat]
    /\ Nothing \notin [quantity : Nat, cash : Nat, priced : BOOLEAN]

\* The quantity that a call is to store, what it was answered, the number of the newest
\* valuation being its own, and whether its page is there.
Call(kind, to) == [kind |-> kind, to |-> to, answer |-> Nothing, newest |-> TRUE, gone |-> FALSE]

One(c) == SetToBag({c})

With(others, c) == others (+) One(c)

Valuing == {"summary", "realtime"}
Storing == {"delete", "save"}

\* What a valuation says of an account.
Valuation(account) ==
    [quantity |-> IF account.priced THEN account.quantity ELSE 0, cash |-> account.cash]

Init ==
    /\ server \in Accounts
    /\ rows = Nothing /\ summary = Nothing /\ cash = 0
    /\ loading = TRUE
    /\ cache = Nothing
    /\ calls = One(Call("portfolio", Nothing))
    /\ failed = FALSE /\ overtaken = FALSE

-----------------------------------------------------------------------------
(* Requests.                                                                *)

UnderWay == BagToSet(calls)

MoreCalls == BagCardinality(calls) < MaxCalls

\* A request for a valuation takes the next number: those before it are not the newest.
Issued(others, c) ==
    LET newest == {d \in BagToSet(others) :
                       c.kind \in Valuing /\ d.kind \in Valuing /\ d.newest /\ ~d.gone}
        kept   == [d \in BagToSet(others) \ newest |-> others[d]]
        older  == [d \in {[e EXCEPT !.newest = FALSE] : e \in newest} |->
                       others[[d EXCEPT !.newest = TRUE]]]
    IN  With(kept (+) older, c)

\* Afterwards: the call has been answered or has failed.
Without(c) == calls (-) One(c)

Serve(c) ==
    /\ c.answer = Nothing
    /\ server' = IF c.kind \in Storing THEN [server EXCEPT !.quantity = c.to] ELSE server
    /\ calls' = With(Without(c), [c EXCEPT !.answer = server'])
    /\ UNCHANGED <<rows, summary, cash, loading, cache, failed, overtaken>>

Answered(c, kind) == c.kind = kind /\ c.answer # Nothing

\* A failure before the server has done anything, or of the answer.
Failing(c, kind) == c.kind = kind /\ failed' = TRUE

-----------------------------------------------------------------------------
(* fetchData.                                                               *)

\* The portfolio: the kept valuation is shown until the summary is there.
PortfolioArrives(c) ==
    /\ Answered(c, "portfolio")
    /\ rows' = c.answer.quantity
    /\ summary' = IF cache # Nothing THEN cache ELSE summary
    /\ calls' = Issued(Without(c), Call("summary", Nothing))
    /\ UNCHANGED <<server, cash, loading, cache, failed, overtaken>>

PortfolioFails(c) ==
    /\ Failing(c, "portfolio")
    /\ rows' = 0
    /\ loading' = FALSE
    /\ calls' = Without(c)
    /\ UNCHANGED <<server, summary, cash, cache, overtaken>>

\* fetchData is over but for the cash, which is not waited for; the page has a valuation
\* of current prices made when it has stopped loading.
Loaded(c) ==
    LET asking == Issued(Without(c), Call("cash", Nothing))
    IN  /\ loading' = FALSE
        /\ IF loading /\ rows # 0
           THEN MoreCalls /\ calls' = Issued(asking, Call("realtime", Nothing))
           ELSE calls' = asking

SummaryArrives(c) ==
    /\ Answered(c, "summary")
    /\ summary' = IF c.newest THEN Valuation(c.answer) ELSE summary
    /\ Loaded(c)
    /\ UNCHANGED <<server, rows, cash, cache, failed, overtaken>>

SummaryFails(c) ==
    /\ Failing(c, "summary")
    /\ Loaded(c)
    /\ UNCHANGED <<server, rows, summary, cash, cache, overtaken>>

WithCash(valuation, amount) ==
    IF valuation = Nothing THEN Nothing ELSE [valuation EXCEPT !.cash = amount]

CashArrives(c) ==
    /\ Answered(c, "cash")
    /\ cash' = c.answer.cash
    /\ summary' = WithCash(summary, c.answer.cash)
    /\ calls' = Without(c)
    /\ UNCHANGED <<server, rows, loading, cache, failed, overtaken>>

CashFails(c) ==
    /\ Failing(c, "cash")
    /\ cash' = 0
    /\ calls' = Without(c)
    /\ UNCHANGED <<server, rows, summary, loading, cache, overtaken>>

-----------------------------------------------------------------------------
(* revalidateRealtimeSummary.                                               *)

\* Not within a minute of another one, which by then has timed out.  Bound: a user for
\* whom a request has failed does nothing more but leave.
Focus ==
    /\ MoreCalls /\ ~failed
    /\ \A c \in UnderWay : c.kind # "realtime" \/ c.gone
    /\ calls' = Issued(calls, Call("realtime", Nothing))
    /\ UNCHANGED <<server, rows, summary, cash, loading, cache, failed, overtaken>>

\* Mutant: the answer is shown and kept whatever was asked after it.
RealtimeArrivesAnyway(c) ==
    /\ Answered(c, "realtime")
    /\ LET data == WithCash(Valuation(c.answer), IF c.gone THEN c.to ELSE cash)
       IN  /\ summary' = IF c.gone THEN summary ELSE data
           /\ cache' = data
    /\ calls' = Without(c)
    /\ UNCHANGED <<server, rows, cash, loading, failed, overtaken>>

\* A page that is gone still keeps what it is answered, with the cash it knew.
RealtimeArrives(c) ==
    /\ Answered(c, "realtime")
    /\ LET known == IF c.gone THEN c.to ELSE cash
           data  == WithCash(Valuation(c.answer), known)
       IN  /\ summary' = IF c.newest /\ ~c.gone THEN data ELSE summary
           /\ cache' = IF c.newest THEN data ELSE cache
    /\ calls' = Without(c)
    /\ UNCHANGED <<server, rows, cash, loading, failed, overtaken>>

RealtimeFails(c) ==
    /\ Failing(c, "realtime")
    /\ calls' = Without(c)
    /\ UNCHANGED <<server, rows, summary, cash, loading, cache, overtaken>>

-----------------------------------------------------------------------------
(* Deletions and saved holdings, one at a time.                             *)

NothingStored == \A c \in UnderWay : c.kind \notin Storing

Delete ==
    /\ MoreCalls /\ NothingStored /\ ~failed
    /\ ~loading /\ rows \notin {Nothing, 0}
    /\ calls' = With(calls, Call("delete", 0))
    /\ UNCHANGED <<server, rows, summary, cash, loading, cache, failed, overtaken>>

Save(quantity) ==
    /\ MoreCalls /\ NothingStored /\ ~failed
    /\ ~loading /\ rows \notin {Nothing, 0}
    /\ calls' = With(calls, Call("save", quantity))
    /\ UNCHANGED <<server, rows, summary, cash, loading, cache, failed, overtaken>>

Deleted(c) ==
    /\ Answered(c, "delete")
    /\ rows' = 0
    /\ cache' = Nothing
    /\ loading' = TRUE
    /\ calls' = Issued(Without(c), Call("portfolio", Nothing))
    /\ UNCHANGED <<server, summary, cash, failed, overtaken>>

\* An answer from before the holding was stored is still to arrive.
Overtaking(quantity) ==
    \E c \in UnderWay :
        /\ c.kind \in {"portfolio", "summary", "realtime"}
        /\ c.answer # Nothing /\ c.answer.quantity # quantity

\* handleModalSaved: the valuation shown is changed and kept, or, when it has no price
\* of the ticker, everything is fetched again.
Saved(c) ==
    /\ Answered(c, "save")
    /\ LET quantity == c.to
           priced   == summary # Nothing /\ summary.quantity # 0
           next     == [summary EXCEPT !.quantity = quantity]
       IN  /\ rows' = IF rows = 0 THEN 0 ELSE quantity
           /\ summary' = IF priced THEN next ELSE summary
           /\ cache' = IF priced THEN next ELSE cache
           /\ calls' = IF priced THEN Without(c) ELSE Issued(Without(c), Call("portfolio", Nothing))
           /\ loading' = (loading \/ ~priced)
           /\ overtaken' = (overtaken \/ Overtaking(quantity))
    /\ UNCHANGED <<server, cash, failed>>

StoringFails(c) ==
    /\ \E kind \in Storing : Failing(c, kind)
    /\ calls' = Without(c)
    /\ UNCHANGED <<server, rows, summary, cash, loading, cache, overtaken>>

-----------------------------------------------------------------------------
Only(some) == [c \in some |-> calls[c]]

\* The user leaves, changes his account on other pages, and comes back.  Of what the page
\* left under way only valuations of current prices have an effect.
Revisit(account) ==
    /\ NothingStored
    /\ rows # Nothing
    /\ LET leave(c) == IF c.gone THEN c ELSE [c EXCEPT !.gone = TRUE, !.to = cash]
           kept == BagOfAll(leave, Only({c \in UnderWay : c.kind = "realtime"}))
       IN  /\ BagCardinality(kept) < MaxCalls
           /\ calls' = With(kept, Call("portfolio", Nothing))
    /\ server' = account
    /\ rows' = Nothing /\ summary' = Nothing /\ cash' = 0
    /\ loading' = TRUE
    /\ failed' = FALSE /\ overtaken' = FALSE
    /\ UNCHANGED cache

Next ==
    \/ \E c \in UnderWay :
         \/ Serve(c)
         \/ PortfolioArrives(c) \/ PortfolioFails(c) \/ SummaryArrives(c) \/ SummaryFails(c)
         \/ CashArrives(c) \/ CashFails(c) \/ RealtimeArrives(c) \/ RealtimeFails(c)
         \/ Deleted(c) \/ Saved(c) \/ StoringFails(c)
    \/ Focus \/ Delete
    \/ \E quantity \in 1..MaxQuantity : Save(quantity)
    \/ \E account \in Accounts : Revisit(account)

Spec == Init /\ [][Next]_vars

-----------------------------------------------------------------------------
Valuations == [quantity : 0..MaxQuantity, cash : 0..MaxCash]

\* One request for a valuation of the page is the newest, at most.
TypeOK ==
    /\ server.quantity \in 0..MaxQuantity
    /\ rows \in 0..MaxQuantity \cup {Nothing}
    /\ summary \in Valuations \cup {Nothing} /\ cache \in Valuations \cup {Nothing}
    /\ cash \in 0..MaxCash /\ loading \in BOOLEAN /\ failed \in BOOLEAN /\ overtaken \in BOOLEAN
    /\ IsABag(calls)
    /\ BagCardinality(Only({c \in UnderWay : c.kind \in Valuing /\ c.newest /\ ~c.gone})) <= 1

\* usePortfolioData.js: when no request of the page is under way, it shows what is stored:
\* the holding, its valuation and the cash, whatever order the answers came in and
\* whatever an earlier visit left in the browser.
SettledIsFresh ==
    (\A c \in UnderWay : c.gone) /\ ~failed /\ ~overtaken =>
        rows = server.quantity /\ summary = Valuation(server)

\* AvgPriceModal, handleModalSaved: when nothing is under way and nothing has failed, a
\* holding with a price is valued at the quantity its row has.
RowsAreValued ==
    (\A c \in UnderWay : c.gone) /\ ~failed /\ server.priced => summary.quantity = rows

=============================================================================
