--------------------------- MODULE PortfolioStore ---------------------------
(***************************************************************************)
(* The database rows of one user that the portfolio services share, and    *)
(* what each request reads from them and writes back: ledger entries       *)
(* (portfolio_ledger_entries), holdings (user_portfolio), the cash balance *)
(* (user_cash_balances) and its history by session (user_cash_history).    *)
(*                                                                         *)
(* A request is a function from the rows it reads to a set of writes: the  *)
(* set is empty when the service throws (nothing is stored) and has one    *)
(* element when the transaction may commit.  The modules that use this one *)
(* decide when the rows are read and when the writes are applied.          *)
(***************************************************************************)
EXTENDS LedgerReplay

CONSTANTS Null,         \* SQL NULL, or no row
          MaxDay,       \* last day of the instance
          MaxQuantity,  \* largest value of a DECIMAL(18,6) quantity, in steps
          MaxPrice,     \* largest value of a DECIMAL(16,6) price
          MaxMoney,     \* largest value of a DECIMAL(15,2) amount, in cents
          Weights       \* target weights users set

ASSUME BoundsAssumption ==
    /\ MaxDay \in Nat \ {0}
    /\ MaxQuantity \in Nat /\ MaxPrice \in Nat /\ MaxMoney \in Nat
    /\ Null \notin Int /\ Null \notin Tickers

Days     == 1..MaxDay
Quantity == 0..MaxQuantity
Price    == 0..MaxPrice
Money    == 0..MaxMoney

CashFlowTypes == {"DEPOSIT", "WITHDRAWAL", "DIVIDEND", "FEE"}
TradeTypes    == {"BUY", "SELL"}
EntryTypes    == CashFlowTypes \cup TradeTypes \cup {"SPLIT"}
Sources       == {"MANUAL", "OPENING_SNAPSHOT"}

Entry == [id : Nat, day : Days, type : EntryTypes, ticker : Tickers \cup {Null},
          qty : Quantity, ratio : Nat, gross : Money, fee : Money, source : Sources]

Holding == [qty : Quantity \cup {Null}, avg : Price \cup {Null},
            weight : Weights \cup {Null}]

HoldingRows == UNION {[S -> Holding] : S \in SUBSET Tickers}
CashRows    == UNION {[S -> Money] : S \in SUBSET Days}

Account == [ledger : SUBSET Entry, holdings : HoldingRows,
            cash : Money \cup {Null}, history : CashRows]

EmptyAccount == [ledger |-> {}, holdings |-> <<>>, cash |-> Null, history |-> <<>>]

CashOf(a) == IF a.cash = Null THEN 0 ELSE a.cash

Managed(ledger) == \E e \in ledger : e.source = "OPENING_SNAPSHOT"

-----------------------------------------------------------------------------
(* Writes and how they change the rows. *)

NoWrites == [add |-> {}, erase |-> {}, put |-> <<>>, drop |-> {}, cash |-> Null]

LedgerWith(a, w) == {e \in a.ledger : e.id \notin w.erase} \cup w.add

HoldingsWith(a, w) ==
    [t \in (DOMAIN a.holdings \cup DOMAIN w.put) \ w.drop |->
        IF t \in DOMAIN w.put THEN w.put[t] ELSE a.holdings[t]]

\* Mutant: a session's history row is written once and never updated.
HistoryInsertedOnce(a, w, session) ==
    IF w.cash = Null \/ session \in DOMAIN a.history THEN a.history
    ELSE [d \in DOMAIN a.history \cup {session} |->
            IF d = session THEN w.cash ELSE a.history[d]]

\* The balance and the history row of the session are always written together.
HistoryWith(a, w, session) ==
    IF w.cash = Null THEN a.history
    ELSE [d \in DOMAIN a.history \cup {session} |->
            IF d = session THEN w.cash ELSE a.history[d]]

Apply(a, w, session) ==
    [ledger   |-> LedgerWith(a, w),
     holdings |-> HoldingsWith(a, w),
     cash     |-> IF w.cash = Null THEN a.cash ELSE w.cash,
     history  |-> HistoryWith(a, w, session)]

\* A value out of a column's range fails the statement and the transaction.
Storable(w) ==
    /\ w.add \subseteq Entry
    /\ w.put \in [DOMAIN w.put -> Holding]
    /\ w.cash \in Money \cup {Null}

-----------------------------------------------------------------------------
(* PortfolioLedgerProjectionService.synchronizeIfManaged. *)

\* Mutant: a projected row is rebuilt without its target weight.
WeightForgotten(a, t) == Null

WeightOf(a, t) == IF t \in DOMAIN a.holdings THEN a.holdings[t].weight ELSE Null

ProjectedQty(position) == RoundHalfUp(position.qty, QStep)

ProjectedHolding(a, t, position) ==
    [qty    |-> ProjectedQty(position),
     avg    |-> RoundHalfUp(position.cost * QStep, position.qty),
     weight |-> WeightOf(a, t)]

Valid(calc) == calc.errors = {} /\ ~calc.undefined

Projection(a, w) ==
    LET calc == Calculation(LedgerWith(a, w))
        put  == [t \in DOMAIN calc.positions |->
                    ProjectedHolding(a, t, calc.positions[t])]
    IN  IF Valid(calc) /\ calc.cash \in Nat
        THEN {[w EXCEPT !.put  = put,
                        !.drop = DOMAIN a.holdings \ DOMAIN put,
                        !.cash = calc.cash]}
        ELSE {}

SynchronizeIfManaged(a, w) ==
    IF Managed(LedgerWith(a, w)) THEN Projection(a, w) ELSE {w}

Committable(writes) == {w \in writes : Storable(w)}

-----------------------------------------------------------------------------
(* PortfolioLedgerService: a request carries the amounts after setScale, so *)
(* a zero is a positive input that rounds to zero.                          *)

GrossAmount(r) ==
    CASE r.type \in TradeTypes    -> RoundHalfUp(r.qty * r.price, Cent)
      [] r.type = "SPLIT"         -> 0
      [] r.type \in CashFlowTypes -> r.amount

ValidRequest(r, today) ==
    /\ r.day <= today
    /\ r.type \in TradeTypes \cup {"SPLIT", "DIVIDEND"} => r.ticker # Null
    /\ r.type \in {"DEPOSIT", "WITHDRAWAL"} => r.ticker = Null
    /\ r.type = "SELL" => r.fee <= GrossAmount(r)
    /\ r.type \notin TradeTypes => r.fee = 0

NewEntry(r, id) ==
    [id |-> id, day |-> r.day, type |-> r.type, ticker |-> r.ticker, qty |-> r.qty,
     ratio |-> r.ratio, gross |-> GrossAmount(r), fee |-> r.fee, source |-> "MANUAL"]

CreateWrites(a, r, id, today) ==
    IF ValidRequest(r, today)
    THEN Committable(SynchronizeIfManaged(a, [NoWrites EXCEPT !.add = {NewEntry(r, id)}]))
    ELSE {}

\* Mutant: a deletion does not refresh the projection.
DeleteUnsynchronized(a, id) ==
    IF \E e \in a.ledger : e.id = id
    THEN Committable({[NoWrites EXCEPT !.erase = {id}]})
    ELSE {}

DeleteWrites(a, id) ==
    IF \E e \in a.ledger : e.id = id
    THEN Committable(SynchronizeIfManaged(a, [NoWrites EXCEPT !.erase = {id}]))
    ELSE {}

-----------------------------------------------------------------------------
(* PortfolioSourceReconciliationService.reconcile. *)

ManualSteps(a, t) ==
    IF t \in DOMAIN a.holdings /\ a.holdings[t].qty # Null THEN a.holdings[t].qty ELSE 0

LedgerUnits(calc, t) == IF t \in DOMAIN calc.positions THEN calc.positions[t].qty ELSE 0

Agrees(a, calc) ==
    /\ CashOf(a) = calc.cash
    /\ \A t \in Tickers : ManualSteps(a, t) * QStep = LedgerUnits(calc, t)

\* ledgerCanBecomeSource of the response.
Matched(a) ==
    LET calc == Calculation(a.ledger)
    IN  a.ledger # {} /\ Valid(calc) /\ Agrees(a, calc)

Reconcile(a) ==
    LET calc == Calculation(a.ledger)
    IN  CASE a.ledger = {}                    -> "NO_LEDGER"
          [] a.ledger # {} /\ calc.undefined  -> "ARITHMETIC_ERROR"
          [] a.ledger # {} /\ ~calc.undefined /\ calc.errors # {} -> "LEDGER_INVALID"
          [] Matched(a)                       -> "MATCHED"
          [] a.ledger # {} /\ Valid(calc) /\ ~Agrees(a, calc)     -> "DIVERGED"

-----------------------------------------------------------------------------
(* PortfolioOpeningSnapshotService.importCurrentSnapshot. *)

\* Mutant: the ledger need not be empty.
ImportableAgain(a) ==
    \A t \in DOMAIN a.holdings :
         /\ a.holdings[t].qty # Null /\ a.holdings[t].qty > 0
         /\ a.holdings[t].avg # Null /\ a.holdings[t].avg > 0

Importable(a) ==
    /\ a.ledger = {}
    /\ \A t \in DOMAIN a.holdings :
         /\ a.holdings[t].qty # Null /\ a.holdings[t].qty > 0
         /\ a.holdings[t].avg # Null /\ a.holdings[t].avg > 0

HoldingCost(a, t) == a.holdings[t].qty * a.holdings[t].avg

OpeningCapital(a) ==
    LET cost(t) == HoldingCost(a, t)
    IN  RoundHalfUp(MapThenSumSet(cost, DOMAIN a.holdings) + CashOf(a) * Cent, Cent)

TickerRank ==
    CHOOSE rank \in [Tickers -> 1..Cardinality(Tickers)] :
        \A t, u \in Tickers : rank[t] = rank[u] => t = u

OpeningEntry(id, day, type, ticker, qty, gross) ==
    [id |-> id, day |-> day, type |-> type, ticker |-> ticker, qty |-> qty,
     ratio |-> 0, gross |-> gross, fee |-> 0, source |-> "OPENING_SNAPSHOT"]

OpeningEntries(a, day, id) ==
    {OpeningEntry(id, day, "DEPOSIT", Null, 0, OpeningCapital(a))} \cup
    {OpeningEntry(id + TickerRank[t], day, "BUY", t, a.holdings[t].qty,
                  RoundHalfUp(HoldingCost(a, t), Cent)) : t \in DOMAIN a.holdings}

ImportWrites(a, day, id, today) ==
    IF day <= today /\ Importable(a) /\ OpeningCapital(a) > 0
    THEN {w \in Committable({[NoWrites EXCEPT !.add = OpeningEntries(a, day, id)]}) :
            Matched([a EXCEPT !.ledger = w.add])}
    ELSE {}

-----------------------------------------------------------------------------
(* PortfolioService and PortfolioCashService: the manual writes.  All but   *)
(* the target weight are refused for an account the ledger manages.         *)

PutHolding(t, qty, avg, weight) ==
    [NoWrites EXCEPT !.put = [u \in {t} |-> [qty |-> qty, avg |-> avg, weight |-> weight]]]

AddStockWrites(a, t, qty, avg) ==
    IF ~Managed(a.ledger) /\ t \notin DOMAIN a.holdings
    THEN Committable({PutHolding(t, qty, avg, Null)})
    ELSE {}

RemoveStockWrites(a, t) ==
    IF ~Managed(a.ledger) /\ t \in DOMAIN a.holdings
    THEN {[NoWrites EXCEPT !.drop = {t}]}
    ELSE {}

\* Mutant: the guard of an account the ledger manages is missing.
UpdateAvgPriceUnguarded(a, t, qty, avg) ==
    IF t \in DOMAIN a.holdings
    THEN Committable({PutHolding(t, qty, avg, a.holdings[t].weight)})
    ELSE {}

UpdateAvgPriceWrites(a, t, qty, avg) ==
    IF ~Managed(a.ledger) /\ t \in DOMAIN a.holdings
    THEN Committable({PutHolding(t, qty, avg, a.holdings[t].weight)})
    ELSE {}

UpdateTargetWeightWrites(a, t, weight) ==
    IF t \in DOMAIN a.holdings
    THEN Committable({PutHolding(t, a.holdings[t].qty, a.holdings[t].avg, weight)})
    ELSE {}

UpdateBalanceWrites(a, amount) == Committable({[NoWrites EXCEPT !.cash = amount]})

=============================================================================
