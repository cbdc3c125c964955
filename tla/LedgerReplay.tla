---------------------------- MODULE LedgerReplay ----------------------------
(***************************************************************************)
(* PortfolioLedgerCalculator: the transaction ledger of one user, replayed *)
(* in (day, id) order into cash, FIFO lots, realized profit and errors.    *)
(*                                                                         *)
(* Decimal numbers are integers here, each at the scale the code rounds it *)
(* to: money in cents, costs in calculation units (Cent of them make one   *)
(* cent; the code's CALCULATION_SCALE), stored quantities in steps (the    *)
(* six decimals of a stored quantity) and lot quantities in 1/QStep of a   *)
(* step, because a split multiplies a lot without rounding it.  A split    *)
(* ratio is a number of 1/RatioUnit.  QStep must be fine enough for the    *)
(* splits of the instance: RatioUnit to the power of their number.         *)
(***************************************************************************)
EXTENDS Integers, Sequences, FiniteSets, FiniteSetsExt, SequencesExt

CONSTANTS Tickers,   \* ticker symbols
          QStep,     \* lot quantity units in one stored quantity step
          Cent,      \* calculation units in one cent
          RatioUnit  \* ratio units in a split of one for one

ASSUME ScaleAssumption ==
    /\ QStep \in Nat \ {0}
    /\ Cent \in Nat \ {0}
    /\ RatioUnit \in Nat \ {0}

\* BigDecimal HALF_UP on non-negative operands.
RoundHalfUp(a, b) == (2 * a + b) \div (2 * b)

-----------------------------------------------------------------------------
(* The order of findByUserIdOrderByOccurredOnAscIdAsc. *)

Before(e, f) == e.day < f.day \/ (e.day = f.day /\ e.id < f.id)

InOrder(entries) ==
    [i \in 1..Cardinality(entries) |->
        CHOOSE e \in entries : Cardinality({f \in entries : Before(f, e)}) = i - 1]

-----------------------------------------------------------------------------
(* Cash and totals: sums over the entries. *)

CashEffect(e) ==
    CASE e.type \in {"DEPOSIT", "DIVIDEND"} -> e.gross
      [] e.type \in {"WITHDRAWAL", "FEE"}   -> - e.gross
      [] e.type = "BUY"                     -> - (e.gross + e.fee)
      [] e.type = "SELL"                    -> e.gross - e.fee
      [] e.type = "SPLIT"                   -> 0

LedgerCash(ledger) == MapThenSumSet(CashEffect, ledger)

GrossOf(ledger, types) ==
    LET gross(e) == e.gross IN MapThenSumSet(gross, {e \in ledger : e.type \in types})

NetContributions(ledger) == GrossOf(ledger, {"DEPOSIT"}) - GrossOf(ledger, {"WITHDRAWAL"})

-----------------------------------------------------------------------------
(* Positions: FIFO lots of one ticker. *)

Lot(qty, cost) == [qty |-> qty, cost |-> cost]

QtyOf(lots)  == FoldLeft(LAMBDA sum, lot : sum + lot.qty, 0, lots)
CostOf(lots) == FoldLeft(LAMBDA sum, lot : sum + lot.cost, 0, lots)

NoPosition == [lots |-> <<>>, realized |-> 0, oversold |-> {}, undefined |-> FALSE]

\* What a sale takes from one lot: the whole lot, or its first part with the
\* matching share of its cost.  A lot of quantity zero divides by zero.
TakeFrom(sale, lot) ==
    LET used     == Min({lot.qty, sale.left})
        usedCost == IF lot.qty = 0 THEN 0 ELSE RoundHalfUp(lot.cost * used, lot.qty)
    IN  IF sale.left = 0
        THEN [sale EXCEPT !.lots = Append(@, lot)]
        ELSE [left      |-> sale.left - used,
              cost      |-> sale.cost + usedCost,
              lots      |-> IF used < lot.qty
                            THEN Append(sale.lots, Lot(lot.qty - used, lot.cost - usedCost))
                            ELSE sale.lots,
              undefined |-> sale.undefined \/ lot.qty = 0]

\* Mutant: the last lots are sold first.
ConsumeLatest(lots, requested) ==
    LET sale == FoldLeft(TakeFrom,
                         [left |-> requested, cost |-> 0, lots |-> <<>>, undefined |-> FALSE],
                         Reverse(lots))
    IN  [sale EXCEPT !.lots = Reverse(@)]

Consume(lots, requested) ==
    FoldLeft(TakeFrom,
             [left |-> requested, cost |-> 0, lots |-> <<>>, undefined |-> FALSE],
             lots)

\* Mutant: a purchase's fee stays out of its cost.
BoughtWithoutFee(pos, e) ==
    [pos EXCEPT !.lots = Append(@, Lot(e.qty * QStep, e.gross * Cent))]

Bought(pos, e) ==
    [pos EXCEPT !.lots = Append(@, Lot(e.qty * QStep, (e.gross + e.fee) * Cent))]

\* Mutant: a sale of the whole position counts as overselling.
SoldStrictly(pos, e) ==
    LET sale == Consume(pos.lots, e.qty * QStep)
    IN  IF QtyOf(pos.lots) <= e.qty * QStep
        THEN [pos EXCEPT !.oversold = @ \cup {e.id}]
        ELSE [pos EXCEPT !.lots = sale.lots,
                         !.realized = @ + (e.gross - e.fee) * Cent - sale.cost,
                         !.undefined = @ \/ sale.undefined]

\* Selling more than the open lots hold is an error and consumes nothing.
Sold(pos, e) ==
    LET sale == Consume(pos.lots, e.qty * QStep)
    IN  IF QtyOf(pos.lots) < e.qty * QStep
        THEN [pos EXCEPT !.oversold = @ \cup {e.id}]
        ELSE [pos EXCEPT !.lots = sale.lots,
                         !.realized = @ + (e.gross - e.fee) * Cent - sale.cost,
                         !.undefined = @ \/ sale.undefined]

Scaled(pos, e) ==
    [pos EXCEPT !.lots = [i \in DOMAIN @ |->
                            Lot((@[i].qty * e.ratio) \div RatioUnit, @[i].cost)]]

Traded(pos, e) ==
    CASE e.type = "BUY"   -> Bought(pos, e)
      [] e.type = "SELL"  -> Sold(pos, e)
      [] e.type = "SPLIT" -> Scaled(pos, e)

TradesOf(ledger, t) ==
    {e \in ledger : e.ticker = t /\ e.type \in {"BUY", "SELL", "SPLIT"}}

Position(ledger, t) == FoldLeft(Traded, NoPosition, InOrder(TradesOf(ledger, t)))

Positions(ledger) == [t \in Tickers |-> Position(ledger, t)]

\* The result of calculate: undefined stands for its ArithmeticException.
Calculation(ledger) ==
    LET pos == Positions(ledger)
    IN  [cash      |-> LedgerCash(ledger),
         positions |-> [t \in {u \in Tickers : QtyOf(pos[u].lots) > 0} |->
                          [qty  |-> QtyOf(pos[t].lots),
                           cost |-> CostOf(pos[t].lots)]],
         realized  |-> [t \in Tickers |-> pos[t].realized],
         errors    |-> UNION {pos[t].oversold : t \in Tickers},
         undefined |-> \E t \in Tickers : pos[t].undefined]

=============================================================================
