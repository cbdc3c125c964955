----------------------------- MODULE LedgerBook -----------------------------
(***************************************************************************)
(* The ledger of an account no opening snapshot manages: entries are       *)
(* recorded and deleted in any order, backdated ones included, and nothing *)
(* but PortfolioLedgerCalculator judges the result.  The properties compare *)
(* its replay with definitions that do not replay.                         *)
(***************************************************************************)
EXTENDS LedgerReplay

CONSTANTS Entries,  \* the entries recorded, without their ids
          MaxId     \* bound on the number of entries ever recorded

TradeTypes == {"BUY", "SELL"}
FlowTypes  == {"DEPOSIT", "WITHDRAWAL", "DIVIDEND", "FEE"}

\* RatioUnit to the power of a number of splits.
Fineness(splits) == FoldFunction(LAMBDA u, v : u * v, 1, [i \in 1..splits |-> RatioUnit])

\* What PortfolioLedgerEntryRequest and its columns allow, but for a quantity that rounds
\* to zero (see the README), and a QStep that the splits of a ledger divide.
ASSUME EntriesAssumption ==
    /\ MaxId \in Nat
    /\ IsFiniteSet(Tickers)
    /\ QStep % Fineness(MaxId) = 0
    /\ \A e \in Entries :
         /\ e.type \in FlowTypes \cup TradeTypes \cup {"SPLIT"}
         /\ e.day \in Int /\ e.gross \in Nat /\ e.fee \in Nat
         /\ e.type \in TradeTypes => e.ticker \in Tickers /\ e.qty \in Nat \ {0}
         /\ e.type = "SPLIT" => e.ticker \in Tickers /\ e.ratio \in Nat \ {0}

VARIABLES ledger, nextId

vars == <<ledger, nextId>>

Recorded(e, id) ==
    [id |-> id, day |-> e.day, type |-> e.type, ticker |-> e.ticker, qty |-> e.qty,
     ratio |-> e.ratio, gross |-> e.gross, fee |-> e.fee]

Init ==
    /\ ledger = {}
    /\ nextId = 1

\* Mutant: the next entry reuses the id.
RecordReusing(e) ==
    /\ nextId <= MaxId
    /\ ledger' = ledger \cup {Recorded(e, nextId)}
    /\ UNCHANGED nextId

Record(e) ==
    /\ nextId <= MaxId
    /\ ledger' = ledger \cup {Recorded(e, nextId)}
    /\ nextId' = nextId + 1

Erase(e) ==
    /\ ledger' = ledger \ {e}
    /\ UNCHANGED nextId

Next ==
    \/ \E e \in Entries : Record(e)
    \/ \E e \in ledger : Erase(e)

Spec == Init /\ [][Next]_vars

-----------------------------------------------------------------------------
\* Ids are handed out in order and never twice.
TypeOK ==
    /\ nextId \in 1..(MaxId + 1)
    /\ \A e \in ledger : e.id \in 1..(nextId - 1)
    /\ \A e, f \in ledger : e.id = f.id => e = f

Replayable(calc) == calc.errors = {} /\ ~calc.undefined

SumOf(f) == FoldFunction(LAMBDA x, y : x + y, 0, f)

\* Money is neither made nor lost by the replay: cash and the cost of the open
\* lots are what was paid in, plus dividends and realized profit, less fees, to
\* the last calculation unit, whatever the order of the trades and however often
\* the cost of a lot was divided.
BooksBalance ==
    LET calc == Calculation(ledger)
    IN  Replayable(calc) =>
            calc.cash * Cent + SumOf([t \in DOMAIN calc.positions |-> calc.positions[t].cost])
            = (NetContributions(ledger) + GrossOf(ledger, {"DIVIDEND"})
                 - GrossOf(ledger, {"FEE"})) * Cent
              + SumOf(calc.realized)

\* Lot quantities in the units of the last split, without replaying: entry e is
\* worth its quantity times the ratios of the splits that follow it.
SplitsAfter(e) == {f \in ledger : f.type = "SPLIT" /\ f.ticker = e.ticker /\ Before(e, f)}

UnitsOf(e) ==
    FoldSet(LAMBDA f, qty : (qty * f.ratio) \div RatioUnit, e.qty * QStep, SplitsAfter(e))

Total(entries) == MapThenSumSet(UnitsOf, entries)

Trades(t, type) == {e \in ledger : e.type = type /\ e.ticker = t}

Upto(entries, e) == {f \in entries : f = e \/ Before(f, e)}

\* First in, first out, by arithmetic: the purchases of a ticker laid end to end,
\* the sales cover a first stretch of them, and what a purchase has left is the
\* part of it past that stretch.
Remainder(t, buy) ==
    LET end   == Total(Upto(Trades(t, "BUY"), buy))
        start == end - UnitsOf(buy)
    IN  end - Max({start, Min({end, Total(Trades(t, "SELL"))})})

FirstInFirstOut ==
    Replayable(Calculation(ledger)) =>
        \A t \in Tickers :
            LET lots == Position(ledger, t).lots
                open == InOrder({buy \in Trades(t, "BUY") : Remainder(t, buy) > 0})
            IN  /\ Len(lots) = Len(open)
                /\ \A i \in DOMAIN lots :
                     /\ lots[i].qty = Remainder(t, open[i])
                     /\ Remainder(t, open[i]) = UnitsOf(open[i])
                        => lots[i].cost = (open[i].gross + open[i].fee) * Cent

\* A replay reports a sale of more than was held exactly when, at some sale, the
\* sales up to it exceed the purchases before it: a purchase recorded later with
\* an earlier date repairs the ledger, and deleting it breaks it again.
OversellReported ==
    LET covered(t, sell) ==
            Total(Upto(Trades(t, "SELL"), sell)) <= Total(Upto(Trades(t, "BUY"), sell))
    IN  (Calculation(ledger).errors = {})
            <=> \A t \in Tickers : \A sell \in Trades(t, "SELL") : covered(t, sell)

=============================================================================
