--------------------------- MODULE PortfolioReturn ---------------------------
(***************************************************************************)
(* PortfolioPerformanceService and PortfolioTwrCalculator: the ledger is   *)
(* replayed over the sessions whose closes are stored, the flows of money   *)
(* in and out are taken out of each session's return, and a virtual account *)
(* puts the same flows into the benchmark.  Around it, sessions with their  *)
(* closes, of which the jobs store some, and a user who trades at the close. *)
(* Growth is a fraction; the code's rounding to twelve digits is left out.  *)
(***************************************************************************)
EXTENDS LedgerReplay

CONSTANTS Benchmark,    \* BENCHMARK, one of Tickers
          NoTicker,     \* of a flow
          Prices,       \* bound: closes; a close divides QStep
          SplitRatio,   \* bound: the ratio of a split, in units of RatioUnit
          Savings,      \* sets of tickers whose close of a session is stored
          MaxSessions,  \* bound on the sessions
          MaxTrades     \* bound on the user's moves

VARIABLES closes,  \* per session, the closes of the tickers
          stored,  \* per session, the tickers with a row in daily_prices
          ledger,
          moves    \* the user's moves, which are bounded

vars == <<closes, stored, ledger, moves>>

Today == Len(closes)

-----------------------------------------------------------------------------
(* The calculation.                                                         *)

Flow(e) ==
    CASE e.type = "DEPOSIT"    -> e.gross
      [] e.type = "WITHDRAWAL" -> - e.gross
      [] OTHER                 -> 0

\* Quantities in 1/QStep, as those of LedgerReplay.
QuantityAfter(qty, e) ==
    CASE e.type = "BUY"   -> qty + e.qty * QStep
      [] e.type = "SELL"  -> qty - e.qty * QStep
      [] e.type = "SPLIT" -> (qty * e.ratio) \div RatioUnit

Settle(account, e) ==
    LET paid == [account EXCEPT !.cash = @ + CashEffect(e), !.flow = @ + Flow(e)]
    IN  IF e.type \notin {"BUY", "SELL", "SPLIT"} THEN paid
        ELSE LET qty == QuantityAfter(account.qty[e.ticker], e)
             IN  [paid EXCEPT !.qty[e.ticker] = qty, !.invalid = @ \/ qty < 0]

\* Mutant: a session's own entries are settled at the next close.
DueBefore(entries, account, session) ==
    {e \in entries : e.day >= account.upto /\ e.day < session}

\* The entries since the session before.
Due(entries, account, session) ==
    {e \in entries : e.day > account.upto /\ e.day <= session}

Held(account) == {t \in Tickers : account.qty[t] # 0}

\* In 1/QStep of a unit of money.
Value(account, session) ==
    account.cash * QStep
      + MapThenSumSet(LAMBDA t : account.qty[t] * closes[session][t], Held(account))

Times(growth, num, den) == <<growth[1] * num, growth[2] * den>>

\* Mutant: the benchmark's return counts the flow of its session.
BenchmarkAfterFlow(account, session) ==
    account.shares * closes[session][Benchmark] + account.flow * QStep

BenchmarkBeforeFlow(account, session) == account.shares * closes[session][Benchmark]

\* The account after the entries up to a session, at its closes.
Settled(entries, account, session) ==
    FoldLeft(Settle, [account EXCEPT !.flow = 0], InOrder(Due(entries, account, session)))

Valued(account, session) ==
    [account EXCEPT !.upto = session,
                    !.value = Value(account, session),
                    !.benchmark = BenchmarkBeforeFlow(account, session),
                    !.shares = @ + (account.flow * QStep) \div closes[session][Benchmark],
                    !.invalid = @ \/ ~(Held(account) \subseteq stored[session])]

BenchmarkValue(account) == account.benchmark + account.flow * QStep

Worthless(account) == account.value <= 0 \/ BenchmarkValue(account) <= 0

\* A session's return, against the session before.
Linked(before, account) ==
    CASE account.invalid \/ account.shares < 0 -> [account EXCEPT !.invalid = TRUE]
      [] before.points = 0 -> [account EXCEPT !.points = IF Worthless(account) THEN 0 ELSE 1]
      [] Worthless(before) -> [account EXCEPT !.invalid = TRUE]
      [] OTHER ->
           [account EXCEPT
              !.points = @ + 1,
              !.growth = Times(@, account.value - account.flow * QStep, before.value),
              !.benchmarkGrowth = Times(@, account.benchmark, BenchmarkValue(before))]

\* One session of the stored ones; the calculation ends at the first error.
Session(entries, account, session) ==
    IF account.invalid THEN account
    ELSE Linked(account, Valued(Settled(entries, account, session), session))

NewAccount ==
    [qty |-> [t \in Tickers |-> 0], cash |-> 0, flow |-> 0, shares |-> 0, upto |-> 0,
     value |-> 0, benchmark |-> 0, points |-> 0, growth |-> <<1, 1>>,
     benchmarkGrowth |-> <<1, 1>>, invalid |-> FALSE]

\* The sessions with a close of the benchmark, from the first entry on.
Sessions(entries) ==
    LET start == Min({e.day : e \in entries})
    IN  SelectSeq([d \in 1..Today |-> d], LAMBDA d : d >= start /\ Benchmark \in stored[d])

\* PortfolioLedgerCalculator reports an error.
Oversold(entries) == \E t \in Tickers : Position(entries, t).oversold # {}

Unavailable(entries) == ~\E e \in entries : e.type = "DEPOSIT"

\* getPerformance: a status and the growth of the account and of the benchmark.
Performance(entries) ==
    IF Oversold(entries) THEN [status |-> "INVALID"]
    ELSE IF Unavailable(entries) THEN [status |-> "UNAVAILABLE"]
    ELSE LET account == FoldLeft(LAMBDA acc, d : Session(entries, acc, d),
                                 NewAccount, Sessions(entries))
         IN  CASE account.invalid -> [status |-> "INVALID"]
               [] ~account.invalid /\ account.points < 2 -> [status |-> "INSUFFICIENT"]
               [] OTHER -> [status |-> "READY", growth |-> account.growth,
                            benchmark |-> account.benchmarkGrowth]

-----------------------------------------------------------------------------
(* Sessions and trades.                                                     *)

Entry(n, type, day, ticker, qty, ratio, gross) ==
    [id |-> Cardinality(ledger) + n, day |-> day, type |-> type, ticker |-> ticker,
     qty |-> qty, ratio |-> ratio, gross |-> gross, fee |-> 0]

Close(t) == closes[Today][t]

\* Of the replay without lots.
QuantityOf(entries, t) == FoldLeft(Settle, NewAccount, InOrder(entries)).qty[t]

Shares(t) == QuantityOf(ledger, t) \div QStep

Init ==
    /\ closes \in {<<first>> : first \in [Tickers -> Prices]}
    /\ stored = <<Tickers>>
    /\ ledger = {}
    /\ moves = 0

\* The jobs store the closes of some tickers, never of a session that is over.  A
\* split is recorded before the trades of its session.
NextSession(new, saved, split) ==
    /\ Today < MaxSessions
    /\ closes' = Append(closes, new)
    /\ stored' = Append(stored, saved)
    /\ split \subseteq {t \in Tickers \ {Benchmark} : Shares(t) > 0}
    /\ ledger' = ledger \cup {Entry(1, "SPLIT", Today + 1, t, 0, SplitRatio, 0) : t \in split}
    /\ UNCHANGED moves

Moves(entries) ==
    /\ moves < MaxTrades
    /\ moves' = moves + 1
    /\ ledger' = ledger \cup entries
    /\ UNCHANGED <<closes, stored>>

\* Money is paid in and invested.
Invest(t) ==
    Moves({Entry(1, "DEPOSIT", Today, NoTicker, 0, 0, Close(t)),
           Entry(2, "BUY", Today, t, 1, 0, Close(t))})

\* A holding is sold and the money paid out.
Redeem(t) ==
    /\ Shares(t) > 0
    /\ Moves({Entry(1, "SELL", Today, t, 1, 0, Close(t)),
              Entry(2, "WITHDRAWAL", Today, NoTicker, 0, 0, Close(t))})

\* A holding is sold, the money stays.
Sell(t) ==
    /\ Shares(t) > 0
    /\ Moves({Entry(1, "SELL", Today, t, 1, 0, Close(t))})

Next ==
    \/ \E new \in [Tickers -> Prices], saved \in Savings, split \in SUBSET Tickers :
         NextSession(new, saved, split)
    \/ \E t \in Tickers : Invest(t) \/ Redeem(t) \/ Sell(t)

Spec == Init /\ [][Next]_vars

-----------------------------------------------------------------------------
\* The closes, rows and entries of the sessions so far.
TypeOK ==
    /\ Len(stored) = Today
    /\ \A d \in 1..Today : closes[d] \in [Tickers -> Prices] /\ stored[d] \subseteq Tickers
    /\ \A e, f \in ledger : e.day \in 1..Today /\ (e.id = f.id => e = f)

Upto(d) == {e \in ledger : e.day <= d}

\* All money is in one ticker at the end of every session.
AllIn(t) ==
    /\ \A e \in ledger : e.type \in {"BUY", "SELL", "SPLIT"} => e.ticker = t
    /\ \A d \in 1..Today : LedgerCash(Upto(d)) = 0

Same(a, b) == a[1] * b[2] = b[1] * a[2]

\* PortfolioPerformanceService.java:95: flows count at the close of their session.
\* An account that invests in one ticker at the close whatever is paid in, and sells
\* at the close what is paid out, has the return of the ticker, splits included.  If
\* the ticker is the benchmark, the account neither beats it nor falls behind.
AllInEarnsThePrice ==
    \A t \in Tickers :
        AllIn(t) =>
            LET perf   == Performance(ledger)
                held   == {d \in Range(Sessions(ledger)) : QuantityOf(Upto(d), t) > 0}
                last   == Max(Range(Sessions(ledger)))
                splits == Cardinality({e \in Upto(last) : e.type = "SPLIT" /\ e.day > Min(held)})
            IN  perf.status = "READY" =>
                    /\ Same(perf.growth, <<closes[last][t] * SplitRatio ^ splits,
                                           closes[Min(held)][t] * RatioUnit ^ splits>>)
                    /\ t = Benchmark => Same(perf.growth, perf.benchmark)

\* Trades and flows at the close of the last session do not change the return that
\* the holdings before them have earned, nor the benchmark's.
LastCloseIsNeutral ==
    LET before == {e \in ledger : e.day < Today \/ e.type = "SPLIT"}
        now    == Performance(ledger)
        then   == Performance(before)
    IN  before # ledger /\ now.status = "READY" /\ then.status = "READY" =>
            Same(now.growth, then.growth) /\ Same(now.benchmark, then.benchmark)

=============================================================================
