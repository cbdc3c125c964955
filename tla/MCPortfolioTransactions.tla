----------------------- MODULE MCPortfolioTransactions ----------------------
(***************************************************************************)
(* Scenarios of concurrent requests.  In "given" the account is not        *)
(* managed before its snapshot is imported, sessions close and no balance  *)
(* is typed; one id stays spare, as a beginning that takes the last of     *)
(* them is cut.  In "ledger" the ledger manages the account already, in    *)
(* the last session.  In "race" all requests meet.                         *)
(***************************************************************************)
EXTENDS PortfolioTransactions

CONSTANTS A,         \* the ticker
          Scenarios  \* those that run

Req(type, ticker, qty, price, amount) ==
    [type |-> type, day |-> 1, ticker |-> ticker, qty |-> qty, price |-> price,
     ratio |-> 0, amount |-> amount, fee |-> 0]

Buy  == Req("BUY", A, 1, 4, 0)
Sell == Req("SELL", A, 2, 4, 0)

MCTrades == {Buy, Sell}

MCManualRows == {[qty |-> 1, avg |-> 2]}

\* An account with a holding and cash, before and after its opening snapshot is
\* imported.
ManualAccount ==
    [ledger |-> {}, holdings |-> [t \in {A} |-> [qty |-> 2, avg |-> 3, weight |-> Null]],
     cash |-> 5, history |-> [d \in {1} |-> 5]]

LedgerAccount ==
    Apply(ManualAccount, CHOOSE w \in ImportWrites(ManualAccount, 1, 1, 1) : TRUE, 1)

MCAccounts == {ManualAccount, LedgerAccount}

\* What managed the account before has left it the projection of its ledger.
Follows(a) ==
    LET calc == Calculation(a.ledger)
    IN  /\ Valid(calc)
        /\ calc.cash >= 0
        /\ CashOf(a) = calc.cash
        /\ DOMAIN a.holdings = DOMAIN calc.positions
        /\ \A t \in DOMAIN a.holdings : a.holdings[t].qty = ProjectedQty(calc.positions[t])

ASSUME AccountsAssumption == \A a \in InitialAccounts : Managed(a.ledger) => Follows(a)

MCSymmetry == Permutations(Requests)

-----------------------------------------------------------------------------
VARIABLE scenario

ScenarioInit ==
    /\ Init
    /\ scenario \in Scenarios
    /\ scenario = "ledger" <=> Managed(acct.ledger)
    /\ scenario = "ledger" => session = today

ScenarioNext ==
    /\ \/ scenario = "given" /\ (Served \/ Imported \/ SessionClose) /\ nextId' <= MaxId
       \/ scenario = "ledger" /\ (Served \/ Typed)
       \/ scenario = "race" /\ Next
    /\ UNCHANGED scenario

ScenarioSpec == ScenarioInit /\ [][ScenarioNext]_<<scenario, vars>>

-----------------------------------------------------------------------------
\* Every commit to an account that the ledger manages is one that a single request
\* would make alone, whatever the other thread has read and written in between.
LedgerSerial == [][scenario = "ledger" => Serial]_<<acct, today, session>>

=============================================================================
