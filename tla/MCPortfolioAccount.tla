------------------------- MODULE MCPortfolioAccount -------------------------
(* Instances of PortfolioAccount for TLC. *)
EXTENDS PortfolioAccount

CONSTANTS A  \* the ticker

Req(type, day, ticker, qty, price, ratio, amount, fee) ==
    [type |-> type, day |-> day, ticker |-> ticker, qty |-> qty, price |-> price,
     ratio |-> ratio, amount |-> amount, fee |-> fee]

CashReq(type, day, amount) == Req(type, day, Null, 0, 0, 0, amount, 0)

\* A purchase with a fee, a sale of more than one purchase, and a split that halves
\* a lot.  Days differ, so a later request may be backdated.
MCEntryRequests ==
    {Req("BUY", 1, A, 1, 3, 0, 0, 1), Req("SELL", 2, A, 2, 4, 0, 0, 1),
     Req("SPLIT", 2, A, 0, 0, 1, 0, 0)}

MCManualRows == {[qty |-> 2, avg |-> 3]}

=============================================================================
