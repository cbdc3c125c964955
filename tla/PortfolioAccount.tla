-------------------------- MODULE PortfolioAccount --------------------------
(***************************************************************************)
(* What the portfolio services promise to one user: every request takes    *)
(* effect as a whole, one after the other, on the rows as they are.        *)
(* PortfolioTransactions has the database transactions the server really   *)
(* runs, and says when they keep this promise.                             *)
(*                                                                         *)
(* A ledger row gets an id no other row has.  Which one is left open:      *)
(* AUTO_INCREMENT hands ids out before the commit, so concurrent requests  *)
(* may commit in another order.                                            *)
(***************************************************************************)
EXTENDS PortfolioStore

CONSTANTS EntryRequests,  \* the ledger entries users record
          ManualRows,     \* quantities and average prices users type
          CashAmounts,    \* cash balances users type
          MaxId           \* bound on the ids, hence on the entries of a ledger

ASSUME RequestAssumption ==
    /\ \A m \in ManualRows : m.qty \in Quantity \cup {Null} /\ m.avg \in Price \cup {Null}
    /\ CashAmounts \subseteq Money
    /\ MaxId \in Nat

VARIABLES acct,     \* the user's rows
          today,    \* the server's date
          session   \* the date of the last closed market session

vars == <<acct, today, session>>

Ids == 1..MaxId

Init ==
    /\ acct = EmptyAccount
    /\ today = 1
    /\ session = 1

Commit(w) ==
    /\ acct' = Apply(acct, w, session)
    /\ UNCHANGED <<today, session>>

Create(r, id) ==
    /\ \A e \in acct.ledger : e.id # id
    /\ \E w \in CreateWrites(acct, r, id, today) : Commit(w)

Delete(id) == \E w \in DeleteWrites(acct, id) : Commit(w)

\* The rows of an import get consecutive ids, the first of them id.
ImportCurrentSnapshot(day, id) ==
    /\ id + Cardinality(Tickers) \in Ids
    /\ \E w \in ImportWrites(acct, day, id, today) : Commit(w)

AddStock(t, m) == \E w \in AddStockWrites(acct, t, m.qty, m.avg) : Commit(w)

RemoveStock(t) == \E w \in RemoveStockWrites(acct, t) : Commit(w)

\* The request of UpdateAvgPrice has no null field.
UpdateAvgPrice(t, m) ==
    /\ m.qty # Null /\ m.avg # Null
    /\ \E w \in UpdateAvgPriceWrites(acct, t, m.qty, m.avg) : Commit(w)

UpdateTargetWeight(t, weight) ==
    \E w \in UpdateTargetWeightWrites(acct, t, weight) : Commit(w)

UpdateCashBalance(amount) ==
    /\ ~Managed(acct.ledger)
    /\ \E w \in UpdateBalanceWrites(acct, amount) : Commit(w)

\* Midnight at the server, or the close of a market session.
NextDay ==
    /\ today < MaxDay
    /\ today' = today + 1
    /\ UNCHANGED <<acct, session>>

\* Mutant: a session counts before it has closed.
SessionCloseEarly ==
    /\ session < MaxDay
    /\ session' = session + 1
    /\ UNCHANGED <<acct, today>>

SessionClose ==
    /\ session < today
    /\ session' = session + 1
    /\ UNCHANGED <<acct, today>>

Next ==
    \/ \E r \in EntryRequests, id \in Ids : Create(r, id)
    \/ \E id \in Ids : Delete(id)
    \/ \E day \in Days, id \in Ids : ImportCurrentSnapshot(day, id)
    \/ \E t \in Tickers, m \in ManualRows : AddStock(t, m)
    \/ \E t \in Tickers : RemoveStock(t)
    \/ \E t \in Tickers, m \in ManualRows : UpdateAvgPrice(t, m)
    \/ \E t \in Tickers, weight \in Weights : UpdateTargetWeight(t, weight)
    \/ \E amount \in CashAmounts : UpdateCashBalance(amount)
    \/ NextDay
    \/ SessionClose

Spec == Init /\ [][Next]_vars

-----------------------------------------------------------------------------
\* Every column holds a value of its type, and the market session is never
\* ahead of the date.
TypeOK ==
    /\ acct \in Account
    /\ today \in Days
    /\ session \in 1..today

\* What a replay of the ledger says the holdings rows are.
ProjectedQuantities(calc) ==
    [t \in DOMAIN calc.positions |-> ProjectedQty(calc.positions[t])]

HeldQuantities(a) == [t \in DOMAIN a.holdings |-> a.holdings[t].qty]

\* Once an account is managed by its ledger (synchronizeIfManaged and the
\* guard of every manual write) the ledger replays without error to a cash
\* balance that is not negative, and the holdings and the cash on file are
\* exactly its projection: no holding is missing, none is left over.
ManagedConsistent ==
    Managed(acct.ledger) =>
        LET calc == Calculation(acct.ledger)
        IN  /\ Valid(calc)
            /\ calc.cash >= 0
            /\ CashOf(acct) = calc.cash
            /\ HeldQuantities(acct) = ProjectedQuantities(calc)

\* A managed account reconciles with its ledger, which is what the reconciliation
\* panel's messages take for granted: DIVERGED says the account will not switch
\* to its ledger, and a managed account has switched.
ManagedMatches == Managed(acct.ledger) => Reconcile(acct) = "MATCHED"

\* The opening capital enters a ledger once: importCurrentSnapshot refuses a
\* ledger with entries, and no other request writes an opening entry.
OpeningOnce ==
    \A e, f \in acct.ledger :
        /\ e.source = "OPENING_SNAPSHOT" /\ e.type = "DEPOSIT"
        /\ f.source = "OPENING_SNAPSHOT" /\ f.type = "DEPOSIT"
        => e = f

\* The cash history's latest session shows the cash balance, whichever of
\* updateBalance and projectCash wrote it: asset history reads the one, the
\* dashboard the other.
HistoryTracksCash ==
    \A d \in DOMAIN acct.history :
        (\A other \in DOMAIN acct.history : other <= d) => acct.history[d] = acct.cash

\* In a managed account quantities and cash move only with the ledger: the
\* target weight is the one column a user may still write.
HoldingsFollowLedger ==
    [][Managed(acct.ledger) /\ acct'.ledger = acct.ledger
        => /\ HeldQuantities(acct') = HeldQuantities(acct)
           /\ acct'.cash = acct.cash]_vars

\* A projection rewrites a holding's quantity and never the target weight of a
\* row that stays; an edit of the weight never rewrites the quantity.
WeightsSurvive ==
    [][\A t \in DOMAIN acct.holdings \cap DOMAIN acct'.holdings :
         acct'.holdings[t].weight # acct.holdings[t].weight
         => /\ acct'.ledger = acct.ledger
            /\ acct'.holdings[t].qty = acct.holdings[t].qty]_vars

=============================================================================
