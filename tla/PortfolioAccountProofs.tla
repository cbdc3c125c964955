----------------------- MODULE PortfolioAccountProofs -----------------------
(***************************************************************************)
(* What holds of PortfolioAccount for any tickers, bounds and requests.    *)
(*                                                                         *)
(* Nothing is assumed of the replay but the shape of its result: it is the *)
(* same function of the ledger wherever it is used, so that a projection   *)
(* and the check of it agree.                                              *)
(***************************************************************************)
EXTENDS PortfolioAccount, TLAPS

\* The writes that edit the ledger, before any projection.
LedgerEdit(add, erase) ==
    [add |-> add, erase |-> erase, put |-> <<>>, drop |-> {}, cash |-> Null]

\* The writes with the projection of the ledger they leave behind.
ProjectedEdit(a, add, erase) ==
    LET calc == Calculation(LedgerWith(a, LedgerEdit(add, erase)))
        put  == [t \in DOMAIN calc.positions |-> ProjectedHolding(a, t, calc.positions[t])]
    IN  [add |-> add, erase |-> erase, put |-> put,
         drop |-> DOMAIN a.holdings \ DOMAIN put, cash |-> calc.cash]

Fits(w) == Storable(w) /\ DOMAIN w.put \subseteq Tickers

-----------------------------------------------------------------------------
\* Only tickers of the instance have open positions.
LEMMA PositionsAreOfTickers ==
    ASSUME NEW ledger
    PROVE  DOMAIN Calculation(ledger).positions \subseteq Tickers
BY DEF Calculation

\* synchronizeIfManaged either leaves the writes alone or adds the projection.
LEMMA Synchronized ==
    ASSUME NEW a, NEW add, NEW erase,
           NEW w \in SynchronizeIfManaged(a, LedgerEdit(add, erase))
    PROVE  LET after == LedgerWith(a, LedgerEdit(add, erase))
               calc  == Calculation(after)
           IN  \/ ~Managed(after) /\ w = LedgerEdit(add, erase)
               \/ /\ Managed(after)
                  /\ Valid(calc)
                  /\ calc.cash \in Nat
                  /\ w = ProjectedEdit(a, add, erase)
<1> DEFINE w0    == LedgerEdit(add, erase)
           after == LedgerWith(a, w0)
<1>1. CASE ~Managed(after)
  BY <1>1 DEF SynchronizeIfManaged
<1>2. CASE Managed(after)
  <2>1. w \in Projection(a, w0)
    BY <1>2 DEF SynchronizeIfManaged
  <2>2. /\ Valid(Calculation(after))
        /\ Calculation(after).cash \in Nat
        /\ w = ProjectedEdit(a, add, erase)
    BY <2>1 DEF Projection, ProjectedEdit, LedgerEdit
  <2> QED BY <1>2, <2>2
<1> QED BY <1>1, <1>2

\* An edit of the ledger that commits fits the columns.
LEMMA EditsFit ==
    ASSUME NEW a, NEW add, NEW erase,
           NEW w \in Committable(SynchronizeIfManaged(a, LedgerEdit(add, erase)))
    PROVE  /\ Fits(w)
           /\ w.add = add /\ w.erase = erase
<1>1. w \in SynchronizeIfManaged(a, LedgerEdit(add, erase)) /\ Storable(w)
  BY DEF Committable
<1>2. CASE w = LedgerEdit(add, erase)
  BY <1>1, <1>2 DEF LedgerEdit, Fits
<1>3. CASE w = ProjectedEdit(a, add, erase)
  <2>1. DOMAIN w.put = DOMAIN Calculation(LedgerWith(a, LedgerEdit(add, erase))).positions
    BY <1>3 DEF ProjectedEdit
  <2> QED BY <1>1, <1>3, <2>1, PositionsAreOfTickers DEF Fits, ProjectedEdit
<1> QED BY <1>1, <1>2, <1>3, Synchronized

\* Rows stay rows of their tables when writes that fit are applied.
LEMMA ApplyTyped ==
    ASSUME NEW a \in Account, NEW w, Fits(w), NEW day \in Days
    PROVE  Apply(a, w, day) \in Account
<1>1. LedgerWith(a, w) \in SUBSET Entry
  BY DEF LedgerWith, Account, Fits, Storable
<1>2. HoldingsWith(a, w) \in HoldingRows
  <2> DEFINE S == (DOMAIN a.holdings \cup DOMAIN w.put) \ w.drop
  <2>1. PICK H \in SUBSET Tickers : a.holdings \in [H -> Holding]
    BY DEF Account, HoldingRows
  <2>2. S \in SUBSET Tickers
    BY <2>1 DEF Fits
  <2>3. HoldingsWith(a, w) \in [S -> Holding]
    BY <2>1 DEF HoldingsWith, Fits, Storable
  <2> QED BY <2>2, <2>3 DEF HoldingRows
<1>3. HistoryWith(a, w, day) \in CashRows
  <2>1. PICK D \in SUBSET Days : a.history \in [D -> Money]
    BY DEF Account, CashRows
  <2>2. CASE w.cash = Null
    BY <2>1, <2>2 DEF HistoryWith, CashRows
  <2>3. CASE w.cash # Null
    <3>1. w.cash \in Money
      BY <2>3 DEF Fits, Storable
    <3>2. HistoryWith(a, w, day) \in [D \cup {day} -> Money]
      BY <2>1, <2>3, <3>1 DEF HistoryWith
    <3> QED BY <3>2 DEF CashRows
  <2> QED BY <2>2, <2>3
<1>4. (IF w.cash = Null THEN a.cash ELSE w.cash) \in Money \cup {Null}
  BY DEF Account, Fits, Storable
<1> QED BY <1>1, <1>2, <1>3, <1>4 DEF Apply, Account

-----------------------------------------------------------------------------
(* The writes of each request. *)

\* The edits are the writes of PortfolioStore, which are built with EXCEPT.
LEMMA EditsOfNothing ==
    ASSUME NEW w, NEW add, NEW erase
    PROVE  /\ w = [NoWrites EXCEPT !.add = add] => w = LedgerEdit(add, {})
           /\ w = [NoWrites EXCEPT !.erase = erase] => w = LedgerEdit({}, erase)
BY DEF NoWrites, LedgerEdit

\* A recorded entry is an edit of the ledger that adds one row.
LEMMA CreateEdit ==
    ASSUME NEW add
    PROVE  [NoWrites EXCEPT !.add = add] = LedgerEdit(add, {})
BY EditsOfNothing, Zenon

\* A deletion is an edit of the ledger that removes one row.
LEMMA DeleteEdit ==
    ASSUME NEW erase
    PROVE  [NoWrites EXCEPT !.erase = erase] = LedgerEdit({}, erase)
BY EditsOfNothing, Zenon

\* What Create commits: the entry, and the projection of the ledger with it.
LEMMA CreateEffect ==
    ASSUME NEW a, NEW r, NEW id, NEW day, NEW w \in CreateWrites(a, r, id, day)
    PROVE  w \in Committable(SynchronizeIfManaged(a, LedgerEdit({NewEntry(r, id)}, {})))
BY CreateEdit, Zenon DEF CreateWrites

\* What Delete commits: the removal, and the projection of the ledger without it.
LEMMA DeleteEffect ==
    ASSUME NEW a, NEW id, NEW w \in DeleteWrites(a, id)
    PROVE  /\ \E e \in a.ledger : e.id = id
           /\ w \in Committable(SynchronizeIfManaged(a, LedgerEdit({}, {id})))
BY DeleteEdit, Zenon DEF DeleteWrites

\* What an import commits: the opening entries, which the rows were matched with.
LEMMA ImportEffect ==
    ASSUME NEW a, NEW day, NEW id, NEW now, NEW w \in ImportWrites(a, day, id, now)
    PROVE  /\ w = LedgerEdit(OpeningEntries(a, day, id), {})
           /\ Fits(w)
           /\ Importable(a)
           /\ Matched([a EXCEPT !.ledger = w.add])
<1>1. /\ Importable(a)
      /\ w \in Committable({[NoWrites EXCEPT !.add = OpeningEntries(a, day, id)]})
      /\ Matched([a EXCEPT !.ledger = w.add])
  BY DEF ImportWrites
<1>2. w = LedgerEdit(OpeningEntries(a, day, id), {}) /\ Storable(w)
  BY <1>1 DEF Committable, NoWrites, LedgerEdit
<1> QED BY <1>1, <1>2 DEF Fits, LedgerEdit

\* A write to one holding.
HoldingEdit(w, t, row) ==
    w = [add |-> {}, erase |-> {}, put |-> [u \in {t} |-> row], drop |-> {}, cash |-> Null]

Row(qty, avg, weight) == [qty |-> qty, avg |-> avg, weight |-> weight]

\* What AddStock commits: one holding, in an account no ledger manages.
LEMMA AddStockEffect ==
    ASSUME NEW a, NEW t \in Tickers, NEW qty, NEW avg,
           NEW w \in AddStockWrites(a, t, qty, avg)
    PROVE  /\ ~Managed(a.ledger) /\ t \notin DOMAIN a.holdings
           /\ HoldingEdit(w, t, Row(qty, avg, Null)) /\ Fits(w)
BY DEF AddStockWrites, Committable, PutHolding, NoWrites, HoldingEdit, Row, Fits

\* What RemoveStock commits: one holding less, in an account no ledger manages.
LEMMA RemoveStockEffect ==
    ASSUME NEW a, NEW t \in Tickers, NEW w \in RemoveStockWrites(a, t)
    PROVE  /\ ~Managed(a.ledger)
           /\ w = [add |-> {}, erase |-> {}, put |-> <<>>, drop |-> {t}, cash |-> Null]
           /\ Fits(w)
<1>1. /\ ~Managed(a.ledger)
      /\ w = [add |-> {}, erase |-> {}, put |-> <<>>, drop |-> {t}, cash |-> Null]
  BY DEF RemoveStockWrites, NoWrites
<1> QED BY <1>1 DEF Fits, Storable

\* What UpdateAvgPrice commits: a holding with its target weight kept.
LEMMA UpdateAvgPriceEffect ==
    ASSUME NEW a, NEW t \in Tickers, NEW qty, NEW avg,
           NEW w \in UpdateAvgPriceWrites(a, t, qty, avg)
    PROVE  /\ ~Managed(a.ledger) /\ t \in DOMAIN a.holdings
           /\ HoldingEdit(w, t, Row(qty, avg, a.holdings[t].weight)) /\ Fits(w)
BY DEF UpdateAvgPriceWrites, Committable, PutHolding, NoWrites, HoldingEdit, Row, Fits

\* What UpdateTargetWeight commits: a holding with its quantity kept.
LEMMA UpdateTargetWeightEffect ==
    ASSUME NEW a, NEW t \in Tickers, NEW weight,
           NEW w \in UpdateTargetWeightWrites(a, t, weight)
    PROVE  /\ t \in DOMAIN a.holdings
           /\ HoldingEdit(w, t, Row(a.holdings[t].qty, a.holdings[t].avg, weight)) /\ Fits(w)
BY DEF UpdateTargetWeightWrites, Committable, PutHolding, NoWrites, HoldingEdit, Row, Fits

\* What UpdateCashBalance commits: a balance and nothing else.
LEMMA UpdateBalanceEffect ==
    ASSUME NEW a, NEW amount, NEW w \in UpdateBalanceWrites(a, amount)
    PROVE  /\ w = [add |-> {}, erase |-> {}, put |-> <<>>, drop |-> {}, cash |-> amount]
           /\ Fits(w)
<1>1. /\ w = [add |-> {}, erase |-> {}, put |-> <<>>, drop |-> {}, cash |-> amount]
      /\ Storable(w)
  BY DEF UpdateBalanceWrites, Committable, NoWrites
<1> QED BY <1>1 DEF Fits

-----------------------------------------------------------------------------
(* The four kinds of step: an edit of the ledger, an import, a write to the *)
(* holdings or the balance, and the passing of time.                        *)

EditStep(w) ==
    \E add, erase :
        /\ w \in Committable(SynchronizeIfManaged(acct, LedgerEdit(add, erase)))
        /\ \A e \in add : e.source # "OPENING_SNAPSHOT"
        /\ LedgerWith(acct, LedgerEdit(add, erase)) # acct.ledger

ImportStep(w) ==
    /\ Fits(w)
    /\ \E day, id : w = LedgerEdit(OpeningEntries(acct, day, id), {})
    /\ Importable(acct)
    /\ Matched([acct EXCEPT !.ledger = w.add])

\* Only the target weight of a managed account is written, and a write that
\* changes a weight keeps the quantity.
ManualStep(w) ==
    /\ Fits(w)
    /\ w.add = {} /\ w.erase = {}
    /\ Managed(acct.ledger) =>
         /\ w.drop = {} /\ w.cash = Null
         /\ \A t \in DOMAIN w.put : t \in DOMAIN acct.holdings
                                     /\ w.put[t].qty = acct.holdings[t].qty
    /\ \A t \in DOMAIN w.put \cap DOMAIN acct.holdings :
         w.put[t].weight # acct.holdings[t].weight => w.put[t].qty = acct.holdings[t].qty

\* The fields of an edit of the holdings.
LEMMA HoldingEdited ==
    ASSUME NEW w, NEW t, NEW row, HoldingEdit(w, t, row)
    PROVE  /\ w.add = {} /\ w.erase = {} /\ w.drop = {} /\ w.cash = Null
           /\ DOMAIN w.put = {t} /\ w.put[t] = row
BY DEF HoldingEdit

\* Every step leaves the rows alone, edits the ledger, imports an opening snapshot
\* or writes a manual value: the invariants are proved for these four.
LEMMA StepKinds ==
    ASSUME Next
    PROVE  \/ \E w : Commit(w) /\ (EditStep(w) \/ ImportStep(w) \/ ManualStep(w))
           \/ NextDay
           \/ SessionClose
<1>1. ASSUME NEW r \in EntryRequests, NEW id \in Ids, Create(r, id)
      PROVE  \E w : Commit(w) /\ EditStep(w)
  <2>1. PICK w \in CreateWrites(acct, r, id, today) : Commit(w)
    BY <1>1 DEF Create
  <2>2. w \in Committable(SynchronizeIfManaged(acct, LedgerEdit({NewEntry(r, id)}, {})))
    BY CreateEffect
  <2>3. NewEntry(r, id).source # "OPENING_SNAPSHOT" /\ NewEntry(r, id).id = id
    BY DEF NewEntry
  <2>4. NewEntry(r, id) \notin acct.ledger
    BY <1>1, <2>3 DEF Create
  <2>5. LedgerWith(acct, LedgerEdit({NewEntry(r, id)}, {})) # acct.ledger
    BY <2>4 DEF LedgerWith, LedgerEdit
  <2> QED BY <2>1, <2>2, <2>3, <2>5 DEF EditStep
<1>2. ASSUME NEW id \in Ids, Delete(id)
      PROVE  \E w : Commit(w) /\ EditStep(w)
  <2>1. PICK w \in DeleteWrites(acct, id) : Commit(w)
    BY <1>2 DEF Delete
  <2>2. /\ \E e \in acct.ledger : e.id = id
        /\ w \in Committable(SynchronizeIfManaged(acct, LedgerEdit({}, {id})))
    BY DeleteEffect
  <2>3. LedgerWith(acct, LedgerEdit({}, {id})) # acct.ledger
    BY <2>2 DEF LedgerWith, LedgerEdit
  <2> QED BY <2>1, <2>2, <2>3 DEF EditStep
<1>3. ASSUME NEW day \in Days, NEW id \in Ids, ImportCurrentSnapshot(day, id)
      PROVE  \E w : Commit(w) /\ ImportStep(w)
  BY <1>3, ImportEffect DEF ImportCurrentSnapshot, ImportStep
<1>4. ASSUME NEW t \in Tickers, NEW m \in ManualRows, AddStock(t, m)
      PROVE  \E w : Commit(w) /\ ManualStep(w)
  <2>1. PICK w \in AddStockWrites(acct, t, m.qty, m.avg) : Commit(w)
    BY <1>4 DEF AddStock
  <2>2. /\ ~Managed(acct.ledger) /\ t \notin DOMAIN acct.holdings
        /\ HoldingEdit(w, t, Row(m.qty, m.avg, Null)) /\ Fits(w)
    BY AddStockEffect
  <2> QED BY <2>1, <2>2, HoldingEdited DEF ManualStep
<1>5. ASSUME NEW t \in Tickers, RemoveStock(t)
      PROVE  \E w : Commit(w) /\ ManualStep(w)
  BY <1>5, RemoveStockEffect DEF RemoveStock, ManualStep
<1>6. ASSUME NEW t \in Tickers, NEW m \in ManualRows, UpdateAvgPrice(t, m)
      PROVE  \E w : Commit(w) /\ ManualStep(w)
  <2>1. PICK w \in UpdateAvgPriceWrites(acct, t, m.qty, m.avg) : Commit(w)
    BY <1>6 DEF UpdateAvgPrice
  <2>2. /\ ~Managed(acct.ledger)
        /\ HoldingEdit(w, t, Row(m.qty, m.avg, acct.holdings[t].weight)) /\ Fits(w)
    BY UpdateAvgPriceEffect
  <2> QED BY <2>1, <2>2, HoldingEdited DEF ManualStep, Row
<1>7. ASSUME NEW t \in Tickers, NEW weight \in Weights, UpdateTargetWeight(t, weight)
      PROVE  \E w : Commit(w) /\ ManualStep(w)
  <2>1. PICK w \in UpdateTargetWeightWrites(acct, t, weight) : Commit(w)
    BY <1>7 DEF UpdateTargetWeight
  <2>2. /\ t \in DOMAIN acct.holdings
        /\ HoldingEdit(w, t, Row(acct.holdings[t].qty, acct.holdings[t].avg, weight))
        /\ Fits(w)
    BY UpdateTargetWeightEffect
  <2> QED BY <2>1, <2>2, HoldingEdited DEF ManualStep, Row
<1>8. ASSUME NEW amount \in CashAmounts, UpdateCashBalance(amount)
      PROVE  \E w : Commit(w) /\ ManualStep(w)
  BY <1>8, UpdateBalanceEffect DEF UpdateCashBalance, ManualStep
<1> QED BY <1>1, <1>2, <1>3, <1>4, <1>5, <1>6, <1>7, <1>8 DEF Next

\* What a commit does to each table.
LEMMA Committed ==
    ASSUME NEW w, Commit(w)
    PROVE  /\ acct'.ledger = LedgerWith(acct, w)
           /\ acct'.holdings = HoldingsWith(acct, w)
           /\ acct'.cash = IF w.cash = Null THEN acct.cash ELSE w.cash
           /\ acct'.history = HistoryWith(acct, w, session)
           /\ UNCHANGED <<today, session>>
BY DEF Commit, Apply

\* Each holding is as the writes put it, or as it was.
LEMMA CommittedHolding ==
    ASSUME NEW w, Commit(w), NEW t \in DOMAIN acct'.holdings
    PROVE  /\ t \in DOMAIN w.put => acct'.holdings[t] = w.put[t]
           /\ t \notin DOMAIN w.put => acct'.holdings[t] = acct.holdings[t]
<1>1. acct'.holdings = HoldingsWith(acct, w)
  BY Committed
<1>2. t \in (DOMAIN acct.holdings \cup DOMAIN w.put) \ w.drop
  BY <1>1 DEF HoldingsWith
<1> QED BY <1>1, <1>2 DEF HoldingsWith

\* The ledger after an edit, and its projection if it is managed.
LEMMA EditedLedger ==
    ASSUME NEW add, NEW erase, NEW w, Commit(w),
           w \in Committable(SynchronizeIfManaged(acct, LedgerEdit(add, erase)))
    PROVE  acct'.ledger = LedgerWith(acct, LedgerEdit(add, erase))
BY EditsFit, Committed DEF LedgerWith, LedgerEdit

\* The ledger after an import is the set of opening entries.
LEMMA ImportedLedger ==
    ASSUME NEW w, Commit(w), ImportStep(w)
    PROVE  acct.ledger = {} /\ acct'.ledger = w.add
BY Committed DEF ImportStep, Importable, LedgerWith, LedgerEdit

\* A manual write leaves the ledger alone.
LEMMA ManualLedger ==
    ASSUME NEW w, Commit(w), ManualStep(w)
    PROVE  acct'.ledger = acct.ledger
BY Committed DEF ManualStep, LedgerWith

-----------------------------------------------------------------------------
(* Type correctness. *)

\* The writes of every kind of step fit the columns.
LEMMA StepsFit ==
    ASSUME NEW w, EditStep(w) \/ ImportStep(w) \/ ManualStep(w)
    PROVE  Fits(w)
<1>1. CASE EditStep(w)
  <2>1. PICK add, erase : w \in Committable(SynchronizeIfManaged(acct, LedgerEdit(add, erase)))
    BY <1>1 DEF EditStep
  <2> QED BY <2>1, EditsFit
<1> QED BY <1>1 DEF ImportStep, ManualStep

\* Every column holds a value of its type after every request, whatever the
\* requests are: an amount the columns cannot hold fails the transaction
\* (PortfolioStore.Storable), and no projection leaves the tables' shape.
THEOREM TypeCorrect == Spec => []TypeOK
<1>1. Init => TypeOK
  <2> SUFFICES ASSUME Init PROVE TypeOK
    OBVIOUS
  <2>1. acct \in Account
    <3>1. <<>> \in HoldingRows /\ <<>> \in CashRows
      <4>1. <<>> \in [{} -> Holding] /\ <<>> \in [{} -> Money]
        OBVIOUS
      <4> QED BY <4>1 DEF HoldingRows, CashRows
    <3> QED BY <3>1 DEF Init, EmptyAccount, Account
  <2>2. 1 \in Days
    BY BoundsAssumption DEF Days
  <2> QED BY <2>1, <2>2 DEF Init, TypeOK
<1>2. TypeOK /\ [Next]_vars => TypeOK'
  <2> SUFFICES ASSUME TypeOK, [Next]_vars PROVE TypeOK'
    OBVIOUS
  <2>0. today \in Nat /\ session \in Nat /\ session \in Days
    BY BoundsAssumption DEF TypeOK, Days
  <2>1. CASE UNCHANGED vars
    BY <2>1 DEF vars, TypeOK
  <2>2. ASSUME NEW w, Commit(w), Fits(w) PROVE TypeOK'
    <3>1. acct' \in Account
      BY <2>0, <2>2, ApplyTyped DEF TypeOK, Commit
    <3> QED BY <2>2, <3>1 DEF TypeOK, Commit
  <2>3. CASE NextDay
    BY <2>0, <2>3, BoundsAssumption DEF NextDay, TypeOK, Days
  <2>4. CASE SessionClose
    BY <2>0, <2>4, BoundsAssumption DEF SessionClose, TypeOK, Days
  <2> QED BY <2>1, <2>2, <2>3, <2>4, StepKinds, StepsFit
<1> QED BY <1>1, <1>2, PTL DEF Spec

-----------------------------------------------------------------------------
(* The opening capital. *)

\* The opening capital is counted once: no sequence of imports, deletions and
\* recorded entries leaves a ledger with two opening deposits.
THEOREM OpeningCapitalOnce == Spec => []OpeningOnce
<1>1. Init => OpeningOnce
  BY DEF Init, EmptyAccount, OpeningOnce
<1>2. OpeningOnce /\ [Next]_vars => OpeningOnce'
  <2> SUFFICES ASSUME OpeningOnce, [Next]_vars PROVE OpeningOnce'
    OBVIOUS
  <2>1. ASSUME NEW w, Commit(w), EditStep(w) PROVE OpeningOnce'
    <3>1. PICK add, erase :
            /\ w \in Committable(SynchronizeIfManaged(acct, LedgerEdit(add, erase)))
            /\ \A e \in add : e.source # "OPENING_SNAPSHOT"
      BY <2>1 DEF EditStep
    <3>2. \A e \in acct'.ledger : e \in acct.ledger \/ e.source # "OPENING_SNAPSHOT"
      BY <2>1, <3>1, EditedLedger DEF LedgerWith, LedgerEdit
    <3> QED BY <3>2 DEF OpeningOnce
  <2>2. ASSUME NEW w, Commit(w), ImportStep(w) PROVE OpeningOnce'
    <3>1. PICK day, id : w = LedgerEdit(OpeningEntries(acct, day, id), {})
      BY <2>2 DEF ImportStep
    <3>2. acct'.ledger = OpeningEntries(acct, day, id)
      BY <2>2, <3>1, ImportedLedger DEF LedgerEdit
    <3>3. \A e \in OpeningEntries(acct, day, id) :
            e.type = "DEPOSIT"
            => e = OpeningEntry(id, day, "DEPOSIT", Null, 0, OpeningCapital(acct))
      BY DEF OpeningEntries, OpeningEntry
    <3> QED BY <3>2, <3>3 DEF OpeningOnce
  <2>3. ASSUME NEW w, Commit(w), ManualStep(w) PROVE OpeningOnce'
    BY <2>3, ManualLedger DEF OpeningOnce
  <2>4. CASE UNCHANGED acct
    BY <2>4 DEF OpeningOnce
  <2> QED BY <2>1, <2>2, <2>3, <2>4, StepKinds DEF vars, NextDay, SessionClose
<1> QED BY <1>1, <1>2, PTL DEF Spec

-----------------------------------------------------------------------------
(* Holdings and cash follow the ledger. *)

\* Rounding a whole number of steps gives the number.
LEMMA RoundingExact ==
    ASSUME NEW q \in Nat, NEW s \in Nat \ {0}
    PROVE  RoundHalfUp(q * s, s) = q
<1>1. 2 * (q * s) + s = q * (2 * s) + s /\ 0 <= s /\ s < 2 * s /\ 2 * s \in Nat \ {0}
  OBVIOUS
<1>2. (q * (2 * s) + s) \div (2 * s) = q
  BY <1>1
<1> QED BY <1>1, <1>2 DEF RoundHalfUp

\* What ManagedConsistent says of the rows a once the ledger manages them.
Follows(a) ==
    LET calc == Calculation(a.ledger)
    IN  /\ Valid(calc)
        /\ calc.cash >= 0
        /\ CashOf(a) = calc.cash
        /\ HeldQuantities(a) = ProjectedQuantities(calc)

\* The fields of a projection.
LEMMA ProjectedFields ==
    ASSUME NEW a, NEW t, NEW position
    PROVE  /\ ProjectedHolding(a, t, position).qty = ProjectedQty(position)
           /\ ProjectedHolding(a, t, position).weight = WeightOf(a, t)
BY Zenon DEF ProjectedHolding

\* The rows a projection leaves are the projection.
LEMMA ProjectionFollows ==
    ASSUME NEW add, NEW erase, NEW w, Commit(w), TypeOK,
           w \in Committable(SynchronizeIfManaged(acct, LedgerEdit(add, erase))),
           Managed(acct'.ledger)
    PROVE  Follows(acct)'
<1> DEFINE after == LedgerWith(acct, LedgerEdit(add, erase))
           calc  == Calculation(after)
<1>1. acct'.ledger = after
  BY EditedLedger
<1>2. /\ Valid(calc) /\ calc.cash \in Nat
      /\ w = ProjectedEdit(acct, add, erase)
  <2>1. w \in SynchronizeIfManaged(acct, LedgerEdit(add, erase))
    BY DEF Committable
  <2> QED BY <1>1, <2>1, Synchronized
<1>3. /\ w.cash = calc.cash
      /\ DOMAIN w.put = DOMAIN calc.positions
      /\ w.drop = DOMAIN acct.holdings \ DOMAIN calc.positions
      /\ \A t \in DOMAIN calc.positions :
            w.put[t] = ProjectedHolding(acct, t, calc.positions[t])
  BY <1>2 DEF ProjectedEdit
<1>4. acct'.cash = calc.cash /\ CashOf(acct') = calc.cash
  BY <1>2, <1>3, Committed, BoundsAssumption DEF CashOf
<1>5. HeldQuantities(acct') = ProjectedQuantities(calc)
  <2>1. DOMAIN acct'.holdings = DOMAIN calc.positions
    BY <1>3, Committed DEF HoldingsWith
  <2>2. \A t \in DOMAIN calc.positions : acct'.holdings[t] = w.put[t]
    BY <1>3, <2>1, Committed DEF HoldingsWith
  <2>3. \A t \in DOMAIN calc.positions : w.put[t].qty = ProjectedQty(calc.positions[t])
    BY <1>3, ProjectedFields
  <2> QED BY <2>1, <2>2, <2>3 DEF HeldQuantities, ProjectedQuantities
<1> QED BY <1>1, <1>2, <1>4, <1>5 DEF Follows

\* An import that commits has compared the rows with the ledger exactly, so they
\* are its projection although the import projects nothing.
LEMMA ImportFollows ==
    ASSUME NEW w, Commit(w), ImportStep(w), TypeOK
    PROVE  Follows(acct)'
<1> DEFINE calc == Calculation(w.add)
<1>1. acct'.ledger = w.add
  BY ImportedLedger
<1>2. /\ Valid(calc)
      /\ CashOf(acct) = calc.cash
      /\ \A t \in Tickers : ManualSteps(acct, t) * QStep = LedgerUnits(calc, t)
  <2> DEFINE b == [acct EXCEPT !.ledger = w.add]
  <2>1. b.ledger = w.add /\ b.holdings = acct.holdings /\ b.cash = acct.cash
    BY DEF TypeOK, Account
  <2>2. Valid(calc) /\ Agrees(b, calc)
    BY <2>1 DEF ImportStep, Matched
  <2> QED BY <2>1, <2>2 DEF Agrees, CashOf, ManualSteps
<1>3. acct'.holdings = acct.holdings /\ acct'.cash = acct.cash
  <2>1. w.put = <<>> /\ w.drop = {} /\ w.cash = Null
    BY DEF ImportStep, LedgerEdit
  <2>2. DOMAIN w.put = {}
    BY <2>1
  <2>3. PICK H \in SUBSET Tickers : acct.holdings \in [H -> Holding]
    BY DEF TypeOK, Account, HoldingRows
  <2>4. HoldingsWith(acct, w) = acct.holdings
    BY <2>1, <2>2, <2>3 DEF HoldingsWith
  <2> QED BY <2>1, <2>4, Committed
<1>4. CashOf(acct) \in Nat
  BY BoundsAssumption DEF TypeOK, Account, CashOf, Money
<1>5. DOMAIN acct.holdings \subseteq Tickers
  BY DEF TypeOK, Account, HoldingRows
<1>6. ASSUME NEW t \in DOMAIN acct.holdings
      PROVE  /\ t \in DOMAIN calc.positions
             /\ ProjectedQty(calc.positions[t]) = acct.holdings[t].qty
  <2>1. acct.holdings[t].qty \in Nat \ {0}
    <3>1. acct.holdings[t] \in Holding /\ acct.holdings[t].qty # Null
          /\ acct.holdings[t].qty > 0
      BY <1>6 DEF ImportStep, Importable, TypeOK, Account, HoldingRows
    <3> QED BY <3>1, BoundsAssumption DEF Holding, Quantity
  <2>2. ManualSteps(acct, t) = acct.holdings[t].qty
    BY <1>6, <2>1, BoundsAssumption DEF ManualSteps
  <2>3. acct.holdings[t].qty * QStep = LedgerUnits(calc, t)
    BY <1>2, <1>5, <1>6, <2>2
  <2>4. acct.holdings[t].qty * QStep # 0
    BY <2>1, ScaleAssumption
  <2>5. t \in DOMAIN calc.positions /\ calc.positions[t].qty = acct.holdings[t].qty * QStep
    BY <2>3, <2>4 DEF LedgerUnits
  <2> QED BY <2>1, <2>5, ScaleAssumption, RoundingExact DEF ProjectedQty
<1>7. ASSUME NEW t \in DOMAIN calc.positions
      PROVE  t \in DOMAIN acct.holdings
  <2>1. t \in Tickers
    BY <1>7, PositionsAreOfTickers
  <2>2. calc.positions[t].qty > 0
    BY <1>7 DEF Calculation
  <2>3. ManualSteps(acct, t) * QStep = calc.positions[t].qty
    BY <1>2, <1>7, <2>1 DEF LedgerUnits
  <2>4. CASE t \notin DOMAIN acct.holdings
    <3>1. ManualSteps(acct, t) * QStep = 0
      BY <2>4, ScaleAssumption DEF ManualSteps
    <3> QED BY <2>2, <2>3, <3>1
  <2> QED BY <2>4
<1>8. HeldQuantities(acct) = ProjectedQuantities(calc)
  BY <1>6, <1>7 DEF HeldQuantities, ProjectedQuantities
<1> QED BY <1>1, <1>2, <1>3, <1>4, <1>8 DEF Follows, CashOf, HeldQuantities

\* A write to the holdings of a managed account moves neither quantities nor cash.
LEMMA ManagedManualStep ==
    ASSUME NEW w, Commit(w), ManualStep(w), Managed(acct.ledger)
    PROVE  HeldQuantities(acct') = HeldQuantities(acct) /\ acct'.cash = acct.cash
<1>1. DOMAIN acct'.holdings = DOMAIN acct.holdings
  BY Committed DEF ManualStep, HoldingsWith
<1>2. \A t \in DOMAIN acct.holdings : acct'.holdings[t].qty = acct.holdings[t].qty
  BY <1>1, Committed DEF ManualStep, HoldingsWith
<1> QED BY <1>1, <1>2, Committed DEF HeldQuantities, ManualStep

\* Once the ledger manages the account, holdings and cash are its projection,
\* for any requests in any order.  The type invariant is needed because an import
\* is accepted by comparing quantities of the table, which must be numbers.
THEOREM ManagedAccountsAreConsistent == Spec => []ManagedConsistent
<1>1. Init => ManagedConsistent
  BY DEF Init, EmptyAccount, ManagedConsistent, Managed
<1>2. TypeOK /\ ManagedConsistent /\ [Next]_vars => ManagedConsistent'
  <2> SUFFICES ASSUME TypeOK, ManagedConsistent, [Next]_vars, Managed(acct'.ledger)
               PROVE  Follows(acct)'
    BY DEF ManagedConsistent, Follows
  <2>1. ASSUME NEW w, Commit(w), EditStep(w) PROVE Follows(acct)'
    BY <2>1, ProjectionFollows DEF EditStep
  <2>2. ASSUME NEW w, Commit(w), ImportStep(w) PROVE Follows(acct)'
    BY <2>2, ImportFollows
  <2>3. ASSUME NEW w, Commit(w), ManualStep(w) PROVE Follows(acct)'
    <3>1. acct'.ledger = acct.ledger /\ Managed(acct.ledger)
      BY <2>3, ManualLedger
    <3>2. HeldQuantities(acct') = HeldQuantities(acct) /\ acct'.cash = acct.cash
      BY <2>3, <3>1, ManagedManualStep
    <3> QED BY <3>1, <3>2 DEF ManagedConsistent, Follows, CashOf
  <2>4. CASE UNCHANGED acct
    BY <2>4 DEF ManagedConsistent, Follows
  <2> QED BY <2>1, <2>2, <2>3, <2>4, StepKinds DEF vars, NextDay, SessionClose
<1> QED BY <1>1, <1>2, TypeCorrect, PTL DEF Spec

-----------------------------------------------------------------------------
(* What a step may never do. *)

\* In a managed account a step that keeps the ledger keeps the quantities and
\* the cash (of average prices it says nothing): recording and deleting an entry change the ledger, an import needs
\* an empty one, and the guards refuse every write but that of a weight.
THEOREM QuantitiesMoveWithTheLedger == Spec => HoldingsFollowLedger
<1>1. [Next]_vars =>
        [Managed(acct.ledger) /\ acct'.ledger = acct.ledger
           => /\ HeldQuantities(acct') = HeldQuantities(acct)
              /\ acct'.cash = acct.cash]_vars
  <2> SUFFICES ASSUME Next, Managed(acct.ledger), acct'.ledger = acct.ledger
               PROVE  HeldQuantities(acct') = HeldQuantities(acct) /\ acct'.cash = acct.cash
    OBVIOUS
  <2>1. ASSUME NEW w, Commit(w), EditStep(w) PROVE FALSE
    BY <2>1, EditedLedger DEF EditStep
  <2>2. ASSUME NEW w, Commit(w), ImportStep(w) PROVE FALSE
    BY <2>2, ImportedLedger DEF Managed
  <2>3. CASE UNCHANGED acct
    BY <2>3
  <2> QED BY <2>1, <2>2, <2>3, ManagedManualStep, StepKinds DEF NextDay, SessionClose
<1> QED BY <1>1, PTL DEF Spec, HoldingsFollowLedger

\* A projection keeps the target weights of the rows it keeps, and an edit of a
\* weight changes nothing else a projection owns.
THEOREM TargetWeightsSurvive == Spec => WeightsSurvive
<1>1. [Next]_vars =>
        [\A t \in DOMAIN acct.holdings \cap DOMAIN acct'.holdings :
           acct'.holdings[t].weight # acct.holdings[t].weight
           => /\ acct'.ledger = acct.ledger
              /\ acct'.holdings[t].qty = acct.holdings[t].qty]_vars
  <2> SUFFICES ASSUME Next,
                      NEW t \in DOMAIN acct.holdings \cap DOMAIN acct'.holdings,
                      acct'.holdings[t].weight # acct.holdings[t].weight
               PROVE  /\ acct'.ledger = acct.ledger
                      /\ acct'.holdings[t].qty = acct.holdings[t].qty
    OBVIOUS
  <2>1. ASSUME NEW w, Commit(w), EditStep(w) PROVE FALSE
    <3>1. PICK add, erase :
            w \in Committable(SynchronizeIfManaged(acct, LedgerEdit(add, erase)))
      BY <2>1 DEF EditStep
    <3>2. \/ w = LedgerEdit(add, erase)
          \/ w = ProjectedEdit(acct, add, erase)
      BY <3>1, Synchronized DEF Committable
    <3>3. t \in DOMAIN w.put /\ acct'.holdings[t] = w.put[t]
      BY <2>1, CommittedHolding
    <3>4. CASE w = LedgerEdit(add, erase)
      <4>1. w.put = <<>>
        BY <3>4 DEF LedgerEdit
      <4> QED BY <3>3, <4>1
    <3>5. CASE w = ProjectedEdit(acct, add, erase)
      <4>1. w.put[t].weight = WeightOf(acct, t)
        BY <3>3, <3>5, ProjectedFields DEF ProjectedEdit
      <4> QED BY <3>3, <4>1 DEF WeightOf
    <3> QED BY <3>2, <3>4, <3>5
  <2>2. ASSUME NEW w, Commit(w), ImportStep(w) PROVE FALSE
    <3>1. w.put = <<>>
      BY <2>2 DEF ImportStep, LedgerEdit
    <3>2. t \notin DOMAIN w.put
      BY <3>1
    <3> QED BY <2>2, <3>2, CommittedHolding
  <2>3. ASSUME NEW w, Commit(w), ManualStep(w)
        PROVE  acct'.ledger = acct.ledger /\ acct'.holdings[t].qty = acct.holdings[t].qty
    BY <2>3, CommittedHolding, ManualLedger DEF ManualStep
  <2>4. CASE UNCHANGED acct
    BY <2>4
  <2> QED BY <2>1, <2>2, <2>3, <2>4, StepKinds DEF NextDay, SessionClose
<1> QED BY <1>1, PTL DEF Spec, WeightsSurvive

-----------------------------------------------------------------------------
(* The cash history. *)

\* No history row is of a session still to come.
HistoryIsPast == \A d \in DOMAIN acct.history : d <= session

\* The latest row of the cash history is the balance: both are written in one
\* transaction, and a session, once over, is never written again.  No row is of a later
\* session than the current one.
THEOREM HistoryShowsTheBalance == Spec => [](HistoryTracksCash /\ HistoryIsPast)
<1>1. Init => HistoryIsPast /\ HistoryTracksCash
  BY DEF Init, EmptyAccount, HistoryIsPast, HistoryTracksCash
<1>2. TypeOK /\ HistoryIsPast /\ HistoryTracksCash /\ [Next]_vars
        => HistoryIsPast' /\ HistoryTracksCash'
  <2> SUFFICES ASSUME TypeOK, HistoryIsPast, HistoryTracksCash, [Next]_vars
               PROVE  HistoryIsPast' /\ HistoryTracksCash'
    OBVIOUS
  <2>0. session \in Nat /\ DOMAIN acct.history \subseteq Nat
    <3>1. PICK D \in SUBSET Days : acct.history \in [D -> Money]
      BY DEF TypeOK, Account, CashRows
    <3>2. DOMAIN acct.history = D
      BY <3>1
    <3>3. D \subseteq Nat
      BY BoundsAssumption DEF Days
    <3>4. session \in Nat
      BY BoundsAssumption DEF TypeOK, Days
    <3> QED BY <3>2, <3>3, <3>4
  <2>1. ASSUME NEW w, Commit(w) PROVE HistoryIsPast' /\ HistoryTracksCash'
    <3>1. CASE w.cash = Null
      <4>1. acct'.history = acct.history /\ acct'.cash = acct.cash /\ session' = session
        BY <2>1, <3>1, Committed DEF HistoryWith
      <4> QED BY <4>1 DEF HistoryIsPast, HistoryTracksCash
    <3>2. CASE w.cash # Null
      <4>1. /\ DOMAIN acct'.history = DOMAIN acct.history \cup {session}
            /\ acct'.history[session] = w.cash /\ acct'.cash = w.cash
            /\ session' = session
        BY <2>1, <3>2, Committed DEF HistoryWith
      <4>2. HistoryIsPast'
        BY <2>0, <4>1 DEF HistoryIsPast
      <4>3. HistoryTracksCash'
        BY <2>0, <4>1, <4>2 DEF HistoryTracksCash, HistoryIsPast
      <4> QED BY <4>2, <4>3
    <3> QED BY <3>1, <3>2
  <2>2. CASE UNCHANGED acct /\ (session' = session \/ session' = session + 1)
    BY <2>0, <2>2 DEF HistoryIsPast, HistoryTracksCash
  <2> QED BY <2>1, <2>2, StepKinds DEF vars, NextDay, SessionClose
<1> QED BY <1>1, <1>2, TypeCorrect, PTL DEF Spec

=============================================================================
