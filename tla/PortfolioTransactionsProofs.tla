--------------------- MODULE PortfolioTransactionsProofs ---------------------
(***************************************************************************)
(* The transactions of concurrent requests keep what PortfolioAccount      *)
(* promises of requests that are served one after the other: the cash      *)
(* history shows the balance, and every commit to an account that the      *)
(* ledger manages is one a single request would have made alone.           *)
(*                                                                         *)
(* A transaction decides on the rows it saw and commits on rows that       *)
(* others may have changed, so the invariants say of every thread that is  *)
(* in between what has become of its decision.  Either it is overtaken, a  *)
(* row it writes was changed or made since its snapshot, and the flush     *)
(* will fail (HistoryInv, Overtaken); or its writes are still those that   *)
(* its request would decide on now (Projecting, Releasing, Weighing).      *)
(* Every projection writes the balance and every row of a holding, so that *)
(* two of them always meet, and meet an edit of a weight in its row.  This *)
(* is what makes the promise depend on innodb_snapshot_isolation.          *)
(***************************************************************************)
EXTENDS MCPortfolioTransactions, FiniteSetTheorems, TLAPS

-----------------------------------------------------------------------------
(* The services of the promise are those of the transactions: instantiated *)
(* with the same constants, the two modules share what PortfolioStore      *)
(* reads and writes.                                                       *)

\* The replay is the same function.
LEMMA SameCalculation ==
    ASSUME NEW l
    PROVE  Alone!Calculation(l) = Calculation(l)
<1> DEFINE C(cash, pos) ==
        [cash      |-> cash,
         positions |-> [t \in {u \in Tickers : QtyOf(pos[u].lots) > 0} |->
                          [qty  |-> QtyOf(pos[t].lots),
                           cost |-> CostOf(pos[t].lots)]],
         realized  |-> [t \in Tickers |-> pos[t].realized],
         errors    |-> UNION {pos[t].oversold : t \in Tickers},
         undefined |-> \E t \in Tickers : pos[t].undefined]
<1>1. \A t : Alone!Position(l, t) = Position(l, t)
  BY Zenon DEF Position, Alone!Position, InOrder, Alone!InOrder, Before, Alone!Before,
       Cardinality, Alone!Cardinality, TradesOf, Alone!TradesOf, NoPosition,
       Alone!NoPosition, Traded, Alone!Traded, Bought, Alone!Bought, Sold, Alone!Sold,
       Scaled, Alone!Scaled, Lot, Alone!Lot, QtyOf, Alone!QtyOf, Consume, Alone!Consume,
       TakeFrom, Alone!TakeFrom, RoundHalfUp, Alone!RoundHalfUp, FoldLeft,
       Alone!FoldLeft, MapThenFoldSet, Alone!MapThenFoldSet, Min, Alone!Min, Max,
       Alone!Max
<1>2. Alone!Positions(l) = Positions(l)
  BY <1>1, Zenon DEF Positions, Alone!Positions
<1>3. Alone!LedgerCash(l) = LedgerCash(l)
  BY Zenon DEF LedgerCash, Alone!LedgerCash, CashEffect, Alone!CashEffect,
       MapThenSumSet, Alone!MapThenSumSet, MapThenFoldSet, Alone!MapThenFoldSet
<1>4. Calculation(l) = C(LedgerCash(l), Positions(l))
  BY Zenon DEF Calculation
<1>5. Alone!Calculation(l) = C(Alone!LedgerCash(l), Alone!Positions(l))
  BY Zenon DEF Alone!Calculation, QtyOf, Alone!QtyOf, CostOf, Alone!CostOf, FoldLeft,
       Alone!FoldLeft, MapThenFoldSet, Alone!MapThenFoldSet, Max, Alone!Max
<1> HIDE DEF C
<1> QED
  BY <1>2, <1>3, <1>4, <1>5, Zenon

\* So are the effect of writes, ...
LEMMA SameApply ==
    ASSUME NEW a, NEW w, NEW d
    PROVE  Alone!Apply(a, w, d) = Apply(a, w, d)
BY Zenon DEF Apply, Alone!Apply, LedgerWith, Alone!LedgerWith, HoldingsWith,
     Alone!HoldingsWith, HistoryWith, Alone!HistoryWith

\* ... the projection, which needs the replay to be the same, ...
LEMMA SameSynchronized ==
    ASSUME NEW a, NEW w
    PROVE  Alone!SynchronizeIfManaged(a, w) = SynchronizeIfManaged(a, w)
<1>1. Alone!LedgerWith(a, w) = LedgerWith(a, w)
  BY Zenon DEF LedgerWith, Alone!LedgerWith
<1>2. Alone!Managed(LedgerWith(a, w)) = Managed(LedgerWith(a, w))
  BY Zenon DEF Managed, Alone!Managed
<1>3. Alone!Calculation(LedgerWith(a, w)) = Calculation(LedgerWith(a, w))
  BY SameCalculation
<1> DEFINE P(calc) ==
    LET put  == [t \in DOMAIN calc.positions |->
                    ProjectedHolding(a, t, calc.positions[t])]
    IN  IF Valid(calc) /\ calc.cash \in Nat
        THEN {[w EXCEPT !.put  = put,
                        !.drop = DOMAIN a.holdings \ DOMAIN put,
                        !.cash = calc.cash]}
        ELSE {}
<1>4. Projection(a, w) = P(Calculation(LedgerWith(a, w)))
  BY Zenon DEF Projection
<1>5. Alone!Projection(a, w) = P(Alone!Calculation(Alone!LedgerWith(a, w)))
  BY Zenon DEF Alone!Projection, Valid, Alone!Valid, ProjectedHolding,
       Alone!ProjectedHolding, ProjectedQty, Alone!ProjectedQty, RoundHalfUp,
       Alone!RoundHalfUp, WeightOf, Alone!WeightOf
<1> HIDE DEF P
<1>6. Alone!Projection(a, w) = Projection(a, w)
  BY <1>1, <1>3, <1>4, <1>5, Zenon
<1> QED
  BY <1>1, <1>2, <1>6, Zenon DEF SynchronizeIfManaged, Alone!SynchronizeIfManaged

\* ... what the columns hold ...
LEMMA SameCommittable ==
    ASSUME NEW ws
    PROVE  Alone!Committable(ws) = Committable(ws)
BY Zenon DEF Committable, Alone!Committable, Storable, Alone!Storable, Entry, Alone!Entry,
     Holding, Alone!Holding, Money, Alone!Money, Days, Alone!Days, EntryTypes,
     Alone!EntryTypes, CashFlowTypes, Alone!CashFlowTypes, TradeTypes, Alone!TradeTypes,
     Quantity, Alone!Quantity, Price, Alone!Price, Sources, Alone!Sources

\* ... and the writes of the requests that a managed account serves.
LEMMA SameWrites ==
    ASSUME NEW a
    PROVE  /\ \A r, id, day : Alone!CreateWrites(a, r, id, day) = CreateWrites(a, r, id, day)
           /\ \A id : Alone!DeleteWrites(a, id) = DeleteWrites(a, id)
           /\ \A t, weight :
                Alone!UpdateTargetWeightWrites(a, t, weight)
                  = UpdateTargetWeightWrites(a, t, weight)
<1>1. \A r, day : Alone!ValidRequest(r, day) = ValidRequest(r, day)
  BY Zenon DEF ValidRequest, Alone!ValidRequest, GrossAmount, Alone!GrossAmount,
       TradeTypes, Alone!TradeTypes, CashFlowTypes, Alone!CashFlowTypes, RoundHalfUp,
       Alone!RoundHalfUp
<1>2. \A r, id : Alone!NewEntry(r, id) = NewEntry(r, id)
  BY Zenon DEF NewEntry, Alone!NewEntry, GrossAmount, Alone!GrossAmount, TradeTypes,
       Alone!TradeTypes, CashFlowTypes, Alone!CashFlowTypes, RoundHalfUp,
       Alone!RoundHalfUp
<1>3. Alone!NoWrites = NoWrites
  BY Zenon DEF NoWrites, Alone!NoWrites
<1>4. ASSUME NEW r, NEW id, NEW day
      PROVE  Alone!CreateWrites(a, r, id, day) = CreateWrites(a, r, id, day)
  BY <1>1, <1>2, <1>3, SameSynchronized, SameCommittable, Zenon
     DEF CreateWrites, Alone!CreateWrites
<1>5. ASSUME NEW id
      PROVE  Alone!DeleteWrites(a, id) = DeleteWrites(a, id)
  BY <1>3, SameSynchronized, SameCommittable, Zenon DEF DeleteWrites, Alone!DeleteWrites
<1>6. ASSUME NEW t, NEW weight
      PROVE  Alone!UpdateTargetWeightWrites(a, t, weight)
               = UpdateTargetWeightWrites(a, t, weight)
  BY <1>3, SameCommittable, Zenon
     DEF UpdateTargetWeightWrites, Alone!UpdateTargetWeightWrites, PutHolding,
         Alone!PutHolding
<1> QED
  BY <1>4, <1>5, <1>6

-----------------------------------------------------------------------------
(* The threads: what is in a slot of txn, and the days it may write. *)

IsOpen(p) == txn[p].stage = "open"

Slot(x) ==
    /\ x.stage \in {"idle", "guarded", "open"}
    /\ x.stage = "idle" => x = Idle
    /\ x.stage = "guarded" => x = [stage |-> "guarded", amount |-> x.amount, day |-> x.day]
    /\ x.stage = "open" =>
         x = [stage |-> "open", w |-> x.w, from |-> x.from, until |-> x.until,
              seen |-> x.seen, stale |-> x.stale]

Shaped == DOMAIN txn = Requests /\ \A p \in Requests : Slot(txn[p])

\* While the balance is not typed, or no session closes, a transaction writes a row of
\* the session it began in or a later one.
Dated(x) ==
    /\ x.stage = "guarded" => scenario = "ledger" /\ x.day = session
    /\ x.stage = "open" =>
         /\ x.from \in Nat /\ x.from <= session
         /\ \/ scenario = "given" /\ x.until = Null
            \/ scenario = "ledger" /\ x.from = session /\ x.until \in {Null, session}

Clocked ==
    /\ session \in Nat
    /\ scenario \in {"given", "ledger"} => \A p \in Requests : Dated(txn[p])

\* A transaction begins with what the rows are,
LEMMA Started ==
    ASSUME Shaped, NEW p \in Requests, NEW w, NEW days, Start(p, w, days)
    PROVE  /\ txn'[p] = Open(w, days)
           /\ txn'[p].stage = "open" /\ txn'[p].w = w
           /\ txn'[p].from = days[1] /\ txn'[p].until = days[2]
           /\ txn'[p].seen = RowKeys(acct) /\ txn'[p].stale = {}
           /\ \A q \in Requests \ {p} : txn'[q] = txn[q]
           /\ Shaped'
<1>1. /\ txn'[p] = Open(w, days) /\ DOMAIN txn' = Requests
      /\ \A q \in Requests \ {p} : txn'[q] = txn[q]
  BY DEF Shaped, Start
<1>2. /\ txn'[p].stage = "open" /\ txn'[p].w = w
      /\ txn'[p].from = days[1] /\ txn'[p].until = days[2]
      /\ txn'[p].seen = RowKeys(acct) /\ txn'[p].stale = {}
  BY <1>1 DEF Open
<1>3. Slot(txn'[p])
  BY <1>1, <1>2 DEF Slot, Open
<1> QED
  BY <1>1, <1>2, <1>3 DEF Shaped

\* and ends leaving the others what they were, but for the rows it has changed.
LEMMA Committed ==
    ASSUME Shaped, NEW p \in Requests, Commit(p)
    PROVE  /\ \E day \in txn[p].from..(IF txn[p].until = Null THEN session ELSE txn[p].until) :
                /\ ~Conflict(txn[p], day)
                /\ acct' = Apply(acct, txn[p].w, day)
                /\ \A q \in Requests \ {p} : IsOpen(q) =>
                     txn'[q].stale = txn[q].stale \cup (Dooming(txn[p].w, day) \cap txn[q].seen)
           /\ txn'[p] = Idle /\ IsOpen(p)
           /\ \A q \in Requests \ {p} :
                /\ txn'[q].stage = txn[q].stage
                /\ ~IsOpen(q) => txn'[q] = txn[q]
                /\ IsOpen(q) =>
                     /\ txn'[q].w = txn[q].w /\ txn'[q].seen = txn[q].seen
                     /\ txn'[q].from = txn[q].from /\ txn'[q].until = txn[q].until
           /\ Shaped'
           /\ UNCHANGED <<nextId, today, session>>
<1>1. PICK day \in txn[p].from..(IF txn[p].until = Null THEN session ELSE txn[p].until) :
         /\ ~Conflict(txn[p], day)
         /\ acct' = Apply(acct, txn[p].w, day)
         /\ txn' = [q \in Requests |->
                      IF q = p THEN Idle
                      ELSE IF txn[q].stage = "open"
                           THEN [txn[q] EXCEPT !.stale =
                                    @ \cup (Dooming(txn[p].w, day) \cap txn[q].seen)]
                           ELSE txn[q]]
  BY DEF Commit
<1>2. ASSUME NEW q \in Requests \ {p}, IsOpen(q)
      PROVE  /\ Slot(txn'[q])
             /\ txn'[q].stage = "open" /\ txn'[q].w = txn[q].w
             /\ txn'[q].seen = txn[q].seen
             /\ txn'[q].from = txn[q].from /\ txn'[q].until = txn[q].until
             /\ txn'[q].stale = txn[q].stale \cup (Dooming(txn[p].w, day) \cap txn[q].seen)
  <2>1. txn[q] = [stage |-> "open", w |-> txn[q].w, from |-> txn[q].from,
                  until |-> txn[q].until, seen |-> txn[q].seen, stale |-> txn[q].stale]
    BY <1>2 DEF Shaped, Slot, IsOpen
  <2>2. txn'[q] = [txn[q] EXCEPT !.stale = @ \cup (Dooming(txn[p].w, day) \cap txn[q].seen)]
    BY <1>1, <1>2 DEF IsOpen
  <2> DEFINE s == txn[q].stale \cup (Dooming(txn[p].w, day) \cap txn[q].seen)
  <2>3. txn'[q] = [txn[q] EXCEPT !.stale = s]
    BY <2>2
  <2> HIDE DEF s
  <2>4. txn'[q] = [stage |-> "open", w |-> txn[q].w, from |-> txn[q].from,
                   until |-> txn[q].until, seen |-> txn[q].seen, stale |-> s]
    BY <2>1, <2>3
  <2>5. /\ txn'[q].stage = "open" /\ txn'[q].w = txn[q].w /\ txn'[q].seen = txn[q].seen
        /\ txn'[q].from = txn[q].from /\ txn'[q].until = txn[q].until /\ txn'[q].stale = s
    BY <2>4
  <2>6. Slot(txn'[q])
    BY <2>4, <2>5 DEF Slot
  <2> QED
    BY <2>5, <2>6 DEF s
<1>3. ASSUME NEW q \in Requests \ {p}, ~IsOpen(q)
      PROVE  txn'[q] = txn[q]
  BY <1>1, <1>3 DEF IsOpen
<1>4. txn'[p] = Idle /\ IsOpen(p)
  BY <1>1 DEF Commit, IsOpen
<1>5. ASSUME NEW q \in Requests PROVE Slot(txn'[q])
  <2>1. CASE q = p
    BY <1>4, <2>1 DEF Slot, Idle
  <2>2. CASE q # p /\ IsOpen(q)
    BY <1>2, <2>2
  <2>3. CASE q # p /\ ~IsOpen(q)
    BY <1>3, <2>3 DEF Shaped
  <2> QED
    BY <2>1, <2>2, <2>3
<1>6. Shaped'
  BY <1>1, <1>5 DEF Shaped
<1>7. UNCHANGED <<nextId, today, session>>
  BY DEF Commit
<1>8. \A q \in Requests \ {p} : txn'[q].stage = txn[q].stage
  BY <1>2, <1>3 DEF IsOpen
<1> QED
  BY <1>1, <1>2, <1>3, <1>4, <1>6, <1>7, <1>8

\* The beginnings of requests that the ledger and the holdings serve: their writes, and
\* the session they began in.
Begins(p, w) ==
    /\ txn[p] = Idle
    /\ Start(p, w, Now)
    /\ UNCHANGED <<acct, today, session>>

\* A request that the ledger or the holdings serve begins, commits or is rolled back.
LEMMA ServedSteps ==
    ASSUME Served
    PROVE  \E p \in Requests :
              \/ \E r \in EntryRequests : BeginCreate(p, r)
              \/ \E id \in 1..MaxId : BeginDelete(p, id)
              \/ BeginHoldingWrite(p)
              \/ Commit(p)
              \/ Rollback(p)
BY DEF Served

\* Every request but a typed balance begins on the rows as they are.
LEMMA Beginnings ==
    ASSUME NEW p \in Requests,
           \/ \E r \in EntryRequests : BeginCreate(p, r)
           \/ \E id \in 1..MaxId : BeginDelete(p, id)
           \/ BeginHoldingWrite(p)
           \/ \E day \in Days : BeginImport(p, day)
    PROVE  \E w : Begins(p, w)
<1>1. ASSUME NEW r \in EntryRequests, BeginCreate(p, r) PROVE \E w : Begins(p, w)
  BY <1>1 DEF BeginCreate, Begins
<1>2. ASSUME NEW id \in 1..MaxId, BeginDelete(p, id) PROVE \E w : Begins(p, w)
  BY <1>2 DEF BeginDelete, Begins
<1>3. ASSUME BeginHoldingWrite(p) PROVE \E w : Begins(p, w)
  BY <1>3 DEF BeginHoldingWrite, Begins
<1>4. ASSUME NEW day \in Days, BeginImport(p, day) PROVE \E w : Begins(p, w)
  BY <1>4 DEF BeginImport, Begins
<1> QED
  BY <1>1, <1>2, <1>3, <1>4

\* The steps of the threads, by what they do to them.
LEMMA Steps ==
    ASSUME [ScenarioNext]_<<scenario, vars>>
    PROVE  /\ scenario' = scenario
           /\ \/ \E p \in Requests : \E w : Begins(p, w)
              \/ \E p \in Requests : Commit(p)
              \/ \E p \in Requests : Rollback(p)
              \/ \E p \in Requests, amount \in CashAmounts :
                    scenario # "given" /\ GuardCash(p, amount)
              \/ \E p \in Requests : scenario # "given" /\ BeginCash(p)
              \/ scenario # "ledger" /\ SessionClose
              \/ UNCHANGED vars
<1>1. ASSUME Served
      PROVE  \/ \E p \in Requests : \E w : Begins(p, w)
             \/ \E p \in Requests : Commit(p)
             \/ \E p \in Requests : Rollback(p)
  BY <1>1, ServedSteps, Beginnings
<1>2. ASSUME Imported PROVE \E p \in Requests : \E w : Begins(p, w)
  BY <1>2, Beginnings DEF Imported
<1> QED
  BY <1>1, <1>2 DEF ScenarioNext, Next, Typed

\* Every step of a thread leaves one of the three kinds of slots.
LEMMA ShapeHolds ==
    ASSUME Shaped, [ScenarioNext]_<<scenario, vars>>
    PROVE  Shaped'
<1>1. ASSUME NEW p \in Requests, NEW w, Begins(p, w) PROVE Shaped'
  BY <1>1, Started DEF Begins
<1>2. ASSUME NEW p \in Requests, Commit(p) PROVE Shaped'
  BY <1>2, Committed
<1>3. ASSUME NEW p \in Requests, Rollback(p) PROVE Shaped'
  BY <1>3 DEF Rollback, Shaped, Slot, Idle
<1>4. ASSUME NEW p \in Requests, NEW amount \in CashAmounts, GuardCash(p, amount) PROVE Shaped'
  <2>1. txn' = [txn EXCEPT ![p] = Guarded(amount)] /\ Slot(Guarded(amount))
    BY <1>4 DEF GuardCash, Slot, Guarded
  <2> QED
    BY <2>1 DEF Shaped
<1>5. ASSUME NEW p \in Requests, BeginCash(p) PROVE Shaped'
  BY <1>5, Started DEF BeginCash
<1>6. CASE UNCHANGED txn
  BY <1>6 DEF Shaped
<1> QED
  BY <1>1, <1>2, <1>3, <1>4, <1>5, <1>6, Steps DEF SessionClose, vars

\* No step dates a transaction after the session, or before the one it began in.
LEMMA ClockHolds ==
    ASSUME Shaped, Clocked, [ScenarioNext]_<<scenario, vars>>
    PROVE  Clocked'
<1>0. scenario' = scenario
  BY Steps
<1>1. ASSUME NEW p \in Requests, NEW w, Begins(p, w) PROVE Clocked'
  <2>1. /\ txn'[p].stage = "open" /\ txn'[p].from = session /\ txn'[p].until = Null
        /\ \A q \in Requests \ {p} : txn'[q] = txn[q]
        /\ session' = session
    BY <1>1, Started DEF Begins, Now
  <2> QED
    BY <1>0, <2>1 DEF Clocked, Dated
<1>2. ASSUME NEW p \in Requests, Commit(p) PROVE Clocked'
  BY <1>0, <1>2, Committed DEF Clocked, Dated, IsOpen, Idle
<1>3. ASSUME NEW p \in Requests, Rollback(p) PROVE Clocked'
  <2>1. txn'[p].stage = "idle" /\ \A q \in Requests \ {p} : txn'[q] = txn[q]
    BY <1>3 DEF Rollback, Shaped, Idle
  <2> QED
    BY <1>0, <1>3, <2>1 DEF Clocked, Dated, Rollback
<1>4. ASSUME NEW p \in Requests, NEW amount \in CashAmounts, GuardCash(p, amount),
             scenario # "given"
      PROVE Clocked'
  <2>1. /\ txn'[p].stage = "guarded" /\ txn'[p].day = session
        /\ \A q \in Requests \ {p} : txn'[q] = txn[q]
    BY <1>4 DEF GuardCash, Shaped, Guarded
  <2> QED
    BY <1>0, <1>4, <2>1 DEF Clocked, Dated, GuardCash
<1>5. ASSUME NEW p \in Requests, BeginCash(p), scenario # "given" PROVE Clocked'
  <2>1. PICK w : Start(p, w, <<txn[p].day, session>>)
    BY <1>5 DEF BeginCash
  <2>2. /\ txn'[p].stage = "open" /\ txn'[p].from = txn[p].day /\ txn'[p].until = session
        /\ \A q \in Requests \ {p} : txn'[q] = txn[q]
    BY <2>1, Started
  <2>3. scenario \in {"given", "ledger"} => scenario = "ledger" /\ txn[p].day = session
    BY <1>5 DEF Clocked, Dated, BeginCash
  <2>4. session' = session
    BY <1>5 DEF BeginCash
  <2> QED
    BY <1>0, <2>2, <2>3, <2>4 DEF Clocked, Dated
<1>6. ASSUME SessionClose, scenario # "ledger" PROVE Clocked'
  BY <1>0, <1>6 DEF Clocked, Dated, SessionClose
<1>7. CASE UNCHANGED vars
  BY <1>0, <1>7 DEF Clocked, Dated, vars
<1> QED
  BY <1>1, <1>2, <1>3, <1>4, <1>5, <1>6, <1>7, Steps

-----------------------------------------------------------------------------
(* The cash history. A transaction that writes the balance is one that     *)
(* will fail, since another wrote it first, or began in a session no       *)
(* earlier than the latest of the history.                                 *)

CashKey == <<"cash", 0>>

CashOvertaken(x) ==
    /\ x.w.cash # Null
    /\ CashKey \in x.stale \/ (CashKey \notin x.seen /\ acct.cash # Null)

\* No history row is of a session still to come.
HistoryIsPast == \A d \in DOMAIN acct.history : d <= session

HistoryInv ==
    /\ \A d \in DOMAIN acct.history : d \in Nat /\ d <= session
    /\ \A p \in Requests : IsOpen(p) /\ txn[p].w.cash # Null =>
         CashOvertaken(txn[p]) \/ \A d \in DOMAIN acct.history : d <= txn[p].from
    /\ HistoryTracksCash

\* Who writes the balance after another did fails.
LEMMA OvertakenFails ==
    ASSUME NEW x, NEW day, CashOvertaken(x)
    PROVE  Conflict(x, day)
<1>1. CashKey \in Written(x.w, day)
  BY DEF Written, CashOvertaken, CashKey
<1>2. acct.cash # Null => CashKey \in RowKeys(acct)
  BY DEF RowKeys, CashKey
<1> QED
  BY <1>1, <1>2 DEF Conflict, CashOvertaken

\* Every step leaves a history whose latest row is the balance, and a thread that would
\* write an earlier row overtaken.
LEMMA HistoryHolds ==
    ASSUME SnapshotIsolation, scenario \in {"given", "ledger"}, Shaped, Clocked, HistoryInv,
           [ScenarioNext]_<<scenario, vars>>
    PROVE  HistoryInv'
<1>0. scenario' = scenario /\ session \in Nat
  BY Steps DEF Clocked
<1>1. ASSUME UNCHANGED <<acct, session>>, NEW p \in Requests,
             IsOpen(p)' => txn'[p].from = session,
             \A q \in Requests \ {p} : txn'[q] = txn[q]
      PROVE  HistoryInv'
  <2>1. HistoryTracksCash'
    BY <1>1 DEF HistoryInv, HistoryTracksCash, Alone!HistoryTracksCash
  <2>2. ASSUME NEW q \in Requests, IsOpen(q)', txn'[q].w.cash # Null
        PROVE  CashOvertaken(txn[q])' \/ \A d \in DOMAIN acct'.history : d <= txn'[q].from
    <3>1. CASE q = p
      BY <1>1, <2>2, <3>1 DEF HistoryInv
    <3>2. CASE q # p
      <4>1. txn'[q] = txn[q] /\ acct' = acct
        BY <1>1, <3>2
      <4> QED
        BY <2>2, <4>1 DEF HistoryInv, IsOpen, CashOvertaken
    <3> QED
      BY <3>1, <3>2
  <2> QED
    BY <1>1, <2>1, <2>2 DEF HistoryInv
<1>2. ASSUME NEW p \in Requests, NEW w, Begins(p, w) PROVE HistoryInv'
  <2>1. /\ txn'[p].from = session
        /\ \A q \in Requests \ {p} : txn'[q] = txn[q]
    BY <1>2, Started DEF Begins, Now
  <2> QED
    BY <1>1, <1>2, <2>1 DEF Begins
<1>3. ASSUME NEW p \in Requests, Commit(p) PROVE HistoryInv'
  <2> DEFINE x == txn[p]
  <2>1. PICK day \in x.from..(IF x.until = Null THEN session ELSE x.until) :
          /\ ~Conflict(x, day)
          /\ acct' = Apply(acct, x.w, day)
          /\ \A q \in Requests \ {p} : IsOpen(q) =>
               txn'[q].stale = txn[q].stale \cup (Dooming(x.w, day) \cap txn[q].seen)
    BY <1>3, Committed
  <2>2. /\ txn'[p] = Idle /\ IsOpen(p) /\ session' = session
        /\ \A q \in Requests \ {p} : txn'[q].stage = txn[q].stage
        /\ \A q \in Requests \ {p} : IsOpen(q) =>
             /\ txn'[q].w = txn[q].w /\ txn'[q].seen = txn[q].seen
             /\ txn'[q].from = txn[q].from
    BY <1>3, Committed
  <2>3. x.from \in Nat /\ day \in Nat /\ x.from <= day /\ day <= session
    <3>1. Dated(x)
      BY DEF Clocked
    <3> QED
      BY <1>0, <2>1, <2>2, <3>1 DEF Dated, IsOpen
  <2>4. acct'.history = HistoryWith(acct, x.w, day)
        /\ acct'.cash = IF x.w.cash = Null THEN acct.cash ELSE x.w.cash
    BY <2>1 DEF Apply
  <2>5. CASE x.w.cash = Null
    <3>1. acct'.history = acct.history /\ acct'.cash = acct.cash
      BY <2>4, <2>5 DEF HistoryWith
    <3>2. HistoryTracksCash'
      BY <3>1 DEF HistoryInv, HistoryTracksCash, Alone!HistoryTracksCash
    <3>3. ASSUME NEW q \in Requests, IsOpen(q)', txn'[q].w.cash # Null
          PROVE  CashOvertaken(txn[q])' \/ \A d \in DOMAIN acct'.history : d <= txn'[q].from
      <4>1. q # p /\ IsOpen(q)
        BY <2>2, <3>3 DEF IsOpen, Idle
      <4>2. txn'[q].w = txn[q].w /\ txn'[q].seen = txn[q].seen /\ txn'[q].from = txn[q].from
            /\ txn[q].stale \subseteq txn'[q].stale
        BY <2>1, <2>2, <4>1
      <4> QED
        BY <3>1, <3>3, <4>1, <4>2 DEF HistoryInv, CashOvertaken
    <3> QED
      BY <2>2, <3>1, <3>2, <3>3 DEF HistoryInv
  <2>6. CASE x.w.cash # Null
    <3>1. \A d \in DOMAIN acct.history : d \in Nat /\ d <= x.from
      BY <2>1, <2>2, <2>6, OvertakenFails DEF HistoryInv
    <3>2. /\ DOMAIN acct'.history = DOMAIN acct.history \cup {day}
          /\ acct'.history[day] = x.w.cash /\ acct'.cash = x.w.cash
      BY <2>4, <2>6 DEF HistoryWith
    <3>3. \A d \in DOMAIN acct'.history : d \in Nat /\ d <= day
      BY <2>3, <3>1, <3>2
    <3>4. HistoryTracksCash'
      <4> SUFFICES ASSUME NEW d \in DOMAIN acct'.history,
                          \A other \in DOMAIN acct'.history : other <= d
                   PROVE  acct'.history[d] = acct'.cash
        BY DEF HistoryTracksCash, Alone!HistoryTracksCash
      <4>1. d = day
        BY <2>3, <3>2, <3>3
      <4> QED
        BY <3>2, <4>1
    <3>5. ASSUME NEW q \in Requests, IsOpen(q)', txn'[q].w.cash # Null
          PROVE  CashOvertaken(txn[q])'
      <4>1. q # p /\ IsOpen(q)
        BY <2>2, <3>5 DEF IsOpen, Idle
      <4>2. CashKey \in Dooming(x.w, day)
        BY <2>6 DEF Dooming, Written, CashKey
      <4>3. CashKey \in txn[q].seen => CashKey \in txn'[q].stale
        BY <2>1, <4>1, <4>2
      <4> QED
        BY <2>2, <2>6, <3>2, <3>5, <4>1, <4>3 DEF CashOvertaken
    <3>6. \A d \in DOMAIN acct'.history : d \in Nat /\ d <= session'
      BY <1>0, <2>2, <2>3, <3>3
    <3> QED
      BY <3>4, <3>5, <3>6 DEF HistoryInv
  <2> QED
    BY <2>5, <2>6
<1>4. ASSUME NEW p \in Requests, Rollback(p) PROVE HistoryInv'
  <2>1. txn'[p] = Idle /\ \A q \in Requests \ {p} : txn'[q] = txn[q]
    BY <1>4 DEF Rollback, Shaped
  <2> QED
    BY <1>1, <1>4, <2>1 DEF Rollback, IsOpen, Idle
<1>5. ASSUME NEW p \in Requests, NEW amount \in CashAmounts, GuardCash(p, amount)
      PROVE HistoryInv'
  <2>1. txn'[p] = Guarded(amount) /\ \A q \in Requests \ {p} : txn'[q] = txn[q]
    BY <1>5 DEF GuardCash, Shaped
  <2> QED
    BY <1>1, <1>5, <2>1 DEF GuardCash, IsOpen, Guarded
<1>6. ASSUME NEW p \in Requests, BeginCash(p) PROVE HistoryInv'
  <2>1. txn[p].day = session
    BY <1>6 DEF Clocked, Dated, BeginCash
  <2>2. PICK w : Start(p, w, <<txn[p].day, session>>)
    BY <1>6 DEF BeginCash
  <2>3. txn'[p].from = session /\ \A q \in Requests \ {p} : txn'[q] = txn[q]
    BY <2>1, <2>2, Started
  <2> QED
    BY <1>1, <1>6, <2>3 DEF BeginCash
<1>7. ASSUME SessionClose PROVE HistoryInv'
  <2>1. acct' = acct /\ txn' = txn /\ session' = session + 1
    BY <1>7 DEF SessionClose
  <2>2. \A d \in DOMAIN acct'.history : d \in Nat /\ d <= session'
    BY <1>0, <2>1 DEF HistoryInv
  <2> QED
    BY <2>1, <2>2 DEF HistoryInv, HistoryTracksCash, Alone!HistoryTracksCash, IsOpen, CashOvertaken
<1>8. CASE UNCHANGED vars
  BY <1>8 DEF vars, HistoryInv, HistoryTracksCash, Alone!HistoryTracksCash, IsOpen, CashOvertaken
<1> QED
  BY <1>2, <1>3, <1>4, <1>5, <1>6, <1>7, <1>8, Steps

\* Threads begin idle.
LEMMA ThreadsBegin ==
    ASSUME ScenarioInit
    PROVE  Shaped /\ Clocked
<1>1. txn = [p \in Requests |-> Idle] /\ session \in Nat
  BY BoundsAssumption DEF ScenarioInit, Init, Days
<1>2. Slot(Idle) /\ Dated(Idle)
  BY DEF Slot, Dated, Idle
<1> QED
  BY <1>1, <1>2 DEF Shaped, Clocked

\* The latest row of the cash history is the balance, whichever concurrent requests
\* project it or commit after a session closed, under snapshot isolation: of two that
\* write the balance, the one that read it first fails.  No row is of a later session
\* than the current one.  The balance is typed only in the scenario "ledger", where no
\* session closes.
THEOREM HistoryShowsTheBalance ==
    ASSUME SnapshotIsolation, Scenarios \subseteq {"given", "ledger"}
    PROVE  ScenarioSpec => [](HistoryTracksCash /\ HistoryIsPast)
<1> DEFINE Inv == scenario \in {"given", "ledger"} /\ Shaped /\ Clocked /\ HistoryInv
<1>1. ScenarioInit => Inv
  <2> SUFFICES ASSUME ScenarioInit PROVE Inv
    OBVIOUS
  <2>1. scenario \in {"given", "ledger"} /\ Shaped /\ Clocked
    BY ThreadsBegin DEF ScenarioInit
  <2>2. /\ acct \in InitialAccounts /\ txn = [p \in Requests |-> Idle]
        /\ \A d \in DOMAIN acct.history : d <= session
    BY DEF ScenarioInit, Init
  <2>3. \A d \in DOMAIN acct.history : d \in Nat
    <3>1. acct.history \in CashRows
      BY <2>2, ConcurrencyAssumption DEF Account
    <3>2. DOMAIN acct.history \subseteq Days
      BY <3>1 DEF CashRows
    <3> QED
      BY <3>2, BoundsAssumption DEF Days
  <2>4. HistoryTracksCash
    BY <2>2, ConcurrencyAssumption DEF HistoryTracksCash, Alone!HistoryTracksCash
  <2>5. \A p \in Requests : ~IsOpen(p)
    BY <2>2 DEF IsOpen, Idle
  <2> QED
    BY <2>1, <2>2, <2>3, <2>4, <2>5 DEF HistoryInv
<1>2. Inv /\ [ScenarioNext]_<<scenario, vars>> => Inv'
  BY ShapeHolds, ClockHolds, HistoryHolds, Steps
<1>3. Inv => HistoryTracksCash /\ HistoryIsPast
  BY DEF HistoryInv, HistoryIsPast
<1> QED
  BY <1>1, <1>2, <1>3, PTL DEF ScenarioSpec

-----------------------------------------------------------------------------
(* The writes of a request that edits the ledger.                          *)

LedgerEdit(add, erase) ==
    [add |-> add, erase |-> erase, put |-> <<>>, drop |-> {}, cash |-> Null]

\* The writes with the projection of the ledger they leave behind.
ProjectedEdit(a, add, erase) ==
    LET calc == Calculation(LedgerWith(a, LedgerEdit(add, erase)))
        put  == [t \in DOMAIN calc.positions |-> ProjectedHolding(a, t, calc.positions[t])]
    IN  [add |-> add, erase |-> erase, put |-> put,
         drop |-> DOMAIN a.holdings \ DOMAIN put, cash |-> calc.cash]

\* An edit of the ledger that may commit is the edit alone where nothing manages the
\* ledger it leaves, and has the projection of that ledger where something does.
Edited(a, w, add, erase) ==
    /\ Storable(w) /\ w.add = add /\ w.erase = erase
    /\ ~Managed(LedgerWith(a, w)) => w = LedgerEdit(add, erase)
    /\ Managed(LedgerWith(a, w)) =>
         LET calc == Calculation(LedgerWith(a, w))
         IN  /\ Valid(calc) /\ calc.cash \in Nat /\ w.cash = calc.cash
             /\ DOMAIN w.put = DOMAIN calc.positions
             /\ w.drop = DOMAIN a.holdings \ DOMAIN calc.positions
             /\ \A t \in DOMAIN w.put : w.put[t] = ProjectedHolding(a, t, calc.positions[t])

LEMMA EditsAreEdited ==
    ASSUME NEW a, NEW add, NEW erase,
           NEW w \in Committable(SynchronizeIfManaged(a, LedgerEdit(add, erase)))
    PROVE  Edited(a, w, add, erase)
<1> DEFINE w0    == LedgerEdit(add, erase)
           after == LedgerWith(a, w0)
<1>1. w \in SynchronizeIfManaged(a, w0) /\ Storable(w)
  BY DEF Committable
<1>2. CASE ~Managed(after)
  <2>1. w = w0
    BY <1>1, <1>2 DEF SynchronizeIfManaged
  <2> QED
    BY <1>1, <1>2, <2>1 DEF Edited, LedgerEdit
<1>3. CASE Managed(after)
  <2>1. w \in Projection(a, w0)
    BY <1>1, <1>3 DEF SynchronizeIfManaged
  <2>2. /\ Valid(Calculation(after)) /\ Calculation(after).cash \in Nat
        /\ w = ProjectedEdit(a, add, erase)
    BY <2>1 DEF Projection, ProjectedEdit, LedgerEdit
  <2>3. /\ w.add = add /\ w.erase = erase /\ w.cash = Calculation(after).cash
        /\ DOMAIN w.put = DOMAIN Calculation(after).positions
        /\ w.drop = DOMAIN a.holdings \ DOMAIN Calculation(after).positions
        /\ \A t \in DOMAIN w.put :
             w.put[t] = ProjectedHolding(a, t, Calculation(after).positions[t])
    BY <2>2 DEF ProjectedEdit
  <2>4. LedgerWith(a, w) = after
    BY <2>3 DEF LedgerWith, LedgerEdit
  <2> QED
    BY <1>1, <1>3, <2>2, <2>3, <2>4 DEF Edited
<1> QED
  BY <1>2, <1>3

\* The edits are the writes of PortfolioStore, which are built with EXCEPT.
LEMMA EditsOfNothing ==
    ASSUME NEW w, NEW add, NEW erase
    PROVE  /\ w = [NoWrites EXCEPT !.add = add] => w = LedgerEdit(add, {})
           /\ w = [NoWrites EXCEPT !.erase = erase] => w = LedgerEdit({}, erase)
BY DEF NoWrites, LedgerEdit

\* What Create commits,
LEMMA CreateEffect ==
    ASSUME NEW a, NEW r, NEW id, NEW day, NEW w \in CreateWrites(a, r, id, day)
    PROVE  Edited(a, w, {NewEntry(r, id)}, {})
<1>2. [NoWrites EXCEPT !.add = {NewEntry(r, id)}] = LedgerEdit({NewEntry(r, id)}, {})
  BY EditsOfNothing, Zenon
<1>3. w \in Committable(SynchronizeIfManaged(a, LedgerEdit({NewEntry(r, id)}, {})))
  BY <1>2, Zenon DEF CreateWrites
<1> QED
  BY <1>3, EditsAreEdited

\* what Delete commits,
LEMMA DeleteEffect ==
    ASSUME NEW a, NEW id, NEW w \in DeleteWrites(a, id)
    PROVE  (\E e \in a.ledger : e.id = id) /\ Edited(a, w, {}, {id})
<1>2. [NoWrites EXCEPT !.erase = {id}] = LedgerEdit({}, {id})
  BY EditsOfNothing, Zenon
<1>3. /\ \E e \in a.ledger : e.id = id
      /\ w \in Committable(SynchronizeIfManaged(a, LedgerEdit({}, {id})))
  BY <1>2, Zenon DEF DeleteWrites
<1> QED
  BY <1>3, EditsAreEdited

\* and which deletions leave a ledger that nothing manages.
LEMMA DeleteAlone ==
    ASSUME NEW a, NEW id, NEW w, w = LedgerEdit({}, {id}), Storable(w),
           \E e \in a.ledger : e.id = id, ~Managed(LedgerWith(a, w))
    PROVE  w \in DeleteWrites(a, id)
<1>2. [NoWrites EXCEPT !.erase = {id}] = w
  BY EditsOfNothing, Zenon
<1>3. SynchronizeIfManaged(a, w) = {w}
  BY DEF SynchronizeIfManaged
<1>4. w \in Committable(SynchronizeIfManaged(a, [NoWrites EXCEPT !.erase = {id}]))
  BY <1>2, <1>3 DEF Committable
<1> QED
  BY <1>4, Zenon DEF DeleteWrites

\* A write of one holding's target weight.
WeightEdit(a, t, weight) ==
    [add |-> {}, erase |-> {},
     put |-> [u \in {t} |-> [qty |-> a.holdings[t].qty, avg |-> a.holdings[t].avg,
                             weight |-> weight]],
     drop |-> {}, cash |-> Null]

\* What UpdateTargetWeight commits: one holding, but for the weight as it was.
LEMMA WeightEffect ==
    ASSUME NEW a, NEW t, NEW weight, NEW w
    PROVE  w \in UpdateTargetWeightWrites(a, t, weight)
             <=> t \in DOMAIN a.holdings /\ w = WeightEdit(a, t, weight) /\ Storable(w)
<1>1. ASSUME NEW put, NEW v, v = [NoWrites EXCEPT !.put = put]
      PROVE  v = [add |-> {}, erase |-> {}, put |-> put, drop |-> {}, cash |-> Null]
  BY <1>1 DEF NoWrites
<1>2. PutHolding(t, a.holdings[t].qty, a.holdings[t].avg, weight) = WeightEdit(a, t, weight)
  BY <1>1, Zenon DEF PutHolding, WeightEdit
<1> QED
  BY <1>2 DEF UpdateTargetWeightWrites, Committable

-----------------------------------------------------------------------------
(* The account that the ledger manages. A transaction on it will fail, or  *)
(* what it writes is what its request would write to the rows as they are: *)
(* it projects and no row it projects has changed, it sets the weight of a *)
(* row that has not changed, or it deletes the last opening entry, which   *)
(* writes nothing else.                                                    *)

HoldingKey(t) == <<"holding", t>>

Overtaken(x) == CashOvertaken(x) \/ Written(x.w, session) \cap x.stale # {}

Projecting(x) ==
    /\ \/ \E r \in EntryRequests, id \in 1..MaxId :
            NewEntry(r, id) \in x.w.add /\ x.w \in CreateWrites(acct, r, id, today)
       \/ \E id \in 1..MaxId : x.w \in DeleteWrites(acct, id)
    /\ x.w.cash # Null
    /\ \A t \in DOMAIN acct.holdings : HoldingKey(t) \in x.seen \cap Written(x.w, session)

Releasing(x) ==
    \E id \in 1..MaxId : x.w \in DeleteWrites(acct, id) /\ ~Managed(LedgerWith(acct, x.w))

Weighing(x) ==
    \E t \in Tickers, weight \in Weights :
        x.w \in UpdateTargetWeightWrites(acct, t, weight) /\ HoldingKey(t) \in x.seen

InTime(x) ==
    Overtaken(x) \/ ~Managed(acct.ledger) \/ Projecting(x) \/ Releasing(x) \/ Weighing(x)

\* No two rows of the ledger get one id, whenever they are committed.
IdsApart ==
    /\ nextId \in Nat \ {0}
    /\ \A e \in acct.ledger : e.id \in Nat /\ e.id < nextId
    /\ \A p \in Requests : IsOpen(p) => \A e \in txn[p].w.add :
         /\ e.id \in Nat /\ e.id < nextId
         /\ \A f \in acct.ledger : f.id # e.id
         /\ \A q \in Requests \ {p} : IsOpen(q) => \A f \in txn[q].w.add : f.id # e.id

\* What no request adds is an opening entry, so that an account the ledger has ceased
\* to manage stays so, and only then a balance is typed.
LedgerInv ==
    /\ IdsApart
    /\ \A p \in Requests :
         /\ txn[p].stage = "guarded" => ~Managed(acct.ledger)
         /\ IsOpen(p) => InTime(txn[p]) /\ \A e \in txn[p].w.add : e.source = "MANUAL"

\* A transaction that a row it writes was taken from fails.
LEMMA OvertakenConflicts ==
    ASSUME NEW x, Overtaken(x)
    PROVE  Conflict(x, session)
BY OvertakenFails DEF Overtaken, Conflict

\* A ledger with the writes has the rows that stay and those that are added.
LEMMA LedgerApplied ==
    ASSUME NEW a, NEW w, NEW day
    PROVE  /\ Apply(a, w, day).ledger = LedgerWith(a, w)
           /\ Apply(a, w, day).holdings = HoldingsWith(a, w)
           /\ Apply(a, w, day).cash = IF w.cash = Null THEN a.cash ELSE w.cash
           /\ \A e : e \in LedgerWith(a, w) <=> (e \in a.ledger /\ e.id \notin w.erase) \/ e \in w.add
BY DEF Apply, LedgerWith

\* Requests of a managed account begin in time: a new entry projects, ...
LEMMA CreateInTime ==
    ASSUME Managed(acct.ledger), NEW r \in EntryRequests, NEW id \in 1..MaxId, NEW x,
           x.w \in CreateWrites(acct, r, id, today), x.seen = RowKeys(acct)
    PROVE  Projecting(x)
<1>1. Edited(acct, x.w, {NewEntry(r, id)}, {})
  BY CreateEffect
<1>2. Managed(LedgerWith(acct, x.w))
  BY <1>1 DEF Edited, LedgerWith, Managed
<1>3. x.w.cash # Null /\ DOMAIN acct.holdings \subseteq DOMAIN x.w.put \cup x.w.drop
  BY <1>1, <1>2, BoundsAssumption DEF Edited
<1>4. \A t \in DOMAIN acct.holdings : HoldingKey(t) \in x.seen \cap Written(x.w, session)
  BY <1>3 DEF RowKeys, Written, Removed, HoldingKey
<1> QED
  BY <1>1, <1>3, <1>4 DEF Projecting, Edited

\* ... so does a deletion that leaves an opening entry, ...
LEMMA DeleteInTime ==
    ASSUME NEW id \in 1..MaxId, NEW x, x.w \in DeleteWrites(acct, id), x.seen = RowKeys(acct)
    PROVE  Projecting(x) \/ Releasing(x)
<1>1. Edited(acct, x.w, {}, {id})
  BY DeleteEffect
<1>2. CASE Managed(LedgerWith(acct, x.w))
  <2>1. x.w.cash # Null /\ DOMAIN acct.holdings \subseteq DOMAIN x.w.put \cup x.w.drop
    BY <1>1, <1>2, BoundsAssumption DEF Edited
  <2>2. \A t \in DOMAIN acct.holdings : HoldingKey(t) \in x.seen \cap Written(x.w, session)
    BY <2>1 DEF RowKeys, Written, Removed, HoldingKey
  <2> QED
    BY <2>1, <2>2 DEF Projecting
<1> QED
  BY <1>2 DEF Releasing

\* ... and of the writes of holdings only that of a weight is left.
LEMMA HoldingWriteInTime ==
    ASSUME Managed(acct.ledger), Shaped, NEW p \in Requests, BeginHoldingWrite(p)
    PROVE  \E w : Start(p, w, Now) /\ w.add = {} /\ Weighing(txn'[p])
<1>1. PICK t \in Tickers, weight \in Weights :
        \E w \in UpdateTargetWeightWrites(acct, t, weight) : Start(p, w, Now)
  BY DEF BeginHoldingWrite, AddStockWrites, RemoveStockWrites, UpdateAvgPriceWrites
<1>2. PICK w \in UpdateTargetWeightWrites(acct, t, weight) : Start(p, w, Now)
  BY <1>1
<1>3. txn'[p].w = w /\ txn'[p].seen = RowKeys(acct)
  BY <1>2, Started
<1>4. t \in DOMAIN acct.holdings /\ w.add = {}
  <2>1. t \in DOMAIN acct.holdings /\ w = WeightEdit(acct, t, weight)
    BY WeightEffect
  <2> QED
    BY <2>1 DEF WeightEdit
<1>5. HoldingKey(t) \in RowKeys(acct)
  BY <1>4 DEF RowKeys, HoldingKey
<1> QED
  BY <1>2, <1>3, <1>4, <1>5 DEF Weighing

\* One thread commits in a managed account and leaves it managed; another waits.
Passes(p, q) ==
    /\ p \in Requests /\ q \in Requests \ {p} /\ IsOpen(p) /\ IsOpen(q)
    /\ Managed(acct.ledger) /\ Managed(acct'.ledger)
    /\ acct' = Apply(acct, txn[p].w, session)
    /\ txn'[q].w = txn[q].w /\ txn'[q].seen = txn[q].seen
    /\ txn'[q].stale = txn[q].stale \cup (Written(txn[p].w, session) \cap txn[q].seen)
    /\ UNCHANGED <<today, session>>

\* Who is overtaken stays so: no row of a balance is ever deleted.
LEMMA OvertakenStays ==
    ASSUME NEW p, NEW q, Passes(p, q), Overtaken(txn[q])
    PROVE  Overtaken(txn[q])'
<1>1. acct.cash # Null => acct'.cash # Null
  BY LedgerApplied DEF Passes
<1> QED
  BY <1>1 DEF Passes, Overtaken, CashOvertaken

\* What another wrote of the rows it saw dooms it.
LEMMA SeenAndWritten ==
    ASSUME NEW p, NEW q, Passes(p, q), NEW k,
           k \in Written(txn[p].w, session), k \in Written(txn[q].w, session), k \in txn[q].seen
    PROVE  Overtaken(txn[q])'
BY DEF Passes, Overtaken

\* The deletion of the last opening entry waits as long as the entry is there.
LEMMA ReleaseStays ==
    ASSUME NEW p, NEW q, Passes(p, q), Releasing(txn[q]),
           \A e \in txn[p].w.add : e.source = "MANUAL"
    PROVE  Releasing(txn[q])'
<1> DEFINE y == txn[q].w
<1>1. PICK id \in 1..MaxId : y \in DeleteWrites(acct, id) /\ ~Managed(LedgerWith(acct, y))
  BY DEF Releasing
<1>2. y = LedgerEdit({}, {id}) /\ Storable(y) /\ y.erase = {id} /\ y.add = {}
  <2>1. Edited(acct, y, {}, {id})
    BY <1>1, DeleteEffect
  <2> QED
    BY <1>1, <2>1 DEF Edited
<1> HIDE DEF y
<1>3. acct'.ledger = LedgerWith(acct, txn[p].w)
  BY LedgerApplied DEF Passes
<1>4. \A e \in acct.ledger : e.source = "OPENING_SNAPSHOT" => e.id = id
  BY <1>1, <1>2 DEF Managed, LedgerWith
<1>5. \A e \in acct'.ledger : e.source = "OPENING_SNAPSHOT" => e.id = id
  BY <1>3, <1>4 DEF LedgerWith
<1>6. \E e \in acct'.ledger : e.id = id
  BY <1>5 DEF Passes, Managed
<1>7. ~Managed(LedgerWith(acct', y))
  BY <1>2, <1>5 DEF Managed, LedgerWith
<1>8. y \in DeleteWrites(acct', id)
  BY <1>2, <1>6, <1>7, DeleteAlone
<1>9. txn'[q].w = y
  BY DEF Passes, y
<1> QED
  BY <1>7, <1>8, <1>9 DEF Releasing

\* A projection overtakes every other, and every edit of a weight.
LEMMA ProjectionPasses ==
    ASSUME NEW p, NEW q, Passes(p, q), Projecting(txn[p]), InTime(txn[q]),
           \A e \in txn[p].w.add : e.source = "MANUAL"
    PROVE  InTime(txn[q])'
<1>1. CASE Overtaken(txn[q])
  BY <1>1, OvertakenStays DEF InTime
<1>2. CASE Projecting(txn[q])
  <2>1. acct'.cash # Null
    BY LedgerApplied DEF Passes, Projecting
  <2>2. CashKey \in Written(txn[p].w, session)
    BY DEF Projecting, Written, CashKey
  <2>3. CashKey \in txn[q].seen => CashKey \in txn'[q].stale
    BY <2>2 DEF Passes
  <2> QED
    BY <1>2, <2>1, <2>3 DEF Passes, Projecting, InTime, Overtaken, CashOvertaken
<1>3. CASE Releasing(txn[q])
  BY <1>3, ReleaseStays DEF InTime
<1>4. CASE Weighing(txn[q])
  <2>1. PICK t \in Tickers, weight \in Weights :
          /\ txn[q].w \in UpdateTargetWeightWrites(acct, t, weight)
          /\ HoldingKey(t) \in txn[q].seen
    BY <1>4 DEF Weighing
  <2>2. t \in DOMAIN acct.holdings /\ txn[q].w = WeightEdit(acct, t, weight)
    BY <2>1, WeightEffect
  <2>3. HoldingKey(t) \in Written(txn[q].w, session)
    BY <2>2 DEF WeightEdit, Written, HoldingKey
  <2>4. HoldingKey(t) \in Written(txn[p].w, session)
    BY <2>2 DEF Projecting
  <2> QED
    BY <2>1, <2>3, <2>4, SeenAndWritten DEF InTime
<1> QED
  BY <1>1, <1>2, <1>3, <1>4 DEF InTime, Passes

\* An edit of a weight overtakes the projections of the row, and the edits of its weight.
LEMMA WeightPasses ==
    ASSUME NEW p, NEW q, Passes(p, q), Weighing(txn[p]), InTime(txn[q])
    PROVE  InTime(txn[q])'
<1>0. PICK t \in Tickers, weight \in Weights :
        txn[p].w \in UpdateTargetWeightWrites(acct, t, weight)
  BY DEF Weighing
<1>1. /\ t \in DOMAIN acct.holdings
      /\ txn[p].w = WeightEdit(acct, t, weight)
  BY <1>0, WeightEffect
<1>2. /\ txn[p].w.add = {} /\ txn[p].w.erase = {} /\ txn[p].w.drop = {}
      /\ txn[p].w.cash = Null /\ DOMAIN txn[p].w.put = {t}
  BY <1>1 DEF WeightEdit
<1>3. HoldingKey(t) \in Written(txn[p].w, session)
  BY <1>2 DEF Written, HoldingKey
<1>4. /\ acct'.ledger = acct.ledger /\ DOMAIN acct'.holdings = DOMAIN acct.holdings
      /\ \A u \in DOMAIN acct.holdings \ {t} : acct'.holdings[u] = acct.holdings[u]
  <2>1. acct'.ledger = LedgerWith(acct, txn[p].w) /\ acct'.holdings = HoldingsWith(acct, txn[p].w)
    BY LedgerApplied DEF Passes
  <2> QED
    BY <1>1, <1>2, <2>1 DEF LedgerWith, HoldingsWith
<1>5. CASE Overtaken(txn[q])
  BY <1>5, OvertakenStays DEF InTime
<1>6. CASE Projecting(txn[q])
  <2>1. HoldingKey(t) \in txn[q].seen \cap Written(txn[q].w, session)
    BY <1>1, <1>6 DEF Projecting
  <2> QED
    BY <1>3, <2>1, SeenAndWritten DEF InTime
<1>7. CASE Releasing(txn[q])
  BY <1>2, <1>7, ReleaseStays DEF InTime
<1>8. CASE Weighing(txn[q])
  <2>1. PICK u \in Tickers, other \in Weights :
          /\ txn[q].w \in UpdateTargetWeightWrites(acct, u, other)
          /\ HoldingKey(u) \in txn[q].seen
    BY <1>8 DEF Weighing
  <2>2. /\ u \in DOMAIN acct.holdings /\ txn[q].w = WeightEdit(acct, u, other)
        /\ Storable(txn[q].w)
    BY <2>1, WeightEffect
  <2>3. CASE u = t
    <3>1. HoldingKey(t) \in Written(txn[q].w, session)
      BY <2>2, <2>3 DEF WeightEdit, Written, HoldingKey
    <3> QED
      BY <1>3, <2>1, <2>3, <3>1, SeenAndWritten DEF InTime
  <2>4. CASE u # t
    <3>1. u \in DOMAIN acct'.holdings /\ acct'.holdings[u] = acct.holdings[u]
      BY <1>4, <2>2, <2>4
    <3>2. WeightEdit(acct', u, other) = WeightEdit(acct, u, other)
      BY <3>1 DEF WeightEdit
    <3>3. txn[q].w \in UpdateTargetWeightWrites(acct', u, other)
      BY <2>2, <3>1, <3>2, WeightEffect
    <3> QED
      BY <2>1, <3>3 DEF Passes, InTime, Weighing
  <2> QED
    BY <2>3, <2>4
<1> QED
  BY <1>5, <1>6, <1>7, <1>8 DEF InTime, Passes

\* A commit is of the session, and of a request that is in time.
LEMMA CommitsInTime ==
    ASSUME SnapshotIsolation, scenario = "ledger", Shaped, Clocked, LedgerInv,
           NEW p \in Requests, Commit(p)
    PROVE  /\ acct' = Apply(acct, txn[p].w, session)
           /\ acct'.ledger = LedgerWith(acct, txn[p].w)
           /\ Managed(acct'.ledger) => Managed(acct.ledger)
           /\ Managed(acct'.ledger) => Projecting(txn[p]) \/ Weighing(txn[p])
           /\ \A q \in Requests \ {p} : IsOpen(q) /\ Managed(acct'.ledger) => Passes(p, q)
<1>1. PICK day \in txn[p].from..(IF txn[p].until = Null THEN session ELSE txn[p].until) :
        /\ ~Conflict(txn[p], day)
        /\ acct' = Apply(acct, txn[p].w, day)
        /\ \A q \in Requests \ {p} : IsOpen(q) =>
             txn'[q].stale = txn[q].stale \cup (Dooming(txn[p].w, day) \cap txn[q].seen)
  BY Committed
<1>2. /\ IsOpen(p) /\ UNCHANGED <<today, session>>
      /\ \A q \in Requests \ {p} : IsOpen(q) =>
           txn'[q].w = txn[q].w /\ txn'[q].seen = txn[q].seen
  BY Committed
<1>3. day = session
  <2>1. /\ txn[p].from = session /\ txn[p].until \in {Null, session} /\ session \in Nat
    BY <1>2 DEF Clocked, Dated, IsOpen
  <2>2. day \in session..session
    BY <1>1, <2>1
  <2> QED
    BY <2>1, <2>2
<1>4. acct'.ledger = LedgerWith(acct, txn[p].w)
  BY <1>1, LedgerApplied
<1>5. Managed(acct'.ledger) => Managed(acct.ledger)
  <2>1. \A e \in txn[p].w.add : e.source = "MANUAL"
    BY <1>2 DEF LedgerInv
  <2> QED
    BY <1>4, <2>1 DEF LedgerWith, Managed
<1>6. ~Overtaken(txn[p])
  BY <1>1, <1>3, OvertakenConflicts
<1>7. Managed(acct'.ledger) => Projecting(txn[p]) \/ Weighing(txn[p])
  BY <1>2, <1>4, <1>5, <1>6 DEF LedgerInv, InTime, Releasing
<1>8. ASSUME NEW q \in Requests \ {p}, IsOpen(q), Managed(acct'.ledger) PROVE Passes(p, q)
  <2>1. txn'[q].stale = txn[q].stale \cup (Written(txn[p].w, session) \cap txn[q].seen)
    BY <1>1, <1>3, <1>8 DEF Dooming
  <2> QED
    BY <1>1, <1>2, <1>3, <1>5, <1>8, <2>1 DEF Passes
<1> QED
  BY <1>1, <1>3, <1>4, <1>5, <1>7, <1>8

\* What a commit leaves of the other threads' ids, and of the ledger's.
LEMMA CommittedIds ==
    ASSUME Shaped, IdsApart, NEW p \in Requests, Commit(p)
    PROVE  IdsApart'
<1>1. /\ acct'.ledger = LedgerWith(acct, txn[p].w)
      /\ txn'[p] = Idle /\ IsOpen(p) /\ nextId' = nextId
      /\ \A q \in Requests \ {p} :
           /\ txn'[q].stage = txn[q].stage
           /\ IsOpen(q) => txn'[q].w = txn[q].w
  BY Committed, LedgerApplied
<1>2. \A e \in acct'.ledger : e \in acct.ledger \/ e \in txn[p].w.add
  BY <1>1 DEF LedgerWith
<1>3. \A e \in acct'.ledger : e.id \in Nat /\ e.id < nextId'
  BY <1>1, <1>2 DEF IdsApart
<1>4. ASSUME NEW q \in Requests, IsOpen(q)', NEW e \in txn'[q].w.add
      PROVE  /\ e.id \in Nat /\ e.id < nextId'
             /\ \A f \in acct'.ledger : f.id # e.id
             /\ \A s \in Requests \ {q} : IsOpen(s)' => \A f \in txn'[s].w.add : f.id # e.id
  <2>1. q # p /\ IsOpen(q) /\ txn'[q].w = txn[q].w
    BY <1>1, <1>4 DEF IsOpen, Idle
  <2>2. /\ e.id \in Nat /\ e.id < nextId
        /\ \A f \in acct.ledger : f.id # e.id
        /\ \A s \in Requests \ {q} : IsOpen(s) => \A f \in txn[s].w.add : f.id # e.id
    BY <1>4, <2>1 DEF IdsApart
  <2>3. \A f \in acct'.ledger : f.id # e.id
    BY <1>1, <1>2, <2>1, <2>2
  <2>4. ASSUME NEW s \in Requests \ {q}, IsOpen(s)', NEW f \in txn'[s].w.add PROVE f.id # e.id
    <3>1. s # p /\ IsOpen(s) /\ txn'[s].w = txn[s].w
      BY <1>1, <2>4 DEF IsOpen, Idle
    <3> QED
      BY <2>2, <2>4, <3>1
  <2> QED
    BY <1>1, <2>2, <2>3, <2>4
<1> QED
  BY <1>1, <1>3, <1>4 DEF IdsApart

\* A transaction that begins in time, with ids of its own, leaves the invariant.
LEMMA BeginKeeps ==
    ASSUME Shaped, LedgerInv, NEW p \in Requests, NEW w, NEW days, Start(p, w, days),
           UNCHANGED <<acct, today, session>>, nextId' \in {nextId, nextId + 1},
           InTime(txn'[p]),
           \A e \in w.add : e.source = "MANUAL" /\ e.id = nextId /\ nextId' = nextId + 1,
           \A e, f \in w.add : e = f
    PROVE  LedgerInv'
<1>1. /\ txn'[p].w = w /\ \A q \in Requests \ {p} : txn'[q] = txn[q]
  BY Started
<1>2. IdsApart'
  <2>1. nextId \in Nat \ {0} /\ nextId' \in Nat \ {0} /\ nextId <= nextId'
    BY DEF LedgerInv, IdsApart
  <2>2. \A e \in acct'.ledger : e.id \in Nat /\ e.id < nextId'
    BY <2>1 DEF LedgerInv, IdsApart
  <2>3. ASSUME NEW q \in Requests, IsOpen(q)', NEW e \in txn'[q].w.add
        PROVE  /\ e.id \in Nat /\ e.id < nextId'
               /\ \A f \in acct'.ledger : f.id # e.id
               /\ \A s \in Requests \ {q} : IsOpen(s)' => \A f \in txn'[s].w.add : f.id # e.id
    <3>1. CASE q = p
      <4>1. e.id = nextId /\ nextId' = nextId + 1
        BY <1>1, <2>3, <3>1
      <4>2. \A f \in acct.ledger : f.id # nextId
        BY <2>1 DEF LedgerInv, IdsApart
      <4>3. ASSUME NEW s \in Requests \ {q}, IsOpen(s)', NEW f \in txn'[s].w.add
            PROVE  f.id # nextId
        <5>1. txn'[s] = txn[s]
          BY <1>1, <3>1, <4>3
        <5>2. f.id \in Nat /\ f.id < nextId
          BY <4>3, <5>1 DEF LedgerInv, IdsApart, IsOpen
        <5> QED
          BY <2>1, <5>2
      <4> QED
        BY <2>1, <4>1, <4>2, <4>3
    <3>2. CASE q # p
      <4>1. txn'[q] = txn[q] /\ IsOpen(q) /\ e \in txn[q].w.add
        BY <1>1, <2>3, <3>2 DEF IsOpen
      <4>2. /\ e.id \in Nat /\ e.id < nextId
            /\ \A f \in acct.ledger : f.id # e.id
            /\ \A s \in Requests \ {q} : IsOpen(s) => \A f \in txn[s].w.add : f.id # e.id
        BY <4>1 DEF LedgerInv, IdsApart
      <4>3. ASSUME NEW s \in Requests \ {q}, IsOpen(s)', NEW f \in txn'[s].w.add
            PROVE  f.id # e.id
        <5>1. CASE s = p
          BY <1>1, <2>1, <4>2, <4>3, <5>1
        <5>2. CASE s # p
          BY <1>1, <4>2, <4>3, <5>2 DEF IsOpen
        <5> QED
          BY <5>1, <5>2
      <4> QED
        BY <2>1, <4>2, <4>3
    <3> QED
      BY <3>1, <3>2
  <2> QED
    BY <2>1, <2>2, <2>3 DEF IdsApart
<1>3. ASSUME NEW q \in Requests
      PROVE  /\ txn'[q].stage = "guarded" => ~Managed(acct'.ledger)
             /\ IsOpen(q)' => InTime(txn[q])' /\ \A e \in txn'[q].w.add : e.source = "MANUAL"
  <2>1. CASE q = p
    <3>1. txn'[p].stage = "open"
      BY Started
    <3>2. InTime(txn[p])'
      BY DEF InTime, Overtaken, CashOvertaken, Projecting, Releasing, Weighing
    <3> QED
      BY <1>1, <2>1, <3>1, <3>2
  <2>2. CASE q # p
    <3>1. txn'[q] = txn[q]
      BY <1>1, <2>2
    <3> QED
      BY <3>1 DEF LedgerInv, IsOpen, InTime, Overtaken, CashOvertaken, Projecting, Releasing,
                  Weighing
  <2> QED
    BY <2>1, <2>2
<1> QED
  BY <1>2, <1>3 DEF LedgerInv

\* Where a thread's transaction ends, or is not one yet, nothing else changes.
LEMMA QuietKeeps ==
    ASSUME LedgerInv, NEW p \in Requests, UNCHANGED <<acct, nextId, today, session>>,
           ~IsOpen(p)', txn'[p].stage = "guarded" => ~Managed(acct.ledger),
           \A q \in Requests \ {p} : txn'[q] = txn[q]
    PROVE  LedgerInv'
<1>1. IdsApart'
  BY DEF LedgerInv, IdsApart, IsOpen
<1>2. ASSUME NEW q \in Requests
      PROVE  /\ txn'[q].stage = "guarded" => ~Managed(acct'.ledger)
             /\ IsOpen(q)' => InTime(txn[q])' /\ \A e \in txn'[q].w.add : e.source = "MANUAL"
  <2>1. CASE q = p
    BY <2>1
  <2>2. CASE q # p
    <3>1. txn'[q] = txn[q]
      BY <2>2
    <3> QED
      BY <3>1 DEF LedgerInv, IsOpen, InTime, Overtaken, CashOvertaken, Projecting, Releasing,
                  Weighing
  <2> QED
    BY <2>1, <2>2
<1> QED
  BY <1>1, <1>2 DEF LedgerInv

\* The writes of a holding add no entry.
LEMMA HoldingWritesAddNothing ==
    ASSUME NEW p \in Requests, BeginHoldingWrite(p)
    PROVE  \E w : Start(p, w, Now) /\ w.add = {}
<1>1. ASSUME NEW t, NEW qty, NEW avg, NEW weight PROVE PutHolding(t, qty, avg, weight).add = {}
  BY Zenon DEF PutHolding, NoWrites
<1>2. \A t, qty, avg : \A w \in AddStockWrites(acct, t, qty, avg) : w.add = {}
  BY <1>1 DEF AddStockWrites, Committable
<1>3. \A t : \A w \in RemoveStockWrites(acct, t) : w.add = {}
  BY DEF RemoveStockWrites, NoWrites
<1>4. \A t, qty, avg : \A w \in UpdateAvgPriceWrites(acct, t, qty, avg) : w.add = {}
  BY <1>1 DEF UpdateAvgPriceWrites, Committable
<1>5. \A t, weight : \A w \in UpdateTargetWeightWrites(acct, t, weight) : w.add = {}
  BY <1>1 DEF UpdateTargetWeightWrites, Committable
<1> QED
  BY <1>2, <1>3, <1>4, <1>5 DEF BeginHoldingWrite

\* Every step of the threads of a managed account leaves each of them overtaken or in
\* time, with ids of its own.
LEMMA LedgerHolds ==
    ASSUME SnapshotIsolation, scenario = "ledger", Shaped, Clocked, LedgerInv,
           [ScenarioNext]_<<scenario, vars>>
    PROVE  LedgerInv'
<1>1. ASSUME NEW p \in Requests, NEW r \in EntryRequests, BeginCreate(p, r) PROVE LedgerInv'
  <2>1. PICK w \in CreateWrites(acct, r, nextId, today) : Start(p, w, Now)
    BY <1>1 DEF BeginCreate
  <2>2. nextId' = nextId + 1 /\ UNCHANGED <<acct, today, session>> /\ nextId \in 1..MaxId
    BY <1>1, ConcurrencyAssumption DEF BeginCreate, LedgerInv, IdsApart
  <2>3. w.add = {NewEntry(r, nextId)}
    <3>1. Edited(acct, w, {NewEntry(r, nextId)}, {})
      BY <2>1, <2>2, CreateEffect
    <3> QED
      BY <3>1 DEF Edited
  <2>4. NewEntry(r, nextId).source = "MANUAL" /\ NewEntry(r, nextId).id = nextId
    BY DEF NewEntry
  <2>5. txn'[p].w = w /\ txn'[p].seen = RowKeys(acct)
    BY <2>1, Started
  <2>6. InTime(txn'[p])
    BY <2>1, <2>2, <2>5, CreateInTime DEF InTime
  <2> QED
    BY <2>1, <2>2, <2>3, <2>4, <2>6, BeginKeeps
<1>2. ASSUME NEW p \in Requests, NEW id \in 1..MaxId, BeginDelete(p, id) PROVE LedgerInv'
  <2>1. PICK w \in DeleteWrites(acct, id) : Start(p, w, Now)
    BY <1>2 DEF BeginDelete
  <2>2. UNCHANGED <<acct, nextId, today, session>>
    BY <1>2 DEF BeginDelete
  <2>3. w.add = {}
    BY DeleteEffect DEF Edited
  <2>4. txn'[p].w = w /\ txn'[p].seen = RowKeys(acct)
    BY <2>1, Started
  <2>5. InTime(txn'[p])
    BY <2>1, <2>4, DeleteInTime DEF InTime
  <2> QED
    BY <2>1, <2>2, <2>3, <2>5, BeginKeeps
<1>3. ASSUME NEW p \in Requests, BeginHoldingWrite(p) PROVE LedgerInv'
  <2>1. UNCHANGED <<acct, nextId, today, session>>
    BY <1>3 DEF BeginHoldingWrite
  <2>2. PICK w : Start(p, w, Now) /\ w.add = {}
    BY <1>3, HoldingWritesAddNothing
  <2>3. InTime(txn'[p])
    BY <1>3, HoldingWriteInTime DEF InTime
  <2> QED
    BY <2>1, <2>2, <2>3, BeginKeeps
<1>4. ASSUME NEW p \in Requests, NEW amount \in CashAmounts, GuardCash(p, amount)
      PROVE  LedgerInv'
  <2>1. txn'[p].stage = "guarded" /\ \A q \in Requests \ {p} : txn'[q] = txn[q]
    BY <1>4 DEF GuardCash, Shaped, Guarded
  <2> QED
    BY <1>4, <2>1, QuietKeeps DEF GuardCash, IsOpen
<1>5. ASSUME NEW p \in Requests, BeginCash(p) PROVE LedgerInv'
  <2>1. PICK w \in UpdateBalanceWrites(acct, txn[p].amount) : Start(p, w, <<txn[p].day, session>>)
    BY <1>5 DEF BeginCash
  <2>2. UNCHANGED <<acct, nextId, today, session>> /\ ~Managed(acct.ledger)
    BY <1>5 DEF BeginCash, LedgerInv
  <2>3. w.add = {}
    BY DEF UpdateBalanceWrites, Committable, NoWrites
  <2> QED
    BY <2>1, <2>2, <2>3, BeginKeeps DEF InTime
<1>6. ASSUME NEW p \in Requests, Commit(p) PROVE LedgerInv'
  <2>1. /\ txn'[p] = Idle /\ IsOpen(p)
        /\ \A q \in Requests \ {p} :
             /\ txn'[q].stage = txn[q].stage
             /\ IsOpen(q) => txn'[q].w = txn[q].w
    BY <1>6, Committed
  <2>2. IdsApart'
    BY <1>6, CommittedIds DEF LedgerInv
  <2>3. /\ Managed(acct'.ledger) => Managed(acct.ledger)
        /\ Managed(acct'.ledger) => Projecting(txn[p]) \/ Weighing(txn[p])
        /\ \A q \in Requests \ {p} : IsOpen(q) /\ Managed(acct'.ledger) => Passes(p, q)
    BY <1>6, CommitsInTime
  <2>4. ASSUME NEW q \in Requests
        PROVE  /\ txn'[q].stage = "guarded" => ~Managed(acct'.ledger)
               /\ IsOpen(q)' => InTime(txn[q])' /\ \A e \in txn'[q].w.add : e.source = "MANUAL"
    <3>1. CASE q = p
      BY <2>1, <3>1 DEF IsOpen, Idle
    <3>2. CASE q # p
      <4>1. txn'[q].stage = "guarded" => ~Managed(acct'.ledger)
        BY <2>1, <2>3, <3>2 DEF LedgerInv
      <4>2. ASSUME IsOpen(q)' PROVE InTime(txn[q])'
        <5>1. IsOpen(q) /\ InTime(txn[q]) /\ \A e \in txn[p].w.add : e.source = "MANUAL"
          BY <2>1, <3>2, <4>2 DEF IsOpen, LedgerInv
        <5>2. CASE Managed(acct'.ledger)
          BY <2>3, <3>2, <5>1, <5>2, ProjectionPasses, WeightPasses
        <5>3. CASE ~Managed(acct'.ledger)
          BY <5>3 DEF InTime
        <5> QED
          BY <5>2, <5>3
      <4>3. IsOpen(q)' => \A e \in txn'[q].w.add : e.source = "MANUAL"
        BY <2>1, <3>2 DEF IsOpen, LedgerInv
      <4> QED
        BY <4>1, <4>2, <4>3
    <3> QED
      BY <3>1, <3>2
  <2> QED
    BY <2>2, <2>4 DEF LedgerInv
<1>7. ASSUME NEW p \in Requests, Rollback(p) PROVE LedgerInv'
  <2>1. txn'[p] = Idle /\ \A q \in Requests \ {p} : txn'[q] = txn[q]
    BY <1>7 DEF Rollback, Shaped
  <2> QED
    BY <1>7, <2>1, QuietKeeps DEF Rollback, IsOpen, Idle
<1>8. CASE UNCHANGED vars
  BY <1>8 DEF vars, LedgerInv, IdsApart, IsOpen, InTime, Overtaken, CashOvertaken, Projecting,
              Releasing, Weighing
<1>9. Served \/ Typed \/ UNCHANGED vars
  BY DEF ScenarioNext
<1> QED
  BY <1>1, <1>2, <1>3, <1>4, <1>5, <1>6, <1>7, <1>8, <1>9, ServedSteps DEF Typed

\* The threads begin idle, on a ledger whose ids are below the next one.
LEMMA LedgerBegins ==
    ASSUME ScenarioInit
    PROVE  LedgerInv
<1>1. /\ acct \in InitialAccounts /\ nextId = 1 + Cardinality(acct.ledger)
      /\ txn = [p \in Requests |-> Idle]
  BY DEF ScenarioInit, Init
<1>2. Cardinality(acct.ledger) \in Nat /\ \A e \in acct.ledger : e.id \in 1..Cardinality(acct.ledger)
  BY <1>1, ConcurrencyAssumption, FS_CardinalityType
<1>3. \A p \in Requests : txn[p].stage = "idle"
  BY <1>1 DEF Idle
<1> QED
  BY <1>1, <1>2, <1>3 DEF LedgerInv, IdsApart, IsOpen

\* What holds of the threads of a managed account in every state.
LedgerThreads == Shaped /\ Clocked /\ (scenario = "ledger" => LedgerInv)

\* It is inductive: the ledger's part leans on the shape of the slots and their days.
LEMMA LedgerThreadsHold ==
    ASSUME SnapshotIsolation
    PROVE  ScenarioSpec => []LedgerThreads
<1>1. ScenarioInit => LedgerThreads
  BY ThreadsBegin, LedgerBegins DEF LedgerThreads
<1>2. LedgerThreads /\ [ScenarioNext]_<<scenario, vars>> => LedgerThreads'
  BY ShapeHolds, ClockHolds, LedgerHolds, Steps DEF LedgerThreads
<1> QED
  BY <1>1, <1>2, PTL DEF ScenarioSpec

\* A request that commits in time is one that PortfolioAccount serves alone.
LEMMA CommitServesAlone ==
    ASSUME SnapshotIsolation, scenario = "ledger", LedgerThreads, NEW p \in Requests, Commit(p),
           Managed(acct'.ledger)
    PROVE  Alone!Next
<1> DEFINE w == txn[p].w
<1>1. /\ acct' = Apply(acct, w, session)
      /\ Projecting(txn[p]) \/ Weighing(txn[p])
  BY CommitsInTime DEF LedgerThreads
<1>2. IsOpen(p) /\ UNCHANGED <<today, session>>
  BY Committed DEF LedgerThreads
<1>3. Alone!Commit(w)
  BY <1>1, <1>2, SameApply DEF Alone!Commit
<1>4. ASSUME NEW r \in EntryRequests, NEW id \in 1..MaxId,
             NewEntry(r, id) \in w.add, w \in CreateWrites(acct, r, id, today)
      PROVE  Alone!Next
  <2>1. \A e \in acct.ledger : e.id # id
    <3>1. NewEntry(r, id).id = id
      BY DEF NewEntry
    <3> QED
      BY <1>2, <1>4, <3>1 DEF LedgerThreads, LedgerInv, IdsApart
  <2>2. w \in Alone!CreateWrites(acct, r, id, today)
    BY <1>4, SameWrites
  <2>3. Alone!Create(r, id)
    BY <1>3, <2>1, <2>2 DEF Alone!Create
  <2> QED
    BY <2>3 DEF Alone!Next, Alone!Ids
<1>5. ASSUME NEW id \in 1..MaxId, w \in DeleteWrites(acct, id)
      PROVE  Alone!Next
  BY <1>3, <1>5, SameWrites DEF Alone!Next, Alone!Ids, Alone!Delete
<1>6. ASSUME NEW t \in Tickers, NEW weight \in Weights,
             w \in UpdateTargetWeightWrites(acct, t, weight)
      PROVE  Alone!Next
  BY <1>3, <1>6, SameWrites DEF Alone!Next, Alone!UpdateTargetWeight
<1> QED
  BY <1>1, <1>4, <1>5, <1>6 DEF Projecting, Weighing

\* Under snapshot isolation every commit to an account that the ledger manages is one
\* a single request would have made alone on the rows it commits to, whatever the other
\* threads have read and written in between: PortfolioLedgerService and
\* PortfolioLedgerProjectionService need no lock there.
THEOREM ManagedCommitsAreSerial ==
    ASSUME SnapshotIsolation
    PROVE  ScenarioSpec => LedgerSerial
<1>1. LedgerThreads /\ [ScenarioNext]_<<scenario, vars>>
        => [scenario = "ledger" => Serial]_<<acct, today, session>>
  <2> SUFFICES ASSUME LedgerThreads, [ScenarioNext]_<<scenario, vars>>,
                      <<acct, today, session>>' # <<acct, today, session>>,
                      scenario = "ledger", Managed(acct.ledger), Managed(acct'.ledger)
               PROVE  Alone!Next
    BY DEF Serial
  <2>1. PICK p \in Requests : Commit(p)
    BY Steps DEF Begins, Rollback, GuardCash, BeginCash, vars
  <2> QED
    BY <2>1, CommitServesAlone
<1> QED
  BY <1>1, LedgerThreadsHold, PTL DEF ScenarioSpec, LedgerSerial

-----------------------------------------------------------------------------
(* What the promise carries over: holdings and cash are the projection of  *)
(* the ledger, as they are for requests that are served alone.             *)

\* This is what ManagedConsistent says of the rows.
LEMMA FollowsIsConsistent ==
    ManagedConsistent <=> (Managed(acct.ledger) => Follows(acct))
<1> DEFINE calc == Calculation(acct.ledger)
<1>1. Alone!Calculation(acct.ledger) = calc
  BY SameCalculation
<1>2. Alone!Managed(acct.ledger) = Managed(acct.ledger)
  BY Zenon DEF Managed, Alone!Managed
<1>3. Alone!Valid(calc) = Valid(calc) /\ Alone!CashOf(acct) = CashOf(acct)
  BY Zenon DEF Valid, Alone!Valid, CashOf, Alone!CashOf
<1>4. \A x : Alone!ProjectedQty(x) = ProjectedQty(x)
  BY Zenon DEF ProjectedQty, Alone!ProjectedQty, RoundHalfUp, Alone!RoundHalfUp
<1> DEFINE held == Alone!HeldQuantities(acct)
           pos  == Alone!ProjectedQuantities(calc)
<1>5. held = [t \in DOMAIN acct.holdings |-> acct.holdings[t].qty]
  BY DEF Alone!HeldQuantities
<1>6. pos = [t \in DOMAIN calc.positions |-> ProjectedQty(calc.positions[t])]
  BY <1>4 DEF Alone!ProjectedQuantities
<1>7. held = pos <=> /\ DOMAIN acct.holdings = DOMAIN calc.positions
                     /\ \A t \in DOMAIN acct.holdings :
                          acct.holdings[t].qty = ProjectedQty(calc.positions[t])
  <2> HIDE DEF held, pos, calc
  <2>1. CASE held = pos
    <3>1. DOMAIN held = DOMAIN acct.holdings /\ DOMAIN pos = DOMAIN calc.positions
      BY <1>5, <1>6
    <3>2. \A t \in DOMAIN acct.holdings : held[t] = acct.holdings[t].qty
      BY <1>5
    <3>3. \A t \in DOMAIN calc.positions : pos[t] = ProjectedQty(calc.positions[t])
      BY <1>6
    <3> QED
      BY <2>1, <3>1, <3>2, <3>3
  <2>2. CASE held # pos
    BY <1>5, <1>6, <2>2
  <2> QED
    BY <2>1, <2>2
<1> QED
  BY <1>1, <1>2, <1>3, <1>7 DEF ManagedConsistent, Alone!ManagedConsistent, Follows

\* An edit of the ledger leaves the projection of the ledger it leaves.
LEMMA EditFollows ==
    ASSUME NEW w, NEW add, NEW erase, Edited(acct, w, add, erase),
           acct' = Apply(acct, w, session), Managed(acct'.ledger)
    PROVE  Follows(acct)'
<1> DEFINE calc == Calculation(LedgerWith(acct, w))
<1>1. /\ acct'.ledger = LedgerWith(acct, w)
      /\ acct'.holdings = HoldingsWith(acct, w)
      /\ acct'.cash = IF w.cash = Null THEN acct.cash ELSE w.cash
  BY LedgerApplied
<1>2. /\ Valid(calc) /\ calc.cash \in Nat /\ w.cash = calc.cash
      /\ DOMAIN w.put = DOMAIN calc.positions
      /\ w.drop = DOMAIN acct.holdings \ DOMAIN calc.positions
      /\ \A t \in DOMAIN w.put : w.put[t] = ProjectedHolding(acct, t, calc.positions[t])
  BY <1>1 DEF Edited
<1> HIDE DEF calc
<1>3. DOMAIN acct'.holdings = DOMAIN calc.positions
  BY <1>1, <1>2 DEF HoldingsWith
<1>4. \A t \in DOMAIN acct'.holdings : acct'.holdings[t] = w.put[t]
  BY <1>1, <1>2, <1>3 DEF HoldingsWith
<1>5. \A t, position : ProjectedHolding(acct, t, position).qty = ProjectedQty(position)
  BY Zenon DEF ProjectedHolding
<1>6. acct'.cash = calc.cash /\ CashOf(acct') = calc.cash
  BY <1>1, <1>2, BoundsAssumption DEF CashOf
<1> QED
  BY <1>1, <1>2, <1>3, <1>4, <1>5, <1>6 DEF Follows, calc

\* An edit of a weight leaves ledger, quantities and cash.
LEMMA WeightFollows ==
    ASSUME NEW t, NEW weight, NEW w \in UpdateTargetWeightWrites(acct, t, weight),
           acct' = Apply(acct, w, session), Follows(acct)
    PROVE  Follows(acct)'
<1>1. /\ acct'.ledger = LedgerWith(acct, w)
      /\ acct'.holdings = HoldingsWith(acct, w)
      /\ acct'.cash = IF w.cash = Null THEN acct.cash ELSE w.cash
  BY LedgerApplied
<1>2. t \in DOMAIN acct.holdings /\ w = WeightEdit(acct, t, weight)
  BY WeightEffect
<1>3. /\ w.add = {} /\ w.erase = {} /\ w.drop = {} /\ w.cash = Null
      /\ DOMAIN w.put = {t} /\ w.put[t].qty = acct.holdings[t].qty
  BY <1>2 DEF WeightEdit
<1>4. acct'.ledger = acct.ledger /\ acct'.cash = acct.cash
  BY <1>1, <1>3 DEF LedgerWith
<1>5. /\ DOMAIN acct'.holdings = DOMAIN acct.holdings
      /\ \A u \in DOMAIN acct.holdings : acct'.holdings[u].qty = acct.holdings[u].qty
  BY <1>1, <1>2, <1>3 DEF HoldingsWith
<1> QED
  BY <1>4, <1>5 DEF Follows, CashOf

\* However the requests of a managed account interleave, a ledger that manages it
\* replays without error to a balance that is not negative, and holdings and cash are
\* its projection: what PortfolioAccount promises of one request at a time holds of the
\* transactions under snapshot isolation. The run of the race shows what is lost when an
\* import meets the edits of an account that the ledger does not manage yet.
THEOREM ManagedAccountsStayConsistent ==
    ASSUME SnapshotIsolation
    PROVE  ScenarioSpec => [](scenario = "ledger" => ManagedConsistent)
<1> DEFINE Inv == scenario = "ledger" /\ Managed(acct.ledger) => Follows(acct)
<1>1. ScenarioInit => Inv
  BY AccountsAssumption DEF ScenarioInit, Init
<1>2. LedgerThreads /\ Inv /\ [ScenarioNext]_<<scenario, vars>> => Inv'
  <2> SUFFICES ASSUME LedgerThreads, Inv, [ScenarioNext]_<<scenario, vars>>,
                      scenario' = "ledger", Managed(acct'.ledger)
               PROVE  Follows(acct)'
    OBVIOUS
  <2>1. scenario = "ledger"
    BY Steps
  <2>2. ASSUME NEW p \in Requests, Commit(p) PROVE Follows(acct)'
    <3>1. /\ acct' = Apply(acct, txn[p].w, session) /\ Managed(acct.ledger)
          /\ Projecting(txn[p]) \/ Weighing(txn[p])
      BY <2>1, <2>2, CommitsInTime DEF LedgerThreads
    <3>2. CASE Projecting(txn[p])
      <4>1. \E add, erase : Edited(acct, txn[p].w, add, erase)
        BY <3>2, CreateEffect, DeleteEffect DEF Projecting
      <4> QED
        BY <3>1, <4>1, EditFollows
    <3>3. CASE Weighing(txn[p])
      BY <2>1, <3>1, <3>3, WeightFollows DEF Weighing
    <3> QED
      BY <3>1, <3>2, <3>3
  <2>3. CASE UNCHANGED acct
    BY <2>1, <2>3 DEF Follows, CashOf
  <2> QED
    BY <2>2, <2>3, Steps DEF Begins, Rollback, GuardCash, BeginCash, SessionClose, vars
<1>3. Inv => (scenario = "ledger" => ManagedConsistent)
  BY FollowsIsConsistent
<1> QED
  BY <1>1, <1>2, <1>3, LedgerThreadsHold, PTL DEF ScenarioSpec

==============================================================================
