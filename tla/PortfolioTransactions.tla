------------------------ MODULE PortfolioTransactions -----------------------
(***************************************************************************)
(* The transactions of concurrent requests of one user.  Spring runs each  *)
(* @Transactional method in an InnoDB transaction of the default level,    *)
(* REPEATABLE READ: all reads see the rows as of the first one, and the    *)
(* writes reach the table when they are flushed.  No entity has a version  *)
(* column, and Hibernate writes every column of a changed row.             *)
(*                                                                         *)
(* A transaction is two steps here, the snapshot with the decision and the *)
(* commit.  A flush that meets the row of another transaction waits for it *)
(* to end, so the writes of one transaction are one step.  It fails when   *)
(* it inserts a key that exists by then, or updates or deletes a row that  *)
(* is gone (Hibernate counts the rows); with innodb_snapshot_isolation it  *)
(* also fails when the row was changed since the snapshot.  MariaDB turned *)
(* that option on by default in 11.6.2; the repository names no version.   *)
(***************************************************************************)
EXTENDS PortfolioStore

CONSTANTS Requests,           \* concurrent request threads
          InitialAccounts,    \* the rows the threads start from
          EntryRequests, ManualRows, CashAmounts,
          SnapshotIsolation,  \* innodb_snapshot_isolation
          MaxId

\* The threads find an account as its columns, its ids and the calls before them
\* leave it: the latest row of the history is the balance.
ASSUME ConcurrencyAssumption ==
    /\ InitialAccounts \subseteq Account
    /\ \A a \in InitialAccounts :
         /\ IsFiniteSet(a.ledger) /\ \A e \in a.ledger : e.id \in 1..Cardinality(a.ledger)
         /\ \A e, f \in a.ledger : e.id = f.id => e = f
         /\ \A d \in DOMAIN a.history :
              (\A other \in DOMAIN a.history : other <= d) => a.history[d] = a.cash
    /\ SnapshotIsolation \in BOOLEAN
    /\ MaxId \in Nat

VARIABLES acct,     \* the committed rows
          nextId,   \* AUTO_INCREMENT of the ledger
          today, session,
          txn       \* the transaction of each thread

vars == <<acct, nextId, today, session, txn>>

Idle == [stage |-> "idle"]

\* A cash update whose guard has passed, in a transaction of its own.
Guarded(amount) == [stage |-> "guarded", amount |-> amount, day |-> session]

-----------------------------------------------------------------------------
(* Rows by key: what a snapshot saw of them and what happened since. *)

RowKeys(a) ==
    {<<"holding", t>> : t \in DOMAIN a.holdings} \cup
    {<<"history", d>> : d \in DOMAIN a.history} \cup
    {<<"entry", e.id>> : e \in a.ledger} \cup
    {k \in {<<"cash", 0>>} : a.cash # Null}

Removed(w) ==
    {<<"entry", id>> : id \in w.erase} \cup {<<"holding", t>> : t \in w.drop}

\* Mutant: writes of holdings do not meet.
WrittenApart(w, day) ==
    Removed(w) \cup {k \in {<<"cash", 0>>, <<"history", day>>} : w.cash # Null}

Written(w, day) ==
    Removed(w) \cup {<<"holding", t>> : t \in DOMAIN w.put} \cup
    {k \in {<<"cash", 0>>, <<"history", day>>} : w.cash # Null}

\* The rows whose change by one transaction dooms another that writes them.
Dooming(w, day) == IF SnapshotIsolation THEN Written(w, day) ELSE Removed(w)

Conflict(x, day) ==
    LET keys == Written(x.w, day)
    IN  \/ keys \cap x.stale # {}
        \/ \E k \in keys : k \notin x.seen /\ k \in RowKeys(acct)

\* The history row a transaction writes is of a session that is current between
\* the two given ones, or from the first one to the commit if the last is Null.
Open(w, days) ==
    [stage |-> "open", w |-> w, from |-> days[1], until |-> days[2],
     seen |-> RowKeys(acct), stale |-> {}]

-----------------------------------------------------------------------------
Init ==
    /\ acct \in InitialAccounts
    /\ nextId = 1 + Cardinality(acct.ledger)
    /\ today = MaxDay
    /\ session \in Days /\ \A d \in DOMAIN acct.history : d <= session
    /\ txn = [p \in Requests |-> Idle]

Start(p, w, days) == txn' = [txn EXCEPT ![p] = Open(w, days)]

Now == <<session, Null>>

\* The insert comes before the first read, so the id is taken first.
BeginCreate(p, r) ==
    /\ txn[p] = Idle
    /\ nextId <= MaxId
    /\ \E w \in CreateWrites(acct, r, nextId, today) : Start(p, w, Now)
    /\ nextId' = nextId + 1
    /\ UNCHANGED <<acct, today, session>>

BeginDelete(p, id) ==
    /\ txn[p] = Idle
    /\ \E w \in DeleteWrites(acct, id) : Start(p, w, Now)
    /\ UNCHANGED <<acct, nextId, today, session>>

BeginImport(p, day) ==
    /\ txn[p] = Idle
    /\ nextId + Cardinality(Tickers) <= MaxId
    /\ \E w \in ImportWrites(acct, day, nextId, today) : Start(p, w, Now)
    /\ nextId' = nextId + Cardinality(Tickers) + 1
    /\ UNCHANGED <<acct, today, session>>

BeginHoldingWrite(p) ==
    /\ txn[p] = Idle
    /\ \E t \in Tickers :
         \/ \E m \in ManualRows :
              \E w \in AddStockWrites(acct, t, m.qty, m.avg) : Start(p, w, Now)
         \/ \E w \in RemoveStockWrites(acct, t) : Start(p, w, Now)
         \/ \E m \in {row \in ManualRows : row.qty # Null /\ row.avg # Null} :
              \E w \in UpdateAvgPriceWrites(acct, t, m.qty, m.avg) : Start(p, w, Now)
         \/ \E weight \in Weights :
              \E w \in UpdateTargetWeightWrites(acct, t, weight) : Start(p, w, Now)
    /\ UNCHANGED <<acct, nextId, today, session>>

\* updateCashBalance is not transactional: the guard and the update each run in
\* a transaction, and updateBalance reads the session before the rows.
GuardCash(p, amount) ==
    /\ txn[p] = Idle
    /\ ~Managed(acct.ledger)
    /\ txn' = [txn EXCEPT ![p] = Guarded(amount)]
    /\ UNCHANGED <<acct, nextId, today, session>>

BeginCash(p) ==
    /\ txn[p].stage = "guarded"
    /\ \E w \in UpdateBalanceWrites(acct, txn[p].amount) :
         Start(p, w, <<txn[p].day, session>>)
    /\ UNCHANGED <<acct, nextId, today, session>>

Commit(p) ==
    /\ txn[p].stage = "open"
    /\ \E day \in txn[p].from..(IF txn[p].until = Null THEN session ELSE txn[p].until) :
         /\ ~Conflict(txn[p], day)
         /\ acct' = Apply(acct, txn[p].w, day)
         /\ txn' = [q \in Requests |->
                      IF q = p THEN Idle
                      ELSE IF txn[q].stage = "open"
                           THEN [txn[q] EXCEPT !.stale =
                                    @ \cup (Dooming(txn[p].w, day) \cap txn[q].seen)]
                           ELSE txn[q]]
    /\ UNCHANGED <<nextId, today, session>>

\* A conflict, a deadlock, a lost connection: nothing of it is stored.
Rollback(p) ==
    /\ txn[p] # Idle
    /\ txn' = [txn EXCEPT ![p] = Idle]
    /\ UNCHANGED <<acct, nextId, today, session>>

SessionClose ==
    /\ session < today
    /\ session' = session + 1
    /\ UNCHANGED <<acct, nextId, today, txn>>

\* Requests that the ledger and the holdings serve, and how they end; balances that are
\* typed; and opening snapshots.
Served ==
    \E p \in Requests :
        \/ \E r \in EntryRequests : BeginCreate(p, r)
        \/ \E id \in 1..MaxId : BeginDelete(p, id)
        \/ BeginHoldingWrite(p)
        \/ Commit(p)
        \/ Rollback(p)

Typed == \E p \in Requests : (\E amount \in CashAmounts : GuardCash(p, amount)) \/ BeginCash(p)

Imported == \E p \in Requests, day \in Days : BeginImport(p, day)

Next == Served \/ Typed \/ Imported \/ SessionClose

Spec == Init /\ [][Next]_vars

-----------------------------------------------------------------------------
\* A thread is idle, between the two transactions of a cash update, or in a
\* transaction whose writes fit the columns.
TypeOK ==
    /\ acct \in Account
    /\ nextId \in 1..(MaxId + 1)
    /\ session \in 1..today
    /\ \A p \in Requests :
         CASE txn[p].stage = "idle"    -> txn[p] = Idle
           [] txn[p].stage = "guarded" -> txn[p].amount \in Money /\ txn[p].day \in Days
           [] txn[p].stage = "open"    -> Storable(txn[p].w) /\ txn[p].from \in Days

\* The promise: one request at a time, on the rows as they are.
Alone == INSTANCE PortfolioAccount

Serial == Managed(acct.ledger) /\ Managed(acct'.ledger) => Alone!Next

\* While the ledger manages the account, every commit is what one request would
\* have done alone on the rows it commits to: the transactions implement
\* PortfolioAccount there.  (A projection may still commit after the last opening
\* entry is deleted; it is then the later of the two that took effect first.)
SerialWhileManaged == [][Serial]_<<acct, today, session>>

\* See PortfolioAccount: these are the same promises, here of the rows that
\* concurrent transactions commit.
ManagedConsistent == Alone!ManagedConsistent
OpeningOnce       == Alone!OpeningOnce
HistoryTracksCash == Alone!HistoryTracksCash
WeightsSurvive    == Alone!WeightsSurvive

=============================================================================
