------------------------ MODULE EvidenceArchiveProofs ------------------------
(***************************************************************************)
(* The evidence archive for any tickers, horizons, length of a week and of *)
(* a frame, number of sessions, actions and killed runs: nothing written   *)
(* is rewritten, every outcome has its source, and a pass ends in a        *)
(* conflict only over prices that were re-based or are no longer there.    *)
(*                                                                         *)
(* The inductive invariant says of a confirmed outcome where its window    *)
(* began, and that its rows were unadjusted unless the ticker had an       *)
(* action since: what a later pass over the same rows must find again.     *)
(***************************************************************************)
EXTENDS EvidenceArchive, FiniteSetTheorems, TLAPS

\* The session after the last one the score of file f has seen.
FirstSession(f) == RecordsOf(f.date)[f.ticker].last + 1

\* Sessions are numbered; actions are at sessions.
MarketKept ==
    /\ today \in Nat
    /\ actions \in [Tickers -> SUBSET Nat]
    /\ tracked \subseteq Tickers

\* A frame is of a ticker and of the past; an observation is not of the market alone.
FramesKept ==
    /\ DOMAIN frames \subseteq Tickers
    /\ \A t \in DOMAIN frames :
         /\ frames[t].first \in Nat /\ frames[t].last \in Nat
         /\ frames[t].first <= FirstRow /\ frames[t].last <= today
    /\ scored \subseteq DOMAIN frames
    /\ phase = "archive" => \E t \in scored : t # Market

\* Records are of tickers, and what is left to do follows from them.
ObservationsKept ==
    /\ \A d \in DOMAIN observations :
         /\ DOMAIN RecordsOf(d) \subseteq Tickers
         /\ \A t \in DOMAIN RecordsOf(d) : RecordsOf(d)[t].last \in Nat
    /\ todo \subseteq Unconfirmed

\* Windows began where a frame as long as the present ones makes them begin.
WindowsKept ==
    \A f \in DOMAIN outcomes :
        /\ f \in FilesOf(observations)
        /\ outcomes[f] = [source |-> observations[f.date].evidence,
                          entry |-> outcomes[f].entry, rows |-> outcomes[f].rows]
        /\ outcomes[f].entry \in Int /\ FirstSession(f) <= outcomes[f].entry
        /\ outcomes[f].entry <= Later(FirstSession(f), FirstRow)
        /\ f.ticker \in DOMAIN frames => outcomes[f].entry <= Later(FirstSession(f), frames[f.ticker].first)

\* The rows of file f when nothing happened since the entry.
Plain(f) == [r \in FirstSession(f)..(FirstSession(f) + f.horizon - 1) |-> 0]
Repriced(f) == \E x \in actions[f.ticker] : x > FirstSession(f)

\* Rows were unadjusted unless something happened since.
RowsKept ==
    \A f \in DOMAIN outcomes :
        Repriced(f) \/ (outcomes[f].entry = FirstSession(f) => outcomes[f].rows = Plain(f))

IInv == MarketKept /\ FramesKept /\ ObservationsKept /\ WindowsKept /\ RowsKept
----------------------------------------------------------------------------
(* What the operators give *)

\* A file is of an archived date, a ticker of its records and a horizon.
LEMMA FilesAre ==
    ASSUME NEW obs, NEW f
    PROVE  f \in FilesOf(obs) <=>
             \E d \in DOMAIN obs : \E t \in DOMAIN obs[d].evidence.records : \E h \in Horizons :
                 f = [date |-> d, ticker |-> t, horizon |-> h]
  BY DEF FilesOf

\* Putting a value changes the one place.
LEMMA PutIs ==
    ASSUME NEW f, NEW x, NEW v
    PROVE  /\ DOMAIN Put(f, x, v) = DOMAIN f \cup {x}
           /\ Put(f, x, v)[x] = v
           /\ \A y \in DOMAIN f : y # x => Put(f, x, v)[y] = f[y]
  BY DEF Put

\* Archiving keeps what is archived, and adds at most the date.
LEMMA ArchivedKeeps ==
    ASSUME NEW date
    PROVE  /\ DOMAIN Archived(date) = DOMAIN observations \cup {date}
           /\ \A d \in DOMAIN observations : Archived(date)[d] = observations[d]
           /\ date \notin DOMAIN observations => Archived(date)[date] = Envelope
  <1>1. CASE date \in DOMAIN observations
        BY <1>1 DEF Archived
  <1>2. CASE date \notin DOMAIN observations
        BY <1>2 DEF Archived, Put
  <1> QED
      BY <1>1, <1>2

\* A ticker nothing happened to since the entry has unadjusted rows, in every frame that
\* reaches from the entry to the horizon.
LEMMA UnadjustedRows ==
    ASSUME MarketKept, FramesKept, ObservationsKept,
           NEW f \in FilesOf(observations), Ripe(f), Entry(f) = FirstSession(f), ~Repriced(f)
    PROVE  Rows(f.ticker, Entry(f), Terminal(f)) = Plain(f)
  <1>1. PICK d \in DOMAIN observations : \E t \in DOMAIN RecordsOf(d), h \in Horizons :
              f = [date |-> d, ticker |-> t, horizon |-> h]
        BY FilesAre DEF RecordsOf
  <1>0. PICK t \in DOMAIN RecordsOf(d), h \in Horizons : f = [date |-> d, ticker |-> t, horizon |-> h]
        BY <1>1
  <1>2. /\ f.ticker = t /\ f.horizon = h /\ f.date = d /\ h \in Nat
        /\ t \in Tickers /\ RecordsOf(d)[t].last \in Int
        BY <1>0, CalendarAssumption DEF ObservationsKept
  <1> DEFINE from == FirstSession(f)
             to   == from + h - 1
  <1>3. from \in Int /\ to \in Int
        BY <1>2 DEF FirstSession
  <1>4. /\ frames[t].first \in Nat /\ frames[t].last \in Nat
        /\ to <= frames[t].last /\ Entry(f) = from /\ Terminal(f) = to
        BY <1>2 DEF Ripe, Terminal, FramesKept
  <1>5. frames[t].first <= from
        BY <1>2, <1>3, <1>4 DEF Entry, Later, FirstSession
  <1>6. {s \in from..to : frames[t].first <= s /\ s <= frames[t].last} = from..to
        BY <1>3, <1>4, <1>5
  <1>7. ASSUME NEW r \in from..to
        PROVE  Adjusted(t, r, frames[t].last) = 0
    <2>1. actions[t] \subseteq Nat
          BY <1>2 DEF MarketKept
    <2>2. {x \in actions[t] : r < x /\ x <= frames[t].last} = {}
          BY <1>2, <1>3, <2>1 DEF Repriced
    <2> QED
        BY <2>2, FS_EmptySet DEF Adjusted
  <1>8. Rows(t, from, to) = [r \in from..to |-> Adjusted(t, r, frames[t].last)]
        BY <1>6 DEF Rows
  <1> QED
      BY <1>2, <1>4, <1>7, <1>8 DEF Plain
----------------------------------------------------------------------------
(* The steps *)

\* The first row of the market is a day.
LEMMA FirstRowIs == MarketKept => FirstRow \in Nat \ {0}
  BY CalendarAssumption DEF MarketKept, FirstRow, Later

\* A coverage that passes the gate has a ticker other than the market.
LEMMA ScoredHasAnEquity ==
    ASSUME NEW S, CanScore(S)
    PROVE  \E t \in S : t # Market
  <1>1. S \cap Reference # {}
        BY FS_EmptySet, CalendarAssumption DEF CanScore
  <1> QED
      BY <1>1, TickersAssumption

\* Starting a run.
LEMMA CollectKeeps ==
    ASSUME IInv, CollectSome
    PROVE  IInv'
  <1>1. PICK job \in {"weekly", "daily"}, got \in SUBSET Universe, published \in BOOLEAN :
             \E extra \in SUBSET (ArchivedTickers \ got) :
                 \E lag \in [got \cup extra -> 0..MaxLag] : Collect(job, got, extra, lag, published)
        BY DEF CollectSome
  <1>2. PICK extra \in SUBSET (ArchivedTickers \ got) :
             \E lag \in [got \cup extra -> 0..MaxLag] : Collect(job, got, extra, lag, published)
        BY <1>1
  <1>3. PICK lag \in [got \cup extra -> 0..MaxLag] : Collect(job, got, extra, lag, published)
        BY <1>2
  <1>4. /\ UNCHANGED <<today, actions, tracked, observations, outcomes, kills>>
        /\ frames' = [t \in got \cup extra |-> [first |-> FirstRow, last |-> today - lag[t]]]
        /\ scored' = IF published THEN got ELSE {}
        /\ phase' = IF published THEN "archive" ELSE "mature"
        /\ published => CanScore(got)
        /\ todo' = {} \/ todo' = Unconfirmed'
        /\ \A t \in got \cup extra : FirstRow <= today - lag[t]
        BY <1>3 DEF Collect, market
  <1>5. MarketKept'
        BY <1>4 DEF IInv, MarketKept
  <1>6. got \subseteq Tickers /\ extra \subseteq Tickers
    <2>1. ArchivedTickers \subseteq Tickers
          BY DEF IInv, ObservationsKept, ArchivedTickers
    <2> QED
        BY <2>1, TickersAssumption DEF Universe, IInv, MarketKept
  <1>7. \A t \in DOMAIN frames' :
             /\ frames'[t].first = FirstRow /\ frames'[t].last \in Nat /\ frames'[t].last <= today
    <2> SUFFICES ASSUME NEW t \in got \cup extra
                 PROVE  today - lag[t] \in Nat /\ today - lag[t] <= today
        BY <1>4
    <2>1. lag[t] \in Nat /\ FirstRow <= today - lag[t] /\ today \in Nat /\ FirstRow \in Nat \ {0}
          BY <1>4, FirstRowIs, CalendarAssumption DEF IInv, MarketKept
    <2> QED
        BY <2>1
  <1>8. FirstRow' = FirstRow /\ FirstRow \in Nat
        BY <1>4, FirstRowIs DEF FirstRow, IInv
  <1>9. FramesKept'
    <2>1. phase' = "archive" => \E t \in scored' : t # Market
          BY <1>4, ScoredHasAnEquity
    <2>2. DOMAIN frames' = got \cup extra /\ scored' \subseteq DOMAIN frames'
          BY <1>4
    <2>3. \A t \in DOMAIN frames' :
            /\ frames'[t].first \in Nat /\ frames'[t].last \in Nat
            /\ frames'[t].first <= FirstRow' /\ frames'[t].last <= today'
      <3>1. today' = today
            BY <1>4
      <3> QED
          BY <3>1, <1>7, <1>8
    <2>4. DOMAIN frames' \subseteq Tickers
          BY <1>6, <2>2
    <2> QED
        BY <2>1, <2>2, <2>3, <2>4 DEF FramesKept
  <1>10. ObservationsKept'
         BY <1>4 DEF IInv, ObservationsKept, RecordsOf
  <1>11. WindowsKept'
         BY <1>4, <1>7, <1>8 DEF IInv, WindowsKept, FirstSession, RecordsOf, FilesOf
  <1>12. RowsKept'
         BY <1>4 DEF IInv, RowsKept, Repriced, Plain, FirstSession, RecordsOf
  <1> QED
      BY <1>5, <1>9, <1>10, <1>11, <1>12 DEF IInv

\* Ending a run, whatever the reason.
LEMMA EndRunKeeps ==
    ASSUME IInv, EndRun, UNCHANGED <<today, actions, tracked, observations, outcomes>>
    PROVE  IInv'
  <1>1. /\ phase' = "idle" /\ scored' = {} /\ todo' = {}
        /\ DOMAIN frames' = {}
        BY DEF EndRun, NoFiles
  <1>2. FramesKept'
        BY <1>1 DEF FramesKept
  <1>3. MarketKept' /\ ObservationsKept'
        BY <1>1 DEF IInv, MarketKept, ObservationsKept, RecordsOf
  <1>4. WindowsKept'
        BY <1>1 DEF IInv, WindowsKept, FirstSession, RecordsOf, FilesOf, FirstRow
  <1>5. RowsKept'
        BY DEF IInv, RowsKept, Repriced, Plain, FirstSession, RecordsOf
  <1> QED
      BY <1>2, <1>3, <1>4, <1>5 DEF IInv

\* Archiving: the date is new, or the archive is left alone.
LEMMA ArchiveKeeps ==
    ASSUME IInv, NEW date, ArchiveObservation(date)
    PROVE  IInv'
  <1>1. /\ phase = "archive" /\ Dates = {date}
        /\ observations' = Archived(date)
        /\ phase' = "mature" /\ scored' = {} /\ todo' = Unconfirmed'
        /\ UNCHANGED <<today, actions, tracked, outcomes, frames, kills>>
        BY DEF ArchiveObservation, market
  <1>2. MarketKept' /\ FramesKept'
        BY <1>1 DEF IInv, MarketKept, FramesKept, FirstRow
  <1>3. date \in Nat
    <2>1. PICK t \in scored : t # Market
          BY <1>1 DEF IInv, FramesKept
    <2>2. Friday(frames[t].last) \in Nat
      <3>1. \A s \in Nat, w \in Nat \ {0} : ((s + w - 1) \div w) * w \in Nat
            OBVIOUS
      <3> QED
          BY <3>1, CalendarAssumption DEF Friday, IInv, FramesKept
    <2> QED
        BY <1>1, <2>1, <2>2 DEF Dates, AsOf
  <1>4. \A t \in scored : LastObserved(t) \in Nat
    <2> TAKE t \in scored
    <2>1. CASE t = Market
          BY <1>1, <1>3, <2>1 DEF Dates, AsOf, LastObserved
    <2>2. CASE t # Market
          BY <2>2 DEF LastObserved, IInv, FramesKept
    <2> QED
        BY <2>1, <2>2
  <1>5. /\ DOMAIN observations' = DOMAIN observations \cup {date}
        /\ \A d \in DOMAIN observations : observations'[d] = observations[d]
        /\ date \notin DOMAIN observations => observations'[date] = Envelope
        BY <1>1, ArchivedKeeps
  <1>6. /\ DOMAIN Envelope.evidence.records = scored
        /\ \A t \in scored : Envelope.evidence.records[t].last = LastObserved(t)
        BY DEF Envelope, StableEvidence
  <1>7. ObservationsKept'
    <2> SUFFICES ASSUME NEW d \in DOMAIN observations'
                 PROVE  /\ DOMAIN observations'[d].evidence.records \subseteq Tickers
                        /\ \A t \in DOMAIN observations'[d].evidence.records :
                               observations'[d].evidence.records[t].last \in Nat
        BY <1>1 DEF ObservationsKept, RecordsOf
    <2>1. CASE d \in DOMAIN observations
          BY <1>5, <2>1 DEF IInv, ObservationsKept, RecordsOf
    <2>2. CASE d = date /\ d \notin DOMAIN observations
          BY <1>4, <1>5, <1>6, <2>2 DEF IInv, FramesKept
    <2> QED
        BY <1>5, <2>1, <2>2
  <1>8. \A f \in FilesOf(observations) : f \in FilesOf(observations') /\ f.date \in DOMAIN observations
    <2> TAKE f \in FilesOf(observations)
    <2>1. PICK d \in DOMAIN observations : \E t \in DOMAIN observations[d].evidence.records, h \in Horizons :
              f = [date |-> d, ticker |-> t, horizon |-> h]
          BY FilesAre
    <2> QED
        BY <1>5, <2>1, FilesAre
  <1>9. \A f \in DOMAIN outcomes : /\ f \in FilesOf(observations')
                                   /\ observations'[f.date] = observations[f.date]
        BY <1>5, <1>8 DEF IInv, WindowsKept
  <1>10. WindowsKept'
         BY <1>1, <1>9 DEF IInv, WindowsKept, FirstSession, RecordsOf, FirstRow
  <1>11. RowsKept'
         BY <1>1, <1>9 DEF IInv, RowsKept, Repriced, Plain, FirstSession, RecordsOf
  <1> QED
      BY <1>2, <1>7, <1>10, <1>11 DEF IInv

\* Confirming an outcome.
LEMMA MatureKeeps ==
    ASSUME IInv, NEW f \in todo, MatureNext(f)
    PROVE  IInv'
  <1>1. /\ f \in todo /\ f \notin DOMAIN outcomes
        /\ outcomes' = Put(outcomes, f, Outcome(f))
        /\ todo' = todo \ {f}
        /\ UNCHANGED <<today, actions, tracked, observations, phase, frames, scored, kills>>
        BY DEF MatureNext, NextFile, Writable, market
  <1>2. MarketKept' /\ FramesKept'
        BY <1>1 DEF IInv, MarketKept, FramesKept, FirstRow
  <1>3. /\ DOMAIN outcomes' = DOMAIN outcomes \cup {f} /\ outcomes'[f] = Outcome(f)
        /\ \A g \in DOMAIN outcomes : outcomes'[g] = outcomes[g]
        BY <1>1 DEF Put
  <1>4. ObservationsKept'
    <2>1. \A g : Ripe(g)' = Ripe(g) /\ Outcome(g)' = Outcome(g)
          BY <1>1 DEF Ripe, Outcome, Terminal, Entry, Rows, Adjusted, RecordsOf
    <2>2. FilesOf(observations)' = FilesOf(observations)
          BY <1>1
    <2>3. \A g \in Unconfirmed \ {f} : g \in Unconfirmed'
          BY <1>3, <2>1, <2>2 DEF Unconfirmed
    <2> QED
        BY <1>1, <2>3 DEF IInv, ObservationsKept, RecordsOf
  <1>5. f \in FilesOf(observations) /\ Ripe(f)
        BY <1>1 DEF IInv, ObservationsKept, Unconfirmed
  <1>6. /\ f.date \in DOMAIN observations /\ f.ticker \in DOMAIN RecordsOf(f.date)
        /\ FirstSession(f) \in Int
    <2>1. PICK d \in DOMAIN observations : \E t \in DOMAIN observations[d].evidence.records, h \in Horizons :
              f = [date |-> d, ticker |-> t, horizon |-> h]
          BY <1>5, FilesAre
    <2> QED
        BY <2>1 DEF RecordsOf, FirstSession, IInv, ObservationsKept
  <1>7. /\ f.ticker \in DOMAIN frames /\ frames[f.ticker].first \in Nat
        /\ frames[f.ticker].first <= FirstRow /\ FirstRow \in Nat
        BY <1>5, FirstRowIs DEF Ripe, IInv, FramesKept
  <1>8. /\ Entry(f) \in Int /\ FirstSession(f) <= Entry(f)
        /\ Entry(f) = Later(FirstSession(f), frames[f.ticker].first)
        /\ Entry(f) <= Later(FirstSession(f), FirstRow)
        BY <1>6, <1>7 DEF Entry, Later, FirstSession
  <1>9. WindowsKept'
    <2> SUFFICES ASSUME NEW g \in DOMAIN outcomes'
                 PROVE  /\ g \in FilesOf(observations)
                        /\ outcomes'[g] = [source |-> observations[g.date].evidence,
                                           entry |-> outcomes'[g].entry, rows |-> outcomes'[g].rows]
                        /\ outcomes'[g].entry \in Int /\ FirstSession(g) <= outcomes'[g].entry
                        /\ outcomes'[g].entry <= Later(FirstSession(g), FirstRow)
                        /\ g.ticker \in DOMAIN frames =>
                             outcomes'[g].entry <= Later(FirstSession(g), frames[g.ticker].first)
        BY <1>1 DEF WindowsKept, FirstSession, RecordsOf, FirstRow, FilesOf
    <2>1. CASE g \in DOMAIN outcomes
          BY <1>3, <2>1 DEF IInv, WindowsKept
    <2>2. CASE g = f
          BY <1>3, <1>5, <1>8, <2>2 DEF Outcome
    <2> QED
        BY <1>3, <2>1, <2>2
  <1>10. RowsKept'
    <2> SUFFICES ASSUME NEW g \in DOMAIN outcomes', ~Repriced(g), outcomes'[g].entry = FirstSession(g)
                 PROVE  outcomes'[g].rows = Plain(g)
        BY <1>1 DEF RowsKept, Repriced, Plain, FirstSession, RecordsOf
    <2>1. CASE g \in DOMAIN outcomes
          BY <1>3, <2>1 DEF IInv, RowsKept
    <2>2. CASE g = f
      <3>1. Entry(f) = FirstSession(f)
            BY <1>3, <2>2 DEF Outcome
      <3>2. Rows(f.ticker, Entry(f), Terminal(f)) = Plain(f)
            BY <1>5, <2>2, <3>1, UnadjustedRows DEF IInv
      <3> QED
          BY <1>3, <2>2, <3>2 DEF Outcome
    <2> QED
        BY <1>3, <2>1, <2>2
  <1> QED
      BY <1>2, <1>4, <1>9, <1>10 DEF IInv

\* A session later: what happens on it is in no frame collected before.
LEMMA NextSessionKeeps ==
    ASSUME IInv, NextSession
    PROVE  IInv'
  <1>1. /\ today' = today + 1
        /\ UNCHANGED <<tracked, observations, outcomes, phase, frames, scored, todo, kills>>
        BY DEF NextSession
  <1>2. PICK X \in SUBSET {t \in Tickers : Cardinality(actions[t]) < MaxActions} :
             actions' = [t \in Tickers |-> IF t \in X THEN actions[t] \cup {today + 1} ELSE actions[t]]
        BY DEF NextSession
  <1>3. /\ actions' \in [Tickers -> SUBSET Nat]
        /\ \A t \in Tickers : actions[t] \subseteq actions'[t]
        /\ \A t \in Tickers : actions'[t] \subseteq actions[t] \cup {today + 1}
        BY <1>2 DEF IInv, MarketKept
  <1>4. MarketKept'
        BY <1>1, <1>3 DEF IInv, MarketKept
  <1>5. /\ FirstRow \in Nat /\ FirstRow' \in Nat /\ FirstRow <= FirstRow'
        BY <1>1, CalendarAssumption DEF FirstRow, Later, IInv, MarketKept
  <1>6. FramesKept'
        BY <1>1, <1>5 DEF IInv, FramesKept, MarketKept
  <1>7. \A t \in DOMAIN frames : \A r : Adjusted(t, r, frames[t].last)' = Adjusted(t, r, frames[t].last)
    <2> SUFFICES ASSUME NEW t \in DOMAIN frames, NEW r
                 PROVE  {x \in actions'[t] : r < x /\ x <= frames[t].last}
                          = {x \in actions[t] : r < x /\ x <= frames[t].last}
        BY <1>1 DEF Adjusted
    <2>1. t \in Tickers /\ frames[t].last \in Nat /\ ~(today + 1 <= frames[t].last)
          BY DEF IInv, FramesKept, MarketKept
    <2> QED
        BY <1>3, <2>1
  <1>8. ObservationsKept'
    <2>1. \A g : Ripe(g)' = Ripe(g)
          BY <1>1 DEF Ripe, Terminal, Entry, RecordsOf
    <2>2. \A g : g.ticker \in DOMAIN frames => Outcome(g)' = Outcome(g)
      <3> SUFFICES ASSUME NEW g, g.ticker \in DOMAIN frames
                   PROVE  Rows(g.ticker, Entry(g), Terminal(g))' = Rows(g.ticker, Entry(g), Terminal(g))
          BY <1>1 DEF Outcome, Entry, RecordsOf
      <3>1. Entry(g)' = Entry(g) /\ Terminal(g)' = Terminal(g)
            BY <1>1 DEF Entry, Terminal, RecordsOf
      <3> QED
          BY <1>1, <1>7, <3>1 DEF Rows
    <2>3. Unconfirmed \subseteq Unconfirmed'
          BY <1>1, <2>1, <2>2 DEF Unconfirmed, FilesOf, Ripe
    <2> QED
        BY <1>1, <2>3 DEF IInv, ObservationsKept, RecordsOf
  <1>9. \A f \in DOMAIN outcomes : FirstSession(f) \in Int /\ f.ticker \in Tickers
    <2> TAKE f \in DOMAIN outcomes
    <2>1. PICK d \in DOMAIN observations : \E t \in DOMAIN observations[d].evidence.records, h \in Horizons :
              f = [date |-> d, ticker |-> t, horizon |-> h]
          BY FilesAre DEF IInv, WindowsKept
    <2> QED
        BY <2>1 DEF RecordsOf, FirstSession, IInv, ObservationsKept
  <1>10. WindowsKept'
    <2> SUFFICES ASSUME NEW f \in DOMAIN outcomes
                 PROVE  outcomes[f].entry <= Later(FirstSession(f), FirstRow')
        BY <1>1 DEF IInv, WindowsKept, FirstSession, RecordsOf, FilesOf
    <2>1. /\ outcomes[f].entry \in Int
          /\ outcomes[f].entry <= Later(FirstSession(f), FirstRow)
          BY DEF IInv, WindowsKept
    <2> QED
        BY <1>5, <1>9, <2>1 DEF Later
  <1>11. RowsKept'
         BY <1>1, <1>3, <1>9 DEF IInv, RowsKept, Repriced, Plain, FirstSession, RecordsOf
  <1> QED
      BY <1>4, <1>6, <1>8, <1>10, <1>11 DEF IInv

\* A user takes a ticker in or out, or nothing happens.
LEMMA RetrackKeeps ==
    ASSUME IInv, tracked' \subseteq Tickers,
           UNCHANGED <<today, actions, observations, outcomes, phase, frames, scored, todo>>
    PROVE  IInv'
  <1>1. MarketKept' /\ FramesKept'
        BY DEF IInv, MarketKept, FramesKept, FirstRow
  <1>2. ObservationsKept'
    <2>1. \A g : Ripe(g)' = Ripe(g) /\ Outcome(g)' = Outcome(g)
          BY DEF Ripe, Outcome, Terminal, Entry, Rows, Adjusted, RecordsOf
    <2> QED
        BY <2>1 DEF IInv, ObservationsKept, RecordsOf, Unconfirmed, FilesOf
  <1>3. WindowsKept'
        BY DEF IInv, WindowsKept, FirstSession, RecordsOf, FilesOf, FirstRow
  <1>4. RowsKept'
        BY DEF IInv, RowsKept, Repriced, Plain, FirstSession, RecordsOf
  <1> QED
      BY <1>1, <1>2, <1>3, <1>4 DEF IInv
----------------------------------------------------------------------------
(* The invariant *)

\* The archive starts in the invariant,
LEMMA InitIInv == Init => IInv
  <1> SUFFICES ASSUME Init PROVE IInv
      OBVIOUS
  <1>1. /\ today = 1 /\ actions = [t \in Tickers |-> {}] /\ tracked = Followed
        /\ DOMAIN observations = {} /\ DOMAIN outcomes = {} /\ DOMAIN frames = {}
        /\ phase = "idle" /\ scored = {} /\ todo = {}
        BY DEF Init, NoFiles
  <1> QED
      BY <1>1, TickersAssumption DEF IInv, MarketKept, FramesKept, ObservationsKept, WindowsKept, RowsKept

\* and no run of it leaves it.
LEMMA NextIInv == IInv /\ [Next]_vars => IInv'
  <1> SUFFICES ASSUME IInv, [Next]_vars PROVE IInv'
      OBVIOUS
  <1>1. CASE CollectSome
        BY <1>1, CollectKeeps
  <1>2. ASSUME NEW f \in todo, MatureNext(f)
        PROVE  IInv'
        BY <1>2, MatureKeeps
  <1>3. ASSUME NEW f \in todo, Conflict(f)
        PROVE  IInv'
        BY <1>3, EndRunKeeps DEF Conflict, market
  <1>4. CASE Finish
        BY <1>4, EndRunKeeps DEF Finish, market
  <1>5. CASE RejectBundle
        BY <1>5, EndRunKeeps DEF RejectBundle, market
  <1>6. ASSUME NEW d \in Dates, ArchiveObservation(d)
        PROVE  IInv'
        BY <1>6, ArchiveKeeps
  <1>7. CASE Kill
        BY <1>7, EndRunKeeps DEF Kill, market
  <1>8. CASE NextSession
        BY <1>8, NextSessionKeeps
  <1>9. ASSUME NEW t \in Followed, Retrack(t)
        PROVE  IInv'
        BY <1>9, RetrackKeeps, TickersAssumption DEF Retrack, IInv, MarketKept
  <1>10. CASE UNCHANGED vars
         BY <1>10, RetrackKeeps DEF vars, IInv, MarketKept
  <1> QED
      BY <1>1, <1>2, <1>3, <1>4, <1>5, <1>6, <1>7, <1>8, <1>9, <1>10 DEF Next, Step

\* The frames, files and rows of the archive stay in the invariant, whatever runs fail.
THEOREM Invariant == Spec => []IInv
  BY InitIInv, NextIInv, PTL DEF Spec
----------------------------------------------------------------------------
(* What follows *)

\* Every confirmed outcome names the evidence its date was archived with: audit_archive
\* finds no orphan, whatever was collected, killed or run again.
THEOREM SourcesAreKept == Spec => []OutcomesHaveTheirSource
  <1>1. IInv => OutcomesHaveTheirSource
    <2> SUFFICES ASSUME IInv, NEW f \in DOMAIN outcomes
                 PROVE  /\ f.date \in DOMAIN observations /\ f.ticker \in DOMAIN RecordsOf(f.date)
                        /\ outcomes[f].source = observations[f.date].evidence
        BY DEF OutcomesHaveTheirSource
    <2>1. PICK d \in DOMAIN observations : \E t \in DOMAIN observations[d].evidence.records, h \in Horizons :
              f = [date |-> d, ticker |-> t, horizon |-> h]
          BY FilesAre DEF IInv, WindowsKept
    <2>2. outcomes[f].source = observations[f.date].evidence
          BY DEF IInv, WindowsKept
    <2> QED
        BY <2>1, <2>2 DEF RecordsOf
  <1> QED
      BY <1>1, Invariant, PTL

\* No step of any run changes or removes an archived observation or a confirmed outcome.
THEOREM FilesAreImmutable == Spec => ArchiveIsImmutable
  <1> DEFINE Kept ==
        /\ \A d \in DOMAIN observations : d \in DOMAIN observations' /\ observations'[d] = observations[d]
        /\ \A f \in DOMAIN outcomes : f \in DOMAIN outcomes' /\ outcomes'[f] = outcomes[f]
  <1>1. [Next]_vars => [Kept]_vars
    <2> SUFFICES ASSUME Next PROVE Kept
        OBVIOUS
    <2>1. ASSUME NEW d \in Dates, ArchiveObservation(d)
          PROVE  Kept
          BY <2>1, ArchivedKeeps DEF ArchiveObservation
    <2>2. ASSUME NEW f \in todo, MatureNext(f)
          PROVE  Kept
          BY <2>2 DEF MatureNext, Writable, Put
    <2>3. CASE CollectSome \/ Finish \/ RejectBundle \/ Kill \/ NextSession
          BY <2>3 DEF CollectSome, Collect, Finish, RejectBundle, Kill, NextSession
    <2>4. ASSUME NEW f \in todo, Conflict(f)
          PROVE  Kept
          BY <2>4 DEF Conflict
    <2>5. ASSUME NEW t \in Followed, Retrack(t)
          PROVE  Kept
          BY <2>5 DEF Retrack
    <2> QED
        BY <2>1, <2>2, <2>3, <2>4, <2>5 DEF Next, Step
  <1> QED
      BY <1>1, PTL DEF Spec, ArchiveIsImmutable

\* A pass is ended by a conflict only over a ticker that paid, split or merged after the
\* entry session, or whose entry session is older than the collected frame.
THEOREM ConflictsAreRepriced == Spec => ConflictsHaveACause
  <1> DEFINE Caused == \A f \in todo : Conflict(f) =>
               LET entry == RecordsOf(f.date)[f.ticker].last + 1
               IN  \/ frames[f.ticker].first > entry
                   \/ \E x \in actions[f.ticker] : x > entry
  <1>1. IInv => Caused
    <2> SUFFICES ASSUME IInv, NEW f \in todo, Conflict(f), ~(frames[f.ticker].first > FirstSession(f)), ~Repriced(f)
                 PROVE  FALSE
        BY DEF FirstSession, Repriced
    <2>1. /\ f \in DOMAIN outcomes /\ f \in FilesOf(observations) /\ Ripe(f)
          /\ outcomes[f] # Outcome(f)
          BY DEF Conflict, IInv, ObservationsKept, Unconfirmed
    <2>2. PICK d \in DOMAIN observations : \E t \in DOMAIN observations[d].evidence.records, h \in Horizons :
              f = [date |-> d, ticker |-> t, horizon |-> h]
          BY <2>1, FilesAre
    <2>3. FirstSession(f) \in Int /\ f.ticker \in DOMAIN frames /\ frames[f.ticker].first \in Nat
          BY <2>1, <2>2 DEF RecordsOf, FirstSession, Ripe, IInv, ObservationsKept, FramesKept
    <2>4. Entry(f) = FirstSession(f)
          BY <2>3 DEF Entry, Later, FirstSession
    <2>5. outcomes[f].entry = FirstSession(f)
      <3>1. /\ outcomes[f].entry \in Int /\ FirstSession(f) <= outcomes[f].entry
            /\ outcomes[f].entry <= Later(FirstSession(f), frames[f.ticker].first)
            BY <2>1, <2>3 DEF IInv, WindowsKept
      <3> QED
          BY <2>3, <3>1 DEF Later
    <2>6. outcomes[f].rows = Plain(f)
          BY <2>1, <2>5 DEF IInv, RowsKept
    <2>7. Rows(f.ticker, Entry(f), Terminal(f)) = Plain(f)
          BY <2>1, <2>4, UnadjustedRows DEF IInv
    <2>8. outcomes[f] = [source |-> observations[f.date].evidence,
                         entry |-> outcomes[f].entry, rows |-> outcomes[f].rows]
          BY <2>1 DEF IInv, WindowsKept
    <2> QED
        BY <2>1, <2>4, <2>5, <2>6, <2>7, <2>8 DEF Outcome
  <1> QED
      BY <1>1, Invariant, PTL DEF Spec, ConflictsHaveACause

\* A confirmed outcome's horizon is complete.
HorizonsOver == \A f \in DOMAIN outcomes : outcomes[f].entry + f.horizon - 1 <= today

\* While rows are only added, what has ended stays ended,
LEMMA HorizonsStayOver == IInv /\ HorizonsOver /\ [Next]_vars => HorizonsOver'
  <1> SUFFICES ASSUME IInv, HorizonsOver, [Next]_vars PROVE HorizonsOver'
      OBVIOUS
  <1>1. ASSUME NEW f \in todo, MatureNext(f)
        PROVE  HorizonsOver'
    <2>1. /\ DOMAIN outcomes' = DOMAIN outcomes \cup {f} /\ outcomes'[f] = Outcome(f)
          /\ \A g \in DOMAIN outcomes : g # f => outcomes'[g] = outcomes[g]
          /\ today' = today
          BY <1>1 DEF MatureNext, Put, market
    <2>2. Ripe(f)
          BY <1>1 DEF IInv, ObservationsKept, Unconfirmed
    <2>3. f.ticker \in DOMAIN frames /\ Terminal(f) <= frames[f.ticker].last
          BY <2>2 DEF Ripe
    <2>4. /\ frames[f.ticker].last \in Nat /\ frames[f.ticker].last <= today /\ today \in Nat
          BY <2>3 DEF IInv, FramesKept, MarketKept
    <2>5. Terminal(f) \in Int
      <3>1. PICK d \in DOMAIN observations : \E t \in DOMAIN observations[d].evidence.records, h \in Horizons :
                f = [date |-> d, ticker |-> t, horizon |-> h]
            BY <1>1, FilesAre DEF IInv, ObservationsKept, Unconfirmed
      <3>2. RecordsOf(f.date)[f.ticker].last \in Nat /\ f.horizon \in Nat
            BY <3>1, CalendarAssumption DEF RecordsOf, IInv, ObservationsKept
      <3>3. frames[f.ticker].first \in Nat
            BY <2>3 DEF IInv, FramesKept
      <3> QED
          BY <3>2, <3>3 DEF Terminal, Entry, Later
    <2>6. outcomes'[f].entry + f.horizon - 1 <= today
          BY <2>1, <2>3, <2>4, <2>5 DEF Outcome, Terminal
    <2> QED
        BY <2>1, <2>6 DEF HorizonsOver
  <1>2. CASE outcomes' = outcomes /\ (today' = today \/ today' = today + 1)
    <2>1. ASSUME NEW f \in DOMAIN outcomes
          PROVE  outcomes[f].entry + f.horizon - 1 \in Int
      <3>1. PICK d \in DOMAIN observations : \E t \in DOMAIN observations[d].evidence.records, h \in Horizons :
                f = [date |-> d, ticker |-> t, horizon |-> h]
            BY <2>1, FilesAre DEF IInv, WindowsKept
      <3> QED
          BY <2>1, <3>1, CalendarAssumption DEF IInv, WindowsKept
    <2>2. today \in Nat
          BY DEF IInv, MarketKept
    <2> QED
        BY <1>2, <2>1, <2>2 DEF HorizonsOver
  <1> QED
      BY <1>1, <1>2 DEF Next, Step, CollectSome, Collect, Conflict, Finish, RejectBundle, ArchiveObservation,
                        Kill, NextSession, Retrack, market, vars

\* Whatever the age of the archive, the return of an outcome is never counted from a session
\* its score has seen, is confirmed only when its horizon is complete, and begins later than
\* the next session only if that is older than a frame is long.
WindowsAreHonest ==
    \A f \in DOMAIN outcomes :
        /\ FirstSession(f) <= outcomes[f].entry
        /\ outcomes[f].entry # FirstSession(f) => FirstSession(f) < FirstRow
        /\ outcomes[f].entry + f.horizon - 1 <= today

\* so that an outcome is only ever of a horizon that is over,
LEMMA HorizonsAreOver == Spec => []HorizonsOver
  <1>1. Init => HorizonsOver
        BY DEF Init, NoFiles, HorizonsOver
  <1> QED
      BY <1>1, HorizonsStayOver, Invariant, PTL DEF Spec

\* and its window is of the sessions it says.
LEMMA WindowsFollow == IInv /\ HorizonsOver => WindowsAreHonest
  <1> SUFFICES ASSUME IInv, HorizonsOver, NEW f \in DOMAIN outcomes
               PROVE  /\ FirstSession(f) <= outcomes[f].entry
                      /\ outcomes[f].entry # FirstSession(f) => FirstSession(f) < FirstRow
      BY DEF WindowsAreHonest, HorizonsOver
  <1>1. PICK d \in DOMAIN observations : \E t \in DOMAIN observations[d].evidence.records, h \in Horizons :
            f = [date |-> d, ticker |-> t, horizon |-> h]
        BY FilesAre DEF IInv, WindowsKept
  <1>2. FirstSession(f) \in Int /\ FirstRow \in Nat
        BY <1>1, FirstRowIs DEF RecordsOf, FirstSession, IInv, ObservationsKept
  <1>3. /\ outcomes[f].entry \in Int /\ FirstSession(f) <= outcomes[f].entry
        /\ outcomes[f].entry <= Later(FirstSession(f), FirstRow)
        BY DEF IInv, WindowsKept
  <1> QED
      BY <1>2, <1>3 DEF Later

\* mature_outcomes, without a bound on the age of the archive.
THEOREM WindowsStayHonest == Spec => []WindowsAreHonest
  BY WindowsFollow, Invariant, HorizonsAreOver, PTL

\* In the time a frame reaches back, the window of every outcome begins with the
\* session after the last one its score has seen.
THEOREM EntriesFollowObservations ==
    ASSUME LastSession <= FrameLength
    PROVE  Spec => []EntryFollowsObservation
  <1> DEFINE Reached == today <= FrameLength
  <1>1. Init => Reached
        BY CalendarAssumption DEF Init
  <1>2. IInv /\ Reached /\ [Next]_vars => Reached'
    <2> SUFFICES ASSUME IInv, Reached, [Next]_vars PROVE Reached'
        OBVIOUS
    <2>1. CASE NextSession
          BY <2>1, CalendarAssumption DEF NextSession, IInv, MarketKept
    <2>2. CASE today' = today
          BY <2>2
    <2> QED
        BY <2>1, <2>2 DEF Next, Step, CollectSome, Collect, MatureNext, Conflict, Finish, RejectBundle,
                          ArchiveObservation, Kill, Retrack, market, vars
  <1>3. IInv /\ Reached /\ WindowsAreHonest => EntryFollowsObservation
    <2> SUFFICES ASSUME IInv, Reached, WindowsAreHonest, NEW f \in DOMAIN outcomes
                 PROVE  outcomes[f].entry = FirstSession(f)
        BY DEF EntryFollowsObservation, WindowsAreHonest, FirstSession
    <2>1. FirstRow = 1
          BY CalendarAssumption DEF FirstRow, Later, IInv, MarketKept
    <2>2. PICK d \in DOMAIN observations : \E t \in DOMAIN observations[d].evidence.records, h \in Horizons :
              f = [date |-> d, ticker |-> t, horizon |-> h]
          BY FilesAre DEF IInv, WindowsKept
    <2>3. FirstSession(f) \in Nat /\ FirstSession(f) >= 1
          BY <2>2 DEF RecordsOf, FirstSession, IInv, ObservationsKept
    <2> QED
        BY <2>1, <2>3 DEF WindowsAreHonest
  <1> QED
      BY <1>1, <1>2, <1>3, Invariant, WindowsStayHonest, PTL DEF Spec
=============================================================================
