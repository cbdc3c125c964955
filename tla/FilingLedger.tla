----------------------------- MODULE FilingLedger -----------------------------
(***************************************************************************)
(* The point-in-time ledger of institutional holdings                       *)
(* (herd/sec_13f_pit_holdings_v1.py) and the positions read from it         *)
(* (herd/sec_13f_slow_context_v1.py).                                       *)
(*                                                                          *)
(* A manager files a report of a quarter and may amend it: a RESTATEMENT    *)
(* replaces what was reported, NEW HOLDINGS add to it, an amendment of no    *)
(* known type is left out.  A generation reads every filing published and   *)
(* stores, for each, the state that was known after it.                     *)
(*                                                                          *)
(* A filing's holdings are those of securities the map of identifiers knows, *)
(* one identifier to a ticker; values, voting rights and names are left out. *)
(***************************************************************************)
EXTENDS Integers, Sequences, FiniteSets, SequencesExt

CONSTANTS Groups,      \* a manager and one quarter
          Filable,     \* what may be filed: records of group, type and holdings
          Sessions,    \* the days on which the market is open
          LastDay,     \* bound on the days
          MaxFilings   \* bound on the filings

VARIABLES today,
          published,  \* what was filed, in the order of its acceptance
          covered,    \* the last day the newest generation has all filings of
          filings,    \* the tables of that generation
          effective

vars == <<today, published, covered, filings, effective>>

\* What is filed is of a type, and has numbers of shares.
FilingAssumption ==
    \A filing \in Filable :
        /\ filing.type \in {"INITIAL", "RESTATEMENT", "NEW HOLDINGS", "UNKNOWN"}
        /\ filing.holdings \in [DOMAIN filing.holdings -> Nat]

Accessions == 1..MaxFilings

\* An accession number starts with the number of the agent that files: those of two
\* agents do not tell which filing came first.
Published == [filing : Filable, accession : Accessions, filed : 1..LastDay]

-----------------------------------------------------------------------------
(* The tables of a generation. *)

\* Mutant: a filing may be used on its own day.
IsSessionOnOrAfter(session, day) ==
    session >= day /\ \A s \in Sessions : s >= day => session <= s

IsNextSession(session, day) ==
    session > day /\ \A s \in Sessions : s > day => session <= s

\* Every day has a next session.
Calendar ==
    /\ LastDay \in Nat \ {0} /\ Sessions \subseteq Int
    /\ \A day \in 1..LastDay : \E s \in Sessions : IsNextSession(s, day)

\* next_market_session.
NextMarketSession(day) == CHOOSE s \in Sessions : IsNextSession(s, day)

\* The bulk data has the date of a filing and not its hour.
Availability(row) == NextMarketSession(row.filed)

\* _amendment_semantics: an amendment of no known type is not applied.
Usable(row) == row.filing.type # "UNKNOWN"

\* _insert_archive: a filing becomes a row only if one of its holdings is selected.
Inserted(rows) == {row \in rows : DOMAIN row.filing.holdings # {}}

\* ORDER BY availability_date, filing_date, accession_number.
Before(row, other) ==
    \/ Availability(row) < Availability(other)
    \/ /\ Availability(row) = Availability(other)
       /\ \/ row.filed < other.filed
          \/ row.filed = other.filed /\ row.accession < other.accession

\* Every row is where as many others come before.
Chronological(rows) ==
    [n \in 1..Cardinality(rows) |->
        CHOOSE row \in rows : Cardinality({other \in rows : Before(other, row)}) = n - 1]

\* What is held by the first, and by the second alone.
Joined(first, second) ==
    [t \in DOMAIN first \cup DOMAIN second |->
        IF t \in DOMAIN first THEN first[t] ELSE second[t]]

\* Mutant: a new holding takes the place of the one reported before.
FlushOver(state, row) ==
    IF row.filing.type = "NEW HOLDINGS" THEN Joined(row.filing.holdings, state)
    ELSE row.filing.holdings

\* flush_event: a holding already reported is kept when new ones are added.
Flush(state, row) ==
    IF row.filing.type = "NEW HOLDINGS" THEN Joined(state, row.filing.holdings)
    ELSE row.filing.holdings

\* The events of the same manager and quarter up to one of them.
Events(rows, last) ==
    {row \in rows : /\ Usable(row) /\ row.filing.group = last.filing.group
                    /\ row = last \/ Before(row, last)}

\* The state that follows a filing.
After(rows, last) == FoldLeft(Flush, <<>>, Chronological(Events(rows, last)))

\* _materialize_effective_holdings.
Materialize(rows) == [last \in {row \in rows : Usable(row)} |-> After(rows, last)]

-----------------------------------------------------------------------------
(* _period_positions: the state after the last filing available on a day. *)

AvailableBy(group, day) ==
    {row \in filings : /\ row.filing.group = group /\ Usable(row)
                       /\ Availability(row) <= day}

Newest(rows) == {row \in rows : \A other \in rows : row = other \/ Before(other, row)}

Held(state) == [t \in {t \in DOMAIN state : state[t] > 0} |-> state[t]]

PeriodPositions(group, day) ==
    LET newest == Newest(AvailableBy(group, day))
    IN  IF newest = {} THEN <<>> ELSE Held(effective[CHOOSE row \in newest : TRUE])

-----------------------------------------------------------------------------
Init ==
    /\ today = 1 /\ published = <<>> /\ covered = 0
    /\ filings = {} /\ effective = <<>>

\* A manager, or its agent, files.
File(filing, accession) ==
    /\ Len(published) < MaxFilings
    /\ \A row \in ToSet(published) : row.accession # accession
    /\ published' = Append(published, [filing |-> filing, accession |-> accession, filed |-> today])
    /\ UNCHANGED <<today, covered, filings, effective>>

EndOfDay ==
    /\ today < LastDay /\ today' = today + 1
    /\ UNCHANGED <<published, covered, filings, effective>>

\* generate, from the archives of the days that are over: all tables are built anew.
Generate ==
    /\ today < LastDay /\ today' = today + 1
    /\ covered' = today
    /\ filings' = Inserted(ToSet(published))
    /\ effective' = Materialize(Inserted(ToSet(published)))
    /\ UNCHANGED published

Next ==
    \/ \E filing \in Filable, accession \in Accessions : File(filing, accession)
    \/ EndOfDay
    \/ Generate

Spec == Init /\ [][Next]_vars

-----------------------------------------------------------------------------
TypeOK ==
    /\ today \in 1..LastDay /\ covered \in 0..(today - 1)
    /\ published \in Seq(Published)
    /\ filings \subseteq Published
    /\ DOMAIN effective = {row \in filings : Usable(row)}

\* The usable filings that the market had seen in a session on or before a day.
Known(group, day) ==
    {i \in DOMAIN published :
        /\ published[i].filing.group = group /\ Usable(published[i])
        /\ \E s \in Sessions : published[i].filed < s /\ s <= day}

\* The last of some filings that replaced what was reported, and those after it.
Standing(known) ==
    {i \in known : \A j \in known : published[j].filing.type # "NEW HOLDINGS" => j <= i}

\* What a manager had reported of a quarter and the market had seen: of each security,
\* what the first filing says that names it and stands.
Reported(group, day) ==
    LET standing == Standing(Known(group, day))
        names(i) == DOMAIN published[i].filing.holdings
        first(t) == CHOOSE i \in standing :
                        t \in names(i) /\ \A j \in standing : t \in names(j) => i <= j
    IN  Held([t \in UNION {names(i) : i \in standing} |-> published[first(t)].filing.holdings[t]])

\* Accession numbers of one day agree with the order of acceptance.
InOrder(group) ==
    \A i, j \in DOMAIN published :
        /\ i < j /\ published[i].filed = published[j].filed
        /\ published[i].filing.group = group /\ published[j].filing.group = group
        => published[i].accession < published[j].accession

\* A report that replaces the earlier ones holds a security the map knows.
NamesASecurity(group) ==
    \A row \in ToSet(published) :
        row.filing.group = group /\ row.filing.type \in {"INITIAL", "RESTATEMENT"}
        => DOMAIN row.filing.holdings # {}

\* A restatement replaces all that was reported, from the session after it on
\* (docs/HERD_POINT_IN_TIME_DATA.md): violated, since a restatement without a selected
\* security is no row, and what it withdraws stays.
RestatementReplaces ==
    \A group \in Groups, day \in 1..(covered + 1) :
        InOrder(group) => PeriodPositions(group, day) = Reported(group, day)

\* Of every manager and quarter, the positions of a day are those reported by the
\* session, whatever was amended and whenever the tables were generated, up to the
\* day after the last one covered.
PositionsFollowReports ==
    \A group \in Groups, day \in 1..(covered + 1) :
        InOrder(group) /\ NamesASecurity(group)
        => PeriodPositions(group, day) = Reported(group, day)

\* No filing changes the positions of a day before it was available: a later generation
\* has the same positions for every day the earlier one covered, and the next.
NoLookAhead ==
    [][\A group \in Groups, date \in 1..(covered + 1) :
          PeriodPositions(group, date)' = PeriodPositions(group, date)]_vars

=============================================================================
