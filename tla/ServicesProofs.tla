--------------------------- MODULE ServicesProofs ---------------------------
(***************************************************************************)
(* What holds of the components of MCServices for any constants that its   *)
(* assumption allows. Each component has an invariant of its own, which    *)
(* no step of another one touches. The ledger has its proofs in            *)
(* BooksProofs, the inbox in ObservationInboxProofs: here they are carried *)
(* over to the composition.                                                *)
(***************************************************************************)
EXTENDS MCServices, BooksProofs, FiniteSetTheorems, TLAPS

-----------------------------------------------------------------------------
(* A behaviour is one of one component.                                   *)

\* A step is one of the component that runs, and of no other.
LEMMA StepsApart ==
    ASSUME [ServicesNext]_services
    PROVE  /\ component' = component
           /\ component = "books" => Next \/ UNCHANGED vars
           /\ (component = "labels" /\ Labels!Next) \/ UNCHANGED weeks
           /\ (component = "pulse" /\ Pulse!Next) \/ UNCHANGED pulse
           /\ (component = "data" /\ Data!Next) \/ UNCHANGED data
           /\ \/ component = "inbox" /\ Inbox!Next
              \/ component = "tabs" /\ Tabbed!Next
              \/ UNCHANGED inbox
           /\ (component = "page" /\ Page!Next) \/ UNCHANGED dashboard
           /\ (component = "filings" /\ Filings!Next) \/ UNCHANGED reports
           /\ (component = "events" /\ Chain!Next) \/ UNCHANGED disclosures
<1>1. CASE Books
  BY <1>1 DEF Books
<1>2. CASE Label
  BY <1>2 DEF Label
<1>3. CASE Beat
  BY <1>3 DEF Beat
<1>4. CASE Refresh
  BY <1>4 DEF Refresh
<1>5. CASE Read
  BY <1>5 DEF Read
<1>6. CASE ReadInTabs
  BY <1>6 DEF ReadInTabs
<1>7. CASE View
  BY <1>7 DEF View
<1>8. CASE Invest
  BY <1>8 DEF Invest
<1>9. CASE Submit
  BY <1>9 DEF Submit
<1>10. CASE Intake
  BY <1>10 DEF Intake
<1>11. CASE UNCHANGED services
  BY <1>11 DEF services
<1> QED
  BY <1>1, <1>2, <1>3, <1>4, <1>5, <1>6, <1>7, <1>8, <1>9, <1>10, <1>11 DEF ServicesNext

-----------------------------------------------------------------------------
(* The books. A return replays a ledger of its own.                       *)

\* While the books run, the ledger is one that they record.
BooksInvariant == component = "books" => BookInvariant

\* PortfolioLedgerCalculator: whatever is recorded and deleted, for any tickers, entries
\* and splits that the scale of quantities divides by, a replay adds up: what is held was
\* bought last, cash, costs and profits balance, and just what exceeds the rest is oversold.
THEOREM TheBooksAddUp == ServicesSpec => []LedgerAddsUp
<1>1. ServicesInit => BooksInvariant
  BY BookStarts DEF ServicesInit, BooksInvariant
<1>2. BooksInvariant /\ [ServicesNext]_services => BooksInvariant'
  <2> SUFFICES ASSUME BooksInvariant, [ServicesNext]_services, component' = "books"
               PROVE  BookInvariant'
    BY DEF BooksInvariant
  <2>1. component = "books" /\ (Next \/ UNCHANGED vars)
    BY StepsApart
  <2>2. BookInvariant
    BY <2>1 DEF BooksInvariant
  <2> QED
    BY <2>1, <2>2, BookSteps
<1>3. BooksInvariant => LedgerAddsUp
  BY BookAddsUp DEF BooksInvariant, LedgerAddsUp
<1> QED
  BY <1>1, <1>2, <1>3, PTL DEF ServicesSpec

-----------------------------------------------------------------------------
(* The labels. The fold of _stabilize_directional_labels is brought into  *)
(* a closed form: a direction is shown in a week exactly if its label is  *)
(* confirmed and the last direction that was shown before is not another  *)
(* one of the cooldown. Everything else about the labels follows from it. *)

LabelsKnown == Labels!Directional \cup {"UNKNOWN", "STABILIZING", "PLATEAU", "NEUTRAL"}

SoFar == [shown : Seq(LabelsKnown), direction : {"NONE", "POSITIVE", "NEGATIVE"}, at : Nat]

NoneSoFar == [shown |-> <<>>, direction |-> "NONE", at |-> 0]

Show(raw, sofar, label) ==
    LET i     == Len(sofar.shown) + 1
        shows == Labels!Confirmed(raw, i) /\ ~Labels!OppositeInsideCooldown(sofar, label, i)
    IN  IF label \notin Labels!Directional
        THEN [sofar EXCEPT !.shown = Append(@, label)]
        ELSE IF shows
        THEN [shown |-> Append(sofar.shown, label), direction |-> Labels!Direction(label),
              at |-> i]
        ELSE [sofar EXCEPT !.shown = Append(@, "NEUTRAL")]

\* The fold, as the sets of weeks it goes through.
Weekly(raw) ==
    CHOOSE f : f = [s \in SUBSET (DOMAIN raw) |->
        IF s = {} THEN NoneSoFar ELSE Show(raw, f[s \ {Max(s)}], raw[Max(s)])]

\* What the library's FoldLeft is.
LEMMA StabilizedFolds ==
    ASSUME NEW raw
    PROVE  Labels!Stabilized(raw) = Weekly(raw)[DOMAIN raw].shown
BY Zenon DEF Labels!Stabilized, Labels!FoldLeft, Labels!MapThenFoldSet, Weekly, Show,
     NoneSoFar, Labels!Max, Max

\* A week leaves what the fold knows in its types.
LEMMA ShowTyped ==
    ASSUME NEW raw, NEW sofar \in SoFar, NEW label \in LabelsKnown
    PROVE  Show(raw, sofar, label) \in SoFar
<1>1. sofar = [shown |-> sofar.shown, direction |-> sofar.direction, at |-> sofar.at]
      /\ sofar.shown \in Seq(LabelsKnown) /\ sofar.direction \in {"NONE", "POSITIVE", "NEGATIVE"}
      /\ sofar.at \in Nat
  BY DEF SoFar
<1>2. /\ Append(sofar.shown, label) \in Seq(LabelsKnown)
      /\ Append(sofar.shown, "NEUTRAL") \in Seq(LabelsKnown)
      /\ Len(sofar.shown) + 1 \in Nat
      /\ Labels!Direction(label) \in {"POSITIVE", "NEGATIVE"}
  BY <1>1 DEF LabelsKnown, Labels!Direction
<1> QED
  BY <1>1, <1>2 DEF Show, SoFar

\* The fold goes from week to week.
LEMMA WeeklySteps ==
    ASSUME NEW raw \in Seq(LabelsKnown)
    PROVE  /\ Weekly(raw)[{}] = NoneSoFar
           /\ \A k \in 1..Len(raw) :
                Weekly(raw)[1..k] = Show(raw, Weekly(raw)[1..(k - 1)], raw[k])
<1> DEFINE n == Len(raw)
           S == 1..n
           combine == [x \in SoFar \X S |-> Show(raw, x[1], raw[x[2]])]
           pick == [s \in SUBSET S |-> Max(s)]
<1>1. n \in Nat /\ DOMAIN raw = S /\ IsFiniteSet(S) /\ \A i \in S : raw[i] \in LabelsKnown
  BY FS_Interval
<1>2. NoneSoFar \in SoFar
  BY DEF NoneSoFar, SoFar
<1>3. combine \in [SoFar \X S -> SoFar]
  BY <1>1, ShowTyped
<1>4. Picks(pick, S)
  BY <1>1, MaxIn DEF Picks
<1> HIDE DEF S, combine, pick
<1>5. PICK f : IsFold(f, S, SoFar, pick, NoneSoFar, combine)
  BY <1>1, <1>2, <1>3, <1>4, FoldsExist
<1> USE DEF S, combine, pick
<1>6. \A s \in SUBSET S :
        f[s] = IF s = {} THEN NoneSoFar ELSE Show(raw, f[s \ {Max(s)}], raw[Max(s)])
  BY <1>4, <1>5 DEF Picks, IsFold
<1>7. f = [s \in SUBSET (DOMAIN raw) |->
             IF s = {} THEN NoneSoFar ELSE Show(raw, f[s \ {Max(s)}], raw[Max(s)])]
  BY <1>1, <1>5, <1>6 DEF IsFold
<1>8. Weekly(raw) = [s \in SUBSET (DOMAIN raw) |->
             IF s = {} THEN NoneSoFar
             ELSE Show(raw, Weekly(raw)[s \ {Max(s)}], raw[Max(s)])]
  BY <1>7, Zenon DEF Weekly
<1>9. \A k \in 1..n : /\ (1..k) \in SUBSET (DOMAIN raw) /\ 1..k # {} /\ Max(1..k) = k
                      /\ (1..k) \ {k} = 1..(k - 1)
  BY <1>1, MaxOfInterval
<1>10. {} \in SUBSET (DOMAIN raw)
  OBVIOUS
<1>11. Weekly(raw)[{}] = NoneSoFar
  BY <1>8, <1>10
<1> HIDE DEF S, combine, pick
<1>12. ASSUME NEW k \in 1..n
       PROVE  Weekly(raw)[1..k] = Show(raw, Weekly(raw)[1..(k - 1)], raw[k])
  <2>1. /\ (1..k) \in SUBSET (DOMAIN raw) /\ 1..k # {} /\ Max(1..k) = k
        /\ (1..k) \ {k} = 1..(k - 1)
    BY <1>9
  <2> QED
    BY <1>8, <2>1, Zenon
<1> QED
  BY <1>11, <1>12

\* No direction other than the label's was the last to be shown in the cooldown before k.
NoneOpposite(shown, label, k) ==
    \A j \in 1..(k - 1) :
        /\ shown[j] \in Labels!Directional
        /\ \A m \in (j + 1)..(k - 1) : shown[m] \notin Labels!Directional
        /\ Labels!Direction(shown[j]) # Labels!Direction(label)
        => k - j > Cooldown

Settled(raw, shown, k) ==
    IF raw[k] \in Labels!Directional
       /\ ~(Labels!Confirmed(raw, k) /\ NoneOpposite(shown, raw[k], k))
    THEN "NEUTRAL" ELSE raw[k]

Settles(raw, shown) ==
    /\ shown \in Seq(LabelsKnown) /\ Len(shown) = Len(raw)
    /\ \A k \in 1..Len(raw) : shown[k] = Settled(raw, shown, k)

\* What the fold knows after k weeks.
KnowsLast(sofar, k) ==
    /\ sofar \in SoFar /\ Len(sofar.shown) = k
    /\ sofar.at = 0 => \A m \in 1..k : sofar.shown[m] \notin Labels!Directional
    /\ sofar.at # 0 =>
         /\ sofar.at \in 1..k /\ sofar.shown[sofar.at] \in Labels!Directional
         /\ sofar.direction = Labels!Direction(sofar.shown[sofar.at])
         /\ \A m \in (sofar.at + 1)..k : sofar.shown[m] \notin Labels!Directional

\* The last direction is what the cooldown is counted from.
LEMMA LastIsOpposite ==
    ASSUME Cooldown \in Nat, NEW k \in Nat, NEW sofar, KnowsLast(sofar, k), NEW label
    PROVE  Labels!OppositeInsideCooldown(sofar, label, k + 1)
             <=> ~NoneOpposite(sofar.shown, label, k + 1)
<1>1. CASE sofar.at = 0
  BY <1>1 DEF KnowsLast, Labels!OppositeInsideCooldown, NoneOpposite
<1>2. CASE sofar.at # 0
  <2> DEFINE a == sofar.at
  <2>1. /\ a \in 1..k /\ sofar.shown[a] \in Labels!Directional
        /\ sofar.direction = Labels!Direction(sofar.shown[a])
        /\ \A m \in (a + 1)..k : sofar.shown[m] \notin Labels!Directional
    BY <1>2 DEF KnowsLast
  <2>2. \A j \in 1..k :
          /\ sofar.shown[j] \in Labels!Directional
          /\ \A m \in (j + 1)..k : sofar.shown[m] \notin Labels!Directional
          => j = a
    <3> SUFFICES ASSUME NEW j \in 1..k, sofar.shown[j] \in Labels!Directional,
                        \A m \in (j + 1)..k : sofar.shown[m] \notin Labels!Directional
                 PROVE  j = a
      OBVIOUS
    <3>1. ~(j \in (a + 1)..k) /\ ~(a \in (j + 1)..k)
      BY <2>1
    <3> QED
      BY <2>1, <3>1
  <2>3. (k + 1) - 1 = k
    OBVIOUS
  <2> HIDE DEF a
  <2>4. NoneOpposite(sofar.shown, label, k + 1)
          <=> (Labels!Direction(sofar.shown[a]) # Labels!Direction(label) => (k + 1) - a > Cooldown)
    BY <2>1, <2>2, <2>3 DEF NoneOpposite
  <2>5. Labels!OppositeInsideCooldown(sofar, label, k + 1)
          <=> Labels!Direction(label) # sofar.direction /\ (k + 1) - a <= Cooldown
    BY <1>2, <2>1 DEF Labels!OppositeInsideCooldown, a
  <2> QED
    BY <2>1, <2>4, <2>5
<1> QED
  BY <1>1, <1>2

\* What is added to a history changes nothing before it.
LEMMA SettledBefore ==
    ASSUME NEW raw, NEW k \in Nat, NEW shown \in Seq(LabelsKnown), Len(shown) = k,
           NEW label \in LabelsKnown, NEW m \in 1..k
    PROVE  Settled(raw, Append(shown, label), m) = Settled(raw, shown, m)
<1>1. \A j \in 1..k : Append(shown, label)[j] = shown[j]
  OBVIOUS
<1>2. NoneOpposite(Append(shown, label), raw[m], m) = NoneOpposite(shown, raw[m], m)
  BY <1>1 DEF NoneOpposite
<1> QED
  BY <1>2 DEF Settled

\* A week more, and what is shown is settled.
LEMMA ShowSettles ==
    ASSUME Cooldown \in Nat, NEW raw \in Seq(LabelsKnown), NEW k \in Nat, k < Len(raw),
           NEW sofar, KnowsLast(sofar, k),
           \A m \in 1..k : sofar.shown[m] = Settled(raw, sofar.shown, m)
    PROVE  LET after == Show(raw, sofar, raw[k + 1])
           IN  /\ KnowsLast(after, k + 1)
               /\ \A m \in 1..(k + 1) : after.shown[m] = Settled(raw, after.shown, m)
<1> DEFINE label == raw[k + 1]
           after == Show(raw, sofar, label)
           new   == Settled(raw, sofar.shown, k + 1)
<1>0. label \in LabelsKnown /\ "NEUTRAL" \in LabelsKnown
      /\ "NEUTRAL" \notin Labels!Directional
  BY DEF LabelsKnown, Labels!Directional, Labels!Positive, Labels!Negative
<1>1. /\ sofar = [shown |-> sofar.shown, direction |-> sofar.direction, at |-> sofar.at]
      /\ sofar.shown \in Seq(LabelsKnown) /\ Len(sofar.shown) = k /\ sofar.at \in Nat
  BY DEF KnowsLast, SoFar
<1>2. /\ label \notin Labels!Directional => after.shown = Append(sofar.shown, label)
      /\ label \in Labels!Directional =>
           after.shown = Append(sofar.shown,
              IF Labels!Confirmed(raw, k + 1) /\ NoneOpposite(sofar.shown, label, k + 1)
              THEN label ELSE "NEUTRAL")
  BY <1>1, LastIsOpposite DEF Show
<1>3. new \in LabelsKnown /\ after.shown = Append(sofar.shown, new)
  BY <1>0, <1>2 DEF Settled
<1>4. after \in SoFar
  BY <1>0, ShowTyped DEF KnowsLast
<1>5. /\ Len(after.shown) = k + 1 /\ after.shown[k + 1] = new
      /\ \A m \in 1..k : after.shown[m] = sofar.shown[m]
  BY <1>1, <1>3
<1>6. NoneOpposite(after.shown, label, k + 1) = NoneOpposite(sofar.shown, label, k + 1)
  BY <1>5 DEF NoneOpposite
<1>7. after.shown[k + 1] = Settled(raw, after.shown, k + 1)
  BY <1>5, <1>6 DEF Settled
<1>8. \A m \in 1..k : after.shown[m] = Settled(raw, after.shown, m)
  BY <1>1, <1>3, <1>5, SettledBefore
<1>9. /\ new \in Labels!Directional =>
            after.at = k + 1 /\ after.direction = Labels!Direction(new)
      /\ new \notin Labels!Directional => after.at = sofar.at /\ after.direction = sofar.direction
  <2>1. new \in Labels!Directional =>
          /\ new = label /\ label \in Labels!Directional
          /\ Labels!Confirmed(raw, k + 1) /\ NoneOpposite(sofar.shown, label, k + 1)
    BY <1>0 DEF Settled
  <2>2. new \notin Labels!Directional =>
          ~(label \in Labels!Directional /\ Labels!Confirmed(raw, k + 1)
              /\ NoneOpposite(sofar.shown, label, k + 1))
    BY DEF Settled
  <2> HIDE DEF new
  <2>3. CASE new \in Labels!Directional
    BY <1>1, <2>1, <2>3, LastIsOpposite DEF Show
  <2>4. CASE new \notin Labels!Directional
    BY <1>1, <2>2, <2>4, LastIsOpposite DEF Show
  <2> QED
    BY <2>3, <2>4
<1> HIDE DEF new, after, label
<1>10. KnowsLast(after, k + 1)
  <2>1. CASE new \in Labels!Directional
    BY <1>4, <1>5, <1>9, <2>1 DEF KnowsLast
  <2>2. CASE new \notin Labels!Directional
    <3>1. after.at = sofar.at /\ after.direction = sofar.direction
      BY <1>9, <2>2
    <3>2. after.at = 0 => \A m \in 1..(k + 1) : after.shown[m] \notin Labels!Directional
      BY <1>5, <2>2, <3>1 DEF KnowsLast
    <3>3. after.at # 0 =>
            /\ after.at \in 1..k /\ after.shown[after.at] \in Labels!Directional
            /\ after.direction = Labels!Direction(after.shown[after.at])
            /\ \A m \in (after.at + 1)..k : after.shown[m] \notin Labels!Directional
      <4> SUFFICES ASSUME sofar.at # 0
                   PROVE  /\ sofar.at \in 1..k /\ after.shown[sofar.at] \in Labels!Directional
                          /\ sofar.direction = Labels!Direction(after.shown[sofar.at])
                          /\ \A m \in (sofar.at + 1)..k : after.shown[m] \notin Labels!Directional
        BY <3>1
      <4>1. /\ sofar.at \in 1..k /\ sofar.shown[sofar.at] \in Labels!Directional
            /\ sofar.direction = Labels!Direction(sofar.shown[sofar.at])
            /\ \A m \in (sofar.at + 1)..k : sofar.shown[m] \notin Labels!Directional
        BY DEF KnowsLast
      <4>2. \A m \in (sofar.at + 1)..k : after.shown[m] = sofar.shown[m]
        BY <1>5, <4>1
      <4> QED
        BY <1>5, <4>1, <4>2
    <3>4. after.at # 0 =>
            \A m \in (after.at + 1)..(k + 1) : after.shown[m] \notin Labels!Directional
      BY <1>5, <2>2, <3>3
    <3> QED
      BY <1>4, <1>5, <3>2, <3>3, <3>4 DEF KnowsLast
  <2> QED
    BY <2>1, <2>2
<1>11. \A m \in 1..(k + 1) : after.shown[m] = Settled(raw, after.shown, m)
  BY <1>7, <1>8
<1> QED
  BY <1>10, <1>11 DEF after, label

\* What _stabilize_directional_labels shows is what the weeks settle as.
LEMMA StabilizedSettles ==
    ASSUME Cooldown \in Nat, NEW raw \in Seq(LabelsKnown)
    PROVE  Settles(raw, Labels!Stabilized(raw))
<1> DEFINE n == Len(raw)
           Known(k) == LET sofar == Weekly(raw)[1..k]
                       IN  KnowsLast(sofar, k)
                           /\ \A m \in 1..k : sofar.shown[m] = Settled(raw, sofar.shown, m)
           T == {k \in Nat : k <= n => Known(k)}
<1>1. n \in Nat /\ DOMAIN raw = 1..n
  OBVIOUS
<1>2. 0 \in T
  <2>1. Weekly(raw)[1..0] = NoneSoFar
    BY WeeklySteps
  <2>2. KnowsLast(NoneSoFar, 0)
    BY DEF KnowsLast, NoneSoFar, SoFar
  <2> QED
    BY <2>1, <2>2
<1>3. ASSUME NEW k \in Nat, k \in T PROVE k + 1 \in T
  <2> SUFFICES ASSUME k + 1 <= n PROVE Known(k + 1)
    OBVIOUS
  <2>1. Known(k) /\ k < n
    BY <1>1, <1>3
  <2>2. Weekly(raw)[1..(k + 1)] = Show(raw, Weekly(raw)[1..k], raw[k + 1])
    <3>1. k + 1 \in 1..n /\ (k + 1) - 1 = k
      BY <1>1
    <3> QED
      BY <3>1, WeeklySteps
  <2> QED
    BY <2>1, <2>2, ShowSettles
<1>4. Known(n)
  <2> HIDE DEF T
  <2>1. n \in T
    BY <1>1, <1>2, <1>3, Induction
  <2> USE DEF T
  <2> HIDE DEF Known
  <2> QED
    BY <1>1, <2>1
<1>5. Labels!Stabilized(raw) = Weekly(raw)[1..n].shown
  BY <1>1, StabilizedFolds
<1> QED
  BY <1>4, <1>5 DEF Settles, KnowsLast, SoFar

-----------------------------------------------------------------------------
(* What the closed form says.                                             *)

\* A label has one of two directions, and the suppressed one has none to show.
LEMMA DirectionsAreTwo ==
    /\ \A label : Labels!Direction(label) \in {"POSITIVE", "NEGATIVE"}
    /\ "NEUTRAL" \notin Labels!Directional /\ "UNKNOWN" \notin Labels!Directional
    /\ Labels!Highlighted \subseteq Labels!Directional
BY DEF Labels!Direction, Labels!Directional, Labels!Positive, Labels!Negative, Labels!Highlighted

\* A direction that is shown is that of the week, confirmed and not opposite.
LEMMA ShownDirection ==
    ASSUME NEW raw, NEW shown, Settles(raw, shown), NEW k \in 1..Len(raw),
           shown[k] \in Labels!Directional
    PROVE  /\ raw[k] = shown[k] /\ Labels!Confirmed(raw, k)
           /\ NoneOpposite(shown, shown[k], k)
<1>1. shown[k] = Settled(raw, shown, k)
  BY DEF Settles
<1>2. raw[k] = shown[k]
  BY <1>1, DirectionsAreTwo DEF Settled
<1>3. Labels!Confirmed(raw, k) /\ NoneOpposite(shown, raw[k], k)
  BY <1>1, <1>2, DirectionsAreTwo DEF Settled
<1> QED
  BY <1>2, <1>3

\* Of two opposite labels with none between them the cooldown is the distance, and those
\* that are nearest have none between them.
LEMMA OppositesApart ==
    ASSUME Cooldown \in Nat, NEW raw \in Seq(LabelsKnown), NEW shown, Settles(raw, shown),
           NEW i \in 1..Len(raw), NEW j \in 1..Len(raw), i < j,
           shown[i] \in Labels!Directional, shown[j] \in Labels!Directional,
           Labels!Direction(shown[i]) # Labels!Direction(shown[j])
    PROVE  j - i > Cooldown
<1> DEFINE n == Len(raw)
           Turn(a, b) == /\ a < b
                         /\ shown[a] \in Labels!Directional /\ shown[b] \in Labels!Directional
                         /\ Labels!Direction(shown[a]) # Labels!Direction(shown[b])
           E == {d \in Nat : \E a, b \in 1..n : Turn(a, b) /\ d = b - a}
<1>1. n \in Nat
  OBVIOUS
<1>2. j - i \in E
  BY <1>1
<1>3. PICK d \in E : \A e \in E : d <= e
  BY <1>2, Least
<1>4. PICK a \in 1..n, b \in 1..n : Turn(a, b) /\ d = b - a
  BY <1>3
<1>5. ASSUME NEW m \in (a + 1)..(b - 1), shown[m] \in Labels!Directional PROVE FALSE
  <2>1. m \in 1..n /\ a < m /\ m < b
    BY <1>1
  <2>2. CASE Labels!Direction(shown[m]) = Labels!Direction(shown[a])
    <3>1. Turn(m, b)
      BY <1>4, <1>5, <2>1, <2>2
    <3>2. b - m \in E
      BY <2>1, <3>1
    <3> HIDE DEF E, Turn
    <3> QED
      BY <1>3, <1>4, <2>1, <3>2
  <2>3. CASE Labels!Direction(shown[m]) # Labels!Direction(shown[a])
    <3>1. Turn(a, m)
      BY <1>4, <1>5, <2>1, <2>3
    <3>2. m - a \in E
      BY <2>1, <3>1
    <3> HIDE DEF E, Turn
    <3> QED
      BY <1>3, <1>4, <2>1, <3>2
  <2> QED
    BY <2>2, <2>3
<1>6. b - a > Cooldown
  <2>1. NoneOpposite(shown, shown[b], b)
    BY <1>4, ShownDirection
  <2>2. a \in 1..(b - 1)
    BY <1>4
  <2> QED
    BY <1>4, <1>5, <2>1, <2>2 DEF NoneOpposite
<1>7. d <= j - i
  BY <1>2, <1>3
<1> QED
  BY <1>1, <1>4, <1>6, <1>7

\* While a confirmed label lasts it stays shown.
LEMMA LabelLasts ==
    ASSUME Cooldown \in Nat, Confirmation \in Nat \ {0}, NEW raw \in Seq(LabelsKnown),
           NEW shown, Settles(raw, shown), NEW i \in 1..Len(raw), NEW j \in 1..Len(raw), i <= j,
           shown[i] \in Labels!Directional, \A m \in i..j : raw[m] = shown[i]
    PROVE  \A m \in i..j : shown[m] = shown[i]
<1> DEFINE U == {m \in i..j : shown[m] # shown[i]}
<1> SUFFICES ASSUME U # {} PROVE FALSE
  OBVIOUS
<1>0. U \subseteq Nat
  OBVIOUS
<1>1. PICK m \in U : \A k \in U : m <= k
  <2> HIDE DEF U
  <2> QED
    BY <1>0, Least
<1>2. m \in i..j /\ m # i /\ m - 1 \in i..j /\ shown[m] # shown[i] /\ m \in 1..Len(raw)
  BY <1>1
<1>3. shown[m - 1] = shown[i]
  BY <1>1, <1>2
<1>4. Labels!Confirmed(raw, m)
  <2>1. i >= Confirmation /\ \A k \in (i - Confirmation + 1)..i : raw[k] = raw[i]
    BY ShownDirection DEF Labels!Confirmed
  <2>2. ASSUME NEW k \in (m - Confirmation + 1)..m PROVE raw[k] = shown[i]
    <3>1. CASE k \in i..m
      BY <1>2, <3>1
    <3>2. CASE k \in (i - Confirmation + 1)..i
      BY <2>1, <3>2, ShownDirection
    <3> QED
      BY <1>2, <2>2, <3>1, <3>2
  <2>3. raw[m] = shown[i]
    BY <1>2
  <2> QED
    BY <1>2, <2>1, <2>2, <2>3 DEF Labels!Confirmed
<1>5. NoneOpposite(shown, raw[m], m)
  <2> SUFFICES ASSUME NEW k \in 1..(m - 1),
                      \A l \in (k + 1)..(m - 1) : shown[l] \notin Labels!Directional
               PROVE  Labels!Direction(shown[k]) = Labels!Direction(raw[m])
    BY DEF NoneOpposite
  <2>1. k = m - 1
    BY <1>2, <1>3
  <2> QED
    BY <1>2, <1>3, <2>1
<1>6. shown[m] = raw[m]
  BY <1>2, <1>4, <1>5 DEF Settles, Settled
<1> QED
  BY <1>2, <1>6

\* So an event does not come again before its label has been away for a confirmation.
LEMMA EventsConfirmed ==
    ASSUME Cooldown \in Nat, Confirmation \in Nat \ {0}, NEW raw \in Seq(LabelsKnown),
           NEW shown, Settles(raw, shown), NEW i \in 1..Len(raw), NEW j \in 1..Len(raw), i < j,
           Labels!TransitionEvent(shown, i), Labels!TransitionEvent(shown, j)
    PROVE  j - i >= Confirmation
<1> SUFFICES ASSUME j - i < Confirmation PROVE FALSE
  OBVIOUS
<1>1. /\ shown[i] \in Labels!Directional /\ shown[j] \in Labels!Directional
      /\ shown[j] # shown[j - 1]
  BY DirectionsAreTwo DEF Labels!TransitionEvent
<1>2. /\ raw[j] = shown[j] /\ \A m \in (j - Confirmation + 1)..j : raw[m] = raw[j]
      /\ raw[i] = shown[i]
  BY <1>1, ShownDirection DEF Labels!Confirmed
<1>3. \A m \in i..j : raw[m] = shown[i]
  <2>1. \A m \in i..j : m \in (j - Confirmation + 1)..j
    OBVIOUS
  <2> QED
    BY <1>2, <2>1
<1>4. \A m \in i..j : shown[m] = shown[i]
  BY <1>1, <1>3, LabelLasts
<1>5. j - 1 \in i..j /\ j \in i..j
  OBVIOUS
<1> QED
  BY <1>1, <1>4, <1>5

-----------------------------------------------------------------------------
(* Two histories of one ticker, the second without the first o weeks.      *)

\* Neither shows a direction for a cooldown from week q on.
QuietFor(full, win, o, q) ==
    \A m \in q..(q + Cooldown - 1) :
        full[m] \notin Labels!Directional /\ win[m - o] \notin Labels!Directional

\* What the cooldown sees in the two, once they have shown the same since week c, and
\* no direction for a cooldown before it.
LEMMA SameOpposites ==
    ASSUME Cooldown \in Nat, NEW full, NEW win, NEW o \in Nat, NEW q \in Nat, NEW i \in Nat,
           o + 1 <= q, q + Cooldown <= i, NEW label,
           \A m \in (q + Cooldown)..(i - 1) : full[m] = win[m - o],
           QuietFor(full, win, o, q)
    PROVE  NoneOpposite(full, label, i) <=> NoneOpposite(win, label, i - o)
<1> USE DEF QuietFor
<1>1. ASSUME NoneOpposite(full, label, i) PROVE NoneOpposite(win, label, i - o)
  <2> SUFFICES ASSUME NEW k \in 1..(i - o - 1), win[k] \in Labels!Directional,
                      \A m \in (k + 1)..(i - o - 1) : win[m] \notin Labels!Directional,
                      Labels!Direction(win[k]) # Labels!Direction(label)
               PROVE  (i - o) - k > Cooldown
    BY DEF NoneOpposite
  <2>1. k + o \in 1..(i - 1) /\ (k + o) - o = k /\ k \in Nat
    OBVIOUS
  <2>2. CASE k + o >= q + Cooldown
    <3>1. full[k + o] = win[k]
      BY <2>1, <2>2
    <3>2. ASSUME NEW m \in (k + o + 1)..(i - 1) PROVE full[m] \notin Labels!Directional
      <4>1. m - o \in (k + 1)..(i - o - 1) /\ m \in (q + Cooldown)..(i - 1)
        BY <2>2
      <4> QED
        BY <4>1
    <3> QED
      BY <1>1, <2>1, <3>1, <3>2 DEF NoneOpposite
  <2>3. CASE k + o < q + Cooldown
    <3>1. ~(k + o \in q..(q + Cooldown - 1))
      BY <2>1
    <3> QED
      BY <2>1, <2>3, <3>1
  <2> QED
    BY <2>1, <2>2, <2>3
<1>2. ASSUME NoneOpposite(win, label, i - o) PROVE NoneOpposite(full, label, i)
  <2> SUFFICES ASSUME NEW k \in 1..(i - 1), full[k] \in Labels!Directional,
                      \A m \in (k + 1)..(i - 1) : full[m] \notin Labels!Directional,
                      Labels!Direction(full[k]) # Labels!Direction(label)
               PROVE  i - k > Cooldown
    BY DEF NoneOpposite
  <2>1. CASE k >= q + Cooldown
    <3>1. k - o \in 1..(i - o - 1) /\ full[k] = win[k - o]
      BY <2>1
    <3>2. ASSUME NEW m \in (k - o + 1)..(i - o - 1) PROVE win[m] \notin Labels!Directional
      <4>1. m + o \in (k + 1)..(i - 1) /\ m + o \in (q + Cooldown)..(i - 1) /\ (m + o) - o = m
        BY <2>1
      <4> QED
        BY <4>1
    <3>3. (i - o) - (k - o) > Cooldown
      BY <1>2, <3>1, <3>2 DEF NoneOpposite
    <3> QED
      BY <3>3
  <2>2. CASE k < q + Cooldown
    <3>1. ~(k \in q..(q + Cooldown - 1))
      OBVIOUS
    <3> QED
      BY <2>2, <3>1
  <2> QED
    BY <2>1, <2>2
<1> QED
  BY <1>1, <1>2

\* The labels are the same where they are known.
FollowsKnown(cut, raw, o) ==
    /\ Len(cut) = Len(raw) - o
    /\ \A l \in 1..Len(cut) : l >= Memory => cut[l] = raw[l + o]

\* From there on they show the same.
LEMMA SameSettled ==
    ASSUME Cooldown \in Nat, Confirmation \in Nat \ {0}, Memory \in Nat \ {0},
           NEW raw \in Seq(LabelsKnown), NEW full, Settles(raw, full),
           NEW cut \in Seq(LabelsKnown), NEW win, Settles(cut, win),
           NEW o \in Nat, FollowsKnown(cut, raw, o),
           NEW q \in Nat, o + Memory + Confirmation - 1 <= q, QuietFor(full, win, o, q)
    PROVE  \A i \in (q + Cooldown)..Len(raw) : full[i] = win[i - o]
<1> USE DEF FollowsKnown
<1> DEFINE n == Len(raw)
           U == {i \in (q + Cooldown)..n : full[i] # win[i - o]}
<1> SUFFICES ASSUME U # {} PROVE FALSE
  OBVIOUS
<1>0. U \subseteq Nat /\ n \in Nat
  OBVIOUS
<1>1. PICK i \in U : \A k \in U : i <= k
  <2> HIDE DEF U
  <2> QED
    BY <1>0, Least
<1>2. /\ full[i] # win[i - o] /\ i \in Nat /\ q + Cooldown <= i /\ i <= n
      /\ i \in 1..n /\ i - o \in 1..Len(cut) /\ i - o >= Memory
      /\ i - o >= Confirmation /\ i - o - Confirmation + 1 >= Memory
      /\ o + 1 <= q
  BY <1>0, <1>1
<1>3. \A m \in (q + Cooldown)..(i - 1) : full[m] = win[m - o]
  <2> SUFFICES ASSUME NEW m \in (q + Cooldown)..(i - 1) PROVE m \notin U
    BY <1>0, <1>2
  <2>1. m < i
    BY <1>2
  <2> HIDE DEF U
  <2> QED
    BY <1>0, <1>1, <2>1
<1> HIDE DEF U
<1>4. cut[i - o] = raw[i]
  BY <1>2
<1>5. Labels!Confirmed(raw, i) <=> Labels!Confirmed(cut, i - o)
  <2>1. i >= Confirmation /\ i - o >= Confirmation
    BY <1>2
  <2>2. \A k \in (i - Confirmation + 1)..i :
          /\ k - o \in (i - o - Confirmation + 1)..(i - o)
          /\ cut[k - o] = raw[k]
    <3> SUFFICES ASSUME NEW k \in (i - Confirmation + 1)..i
                 PROVE  /\ k - o \in (i - o - Confirmation + 1)..(i - o)
                        /\ cut[k - o] = raw[k]
      OBVIOUS
    <3>1. k - o \in 1..Len(cut) /\ k - o >= Memory /\ (k - o) + o = k
      BY <1>0, <1>2
    <3> QED
      BY <1>2, <3>1
  <2>3. \A k \in (i - o - Confirmation + 1)..(i - o) :
          k + o \in (i - Confirmation + 1)..i /\ (k + o) - o = k
    BY <1>2
  <2> QED
    BY <1>4, <2>1, <2>2, <2>3 DEF Labels!Confirmed
<1>6. NoneOpposite(full, raw[i], i) <=> NoneOpposite(win, raw[i], i - o)
  <2>1. o + 1 <= q /\ q + Cooldown <= i /\ i \in Nat
    BY <1>2
  <2> QED
    BY <1>3, <2>1, SameOpposites, Zenon
<1>7. full[i] = Settled(raw, full, i) /\ win[i - o] = Settled(cut, win, i - o)
  BY <1>2 DEF Settles
<1>8. Settled(raw, full, i) = Settled(cut, win, i - o)
  BY <1>4, <1>5, <1>6 DEF Settled
<1> QED
  BY <1>2, <1>7, <1>8

-----------------------------------------------------------------------------
(* The labels of a history before any is suppressed.                      *)

\* They are known from the week on that has the memory behind it.
LEMMA RawKnown ==
    ASSUME NEW history, NEW i
    PROVE  /\ Labels!RawTransition(history, i) \in LabelsKnown
           /\ Labels!RawTransition(history, i) = "UNKNOWN" <=> ~Labels!FullyObserved(i)
BY DEF Labels!RawTransition, LabelsKnown, Labels!Directional, Labels!Positive, Labels!Negative

LEMMA RawTyped ==
    ASSUME NEW history \in Seq(Observations)
    PROVE  /\ Labels!RawTransitions(history) \in Seq(LabelsKnown)
           /\ Len(Labels!RawTransitions(history)) = Len(history)
           /\ \A i \in 1..Len(history) :
                Labels!RawTransitions(history)[i] = Labels!RawTransition(history, i)
<1> DEFINE raw == [i \in 1..Len(history) |-> Labels!RawTransition(history, i)]
<1>1. Labels!RawTransitions(history) = raw
  BY DEF Labels!RawTransitions
<1>2. raw \in [1..Len(history) -> LabelsKnown]
  BY RawKnown
<1>3. Len(history) \in Nat
  OBVIOUS
<1>4. raw \in Seq(LabelsKnown) /\ Len(raw) = Len(history)
  <2> HIDE DEF raw
  <2> QED
    BY <1>2, <1>3
<1> QED
  BY <1>1, <1>4

\* A history without its first o weeks.
Follows(cut, full, o) == \A k \in 1..Len(cut) : cut[k] = full[k + o]

\* They depend on the weeks of the memory only.
LEMMA RawShifts ==
    ASSUME Labels!TransitionAssumption, NEW full, NEW cut \in Seq(Observations), NEW o \in Nat,
           Follows(cut, full, o), NEW i \in 1..Len(cut), i >= Memory
    PROVE  Labels!RawTransition(cut, i) = Labels!RawTransition(full, i + o)
<1>1. /\ Short \in Nat /\ Memory \in Nat /\ Short < Memory
      /\ i \in Nat /\ i - Short \in 1..Len(cut) /\ (i + o) - Short = (i - Short) + o
  BY DEF Labels!TransitionAssumption
<1>2. /\ cut[i] = full[i + o]
      /\ cut[i - Short] = full[(i + o) - Short]
  BY <1>1 DEF Follows
<1>3. /\ Labels!Delta(cut, i) = Labels!Delta(full, i + o)
      /\ Labels!UpVotes(cut, i) = Labels!UpVotes(full, i + o)
      /\ Labels!DownVotes(cut, i) = Labels!DownVotes(full, i + o)
  BY <1>2, Zenon DEF Labels!Delta, Labels!UpVotes, Labels!DownVotes
<1>4. Labels!Recent(cut, i) = Labels!Recent(full, i + o)
  <2>1. \A k \in (i - Memory + 1)..i :
          k + o \in ((i + o) - Memory + 1)..(i + o) /\ cut[k] = full[k + o]
    BY <1>1 DEF Follows
  <2>2. \A k \in ((i + o) - Memory + 1)..(i + o) :
          k - o \in (i - Memory + 1)..i /\ (k - o) + o = k
    BY <1>1
  <2>3. ASSUME NEW x \in Labels!Recent(cut, i) PROVE x \in Labels!Recent(full, i + o)
    <3>1. PICK k \in (i - Memory + 1)..i : x = Labels!State(cut[k])
      BY DEF Labels!Recent
    <3>2. \E m \in ((i + o) - Memory + 1)..(i + o) : x = Labels!State(full[m])
      BY <2>1, <3>1
    <3> QED
      BY <3>2, Zenon DEF Labels!Recent
  <2>4. ASSUME NEW x \in Labels!Recent(full, i + o) PROVE x \in Labels!Recent(cut, i)
    <3>1. PICK k \in ((i + o) - Memory + 1)..(i + o) : x = Labels!State(full[k])
      BY DEF Labels!Recent
    <3>2. \E m \in (i - Memory + 1)..i : x = Labels!State(cut[m])
      BY <2>1, <2>2, <3>1
    <3> QED
      BY <3>2, Zenon DEF Labels!Recent
  <2> QED
    BY <2>3, <2>4
<1>5. Labels!FullyObserved(i) /\ Labels!FullyObserved(i + o)
  BY <1>1 DEF Labels!FullyObserved
<1> QED
  BY <1>2, <1>3, <1>4, <1>5, Zenon DEF Labels!RawTransition

-----------------------------------------------------------------------------
(* The labels of the weeks a behaviour has.                                *)

\* A history has the observations of its weeks.
LEMMA WeeksInvariance == ServicesSpec => [](weeks \in Seq(Observations))
<1>1. ServicesInit => weeks \in Seq(Observations)
  BY DEF ServicesInit, Labels!Init
<1>2. weeks \in Seq(Observations) /\ [ServicesNext]_services => (weeks \in Seq(Observations))'
  <2> SUFFICES ASSUME weeks \in Seq(Observations), [ServicesNext]_services
               PROVE  weeks' \in Seq(Observations)
    OBVIOUS
  <2>1. CASE UNCHANGED weeks
    BY <2>1
  <2>2. CASE Labels!Next
    BY <2>2 DEF Labels!Next
  <2> QED
    BY <2>1, <2>2, StepsApart
<1> QED
  BY <1>1, <1>2, PTL DEF ServicesSpec

\* What is shown of a history is what its labels settle as.
LEMMA TransitionsSettle ==
    ASSUME Labels!TransitionAssumption, NEW history \in Seq(Observations)
    PROVE  Settles(Labels!RawTransitions(history), Labels!Transitions(history))
BY RawTyped, StabilizedSettles DEF Labels!Transitions, Labels!TransitionAssumption

\* The labels are those of the weeks, but for what is suppressed as neutral, and are known
\* from the week on that has the memory behind it.
LEMMA LabelsTyped ==
    ASSUME Labels!TransitionAssumption, weeks \in Seq(Observations)
    PROVE  Labels!TypeOK
<1> DEFINE raw == Labels!RawTransitions(weeks)
           shown == Labels!Transitions(weeks)
<1>1. Settles(raw, shown) /\ raw \in Seq(LabelsKnown) /\ Len(raw) = Len(weeks)
  BY TransitionsSettle, RawTyped
<1>2. ASSUME NEW i \in DOMAIN weeks
      PROVE  /\ shown[i] = "UNKNOWN" <=> i < Memory
             /\ shown[i] \in {raw[i], "NEUTRAL"}
  <2>1. i \in 1..Len(raw) /\ i \in Nat
    BY <1>1
  <2>2. raw[i] = "UNKNOWN" <=> i < Memory
    <3>1. raw[i] = Labels!RawTransition(weeks, i)
      BY <1>1, <2>1, RawTyped
    <3>2. Labels!FullyObserved(i) <=> ~(i < Memory)
      BY <2>1 DEF Labels!FullyObserved, Labels!TransitionAssumption
    <3> HIDE DEF raw
    <3> QED
      BY <3>1, <3>2, RawKnown
  <2> HIDE DEF raw, shown
  <2>3. shown[i] = Settled(raw, shown, i)
    BY <1>1, <2>1 DEF Settles
  <2> QED
    BY <2>2, <2>3, DirectionsAreTwo DEF Settled
<1>3. Len(shown) = Len(weeks)
  BY <1>1 DEF Settles
<1> QED
  BY <1>2, <1>3 DEF Labels!TypeOK

\* The cooldown and the confirmation hold over the whole history.
LEMMA NoneSoon ==
    ASSUME Labels!TransitionAssumption, weeks \in Seq(Observations)
    PROVE  Labels!NoOppositeInCooldown /\ Labels!EventsApart
<1> DEFINE raw == Labels!RawTransitions(weeks)
           shown == Labels!Transitions(weeks)
<1>1. Settles(raw, shown) /\ raw \in Seq(LabelsKnown)
  BY TransitionsSettle, RawTyped
<1>2. DOMAIN shown = 1..Len(raw)
  BY <1>1 DEF Settles
<1>3. Cooldown \in Nat /\ Confirmation \in Nat \ {0}
  BY DEF Labels!TransitionAssumption
<1> HIDE DEF raw, shown
<1>4. \A i, j \in 1..Len(raw) :
        i < j /\ shown[i] \in Labels!Directional /\ shown[j] \in Labels!Directional
            /\ Labels!Direction(shown[i]) # Labels!Direction(shown[j]) => j - i > Cooldown
  BY <1>1, <1>3, OppositesApart
<1>5. \A i, j \in 1..Len(raw) :
        i < j /\ Labels!TransitionEvent(shown, i) /\ Labels!TransitionEvent(shown, j)
            => j - i >= Confirmation
  BY <1>1, <1>3, EventsConfirmed
<1>6. Labels!NoOppositeInCooldown
  BY <1>2, <1>4 DEF Labels!NoOppositeInCooldown, shown
<1>7. Labels!EventsApart
  BY <1>2, <1>5 DEF Labels!EventsApart, shown
<1> QED
  BY <1>6, <1>7

\* A history that starts later has the same labels, from the week on that has the memory
\* and the confirmation in both and no direction for a cooldown before it.
LEMMA HistoriesAgree ==
    ASSUME Labels!TransitionAssumption, weeks \in Seq(Observations)
    PROVE  Labels!WindowsAgree
<1> DEFINE now == Len(weeks)
           full == Labels!Transitions(weeks)
<1> SUFFICES ASSUME NEW start \in 2..(now - Memory - Confirmation - Cooldown + 2),
                    NEW q \in (start + Memory + Confirmation - 2)..(now - Cooldown),
                    \A k \in q..(q + Cooldown - 1) :
                        /\ full[k] \notin Labels!Directional
                        /\ Labels!Transitions(SubSeq(weeks, start, now))[k - start + 1]
                             \notin Labels!Directional
             PROVE  full[now] = Labels!Transitions(SubSeq(weeks, start, now))[now - start + 1]
  BY DEF Labels!WindowsAgree
<1> DEFINE o == start - 1
           late == SubSeq(weeks, start, now)
           raw == Labels!RawTransitions(weeks)
           cut == Labels!RawTransitions(late)
           win == Labels!Transitions(late)
<1>0. /\ Cooldown \in Nat /\ Confirmation \in Nat \ {0} /\ Memory \in Nat \ {0}
      /\ now \in Nat
  BY DEF Labels!TransitionAssumption
<1>1. /\ o \in Nat /\ q \in Nat /\ start \in Nat /\ o + 1 = start /\ start <= now
      /\ o + Memory + Confirmation - 1 <= q /\ q + Cooldown <= now
      /\ now \in (q + Cooldown)..now
      /\ \A k \in Int : k - start + 1 = k - o
  BY <1>0
<1>2. /\ late \in Seq(Observations) /\ Len(late) = now - o
      /\ Follows(late, weeks, o)
  <2>1. start \in 1..(now + 1) /\ now \in (start - 1)..now
    BY <1>0, <1>1
  <2> QED
    BY <1>0, <1>1, <2>1 DEF Follows
<1>3. /\ Settles(raw, full) /\ raw \in Seq(LabelsKnown) /\ Len(raw) = now
      /\ Settles(cut, win) /\ cut \in Seq(LabelsKnown) /\ Len(cut) = now - o
  BY <1>2, TransitionsSettle, RawTyped
<1>4. ASSUME NEW k \in 1..Len(cut), k >= Memory
      PROVE  cut[k] = raw[k + o]
  <2>1. k \in 1..Len(late) /\ k + o \in 1..Len(weeks) /\ Len(late) \in Nat
    BY <1>1, <1>2, <1>3
  <2>2. cut[k] = Labels!RawTransition(late, k)
    BY <1>2, <2>1, RawTyped
  <2>3. raw[k + o] = Labels!RawTransition(weeks, k + o)
    BY <2>1, RawTyped
  <2> HIDE DEF late, cut, raw, o, now
  <2>4. Labels!RawTransition(late, k) = Labels!RawTransition(weeks, k + o)
    BY <1>1, <1>2, <1>4, <2>1, RawShifts
  <2> QED
    BY <2>2, <2>3, <2>4
<1>5. FollowsKnown(cut, raw, o) /\ QuietFor(full, win, o, q)
  BY <1>0, <1>1, <1>3, <1>4 DEF FollowsKnown, QuietFor
<1> HIDE DEF full, win, raw, cut, late, o, now
<1>6. \A i \in (q + Cooldown)..Len(raw) : full[i] = win[i - o]
  BY <1>0, <1>1, <1>3, <1>5, SameSettled
<1>7. full[now] = win[now - o] /\ now - o = now - start + 1
  <2>1. now \in (q + Cooldown)..Len(raw) /\ now \in Int
    BY <1>0, <1>1, <1>3
  <2>2. now - o = now - start + 1
    BY <1>1, <2>1
  <2> QED
    BY <1>6, <2>1, <2>2
<1> QED
  BY <1>7 DEF full, win, late, now

\* No label of the other direction comes inside the cooldown, and the events of one ticker
\* are a confirmation apart, of any length of history and whatever the scores.
THEOREM TurnsAreApart == ServicesSpec => []LabelsApart
<1>1. weeks \in Seq(Observations) => LabelsApart
  BY ServicesAssumption, NoneSoon DEF LabelsApart
<1> QED
  BY <1>1, WeeksInvariance, PTL

\* Two runs that label histories of different starts agree on the label of a week.
THEOREM LabelsOfWindowsAgree == ServicesSpec => []WindowsAgree
<1>1. weeks \in Seq(Observations) => WindowsAgree
  BY ServicesAssumption, HistoriesAgree DEF WindowsAgree
<1> QED
  BY <1>1, WeeksInvariance, PTL

-----------------------------------------------------------------------------
(* The heartbeat. What is in a file is at least as old as the process is  *)
(* gone. While a daemon starts or serves one of its threads writes at a   *)
(* time, into the temporary file, so that the file readers see is the     *)
(* last pulse that was written, and no older than the pulses missed       *)
(* since, and the one that is to come.                                    *)

States == [status : {"RUNNING", "STOPPED"}, age : 0..(MaxAge + 1)]

PulseTypes ==
    /\ stage \in Pulse!Stages /\ due \in BOOLEAN
    /\ downFor \in 0..(MaxAge + 1) /\ missed \in 0..(MaxAge + 1)
    /\ step \in [Pulse!Writers -> {"idle", "stamped", "opened", "written"}]
    /\ open \in [Pulse!Writers -> Pulse!Inodes \cup {0}]
    /\ stamp \in [Pulse!Writers -> {Nothing, Pulse!Stamp("RUNNING"), Pulse!Stamp("STOPPED")}]
    /\ named \in [path : Pulse!Inodes \cup {0}, temporary : Pulse!Inodes \cup {0}]
    /\ content \in [Pulse!Inodes -> States \cup {Nothing}]

\* A file has one name, and a pulse says that the daemon runs.
FilesFit ==
    /\ named.path # 0 => named.path # named.temporary
    /\ \A w \in Pulse!Writers : step[w] = "opened" <=> open[w] # 0
    /\ step["pulse"] \in {"stamped", "opened"} => stamp["pulse"] = Pulse!Stamp("RUNNING")

OneWriter ==
    /\ stage \in {"starting", "catching up"} => step["pulse"] = "idle"
    /\ stage \in {"catching up", "serving"} => step["main"] = "idle"
    /\ stage \in {"starting", "catching up", "serving"} =>
         \A w \in Pulse!Writers : open[w] # 0 => open[w] = named.temporary
    /\ stage = "serving" /\ step["pulse"] \in {"opened", "written"} => named.temporary # 0
    /\ stage = "serving" /\ step["pulse"] = "written" =>
         content[named.temporary] = Pulse!Stamp("RUNNING")

FilesAge ==
    /\ downFor > 0 => Pulse!Ended
    /\ \A i \in Pulse!Inodes : content[i] # Nothing => content[i].age >= downFor

\* The pulse of a minute that has begun.
Coming == IF due \/ step["pulse"] # "idle" THEN 1 ELSE 0

Heard ==
    stage = "serving" /\ missed <= MaxAge =>
        /\ named.path # 0 /\ content[named.path] # Nothing
        /\ content[named.path].status = "RUNNING"
        /\ content[named.path].age <= missed + Coming

PulseInvariant == PulseTypes /\ FilesFit /\ OneWriter /\ FilesAge /\ Heard

\* Minutes are counted,
LEMMA CountedIs ==
    ASSUME Pulse!HeartbeatAssumption, NEW n \in 0..(MaxAge + 1)
    PROVE  /\ Pulse!Counted(n) \in 0..(MaxAge + 1) /\ Pulse!Counted(n) >= n
           /\ n <= MaxAge => Pulse!Counted(n) = n + 1
           /\ \A m \in 0..(MaxAge + 1) : m <= n => Pulse!Counted(m) <= Pulse!Counted(n)
  BY DEF Pulse!Counted, Pulse!HeartbeatAssumption

\* and what is in a file grows older.
LEMMA OlderIs ==
    ASSUME Pulse!HeartbeatAssumption, NEW s \in States \cup {Nothing}
    PROVE  /\ Pulse!Older(s) \in States \cup {Nothing}
           /\ Pulse!Older(s) = Nothing <=> s = Nothing
           /\ s # Nothing => /\ Pulse!Older(s).status = s.status
                             /\ Pulse!Older(s).age = Pulse!Counted(s.age)
                             /\ s.age \in 0..(MaxAge + 1)
<1>1. CASE s = Nothing
  BY <1>1 DEF Pulse!Older
<1>2. CASE s # Nothing
  <2>1. s \in States /\ s.age \in 0..(MaxAge + 1)
    BY <1>2 DEF States
  <2>2. Pulse!Counted(s.age) \in 0..(MaxAge + 1)
    BY <2>1, CountedIs
  <2>3. Pulse!Older(s) = [s EXCEPT !.age = Pulse!Counted(s.age)]
    BY <1>2 DEF Pulse!Older
  <2>4. Pulse!Older(s) \in States /\ Pulse!Older(s).status = s.status /\ Pulse!Older(s).age = Pulse!Counted(s.age)
    BY <2>1, <2>2, <2>3 DEF States
  <2>5. Nothing \notin States
    BY DEF States, Pulse!HeartbeatAssumption
  <2> QED
    BY <1>2, <2>1, <2>4, <2>5
<1> QED
  BY <1>1, <1>2

\* What a pulse writes is new.
LEMMA StampIs ==
    ASSUME Pulse!HeartbeatAssumption, NEW status \in {"RUNNING", "STOPPED"}
    PROVE  /\ Pulse!Stamp(status) \in States /\ Pulse!Stamp(status) # Nothing
           /\ Pulse!Stamp(status).status = status /\ Pulse!Stamp(status).age = 0
  BY DEF States, Pulse!Stamp, Pulse!HeartbeatAssumption

\* Every step of the daemon and of its writers keeps the invariant.
LEMMA PulseSteps ==
    ASSUME Pulse!HeartbeatAssumption, PulseInvariant, Pulse!Next
    PROVE  PulseInvariant'
<1> USE DEF PulseInvariant
<1>0. /\ MaxAge \in Nat /\ 0 \in 0..(MaxAge + 1) /\ MaxAge + 1 \in 0..(MaxAge + 1)
      /\ ~(MaxAge + 1 <= MaxAge)
  BY DEF Pulse!HeartbeatAssumption
<1>1. ASSUME Pulse!Start PROVE PulseInvariant'
  <2>1. PulseTypes'
    <3>1. stage' \in Pulse!Stages /\ downFor' \in 0..(MaxAge + 1)
      BY <1>0, <1>1 DEF Pulse!Start, Pulse!Stages
    <3>2. step' \in [Pulse!Writers -> {"idle", "stamped", "opened", "written"}]
      BY <1>1 DEF Pulse!Start, Pulse!Begin, PulseTypes
    <3>3. stamp' \in [Pulse!Writers -> {Nothing, Pulse!Stamp("RUNNING"), Pulse!Stamp("STOPPED")}]
      BY <1>1 DEF Pulse!Start, Pulse!Begin, PulseTypes
    <3> QED
      BY <1>1, <3>1, <3>2, <3>3 DEF Pulse!Start, PulseTypes
  <2>2. FilesFit'
    BY <1>0, <1>1, StampIs DEF Pulse!Start, Pulse!Begin, PulseTypes, FilesFit,
                               Pulse!Writers, Pulse!Ended, Pulse!Inodes
  <2>3. OneWriter'
    BY <1>0, <1>1, StampIs DEF Pulse!Start, Pulse!Begin, PulseTypes, FilesFit, OneWriter,
                               Pulse!Ended, Pulse!Writers
  <2>4. FilesAge'
    BY <1>0, <1>1, StampIs DEF Pulse!Start, Pulse!Begin, PulseTypes, FilesAge, States,
                               Pulse!Stamp, Pulse!Ended, Pulse!Writers,
                               Pulse!HeartbeatAssumption
  <2>5. Heard'
    BY <1>0, <1>1, StampIs DEF Pulse!Start, Pulse!Begin, PulseTypes, FilesFit, OneWriter,
                               Heard, Coming, Pulse!Writers
  <2> QED
    BY <2>1, <2>2, <2>3, <2>4, <2>5
<1>2. ASSUME Pulse!Serve PROVE PulseInvariant'
  <2>1. PulseTypes'
    BY <1>0, <1>2 DEF Pulse!Serve, PulseTypes, Pulse!Stages, Pulse!Writers
  <2>2. FilesFit'
    BY <1>0, <1>2 DEF Pulse!Serve, PulseTypes, FilesFit, Pulse!Writers, Pulse!Ended,
                      Pulse!Inodes
  <2>3. OneWriter'
    BY <1>0, <1>2 DEF Pulse!Serve, PulseTypes, FilesFit, OneWriter, Pulse!Ended,
                      Pulse!Writers
  <2>4. FilesAge'
    BY <1>0, <1>2 DEF Pulse!Serve, PulseTypes, FilesAge, States, Pulse!Stamp, Pulse!Ended,
                      Pulse!Writers, Pulse!HeartbeatAssumption
  <2>5. Heard'
    <3>1. ~(missed' <= MaxAge)
      BY <1>0, <1>2 DEF Pulse!Serve
    <3> QED
      BY <3>1 DEF Heard
  <2> QED
    BY <2>1, <2>2, <2>3, <2>4, <2>5
<1>3. ASSUME Pulse!Pulse PROVE PulseInvariant'
  <2>1. PulseTypes'
    BY <1>0, <1>3, StampIs DEF Pulse!Pulse, Pulse!Begin, PulseTypes, Pulse!Stages,
                               Pulse!Writers
  <2>2. FilesFit'
    BY <1>0, <1>3, StampIs DEF Pulse!Pulse, Pulse!Begin, PulseTypes, FilesFit,
                               Pulse!Writers, Pulse!Ended, Pulse!Inodes
  <2>3. OneWriter'
    BY <1>0, <1>3, StampIs DEF Pulse!Pulse, Pulse!Begin, PulseTypes, FilesFit, OneWriter,
                               Pulse!Ended, Pulse!Writers
  <2>4. FilesAge'
    BY <1>0, <1>3, StampIs DEF Pulse!Pulse, Pulse!Begin, PulseTypes, FilesAge, States,
                               Pulse!Stamp, Pulse!Ended, Pulse!Writers,
                               Pulse!HeartbeatAssumption
  <2>5. Heard'
    BY <1>0, <1>3, StampIs DEF Pulse!Pulse, Pulse!Begin, PulseTypes, FilesFit, OneWriter,
                               Heard, Coming, Pulse!Writers
  <2> QED
    BY <2>1, <2>2, <2>3, <2>4, <2>5
<1>4. ASSUME Pulse!Miss PROVE PulseInvariant'
  <2>1. PulseTypes'
    <3>1. missed' \in 0..(MaxAge + 1)
      BY <1>4, CountedIs DEF Pulse!Miss, PulseTypes
    <3> QED
      BY <1>4, <3>1 DEF Pulse!Miss, PulseTypes
  <2>2. FilesFit'
    BY <1>0, <1>4 DEF Pulse!Miss, PulseTypes, FilesFit, Pulse!Writers, Pulse!Ended,
                      Pulse!Inodes
  <2>3. OneWriter'
    BY <1>0, <1>4 DEF Pulse!Miss, PulseTypes, FilesFit, OneWriter, Pulse!Ended,
                      Pulse!Writers
  <2>4. FilesAge'
    BY <1>0, <1>4 DEF Pulse!Miss, PulseTypes, FilesAge, States, Pulse!Stamp, Pulse!Ended,
                      Pulse!Writers, Pulse!HeartbeatAssumption
  <2>5. Heard'
    <3>1. missed \in 0..(MaxAge + 1) /\ missed' = Pulse!Counted(missed)
      BY <1>4 DEF Pulse!Miss, PulseTypes
    <3>2. missed' <= MaxAge => missed <= MaxAge /\ missed' = missed + 1
      BY <3>1, CountedIs DEF Pulse!HeartbeatAssumption
    <3>3. named.path # 0 => content[named.path] \in States \cup {Nothing}
      BY DEF PulseTypes
    <3>4. Coming = 1 /\ Coming' \in {0, 1}
      BY <1>4 DEF Pulse!Miss, Coming
    <3> QED
      BY <1>4, <3>1, <3>2, <3>3, <3>4 DEF Pulse!Miss, Heard, States,
                                          Pulse!HeartbeatAssumption
  <2> QED
    BY <2>1, <2>2, <2>3, <2>4, <2>5
<1>5. ASSUME Pulse!Stop PROVE PulseInvariant'
  <2>1. PulseTypes'
    BY <1>0, <1>5, StampIs DEF Pulse!Stop, Pulse!Begin, PulseTypes, Pulse!Stages,
                               Pulse!Writers
  <2>2. FilesFit'
    BY <1>0, <1>5, StampIs DEF Pulse!Stop, Pulse!Begin, PulseTypes, FilesFit,
                               Pulse!Writers, Pulse!Ended, Pulse!Inodes
  <2>3. OneWriter'
    BY <1>0, <1>5, StampIs DEF Pulse!Stop, Pulse!Begin, PulseTypes, FilesFit, OneWriter,
                               Pulse!Ended, Pulse!Writers
  <2>4. FilesAge'
    BY <1>0, <1>5, StampIs DEF Pulse!Stop, Pulse!Begin, PulseTypes, FilesAge, States,
                               Pulse!Stamp, Pulse!Ended, Pulse!Writers,
                               Pulse!HeartbeatAssumption
  <2>5. Heard'
    BY <1>0, <1>5, StampIs DEF Pulse!Stop, Pulse!Begin, PulseTypes, FilesFit, OneWriter,
                               Heard, Coming, Pulse!Writers
  <2> QED
    BY <2>1, <2>2, <2>3, <2>4, <2>5
<1>6. ASSUME Pulse!Kill PROVE PulseInvariant'
  <2>1. PulseTypes'
    BY <1>0, <1>6 DEF Pulse!Kill, PulseTypes, Pulse!Stages, Pulse!Writers
  <2>2. FilesFit'
    BY <1>0, <1>6 DEF Pulse!Kill, PulseTypes, FilesFit, Pulse!Writers, Pulse!Ended,
                      Pulse!Inodes
  <2>3. OneWriter'
    BY <1>0, <1>6 DEF Pulse!Kill, PulseTypes, FilesFit, OneWriter, Pulse!Ended,
                      Pulse!Writers
  <2>4. FilesAge'
    BY <1>0, <1>6 DEF Pulse!Kill, PulseTypes, FilesAge, States, Pulse!Stamp, Pulse!Ended,
                      Pulse!Writers, Pulse!HeartbeatAssumption
  <2>5. Heard'
    BY <1>0, <1>6 DEF Pulse!Kill, PulseTypes, FilesFit, OneWriter, Heard, Coming,
                      Pulse!Writers
  <2> QED
    BY <2>1, <2>2, <2>3, <2>4, <2>5
<1>7. ASSUME Pulse!Minute PROVE PulseInvariant'
  <2>1. PulseTypes'
    <3>1. content' \in [Pulse!Inodes -> States \cup {Nothing}]
      BY <1>7, OlderIs DEF Pulse!Minute, PulseTypes
    <3>2. downFor' \in 0..(MaxAge + 1)
      BY <1>7, CountedIs DEF Pulse!Minute, PulseTypes
    <3>3. due' \in BOOLEAN
      BY <1>7 DEF Pulse!Minute
    <3> QED
      BY <1>7, <3>1, <3>2, <3>3 DEF Pulse!Minute, PulseTypes
  <2>2. FilesFit'
    BY <1>0, <1>7 DEF Pulse!Minute, PulseTypes, FilesFit, Pulse!Writers, Pulse!Ended,
                      Pulse!Inodes
  <2>3. OneWriter'
    BY <1>0, <1>7 DEF Pulse!Minute, PulseTypes, FilesFit, OneWriter, Pulse!Ended,
                      Pulse!Writers
  <2>4. FilesAge'
    <3>1. /\ downFor' > 0 => Pulse!Ended'
          /\ downFor' = IF Pulse!Ended THEN Pulse!Counted(downFor) ELSE downFor
      BY <1>7 DEF Pulse!Minute, Pulse!Ended, FilesAge
    <3>2. ASSUME NEW i \in Pulse!Inodes, content'[i] # Nothing
          PROVE  content'[i].age >= downFor'
      <4>1. content'[i] = Pulse!Older(content[i]) /\ content[i] \in States \cup {Nothing}
        BY <1>7 DEF Pulse!Minute, PulseTypes
      <4>2. /\ content[i] # Nothing /\ content[i].age \in 0..(MaxAge + 1)
            /\ content'[i].age = Pulse!Counted(content[i].age)
        BY <3>2, <4>1, OlderIs
      <4>3. downFor <= content[i].age /\ downFor \in 0..(MaxAge + 1)
        BY <4>2 DEF FilesAge, PulseTypes, Pulse!HeartbeatAssumption
      <4>4. /\ Pulse!Counted(downFor) <= Pulse!Counted(content[i].age)
            /\ Pulse!Counted(content[i].age) >= content[i].age
            /\ Pulse!Counted(content[i].age) \in 0..(MaxAge + 1) /\ Pulse!Counted(downFor) \in 0..(MaxAge + 1)
        BY <4>2, <4>3, CountedIs
      <4>5. downFor' <= Pulse!Counted(content[i].age)
        BY <3>1, <4>2, <4>3, <4>4 DEF Pulse!HeartbeatAssumption
      <4> QED
        BY <3>1, <4>2, <4>4, <4>5 DEF Pulse!HeartbeatAssumption
    <3> QED
      BY <3>1, <3>2 DEF FilesAge
  <2>5. Heard'
    <3> SUFFICES ASSUME stage = "serving", missed <= MaxAge
                 PROVE  /\ named.path # 0 /\ content'[named.path] # Nothing
                        /\ content'[named.path].status = "RUNNING"
                        /\ content'[named.path].age <= missed + 1
      BY <1>7 DEF Pulse!Minute, Heard, Coming
    <3> DEFINE i == named.path
    <3>1. /\ i # 0 /\ content[i] # Nothing /\ content[i].status = "RUNNING"
          /\ content[i].age <= missed + 0
      BY <1>7 DEF Pulse!Minute, Heard, Coming, Pulse!Writers
    <3>2. i \in Pulse!Inodes /\ content[i] \in States \cup {Nothing} /\ missed \in 0..(MaxAge + 1)
      BY <3>1 DEF PulseTypes
    <3>3. content'[i] = Pulse!Older(content[i])
      BY <1>7, <3>2 DEF Pulse!Minute
    <3> HIDE DEF i
    <3>4. /\ content'[i] # Nothing /\ content'[i].status = "RUNNING"
          /\ content'[i].age = Pulse!Counted(content[i].age) /\ content[i].age \in 0..(MaxAge + 1)
      BY <3>1, <3>2, <3>3, OlderIs
    <3>5. content[i].age <= MaxAge
      BY <3>1, <3>2, <3>4 DEF Pulse!HeartbeatAssumption
    <3>6. content'[i].age <= missed + 1
      BY <3>1, <3>2, <3>4, <3>5, CountedIs DEF Pulse!HeartbeatAssumption
    <3> QED
      BY <3>1, <3>4, <3>6 DEF i
  <2> QED
    BY <2>1, <2>2, <2>3, <2>4, <2>5
<1>8. ASSUME NEW w \in Pulse!Writers, Pulse!Open(w) PROVE PulseInvariant'
  <2>1. PulseTypes'
    <3>1. PICK i \in Pulse!Inodes :
                /\ open' = [open EXCEPT ![w] = i] /\ named' = [named EXCEPT !.temporary = i]
                /\ content' = [content EXCEPT ![i] = Nothing]
      BY <1>8 DEF Pulse!Open, Pulse!Unused, PulseTypes
    <3>2. open' \in [Pulse!Writers -> Pulse!Inodes \cup {0}] /\ content' \in [Pulse!Inodes -> States \cup {Nothing}]
      BY <3>1 DEF PulseTypes
    <3>3. named' \in [path : Pulse!Inodes \cup {0}, temporary : Pulse!Inodes \cup {0}]
      BY <3>1 DEF PulseTypes
    <3>4. step' \in [Pulse!Writers -> {"idle", "stamped", "opened", "written"}]
      BY <1>8 DEF Pulse!Open, PulseTypes
    <3> QED
      BY <1>8, <3>2, <3>3, <3>4 DEF Pulse!Open, PulseTypes
  <2>2. FilesFit'
    BY <1>0, <1>8 DEF Pulse!Open, Pulse!Unused, PulseTypes, FilesFit, Pulse!Writers,
                      Pulse!Ended, Pulse!Inodes
  <2>3. OneWriter'
    BY <1>0, <1>8 DEF Pulse!Open, Pulse!Unused, PulseTypes, FilesFit, OneWriter,
                      Pulse!Ended, Pulse!Writers
  <2>4. FilesAge'
    BY <1>0, <1>8 DEF Pulse!Open, Pulse!Unused, PulseTypes, FilesAge, States, Pulse!Stamp,
                      Pulse!Ended, Pulse!Writers, Pulse!HeartbeatAssumption
  <2>5. Heard'
    BY <1>0, <1>8 DEF Pulse!Open, Pulse!Unused, PulseTypes, FilesFit, OneWriter, Heard,
                      Coming, Pulse!Writers
  <2> QED
    BY <2>1, <2>2, <2>3, <2>4, <2>5
<1>9. ASSUME NEW w \in Pulse!Writers, Pulse!Fill(w) PROVE PulseInvariant'
  <2>1. PulseTypes'
    BY <1>0, <1>9, StampIs DEF Pulse!Fill, PulseTypes, Pulse!Stages, Pulse!Writers
  <2>2. FilesFit'
    BY <1>0, <1>9, StampIs DEF Pulse!Fill, PulseTypes, FilesFit, Pulse!Writers,
                               Pulse!Ended, Pulse!Inodes
  <2>3. OneWriter'
    BY <1>0, <1>9, StampIs DEF Pulse!Fill, PulseTypes, FilesFit, OneWriter, Pulse!Ended,
                               Pulse!Writers
  <2>4. FilesAge'
    BY <1>0, <1>9, StampIs DEF Pulse!Fill, PulseTypes, FilesAge, States, Pulse!Stamp,
                               Pulse!Ended, Pulse!Writers, Pulse!HeartbeatAssumption
  <2>5. Heard'
    BY <1>0, <1>9, StampIs DEF Pulse!Fill, PulseTypes, FilesFit, OneWriter, Heard, Coming,
                               Pulse!Writers
  <2> QED
    BY <2>1, <2>2, <2>3, <2>4, <2>5
<1>10. ASSUME NEW w \in Pulse!Writers, Pulse!Replace(w) PROVE PulseInvariant'
  <2>1. PulseTypes'
    <3>1. stage' \in Pulse!Stages /\ missed' \in 0..(MaxAge + 1)
      BY <1>0, <1>10 DEF Pulse!Replace, Pulse!After, Pulse!Stages, PulseTypes
    <3>2. step' \in [Pulse!Writers -> {"idle", "stamped", "opened", "written"}]
      BY <1>10 DEF Pulse!Replace, Pulse!Done, PulseTypes
    <3>3. stamp' \in [Pulse!Writers -> {Nothing, Pulse!Stamp("RUNNING"), Pulse!Stamp("STOPPED")}]
      BY <1>10 DEF Pulse!Replace, Pulse!Done, PulseTypes
    <3>4. named' \in [path : Pulse!Inodes \cup {0}, temporary : Pulse!Inodes \cup {0}]
      BY <1>10 DEF Pulse!Replace, PulseTypes
    <3> QED
      BY <1>10, <3>1, <3>2, <3>3, <3>4 DEF Pulse!Replace, PulseTypes
  <2>2. FilesFit'
    BY <1>0, <1>10, StampIs DEF Pulse!Replace, Pulse!Done, Pulse!After, PulseTypes,
                                FilesFit, Pulse!Writers, Pulse!Ended, Pulse!Inodes
  <2>3. OneWriter'
    BY <1>0, <1>10, StampIs DEF Pulse!Replace, Pulse!Done, Pulse!After, PulseTypes,
                                FilesFit, OneWriter, Pulse!Ended, Pulse!Writers
  <2>4. FilesAge'
    BY <1>0, <1>10, StampIs DEF Pulse!Replace, Pulse!Done, Pulse!After, PulseTypes,
                                FilesAge, States, Pulse!Stamp, Pulse!Ended, Pulse!Writers,
                                Pulse!HeartbeatAssumption
  <2>5. Heard'
    <3> SUFFICES ASSUME stage' = "serving", missed' <= MaxAge
                 PROVE  /\ named'.path # 0 /\ content'[named'.path] # Nothing
                        /\ content'[named'.path].status = "RUNNING"
                        /\ content'[named'.path].age <= missed' + Coming'
      BY DEF Heard
    <3>1. w = "pulse" /\ stage = "serving" /\ missed' = 0 /\ content' = content
      BY <1>10 DEF Pulse!Replace, Pulse!After, Pulse!Writers, OneWriter, PulseTypes,
                   Pulse!Stages
    <3>2. named.temporary # 0 /\ content[named.temporary] = Pulse!Stamp("RUNNING")
      BY <1>10, <3>1 DEF Pulse!Replace, OneWriter
    <3>3. named'.path = named.temporary
      BY <1>10, <3>2 DEF Pulse!Replace
    <3>4. Coming' \in {0, 1}
      BY DEF Coming
    <3>5. content'[named'.path] = Pulse!Stamp("RUNNING")
      BY <3>1, <3>2, <3>3
    <3> QED
      BY <3>1, <3>2, <3>3, <3>4, <3>5, StampIs
  <2> QED
    BY <2>1, <2>2, <2>3, <2>4, <2>5
<1> QED
  BY <1>1, <1>2, <1>3, <1>4, <1>5, <1>6, <1>7, <1>8, <1>9, <1>10 DEF Pulse!Next

\* The invariant of the heartbeat holds in every state.
LEMMA PulseInvariance == ServicesSpec => []PulseInvariant
<1>1. ServicesInit => PulseInvariant
  <2>1. MaxAge \in Nat
    BY ServicesAssumption DEF Pulse!HeartbeatAssumption
  <2> SUFFICES ASSUME Pulse!Init PROVE PulseInvariant
    BY DEF ServicesInit
  <2>2. PulseTypes
    <3>1. stage \in Pulse!Stages /\ due \in BOOLEAN /\ downFor \in 0..(MaxAge + 1) /\ missed \in 0..(MaxAge + 1)
      <4>1. 0 \in 0..(MaxAge + 1)
        BY <2>1
      <4>2. stage = "down" /\ due = FALSE /\ downFor = 0 /\ missed = 0
        BY DEF Pulse!Init
      <4> QED
        BY <4>1, <4>2 DEF Pulse!Stages
    <3>2. /\ step \in [Pulse!Writers -> {"idle", "stamped", "opened", "written"}]
          /\ open \in [Pulse!Writers -> Pulse!Inodes \cup {0}]
          /\ stamp \in [Pulse!Writers -> {Nothing, Pulse!Stamp("RUNNING"), Pulse!Stamp("STOPPED")}]
          /\ content \in [Pulse!Inodes -> States \cup {Nothing}]
      BY DEF Pulse!Init
    <3>3. named \in [path : Pulse!Inodes \cup {0}, temporary : Pulse!Inodes \cup {0}]
      BY DEF Pulse!Init
    <3> QED
      BY <3>1, <3>2, <3>3 DEF PulseTypes
  <2>3. /\ stage = "down" /\ downFor = 0 /\ step["pulse"] = "idle" /\ step["main"] = "idle" /\ named.path = 0
        /\ \A w \in Pulse!Writers : step[w] = "idle" /\ open[w] = 0
        /\ \A i \in Pulse!Inodes : content[i] = Nothing
    BY DEF Pulse!Init, Pulse!Writers
  <2>4. FilesFit /\ OneWriter /\ FilesAge /\ Heard
    BY <2>3 DEF FilesFit, OneWriter, FilesAge, Heard
  <2> QED
    BY <2>2, <2>4 DEF PulseInvariant
<1>2. ASSUME PulseInvariant, [ServicesNext]_services
      PROVE  PulseInvariant'
  <2>1. CASE Pulse!Next
    BY <1>2, <2>1, ServicesAssumption, PulseSteps
  <2>2. CASE UNCHANGED pulse
    BY <1>2, <2>2 DEF pulse, PulseInvariant, PulseTypes, FilesFit, OneWriter, FilesAge,
                      Heard, Coming, Pulse!Ended
  <2> QED
    BY <1>2, <2>1, <2>2, StepsApart
<1> QED
  BY <1>1, <1>2, PTL DEF ServicesSpec

\* A daemon that is gone is not shown as running for longer than the age allows, at
\* whatever point of its writes it ended, and one whose pulses arrive is shown as running
\* (SchedulerHeartbeatService, heartbeat.py).
THEOREM TheHeartbeatTellsLife == ServicesSpec => []PulseTellsLife
<1>1. ASSUME PulseInvariant PROVE Pulse!DeadIsNoticed /\ Pulse!PulsesShow
  <2>0. MaxAge \in Nat /\ Pulse!HeartbeatAssumption
    BY ServicesAssumption DEF Pulse!HeartbeatAssumption
  <2> DEFINE s == content[named.path]
  <2>1. named.path # 0 => s \in States \cup {Nothing}
    BY <1>1 DEF PulseInvariant, PulseTypes
  <2>2. Pulse!GetStatus = "RUNNING" <=>
            /\ named.path # 0 /\ s # Nothing /\ s.status = "RUNNING" /\ s.age <= MaxAge
    BY DEF Pulse!GetStatus, Pulse!Running
  <2>3. ASSUME downFor > MaxAge, named.path # 0, s # Nothing PROVE ~(s.age <= MaxAge)
    <3>1. s.age >= downFor /\ s.age \in 0..(MaxAge + 1) /\ downFor \in 0..(MaxAge + 1)
      BY <1>1, <2>1, <2>3 DEF PulseInvariant, FilesAge, PulseTypes, States
    <3> QED
      BY <2>0, <2>3, <3>1
  <2>4. ASSUME stage = "serving", missed < MaxAge
        PROVE  named.path # 0 /\ s # Nothing /\ s.status = "RUNNING" /\ s.age <= MaxAge
    <3>1. missed \in 0..(MaxAge + 1) /\ missed <= MaxAge /\ missed + 1 <= MaxAge
      BY <1>1, <2>0, <2>4 DEF PulseInvariant, PulseTypes
    <3>2. named.path # 0 /\ s # Nothing /\ s.status = "RUNNING" /\ s.age <= missed + Coming
      BY <1>1, <2>4, <3>1 DEF PulseInvariant, Heard
    <3>3. s.age \in 0..(MaxAge + 1) /\ Coming \in {0, 1}
      BY <2>1, <3>2 DEF States, Coming
    <3>4. s.age <= MaxAge
      BY <2>0, <3>1, <3>2, <3>3
    <3> QED
      BY <3>2, <3>4
  <2> QED
    BY <2>2, <2>3, <2>4 DEF Pulse!DeadIsNoticed, Pulse!PulsesShow
<1>2. PulseInvariant => PulseTellsLife
  BY <1>1 DEF PulseTellsLife
<1> QED
  BY <1>2, PulseInvariance, PTL

-----------------------------------------------------------------------------
(* The page. It fetches the portfolio and its valuation one after the     *)
(* other, and stores nothing meanwhile; one change at a time is stored.   *)
(* What it shows is what is stored unless a request that will show it is  *)
(* under way: the portfolio, the answer of a change, the newest           *)
(* valuation or the cash.                                                 *)

Stored == [quantity : Nat, cash : Nat, priced : BOOLEAN]
Shown == [quantity : Nat, cash : Nat]

Requests ==
    [kind : {"portfolio", "summary", "realtime", "cash", "delete", "save"},
     to : Nat \cup {Nothing}, answer : Stored \cup {Nothing}, newest : BOOLEAN, gone : BOOLEAN]

Fetches(c) == c.kind \in {"portfolio", "summary"}
Stores(c) == c.kind \in Page!Storing
Busy(c) == Fetches(c) \/ Stores(c)
IsNewest(c) == c.kind \in Page!Valuing /\ c.newest /\ ~c.gone

IsRequest(c) ==
    /\ c \in Requests
    /\ c.gone => c.kind = "realtime" /\ c.to \in Nat
    /\ Stores(c) => c.to \in Nat

\* The bag counts the requests of the page that is there.
Counted(bag) == \A c \in DOMAIN bag : ~c.gone => bag[c] \in Nat \ {0}

PageTypes ==
    /\ server \in Stored /\ holdings \in Nat \cup {Nothing}
    /\ summary \in Shown \cup {Nothing} /\ cache \in Shown \cup {Nothing} /\ cash \in Nat
    /\ loading \in BOOLEAN /\ failed \in BOOLEAN /\ overtaken \in BOOLEAN
    /\ \A c \in DOMAIN calls : IsRequest(c)
    /\ Counted(calls)

\* A request that is no longer the newest, when another one asks for a valuation.
Aged(c, asked) == IF asked /\ IsNewest(c) THEN [c EXCEPT !.newest = FALSE] ELSE c

\* A page waits for the portfolio, for the answer of a change that has been stored, for
\* the newest valuation, for the cash.
Refetching(some) == \E c \in some : c.kind = "portfolio"
JustStored(some) == \E c \in some : Stores(c) /\ c.answer # Nothing
Revaluing(some) == \E c \in some : IsNewest(c)
Counting(some) == \E c \in some : c.kind = "cash"

\* One request fetches or stores.
BusyOnce(bag) ==
    /\ \A c, d \in DOMAIN bag : Busy(c) /\ Busy(d) => c = d
    /\ \A c \in DOMAIN bag : Busy(c) => bag[c] = 1

OneAtATime ==
    /\ BusyOnce(calls)
    /\ loading <=> \E c \in DOMAIN calls : Fetches(c)
    /\ \A c \in DOMAIN calls : Stores(c) => holdings \notin {Nothing, 0}

\* What is stored is about to be shown by the answer of a change or by a fetch.
Changing == JustStored(DOMAIN calls) \/ Refetching(DOMAIN calls)

AnswersFit ==
    \A c \in DOMAIN calls :
        c.answer # Nothing /\ ~c.gone =>
            /\ c.answer.cash = server.cash /\ c.answer.priced = server.priced
            /\ c.kind = "portfolio" => c.answer.quantity = server.quantity
            /\ IsNewest(c) => c.answer.quantity = server.quantity \/ Changing
            /\ Stores(c) => server.quantity = c.to

WillShow ==
    /\ holdings = server.quantity \/ Changing
    /\ \/ Changing \/ Revaluing(DOMAIN calls)
       \/ summary # Nothing /\ summary.quantity = Page!Valuation(server).quantity
    /\ \/ server.priced \/ Refetching(DOMAIN calls) \/ Revaluing(DOMAIN calls)
       \/ summary = Nothing \/ summary.quantity = 0
    /\ cash = server.cash \/ loading \/ Counting(DOMAIN calls)
    /\ summary = Nothing \/ summary.cash = server.cash \/ loading \/ Counting(DOMAIN calls)

PageInvariant == PageTypes /\ (~failed /\ ~overtaken => OneAtATime /\ AnswersFit /\ WillShow)

\* A request that is outnumbered is otherwise the same.
LEMMA AgedIs ==
    ASSUME NEW c \in Requests, NEW asked \in BOOLEAN
    PROVE  LET e == Aged(c, asked)
           IN  /\ e \in Requests
               /\ e.kind = c.kind /\ e.to = c.to /\ e.answer = c.answer /\ e.gone = c.gone
               /\ e.newest => c.newest
               /\ IsNewest(e) <=> IsNewest(c) /\ ~asked
  BY DEF Aged, Requests, IsNewest

\* One request leaves the bag,
LEMMA WithoutIs ==
    ASSUME NEW c, Counted(calls)
    PROVE  LET left == Page!Without(c)
           IN  /\ DOMAIN left \subseteq DOMAIN calls /\ Counted(left)
               /\ \A d \in DOMAIN calls : d # c /\ ~d.gone => d \in DOMAIN left
               /\ \A d \in DOMAIN left : d # c => left[d] = calls[d]
               /\ calls[c] = 1 => c \notin DOMAIN left
<1> DEFINE left == Page!Without(c)
           less == [d \in DOMAIN calls |-> IF d = c THEN calls[d] - 1 ELSE calls[d]]
<1>1. left = [d \in {e \in DOMAIN less : less[e] > 0} |-> less[d]]
  BY DEF Page!Without, Page!One, Page!SetToBag, Page!(-)
<1>2. /\ DOMAIN left = {e \in DOMAIN calls : less[e] > 0}
      /\ \A d \in DOMAIN left : left[d] = less[d]
  BY <1>1
<1>3. \A d \in DOMAIN calls : ~d.gone => calls[d] \in Nat /\ calls[d] > 0
  BY DEF Counted
<1>4. \A d \in DOMAIN left : ~d.gone => left[d] \in Nat \ {0}
  <2> SUFFICES ASSUME NEW d \in DOMAIN left, ~d.gone PROVE left[d] \in Nat \ {0}
    OBVIOUS
  <2>1. calls[d] \in Nat /\ left[d] = less[d] /\ less[d] > 0 /\ d \in DOMAIN calls
    BY <1>2, <1>3
  <2>2. less[d] \in Int
    BY <2>1
  <2> QED
    BY <2>1, <2>2
<1>5. \A d \in DOMAIN calls : d # c /\ ~d.gone => d \in DOMAIN left
  BY <1>2, <1>3
<1>6. \A d \in DOMAIN left : d # c => left[d] = calls[d]
  BY <1>2
<1>7. calls[c] = 1 => c \notin DOMAIN left
  BY <1>2
<1> QED
  BY <1>2, <1>4, <1>5, <1>6, <1>7 DEF Counted

\* one joins it,
LEMMA WithIs ==
    ASSUME NEW bag, NEW c, Counted(bag)
    PROVE  LET more == Page!With(bag, c)
           IN  /\ DOMAIN more = DOMAIN bag \cup {c}
               /\ Counted(more)
               /\ c \notin DOMAIN bag => more[c] = 1
               /\ \A d \in DOMAIN bag : d # c /\ ~d.gone => more[d] = bag[d]
<1> DEFINE more == Page!With(bag, c)
<1>1. more = [d \in (DOMAIN bag) \cup {c} |->
                  (IF d \in DOMAIN bag THEN bag[d] ELSE 0) + (IF d \in {c} THEN 1 ELSE 0)]
  BY DEF Page!With, Page!One, Page!SetToBag, Page!(+)
<1>2. DOMAIN more = DOMAIN bag \cup {c}
  BY <1>1
<1>3. \A d \in DOMAIN bag : ~d.gone => bag[d] \in Nat /\ bag[d] > 0
  BY DEF Counted
<1>4. \A d \in DOMAIN bag : d # c => more[d] = bag[d] + 0
  BY <1>1
<1>5. \A d \in DOMAIN bag : d # c /\ ~d.gone => more[d] = bag[d]
  BY <1>3, <1>4
<1>6. c \notin DOMAIN bag => more[c] = 1
  BY <1>1
<1>7. c \in DOMAIN bag => more[c] = bag[c] + 1
  BY <1>1
<1>8. Counted(more)
  BY <1>2, <1>3, <1>5, <1>6, <1>7 DEF Counted
<1> QED
  BY <1>2, <1>5, <1>6, <1>8

\* and one that asks for a valuation outnumbers the others.
LEMMA IssuedIs ==
    ASSUME NEW others, NEW c \in Requests, Counted(others), DOMAIN others \subseteq Requests
    PROVE  LET bag   == Page!Issued(others, c)
               asked == c.kind \in Page!Valuing
           IN  /\ DOMAIN bag = {Aged(d, asked) : d \in DOMAIN others} \cup {c}
               /\ Counted(bag)
               /\ (\A d \in DOMAIN others : Aged(d, asked) # c) => bag[c] = 1
               /\ \A d \in DOMAIN others :
                    /\ ~d.gone /\ Aged(d, asked) # c
                    /\ \A e \in DOMAIN others : Aged(e, asked) = Aged(d, asked) => e = d
                    => bag[Aged(d, asked)] = others[d]
<1> DEFINE asked == c.kind \in Page!Valuing
           newest == {d \in DOMAIN others : asked /\ IsNewest(d)}
           agedOf == {[e EXCEPT !.newest = FALSE] : e \in newest}
           kept == [d \in (DOMAIN others) \ newest |-> others[d]]
           older == [d \in agedOf |-> others[[d EXCEPT !.newest = TRUE]]]
           both == [d \in (DOMAIN kept) \cup (DOMAIN older) |->
                       (IF d \in DOMAIN kept THEN kept[d] ELSE 0) +
                       (IF d \in DOMAIN older THEN older[d] ELSE 0)]
           bag == Page!Issued(others, c)
<1>1. bag = Page!With(both, c)
  <2>1. newest = {d \in Page!BagToSet(others) :
                     c.kind \in Page!Valuing /\ d.kind \in Page!Valuing /\ d.newest /\ ~d.gone}
    BY DEF Page!BagToSet, IsNewest
  <2>2. kept = [d \in Page!BagToSet(others) \ newest |-> others[d]]
    BY DEF Page!BagToSet
  <2> HIDE DEF newest
  <2> QED
    BY <2>1, <2>2 DEF Page!Issued, Page!(+)
<1>2. /\ DOMAIN kept = (DOMAIN others) \ newest
      /\ DOMAIN older = agedOf
      /\ DOMAIN both = DOMAIN kept \cup DOMAIN older
  OBVIOUS
<1>3. \A d \in newest : /\ Aged(d, asked) = [d EXCEPT !.newest = FALSE]
                        /\ [[d EXCEPT !.newest = FALSE] EXCEPT !.newest = TRUE] = d
                        /\ d \in DOMAIN others /\ ~d.gone
  BY DEF Aged, Requests, IsNewest
<1>a. \A x : x \in agedOf <=> \E d \in newest : x = Aged(d, asked)
  <2>1. \A x : x \in agedOf <=> \E d \in newest : x = [d EXCEPT !.newest = FALSE]
    OBVIOUS
  <2>2. \A d \in newest : Aged(d, asked) = [d EXCEPT !.newest = FALSE]
    BY <1>3
  <2> HIDE DEF newest, agedOf, asked
  <2> QED
    BY <2>1, <2>2
<1>4. \A d \in (DOMAIN others) \ newest : Aged(d, asked) = d
  BY DEF Aged
<1>5. DOMAIN both = {Aged(d, asked) : d \in DOMAIN others}
  <2>2. \A x : x \in DOMAIN kept <=> \E d \in (DOMAIN others) \ newest : x = Aged(d, asked)
    BY <1>2, <1>4
  <2>3. newest \subseteq DOMAIN others
    OBVIOUS
  <2> HIDE DEF both, kept, older, newest, agedOf
  <2> QED
    BY <1>2, <1>a, <2>2, <2>3
<1>6. \A d \in newest : Aged(d, asked) \in agedOf /\ older[Aged(d, asked)] = others[d]
  BY <1>3
<1>7. \A d \in DOMAIN others : ~d.gone => others[d] \in Nat \ {0}
  BY DEF Counted
<1>8. Counted(both)
  <2> SUFFICES ASSUME NEW x \in DOMAIN both, ~x.gone PROVE both[x] \in Nat \ {0}
    BY DEF Counted
  <2>1. x \in DOMAIN kept => kept[x] \in Nat \ {0}
    BY <1>7
  <2>2. ASSUME x \in DOMAIN older PROVE older[x] \in Nat \ {0}
    <3>1. PICK d \in newest : x = Aged(d, asked)
      BY <1>2, <1>a, <2>2
    <3> QED
      BY <1>3, <1>6, <1>7, <3>1
  <2>3. both[x] = (IF x \in DOMAIN kept THEN kept[x] ELSE 0) + (IF x \in DOMAIN older THEN older[x] ELSE 0)
    OBVIOUS
  <2>4. x \in DOMAIN kept \/ x \in DOMAIN older
    BY <1>2
  <2> HIDE DEF both, kept, older, newest, agedOf
  <2> QED
    BY <2>1, <2>2, <2>3, <2>4
<1>9. ASSUME NEW d \in DOMAIN others, ~d.gone,
             \A e \in DOMAIN others : Aged(e, asked) = Aged(d, asked) => e = d
      PROVE  both[Aged(d, asked)] = others[d]
  <2> DEFINE x == Aged(d, asked)
  <2>1. others[d] \in Nat
    BY <1>7, <1>9
  <2>2. x \in DOMAIN both
    BY <1>5
  <2>3. both[x] = (IF x \in DOMAIN kept THEN kept[x] ELSE 0) + (IF x \in DOMAIN older THEN older[x] ELSE 0)
    BY <2>2
  <2>4. ASSUME d \in newest PROVE x \notin DOMAIN kept /\ x \in DOMAIN older /\ older[x] = others[d]
    BY <1>2, <1>4, <1>6, <1>9, <2>4
  <2>5. ASSUME d \notin newest PROVE x \in DOMAIN kept /\ x \notin DOMAIN older /\ kept[x] = others[d]
    <3>1. x = d /\ d \in DOMAIN kept /\ kept[d] = others[d]
      BY <1>2, <1>4, <2>5
    <3>2. ASSUME x \in agedOf PROVE FALSE
      <4>1. PICK e \in newest : x = Aged(e, asked)
        BY <1>a, <3>2
      <4> QED
        BY <1>3, <1>9, <2>5, <4>1
    <3> QED
      BY <1>2, <3>1, <3>2
  <2> HIDE DEF both, kept, older, newest, agedOf, x
  <2>6. both[x] = others[d] + 0 \/ both[x] = 0 + others[d]
    BY <2>3, <2>4, <2>5
  <2>7. both[x] = others[d]
    BY <2>1, <2>6
  <2> QED
    BY <2>7 DEF x
<1>10. /\ DOMAIN bag = DOMAIN both \cup {c} /\ Counted(bag)
       /\ c \notin DOMAIN both => bag[c] = 1
       /\ \A d \in DOMAIN both : d # c /\ ~d.gone => bag[d] = both[d]
  <2> HIDE DEF both, bag
  <2> QED
    BY <1>1, <1>8, WithIs
<1>11. \A d \in DOMAIN others : Aged(d, asked) \in DOMAIN both /\ (~d.gone => ~Aged(d, asked).gone)
  <2>1. asked \in BOOLEAN
    BY DEF Page!Valuing
  <2> QED
    BY <1>5, <2>1, AgedIs
<1> HIDE DEF both, bag, newest, kept, older, agedOf
<1>12. (\A d \in DOMAIN others : Aged(d, asked) # c) => bag[c] = 1
  BY <1>5, <1>10
<1>13. ASSUME NEW d \in DOMAIN others, ~d.gone, Aged(d, asked) # c,
              \A e \in DOMAIN others : Aged(e, asked) = Aged(d, asked) => e = d
       PROVE  bag[Aged(d, asked)] = others[d]
  BY <1>9, <1>10, <1>11, <1>13
<1> QED
  BY <1>5, <1>10, <1>12, <1>13 DEF bag

\* When a request that is busy has left, none is.
LEMMA Leaving ==
    ASSUME PageTypes, NEW c \in DOMAIN calls
    PROVE  LET left == Page!Without(c)
           IN  /\ DOMAIN left \subseteq DOMAIN calls /\ Counted(left)
               /\ \A d \in DOMAIN left : IsRequest(d)
               /\ \A d \in DOMAIN calls : d # c /\ ~d.gone => d \in DOMAIN left
               /\ BusyOnce(calls) =>
                    /\ BusyOnce(left)
                    /\ Busy(c) => \A d \in DOMAIN left : ~Busy(d)
<1> DEFINE left == Page!Without(c)
<1>1. Counted(calls)
  BY DEF PageTypes
<1>2. /\ DOMAIN left \subseteq DOMAIN calls /\ Counted(left)
      /\ \A d \in DOMAIN calls : d # c /\ ~d.gone => d \in DOMAIN left
      /\ \A d \in DOMAIN left : d # c => left[d] = calls[d]
      /\ calls[c] = 1 => c \notin DOMAIN left
  BY <1>1, WithoutIs
<1> HIDE DEF left
<1>3. \A d \in DOMAIN left : IsRequest(d)
  BY <1>2 DEF PageTypes
<1>4. ASSUME BusyOnce(calls) PROVE BusyOnce(left) /\ (Busy(c) => \A d \in DOMAIN left : ~Busy(d))
  <2>1. Busy(c) => c \notin DOMAIN left
    BY <1>2, <1>4 DEF BusyOnce
  <2>2. \A d \in DOMAIN left : Busy(d) => d # c
    BY <2>1
  <2> QED
    BY <1>2, <1>4, <2>2 DEF BusyOnce
<1> QED
  BY <1>2, <1>3, <1>4 DEF left

\* What is added to the bag is under way, once.
LEMMA Adding ==
    ASSUME NEW bag, \A d \in DOMAIN bag : IsRequest(d), Counted(bag), NEW c, IsRequest(c)
    PROVE  LET more == Page!With(bag, c)
           IN  /\ DOMAIN more = DOMAIN bag \cup {c} /\ Counted(more)
               /\ \A d \in DOMAIN more : IsRequest(d)
               /\ BusyOnce(bag) /\ (Busy(c) => \A d \in DOMAIN bag : ~Busy(d)) => BusyOnce(more)
<1> DEFINE more == Page!With(bag, c)
<1>1. /\ DOMAIN more = DOMAIN bag \cup {c} /\ Counted(more)
      /\ c \notin DOMAIN bag => more[c] = 1
      /\ \A d \in DOMAIN bag : d # c /\ ~d.gone => more[d] = bag[d]
  BY WithIs
<1> HIDE DEF more
<1>2. \A d \in DOMAIN more : IsRequest(d)
  BY <1>1
<1>3. \A d \in DOMAIN more : Busy(d) => ~d.gone
  BY <1>2 DEF IsRequest, Busy, Fetches, Stores, Page!Storing
<1>4. ASSUME BusyOnce(bag), Busy(c) => \A d \in DOMAIN bag : ~Busy(d) PROVE BusyOnce(more)
  BY <1>1, <1>3, <1>4 DEF BusyOnce
<1> QED
  BY <1>1, <1>2, <1>4 DEF more

\* The request e is d, but for its number.
Like(e, d) == e.kind = d.kind /\ e.to = d.to /\ e.answer = d.answer /\ e.gone = d.gone

\* What is asked for is under way, once, with the others as they were but for their number.
LEMMA Issuing ==
    ASSUME NEW others, \A d \in DOMAIN others : IsRequest(d), Counted(others),
           NEW c, IsRequest(c)
    PROVE  LET bag == Page!Issued(others, c)
           IN  /\ c \in DOMAIN bag /\ Counted(bag)
               /\ c.kind \notin Page!Valuing => DOMAIN bag = DOMAIN others \cup {c}
               /\ c.kind \in Page!Valuing =>
                    /\ \A e \in DOMAIN bag :
                         e = c \/ (~IsNewest(e) /\ \E d \in DOMAIN others : Like(e, d))
                    /\ \A d \in DOMAIN others : \E e \in DOMAIN bag : Like(e, d)
               /\ \A e \in DOMAIN bag : IsRequest(e)
               /\ BusyOnce(others) /\ (Busy(c) => \A d \in DOMAIN others : ~Busy(d)) =>
                    BusyOnce(bag)
<1> DEFINE bag == Page!Issued(others, c)
           asked == c.kind \in Page!Valuing
<1>1. c \in Requests /\ DOMAIN others \subseteq Requests /\ asked \in BOOLEAN
  BY DEF IsRequest, Page!Valuing
<1>2. /\ DOMAIN bag = {Aged(d, asked) : d \in DOMAIN others} \cup {c}
      /\ Counted(bag)
      /\ (\A d \in DOMAIN others : Aged(d, asked) # c) => bag[c] = 1
      /\ \A d \in DOMAIN others :
           /\ ~d.gone /\ Aged(d, asked) # c
           /\ \A e \in DOMAIN others : Aged(e, asked) = Aged(d, asked) => e = d
           => bag[Aged(d, asked)] = others[d]
  BY <1>1, IssuedIs
<1>3. ~asked => \A d \in DOMAIN others : Aged(d, asked) = d
  BY DEF Aged
<1> HIDE DEF bag, asked
<1>4. \A d \in DOMAIN others :
        /\ Aged(d, asked) \in Requests /\ Like(Aged(d, asked), d)
        /\ asked => ~IsNewest(Aged(d, asked))
        /\ Busy(Aged(d, asked)) <=> Busy(d)
  BY <1>1, AgedIs DEF Like, Busy, Fetches, Stores
<1>5. \A e \in DOMAIN bag : IsRequest(e)
  <2> SUFFICES ASSUME NEW e \in DOMAIN bag, e # c PROVE IsRequest(e)
    OBVIOUS
  <2>1. PICK d \in DOMAIN others : e = Aged(d, asked)
    BY <1>2
  <2>2. e \in Requests /\ IsRequest(d) /\ e.kind = d.kind /\ e.to = d.to /\ e.gone = d.gone
    BY <1>4, <2>1 DEF Like
  <2> QED
    BY <2>2 DEF IsRequest, Stores
<1>6. ASSUME BusyOnce(others), Busy(c) => \A d \in DOMAIN others : ~Busy(d) PROVE BusyOnce(bag)
  <2>1. \A e1, e2 \in DOMAIN bag : Busy(e1) /\ Busy(e2) => e1 = e2
    BY <1>2, <1>4, <1>6 DEF BusyOnce
  <2>2. ASSUME NEW e \in DOMAIN bag, Busy(e) PROVE bag[e] = 1
    <3>1. CASE e = c
      BY <1>2, <1>4, <1>6, <2>2, <3>1
    <3>2. CASE e # c
      <4>1. PICK d \in DOMAIN others : e = Aged(d, asked)
        BY <1>2, <3>2
      <4>2. Busy(d) /\ others[d] = 1
        BY <1>4, <1>6, <2>2, <4>1 DEF BusyOnce
      <4>3. ~d.gone
        BY <4>2 DEF IsRequest, Busy, Fetches, Stores, Page!Storing
      <4>4. \A f \in DOMAIN others : Aged(f, asked) = e => f = d
        BY <1>4, <1>6, <2>2, <4>2 DEF BusyOnce
      <4> QED
        BY <1>2, <3>2, <4>1, <4>2, <4>3, <4>4
    <3> QED
      BY <3>1, <3>2
  <2> QED
    BY <2>1, <2>2 DEF BusyOnce
<1>7. ~asked => DOMAIN bag = DOMAIN others \cup {c}
  BY <1>2, <1>3
<1>8. ASSUME asked
      PROVE  /\ \A e \in DOMAIN bag :
                  e = c \/ (~IsNewest(e) /\ \E d \in DOMAIN others : Like(e, d))
             /\ \A d \in DOMAIN others : \E e \in DOMAIN bag : Like(e, d)
  BY <1>2, <1>4, <1>8
<1> QED
  BY <1>2, <1>5, <1>6, <1>7, <1>8 DEF bag, asked

\* A new request has no answer and belongs to the page.
LEMMA CallIs ==
    ASSUME NEW kind \in {"portfolio", "summary", "realtime", "cash", "delete", "save"},
           NEW to \in Nat \cup {Nothing}, kind \in Page!Storing => to \in Nat
    PROVE  LET c == Page!Call(kind, to)
           IN  /\ IsRequest(c) /\ c.kind = kind /\ c.to = to /\ c.answer = Nothing /\ ~c.gone
               /\ IsNewest(c) <=> kind \in Page!Valuing
  BY DEF Page!Call, IsRequest, Requests, Stores, IsNewest

\* Another valuation has been asked for: none of the others is the newest.
Outnumbered(others, new) ==
    /\ new \subseteq DOMAIN calls'
    /\ \A e \in DOMAIN calls' : e \in new \/ (~IsNewest(e) /\ \E d \in others : Like(e, d))
    /\ \A d \in others : \E e \in DOMAIN calls' : Like(e, d)

Fetching(some) == \E c \in some : Fetches(c)

\* A page waits for what it waited for and for what is new.
LEMMA Joined ==
    ASSUME NEW others, NEW new
    PROVE  /\ Fetching(others \cup new) <=> Fetching(others) \/ Fetching(new)
           /\ Refetching(others \cup new) <=> Refetching(others) \/ Refetching(new)
           /\ JustStored(others \cup new) <=> JustStored(others) \/ JustStored(new)
           /\ Counting(others \cup new) <=> Counting(others) \/ Counting(new)
           /\ Revaluing(others \cup new) <=> Revaluing(others) \/ Revaluing(new)
  BY DEF Fetching, Refetching, JustStored, Counting, Revaluing

\* The same when a valuation is asked for, which then is the newest.
LEMMA Moved ==
    ASSUME NEW others, NEW new, Outnumbered(others, new)
    PROVE  /\ Fetching(DOMAIN calls)' <=> Fetching(others) \/ Fetching(new)
           /\ Refetching(DOMAIN calls)' <=> Refetching(others) \/ Refetching(new)
           /\ JustStored(DOMAIN calls)' <=> JustStored(others) \/ JustStored(new)
           /\ Counting(DOMAIN calls)' <=> Counting(others) \/ Counting(new)
           /\ Revaluing(DOMAIN calls)' <=> Revaluing(new)
<1>1. Fetching(DOMAIN calls)' <=> Fetching(others) \/ Fetching(new)
  BY DEF Outnumbered, Like, Fetching, Fetches
<1>2. Refetching(DOMAIN calls)' <=> Refetching(others) \/ Refetching(new)
  BY DEF Outnumbered, Like, Refetching
<1>3. JustStored(DOMAIN calls)' <=> JustStored(others) \/ JustStored(new)
  BY DEF Outnumbered, Like, JustStored, Stores
<1>4. Counting(DOMAIN calls)' <=> Counting(others) \/ Counting(new)
  BY DEF Outnumbered, Like, Counting
<1>5. Revaluing(DOMAIN calls)' <=> Revaluing(new)
  BY DEF Outnumbered, Revaluing
<1> QED
  BY <1>1, <1>2, <1>3, <1>4, <1>5

\* One request at a time and fitting answers stay when what is new has no answer.
LEMMA Settle ==
    ASSUME NEW others, NEW new, OneAtATime, AnswersFit, server' = server, BusyOnce(calls'),
           \A d \in others : d \in DOMAIN calls \/ d.answer = Nothing,
           \A d \in new : d.answer = Nothing,
           loading' <=> Fetching(others) \/ Fetching(new),
           \A d \in others \cup new : Stores(d) => holdings' \notin {Nothing, 0},
           \/ Outnumbered(others, new)
           \/ /\ DOMAIN calls' = others \cup new
              /\ \A d \in others : IsNewest(d) /\ d.answer # Nothing =>
                   d.answer.quantity = server.quantity \/ Changing'
    PROVE  OneAtATime' /\ AnswersFit'
<1>1. AnswersFit'
  <2> SUFFICES ASSUME NEW e \in DOMAIN calls', e.answer # Nothing, ~e.gone
      PROVE  /\ e.answer.cash = server.cash /\ e.answer.priced = server.priced
             /\ e.kind = "portfolio" => e.answer.quantity = server.quantity
             /\ IsNewest(e) => e.answer.quantity = server.quantity \/ Changing'
             /\ Stores(e) => server.quantity = e.to
    BY DEF AnswersFit
  <2>1. PICK d \in others :
          /\ Like(e, d)
          /\ IsNewest(e) => e.answer.quantity = server.quantity \/ Changing'
    BY DEF Outnumbered, Like
  <2>2. /\ d \in DOMAIN calls /\ d.answer # Nothing /\ ~d.gone
        /\ e.kind = d.kind /\ e.to = d.to /\ e.answer = d.answer
    BY <2>1 DEF Like
  <2>3. /\ d.answer.cash = server.cash /\ d.answer.priced = server.priced
        /\ d.kind = "portfolio" => d.answer.quantity = server.quantity
        /\ Stores(d) => server.quantity = d.to
    BY <2>2 DEF AnswersFit
  <2>4. Stores(e) <=> Stores(d)
    BY <2>2 DEF Stores
  <2> QED
    BY <2>1, <2>2, <2>3, <2>4
<1>2. loading' <=> \E d \in DOMAIN calls' : Fetches(d)
  <2>1. CASE Outnumbered(others, new)
    BY <2>1, Moved DEF Fetching
  <2>2. CASE DOMAIN calls' = others \cup new
    BY <2>2 DEF Fetching
  <2> QED
    BY <2>1, <2>2
<1>3. \A d \in DOMAIN calls' : Stores(d) => holdings' \notin {Nothing, 0}
  BY DEF Outnumbered, Like, Stores
<1> QED
  BY <1>1, <1>2, <1>3 DEF OneAtATime

\* What is under way when an answer has been taken.
LEMMA Remaining ==
    ASSUME PageTypes, NEW c \in DOMAIN calls
    PROVE  LET left == DOMAIN Page!Without(c)
           IN  /\ ~Fetches(c) => (Fetching(left) <=> Fetching(DOMAIN calls))
               /\ c.kind # "portfolio" => (Refetching(left) <=> Refetching(DOMAIN calls))
               /\ ~(Stores(c) /\ c.answer # Nothing) =>
                    (JustStored(left) <=> JustStored(DOMAIN calls))
               /\ c.kind # "cash" => (Counting(left) <=> Counting(DOMAIN calls))
               /\ ~IsNewest(c) => (Revaluing(left) <=> Revaluing(DOMAIN calls))
<1> DEFINE left == DOMAIN Page!Without(c)
<1>1. left \subseteq DOMAIN calls /\ \A d \in DOMAIN calls : d # c /\ ~d.gone => d \in left
  BY Leaving
<1>2. \A d \in DOMAIN calls : d.kind # "realtime" => ~d.gone
  BY DEF PageTypes, IsRequest
<1> HIDE DEF left
<1>3. ~Fetches(c) => (Fetching(left) <=> Fetching(DOMAIN calls))
  BY <1>1, <1>2 DEF Fetching, Fetches
<1>4. c.kind # "portfolio" => (Refetching(left) <=> Refetching(DOMAIN calls))
  BY <1>1, <1>2 DEF Refetching
<1>5. ~(Stores(c) /\ c.answer # Nothing) => (JustStored(left) <=> JustStored(DOMAIN calls))
  BY <1>1, <1>2 DEF JustStored, Stores, Page!Storing
<1>6. c.kind # "cash" => (Counting(left) <=> Counting(DOMAIN calls))
  BY <1>1, <1>2 DEF Counting
<1>7. ~IsNewest(c) => (Revaluing(left) <=> Revaluing(DOMAIN calls))
  BY <1>1, <1>2 DEF Revaluing, IsNewest
<1> QED
  BY <1>3, <1>4, <1>5, <1>6, <1>7 DEF left

\* Asking for a valuation outnumbers the others.
LEMMA AskingIs ==
    ASSUME NEW others, \A d \in DOMAIN others : IsRequest(d), Counted(others),
           NEW n, IsRequest(n), n.kind \in Page!Valuing, calls' = Page!Issued(others, n)
    PROVE  Outnumbered(DOMAIN others, {n})
  BY Issuing DEF Outnumbered

\* Nothing is no amount, no valuation and no account.
LEMMA NothingIsNone == Nothing \notin Nat /\ Nothing \notin Shown /\ Nothing \notin Stored
  BY ServicesAssumption DEF Page!PageAssumption, Shown, Stored

\* A valuation of an account.
LEMMA ValuationIs ==
    ASSUME NEW account \in Stored
    PROVE  /\ Page!Valuation(account) \in Shown
           /\ Page!Valuation(account).cash = account.cash
           /\ Page!Valuation(account).quantity = IF account.priced THEN account.quantity ELSE 0
  BY DEF Page!Valuation, Stored, Shown

\* A valuation with other cash.
LEMMA WithCashIs ==
    ASSUME NEW valuation \in Shown \cup {Nothing}, NEW amount \in Nat
    PROVE  LET valued == Page!WithCash(valuation, amount)
           IN  /\ valued \in Shown \cup {Nothing}
               /\ valued = Nothing <=> valuation = Nothing
               /\ valued # Nothing => valued.cash = amount /\ valued.quantity = valuation.quantity
<1>1. CASE valuation = Nothing
  BY <1>1 DEF Page!WithCash
<1>2. CASE valuation # Nothing
  <2>1. /\ Page!WithCash(valuation, amount) \in Shown
        /\ Page!WithCash(valuation, amount).cash = amount
        /\ Page!WithCash(valuation, amount).quantity = valuation.quantity
    BY <1>2 DEF Page!WithCash, Shown
  <2> QED
    BY <1>2, <2>1, NothingIsNone
<1> QED
  BY <1>1, <1>2

\* The server answers: a change is stored.
LEMMA ServeKeeps ==
    ASSUME PageInvariant, NEW c \in DOMAIN calls, Page!Serve(c)
    PROVE  PageInvariant'
<1> DEFINE n == [c EXCEPT !.answer = server']
           left == DOMAIN Page!Without(c)
<1>1. PageTypes /\ IsRequest(c) /\ c \in Requests /\ c.answer = Nothing
  BY DEF PageInvariant, PageTypes, IsRequest, Page!Serve
<1>2. /\ calls' = Page!With(Page!Without(c), n)
      /\ UNCHANGED <<holdings, summary, cash, loading, cache, failed, overtaken>>
  BY DEF Page!Serve
<1>3. /\ server' \in Stored /\ server'.cash = server.cash /\ server'.priced = server.priced
      /\ ~Stores(c) => server' = server
      /\ Stores(c) => server'.quantity = c.to
  <2>1. CASE Stores(c)
    <3>1. server' = [server EXCEPT !.quantity = c.to] /\ c.to \in Nat /\ server \in Stored
      BY <1>1, <2>1 DEF Page!Serve, Stores, IsRequest, PageTypes
    <3> QED
      BY <2>1, <3>1 DEF Stored
  <2>2. CASE ~Stores(c)
    BY <1>1, <2>2 DEF Page!Serve, Stores, PageTypes
  <2> QED
    BY <2>1, <2>2
<1>4. /\ IsRequest(n) /\ n.kind = c.kind /\ n.to = c.to /\ n.answer = server' /\ n.gone = c.gone
      /\ IsNewest(n) <=> IsNewest(c)
      /\ n.answer # Nothing
  BY <1>1, <1>3, NothingIsNone DEF Requests, IsRequest, IsNewest, Stores
<1> HIDE DEF n
<1>5. /\ left \subseteq DOMAIN calls /\ Counted(Page!Without(c))
      /\ \A d \in left : IsRequest(d)
      /\ \A d \in DOMAIN calls : d # c /\ ~d.gone => d \in left
      /\ BusyOnce(calls) =>
           /\ BusyOnce(Page!Without(c))
           /\ Busy(c) => \A d \in left : ~Busy(d)
  BY <1>1, Leaving
<1>6. /\ DOMAIN calls' = left \cup {n} /\ Counted(calls')
      /\ \A d \in DOMAIN calls' : IsRequest(d)
      /\ BusyOnce(Page!Without(c)) /\ (Busy(n) => \A d \in left : ~Busy(d)) => BusyOnce(calls')
  BY <1>2, <1>4, <1>5, Adding
<1>8. PageTypes'
  BY <1>1, <1>2, <1>3, <1>6 DEF PageTypes
<1>9. ASSUME ~failed, ~overtaken PROVE OneAtATime' /\ AnswersFit' /\ WillShow'
  <2>1. OneAtATime /\ AnswersFit /\ WillShow
    BY <1>9 DEF PageInvariant
  <2>2. /\ Fetching(DOMAIN calls)' <=> Fetching(DOMAIN calls)
        /\ Refetching(DOMAIN calls)' <=> Refetching(DOMAIN calls)
        /\ JustStored(DOMAIN calls)' <=> JustStored(DOMAIN calls) \/ Stores(c)
        /\ Counting(DOMAIN calls)' <=> Counting(DOMAIN calls)
        /\ Revaluing(DOMAIN calls)' <=> Revaluing(DOMAIN calls)
    <3>1. /\ Fetching({n}) <=> Fetches(c)
          /\ Refetching({n}) <=> c.kind = "portfolio"
          /\ JustStored({n}) <=> Stores(c)
          /\ Counting({n}) <=> c.kind = "cash"
          /\ Revaluing({n}) <=> IsNewest(c)
      BY <1>4 DEF Fetching, Fetches, Refetching, JustStored, Stores, Counting, Revaluing
    <3>2. /\ Fetches(c) => Fetching(DOMAIN calls)
          /\ c.kind = "portfolio" => Refetching(DOMAIN calls)
          /\ c.kind = "cash" => Counting(DOMAIN calls)
          /\ IsNewest(c) => Revaluing(DOMAIN calls)
      BY DEF Fetching, Refetching, Counting, Revaluing
    <3>3. /\ Fetching(left) => Fetching(DOMAIN calls)
          /\ Refetching(left) => Refetching(DOMAIN calls)
          /\ JustStored(left) => JustStored(DOMAIN calls)
          /\ Counting(left) => Counting(DOMAIN calls)
          /\ Revaluing(left) => Revaluing(DOMAIN calls)
      BY <1>5 DEF Fetching, Refetching, JustStored, Counting, Revaluing
    <3>4. DOMAIN calls' = left \cup {n}
      BY <1>6
    <3> HIDE DEF left
    <3>5. /\ Fetching(DOMAIN calls)' <=> Fetching(left) \/ Fetching({n})
          /\ Refetching(DOMAIN calls)' <=> Refetching(left) \/ Refetching({n})
          /\ JustStored(DOMAIN calls)' <=> JustStored(left) \/ JustStored({n})
          /\ Counting(DOMAIN calls)' <=> Counting(left) \/ Counting({n})
          /\ Revaluing(DOMAIN calls)' <=> Revaluing(left) \/ Revaluing({n})
      BY <3>4 DEF Fetching, Refetching, JustStored, Counting, Revaluing
    <3> QED
      BY <1>1, <3>1, <3>2, <3>3, <3>5, Remaining DEF left
  <2>3. OneAtATime'
    <3>1. Busy(n) <=> Busy(c)
      BY <1>4 DEF Busy, Fetches, Stores
    <3>2. BusyOnce(calls')
      BY <1>5, <1>6, <2>1, <3>1 DEF OneAtATime
    <3>3. \A d \in DOMAIN calls' : Stores(d) => holdings \notin {Nothing, 0}
      BY <1>4, <1>5, <1>6, <2>1 DEF OneAtATime, Stores
    <3>4. loading' <=> \E d \in DOMAIN calls' : Fetches(d)
      BY <1>2, <2>1, <2>2 DEF OneAtATime, Fetching
    <3> QED
      BY <1>2, <3>2, <3>3, <3>4 DEF OneAtATime
  <2>4. Changing' <=> Changing \/ Stores(c)
    BY <2>2 DEF Changing
  <2>5. AnswersFit'
    <3>1. \A d \in left : d.answer # Nothing /\ ~d.gone =>
            /\ d.answer.cash = server'.cash /\ d.answer.priced = server'.priced
            /\ d.kind = "portfolio" => d.answer.quantity = server'.quantity
            /\ IsNewest(d) => d.answer.quantity = server'.quantity \/ Changing'
            /\ Stores(d) => server'.quantity = d.to
      <4>1. CASE Stores(c)
        <5>1. \A d \in left : ~Busy(d)
          BY <1>5, <2>1, <4>1 DEF OneAtATime, Busy
        <5> QED
          BY <1>3, <1>5, <2>1, <2>4, <4>1, <5>1 DEF AnswersFit, Busy, Fetches
      <4>2. CASE ~Stores(c)
        BY <1>3, <1>5, <2>1, <2>4, <4>2 DEF AnswersFit
      <4> QED
        BY <4>1, <4>2
    <3>2. /\ n.answer.cash = server'.cash /\ n.answer.priced = server'.priced
          /\ n.answer.quantity = server'.quantity
          /\ Stores(n) => server'.quantity = n.to
      BY <1>3, <1>4 DEF Stores
    <3> HIDE DEF left
    <3> QED
      BY <1>6, <3>1, <3>2 DEF AnswersFit
  <2>6. WillShow'
    <3>1. CASE Stores(c)
      BY <1>2, <1>3, <2>1, <2>2, <2>4, <3>1 DEF WillShow
    <3>2. CASE ~Stores(c)
      BY <1>2, <1>3, <2>1, <2>2, <2>4, <3>2 DEF WillShow
    <3> QED
      BY <3>1, <3>2
  <2> QED
    BY <2>3, <2>5, <2>6
<1> QED
  BY <1>2, <1>8, <1>9 DEF PageInvariant

\* What a page waits for because of a new request,
LEMMA NewCall ==
    ASSUME NEW kind \in {"portfolio", "summary", "realtime", "cash", "delete", "save"},
           NEW to \in Nat \cup {Nothing}, kind \in Page!Storing => to \in Nat
    PROVE  LET n == Page!Call(kind, to)
           IN  /\ IsRequest(n) /\ n.answer = Nothing /\ n.kind = kind /\ n.to = to
               /\ Busy(n) <=> kind \in {"portfolio", "summary"} \/ kind \in Page!Storing
               /\ Stores(n) <=> kind \in Page!Storing
               /\ Fetching({n}) <=> kind \in {"portfolio", "summary"}
               /\ Refetching({n}) <=> kind = "portfolio"
               /\ ~JustStored({n})
               /\ Counting({n}) <=> kind = "cash"
               /\ Revaluing({n}) <=> kind \in Page!Valuing
<1> DEFINE n == Page!Call(kind, to)
<1>1. /\ IsRequest(n) /\ n.kind = kind /\ n.answer = Nothing /\ n.to = to
      /\ IsNewest(n) <=> kind \in Page!Valuing
  BY CallIs
<1> HIDE DEF n
<1>2. /\ Busy(n) <=> kind \in {"portfolio", "summary"} \/ kind \in Page!Storing
      /\ Stores(n) <=> kind \in Page!Storing
      /\ Fetching({n}) <=> kind \in {"portfolio", "summary"}
      /\ Refetching({n}) <=> kind = "portfolio"
      /\ ~JustStored({n})
      /\ Counting({n}) <=> kind = "cash"
      /\ Revaluing({n}) <=> kind \in Page!Valuing
  BY <1>1 DEF Busy, Fetches, Stores, Fetching, Refetching, JustStored, Counting, Revaluing
<1> QED
  BY <1>1, <1>2 DEF n

\* and because of none.
LEMMA NoCall ==
    ~Fetching({}) /\ ~Refetching({}) /\ ~JustStored({}) /\ ~Counting({}) /\ ~Revaluing({})
  BY DEF Fetching, Refetching, JustStored, Counting, Revaluing

\* While one request fetches or stores, no other one does.
LEMMA AloneIs ==
    ASSUME OneAtATime, NEW c \in DOMAIN calls, Busy(c)
    PROVE  /\ loading <=> Fetches(c)
           /\ Refetching(DOMAIN calls) <=> c.kind = "portfolio"
           /\ JustStored(DOMAIN calls) <=> Stores(c) /\ c.answer # Nothing
           /\ \A d \in DOMAIN calls : Busy(d) => d = c
<1>1. \A d \in DOMAIN calls : Busy(d) => d = c
  BY DEF OneAtATime, BusyOnce
<1> QED
  BY <1>1 DEF OneAtATime, Busy, Fetches, Refetching, JustStored

\* Where no request is busy the page waits for none of them.
LEMMA NoneBusy ==
    ASSUME NEW some, \A d \in some : ~Busy(d)
    PROVE  ~Fetching(some) /\ ~Refetching(some) /\ ~JustStored(some) /\ \A d \in some : ~Stores(d)
  BY DEF Busy, Fetches, Fetching, Refetching, JustStored

\* The rows arrive, and the valuation that was kept is shown meanwhile.
LEMMA PortfolioArrivesKeeps ==
    ASSUME PageInvariant, NEW c \in DOMAIN calls, Page!PortfolioArrives(c)
    PROVE  PageInvariant'
<1> DEFINE n == Page!Call("summary", Nothing)
           left == DOMAIN Page!Without(c)
<1>1. PageTypes /\ c \in Requests /\ IsRequest(c)
  BY DEF PageInvariant, PageTypes, IsRequest
<1>2. /\ c.kind = "portfolio" /\ c.answer # Nothing /\ c.answer \in Stored
      /\ Busy(c) /\ Fetches(c) /\ ~Stores(c)
      /\ holdings' = c.answer.quantity
      /\ summary' \in {cache, summary}
      /\ calls' = Page!Issued(Page!Without(c), n)
      /\ UNCHANGED <<server, cash, loading, cache, failed, overtaken>>
  BY <1>1 DEF Page!PortfolioArrives, Page!Answered, Busy, Fetches, Stores, Page!Storing,
              Requests
<1>3. /\ IsRequest(n) /\ n.answer = Nothing /\ ~Stores(n) /\ n.kind \in Page!Valuing
      /\ Fetching({n}) /\ Revaluing({n})
  BY NewCall DEF Page!Storing, Page!Valuing
<1> HIDE DEF n
<1>4. /\ left \subseteq DOMAIN calls /\ Counted(Page!Without(c))
      /\ \A d \in left : IsRequest(d)
      /\ BusyOnce(calls) => BusyOnce(Page!Without(c)) /\ \A d \in left : ~Busy(d)
  BY <1>1, <1>2, Leaving
<1>5. /\ Counted(calls') /\ \A d \in DOMAIN calls' : IsRequest(d)
      /\ BusyOnce(calls) => BusyOnce(calls')
  BY <1>2, <1>3, <1>4, Issuing
<1>6. Outnumbered(left, {n})
  BY <1>2, <1>3, <1>4, AskingIs
<1>7. PageTypes'
  BY <1>1, <1>2, <1>5 DEF PageTypes, Stored
<1>8. ASSUME ~failed, ~overtaken PROVE OneAtATime' /\ AnswersFit' /\ WillShow'
  <2>1. OneAtATime /\ AnswersFit /\ WillShow
    BY <1>8 DEF PageInvariant
  <2>2. loading /\ BusyOnce(calls) /\ \A d \in left : ~Busy(d)
    BY <1>2, <1>4, <2>1, AloneIs DEF OneAtATime
  <2>3. loading' /\ Fetching(DOMAIN calls)' /\ Revaluing(DOMAIN calls)'
    BY <1>2, <1>3, <1>6, <2>2, Moved
  <2>4. \A d \in left \cup {n} : ~Stores(d)
    BY <1>3, <2>2, NoneBusy
  <2>5. OneAtATime' /\ AnswersFit'
    <3>1. BusyOnce(calls') /\ server' = server
      BY <1>2, <1>5, <2>2
    <3>2. \A d \in left : d \in DOMAIN calls \/ d.answer = Nothing
      BY <1>4
    <3> DEFINE new == {n}
    <3>3. \A d \in new : d.answer = Nothing
      BY <1>3
    <3>4. loading' <=> Fetching(left) \/ Fetching(new)
      BY <1>3, <2>3
    <3>5. \A d \in left \cup new : Stores(d) => holdings' \notin {Nothing, 0}
      BY <2>4
    <3>6. Outnumbered(left, new)
      BY <1>6
    <3> HIDE DEF left, new
    <3> QED
      BY <2>1, <3>1, <3>2, <3>3, <3>4, <3>5, <3>6, Settle
  <2>6. c.answer.quantity = server.quantity
    <3>1. ~c.gone
      BY <1>1, <1>2 DEF IsRequest
    <3> QED
      BY <1>2, <2>1, <3>1 DEF AnswersFit
  <2>7. WillShow'
    BY <1>2, <2>3, <2>6 DEF WillShow
  <2> QED
    BY <2>5, <2>7
<1> QED
  BY <1>2, <1>7, <1>8 DEF PageInvariant

\* The cash arrives.
LEMMA CashArrivesKeeps ==
    ASSUME PageInvariant, NEW c \in DOMAIN calls, Page!CashArrives(c)
    PROVE  PageInvariant'
<1> DEFINE left == DOMAIN Page!Without(c)
<1>1. PageTypes /\ c \in Requests /\ IsRequest(c)
  BY DEF PageInvariant, PageTypes, IsRequest
<1>2. /\ c.kind = "cash" /\ c.answer # Nothing /\ c.answer \in Stored
      /\ ~Fetches(c) /\ ~Stores(c) /\ ~IsNewest(c)
      /\ cash' = c.answer.cash /\ summary' = Page!WithCash(summary, c.answer.cash)
      /\ calls' = Page!Without(c)
      /\ UNCHANGED <<server, holdings, loading, cache, failed, overtaken>>
  BY <1>1 DEF Page!CashArrives, Page!Answered, Fetches, Stores, Page!Storing, Requests,
              IsNewest, Page!Valuing
<1>3. /\ c.answer.cash \in Nat
      /\ summary' \in Shown \cup {Nothing}
      /\ summary' = Nothing <=> summary = Nothing
      /\ summary' # Nothing => summary'.cash = cash' /\ summary'.quantity = summary.quantity
  <2>1. c.answer.cash \in Nat /\ summary \in Shown \cup {Nothing}
    BY <1>1, <1>2 DEF Stored, PageTypes
  <2> QED
    BY <1>2, <2>1, WithCashIs
<1>4. /\ left \subseteq DOMAIN calls /\ Counted(calls')
      /\ \A d \in left : IsRequest(d)
      /\ BusyOnce(calls) => BusyOnce(calls')
  BY <1>1, <1>2, Leaving
<1>5. DOMAIN calls' = left \cup {}
  BY <1>2
<1>6. PageTypes'
  BY <1>1, <1>2, <1>3, <1>4 DEF PageTypes
<1>7. ASSUME ~failed, ~overtaken PROVE OneAtATime' /\ AnswersFit' /\ WillShow'
  <2>1. OneAtATime /\ AnswersFit /\ WillShow
    BY <1>7 DEF PageInvariant
  <2>2. /\ Fetching(left) <=> Fetching(DOMAIN calls)
        /\ Refetching(left) <=> Refetching(DOMAIN calls)
        /\ JustStored(left) <=> JustStored(DOMAIN calls)
        /\ Revaluing(left) <=> Revaluing(DOMAIN calls)
    BY <1>1, <1>2, Remaining
  <2>3. /\ Refetching(DOMAIN calls)' <=> Refetching(DOMAIN calls)
        /\ JustStored(DOMAIN calls)' <=> JustStored(DOMAIN calls)
        /\ Revaluing(DOMAIN calls)' <=> Revaluing(DOMAIN calls)
        /\ Changing' <=> Changing
    BY <1>2, <2>2 DEF Changing
  <2>4. loading' <=> Fetching(left) \/ Fetching({})
    BY <1>2, <2>1, <2>2, NoCall DEF OneAtATime, Fetching
  <2>5. \A d \in left : Stores(d) => holdings' \notin {Nothing, 0}
    BY <1>2, <1>4, <2>1 DEF OneAtATime
  <2>6. \A d \in left : IsNewest(d) /\ d.answer # Nothing => d.answer.quantity = server.quantity \/ Changing'
    BY <1>4, <2>1, <2>3 DEF AnswersFit, IsNewest
  <2>7. OneAtATime' /\ AnswersFit'
    <3>1. BusyOnce(calls')
      BY <1>4, <2>1 DEF OneAtATime
    <3>2. server' = server /\ \A d \in left : d \in DOMAIN calls \/ d.answer = Nothing
      BY <1>2, <1>4
    <3>3. \A d \in left \cup {} : Stores(d) => holdings' \notin {Nothing, 0}
      BY <2>5
    <3>4. \A d \in {} : d.answer = Nothing
      OBVIOUS
    <3> HIDE DEF left
    <3> QED
      BY <1>5, <2>1, <2>4, <2>6, <3>1, <3>2, <3>3, <3>4, Settle
  <2>8. c.answer.cash = server.cash
    <3>1. ~c.gone
      BY <1>1, <1>2 DEF IsRequest
    <3> QED
      BY <1>2, <2>1, <3>1 DEF AnswersFit
  <2>9. WillShow'
    BY <1>2, <1>3, <2>1, <2>3, <2>8 DEF WillShow
  <2> QED
    BY <2>7, <2>9
<1> QED
  BY <1>2, <1>6, <1>7 DEF PageInvariant

\* The cash is asked for, and a valuation of current prices when there are rows.
LEMMA LoadedIs ==
    ASSUME PageTypes, NEW c \in DOMAIN calls, Busy(c), Page!Loaded(c)
    PROVE  LET left == DOMAIN Page!Without(c)
               cashed == left \cup {Page!Call("cash", Nothing)}
           IN  /\ loading' = FALSE
               /\ Counted(calls') /\ \A d \in DOMAIN calls' : IsRequest(d)
               /\ BusyOnce(calls) => BusyOnce(calls')
               /\ \/ DOMAIN calls' = cashed
                  \/ Outnumbered(cashed, {Page!Call("realtime", Nothing)})
<1> DEFINE left == Page!Without(c)
           k == Page!Call("cash", Nothing)
           r == Page!Call("realtime", Nothing)
           asking == Page!Issued(left, k)
<1>1. /\ IsRequest(k) /\ k.kind = "cash" /\ ~Busy(k)
      /\ IsRequest(r) /\ r.kind = "realtime" /\ ~Busy(r)
  BY NewCall DEF Page!Storing
<1>2. /\ loading' = FALSE
      /\ calls' = asking \/ calls' = Page!Issued(asking, r)
  BY DEF Page!Loaded
<1> HIDE DEF k, r
<1>3. /\ Counted(left) /\ \A d \in DOMAIN left : IsRequest(d)
      /\ BusyOnce(calls) => BusyOnce(left)
  BY Leaving
<1> HIDE DEF left
<1>4. /\ Counted(asking) /\ \A d \in DOMAIN asking : IsRequest(d)
      /\ DOMAIN asking = DOMAIN left \cup {k}
      /\ BusyOnce(left) => BusyOnce(asking)
  <2>1. k.kind \notin Page!Valuing
    BY <1>1 DEF Page!Valuing
  <2> QED
    BY <1>1, <1>3, <2>1, Issuing
<1> HIDE DEF asking
<1>5. CASE calls' = asking
  BY <1>2, <1>3, <1>4, <1>5 DEF k, left
<1>6. CASE calls' = Page!Issued(asking, r)
  <2>1. r.kind \in Page!Valuing
    BY <1>1 DEF Page!Valuing
  <2>2. Outnumbered(DOMAIN asking, {r})
    BY <1>1, <1>4, <1>6, <2>1, AskingIs
  <2>3. /\ Counted(calls') /\ \A d \in DOMAIN calls' : IsRequest(d)
        /\ BusyOnce(asking) => BusyOnce(calls')
    BY <1>1, <1>4, <1>6, Issuing
  <2>4. Outnumbered(DOMAIN left \cup {k}, {r})
    BY <1>4, <2>2
  <2> QED
    BY <1>2, <1>3, <1>4, <2>3, <2>4 DEF k, r, left
<1> QED
  BY <1>2, <1>5, <1>6

\* The valuation arrives.
LEMMA SummaryArrivesKeeps ==
    ASSUME PageInvariant, NEW c \in DOMAIN calls, Page!SummaryArrives(c)
    PROVE  PageInvariant'
<1> DEFINE k == Page!Call("cash", Nothing)
           r == Page!Call("realtime", Nothing)
           left == DOMAIN Page!Without(c)
           cashed == left \cup {k}
           new == {r}
<1>1. PageTypes /\ c \in Requests /\ IsRequest(c)
  BY DEF PageInvariant, PageTypes, IsRequest
<1>2. /\ c.kind = "summary" /\ c.answer # Nothing /\ c.answer \in Stored /\ ~c.gone
      /\ Busy(c) /\ Fetches(c) /\ ~Stores(c)
      /\ c.newest <=> IsNewest(c)
      /\ summary' = IF c.newest THEN Page!Valuation(c.answer) ELSE summary
      /\ Page!Loaded(c)
      /\ UNCHANGED <<server, holdings, cash, cache, failed, overtaken>>
  BY <1>1 DEF Page!SummaryArrives, Page!Answered, Busy, Fetches, Stores, Page!Storing,
              Requests, IsRequest, IsNewest, Page!Valuing
<1>3. /\ Page!Valuation(c.answer) \in Shown
      /\ Page!Valuation(c.answer).cash = c.answer.cash
      /\ Page!Valuation(c.answer).quantity = IF c.answer.priced THEN c.answer.quantity ELSE 0
  BY <1>2, ValuationIs
<1>4. /\ IsRequest(k) /\ k.answer = Nothing /\ ~Stores(k)
      /\ ~Fetching({k}) /\ ~Refetching({k}) /\ ~JustStored({k}) /\ Counting({k})
      /\ IsRequest(r) /\ r.answer = Nothing /\ ~Stores(r)
      /\ ~Fetching(new) /\ ~Refetching(new) /\ ~JustStored(new) /\ Revaluing(new)
  BY NewCall DEF Page!Storing, Page!Valuing
<1>5. /\ loading' = FALSE
      /\ Counted(calls') /\ \A d \in DOMAIN calls' : IsRequest(d)
      /\ BusyOnce(calls) => BusyOnce(calls')
      /\ DOMAIN calls' = cashed \/ Outnumbered(cashed, new)
  BY <1>1, <1>2, LoadedIs
<1> HIDE DEF k, r, new
<1>6. PageTypes'
  BY <1>1, <1>2, <1>3, <1>5 DEF PageTypes
<1>7. ASSUME ~failed, ~overtaken PROVE OneAtATime' /\ AnswersFit' /\ WillShow'
  <2>1. OneAtATime /\ AnswersFit /\ WillShow
    BY <1>7 DEF PageInvariant
  <2>2. /\ loading /\ ~Refetching(DOMAIN calls) /\ ~JustStored(DOMAIN calls) /\ ~Changing
        /\ BusyOnce(calls) /\ left \subseteq DOMAIN calls /\ \A d \in left : ~Busy(d)
    <3>1. left \subseteq DOMAIN calls /\ (BusyOnce(calls) => \A d \in left : ~Busy(d))
      BY <1>1, <1>2, Leaving
    <3> QED
      BY <1>2, <2>1, <3>1, AloneIs DEF OneAtATime, Changing
  <2>3. ~Fetching(left) /\ ~Refetching(left) /\ ~JustStored(left) /\ \A d \in left : ~Stores(d)
    BY <2>2, NoneBusy
  <2>4. /\ ~IsNewest(c) => (Revaluing(left) <=> Revaluing(DOMAIN calls))
    BY <1>1, Remaining
  <2> HIDE DEF left
  <2>5. ~Fetching(cashed) /\ ~Refetching(cashed) /\ ~JustStored(cashed) /\ Counting(cashed)
        /\ (Revaluing(left) => Revaluing(cashed))
    BY <1>4, <2>3, Joined
  <2>6. /\ \A d \in cashed : d \in DOMAIN calls \/ d.answer = Nothing
        /\ \A d \in cashed : ~Stores(d)
        /\ \A d \in new : d.answer = Nothing /\ ~Stores(d)
    BY <1>4, <2>2, <2>3 DEF new
  <2>7. \A d \in cashed : IsNewest(d) /\ d.answer # Nothing =>
          d.answer.quantity = server.quantity \/ Changing'
    <3>1. \A d \in DOMAIN calls : IsNewest(d) /\ d.answer # Nothing => d.answer.quantity = server.quantity
      BY <2>1, <2>2 DEF AnswersFit, IsNewest
    <3> QED
      BY <1>4, <2>2, <3>1
  <2>8. ASSUME c.newest
        PROVE  summary' # Nothing /\ summary'.cash = server.cash
               /\ summary'.quantity = Page!Valuation(server).quantity
               /\ (server.priced \/ summary'.quantity = 0)
    <3>1. /\ c.answer.cash = server.cash /\ c.answer.priced = server.priced
          /\ c.answer.quantity = server.quantity
      BY <1>2, <2>1, <2>2, <2>8 DEF AnswersFit
    <3>2. Page!Valuation(server).quantity = IF server.priced THEN server.quantity ELSE 0
      BY <1>1, ValuationIs DEF PageTypes
    <3> QED
      BY <1>2, <1>3, <2>8, <3>1, <3>2, NothingIsNone
  <2> HIDE DEF cashed
  <2>9. CASE DOMAIN calls' = cashed
    <3>1. OneAtATime' /\ AnswersFit'
      <4> DEFINE none == {}
      <4>1. DOMAIN calls' = cashed \cup none /\ (loading' <=> Fetching(cashed) \/ Fetching(none))
        BY <1>5, <2>5, <2>9, NoCall
      <4>2. \A d \in none : d.answer = Nothing
        OBVIOUS
      <4>3. \A d \in cashed \cup none : Stores(d) => holdings' \notin {Nothing, 0}
        BY <2>6
      <4>4. BusyOnce(calls') /\ server' = server
        BY <1>2, <1>5, <2>2
      <4> HIDE DEF none
      <4> QED
        BY <2>1, <2>6, <2>7, <4>1, <4>2, <4>3, <4>4, Settle
    <3>2. Counting(DOMAIN calls)' /\ (Revaluing(left) => Revaluing(DOMAIN calls)')
      BY <2>5, <2>9
    <3>3. WillShow'
      BY <1>2, <2>1, <2>2, <2>4, <2>8, <3>2 DEF WillShow
    <3> QED
      BY <3>1, <3>3
  <2>10. CASE Outnumbered(cashed, new)
    <3>1. OneAtATime' /\ AnswersFit'
      <4>1. loading' <=> Fetching(cashed) \/ Fetching(new)
        BY <1>4, <1>5, <2>5
      <4>2. \A d \in cashed \cup new : Stores(d) => holdings' \notin {Nothing, 0}
        BY <2>6
      <4>3. BusyOnce(calls') /\ server' = server
        BY <1>2, <1>5, <2>2
      <4> QED
        BY <2>1, <2>6, <2>10, <4>1, <4>2, <4>3, Settle
    <3>2. Counting(DOMAIN calls)' /\ Revaluing(DOMAIN calls)'
      BY <1>4, <2>5, <2>10, Moved
    <3>3. WillShow'
      BY <1>2, <2>1, <2>2, <2>8, <3>2 DEF WillShow
    <3> QED
      BY <3>1, <3>3
  <2> QED
    BY <1>5, <2>9, <2>10 DEF cashed
<1> QED
  BY <1>2, <1>6, <1>7 DEF PageInvariant

\* A valuation of current prices is asked for.
LEMMA FocusKeeps ==
    ASSUME PageInvariant, Page!Focus
    PROVE  PageInvariant'
<1> DEFINE r == Page!Call("realtime", Nothing)
           new == {r}
           others == DOMAIN calls
<1>1. PageTypes /\ Counted(calls) /\ \A d \in DOMAIN calls : IsRequest(d)
  BY DEF PageInvariant, PageTypes
<1>2. /\ calls' = Page!Issued(calls, r)
      /\ UNCHANGED <<server, holdings, summary, cash, loading, cache, failed, overtaken>>
  BY DEF Page!Focus
<1>3. /\ IsRequest(r) /\ r.answer = Nothing /\ ~Stores(r) /\ ~Busy(r) /\ r.kind \in Page!Valuing
      /\ ~Fetching(new) /\ Revaluing(new)
  BY NewCall DEF Page!Storing, Page!Valuing
<1> HIDE DEF r
<1>4. /\ Counted(calls') /\ \A d \in DOMAIN calls' : IsRequest(d)
      /\ BusyOnce(calls) => BusyOnce(calls')
  BY <1>1, <1>2, <1>3, Issuing
<1>5. Outnumbered(others, new)
  BY <1>1, <1>2, <1>3, AskingIs
<1>6. PageTypes'
  BY <1>1, <1>2, <1>4 DEF PageTypes
<1>7. ASSUME ~failed, ~overtaken PROVE OneAtATime' /\ AnswersFit' /\ WillShow'
  <2>1. OneAtATime /\ AnswersFit /\ WillShow
    BY <1>7 DEF PageInvariant
  <2>2. \A d \in new : d.answer = Nothing /\ ~Stores(d)
    BY <1>3
  <2> HIDE DEF new
  <2>3. loading' <=> Fetching(others) \/ Fetching(new)
    BY <1>2, <1>3, <2>1 DEF OneAtATime, Fetching
  <2>4. \A d \in others \cup new : Stores(d) => holdings' \notin {Nothing, 0}
    BY <1>2, <2>1, <2>2 DEF OneAtATime
  <2>5. \A d \in others : d \in DOMAIN calls \/ d.answer = Nothing
    OBVIOUS
  <2>6. BusyOnce(calls') /\ server' = server
    BY <1>2, <1>4, <2>1 DEF OneAtATime
  <2>7. /\ Revaluing(DOMAIN calls)'
        /\ Refetching(others) => Refetching(DOMAIN calls)'
        /\ JustStored(others) => JustStored(DOMAIN calls)'
        /\ Counting(others) => Counting(DOMAIN calls)'
    BY <1>3, <1>5, Moved
  <2>8. WillShow'
    BY <1>2, <2>1, <2>7 DEF WillShow, Changing
  <2> HIDE DEF others
  <2>9. OneAtATime' /\ AnswersFit'
    BY <1>5, <2>1, <2>2, <2>3, <2>4, <2>5, <2>6, Settle
  <2> QED
    BY <2>8, <2>9
<1> QED
  BY <1>2, <1>6, <1>7 DEF PageInvariant

\* It arrives, for the page that is there or for an earlier one.
LEMMA RealtimeArrivesKeeps ==
    ASSUME PageInvariant, NEW c \in DOMAIN calls, Page!RealtimeArrives(c)
    PROVE  PageInvariant'
<1> DEFINE left == DOMAIN Page!Without(c)
           none == {}
           cashThen == IF c.gone THEN c.to ELSE cash
           valued == Page!WithCash(Page!Valuation(c.answer), cashThen)
<1>1. PageTypes /\ c \in Requests /\ IsRequest(c)
  BY DEF PageInvariant, PageTypes, IsRequest
<1>2. /\ c.kind = "realtime" /\ c.answer # Nothing /\ c.answer \in Stored
      /\ ~Fetches(c) /\ ~Stores(c) /\ ~Busy(c)
      /\ c.newest /\ ~c.gone <=> IsNewest(c)
      /\ summary' = IF c.newest /\ ~c.gone THEN valued ELSE summary
      /\ cache' = IF c.newest THEN valued ELSE cache
      /\ calls' = Page!Without(c)
      /\ UNCHANGED <<server, holdings, cash, loading, failed, overtaken>>
  BY <1>1 DEF Page!RealtimeArrives, Page!Answered, Busy, Fetches, Stores, Page!Storing,
              Requests, IsNewest, Page!Valuing
<1>3. cashThen \in Nat
  BY <1>1, <1>2 DEF PageTypes, IsRequest
<1>4. /\ Page!Valuation(c.answer) \in Shown
      /\ Page!Valuation(c.answer).quantity = IF c.answer.priced THEN c.answer.quantity ELSE 0
  BY <1>2, ValuationIs
<1>5. /\ valued \in Shown \cup {Nothing} /\ valued # Nothing
      /\ valued.cash = cashThen /\ valued.quantity = Page!Valuation(c.answer).quantity
  <2>1. Page!Valuation(c.answer) # Nothing
    BY <1>4, NothingIsNone
  <2> HIDE DEF cashThen
  <2> QED
    BY <1>3, <1>4, <2>1, WithCashIs
<1> HIDE DEF valued
<1>6. /\ left \subseteq DOMAIN calls /\ Counted(calls')
      /\ \A d \in left : IsRequest(d)
      /\ BusyOnce(calls) => BusyOnce(calls')
  BY <1>1, <1>2, Leaving
<1>7. PageTypes'
  BY <1>1, <1>2, <1>5, <1>6 DEF PageTypes
<1>8. ASSUME ~failed, ~overtaken PROVE OneAtATime' /\ AnswersFit' /\ WillShow'
  <2>1. OneAtATime /\ AnswersFit /\ WillShow
    BY <1>8 DEF PageInvariant
  <2>2. /\ Fetching(left) <=> Fetching(DOMAIN calls)
        /\ Refetching(left) <=> Refetching(DOMAIN calls)
        /\ JustStored(left) <=> JustStored(DOMAIN calls)
        /\ Counting(left) <=> Counting(DOMAIN calls)
        /\ ~IsNewest(c) => (Revaluing(left) <=> Revaluing(DOMAIN calls))
    BY <1>1, <1>2, Remaining
  <2>3. /\ Refetching(DOMAIN calls)' <=> Refetching(DOMAIN calls)
        /\ JustStored(DOMAIN calls)' <=> JustStored(DOMAIN calls)
        /\ Counting(DOMAIN calls)' <=> Counting(DOMAIN calls)
        /\ ~IsNewest(c) => (Revaluing(DOMAIN calls)' <=> Revaluing(DOMAIN calls))
        /\ Changing' <=> Changing
    BY <1>2, <2>2 DEF Changing
  <2>4. loading' <=> Fetching(left) \/ Fetching(none)
    BY <1>2, <2>1, <2>2, NoCall DEF OneAtATime, Fetching
  <2>5. \A d \in left \cup none : Stores(d) => holdings' \notin {Nothing, 0}
    BY <1>2, <1>6, <2>1 DEF OneAtATime
  <2>6. \A d \in left : IsNewest(d) /\ d.answer # Nothing => d.answer.quantity = server.quantity \/ Changing'
    BY <1>6, <2>1, <2>3 DEF AnswersFit, IsNewest
  <2>7. OneAtATime' /\ AnswersFit'
    <3>1. BusyOnce(calls') /\ server' = server
      BY <1>2, <1>6, <2>1 DEF OneAtATime
    <3>2. \A d \in left : d \in DOMAIN calls \/ d.answer = Nothing
      BY <1>6
    <3>3. DOMAIN calls' = left \cup none /\ \A d \in none : d.answer = Nothing
      BY <1>2
    <3> HIDE DEF left, none
    <3> QED
      BY <2>1, <2>4, <2>5, <2>6, <3>1, <3>2, <3>3, Settle
  <2>8. CASE IsNewest(c)
    <3>1. summary' = valued /\ cashThen = cash
      BY <1>2, <2>8
    <3>2. /\ c.answer.priced = server.priced
          /\ c.answer.quantity = server.quantity \/ Changing
      BY <1>2, <2>1, <2>8 DEF AnswersFit
    <3>3. Page!Valuation(server).quantity = IF server.priced THEN server.quantity ELSE 0
      BY <1>1, ValuationIs DEF PageTypes
    <3>4. WillShow'
      BY <1>2, <1>4, <1>5, <2>1, <2>3, <3>1, <3>2, <3>3 DEF WillShow
    <3> QED
      BY <2>7, <3>4
  <2>9. CASE ~IsNewest(c)
    <3>1. summary' = summary
      BY <1>2, <2>9
    <3>2. WillShow'
      BY <1>2, <2>1, <2>3, <2>9, <3>1 DEF WillShow
    <3> QED
      BY <2>7, <3>2
  <2> QED
    BY <2>8, <2>9
<1> QED
  BY <1>2, <1>7, <1>8 DEF PageInvariant

\* A change is to be stored.
LEMMA ChangeKeeps ==
    ASSUME PageInvariant, Page!Delete \/ \E quantity \in 1..MaxQuantity : Page!Save(quantity)
    PROVE  PageInvariant'
<1>1. PageTypes /\ Counted(calls) /\ \A d \in DOMAIN calls : IsRequest(d)
  BY DEF PageInvariant, PageTypes
<1>2. PICK kind \in Page!Storing, to \in Nat :
        /\ calls' = Page!With(calls, Page!Call(kind, to))
        /\ ~loading /\ holdings \notin {Nothing, 0}
        /\ \A d \in DOMAIN calls : ~Stores(d)
        /\ UNCHANGED <<server, holdings, summary, cash, loading, cache, failed, overtaken>>
  <2>1. CASE Page!Delete
    BY <2>1 DEF Page!Delete, Page!NothingStored, Page!UnderWay, Page!BagToSet, Stores,
                Page!Storing
  <2>2. CASE \E quantity \in 1..MaxQuantity : Page!Save(quantity)
    <3>1. MaxQuantity \in Nat
      BY ServicesAssumption DEF Page!PageAssumption
    <3>2. PICK quantity \in 1..MaxQuantity : Page!Save(quantity)
      BY <2>2
    <3>3. quantity \in Nat /\ "save" \in Page!Storing
      BY <3>1 DEF Page!Storing
    <3> QED
      BY <3>2, <3>3 DEF Page!Save, Page!NothingStored, Page!UnderWay, Page!BagToSet, Stores
  <2> QED
    BY <2>1, <2>2
<1> DEFINE n == Page!Call(kind, to)
           new == {n}
           others == DOMAIN calls
<1>3. /\ IsRequest(n) /\ n.answer = Nothing /\ Stores(n) /\ Busy(n)
      /\ ~Fetching(new) /\ ~Refetching(new) /\ ~JustStored(new) /\ ~Counting(new) /\ ~Revaluing(new)
  <2>1. /\ kind \in {"portfolio", "summary", "realtime", "cash", "delete", "save"}
        /\ kind \notin {"portfolio", "summary", "cash"} \cup Page!Valuing
    BY DEF Page!Storing, Page!Valuing
  <2> QED
    BY <2>1, NewCall
<1>4. calls' = Page!With(calls, n)
  BY <1>2
<1> HIDE DEF n
<1>5. /\ DOMAIN calls' = others \cup new /\ Counted(calls')
      /\ \A d \in DOMAIN calls' : IsRequest(d)
      /\ BusyOnce(calls) /\ (\A d \in DOMAIN calls : ~Busy(d)) => BusyOnce(calls')
  BY <1>1, <1>3, <1>4, Adding
<1>6. PageTypes'
  BY <1>1, <1>2, <1>5 DEF PageTypes
<1>7. ASSUME ~failed, ~overtaken PROVE OneAtATime' /\ AnswersFit' /\ WillShow'
  <2>1. OneAtATime /\ AnswersFit /\ WillShow
    BY <1>7 DEF PageInvariant
  <2>2. BusyOnce(calls) /\ \A d \in DOMAIN calls : ~Busy(d)
    BY <1>2, <2>1 DEF OneAtATime, Busy
  <2>3. \A d \in new : d.answer = Nothing
    BY <1>3
  <2> HIDE DEF new
  <2>4. /\ Fetching(DOMAIN calls)' <=> Fetching(DOMAIN calls)
        /\ Refetching(DOMAIN calls)' <=> Refetching(DOMAIN calls)
        /\ JustStored(DOMAIN calls)' <=> JustStored(DOMAIN calls)
        /\ Counting(DOMAIN calls)' <=> Counting(DOMAIN calls)
        /\ Revaluing(DOMAIN calls)' <=> Revaluing(DOMAIN calls)
        /\ Changing' <=> Changing
    BY <1>3, <1>5, Joined DEF Changing
  <2>5. loading' <=> Fetching(others) \/ Fetching(new)
    BY <1>2, <1>3, <2>1 DEF OneAtATime, Fetching
  <2>6. \A d \in others \cup new : Stores(d) => holdings' \notin {Nothing, 0}
    BY <1>2
  <2>7. BusyOnce(calls') /\ server' = server /\ \A d \in others : d \in DOMAIN calls \/ d.answer = Nothing
    BY <1>2, <1>5, <2>2
  <2>8. \A d \in others : IsNewest(d) /\ d.answer # Nothing => d.answer.quantity = server.quantity \/ Changing'
    BY <2>1, <2>4 DEF AnswersFit, IsNewest
  <2>9. WillShow'
    BY <1>2, <2>1, <2>4 DEF WillShow
  <2> HIDE DEF others
  <2>10. OneAtATime' /\ AnswersFit'
    BY <1>5, <2>1, <2>3, <2>5, <2>6, <2>7, <2>8, Settle
  <2> QED
    BY <2>9, <2>10
<1> QED
  BY <1>2, <1>6, <1>7 DEF PageInvariant

\* When a change has been stored and the page fetches everything again.
LEMMA RefetchIs ==
    ASSUME PageTypes, NEW c \in DOMAIN calls, Stores(c),
           calls' = Page!Issued(Page!Without(c), Page!Call("portfolio", Nothing))
    PROVE  /\ Counted(calls') /\ \A d \in DOMAIN calls' : IsRequest(d)
           /\ OneAtATime /\ AnswersFit /\ loading' /\ server' = server =>
                OneAtATime' /\ AnswersFit' /\ Refetching(DOMAIN calls)'
<1> DEFINE n == Page!Call("portfolio", Nothing)
           new == {n}
           left == DOMAIN Page!Without(c)
<1>1. /\ IsRequest(n) /\ n.answer = Nothing /\ ~Stores(n) /\ n.kind \notin Page!Valuing
      /\ Fetching(new) /\ Refetching(new)
  BY NewCall DEF Page!Storing, Page!Valuing
<1> HIDE DEF n
<1>2. /\ left \subseteq DOMAIN calls /\ Counted(Page!Without(c))
      /\ \A d \in left : IsRequest(d)
      /\ BusyOnce(calls) => BusyOnce(Page!Without(c)) /\ \A d \in left : ~Busy(d)
  BY Leaving DEF Busy
<1>3. /\ DOMAIN calls' = left \cup new /\ Counted(calls') /\ \A d \in DOMAIN calls' : IsRequest(d)
      /\ BusyOnce(calls) => BusyOnce(calls')
  BY <1>1, <1>2, Issuing DEF n
<1>4. ASSUME OneAtATime, AnswersFit, loading', server' = server
      PROVE  OneAtATime' /\ AnswersFit' /\ Refetching(DOMAIN calls)'
  <2>1. BusyOnce(calls') /\ \A d \in left : ~Busy(d)
    BY <1>2, <1>3, <1>4 DEF OneAtATime
  <2>2. \A d \in new : d.answer = Nothing
    BY <1>1
  <2>3. \A d \in left \cup new : Stores(d) => holdings' \notin {Nothing, 0}
    BY <1>1, <2>1, NoneBusy
  <2> HIDE DEF new, left
  <2>4. Refetching(DOMAIN calls)' /\ Changing'
    BY <1>1, <1>3, Joined DEF Changing
  <2>5. \A d \in left : d \in DOMAIN calls \/ d.answer = Nothing
    BY <1>2
  <2>6. loading' <=> Fetching(left) \/ Fetching(new)
    BY <1>1, <1>4
  <2>7. OneAtATime' /\ AnswersFit'
    BY <1>3, <1>4, <2>1, <2>2, <2>3, <2>4, <2>5, <2>6, Settle
  <2> QED
    BY <2>4, <2>7
<1> QED
  BY <1>3, <1>4

\* A deletion is answered.
LEMMA DeletedKeeps ==
    ASSUME PageInvariant, NEW c \in DOMAIN calls, Page!Deleted(c)
    PROVE  PageInvariant'
<1>1. PageTypes /\ Stores(c)
  BY DEF PageInvariant, Page!Deleted, Page!Answered, Stores, Page!Storing
<1>2. /\ holdings' = 0 /\ cache' = Nothing /\ loading' = TRUE
      /\ calls' = Page!Issued(Page!Without(c), Page!Call("portfolio", Nothing))
      /\ UNCHANGED <<server, summary, cash, failed, overtaken>>
  BY DEF Page!Deleted
<1>3. /\ Counted(calls') /\ \A d \in DOMAIN calls' : IsRequest(d)
      /\ OneAtATime /\ AnswersFit => OneAtATime' /\ AnswersFit' /\ Refetching(DOMAIN calls)'
  BY <1>1, <1>2, RefetchIs
<1>4. PageTypes'
  BY <1>1, <1>2, <1>3 DEF PageTypes
<1>5. Refetching(DOMAIN calls)' => WillShow'
  BY <1>2 DEF WillShow, Changing
<1> QED
  BY <1>2, <1>3, <1>4, <1>5 DEF PageInvariant

\* A saved holding is answered: it is shown at once, or everything is fetched again.
LEMMA SavedKeeps ==
    ASSUME PageInvariant, NEW c \in DOMAIN calls, Page!Saved(c)
    PROVE  PageInvariant'
<1> DEFINE priced == summary # Nothing /\ summary.quantity # 0
           next == [summary EXCEPT !.quantity = c.to]
           left == DOMAIN Page!Without(c)
           none == {}
<1>1. PageTypes /\ Stores(c) /\ IsRequest(c) /\ c.answer # Nothing /\ c.to \in Nat /\ ~c.gone
      /\ ~Fetches(c) /\ ~IsNewest(c) /\ c.kind = "save"
  BY DEF PageInvariant, PageTypes, Page!Saved, Page!Answered, Stores, Page!Storing,
         IsRequest, Fetches, IsNewest, Page!Valuing
<1>2. /\ holdings' = IF holdings = 0 THEN 0 ELSE c.to
      /\ summary' = IF priced THEN next ELSE summary
      /\ cache' = IF priced THEN next ELSE cache
      /\ calls' = IF priced THEN Page!Without(c)
                  ELSE Page!Issued(Page!Without(c), Page!Call("portfolio", Nothing))
      /\ loading' = (loading \/ ~priced)
      /\ overtaken' = (overtaken \/ Page!Overtaking(c.to))
      /\ UNCHANGED <<server, cash, failed>>
  BY DEF Page!Saved
<1>3. priced => next \in Shown /\ next.quantity = c.to /\ next.cash = summary.cash
  BY <1>1 DEF PageTypes, Shown
<1>4. /\ left \subseteq DOMAIN calls /\ Counted(Page!Without(c))
      /\ \A d \in left : IsRequest(d)
      /\ BusyOnce(calls) => BusyOnce(Page!Without(c)) /\ \A d \in left : ~Busy(d)
  BY <1>1, Leaving DEF Busy
<1>5. ~priced /\ loading' =>
        /\ Counted(calls') /\ \A d \in DOMAIN calls' : IsRequest(d)
        /\ OneAtATime /\ AnswersFit => OneAtATime' /\ AnswersFit' /\ Refetching(DOMAIN calls)'
  BY <1>1, <1>2, RefetchIs
<1>6. Page!Overtaking(c.to) \in BOOLEAN
  BY DEF Page!Overtaking
<1>7. loading' \in BOOLEAN /\ overtaken' \in BOOLEAN /\ (~priced => loading')
  BY <1>1, <1>2, <1>6 DEF PageTypes
<1>8. PageTypes'
  <2>1. Counted(calls') /\ \A d \in DOMAIN calls' : IsRequest(d)
    BY <1>2, <1>4, <1>5, <1>7
  <2>2. summary' \in Shown \cup {Nothing} /\ cache' \in Shown \cup {Nothing}
    BY <1>1, <1>2, <1>3 DEF PageTypes
  <2>3. holdings' \in Nat \cup {Nothing}
    BY <1>1, <1>2
  <2> HIDE DEF priced, next
  <2> QED
    BY <1>1, <1>2, <1>7, <2>1, <2>2, <2>3 DEF PageTypes
<1>9. ASSUME ~failed, ~overtaken' PROVE OneAtATime' /\ AnswersFit' /\ WillShow'
  <2>1. ~overtaken /\ ~Page!Overtaking(c.to)
    BY <1>1, <1>2, <1>6, <1>9 DEF PageTypes
  <2>2. OneAtATime /\ AnswersFit /\ WillShow
    BY <1>9, <2>1 DEF PageInvariant
  <2>3. /\ server.quantity = c.to
        /\ holdings' = server.quantity
    <3>1. server.quantity = c.to
      BY <1>1, <2>2 DEF AnswersFit
    <3>2. holdings # 0
      BY <1>1, <2>2 DEF OneAtATime
    <3> QED
      BY <1>2, <3>1, <3>2
  <2>4. CASE ~priced
    <3>1. OneAtATime' /\ AnswersFit' /\ Refetching(DOMAIN calls)'
      BY <1>5, <1>7, <2>2, <2>4
    <3>2. WillShow'
      BY <1>2, <1>7, <2>3, <2>4, <3>1 DEF WillShow, Changing
    <3> QED
      BY <3>1, <3>2
  <2>5. CASE priced
    <3>1. /\ calls' = Page!Without(c) /\ summary' = next /\ UNCHANGED <<server, cash>>
          /\ loading' <=> loading
      BY <1>1, <1>2, <2>5 DEF PageTypes
    <3>2. /\ ~loading /\ ~Refetching(DOMAIN calls) /\ BusyOnce(calls) /\ \A d \in left : ~Busy(d)
      <4>1. Busy(c)
        BY <1>1 DEF Busy
      <4>2. ~loading /\ ~Refetching(DOMAIN calls)
        BY <1>1, <2>2, <4>1, AloneIs
      <4> QED
        BY <1>4, <2>2, <4>2 DEF OneAtATime
    <3>3. /\ Counting(left) <=> Counting(DOMAIN calls)
          /\ Revaluing(left) <=> Revaluing(DOMAIN calls)
      BY <1>1, Remaining
    <3>4. /\ Counting(DOMAIN calls)' <=> Counting(DOMAIN calls)
          /\ Revaluing(DOMAIN calls)' <=> Revaluing(DOMAIN calls)
      BY <3>1, <3>3
    <3>5. \A d \in left : IsNewest(d) /\ d.answer # Nothing => d.answer.quantity = server.quantity
      BY <1>4, <2>1, <2>3 DEF Page!Overtaking, Page!UnderWay, Page!BagToSet, IsNewest,
                              Page!Valuing
    <3>6. loading' <=> Fetching(left) \/ Fetching(none)
      BY <3>1, <3>2, NoneBusy, NoCall
    <3>7. \A d \in left \cup none : Stores(d) => holdings' \notin {Nothing, 0}
      BY <3>2, NoneBusy
    <3>8. /\ BusyOnce(calls') /\ server' = server /\ DOMAIN calls' = left \cup none
          /\ \A d \in none : d.answer = Nothing
          /\ \A d \in left : d \in DOMAIN calls \/ d.answer = Nothing
      BY <1>4, <3>1, <3>2
    <3>9. WillShow'
      <4>1. next # Nothing /\ next.quantity = server.quantity /\ next.cash = summary.cash
        BY <1>3, <2>3, <2>5, NothingIsNone
      <4>2. server.priced \/ Revaluing(DOMAIN calls)
        BY <2>2, <2>5, <3>2 DEF WillShow
      <4>3. Page!Valuation(server).quantity = IF server.priced THEN server.quantity ELSE 0
        BY <1>1, ValuationIs DEF PageTypes
      <4>4. /\ cash = server.cash \/ loading \/ Counting(DOMAIN calls)
            /\ summary.cash = server.cash \/ loading \/ Counting(DOMAIN calls)
        BY <2>2, <2>5 DEF WillShow
      <4> HIDE DEF next, priced
      <4> QED
        BY <2>3, <3>1, <3>4, <4>1, <4>2, <4>3, <4>4 DEF WillShow
    <3> HIDE DEF left, none
    <3>10. OneAtATime' /\ AnswersFit'
      BY <2>2, <3>5, <3>6, <3>7, <3>8, Settle
    <3> QED
      BY <3>9, <3>10
  <2> QED
    BY <2>4, <2>5
<1> QED
  BY <1>2, <1>8, <1>9 DEF PageInvariant

\* A request fails.
LEMMA FailureKeeps ==
    ASSUME PageInvariant, NEW c \in DOMAIN calls,
           \/ Page!PortfolioFails(c) \/ Page!SummaryFails(c) \/ Page!CashFails(c)
           \/ Page!RealtimeFails(c) \/ Page!StoringFails(c)
    PROVE  PageInvariant'
<1>1. PageTypes
  BY DEF PageInvariant
<1>2. /\ failed' = TRUE
      /\ holdings' \in {holdings, 0} /\ cash' \in {cash, 0}
      /\ loading' = loading \/ loading' = FALSE
      /\ UNCHANGED <<server, summary, cache, overtaken>>
  BY DEF Page!PortfolioFails, Page!SummaryFails, Page!CashFails, Page!RealtimeFails,
         Page!StoringFails, Page!Failing, Page!Loaded
<1>3. Counted(calls') /\ \A d \in DOMAIN calls' : IsRequest(d)
  <2>1. CASE calls' = Page!Without(c)
    BY <1>1, <2>1, Leaving
  <2>2. CASE Page!SummaryFails(c)
    <3>1. Busy(c) /\ Page!Loaded(c)
      BY <2>2 DEF Page!SummaryFails, Page!Failing, Busy, Fetches
    <3> QED
      BY <1>1, <3>1, LoadedIs
  <2> QED
    BY <2>1, <2>2 DEF Page!PortfolioFails, Page!CashFails, Page!RealtimeFails,
                      Page!StoringFails
<1>4. holdings' \in Nat \cup {Nothing} /\ cash' \in Nat /\ loading' \in BOOLEAN
  <2>1. holdings \in Nat \cup {Nothing} /\ cash \in Nat /\ loading \in BOOLEAN
    BY <1>1 DEF PageTypes
  <2>2. holdings' \in Nat \cup {Nothing} /\ cash' \in Nat
    BY <1>2, <2>1
  <2>3. loading' \in BOOLEAN
    BY <1>2, <2>1
  <2> QED
    BY <2>2, <2>3
<1>5. PageTypes'
  BY <1>1, <1>2, <1>3, <1>4 DEF PageTypes
<1> QED
  BY <1>2, <1>5 DEF PageInvariant

\* A new visit: what an earlier one left under way no longer says anything of the page.
LEMMA RevisitKeeps ==
    ASSUME PageInvariant, NEW account \in Accounts, Page!Revisit(account)
    PROVE  PageInvariant'
<1> DEFINE some == {d \in DOMAIN calls : d.kind = "realtime"}
           leave(d) == IF d.gone THEN d ELSE [d EXCEPT !.gone = TRUE, !.to = cash]
           kept == Page!BagOfAll(leave, Page!Only(some))
           n == Page!Call("portfolio", Nothing)
<1>1. PageTypes
  BY DEF PageInvariant
<1>2. /\ calls' = Page!With(kept, n)
      /\ server' = account /\ holdings' = Nothing /\ summary' = Nothing /\ cash' = 0
      /\ loading' = TRUE /\ failed' = FALSE /\ overtaken' = FALSE /\ cache' = cache
  BY DEF Page!Revisit, Page!UnderWay, Page!BagToSet
<1>3. DOMAIN kept = {leave(d) : d \in some}
  BY DEF Page!BagOfAll, Page!BagToSet, Page!Only
<1> HIDE DEF kept
<1>4. \A e \in DOMAIN kept : IsRequest(e) /\ e.gone /\ ~Busy(e)
  <2> SUFFICES ASSUME NEW d \in some PROVE IsRequest(leave(d)) /\ leave(d).gone /\ ~Busy(leave(d))
    BY <1>3
  <2>1. d \in Requests /\ IsRequest(d) /\ d.kind = "realtime" /\ cash \in Nat
    BY <1>1 DEF PageTypes, IsRequest
  <2>2. CASE d.gone
    BY <2>1, <2>2 DEF Busy, Fetches, Stores, Page!Storing
  <2>3. CASE ~d.gone
    <3> DEFINE e == leave(d)
    <3>1. e = [[d EXCEPT !.gone = TRUE] EXCEPT !.to = cash]
      BY <2>3
    <3>2. [d EXCEPT !.gone = TRUE] \in Requests
      BY <2>1 DEF Requests
    <3>3. e \in Requests /\ e.gone /\ e.to = cash /\ e.kind = "realtime"
      BY <2>1, <3>1, <3>2 DEF Requests
    <3> HIDE DEF e
    <3>4. IsRequest(e) /\ ~Busy(e)
      BY <2>1, <3>3 DEF IsRequest, Busy, Fetches, Stores, Page!Storing
    <3> QED
      BY <3>3, <3>4 DEF e
  <2> QED
    BY <2>2, <2>3
<1>5. Counted(kept) /\ BusyOnce(kept)
  BY <1>4 DEF Counted, BusyOnce
<1>6. IsRequest(n) /\ n.answer = Nothing /\ ~Stores(n) /\ n.kind = "portfolio"
  BY NewCall DEF Page!Storing
<1> HIDE DEF n
<1>7. /\ DOMAIN calls' = DOMAIN kept \cup {n} /\ Counted(calls')
      /\ \A d \in DOMAIN calls' : IsRequest(d)
      /\ BusyOnce(calls')
  BY <1>2, <1>4, <1>5, <1>6, Adding
<1>8. account \in Stored
  BY ServicesAssumption DEF Page!PageAssumption, Stored
<1>9. PageTypes'
  BY <1>1, <1>2, <1>7, <1>8 DEF PageTypes
<1>10. Refetching(DOMAIN calls)' /\ Changing'
  BY <1>6, <1>7 DEF Refetching, Changing
<1>11. OneAtATime'
  BY <1>2, <1>4, <1>6, <1>7 DEF OneAtATime, Busy, Fetches
<1>12. AnswersFit'
  BY <1>4, <1>6, <1>7 DEF AnswersFit
<1>13. WillShow'
  BY <1>2, <1>10 DEF WillShow
<1> QED
  BY <1>9, <1>11, <1>12, <1>13 DEF PageInvariant

\* The page starts in the invariant,
LEMMA PageStarts == Page!Init => PageInvariant
<1> SUFFICES ASSUME Page!Init PROVE PageInvariant
  OBVIOUS
<1> DEFINE n == Page!Call("portfolio", Nothing)
<1>1. /\ server \in Accounts /\ holdings = Nothing /\ summary = Nothing /\ cash = 0
      /\ loading = TRUE /\ cache = Nothing /\ calls = Page!One(n) /\ failed = FALSE /\ overtaken = FALSE
  BY DEF Page!Init
<1>2. DOMAIN calls = {n} /\ calls[n] = 1
  BY <1>1 DEF Page!One, Page!SetToBag
<1>3. IsRequest(n) /\ n.answer = Nothing /\ ~Stores(n) /\ n.kind = "portfolio"
  BY NewCall DEF Page!Storing
<1> HIDE DEF n
<1>4. server \in Stored
  BY <1>1, ServicesAssumption DEF Page!PageAssumption, Stored
<1>a. Counted(calls) /\ \A c \in DOMAIN calls : IsRequest(c)
  BY <1>2, <1>3 DEF Counted
<1>5. PageTypes
  BY <1>1, <1>4, <1>a DEF PageTypes
<1>6. Refetching(DOMAIN calls) /\ Changing
  BY <1>2, <1>3 DEF Refetching, Changing
<1>7. OneAtATime
  BY <1>1, <1>2, <1>3 DEF OneAtATime, BusyOnce, Fetches
<1>8. AnswersFit
  BY <1>2, <1>3 DEF AnswersFit
<1>9. WillShow
  BY <1>1, <1>6 DEF WillShow
<1> QED
  BY <1>5, <1>7, <1>8, <1>9 DEF PageInvariant

\* every step keeps it,
LEMMA PageSteps ==
    ASSUME PageInvariant, Page!Next
    PROVE  PageInvariant'
<1>1. CASE \E c \in DOMAIN calls :
             \/ Page!Serve(c)
             \/ Page!PortfolioArrives(c) \/ Page!PortfolioFails(c)
             \/ Page!SummaryArrives(c) \/ Page!SummaryFails(c)
             \/ Page!CashArrives(c) \/ Page!CashFails(c)
             \/ Page!RealtimeArrives(c) \/ Page!RealtimeFails(c)
             \/ Page!Deleted(c) \/ Page!Saved(c) \/ Page!StoringFails(c)
  BY <1>1, ServeKeeps, PortfolioArrivesKeeps, SummaryArrivesKeeps, CashArrivesKeeps,
     RealtimeArrivesKeeps, DeletedKeeps, SavedKeeps, FailureKeeps
<1>2. CASE Page!Focus
  BY <1>2, FocusKeeps
<1>3. CASE Page!Delete \/ \E quantity \in 1..MaxQuantity : Page!Save(quantity)
  BY <1>3, ChangeKeeps
<1>4. CASE \E account \in Accounts : Page!Revisit(account)
  BY <1>4, RevisitKeeps
<1> QED
  BY <1>1, <1>2, <1>3, <1>4 DEF Page!Next, Page!UnderWay, Page!BagToSet

\* and it holds in every state.
LEMMA PageInvariance == ServicesSpec => []PageInvariant
<1>1. ServicesInit => PageInvariant
  BY PageStarts DEF ServicesInit
<1>2. ASSUME PageInvariant, [ServicesNext]_services
      PROVE  PageInvariant'
  <2>1. CASE Page!Next
    BY <1>2, <2>1, PageSteps
  <2>2. CASE UNCHANGED dashboard
    BY <1>2, <2>2 DEF dashboard, PageInvariant, PageTypes, OneAtATime, AnswersFit,
                      WillShow, Changing
  <2> QED
    BY <1>2, <2>1, <2>2, StepsApart
<1> QED
  BY <1>1, <1>2, PTL DEF ServicesSpec

\* A portfolio page with no request under way shows what is stored, in whatever order the
\* answers came in and whatever an earlier visit left in the browser (usePortfolioData.js).
THEOREM AQuietPageIsFresh == ServicesSpec => []SettledIsFresh
<1>1. ASSUME PageInvariant PROVE Page!SettledIsFresh
  <2> SUFFICES ASSUME \A c \in DOMAIN calls : c.gone, ~failed, ~overtaken
      PROVE  holdings = server.quantity /\ summary = Page!Valuation(server)
    BY DEF Page!SettledIsFresh, Page!UnderWay, Page!BagToSet
  <2>1. PageTypes /\ OneAtATime /\ WillShow
    BY <1>1 DEF PageInvariant
  <2>2. \A c \in DOMAIN calls : c.kind = "realtime" /\ ~IsNewest(c) /\ ~Fetches(c) /\ ~Stores(c)
    BY <2>1 DEF PageTypes, IsRequest, IsNewest, Fetches, Stores, Page!Storing
  <2>3. ~loading /\ ~Changing /\ ~Revaluing(DOMAIN calls) /\ ~Counting(DOMAIN calls)
    BY <2>1, <2>2 DEF OneAtATime, Changing, Refetching, JustStored, Revaluing, Counting
  <2>4. /\ holdings = server.quantity
        /\ summary # Nothing /\ summary.quantity = Page!Valuation(server).quantity
        /\ summary.cash = server.cash
    BY <2>1, <2>3 DEF WillShow
  <2>5. /\ summary \in Shown /\ Page!Valuation(server) \in Shown
        /\ Page!Valuation(server).cash = server.cash
    BY <2>1, <2>4, ValuationIs DEF PageTypes
  <2>6. summary = Page!Valuation(server)
    BY <2>4, <2>5 DEF Shown
  <2> QED
    BY <2>4, <2>6
<1>2. PageInvariant => SettledIsFresh
  BY <1>1 DEF SettledIsFresh
<1> QED
  BY <1>2, PageInvariance, PTL

-----------------------------------------------------------------------------
(* The ledger of institutional holdings. *)

\* The tables follow what was published, whatever is filed and generated.
LEMMA TablesInvariance == ServicesSpec => []TablesFollow
<1>0. Filings!Calendar
  BY ServicesAssumption
<1>1. ServicesInit => TablesFollow
  BY <1>0 DEF ServicesInit, Filings!Init, TablesFollow, Filings!Inserted, Filings!ToSet,
              Filings!Calendar, Accepted
<1>2. TablesFollow /\ [ServicesNext]_services => TablesFollow'
  <2> SUFFICES ASSUME TablesFollow, [Filings!Next]_(Filings!vars) PROVE TablesFollow'
    BY StepsApart DEF reports, Filings!vars
  <2>0. Filings!ToSet(published) \subseteq Filings!Published
    BY ElementsTyped DEF TablesFollow, Accepted
  <2>1. CASE \E filing \in Filable, accession \in Filings!Accessions : Filings!File(filing, accession)
    <3> PICK filing \in Filable, accession \in Filings!Accessions : Filings!File(filing, accession)
      BY <2>1
    <3> DEFINE row == [filing |-> filing, accession |-> accession, filed |-> day]
    <3>1. row \in Filings!Published /\ row.filed = day /\ row.filed > covered
      BY DEF TablesFollow, Filings!Published
    <3>2. /\ published' = Append(published, row) /\ Accepted(published)
          /\ Filings!ToSet(published') = Filings!ToSet(published) \union {row}
      BY <3>1, ElementsGrow DEF Filings!File, TablesFollow, Accepted
    <3>3. {r \in Filings!ToSet(published') : r.filed <= covered} = {r \in Filings!ToSet(published) : r.filed <= covered}
      BY <3>1, <3>2 DEF TablesFollow
    <3>4. \A r \in Filings!ToSet(published') : r.filed <= day
      BY <3>1, <3>2 DEF TablesFollow
    <3>5. \A i \in DOMAIN published :
              published[i].filed <= day /\ published[i].accession # accession
      BY DEF Filings!File, TablesFollow, Filings!ToSet
    <3>6. Accepted(published')
      BY <3>1, <3>2, <3>5 DEF Accepted
    <3>7. QED
      BY <3>2, <3>3, <3>4, <3>6 DEF Filings!File, TablesFollow
  <2>2. CASE Filings!EndOfDay
    <3>1. \A row \in Filings!ToSet(published) : row.filed <= day + 1
      BY <2>0 DEF TablesFollow, Filings!Published
    <3>2. QED
      BY <1>0, <2>2, <3>1 DEF Filings!EndOfDay, TablesFollow, Filings!Calendar
  <2>3. CASE Filings!Generate
    <3>1. \A row \in Filings!ToSet(published) : row.filed <= day + 1
      BY <2>0 DEF TablesFollow, Filings!Published
    <3>2. {row \in Filings!ToSet(published) : row.filed <= day} = Filings!ToSet(published)
      BY DEF TablesFollow
    <3>3. filings' = Filings!Inserted({row \in Filings!ToSet(published') : row.filed <= covered'})
      BY <2>3, <3>2 DEF Filings!Generate
    <3>4. \A row \in filings' : Filings!Usable(row) => effective'[row] = Filings!After(filings', row)
      BY <2>3 DEF Filings!Generate, Filings!Materialize
    <3>5. day' \in 1..LastFilingDay /\ covered' \in 0..(day' - 1)
      BY <1>0, <2>3 DEF Filings!Generate, TablesFollow, Filings!Calendar
    <3>6. QED
      BY <2>3, <3>1, <3>3, <3>4, <3>5 DEF Filings!Generate, TablesFollow
  <2>4. CASE UNCHANGED Filings!vars
    BY <2>4 DEF Filings!vars, TablesFollow
  <2>5. QED
    BY <2>1, <2>2, <2>3, <2>4 DEF Filings!Next
<1>3. QED
  BY <1>1, <1>2, PTL DEF ServicesSpec

\* Whatever is filed late, amended or generated again, the positions of every day an
\* earlier generation covered, and of the next, stay (ThePositionsAreReported says
\* what they are).
THEOREM NothingLooksAhead == ServicesSpec => NoLookAhead
<1>0. Filings!Calendar
  BY ServicesAssumption
<1>1. TablesFollow /\ TablesFollow' /\ [ServicesNext]_services =>
        [\A group \in Groups, date \in 1..(covered + 1) :
            Filings!PeriodPositions(group, date)' = Filings!PeriodPositions(group, date)]_(Filings!vars)
  <2> SUFFICES ASSUME TablesFollow, TablesFollow', [Filings!Next]_(Filings!vars)
               PROVE  [\A group \in Groups, date \in 1..(covered + 1) :
                          Filings!PeriodPositions(group, date)' = Filings!PeriodPositions(group, date)]_(Filings!vars)
    BY StepsApart DEF reports, Filings!vars
  <2> QED
    BY <1>0, PositionsStay
<1> QED
  BY <1>1, TablesInvariance, PTL DEF ServicesSpec, NoLookAhead, Filings!NoLookAhead

\* On every day up to the one after the last covered, the positions of a manager are what
\* it had reported and the market had seen by a session of that day, whatever was amended
\* and whenever the tables were generated; of the filings whose accession numbers follow
\* their acceptance, and when no report that replaces the earlier ones is left out.
THEOREM ThePositionsAreReported == ServicesSpec => []PositionsFollowReports
<1>1. TablesFollow => PositionsFollowReports
  <2>1. Filings!Calendar /\ Filings!FilingAssumption
    BY ServicesAssumption
  <2>2. TablesFollow => Filings!PositionsFollowReports
    BY <2>1, PositionsAre DEF Filings!PositionsFollowReports
  <2> QED
    BY <2>2 DEF PositionsFollowReports
<1> QED
  BY <1>1, TablesInvariance, PTL

-----------------------------------------------------------------------------
(* The ledger of earnings events. The writer that appends is the one that *)
(* has the lock, so that it knows the file line by line, as long as no    *)
(* line is cut; a cut line stays, and with it nobody reads the file.      *)

HasCut(lines) == \E i \in DOMAIN lines : lines[i].text = "cut"

InChain(lines) ==
    \A i \in DOMAIN lines :
        /\ lines[i].sequence = i
        /\ lines[i].previous = [j \in 1..(i - 1) |-> lines[j].payload]

\* What a line that is not cut makes readable is known to the writer and holds what was
\* answered.
ChainKept ==
    \/ HasCut(file)
    \/ /\ InChain(file)
       /\ \A w \in Collectors : at[w] = "appending" => known[w] = Chain!Payloads(file)
       /\ answered \subseteq Chain!ToSet(Chain!Payloads(file))
       /\ Chain!EventsAreUnique

ChainInv ==
    /\ Chain!TypeOK
    /\ \A w \in Collectors : at[w] = "appending" => lock = w
    /\ ~damaged => \A i \in DOMAIN file : file[i].text = "whole"
    /\ ChainKept

-----------------------------------------------------------------------------
(* A line and the file it is written to. *)

\* A file has a readable chain if no line of it is cut.
LEMMA ReadableChain ==
    ASSUME NEW lines
    PROVE  Chain!Readable(lines) <=> ~HasCut(lines) /\ InChain(lines)
  BY DEF Chain!Readable, HasCut, InChain

\* What is written joins a line without its end, or is a line of its own.
LEMMA WrittenLine ==
    ASSUME NEW lines \in Seq(Chain!Line), NEW line \in Chain!Line
    PROVE  /\ Chain!Written(lines, line) \in Seq(Chain!Line)
           /\ HasCut(lines) => HasCut(Chain!Written(lines, line))
           /\ \/ HasCut(Chain!Written(lines, line)) /\ \E i \in DOMAIN lines : lines[i].text # "whole"
              \/ Chain!Written(lines, line) = Append(lines, line)
<1>1. CASE lines # <<>> /\ Chain!Last(lines).text # "whole"
  <2>1. Len(lines) \in DOMAIN lines /\ lines[Len(lines)].text # "whole"
    BY <1>1 DEF Chain!Last
  <2>2. Chain!Written(lines, line) = [lines EXCEPT ![Len(lines)] = [lines[Len(lines)] EXCEPT !.text = "cut"]]
    BY <1>1 DEF Chain!Written
  <2>3. [lines[Len(lines)] EXCEPT !.text = "cut"] \in Chain!Line
    <3>1. lines[Len(lines)] \in Chain!Line
      BY <2>1
    <3>2. QED
      BY <3>1 DEF Chain!Line, Chain!Texts
  <2>4. /\ Chain!Written(lines, line) \in Seq(Chain!Line)
        /\ DOMAIN Chain!Written(lines, line) = DOMAIN lines
        /\ Chain!Written(lines, line)[Len(lines)] = [lines[Len(lines)] EXCEPT !.text = "cut"]
    BY <2>1, <2>2, <2>3
  <2>5. Chain!Written(lines, line)[Len(lines)].text = "cut"
    BY <2>1, <2>4 DEF Chain!Line
  <2>6. QED
    BY <2>1, <2>4, <2>5 DEF HasCut
<1>2. CASE ~(lines # <<>> /\ Chain!Last(lines).text # "whole")
  <2>1. Chain!Written(lines, line) = Append(lines, line)
    BY <1>2 DEF Chain!Written
  <2>2. /\ Append(lines, line) \in Seq(Chain!Line)
        /\ \A i \in DOMAIN lines : i \in DOMAIN Append(lines, line) /\ Append(lines, line)[i] = lines[i]
    OBVIOUS
  <2>3. QED
    BY <2>1, <2>2 DEF HasCut
<1>3. QED
  BY <1>1, <1>2

\* A line that is appended leaves the others where they are.
LEMMA LineAppended ==
    ASSUME NEW lines \in Seq(Chain!Line), NEW line \in Chain!Line
    PROVE  /\ DOMAIN Append(lines, line) = DOMAIN lines \union {Len(lines) + 1}
           /\ Append(lines, line)[Len(lines) + 1] = line
           /\ \A i \in DOMAIN lines : Append(lines, line)[i] = lines[i]
  OBVIOUS

\* A line that continues the chain keeps it.
LEMMA ChainGrows ==
    ASSUME NEW lines \in Seq(Chain!Line), NEW line \in Chain!Line, InChain(lines),
           line.sequence = Len(Chain!Payloads(lines)) + 1, line.previous = Chain!Payloads(lines)
    PROVE  /\ InChain(Append(lines, line))
           /\ Chain!Payloads(Append(lines, line)) = Append(Chain!Payloads(lines), line.payload)
           /\ Chain!ToSet(Chain!Payloads(Append(lines, line))) = Chain!ToSet(Chain!Payloads(lines)) \union {line.payload}
<1> DEFINE new == Append(lines, line)
<1>1. /\ new \in Seq(Chain!Line) /\ Len(new) = Len(lines) + 1 /\ Len(lines) \in Nat
      /\ DOMAIN new = 1..(Len(lines) + 1) /\ DOMAIN lines = 1..Len(lines)
      /\ \A i \in 1..Len(lines) : new[i] = lines[i]
      /\ new[Len(lines) + 1] = line
  OBVIOUS
<1> HIDE DEF new
<1>2. Chain!Payloads(lines) = [i \in 1..Len(lines) |-> lines[i].payload]
  BY <1>1 DEF Chain!Payloads
<1>3. Chain!Payloads(lines) \in Seq(Chain!Payload) /\ Len(Chain!Payloads(lines)) = Len(lines)
  <2>1. \A i \in 1..Len(lines) : lines[i].payload \in Chain!Payload
    <3>1. \A i \in 1..Len(lines) : lines[i] \in Chain!Line
      BY <1>1
    <3>2. QED
      BY <3>1 DEF Chain!Line
  <2>2. QED
    BY <1>1, <1>2, <2>1
<1>4. InChain(new)
  <2>1. ASSUME NEW i \in 1..Len(lines)
        PROVE  /\ new[i].sequence = i
               /\ new[i].previous = [j \in 1..(i - 1) |-> new[j].payload]
    <3>1. lines[i].sequence = i /\ lines[i].previous = [j \in 1..(i - 1) |-> lines[j].payload]
      BY <1>1 DEF InChain
    <3>2. \A j \in 1..(i - 1) : new[j] = lines[j]
      BY <1>1
    <3>3. QED
      BY <1>1, <3>1, <3>2
  <2>2. /\ new[Len(lines) + 1].sequence = Len(lines) + 1
        /\ new[Len(lines) + 1].previous = [j \in 1..(Len(lines) + 1 - 1) |-> new[j].payload]
    <3>1. Len(lines) + 1 - 1 = Len(lines)
      BY <1>1
    <3>2. [j \in 1..Len(lines) |-> new[j].payload] = [j \in 1..Len(lines) |-> lines[j].payload]
      BY <1>1
    <3>3. QED
      BY <1>1, <1>2, <1>3, <3>1, <3>2
  <2>3. ASSUME NEW i \in DOMAIN new
        PROVE  /\ new[i].sequence = i
               /\ new[i].previous = [j \in 1..(i - 1) |-> new[j].payload]
    <3>1. i \in 1..Len(lines) \/ i = Len(lines) + 1
      BY <1>1
    <3>2. QED
      BY <2>1, <2>2, <3>1
  <2>4. QED
    BY <2>3 DEF InChain
<1>5. Chain!Payloads(new) = Append(Chain!Payloads(lines), line.payload)
  <2>1. line.payload \in Chain!Payload
    BY DEF Chain!Line
  <2>2. Append(Chain!Payloads(lines), line.payload) =
            [i \in 1..(Len(lines) + 1) |->
                IF i = Len(lines) + 1 THEN line.payload ELSE Chain!Payloads(lines)[i]]
    BY <1>1, <1>3, <2>1
  <2>3. \A i \in 1..(Len(lines) + 1) :
            new[i].payload = IF i = Len(lines) + 1 THEN line.payload ELSE Chain!Payloads(lines)[i]
    BY <1>1, <1>2
  <2>4. Chain!Payloads(new) = [i \in 1..(Len(lines) + 1) |-> new[i].payload]
    BY <1>1 DEF Chain!Payloads
  <2>5. QED
    BY <2>2, <2>3, <2>4
<1>6. Chain!ToSet(Chain!Payloads(new)) = Chain!ToSet(Chain!Payloads(lines)) \union {line.payload}
  <2>1. Chain!ToSet(Chain!Payloads(new)) = {new[i].payload : i \in 1..(Len(lines) + 1)}
    BY <1>1 DEF Chain!Payloads, Chain!ToSet
  <2>2. Chain!ToSet(Chain!Payloads(lines)) = {lines[i].payload : i \in 1..Len(lines)}
    BY <1>1 DEF Chain!Payloads, Chain!ToSet
  <2>3. QED
    BY <1>1, <2>1, <2>2
<1>7. QED
  BY <1>4, <1>5, <1>6 DEF new

-----------------------------------------------------------------------------
(* The steps. *)

\* The elements of a sequence are of its type.
LEMMA KnownTyped ==
    ASSUME NEW S, NEW s \in Seq(S)
    PROVE  Chain!ToSet(s) \subseteq S
  BY DEF Chain!ToSet

\* What is left of the candidates is candidates.
LEMMA TailTyped ==
    ASSUME NEW S, NEW s \in Seq(S), s # <<>>
    PROVE  Head(s) \in S /\ Tail(s) \in Seq(S)
  OBVIOUS

\* The payloads of a file are of their type.
LEMMA PayloadsTyped ==
    ASSUME NEW lines \in Seq(Chain!Line)
    PROVE  Chain!Payloads(lines) \in Seq(Chain!Payload)
<1>1. DOMAIN lines = 1..Len(lines) /\ Len(lines) \in Nat /\ \A i \in 1..Len(lines) : lines[i] \in Chain!Line
  OBVIOUS
<1>2. \A i \in 1..Len(lines) : lines[i].payload \in Chain!Payload
  BY <1>1 DEF Chain!Line
<1>3. QED
  BY <1>1, <1>2 DEF Chain!Payloads

\* A call that ends leaves the file, and what its writer knows is of no concern.
LEMMA LeaveKeeps ==
    ASSUME ChainInv, NEW w \in Collectors, Chain!Leave(w), Chain!IntakeAssumption,
           UNCHANGED <<source, file, answered, damaged>>, crashes' \in 0..MaxCrashes
    PROVE  ChainInv'
<1>1. Chain!TypeOK'
  <2>1. <<>> \in Seq(Chain!Payload)
    OBVIOUS
  <2>2. QED
    BY <2>1 DEF ChainInv, Chain!TypeOK, Chain!Leave
<1>2. \A v \in Collectors : at'[v] = "appending" => v # w /\ at[v] = "appending" /\ known'[v] = known[v]
  BY DEF ChainInv, Chain!TypeOK, Chain!Leave
<1>3. \A v \in Collectors : at'[v] = "appending" => lock' = v
  BY <1>2 DEF ChainInv, Chain!Leave
<1>4. ChainKept'
  BY <1>2 DEF ChainInv, ChainKept, Chain!EventsAreUnique
<1>5. QED
  BY <1>1, <1>3, <1>4 DEF ChainInv

\* The writer of the file adds a line to it: the chain goes on, or the file has a cut
\* line.  No other writer appends.
LEMMA WritingKeeps ==
    ASSUME ChainInv, Chain!IntakeAssumption, NEW w \in Collectors, NEW text \in Chain!Texts,
           at[w] = "appending", candidates[w] # <<>>, ~Chain!IsKnown(w, Head(candidates[w])),
           file' = Chain!Written(file, Chain!Envelope(known[w], Head(candidates[w]), text))
    PROVE  /\ file' \in Seq(Chain!Line) /\ Head(candidates[w]) \in Chain!Payload
           /\ (~damaged /\ text = "whole") => \A i \in DOMAIN file' : file'[i].text = "whole"
           /\ \/ HasCut(file')
              \/ /\ InChain(file')
                 /\ Chain!Payloads(file') = Append(known[w], Head(candidates[w]))
                 /\ answered \subseteq Chain!ToSet(Chain!Payloads(file'))
                 /\ Chain!EventsAreUnique'
<1> DEFINE payload == Head(candidates[w])
           line == Chain!Envelope(known[w], payload, text)
<1>1. payload \in Chain!Payload /\ known[w] \in Seq(Chain!Payload) /\ file \in Seq(Chain!Line)
  BY TailTyped DEF ChainInv, Chain!TypeOK
<1>2. line \in Chain!Line /\ line.text = text /\ line.payload = payload
      /\ line.sequence = Len(known[w]) + 1 /\ line.previous = known[w]
  BY <1>1 DEF Chain!Envelope, Chain!Line
<1> HIDE DEF line
<1>3. file' = Chain!Written(file, line)
  BY DEF line
<1>4. /\ file' \in Seq(Chain!Line)
      /\ HasCut(file) => HasCut(file')
      /\ \/ HasCut(file') /\ \E i \in DOMAIN file : file[i].text # "whole"
         \/ file' = Append(file, line)
  BY <1>1, <1>2, <1>3, WrittenLine
<1>5. /\ DOMAIN Append(file, line) = DOMAIN file \union {Len(file) + 1}
      /\ Append(file, line)[Len(file) + 1] = line
      /\ \A i \in DOMAIN file : Append(file, line)[i] = file[i]
  <2>1. line \in Chain!Line
    BY <1>2
  <2>2. QED
    BY <1>1, <2>1, LineAppended
<1>6. (~damaged /\ text = "whole") => \A i \in DOMAIN file' : file'[i].text = "whole"
  <2> SUFFICES ASSUME ~damaged, text = "whole" PROVE \A i \in DOMAIN file' : file'[i].text = "whole"
    OBVIOUS
  <2>1. \A i \in DOMAIN file : file[i].text = "whole"
    BY DEF ChainInv
  <2>2. file' = Append(file, line)
    BY <1>4, <2>1
  <2>3. DOMAIN file' = DOMAIN file \union {Len(file) + 1} /\ file'[Len(file) + 1] = line
        /\ \A i \in DOMAIN file : file'[i] = file[i]
    BY <1>5, <2>2, Zenon
  <2>4. QED
    BY <1>2, <2>1, <2>3
<1>7. CASE ~HasCut(file')
  <2>1. file' = Append(file, line) /\ ~HasCut(file)
    BY <1>4, <1>7
  <2>2. InChain(file) /\ known[w] = Chain!Payloads(file)
        /\ answered \subseteq Chain!ToSet(Chain!Payloads(file)) /\ Chain!EventsAreUnique
    BY <2>1 DEF ChainInv, ChainKept
  <2>3. /\ InChain(file')
        /\ Chain!Payloads(file') = Append(known[w], payload)
        /\ Chain!ToSet(Chain!Payloads(file')) = Chain!ToSet(Chain!Payloads(file)) \union {payload}
    BY <1>1, <1>2, <2>1, <2>2, ChainGrows
  <2>4. Chain!EventsAreUnique'
    <3>1. DOMAIN file' = DOMAIN file \union {Len(file) + 1} /\ file'[Len(file) + 1] = line
          /\ \A i \in DOMAIN file : file'[i] = file[i]
      BY <1>5, <2>1, Zenon
    <3>2. \A i \in DOMAIN file : file[i].payload.event # payload.event
      BY <2>2 DEF Chain!IsKnown, Chain!Payloads
    <3>3. QED
      BY <1>2, <2>2, <3>1, <3>2 DEF Chain!EventsAreUnique
  <2>5. QED
    BY <1>1, <1>4, <1>6, <2>2, <2>3, <2>4
<1>8. QED
  BY <1>1, <1>4, <1>6, <1>7

\* The invariant holds of every reachable state.
LEMMA ChainInvHolds ==
    ASSUME Chain!IntakeAssumption
    PROVE  Chain!Spec => []ChainInv
<1>1. Chain!Init => ChainInv
  <2> SUFFICES ASSUME Chain!Init PROVE ChainInv
    OBVIOUS
  <2>1. <<>> \in Seq(Chain!Payload) /\ <<>> \in Seq(Chain!Line) /\ DOMAIN <<>> = {}
    OBVIOUS
  <2>2. Chain!TypeOK
    <3>1. damaged \in BOOLEAN
      BY DEF Chain!Init
    <3>2. DOMAIN source = {}
      BY <2>1 DEF Chain!Init
    <3>3. crashes \in 0..MaxCrashes
      BY DEF Chain!Init, Chain!IntakeAssumption
    <3>4. candidates \in [Collectors -> Seq(Chain!Payload)] /\ known \in [Collectors -> Seq(Chain!Payload)]
          /\ at \in [Collectors -> {"idle", "collected", "appending"}]
      BY <2>1 DEF Chain!Init
    <3>5. file \in Seq(Chain!Line) /\ lock \in Collectors \union {Nobody} /\ answered \subseteq Chain!Payload
      BY <2>1 DEF Chain!Init
    <3>6. QED
      BY <3>1, <3>2, <3>3, <3>4, <3>5, Zenon DEF Chain!TypeOK
  <2>3. ChainKept
    BY <2>1 DEF Chain!Init, ChainKept, InChain, Chain!EventsAreUnique
  <2>4. QED
    BY <2>1, <2>2, <2>3 DEF Chain!Init, ChainInv
<1>2. ChainInv /\ [Chain!Next]_(Chain!vars) => ChainInv'
  <2> SUFFICES ASSUME ChainInv, [Chain!Next]_(Chain!vars) PROVE ChainInv'
    OBVIOUS
  <2>1. ASSUME NEW event \in EventIds, NEW version \in Versions, Chain!Disclose(event, version)
        PROVE  ChainInv'
    BY <2>1 DEF Chain!Disclose, ChainInv, Chain!TypeOK, ChainKept, Chain!EventsAreUnique
  <2>2. ASSUME NEW w \in Collectors, NEW order \in Chain!Scans, Chain!Collect(w, order)
        PROVE  ChainInv'
    <3>1. candidates'[w] \in Seq(Chain!Payload)
      <4>1. Chain!Cardinality(EventIds) \in Nat
        <5>1. IsFiniteSet(EventIds)
          BY DEF Chain!IntakeAssumption, Chain!IsFiniteSet, IsFiniteSet
        <5>2. Chain!Cardinality(EventIds) = Cardinality(EventIds)
          BY DEF Chain!Cardinality, Cardinality
        <5> QED
          BY <5>1, <5>2, FS_CardinalityType
      <4>2. PICK n \in Nat : order \in [1..n -> DOMAIN source]
        BY <4>1 DEF Chain!Scans, Chain!SeqOf
      <4>3. \A i \in 1..n : [event |-> order[i], version |-> source[order[i]]] \in Chain!Payload
        BY <4>2 DEF ChainInv, Chain!TypeOK, Chain!Payload
      <4>4. candidates'[w] = [i \in 1..n |-> [event |-> order[i], version |-> source[order[i]]]]
        BY <2>2, <4>2 DEF Chain!Collect, ChainInv, Chain!TypeOK
      <4>5. QED
        BY <4>3, <4>4
    <3>2. Chain!TypeOK'
      BY <2>2, <3>1 DEF Chain!Collect, ChainInv, Chain!TypeOK
    <3>3. \A v \in Collectors : at'[v] = "appending" => at[v] = "appending"
      BY <2>2 DEF Chain!Collect, ChainInv, Chain!TypeOK
    <3>4. QED
      BY <2>2, <3>2, <3>3 DEF Chain!Collect, ChainInv, ChainKept, Chain!EventsAreUnique
  <2>3. ASSUME NEW w \in Collectors, Chain!Read(w)
        PROVE  ChainInv'
    <3>1. CASE Chain!Readable(file)
      <4>1. /\ lock = Nobody /\ lock' = w /\ at' = [at EXCEPT ![w] = "appending"]
            /\ known' = [known EXCEPT ![w] = Chain!Payloads(file)]
            /\ UNCHANGED <<source, file, candidates, answered, damaged, crashes>>
        BY <2>3, <3>1 DEF Chain!Read
      <4>2. Chain!Payloads(file) \in Seq(Chain!Payload)
        BY PayloadsTyped DEF ChainInv, Chain!TypeOK
      <4>3. Chain!TypeOK'
        BY <4>1, <4>2 DEF ChainInv, Chain!TypeOK
      <4>4. \A v \in Collectors : at'[v] = "appending" => v = w
        BY <4>1 DEF ChainInv, Chain!TypeOK, Chain!IntakeAssumption
      <4>5. InChain(file) /\ answered \subseteq Chain!ToSet(Chain!Payloads(file)) /\ Chain!EventsAreUnique
        BY <3>1, ReadableChain DEF ChainInv, ChainKept
      <4>6. known'[w] = Chain!Payloads(file')
        BY <4>1 DEF ChainInv, Chain!TypeOK
      <4>7. QED
        BY <4>1, <4>3, <4>4, <4>5, <4>6 DEF ChainInv, ChainKept, Chain!EventsAreUnique
    <3>2. CASE ~Chain!Readable(file)
      <4>1. Chain!Leave(w) /\ UNCHANGED <<source, file, answered, damaged, crashes>>
        BY <2>3, <3>2 DEF Chain!Read
      <4>2. QED
        BY <4>1, LeaveKeeps DEF ChainInv, Chain!TypeOK
    <3>3. QED
      BY <3>1, <3>2
  <2>4. ASSUME NEW w \in Collectors, Chain!Skip(w)
        PROVE  ChainInv'
    <3>1. Tail(candidates[w]) \in Seq(Chain!Payload)
      BY <2>4, TailTyped DEF Chain!Skip, ChainInv, Chain!TypeOK
    <3>2. QED
      BY <2>4, <3>1 DEF Chain!Skip, ChainInv, Chain!TypeOK, ChainKept, Chain!EventsAreUnique
  <2>5. ASSUME NEW w \in Collectors, Chain!Refuse(w)
        PROVE  ChainInv'
    BY <2>5, LeaveKeeps DEF Chain!Refuse, ChainInv, Chain!TypeOK
  <2>6. ASSUME NEW w \in Collectors, Chain!AppendLine(w)
        PROVE  ChainInv'
    <3>1. "whole" \in Chain!Texts
      BY DEF Chain!Texts
    <3>2. /\ file' \in Seq(Chain!Line) /\ Head(candidates[w]) \in Chain!Payload
          /\ ~damaged => \A i \in DOMAIN file' : file'[i].text = "whole"
          /\ \/ HasCut(file')
             \/ /\ InChain(file')
                /\ Chain!Payloads(file') = Append(known[w], Head(candidates[w]))
                /\ answered \subseteq Chain!ToSet(Chain!Payloads(file'))
                /\ Chain!EventsAreUnique'
      BY <2>6, <3>1, WritingKeeps DEF Chain!AppendLine
    <3>3. Tail(candidates[w]) \in Seq(Chain!Payload) /\ Append(known[w], Head(candidates[w])) \in Seq(Chain!Payload)
      BY <2>6, <3>2, TailTyped DEF Chain!AppendLine, ChainInv, Chain!TypeOK
    <3>4. Chain!TypeOK'
      BY <2>6, <3>2, <3>3 DEF Chain!AppendLine, ChainInv, Chain!TypeOK
    <3>5. \A v \in Collectors : at'[v] = "appending" => v = w /\ lock' = v
      BY <2>6 DEF Chain!AppendLine, ChainInv
    <3>6. known'[w] = Append(known[w], Head(candidates[w]))
      BY <2>6 DEF Chain!AppendLine, ChainInv, Chain!TypeOK
    <3>7. ChainKept'
      BY <2>6, <3>2, <3>5, <3>6 DEF Chain!AppendLine, ChainKept
    <3>8. QED
      BY <2>6, <3>2, <3>4, <3>5, <3>7 DEF Chain!AppendLine, ChainInv
  <2>7. ASSUME NEW w \in Collectors, Chain!Answer(w)
        PROVE  ChainInv'
    <3>1. Chain!TypeOK'
      <4>1. Chain!ToSet(known[w]) \subseteq Chain!Payload /\ <<>> \in Seq(Chain!Payload)
        BY KnownTyped DEF ChainInv, Chain!TypeOK
      <4>2. QED
        BY <2>7, <4>1 DEF Chain!Answer, Chain!Leave, ChainInv, Chain!TypeOK
    <3>2. \A v \in Collectors : at'[v] = "appending" => v # w /\ at[v] = "appending" /\ known'[v] = known[v]
      BY <2>7 DEF Chain!Answer, Chain!Leave, ChainInv, Chain!TypeOK
    <3>3. ~HasCut(file) => answered' \subseteq Chain!ToSet(Chain!Payloads(file))
      BY <2>7 DEF Chain!Answer, ChainInv, ChainKept
    <3>4. ChainKept'
      BY <2>7, <3>2, <3>3 DEF Chain!Answer, ChainInv, ChainKept, Chain!EventsAreUnique
    <3>5. QED
      BY <2>7, <3>1, <3>2, <3>4 DEF Chain!Answer, Chain!Leave, ChainInv
  <2>8. ASSUME NEW w \in Collectors, Chain!Die(w)
        PROVE  ChainInv'
    <3>1. crashes' \in 0..MaxCrashes
      BY <2>8 DEF Chain!Die, ChainInv, Chain!TypeOK, Chain!IntakeAssumption
    <3>2. QED
      BY <2>8, <3>1, LeaveKeeps DEF Chain!Die
  <2>9. ASSUME NEW w \in Collectors, NEW text \in Chain!Texts, Chain!Tear(w, text)
        PROVE  ChainInv'
    <3>1. /\ file' \in Seq(Chain!Line)
          /\ ~damaged' => \A i \in DOMAIN file' : file'[i].text = "whole"
          /\ \/ HasCut(file')
             \/ InChain(file') /\ answered \subseteq Chain!ToSet(Chain!Payloads(file')) /\ Chain!EventsAreUnique'
      BY <2>9, WritingKeeps DEF Chain!Tear
    <3>2. crashes' \in 0..MaxCrashes /\ damaged' \in BOOLEAN /\ <<>> \in Seq(Chain!Payload)
      <4>1. crashes' \in 0..MaxCrashes
        BY <2>9 DEF Chain!Tear, ChainInv, Chain!TypeOK, Chain!IntakeAssumption
      <4>2. damaged' \in BOOLEAN
        BY <2>9, Zenon DEF Chain!Tear, ChainInv, Chain!TypeOK
      <4>3. QED
        BY <4>1, <4>2
    <3>3. Chain!TypeOK'
      BY <2>9, <3>1, <3>2 DEF Chain!Tear, Chain!Leave, ChainInv, Chain!TypeOK
    <3>4. \A v \in Collectors : at'[v] # "appending"
      BY <2>9 DEF Chain!Tear, Chain!Leave, ChainInv, Chain!TypeOK
    <3>5. ChainKept'
      BY <2>9, <3>1, <3>4 DEF Chain!Tear, ChainKept
    <3>6. QED
      BY <3>1, <3>3, <3>4, <3>5 DEF ChainInv
  <2>10. CASE UNCHANGED Chain!vars
    BY <2>10 DEF Chain!vars, ChainInv, Chain!TypeOK, ChainKept, Chain!EventsAreUnique
  <2>11. QED
    BY <2>1, <2>2, <2>3, <2>4, <2>5, <2>6, <2>7, <2>8, <2>9, <2>10 DEF Chain!Next
<1>3. QED
  BY <1>1, <1>2, PTL DEF Chain!Spec

\* Whoever can read the ledger of earnings events reads every event a call said is in
\* it, each once, and the chain breaks only after a crash in a line, whichever writers
\* append at once and die (append_only_ledger.py, sec_earnings_event_ledger_v1.py).
THEOREM CollectedEventsAreKept == ServicesSpec => []EventsAreKept
<1>1. ServicesInit => Chain!Init
  BY DEF ServicesInit
<1>2. [ServicesNext]_services => [Chain!Next]_(Chain!vars)
  BY StepsApart DEF disclosures, Chain!vars
<1>3. ChainInv => EventsAreKept
  BY ReadableChain DEF ChainInv, ChainKept, HasCut, EventsAreKept, Chain!EventsAreKept
<1>4. Chain!IntakeAssumption
  BY ServicesAssumption
<1>5. Chain!Spec => []ChainInv
  BY <1>4, ChainInvHolds
<1> QED
  BY <1>1, <1>2, <1>3, <1>5, PTL DEF ServicesSpec, Chain!Spec

-----------------------------------------------------------------------------
(* The inbox: what ObservationInboxProofs proves of it holds of both      *)
(* instances.                                                             *)

InboxFacts == INSTANCE ObservationInboxProofs
    WITH Tickers <- Watched, Records <- {Loud}, Tabs <- {1}, rows <- observations

TabbedFacts == INSTANCE ObservationInboxProofs
    WITH Tickers <- {1}, Records <- {Quiet, Loud}, rows <- observations

\* Two tickers in one tab.
LEMMA InboxSets ==
    ASSUME NEW S
    PROVE  Inbox!Max(S) = InboxFacts!Max(S) /\ Inbox!Min(S) = InboxFacts!Min(S) /\ Inbox!Cardinality(S) = InboxFacts!Cardinality(S)
  BY DEF Inbox!Max, InboxFacts!Max, Inbox!Min, InboxFacts!Min, Inbox!Cardinality,
         InboxFacts!Cardinality

\* Their helpers are the same functions.
LEMMA InboxRows ==
    ASSUME NEW t
    PROVE  Inbox!Observed(t) = InboxFacts!Observed(t) /\ Inbox!Latest(t) = InboxFacts!Latest(t) /\ Inbox!Followed = InboxFacts!Followed
<1>1. Inbox!Observed(t) = InboxFacts!Observed(t) /\ Inbox!Followed = InboxFacts!Followed
  BY DEF Inbox!Observed, InboxFacts!Observed, Inbox!Weeks, InboxFacts!Weeks,
         Inbox!Followed, InboxFacts!Followed
<1> QED
  BY <1>1, InboxSets DEF Inbox!Latest, InboxFacts!Latest

\* So is the cursor,
LEMMA InboxCursor ==
    ASSUME NEW t
    PROVE  Inbox!EffectiveCursor(t) = InboxFacts!EffectiveCursor(t)
  BY InboxRows, InboxSets DEF Inbox!EffectiveCursor, InboxFacts!EffectiveCursor

\* so are the changes of a ticker,
LEMMA InboxChanged ==
    ASSUME NEW t
    PROVE  Inbox!ChangedIn(t) = InboxFacts!ChangedIn(t)
<1>1. Inbox!QueryFrom = InboxFacts!QueryFrom
  <2>1. {Inbox!EffectiveCursor(u) : u \in Inbox!Followed} = {InboxFacts!EffectiveCursor(u) : u \in InboxFacts!Followed}
    BY InboxRows, InboxCursor
  <2> QED
    BY <2>1, InboxSets DEF Inbox!QueryFrom, InboxFacts!QueryFrom
<1>2. Inbox!Fetched(t) = InboxFacts!Fetched(t)
  BY <1>1, InboxRows DEF Inbox!Fetched, InboxFacts!Fetched
<1>3. \A v, w : Inbox!Changes(t, v, w) <=> InboxFacts!Changes(t, v, w)
  BY DEF Inbox!Changes, InboxFacts!Changes
<1> QED
  BY <1>2, <1>3, InboxCursor, InboxSets DEF Inbox!ChangedIn, InboxFacts!ChangedIn

\* and the events that are built of them.
LEMMA InboxEvents ==
    Inbox!BuildEvents = InboxFacts!BuildEvents /\ Inbox!GetChanges = InboxFacts!GetChanges
<1>1. Inbox!BuildEvents = InboxFacts!BuildEvents
  BY InboxRows, InboxChanged DEF Inbox!BuildEvents, InboxFacts!BuildEvents, Inbox!Event,
                                 InboxFacts!Event
<1>2. \A S : Inbox!Visible(S) = InboxFacts!Visible(S)
  BY InboxSets DEF Inbox!Visible, InboxFacts!Visible
<1> QED
  BY <1>1, <1>2, InboxSets DEF Inbox!GetChanges, InboxFacts!GetChanges

\* The same steps are possible,
LEMMA InboxSteps ==
    ASSUME Inbox!Next
    PROVE  InboxFacts!Next
<1>1. CASE Inbox!NextWeek
  BY <1>1 DEF InboxFacts!Next, Inbox!NextWeek, InboxFacts!NextWeek
<1>2. ASSUME NEW tickers \in SUBSET Watched, NEW record \in [tickers -> {Loud}],
             Inbox!SaveObservationBundle(tickers, record)
      PROVE  InboxFacts!Next
  <2>1. InboxFacts!SaveObservationBundle(tickers, record)
    BY <1>2 DEF Inbox!SaveObservationBundle, InboxFacts!SaveObservationBundle
  <2> QED
    BY <2>1 DEF InboxFacts!Next
<1>3. ASSUME NEW t \in Watched, Inbox!Track(t)
      PROVE  InboxFacts!Next
  BY <1>3 DEF InboxFacts!Next, Inbox!Track, InboxFacts!Track
<1>4. ASSUME NEW b \in {1}
      PROVE  /\ Inbox!FetchChanges(b) => InboxFacts!FetchChanges(b)
             /\ \A t \in Watched, w \in Inbox!Weeks :
                  Inbox!OpenEvent(b, Inbox!Event(t, w)) => InboxFacts!OpenEvent(b, InboxFacts!Event(t, w))
             /\ Inbox!MarkAll(b) => InboxFacts!MarkAll(b)
             /\ Inbox!BeginSeen(b) => InboxFacts!BeginSeen(b)
             /\ Inbox!CommitSeen(b) => InboxFacts!CommitSeen(b)
             /\ Inbox!SeenFails(b) => InboxFacts!SeenFails(b)
  <2>1. Inbox!FetchChanges(b) => InboxFacts!FetchChanges(b)
    BY InboxEvents DEF Inbox!FetchChanges, InboxFacts!FetchChanges
  <2>2. ASSUME NEW t \in Watched, NEW w \in Inbox!Weeks, Inbox!OpenEvent(b, Inbox!Event(t, w))
        PROVE  InboxFacts!OpenEvent(b, InboxFacts!Event(t, w))
    <3> DEFINE e == Inbox!Event(t, w)
    <3>1. InboxFacts!Event(t, w) = e
      BY DEF Inbox!Event, InboxFacts!Event
    <3>2. Inbox!Opened(page[b], e) = InboxFacts!Opened(page[b], e)
      BY InboxSets DEF Inbox!Opened, InboxFacts!Opened, Inbox!Read, InboxFacts!Read
    <3>3. Inbox!OpenEvent(b, e)
      BY <2>2
    <3> HIDE DEF e
    <3> QED
      BY <3>1, <3>2, <3>3 DEF Inbox!OpenEvent, InboxFacts!OpenEvent, Inbox!Unread,
                              InboxFacts!Unread, Inbox!Request, InboxFacts!Request
  <2>3. Inbox!MarkAll(b) => InboxFacts!MarkAll(b)
    BY DEF Inbox!MarkAll, InboxFacts!MarkAll, Inbox!Request, InboxFacts!Request
  <2>4. Inbox!BeginSeen(b) => InboxFacts!BeginSeen(b)
    <3>1. Inbox!DatesToStore(post[b]) = InboxFacts!DatesToStore(post[b])
      <4>1. \A t : Inbox!Min({post[b].date[t], Inbox!Latest(t)}) = InboxFacts!Min({post[b].date[t], InboxFacts!Latest(t)})
        BY InboxRows, InboxSets
      <4>2. [t \in DOMAIN post[b].date |-> Inbox!Min({post[b].date[t], Inbox!Latest(t)})]
              = [t \in DOMAIN post[b].date |-> InboxFacts!Min({post[b].date[t], InboxFacts!Latest(t)})]
        BY <4>1
      <4>3. [t \in Inbox!Followed |-> Inbox!Latest(t)] = [t \in InboxFacts!Followed |-> InboxFacts!Latest(t)]
        BY InboxRows
      <4> QED
        BY <4>2, <4>3 DEF Inbox!DatesToStore, InboxFacts!DatesToStore
    <3> QED
      BY <3>1 DEF Inbox!BeginSeen, InboxFacts!BeginSeen
  <2>5. Inbox!CommitSeen(b) => InboxFacts!CommitSeen(b)
    <3>1. Inbox!Conflict(post[b]) <=> InboxFacts!Conflict(post[b])
      BY DEF Inbox!Conflict, InboxFacts!Conflict
    <3>2. \A t : Inbox!UpsertReceipt(post[b], t) = InboxFacts!UpsertReceipt(post[b], t)
      BY InboxSets DEF Inbox!UpsertReceipt, InboxFacts!UpsertReceipt
    <3>3. Inbox!Seen(post[b], page[b]) = InboxFacts!Seen(post[b], page[b])
      BY DEF Inbox!Seen, InboxFacts!Seen
    <3> QED
      BY <3>1, <3>2, <3>3 DEF Inbox!CommitSeen, InboxFacts!CommitSeen
  <2>6. Inbox!SeenFails(b) => InboxFacts!SeenFails(b)
    BY InboxEvents DEF Inbox!SeenFails, InboxFacts!SeenFails
  <2> QED
    BY <2>1, <2>2, <2>3, <2>4, <2>5, <2>6
<1>5. Inbox!Weeks = InboxFacts!Weeks
  BY DEF Inbox!Weeks, InboxFacts!Weeks
<1> QED
  BY <1>1, <1>2, <1>3, <1>4, <1>5 DEF Inbox!Next, InboxFacts!Next

\* and the properties say the same.
LEMMA InboxSays ==
    /\ Inbox!InboxAssumption <=> InboxFacts!InboxAssumption
    /\ Inbox!Init => InboxFacts!Init
    /\ InboxFacts!UnreadIsExact => Inbox!UnreadIsExact
    /\ InboxFacts!MarkAllOffered => Inbox!MarkAllOffered
<1>1. Inbox!InboxAssumption <=> InboxFacts!InboxAssumption
  BY DEF Inbox!InboxAssumption, InboxFacts!InboxAssumption, Inbox!IsFiniteSet,
         InboxFacts!IsFiniteSet
<1>2. Inbox!Init => InboxFacts!Init
  BY DEF Inbox!Init, InboxFacts!Init, Inbox!Weeks, InboxFacts!Weeks
<1>3. ASSUME NEW t, NEW seen
      PROVE  Inbox!ChangesAfter(t, seen) = InboxFacts!ChangesAfter(t, seen)
  BY InboxRows DEF Inbox!ChangesAfter, InboxFacts!ChangesAfter, Inbox!Changes,
                   InboxFacts!Changes
<1>4. InboxFacts!UnreadIsExact => Inbox!UnreadIsExact
  BY <1>3, InboxRows, InboxEvents DEF Inbox!UnreadIsExact, InboxFacts!UnreadIsExact
<1>5. InboxFacts!MarkAllOffered => Inbox!MarkAllOffered
  BY InboxSets DEF Inbox!MarkAllOffered, InboxFacts!MarkAllOffered, Inbox!Unread,
                   InboxFacts!Unread
<1> QED
  BY <1>1, <1>2, <1>4, <1>5

\* One ticker in all tabs.
LEMMA TabbedSets ==
    ASSUME NEW S
    PROVE  Tabbed!Max(S) = TabbedFacts!Max(S) /\ Tabbed!Min(S) = TabbedFacts!Min(S) /\ Tabbed!Cardinality(S) = TabbedFacts!Cardinality(S)
  BY DEF Tabbed!Max, TabbedFacts!Max, Tabbed!Min, TabbedFacts!Min, Tabbed!Cardinality,
         TabbedFacts!Cardinality

\* Their helpers are the same functions.
LEMMA TabbedRows ==
    ASSUME NEW t
    PROVE  Tabbed!Observed(t) = TabbedFacts!Observed(t) /\ Tabbed!Latest(t) = TabbedFacts!Latest(t) /\ Tabbed!Followed = TabbedFacts!Followed
<1>1. Tabbed!Observed(t) = TabbedFacts!Observed(t) /\ Tabbed!Followed = TabbedFacts!Followed
  BY DEF Tabbed!Observed, TabbedFacts!Observed, Tabbed!Weeks, TabbedFacts!Weeks,
         Tabbed!Followed, TabbedFacts!Followed
<1> QED
  BY <1>1, TabbedSets DEF Tabbed!Latest, TabbedFacts!Latest

\* So is the cursor,
LEMMA TabbedCursor ==
    ASSUME NEW t
    PROVE  Tabbed!EffectiveCursor(t) = TabbedFacts!EffectiveCursor(t)
  BY TabbedRows, TabbedSets DEF Tabbed!EffectiveCursor, TabbedFacts!EffectiveCursor

\* so are the changes of a ticker,
LEMMA TabbedChanged ==
    ASSUME NEW t
    PROVE  Tabbed!ChangedIn(t) = TabbedFacts!ChangedIn(t)
<1>1. Tabbed!QueryFrom = TabbedFacts!QueryFrom
  <2>1. {Tabbed!EffectiveCursor(u) : u \in Tabbed!Followed} = {TabbedFacts!EffectiveCursor(u) : u \in TabbedFacts!Followed}
    BY TabbedRows, TabbedCursor
  <2> QED
    BY <2>1, TabbedSets DEF Tabbed!QueryFrom, TabbedFacts!QueryFrom
<1>2. Tabbed!Fetched(t) = TabbedFacts!Fetched(t)
  BY <1>1, TabbedRows DEF Tabbed!Fetched, TabbedFacts!Fetched
<1>3. \A v, w : Tabbed!Changes(t, v, w) <=> TabbedFacts!Changes(t, v, w)
  BY DEF Tabbed!Changes, TabbedFacts!Changes
<1> QED
  BY <1>2, <1>3, TabbedCursor, TabbedSets DEF Tabbed!ChangedIn, TabbedFacts!ChangedIn

\* and the events that are built of them.
LEMMA TabbedEvents ==
    Tabbed!BuildEvents = TabbedFacts!BuildEvents /\ Tabbed!GetChanges = TabbedFacts!GetChanges
<1>1. Tabbed!BuildEvents = TabbedFacts!BuildEvents
  BY TabbedRows, TabbedChanged DEF Tabbed!BuildEvents, TabbedFacts!BuildEvents,
                                   Tabbed!Event, TabbedFacts!Event
<1>2. \A S : Tabbed!Visible(S) = TabbedFacts!Visible(S)
  BY TabbedSets DEF Tabbed!Visible, TabbedFacts!Visible
<1> QED
  BY <1>1, <1>2, TabbedSets DEF Tabbed!GetChanges, TabbedFacts!GetChanges

\* The same steps are possible,
LEMMA TabbedSteps ==
    ASSUME Tabbed!Next
    PROVE  TabbedFacts!Next
<1>1. CASE Tabbed!NextWeek
  BY <1>1 DEF TabbedFacts!Next, Tabbed!NextWeek, TabbedFacts!NextWeek
<1>2. ASSUME NEW tickers \in SUBSET {1}, NEW record \in [tickers -> {Quiet, Loud}],
             Tabbed!SaveObservationBundle(tickers, record)
      PROVE  TabbedFacts!Next
  <2>1. TabbedFacts!SaveObservationBundle(tickers, record)
    BY <1>2 DEF Tabbed!SaveObservationBundle, TabbedFacts!SaveObservationBundle
  <2> QED
    BY <2>1 DEF TabbedFacts!Next
<1>3. ASSUME NEW t \in {1}, Tabbed!Track(t)
      PROVE  TabbedFacts!Next
  BY <1>3 DEF TabbedFacts!Next, Tabbed!Track, TabbedFacts!Track
<1>4. ASSUME NEW b \in Tabs
      PROVE  /\ Tabbed!FetchChanges(b) => TabbedFacts!FetchChanges(b)
             /\ \A t \in {1}, w \in Tabbed!Weeks :
                  Tabbed!OpenEvent(b, Tabbed!Event(t, w)) => TabbedFacts!OpenEvent(b, TabbedFacts!Event(t, w))
             /\ Tabbed!MarkAll(b) => TabbedFacts!MarkAll(b)
             /\ Tabbed!BeginSeen(b) => TabbedFacts!BeginSeen(b)
             /\ Tabbed!CommitSeen(b) => TabbedFacts!CommitSeen(b)
             /\ Tabbed!SeenFails(b) => TabbedFacts!SeenFails(b)
  <2>1. Tabbed!FetchChanges(b) => TabbedFacts!FetchChanges(b)
    BY TabbedEvents DEF Tabbed!FetchChanges, TabbedFacts!FetchChanges
  <2>2. ASSUME NEW t \in {1}, NEW w \in Tabbed!Weeks, Tabbed!OpenEvent(b, Tabbed!Event(t, w))
        PROVE  TabbedFacts!OpenEvent(b, TabbedFacts!Event(t, w))
    <3> DEFINE e == Tabbed!Event(t, w)
    <3>1. TabbedFacts!Event(t, w) = e
      BY DEF Tabbed!Event, TabbedFacts!Event
    <3>2. Tabbed!Opened(page[b], e) = TabbedFacts!Opened(page[b], e)
      BY TabbedSets DEF Tabbed!Opened, TabbedFacts!Opened, Tabbed!Read, TabbedFacts!Read
    <3>3. Tabbed!OpenEvent(b, e)
      BY <2>2
    <3> HIDE DEF e
    <3> QED
      BY <3>1, <3>2, <3>3 DEF Tabbed!OpenEvent, TabbedFacts!OpenEvent, Tabbed!Unread,
                              TabbedFacts!Unread, Tabbed!Request, TabbedFacts!Request
  <2>3. Tabbed!MarkAll(b) => TabbedFacts!MarkAll(b)
    BY DEF Tabbed!MarkAll, TabbedFacts!MarkAll, Tabbed!Request, TabbedFacts!Request
  <2>4. Tabbed!BeginSeen(b) => TabbedFacts!BeginSeen(b)
    <3>1. Tabbed!DatesToStore(post[b]) = TabbedFacts!DatesToStore(post[b])
      <4>1. \A t : Tabbed!Min({post[b].date[t], Tabbed!Latest(t)}) = TabbedFacts!Min({post[b].date[t], TabbedFacts!Latest(t)})
        BY TabbedRows, TabbedSets
      <4>2. [t \in DOMAIN post[b].date |-> Tabbed!Min({post[b].date[t], Tabbed!Latest(t)})]
              = [t \in DOMAIN post[b].date |-> TabbedFacts!Min({post[b].date[t], TabbedFacts!Latest(t)})]
        BY <4>1
      <4>3. [t \in Tabbed!Followed |-> Tabbed!Latest(t)] = [t \in TabbedFacts!Followed |-> TabbedFacts!Latest(t)]
        BY TabbedRows
      <4> QED
        BY <4>2, <4>3 DEF Tabbed!DatesToStore, TabbedFacts!DatesToStore
    <3> QED
      BY <3>1 DEF Tabbed!BeginSeen, TabbedFacts!BeginSeen
  <2>5. Tabbed!CommitSeen(b) => TabbedFacts!CommitSeen(b)
    <3>1. Tabbed!Conflict(post[b]) <=> TabbedFacts!Conflict(post[b])
      BY DEF Tabbed!Conflict, TabbedFacts!Conflict
    <3>2. \A t : Tabbed!UpsertReceipt(post[b], t) = TabbedFacts!UpsertReceipt(post[b], t)
      BY TabbedSets DEF Tabbed!UpsertReceipt, TabbedFacts!UpsertReceipt
    <3>3. Tabbed!Seen(post[b], page[b]) = TabbedFacts!Seen(post[b], page[b])
      BY DEF Tabbed!Seen, TabbedFacts!Seen
    <3> QED
      BY <3>1, <3>2, <3>3 DEF Tabbed!CommitSeen, TabbedFacts!CommitSeen
  <2>6. Tabbed!SeenFails(b) => TabbedFacts!SeenFails(b)
    BY TabbedEvents DEF Tabbed!SeenFails, TabbedFacts!SeenFails
  <2> QED
    BY <2>1, <2>2, <2>3, <2>4, <2>5, <2>6
<1>5. Tabbed!Weeks = TabbedFacts!Weeks
  BY DEF Tabbed!Weeks, TabbedFacts!Weeks
<1> QED
  BY <1>1, <1>2, <1>3, <1>4, <1>5 DEF Tabbed!Next, TabbedFacts!Next

\* and the properties say the same.
LEMMA TabbedSays ==
    /\ Tabbed!InboxAssumption <=> TabbedFacts!InboxAssumption
    /\ Tabbed!Init => TabbedFacts!Init
    /\ TabbedFacts!UnreadIsExact => Tabbed!UnreadIsExact
    /\ TabbedFacts!MarkAllOffered => Tabbed!MarkAllOffered
<1>1. Tabbed!InboxAssumption <=> TabbedFacts!InboxAssumption
  BY DEF Tabbed!InboxAssumption, TabbedFacts!InboxAssumption, Tabbed!IsFiniteSet,
         TabbedFacts!IsFiniteSet
<1>2. Tabbed!Init => TabbedFacts!Init
  BY DEF Tabbed!Init, TabbedFacts!Init, Tabbed!Weeks, TabbedFacts!Weeks
<1>3. ASSUME NEW t, NEW seen
      PROVE  Tabbed!ChangesAfter(t, seen) = TabbedFacts!ChangesAfter(t, seen)
  BY TabbedRows DEF Tabbed!ChangesAfter, TabbedFacts!ChangesAfter, Tabbed!Changes,
                    TabbedFacts!Changes
<1>4. TabbedFacts!UnreadIsExact => Tabbed!UnreadIsExact
  BY <1>3, TabbedRows, TabbedEvents DEF Tabbed!UnreadIsExact, TabbedFacts!UnreadIsExact
<1>5. TabbedFacts!MarkAllOffered => Tabbed!MarkAllOffered
  BY TabbedSets DEF Tabbed!MarkAllOffered, TabbedFacts!MarkAllOffered, Tabbed!Unread,
                    TabbedFacts!Unread
<1> QED
  BY <1>1, <1>2, <1>4, <1>5

\* The invariant of the inbox is that of the instance that runs.
InboxInvariant ==
    /\ component = "tabs" => TabbedFacts!IInv
    /\ component # "tabs" => InboxFacts!IInv

\* It holds in every state, by the proofs of the inbox.
LEMMA InboxInvariance == ServicesSpec => []InboxInvariant
<1>1. InboxFacts!InboxAssumption /\ TabbedFacts!InboxAssumption
  BY ServicesAssumption, InboxSays, TabbedSays
<1>2. ServicesInit => InboxInvariant
  BY <1>1, InboxSays, TabbedSays, InboxFacts!InitHolds, TabbedFacts!InitHolds
     DEF ServicesInit, InboxInvariant
<1>3. ASSUME InboxInvariant, [ServicesNext]_services
      PROVE  InboxInvariant'
  <2>1. /\ component' = component
        /\ component # "tabs" => [InboxFacts!Next]_(InboxFacts!vars)
        /\ component = "tabs" => [TabbedFacts!Next]_(TabbedFacts!vars)
    BY <1>3, StepsApart, InboxSteps, TabbedSteps DEF inbox, InboxFacts!vars,
                                                     TabbedFacts!vars
  <2>2. CASE component # "tabs"
    BY <1>1, <1>3, <2>1, <2>2, InboxFacts!NextKeeps DEF InboxInvariant
  <2>3. CASE component = "tabs"
    BY <1>1, <1>3, <2>1, <2>3, TabbedFacts!NextKeeps DEF InboxInvariant
  <2> QED
    BY <2>2, <2>3
<1> QED
  BY <1>2, <1>3, PTL DEF ServicesSpec

\* The unread changes of a ticker are exactly those after what was seen, and a page
\* that shows one offers to mark it (ObservationChangeService.getChanges,
\* ObservationChanges.jsx).
THEOREM TheInboxIsExact == ServicesSpec => []InboxIsExact
<1>1. InboxFacts!InboxAssumption /\ TabbedFacts!InboxAssumption
  BY ServicesAssumption, InboxSays, TabbedSays
<1>2. InboxFacts!IInv => Inbox!UnreadIsExact /\ Inbox!MarkAllOffered
  <2>1. InboxFacts!IInv => InboxFacts!UnreadIsExact
    BY <1>1, InboxFacts!UnreadExact
  <2>2. InboxFacts!IInv => InboxFacts!MarkAllOffered
    BY DEF InboxFacts!IInv, InboxFacts!PageFits, InboxFacts!MarkAllOffered
  <2> QED
    BY <2>1, <2>2, InboxSays
<1>3. TabbedFacts!IInv => Tabbed!UnreadIsExact /\ Tabbed!MarkAllOffered
  <2>1. TabbedFacts!IInv => TabbedFacts!UnreadIsExact
    BY <1>1, TabbedFacts!UnreadExact
  <2>2. TabbedFacts!IInv => TabbedFacts!MarkAllOffered
    BY DEF TabbedFacts!IInv, TabbedFacts!PageFits, TabbedFacts!MarkAllOffered
  <2> QED
    BY <2>1, <2>2, TabbedSays
<1>4. InboxInvariant => InboxIsExact
  BY <1>2, <1>3 DEF InboxInvariant, InboxIsExact
<1> QED
  BY <1>4, InboxInvariance, PTL

\* Where the database refuses to update a row that has changed since the transaction
\* began, no request takes back what the user has seen (upsertReceipt).
THEOREM NothingSeenIsTakenBack ==
    ASSUME SnapshotIsolation
    PROVE  ServicesSpec => ReceiptsNeverRecede
<1>1. InboxFacts!InboxAssumption /\ TabbedFacts!InboxAssumption
  BY ServicesAssumption, InboxSays, TabbedSays
<1>2. ASSUME InboxInvariant, [ServicesNext]_services
      PROVE  [\A t \in DOMAIN receipts : receipts[t] # Nothing =>
                 receipts'[t] # Nothing /\ receipts'[t] >= receipts[t]]_receipts
  <2>1. /\ component # "tabs" => [InboxFacts!Next]_(InboxFacts!vars)
        /\ component = "tabs" => [TabbedFacts!Next]_(TabbedFacts!vars)
    BY <1>2, StepsApart, InboxSteps, TabbedSteps DEF inbox, InboxFacts!vars,
                                                     TabbedFacts!vars
  <2>2. CASE component # "tabs"
    BY <1>1, <1>2, <2>1, <2>2, InboxFacts!ReceiptsStep DEF InboxInvariant
  <2>3. CASE component = "tabs"
    BY <1>1, <1>2, <2>1, <2>3, TabbedFacts!ReceiptsStep DEF InboxInvariant
  <2> QED
    BY <2>2, <2>3
<1> QED
  BY <1>2, InboxInvariance, PTL DEF ServicesSpec, ReceiptsNeverRecede,
                                    Inbox!ReceiptsNeverRecede

-----------------------------------------------------------------------------
(* The jobs of the data. A run's day does not end before the run does,    *)
(* the dates of what is stored never go back, and what a phase has stored *)
(* is as new as the frames it read, of which none is older than a week.   *)

\* Division rounds down.
LEMMA DivIs ==
    ASSUME NEW a \in Nat, NEW n \in Nat, n > 0
    PROVE  a \div n \in Int /\ (a \div n) * n <= a /\ a < (a \div n) * n + n
  OBVIOUS

\* Different multiples are apart.
LEMMA MultiplesApart ==
    ASSUME NEW k \in Int, NEW q \in Int, NEW n \in Nat, k < q
    PROVE  k * n <= q * n - n
  OBVIOUS

Runs == [job : Data!Jobs, status : {"RUNNING", "SUCCESS", "PARTIAL_FAILURE", "FAILED"}, day : Nat,
         closed : BOOLEAN, failed : BOOLEAN, skipped : SUBSET Universe,
         observed : Nat \cup {Nothing}]

Phases == {"idle", "universe", "collect", "scores", "S1", "D1", "rest"}

\* Those that read the frames.
Reading == {"scores", "S1", "D1", "rest"}

\* A session that is over, or none; and the Fridays of those.
Sessions == 0..Data!LastSession
Fridays == {Data!Friday(session) : session \in Sessions}

DataTypes ==
    /\ today \in Nat /\ today >= 1 /\ closed \in BOOLEAN
    /\ run \in Runs \cup {Nothing}
    /\ prices \in [Operational -> Nat] /\ newestPrice \in Nat
    /\ confirmed \in [Universe -> Fridays] /\ provisional \in [Universe -> Nat]
    /\ phase \in Phases
    /\ frames \in [Universe -> Sessions]
    /\ skipped \subseteq Universe /\ unsaved \subseteq Universe
    /\ counted \in Nat \cup {Nothing}

\* The run that is under way is the newest, and of this half-day.
UnderRun ==
    phase # "idle" =>
        run \in Runs /\ run.status = "RUNNING" /\ run.day = today /\ run.closed = closed

\* The gate has let no older frame pass.
FramesAreRecent ==
    \A t \in Universe : frames[t] # 0 => frames[t] >= today - Week

\* What the phases of a weekly run that are over have stored.
StoredSoFar ==
    phase # "idle" /\ run.job = "weekly" =>
        /\ phase \in {"S1", "D1", "rest"} =>
             \A t \in (Operational \cap Data!Collected) \ (skipped \cup unsaved) : prices[t] >= frames[t]
        /\ phase \in {"D1", "rest"} =>
             \/ "S1" \in errors
             \/ \A t \in Data!Bundle : confirmed[t] >= Data!Friday(Data!Observed(t))
        /\ phase = "rest" =>
             "D1" \in errors \/ \A t \in Data!Bundle : provisional[t] >= Data!Observed(t)

DataInvariant ==
    DataTypes /\ UnderRun /\ (phase \in Reading => FramesAreRecent) /\ StoredSoFar
    /\ Data!SuccessIsComplete

\* There are finitely many tickers.
LEMMA TickersCount ==
    ASSUME Data!JobsAssumption, NEW S \in SUBSET Universe
    PROVE  /\ Data!Cardinality(S) \in Nat
           /\ \A T \in SUBSET S : Data!Cardinality(T) <= Data!Cardinality(S)
<1>1. \A T : Data!Cardinality(T) = Cardinality(T)
  BY DEF Data!Cardinality, Cardinality
<1>2. IsFiniteSet(Universe)
  BY DEF Data!JobsAssumption, Data!IsFiniteSet, IsFiniteSet
<1>3. IsFiniteSet(S) /\ Cardinality(S) \in Nat
  BY <1>2, FS_Subset, FS_CardinalityType
<1>4. \A T \in SUBSET S : Cardinality(T) <= Cardinality(S)
  BY <1>3, FS_Subset
<1> QED
  BY <1>1, <1>3, <1>4

\* The last session is of today once the market has closed.
LEMMA SessionIs ==
    ASSUME today \in Nat, today >= 1, closed \in BOOLEAN
    PROVE  /\ Data!LastSession \in Nat /\ 0 \in Sessions
           /\ closed => Data!LastSession = today
           /\ ~closed => Data!LastSession = today - 1
           /\ today >= Data!LastSession
<1>1. Data!LastSession \in Nat /\ today >= Data!LastSession
  BY DEF Data!LastSession
<1> QED
  BY <1>1 DEF Data!LastSession, Sessions

\* The Friday of a session's week is not before the session nor a week after it.  One
\* that is at most a week before today is not before the last one.
LEMMA FridaysOf ==
    ASSUME Data!JobsAssumption, DataTypes, NEW session \in Nat
    PROVE  /\ Data!Friday(session) \in Int /\ Data!Friday(session) >= session
           /\ Data!Friday(session) <= session + Week - 1
           /\ Data!LastFriday \in Int /\ Data!LastFriday < today
           /\ Data!LastFriday = Data!Friday(today - Week)
           /\ Data!Friday(session) >= today - Week => Data!Friday(session) >= Data!LastFriday
<1> DEFINE k == (session + Week - 1) \div Week
           q == (today - 1) \div Week
<1>1. Week \in Nat /\ Week > 0 /\ today - 1 \in Nat /\ session + Week - 1 \in Nat
  BY DEF Data!JobsAssumption, DataTypes
<1>2. /\ k \in Int /\ q \in Int /\ k * Week <= session + Week - 1 /\ q * Week <= today - 1
      /\ session + Week - 1 < k * Week + Week
  BY <1>1, DivIs
<1>3. Data!Friday(session) = k * Week /\ Data!LastFriday = q * Week
  BY DEF Data!Friday, Data!LastFriday
<1>4. Data!LastFriday = Data!Friday(today - Week)
  <2>1. (today - Week) + Week - 1 = today - 1
    BY <1>1 DEF DataTypes
  <2> QED
    BY <2>1 DEF Data!Friday, Data!LastFriday
<1> HIDE DEF k, q
<1>5. k < q => k * Week <= q * Week - Week
  BY <1>1, <1>2, MultiplesApart
<1>6. k >= q => k * Week >= q * Week
  <2>1. q < k => q * Week <= k * Week - Week
    BY <1>1, <1>2, MultiplesApart
  <2>2. k * Week \in Int /\ q * Week \in Int
    BY <1>1, <1>2
  <2> QED
    BY <1>1, <1>2, <2>1, <2>2
<1> DEFINE x == k * Week
           y == q * Week
<1>7. x \in Int /\ y \in Int /\ today \in Int
  BY <1>1, <1>2 DEF DataTypes
<1>8. /\ x <= session + Week - 1 /\ session + Week - 1 < x + Week /\ y <= today - 1
      /\ k < q => x <= y - Week
      /\ k >= q => x >= y
  BY <1>2, <1>5, <1>6
<1>9. Data!Friday(session) = x /\ Data!LastFriday = y
  BY <1>3
<1> HIDE DEF x, y
<1>10. x >= session /\ y < today /\ (x >= today - Week => x >= y)
  BY <1>1, <1>2, <1>7, <1>8
<1> QED
  BY <1>4, <1>7, <1>8, <1>9, <1>10

\* What is stored is a date, and dates never go back.
LEMMA NewestIs ==
    ASSUME NEW date \in Int, NEW before \in Int
    PROVE  /\ Data!Newest(date, before) \in {date, before}
           /\ Data!Newest(date, before) >= date /\ Data!Newest(date, before) >= before
  BY DEF Data!Newest

\* As time passes sessions stay sessions.
LEMMA SessionsGrow ==
    ASSUME DataTypes, Data!LastSession' \in Nat, Data!LastSession' >= Data!LastSession
    PROVE  Sessions \subseteq Sessions' /\ Fridays \subseteq Fridays'
<1>1. Data!LastSession \in Nat
  BY SessionIs DEF DataTypes
<1>2. Sessions \subseteq Sessions'
  BY <1>1 DEF Sessions
<1>3. \A session : Data!Friday(session)' = Data!Friday(session)
  BY DEF Data!Friday
<1> QED
  BY <1>2 DEF Fridays, Data!Friday

\* Dates are numbers.
LEMMA DatesAre ==
    ASSUME Data!JobsAssumption, DataTypes
    PROVE  /\ Sessions \subseteq Nat /\ Fridays \subseteq Int
           /\ Data!LastSession \in Nat /\ 0 \in Sessions /\ today >= Data!LastSession
           /\ Week \in Nat /\ Week > 0 /\ today \in Nat
<1>1. Data!LastSession \in Nat /\ 0 \in Sessions /\ today >= Data!LastSession /\ today \in Nat
  BY SessionIs DEF DataTypes
<1>2. Sessions \subseteq Nat
  BY <1>1 DEF Sessions
<1>3. Fridays \subseteq Int
  BY <1>2, FridaysOf DEF Fridays
<1> QED
  BY <1>1, <1>2, <1>3 DEF Data!JobsAssumption

\* A row is of a session of its frame.
LEMMA LastRowIs ==
    ASSUME Data!JobsAssumption, DataTypes, NEW t \in Universe, Sector[t] \in Universe
    PROVE  /\ Data!LastRow(t) \in Sessions
           /\ Data!LastRow(t) >= frames[t] \/ Data!LastRow(t) >= frames[Sector[t]]
<1>1. frames[t] \in Sessions /\ frames[Sector[t]] \in Sessions /\ Carry \in Nat
  BY DEF DataTypes, Data!JobsAssumption
<1>2. Data!LastSession \in Nat
  BY DatesAre
<1> QED
  BY <1>1, <1>2 DEF Data!LastRow, Sessions

\* The market's row is one that enough references have.
LEMMA MarketRowIs ==
    ASSUME Data!JobsAssumption, DataTypes, Data!Covered
    PROVE  /\ Data!MarketRow \in Sessions
           /\ \A s \in Sessions :
                (\A r \in Data!Available(Data!Collected) : Data!LastRow(r) >= s) => Data!MarketRow >= s
<1> DEFINE available == Data!Available(Data!Collected)
           later(s) == {r \in available : Data!LastRow(r) >= s}
           shown == {s \in Sessions : Data!Cardinality(later(s)) >= MinReference}
           last == Data!LastSession
<1>1. Data!Cardinality(available) >= MinReference
  BY DEF Data!Covered
<1>2. ASSUME NEW s \in Sessions, \A r \in available : Data!LastRow(r) >= s PROVE s \in shown
  <2>1. later(s) = available
    BY <1>2
  <2> QED
    BY <1>1, <2>1
<1>3. last \in Nat /\ 0 \in Sessions /\ Sessions \subseteq Nat
  BY DatesAre
<1>4. \A r \in available : Data!LastRow(r) >= 0
  <2> SUFFICES ASSUME NEW r \in available PROVE Data!LastRow(r) >= 0
    OBVIOUS
  <2>1. r \in Universe /\ Sector[r] \in Universe
    BY DEF Data!Available, Data!Collected
  <2>2. Data!LastRow(r) \in Sessions
    BY <2>1, LastRowIs
  <2>3. Data!LastRow(r) \in Nat
    BY <1>3, <2>2
  <2> QED
    BY <2>3
<1>5. 0 \in shown
  BY <1>2, <1>3, <1>4
<1>6. \A s \in shown : s \in Int /\ s <= last
  BY <1>3 DEF Sessions
<1>7. Data!MarketRow = InboxFacts!Max(shown)
  BY DEF Data!MarketRow, Data!Max, InboxFacts!Max, Sessions
<1>8. shown \subseteq Sessions
  OBVIOUS
<1> HIDE DEF shown, last
<1>9. InboxFacts!Max(shown) \in shown /\ \A s \in shown : InboxFacts!Max(shown) >= s
  <2>1. shown \in SUBSET Int /\ shown # {} /\ last \in Int /\ \A s \in shown : s <= last
    BY <1>3, <1>5, <1>6
  <2> QED
    BY <2>1, InboxFacts!MaxIs
<1> QED
  BY <1>2, <1>7, <1>8, <1>9

\* So is that of every record of a bundle.
LEMMA ObservedIs ==
    ASSUME Data!JobsAssumption, DataTypes, Data!Covered, NEW t \in Data!Bundle
    PROVE  t \in Universe /\ Data!Observed(t) \in Sessions
<1>1. t = Market => t \in Universe /\ Data!Observed(t) \in Sessions
  BY MarketRowIs DEF Data!Observed, Data!JobsAssumption
<1>2. ASSUME t # Market PROVE t \in Universe /\ Data!Observed(t) \in Sessions
  <2>1. t \in Universe /\ Sector[t] \in Universe
    BY <1>2 DEF Data!Bundle, Data!Targets, Data!Collected
  <2> QED
    BY <1>2, <2>1, LastRowIs DEF Data!Observed
<1> QED
  BY <1>1, <1>2

\* If every frame is there, each has been observed no earlier than a week ago, and that
\* is so of every ticker that can be.
LEMMA ObservedLately ==
    ASSUME Data!JobsAssumption, DataTypes, FramesAreRecent, Data!Collected = Universe
    PROVE  /\ Data!Covered /\ Data!Bundle = Data!Targets(Universe) \cup {Market}
           /\ \A t \in Data!Bundle : /\ Data!Observed(t) >= today - Week
                                     /\ Data!Friday(Data!Observed(t)) >= Data!Friday(today - Week)
<1> DEFINE oldest == today - Week
<1>1. /\ Sessions \subseteq Nat /\ 0 \in Sessions /\ oldest \in Int
      /\ Data!LastSession \in Nat
  BY DatesAre
<1>2. /\ Reference \subseteq Universe /\ Market \in Universe
      /\ \A r \in Reference : Sector[r] \in Universe
  BY DEF Data!JobsAssumption
<1>3. \A t \in Universe : frames[t] \in Sessions /\ frames[t] >= oldest
  BY DEF DataTypes, FramesAreRecent, Data!Collected
<1>4. Data!Available(Data!Collected) = Reference
  BY <1>2 DEF Data!Available
<1>5. Data!Covered
  BY <1>2, <1>4 DEF Data!Covered, Data!JobsAssumption
<1>6. \A t \in Universe : Sector[t] \in Universe => Data!LastRow(t) \in Sessions /\ Data!LastRow(t) >= oldest
  <2> SUFFICES ASSUME NEW t \in Universe, Sector[t] \in Universe
               PROVE  Data!LastRow(t) \in Sessions /\ Data!LastRow(t) >= oldest
    OBVIOUS
  <2>1. /\ Data!LastRow(t) \in Sessions
        /\ Data!LastRow(t) >= frames[t] \/ Data!LastRow(t) >= frames[Sector[t]]
    BY LastRowIs
  <2>2. /\ frames[t] \in Nat /\ frames[t] >= oldest /\ frames[Sector[t]] \in Nat
        /\ frames[Sector[t]] >= oldest /\ Data!LastRow(t) \in Nat
    BY <1>1, <1>3, <2>1
  <2> HIDE DEF oldest
  <2> QED
    BY <1>1, <2>1, <2>2
<1>7. Data!MarketRow \in Sessions /\ Data!MarketRow >= oldest
  <2>1. /\ Data!MarketRow \in Sessions
        /\ \A s \in Sessions : (\A r \in Reference : Data!LastRow(r) >= s) => Data!MarketRow >= s
    BY <1>4, <1>5, MarketRowIs
  <2>2. CASE oldest \in Sessions
    BY <1>2, <1>6, <2>1, <2>2
  <2>3. CASE oldest \notin Sessions
    <3>1. oldest <= frames[Market] /\ frames[Market] <= Data!LastSession /\ frames[Market] \in Nat
      BY <1>1, <1>2, <1>3 DEF Sessions
    <3>2. oldest < 0
      <4> HIDE DEF oldest
      <4> QED
        BY <1>1, <2>3, <3>1 DEF Sessions
    <3> HIDE DEF oldest
    <3> QED
      BY <1>1, <2>1, <3>2
  <2> QED
    BY <2>2, <2>3
<1>8. ASSUME NEW t \in Data!Bundle
      PROVE  /\ Data!Observed(t) >= oldest
             /\ Data!Friday(Data!Observed(t)) >= Data!Friday(oldest)
  <2>1. Data!Observed(t) \in Sessions /\ Data!Observed(t) >= oldest
    <3>1. t # Market => t \in Universe /\ Sector[t] \in Universe
      BY DEF Data!Bundle, Data!Targets, Data!Collected
    <3> QED
      BY <1>6, <1>7, <3>1 DEF Data!Observed
  <2> DEFINE row == Data!Observed(t)
             friday == Data!Friday(row)
  <2>2. row \in Nat /\ row >= oldest
    BY <1>1, <2>1
  <2>3. /\ friday \in Int /\ friday >= row /\ Data!LastFriday = Data!Friday(oldest)
        /\ friday >= oldest => friday >= Data!LastFriday
    <3> HIDE DEF row
    <3> QED
      BY <2>2, FridaysOf
  <2>4. friday >= oldest
    <3> HIDE DEF friday, row, oldest
    <3> QED
      BY <1>1, <2>2, <2>3
  <2> QED
    BY <2>2, <2>3, <2>4
<1> QED
  BY <1>5, <1>8 DEF Data!Bundle

\* What does not end a run keeps its half-day and what it has stored.
LEMMA RunGoesOn ==
    ASSUME DataInvariant, DataTypes', phase # "idle", phase' # "idle",
           UNCHANGED <<today, closed, run>>, (phase \in Reading => FramesAreRecent)', StoredSoFar'
    PROVE  DataInvariant'
  BY DEF DataInvariant, UnderRun, Data!SuccessIsComplete

\* A run that is left under way says so.
LEMMA RunIsLeft ==
    ASSUME DataInvariant, phase # "idle", Data!Leave,
           run' = run \/ (run' \in Runs /\ (run'.status = "SUCCESS" => Data!SuccessIsComplete'))
    PROVE  DataInvariant'
<1>1. /\ phase' = "idle" /\ frames' = [t \in Universe |-> 0] /\ skipped' = {} /\ unsaved' = {}
      /\ counted' = Nothing
      /\ UNCHANGED <<today, closed, prices, newestPrice, confirmed, provisional>>
  BY DEF Data!Leave, Data!clock, Data!store, Data!NoDates
<1>2. Sessions' = Sessions /\ Fridays' = Fridays /\ 0 \in Sessions
  <2>1. Data!LastSession' = Data!LastSession
    BY <1>1 DEF Data!LastSession
  <2>2. Sessions' = Sessions
    BY <2>1 DEF Sessions
  <2>3. Fridays' = Fridays
    BY <2>2 DEF Fridays, Data!Friday
  <2> QED
    BY <2>2, <2>3, SessionIs DEF DataInvariant, DataTypes
<1>3. run' \in Runs
  BY DEF DataInvariant, UnderRun
<1>4. DataTypes'
  BY <1>1, <1>2, <1>3 DEF DataInvariant, DataTypes, Phases
<1>5. Data!SuccessIsComplete'
  <2>1. CASE run' = run
    BY <2>1 DEF DataInvariant, UnderRun, Data!SuccessIsComplete
  <2>2. CASE run'.status = "SUCCESS"
    BY <2>1, <2>2
  <2>3. CASE run' \in Runs /\ run'.status # "SUCCESS"
    BY <2>3 DEF Data!SuccessIsComplete
  <2> QED
    BY <2>1, <2>2, <2>3
<1> QED
  BY <1>1, <1>4, <1>5 DEF DataInvariant, UnderRun, StoredSoFar, Reading

\* What was complete stays so, as dates do not go back.
LEMMA CompleteStays ==
    ASSUME Data!SuccessIsComplete, UNCHANGED run,
           prices \in [Operational -> Nat], prices' \in [Operational -> Nat],
           \A t \in Operational : prices'[t] >= prices[t],
           UNCHANGED <<confirmed, provisional>>, run # Nothing => run.day \in Int, Week \in Int
    PROVE  Data!SuccessIsComplete'
<1> SUFFICES ASSUME run # Nothing, run.job = "weekly", run.status = "SUCCESS"
             PROVE  Data!SuccessIsComplete'
  BY DEF Data!SuccessIsComplete
<1> DEFINE oldest == run.day - Week
<1>1. /\ \A t \in Operational \ run.skipped : prices[t] >= oldest
      /\ \A t \in Data!Targets(Universe) \cup {Market} :
            confirmed[t] >= Data!Friday(oldest) /\ provisional[t] >= oldest
  BY DEF Data!SuccessIsComplete
<1>2. oldest \in Int
  OBVIOUS
<1>3. ASSUME NEW t \in Operational \ run.skipped PROVE prices'[t] >= oldest
  <2>1. prices[t] >= oldest /\ prices'[t] >= prices[t] /\ prices[t] \in Nat /\ prices'[t] \in Nat
    BY <1>1
  <2> HIDE DEF oldest
  <2> QED
    BY <1>2, <2>1
<1> QED
  BY <1>1, <1>3 DEF Data!SuccessIsComplete, Data!Targets, Data!Friday, Data!Available

\* Between runs time passes and single tickers are refreshed.
LEMMA BetweenRuns ==
    ASSUME Data!JobsAssumption, DataInvariant
    PROVE  /\ Data!HalfDay => DataInvariant'
           /\ \A t \in Operational, session \in Data!Dates \ {0} : Data!OnDemand(t, session) => DataInvariant'
           /\ \A job \in Data!Jobs : Data!Start(job) => DataInvariant'
<1> DEFINE last == Data!LastSession
<1>1. DataTypes /\ Data!SuccessIsComplete
  BY DEF DataInvariant
<1>2. /\ last \in Nat /\ Sessions \subseteq Nat /\ today \in Nat /\ Week \in Int
      /\ closed => last = today
      /\ ~closed => last = today - 1
      /\ run # Nothing => run.day \in Int
  BY <1>1, SessionIs, DatesAre DEF DataTypes, Runs
<1>3. ASSUME Data!HalfDay PROVE DataInvariant'
  <2>1. /\ phase = "idle" /\ phase' = "idle" /\ closed' = ~closed
        /\ today' = IF closed THEN today + 1 ELSE today
        /\ UNCHANGED <<run, prices, newestPrice, confirmed, provisional, frames, skipped, unsaved,
                       errors, counted>>
    BY <1>3 DEF Data!HalfDay, Data!store, Data!results
  <2>2. closed \in BOOLEAN /\ closed' \in BOOLEAN /\ today' \in Nat /\ today' >= 1
    BY <1>1, <2>1 DEF DataTypes
  <2>3. last' = (IF closed' THEN today' ELSE today' - 1)
    BY DEF Data!LastSession
  <2>4. last' \in Nat /\ last' >= last
    <3> HIDE DEF last
    <3>1. CASE closed
      <4>1. last' = (today + 1) - 1 /\ last = today
        BY <1>2, <2>1, <2>3, <3>1
      <4> QED
        BY <1>2, <4>1
    <3>2. CASE ~closed
      <4>1. last' = today /\ last = today - 1
        BY <1>2, <2>1, <2>3, <3>2
      <4> QED
        BY <1>2, <4>1
    <3> QED
      BY <2>2, <3>1, <3>2
  <2>5. Sessions \subseteq Sessions' /\ Fridays \subseteq Fridays'
    BY <1>1, <2>4, SessionsGrow
  <2>6. DataTypes'
    BY <1>1, <2>1, <2>2, <2>5 DEF DataTypes
  <2>7. Data!SuccessIsComplete'
    BY <1>1, <2>1 DEF Data!SuccessIsComplete
  <2> QED
    BY <2>1, <2>6, <2>7 DEF DataInvariant, UnderRun, StoredSoFar, Reading
<1>4. ASSUME NEW t \in Operational, NEW session \in Data!Dates \ {0}, Data!OnDemand(t, session)
      PROVE  DataInvariant'
  <2>1. /\ phase = "idle" /\ phase' = "idle"
        /\ prices' = [prices EXCEPT ![t] = Data!Newest(session, prices[t])]
        /\ newestPrice' = Data!Newest(session, newestPrice)
        /\ UNCHANGED <<today, closed, run, confirmed, provisional, frames, skipped, unsaved, errors,
                       counted>>
    BY <1>4 DEF Data!OnDemand, Data!clock, Data!results
  <2>2. session \in Nat /\ prices \in [Operational -> Nat] /\ newestPrice \in Nat
    BY <1>1, <1>2 DEF DataTypes, Data!Dates
  <2> DEFINE date == Data!Newest(session, prices[t])
  <2>3. date \in Nat /\ date >= prices[t] /\ newestPrice' \in Nat
    BY <2>1, <2>2, NewestIs
  <2> HIDE DEF date
  <2>4. prices' \in [Operational -> Nat] /\ \A u \in Operational : prices'[u] >= prices[u]
    <3>1. prices' = [prices EXCEPT ![t] = date]
      BY <2>1 DEF date
    <3> QED
      BY <2>2, <2>3, <3>1
  <2>5. Sessions' = Sessions /\ Fridays' = Fridays
    BY <2>1 DEF Sessions, Fridays, Data!LastSession, Data!Friday
  <2>6. DataTypes'
    BY <1>1, <2>1, <2>3, <2>4, <2>5 DEF DataTypes
  <2>7. Data!SuccessIsComplete'
    BY <1>1, <1>2, <2>1, <2>2, <2>4, CompleteStays
  <2> QED
    BY <2>1, <2>6, <2>7 DEF DataInvariant, UnderRun, StoredSoFar, Reading
<1>5. ASSUME NEW job \in Data!Jobs, Data!Start(job) PROVE DataInvariant'
  <2> DEFINE row == [job |-> job, status |-> "RUNNING", day |-> today, closed |-> closed,
                     failed |-> FALSE, skipped |-> {}, observed |-> Nothing]
  <2>1. /\ run' = row /\ phase = "idle" /\ phase' = "universe"
        /\ UNCHANGED <<today, closed, prices, newestPrice, confirmed, provisional, frames, skipped,
                       unsaved, errors, counted>>
    BY <1>5 DEF Data!Start, Data!clock, Data!store, Data!results
  <2>2. row \in Runs
    BY <1>1 DEF Runs, DataTypes
  <2>3. Sessions' = Sessions /\ Fridays' = Fridays
    BY <2>1 DEF Sessions, Fridays, Data!LastSession, Data!Friday
  <2>4. DataTypes'
    BY <1>1, <2>1, <2>2, <2>3 DEF DataTypes, Phases
  <2> QED
    BY <2>1, <2>2, <2>4 DEF DataInvariant, UnderRun, StoredSoFar, Reading, Data!SuccessIsComplete
<1> QED
  BY <1>3, <1>4, <1>5

\* The same frames make the same bundle.
LEMMA BundleStays ==
    ASSUME UNCHANGED <<today, closed, frames>>
    PROVE  /\ UNCHANGED <<Data!Collected, Data!Bundle>>
           /\ \A t : Data!Observed(t)' = Data!Observed(t)
<1>1. UNCHANGED Data!Collected
  BY DEF Data!Collected
<1>2. UNCHANGED Data!Bundle
  BY <1>1 DEF Data!Bundle, Data!Targets, Data!Available
<1>3. \A t : Data!LastRow(t)' = Data!LastRow(t)
  BY DEF Data!LastRow
<1>4. Data!MarketRow' = Data!MarketRow
  BY <1>1, <1>3 DEF Data!MarketRow, Data!Available, Data!LastSession
<1>5. ASSUME NEW t PROVE Data!Observed(t)' = Data!Observed(t)
  <2>1. Data!LastRow(t)' = Data!LastRow(t)
    BY <1>3
  <2> QED
    BY <1>4, <2>1 DEF Data!Observed
<1> QED
  BY <1>1, <1>2, <1>5

\* The phases of a run.
LEMMA PhasesKeep ==
    ASSUME Data!JobsAssumption, DataInvariant
    PROVE  /\ Data!FetchTickers => DataInvariant'
           /\ \A collected \in [Universe -> Data!Dates] : Data!Collect(collected) => DataInvariant'
           /\ \A scope \in Data!Scopes : \A short \in SUBSET scope : \A failing \in SUBSET (scope \ short) :
                Data!Scores(scope, short, failing) => DataInvariant'
           /\ Data!PublishS1 => DataInvariant'
           /\ Data!PublishD1 => DataInvariant'
           /\ \A model \in Data!Models : Data!NotPublished(model) => DataInvariant'
<1> DEFINE last == Data!LastSession
<1>1. /\ DataTypes /\ StoredSoFar /\ last \in Nat /\ today \in Nat /\ Week \in Nat
      /\ Sessions \subseteq Nat /\ 0 \in Sessions /\ Fridays \subseteq Int
      /\ phase \in Reading => FramesAreRecent
      /\ phase # "idle" => run \in Runs /\ run.status = "RUNNING"
  BY DatesAre DEF DataInvariant, UnderRun, DataTypes
<1>2. UNCHANGED <<today, closed>> => Sessions' = Sessions /\ Fridays' = Fridays
  BY DEF Sessions, Fridays, Data!LastSession, Data!Friday
<1>3. UNCHANGED <<today, frames>> /\ FramesAreRecent => FramesAreRecent'
  BY DEF FramesAreRecent
<1>4. ASSUME Data!FetchTickers PROVE DataInvariant'
  <2>1. /\ phase = "universe" /\ phase' = "collect"
        /\ UNCHANGED <<today, closed, run, prices, newestPrice, confirmed, provisional, frames, skipped,
                       unsaved, errors, counted>>
    BY <1>4 DEF Data!FetchTickers, Data!Proceed, Data!Following, Data!clock, Data!store,
                Data!results
  <2>2. DataTypes' /\ StoredSoFar' /\ (phase \in Reading => FramesAreRecent)'
    BY <1>1, <1>2, <2>1 DEF DataTypes, Phases, StoredSoFar, Reading
  <2> QED
    BY <2>1, <2>2, RunGoesOn
<1>5. ASSUME NEW collected \in [Universe -> Data!Dates], Data!Collect(collected) PROVE DataInvariant'
  <2>1. /\ phase = "collect" /\ phase' = (IF run.job = "weekly" THEN "scores" ELSE "D1")
        /\ frames' = collected /\ \A t \in Universe : collected[t] = 0 \/ today - collected[t] <= Week
        /\ UNCHANGED <<today, closed, run, prices, newestPrice, confirmed, provisional, skipped,
                       unsaved, errors, counted>>
    BY <1>5 DEF Data!Collect, Data!Proceed, Data!Following, Data!clock, Data!store, Data!NotStale
  <2>2. frames' \in [Universe -> Sessions]
    BY <1>1, <2>1 DEF Data!Dates, Sessions
  <2>3. DataTypes' /\ StoredSoFar'
    BY <1>1, <1>2, <2>1, <2>2 DEF DataTypes, Phases, StoredSoFar
  <2>4. FramesAreRecent'
    <3> SUFFICES ASSUME NEW t \in Universe, collected[t] # 0 PROVE collected[t] >= today - Week
      BY <2>1 DEF FramesAreRecent
    <3>1. collected[t] \in Nat /\ today - collected[t] <= Week
      BY <1>1, <2>1, <2>2
    <3> QED
      BY <1>1, <3>1
  <2> QED
    BY <2>1, <2>3, <2>4, RunGoesOn
<1>6. ASSUME NEW scope \in SUBSET Data!Collected, NEW short \in SUBSET Data!Collected,
             NEW failing \in SUBSET Data!Collected, scope \in Data!Scopes, short \subseteq scope,
             failing \subseteq scope, Data!Scores(scope, short, failing)
      PROVE  DataInvariant'
  <2> DEFINE saved == scope \ (short \cup failing)
             date(t) == IF t \in saved THEN Data!Newest(frames[t], prices[t]) ELSE prices[t]
  <2>1. /\ phase = "scores" /\ phase' = "S1" /\ skipped' = short /\ unsaved' = failing
        /\ prices' = [t \in Operational |-> date(t)]
        /\ newestPrice' = Data!Max({newestPrice} \cup {frames[t] : t \in saved})
        /\ UNCHANGED <<today, closed, run, confirmed, provisional, frames, errors, counted>>
    BY <1>6 DEF Data!Scores, Data!Proceed, Data!Following, Data!clock
  <2>2. /\ Data!Collected \subseteq Universe /\ Operational \subseteq Universe
        /\ \A t \in Universe : frames[t] \in Nat
        /\ \A t \in Operational : prices[t] \in Nat
    BY <1>1 DEF DataTypes, Data!Collected, Data!JobsAssumption
  <2>3. ASSUME NEW t \in Operational
        PROVE  date(t) \in Nat /\ date(t) >= prices[t] /\ (t \in saved => date(t) >= frames[t])
    <3>1. frames[t] \in Nat /\ prices[t] \in Nat
      BY <2>2
    <3> QED
      BY <3>1, NewestIs
  <2>4. prices' \in [Operational -> Nat]
    BY <2>1, <2>3
  <2> DEFINE dates == {newestPrice} \cup {frames[t] : t \in saved}
  <2>5. newestPrice' \in Nat
    <3>1. dates \in SUBSET Nat /\ dates # {}
      BY <1>1, <2>2 DEF DataTypes
    <3>2. \A s \in dates : s <= last \/ s <= newestPrice
      BY <1>1, <2>2 DEF DataTypes, Sessions
    <3>3. PICK n \in Nat : \A s \in dates : s <= n
      <4>1. newestPrice \in Nat
        BY <1>1 DEF DataTypes
      <4> HIDE DEF dates, last
      <4>2. \A s \in dates : s <= last + newestPrice
        BY <1>1, <3>1, <3>2, <4>1
      <4> QED
        BY <1>1, <4>1, <4>2
    <3>4. newestPrice' = InboxFacts!Max(dates)
      BY <2>1 DEF Data!Max, InboxFacts!Max
    <3> HIDE DEF dates
    <3>5. InboxFacts!Max(dates) \in dates
      BY <3>1, <3>3, InboxFacts!MaxIs
    <3> QED
      BY <3>1, <3>4, <3>5
  <2> HIDE DEF dates
  <2>6. DataTypes'
    BY <1>1, <1>2, <2>1, <2>2, <2>4, <2>5 DEF DataTypes, Phases
  <2>7. StoredSoFar'
    <3>1. ASSUME NEW t \in (Operational \cap Data!Collected) \ (short \cup failing) PROVE prices'[t] >= frames[t]
      <4>1. t \in scope
        BY <1>6, <3>1 DEF Data!Scopes
      <4>2. prices'[t] = date(t) /\ t \in saved
        BY <2>1, <3>1, <4>1
      <4> HIDE DEF date, saved
      <4> QED
        BY <2>3, <4>2
    <3>2. UNCHANGED Data!Collected
      BY <2>1, BundleStays
    <3> QED
      BY <2>1, <3>1, <3>2 DEF StoredSoFar
  <2>8. DataInvariant /\ (phase \in Reading => FramesAreRecent)'
    BY <1>1, <1>3, <2>1 DEF Reading
  <2> QED
    BY <2>1, <2>6, <2>7, <2>8, RunGoesOn
<1>7. ASSUME Data!PublishS1 PROVE DataInvariant'
  <2> DEFINE friday(t) == Data!Friday(Data!Observed(t))
             row(t) == IF t \in Data!Bundle THEN Data!Newest(friday(t), confirmed[t]) ELSE confirmed[t]
  <2>1. /\ phase = "S1" /\ phase' = "D1" /\ Data!Covered
        /\ confirmed' = [t \in Universe |-> row(t)]
        /\ counted' = Data!Cardinality(Data!Bundle)
        /\ UNCHANGED <<today, closed, run, prices, newestPrice, provisional, frames, skipped, unsaved,
                       errors>>
    BY <1>7 DEF Data!PublishS1, Data!Proceed, Data!Following, Data!clock
  <2>2. Data!Bundle \subseteq Universe
    BY <1>1, <2>1, ObservedIs
  <2>3. ASSUME NEW t \in Universe
        PROVE  row(t) \in Fridays /\ (t \in Data!Bundle => row(t) >= friday(t))
    <3>1. confirmed[t] \in Fridays
      BY <1>1 DEF DataTypes
    <3>2. t \in Data!Bundle => friday(t) \in Fridays
      BY <1>1, <2>1, ObservedIs DEF Fridays
    <3> HIDE DEF friday
    <3> QED
      BY <1>1, <3>1, <3>2, NewestIs
  <2>4. confirmed' \in [Universe -> Fridays] /\ \A t \in Data!Bundle : confirmed'[t] >= friday(t)
    <3> HIDE DEF friday, row
    <3> QED
      BY <2>1, <2>2, <2>3
  <2>5. counted' \in Nat
    BY <2>1, <2>2, TickersCount
  <2>6. DataTypes'
    BY <1>1, <1>2, <2>1, <2>4, <2>5 DEF DataTypes, Phases
  <2>7. /\ UNCHANGED <<Data!Collected, Data!Bundle>> /\ \A t : Data!Observed(t)' = Data!Observed(t)
        /\ \A session : Data!Friday(session)' = Data!Friday(session)
    BY <2>1, BundleStays DEF Data!Friday
  <2>8. StoredSoFar'
    BY <1>1, <2>1, <2>4, <2>7 DEF StoredSoFar, Data!Friday
  <2> QED
    BY <1>1, <1>3, <2>1, <2>6, <2>8, RunGoesOn DEF Reading
<1>8. ASSUME Data!PublishD1 PROVE DataInvariant'
  <2> DEFINE row(t) == IF t \in Data!Bundle THEN Data!Newest(Data!Observed(t), provisional[t])
                       ELSE provisional[t]
  <2>1. /\ phase = "D1" /\ phase' = "rest" /\ Data!Covered
        /\ provisional' = [t \in Universe |-> row(t)]
        /\ counted' = IF run.job = "daily" THEN Data!Cardinality(Data!Bundle) ELSE counted
        /\ UNCHANGED <<today, closed, run, prices, newestPrice, confirmed, frames, skipped, unsaved,
                       errors>>
    BY <1>8 DEF Data!PublishD1, Data!Proceed, Data!Following, Data!clock
  <2>2. Data!Bundle \subseteq Universe
    BY <1>1, <2>1, ObservedIs
  <2>3. ASSUME NEW t \in Universe
        PROVE  row(t) \in Nat /\ (t \in Data!Bundle => row(t) >= Data!Observed(t))
    <3>1. provisional[t] \in Nat
      BY <1>1 DEF DataTypes
    <3>2. t \in Data!Bundle => Data!Observed(t) \in Nat
      BY <1>1, <2>1, ObservedIs
    <3> QED
      BY <3>1, <3>2, NewestIs
  <2>4. provisional' \in [Universe -> Nat] /\ \A t \in Data!Bundle : provisional'[t] >= Data!Observed(t)
    <3> HIDE DEF row
    <3> QED
      BY <2>1, <2>2, <2>3
  <2>5. counted' \in Nat \cup {Nothing}
    BY <1>1, <2>1, <2>2, TickersCount DEF DataTypes
  <2>6. DataTypes'
    BY <1>1, <1>2, <2>1, <2>4, <2>5 DEF DataTypes, Phases
  <2>7. /\ UNCHANGED <<Data!Collected, Data!Bundle>> /\ \A t : Data!Observed(t)' = Data!Observed(t)
    BY <2>1, BundleStays
  <2>8. StoredSoFar'
    BY <1>1, <2>1, <2>4, <2>7 DEF StoredSoFar, Data!Friday
  <2> QED
    BY <1>1, <1>3, <2>1, <2>6, <2>8, RunGoesOn DEF Reading
<1>9. ASSUME NEW model \in Data!Models, Data!NotPublished(model) PROVE DataInvariant'
  <2>1. /\ phase = model /\ phase' = (IF model = "S1" THEN "D1" ELSE "rest")
        /\ errors' = errors \cup {model}
        /\ counted' = IF run.job = "daily" THEN 0 ELSE counted
        /\ UNCHANGED <<today, closed, run, prices, newestPrice, confirmed, provisional, frames, skipped,
                       unsaved>>
    BY <1>9 DEF Data!NotPublished, Data!Models, Data!Proceed, Data!Following, Data!clock,
                 Data!store
  <2>2. DataTypes'
    BY <1>1, <1>2, <2>1 DEF DataTypes, Phases
  <2>3. /\ UNCHANGED <<Data!Collected, Data!Bundle>> /\ \A t : Data!Observed(t)' = Data!Observed(t)
    BY <2>1, BundleStays
  <2>4. StoredSoFar'
    BY <1>1, <2>1, <2>3 DEF StoredSoFar, Data!Models, Data!Friday
  <2> QED
    BY <1>1, <1>3, <2>1, <2>2, <2>4, RunGoesOn DEF Data!Models, Reading
<1>10. \A scope \in Data!Scopes : \A short \in SUBSET scope : \A failing \in SUBSET (scope \ short) :
          Data!Scores(scope, short, failing) => DataInvariant'
  <2> SUFFICES ASSUME NEW scope \in Data!Scopes, NEW short \in SUBSET scope,
                      NEW failing \in SUBSET (scope \ short), Data!Scores(scope, short, failing)
               PROVE  DataInvariant'
    OBVIOUS
  <2>1. scope \subseteq Data!Collected
    BY DEF Data!Scopes
  <2> QED
    BY <1>6, <2>1
<1> QED
  BY <1>4, <1>5, <1>7, <1>8, <1>9, <1>10

\* The end of a run, and what is killed.
LEMMA RunEnds ==
    ASSUME Data!JobsAssumption, DataInvariant
    PROVE  /\ Data!NoUniverse => DataInvariant'
           /\ \A failing \in SUBSET Data!Others : Data!Finish(failing) => DataInvariant'
           /\ Data!Kill => DataInvariant'
<1>1. ASSUME Data!NoUniverse PROVE DataInvariant'
  <2>1. phase # "idle" /\ Data!Leave /\ run \in Runs /\ run' \in {run, [run EXCEPT !.status = "FAILED"]}
    BY <1>1 DEF Data!NoUniverse, Data!Close, DataInvariant, UnderRun
  <2>2. [run EXCEPT !.status = "FAILED"] \in Runs /\ [run EXCEPT !.status = "FAILED"].status = "FAILED"
    BY <2>1 DEF Runs
  <2> QED
    BY <2>1, <2>2, RunIsLeft
<1>2. ASSUME NEW failing \in SUBSET Data!Others, Data!Finish(failing) PROVE DataInvariant'
  <2> DEFINE verdict == Data!Verdict(failing)
             some == Data!Failed # {}
             short == skipped \cap Operational
             row == [run EXCEPT !.status = verdict, !.failed = some, !.skipped = short,
                                !.observed = counted]
  <2>1. /\ phase = "rest" /\ Data!Leave /\ run \in Runs /\ run.status = "RUNNING" /\ run' \in {run, row}
        /\ run.day = today /\ run.closed = closed /\ DataTypes
    BY <1>2 DEF Data!Finish, Data!Close, DataInvariant, UnderRun
  <2>2. verdict \in {"SUCCESS", "PARTIAL_FAILURE", "FAILED"}
    BY DEF Data!Verdict
  <2>3. some \in BOOLEAN /\ short \in SUBSET Universe /\ counted \in Nat \cup {Nothing}
    BY <2>1 DEF DataTypes
  <2>4. /\ row \in Runs /\ row.status = verdict /\ row.job = run.job /\ row.day = run.day
        /\ row.skipped = short
    <3> HIDE DEF verdict, some, short
    <3> QED
      BY <2>1, <2>2, <2>3 DEF Runs
  <2>5. ASSUME run' = row, row.status = "SUCCESS" PROVE Data!SuccessIsComplete'
    <3> DEFINE oldest == today - Week
    <3> SUFFICES ASSUME row.job = "weekly"
                 PROVE  /\ \A t \in Operational \ short : prices[t] >= oldest
                        /\ \A t \in Data!Targets(Universe) \cup {Market} :
                             confirmed[t] >= Data!Friday(oldest) /\ provisional[t] >= oldest
      <4>1. UNCHANGED <<prices, confirmed, provisional>> /\ run'.day - Week = oldest
            /\ run'.skipped = short /\ run'.job = row.job
        BY <2>1, <2>4, <2>5 DEF Data!Leave, Data!store
      <4>2. Data!Targets(Universe)' = Data!Targets(Universe)
            /\ \A session : Data!Friday(session)' = Data!Friday(session)
        BY DEF Data!Targets, Data!Available, Data!Friday
      <4> HIDE DEF oldest, short, row
      <4> QED
        BY <4>1, <4>2 DEF Data!SuccessIsComplete, Data!Targets, Data!Available, Data!Friday
    <3>1. Data!Collected = Universe /\ unsaved = {} /\ errors = {}
      BY <2>4, <2>5 DEF Data!Verdict, Data!Failed, Data!Collected
    <3>2. FramesAreRecent /\ StoredSoFar /\ run.job = "weekly"
      BY <2>1, <2>4 DEF DataInvariant, Reading
    <3>3. /\ \A t \in (Operational \cap Data!Collected) \ (skipped \cup unsaved) : prices[t] >= frames[t]
          /\ \A t \in Data!Bundle : confirmed[t] >= Data!Friday(Data!Observed(t))
          /\ \A t \in Data!Bundle : provisional[t] >= Data!Observed(t)
      BY <2>1, <3>1, <3>2 DEF StoredSoFar
    <3>4. /\ Data!Covered /\ Data!Bundle = Data!Targets(Universe) \cup {Market}
          /\ \A t \in Data!Bundle : /\ Data!Observed(t) >= oldest
                                    /\ Data!Friday(Data!Observed(t)) >= Data!Friday(oldest)
      BY <2>1, <3>1, <3>2, ObservedLately
    <3>5. /\ Operational \subseteq Universe /\ Sessions \subseteq Nat /\ Fridays \subseteq Int
          /\ oldest \in Int
      BY <2>1, DatesAre DEF Data!JobsAssumption
    <3>6. ASSUME NEW t \in Operational \ short PROVE prices[t] >= oldest
      <4>1. t \in (Operational \cap Data!Collected) \ (skipped \cup unsaved) /\ t \in Universe
        BY <3>1, <3>5, <3>6
      <4>2. prices[t] >= frames[t] /\ frames[t] >= oldest
        BY <3>1, <3>2, <3>3, <4>1 DEF FramesAreRecent, Data!Collected
      <4>3. prices[t] \in Nat /\ frames[t] \in Nat
        BY <2>1, <3>5, <4>1 DEF DataTypes
      <4> HIDE DEF oldest
      <4> QED
        BY <3>5, <4>2, <4>3
    <3>7. ASSUME NEW t \in Data!Bundle
          PROVE  confirmed[t] >= Data!Friday(oldest) /\ provisional[t] >= oldest
      <4> DEFINE row1 == Data!Observed(t)
                 friday == Data!Friday(row1)
                 before == Data!Friday(oldest)
      <4>1. t \in Universe /\ row1 \in Nat /\ friday \in Int
        BY <2>1, <3>4, <3>5, ObservedIs DEF Fridays
      <4>2. before \in Int
        <5>1. 0 \in Nat
          OBVIOUS
        <5>2. Data!LastFriday \in Int /\ Data!LastFriday = Data!Friday(today - Week)
          BY <2>1, <5>1, FridaysOf
        <5> QED
          BY <5>2
      <4>3. confirmed[t] \in Int /\ provisional[t] \in Nat
        BY <2>1, <3>5, <4>1 DEF DataTypes
      <4>4. /\ confirmed[t] >= friday /\ friday >= before
            /\ provisional[t] >= row1 /\ row1 >= oldest
        BY <3>3, <3>4
      <4> HIDE DEF row1, friday, before, oldest
      <4>5. confirmed[t] >= before /\ provisional[t] >= oldest
        BY <3>5, <4>1, <4>2, <4>3, <4>4
      <4> QED
        BY <4>5 DEF before
    <3> QED
      BY <3>4, <3>6, <3>7
  <2> QED
    BY <2>1, <2>4, <2>5, RunIsLeft
<1>3. ASSUME Data!Kill PROVE DataInvariant'
  BY <1>3, RunIsLeft DEF Data!Kill
<1> QED
  BY <1>1, <1>2, <1>3

\* The invariant of the data holds in every state.
LEMMA DataInvariance == ServicesSpec => []DataInvariant
<1>0. Data!JobsAssumption
  BY ServicesAssumption
<1>1. ServicesInit => DataInvariant
  <2> SUFFICES ASSUME Data!Init PROVE DataInvariant
    BY DEF ServicesInit
  <2>1. /\ today = 1 /\ closed = FALSE /\ run = Nothing /\ phase = "idle"
        /\ prices = [t \in Operational |-> 0] /\ newestPrice = 0
        /\ confirmed = [t \in Universe |-> 0] /\ provisional = [t \in Universe |-> 0]
        /\ frames = [t \in Universe |-> 0] /\ skipped = {} /\ unsaved = {} /\ counted = Nothing
    BY DEF Data!Init, Data!NoDates
  <2>2. 0 \in Sessions /\ 0 \in Nat
    <3>1. Data!LastSession = 0
      BY <2>1 DEF Data!LastSession
    <3> QED
      BY <3>1 DEF Sessions
  <2>3. 0 \in Fridays
    <3>1. Week \in Nat /\ Week > 0 /\ Week - 1 \in Nat /\ Week - 1 < Week
      BY <1>0 DEF Data!JobsAssumption
    <3> DEFINE k == (Week - 1) \div Week
    <3>2. k \in Int /\ k * Week <= Week - 1 /\ Week - 1 < k * Week + Week
      BY <3>1, DivIs
    <3> HIDE DEF k
    <3>3. k < 0 => k * Week <= 0 * Week - Week
      BY <3>1, <3>2, MultiplesApart
    <3>4. 0 < k => 0 * Week <= k * Week - Week
      BY <3>1, <3>2, MultiplesApart
    <3>5. k = 0
      <4> DEFINE x == k * Week
      <4>1. x \in Int /\ x <= Week - 1 /\ Week - 1 < x + Week
        BY <3>1, <3>2
      <4>2. (k < 0 => x <= 0 - Week) /\ (0 < k => Week <= x)
        BY <3>1, <3>2, <3>3, <3>4
      <4> HIDE DEF x
      <4> QED
        BY <3>1, <3>2, <4>1, <4>2
    <3>6. Data!Friday(0) = k * Week
      <4>1. 0 + Week - 1 = Week - 1
        BY <3>1
      <4> QED
        BY <4>1 DEF Data!Friday, k
    <3>7. Data!Friday(0) = 0
      BY <3>1, <3>5, <3>6
    <3> QED
      BY <2>2, <3>7 DEF Fridays
  <2>4. DataTypes
    <3>1. today \in Nat /\ today >= 1
      BY <2>1
    <3>2. closed \in BOOLEAN
      BY <2>1
    <3>3. /\ prices \in [Operational -> Nat] /\ newestPrice \in Nat
          /\ confirmed \in [Universe -> Fridays] /\ provisional \in [Universe -> Nat]
          /\ frames \in [Universe -> Sessions]
      BY <2>1, <2>2, <2>3
    <3>4. phase \in Phases
      BY <2>1 DEF Phases
    <3> QED
      BY <2>1, <3>1, <3>2, <3>3, <3>4 DEF DataTypes
  <2> QED
    BY <2>1, <2>4 DEF DataInvariant, UnderRun, StoredSoFar, Reading, Data!SuccessIsComplete
<1>2. ASSUME DataInvariant, [ServicesNext]_services
      PROVE  DataInvariant'
  <2>1. CASE Data!Next
    BY <1>0, <1>2, <2>1, BetweenRuns, PhasesKeep, RunEnds DEF Data!Next
  <2>2. CASE UNCHANGED data
    <3>1. UNCHANGED <<today, closed, run, prices, newestPrice, confirmed, provisional, phase, frames,
                      skipped, unsaved, errors, counted>>
      BY <2>2 DEF data
    <3>2. Sessions' = Sessions /\ Fridays' = Fridays
      BY <3>1 DEF Sessions, Fridays, Data!LastSession, Data!Friday
    <3>3. DataTypes' /\ UnderRun' /\ Data!SuccessIsComplete' /\ (phase \in Reading => FramesAreRecent)'
      BY <1>2, <3>1, <3>2 DEF DataInvariant, DataTypes, UnderRun, FramesAreRecent, Data!SuccessIsComplete
    <3>4. UNCHANGED <<Data!Collected, Data!Bundle>> /\ \A t : Data!Observed(t)' = Data!Observed(t)
      BY <3>1, BundleStays
    <3>5. StoredSoFar'
      BY <1>2, <3>1, <3>4 DEF DataInvariant, StoredSoFar, Data!Friday
    <3> QED
      BY <3>3, <3>5 DEF DataInvariant
  <2> QED
    BY <1>2, <2>1, <2>2, StepsApart
<1> QED
  BY <1>1, <1>2, PTL DEF ServicesSpec

\* A weekly run recorded as a success has left nothing out that it could store: a week
\* before the run at most are the prices of every followed ticker with enough history and
\* both observations of the market and of every ticker that can be observed, and they are
\* not taken back (herd_scheduler.py, observation_s1.py, data_quality_gate.py).
THEOREM ASuccessIsComplete == ServicesSpec => []SuccessIsComplete
<1>1. DataInvariant => SuccessIsComplete
  BY DEF DataInvariant, SuccessIsComplete
<1> QED
  BY <1>1, DataInvariance, PTL

-----------------------------------------------------------------------------
(* What the back end tells of the data. Observations are of Fridays, so   *)
(* that one which is no older than a week is of the last Friday.          *)

\* Data shown as fresh includes the last week that is over.
LEMMA FreshIncludesLastWeek ==
    ASSUME Data!JobsAssumption, Data!FreshnessAssumption, DataTypes
    PROVE  Data!MissedWeekShows
<1> DEFINE fridays == {confirmed[t] : t \in Universe}
           latest == Data!LatestObservationDate
           newest == {t \in Universe : confirmed[t] = latest}
           recent == {t \in Universe : confirmed[t] >= Data!LastFriday}
           bound == Data!LastSession + Week - 1
<1> SUFFICES ASSUME Data!DetermineStatus = "FRESH"
             PROVE  recent # {} /\ (run.observed # Nothing => Data!Cardinality(recent) >= run.observed)
  BY DEF Data!MissedWeekShows
<1>1. run # Nothing /\ ~Data!Warning
  BY DEF Data!DetermineStatus, Data!Warning
<1>2. Data!LastSession \in Nat /\ Week \in Nat /\ Week > 0 /\ bound \in Int /\ today \in Nat
  BY DatesAre
<1>3. ASSUME NEW t \in Universe
      PROVE  /\ confirmed[t] \in Int /\ confirmed[t] <= bound
             /\ Data!LastFriday \in Int /\ Data!LastFriday < today
             /\ confirmed[t] >= today - Week => confirmed[t] >= Data!LastFriday
  <2>1. PICK session \in Sessions : confirmed[t] = Data!Friday(session)
    BY DEF DataTypes, Fridays
  <2>2. session \in Nat /\ session <= Data!LastSession
    BY <1>2 DEF Sessions
  <2>3. /\ Data!Friday(session) \in Int /\ Data!Friday(session) <= session + Week - 1
        /\ Data!LastFriday \in Int /\ Data!LastFriday < today
        /\ Data!Friday(session) >= today - Week => Data!Friday(session) >= Data!LastFriday
    BY <2>2, FridaysOf
  <2>4. session + Week - 1 <= bound
    BY <1>2, <2>2
  <2> DEFINE upper == session + Week - 1
  <2>5. upper \in Int /\ upper <= bound /\ confirmed[t] <= upper /\ confirmed[t] \in Int
    BY <1>2, <2>1, <2>2, <2>3, <2>4
  <2> HIDE DEF upper, bound
  <2>6. confirmed[t] <= bound
    BY <1>2, <2>5
  <2> QED
    BY <2>1, <2>3, <2>5, <2>6
<1>4. latest \in fridays
  <2>1. fridays \in SUBSET Int /\ fridays # {} /\ \A y \in fridays : y <= bound
    BY <1>3 DEF Data!JobsAssumption
  <2>2. InboxFacts!Max(fridays) \in fridays
    <3> HIDE DEF fridays, bound
    <3> QED
      BY <1>2, <2>1, InboxFacts!MaxIs
  <2>3. latest = InboxFacts!Max(fridays)
    BY DEF Data!LatestObservationDate, Data!Max, InboxFacts!Max
  <2> QED
    BY <2>2, <2>3
<1>5. PICK t \in Universe : latest = confirmed[t]
  BY <1>4
<1>6. latest \in Int /\ Data!LastFriday \in Int /\ Data!LastFriday < today
      /\ (latest >= today - Week => latest >= Data!LastFriday)
  BY <1>3, <1>5
<1>7. ~(Data!BusinessDaysBetween(latest) > ObservationWarning)
  BY <1>1 DEF Data!Warning
<1>8. latest >= Data!LastFriday
  <2>1. CASE latest >= today
    BY <1>2, <1>6, <2>1
  <2>2. CASE ~(latest >= today)
    <3>1. Data!BusinessDaysBetween(latest) = today - latest
      BY <2>2 DEF Data!BusinessDaysBetween
    <3>2. today - latest <= Week
      BY <1>2, <1>6, <1>7, <3>1 DEF Data!FreshnessAssumption
    <3> QED
      BY <1>2, <1>6, <3>2
  <2> QED
    BY <2>1, <2>2
<1>9. newest \subseteq recent /\ recent \subseteq Universe /\ recent # {}
  BY <1>5, <1>8
<1>10. ASSUME run.observed # Nothing PROVE Data!Cardinality(recent) >= run.observed
  <2>1. run.observed \in Nat
    BY <1>1, <1>10 DEF DataTypes, Runs
  <2>2. Data!Cardinality(newest) \in Nat /\ Data!Cardinality(recent) \in Nat
        /\ Data!Cardinality(newest) <= Data!Cardinality(recent)
    BY <1>9, TickersCount
  <2>3. ~(Data!MissingObservations > 0)
    BY <1>1 DEF Data!Warning
  <2> DEFINE missing == run.observed - Data!Cardinality(newest)
  <2>4. Data!MissingObservations = InboxFacts!Max({0, missing})
    BY <1>10 DEF Data!MissingObservations, Data!Max, InboxFacts!Max
  <2>5. missing \in Int
    BY <2>1, <2>2
  <2> HIDE DEF missing
  <2>6. InboxFacts!Max({0, missing}) \in {0, missing} /\ InboxFacts!Max({0, missing}) >= missing
    BY <2>5, InboxFacts!MaxOfTwo
  <2>7. missing <= 0
    BY <2>3, <2>4, <2>5, <2>6
  <2> QED
    BY <2>1, <2>2, <2>7 DEF missing
<1> QED
  BY <1>9, <1>10

\* Data shown as fresh includes the observations of the last week that is over, of as many
\* tickers as the newest run observed (DataFreshnessService).
THEOREM AMissedWeekShows == ServicesSpec => []MissedWeekShows
<1>1. DataInvariant => MissedWeekShows
  BY ServicesAssumption, FreshIncludesLastWeek DEF DataInvariant, MissedWeekShows
<1> QED
  BY <1>1, DataInvariance, PTL

=============================================================================
