---------------------------- MODULE HerdTransition ----------------------------
(***************************************************************************)
(* The weekly transition labels of State S1 (data/herd/herd_transition_s1): *)
(* what a ticker's state did over the last weeks, shown only when the label *)
(* has been confirmed and does not turn round too soon.  Every run labels   *)
(* the whole history it has, and the history it has starts later each week. *)
(***************************************************************************)
EXTENDS Integers, Sequences, FiniteSets, FiniteSetsExt, Functions, SequencesExt

CONSTANTS Observations,  \* what a week may show: a level per family
          Families,      \* FAMILY_COLUMNS
          Short,         \* short_change_weeks
          Memory,        \* extreme_memory_weeks
          Confirmation,  \* direction_confirmation_weeks
          Cooldown,      \* opposite_direction_cooldown_weeks
          Moderate,      \* moderate_score_change
          Severe,        \* severe_score_change
          FamilyChange,  \* moderate_family_change
          ModerateVotes, \* moderate_family_votes
          SevereVotes,   \* severe_family_votes
          High, Upper, Lower,  \* the scores 75, 60 and 40
          MaxWeeks       \* bound

\* herd_transition_s1.json: 4 weeks of change, 13 of memory, 2 of confirmation, 4 of cooldown.
TransitionAssumption ==
    /\ Short \in Nat /\ Memory \in Nat /\ Short < Memory
    /\ Confirmation \in Nat \ {0} /\ Cooldown \in Nat

VARIABLE weeks  \* the observations of a ticker, one a week

Init == weeks = <<>>

Next ==
    /\ Len(weeks) < MaxWeeks
    /\ \E o \in Observations : weeks' = Append(weeks, o)

Spec == Init /\ [][Next]_weeks

-----------------------------------------------------------------------------
(* The labels of a history, week by week.                                   *)

Positive == {"EXTENDING", "RECOVERING"}
Negative == {"COOLING", "BREAKING", "FALLING"}
Directional == Positive \cup Negative
Highlighted == {"COOLING", "BREAKING", "RECOVERING"}

\* HERD_STATE: the families' sum, where the code takes their mean.
State(o) == FoldFunction(+, 0, o)

Delta(history, i) == State(history[i]) - State(history[i - Short])

UpVotes(history, i) ==
    Cardinality({f \in Families : history[i][f] - history[i - Short][f] >= FamilyChange})

DownVotes(history, i) ==
    Cardinality({f \in Families : history[i - Short][f] - history[i][f] >= FamilyChange})

Recent(history, i) == {State(history[j]) : j \in (i - Memory + 1)..i}

FullyObserved(i) == i > Short /\ i >= Memory

\* The first of the conditions that holds gives the label.
RawTransition(history, i) ==
    LET delta == Delta(history, i)
        state == State(history[i])
        Up(change, votes)   == delta >= change /\ UpVotes(history, i) >= votes
        Down(change, votes) == delta <= -change /\ DownVotes(history, i) >= votes
    IN  IF ~FullyObserved(i) THEN "UNKNOWN"
        ELSE IF Max(Recent(history, i)) >= High /\ Down(Severe, SevereVotes) THEN "BREAKING"
        ELSE IF Min(Recent(history, i)) <= Lower /\ Up(Severe, SevereVotes) THEN "RECOVERING"
        ELSE IF state >= Upper /\ Down(Moderate, ModerateVotes) THEN "COOLING"
        ELSE IF state >= Upper /\ Up(Moderate, ModerateVotes) THEN "EXTENDING"
        ELSE IF state <= Lower /\ Down(Moderate, ModerateVotes) THEN "FALLING"
        ELSE IF state <= Lower /\ delta \in (1 - Moderate)..(Moderate - 1) THEN "STABILIZING"
        ELSE IF state >= Upper /\ delta \in (1 - Moderate)..(Moderate - 1) THEN "PLATEAU"
        ELSE "NEUTRAL"

RawTransitions(history) == [i \in DOMAIN history |-> RawTransition(history, i)]

Direction(label) == IF label \in Positive THEN "POSITIVE" ELSE "NEGATIVE"

Confirmed(raw, i) ==
    i >= Confirmation /\ \A j \in (i - Confirmation + 1)..i : raw[j] = raw[i]

\* Mutants: only the weeks before the last one of the cooldown count, or one week more.
OppositeSoon(last, label, i) ==
    last.at # 0 /\ Direction(label) # last.direction /\ i - last.at < Cooldown

OppositeLate(last, label, i) ==
    last.at # 0 /\ Direction(label) # last.direction /\ i - last.at <= Cooldown + 1

\* `last` is the direction that was shown last, and in which week.
OppositeInsideCooldown(last, label, i) ==
    last.at # 0 /\ Direction(label) # last.direction /\ i - last.at <= Cooldown

\* _stabilize_directional_labels.
Stabilized(raw) ==
    LET Show(sofar, label) ==
          LET i     == Len(sofar.shown) + 1
              shows == Confirmed(raw, i) /\ ~OppositeInsideCooldown(sofar, label, i)
          IN  IF label \notin Directional
              THEN [sofar EXCEPT !.shown = Append(@, label)]
              ELSE IF shows
              THEN [shown |-> Append(sofar.shown, label), direction |-> Direction(label), at |-> i]
              ELSE [sofar EXCEPT !.shown = Append(@, "NEUTRAL")]
    IN  FoldLeft(Show, [shown |-> <<>>, direction |-> "NONE", at |-> 0], raw).shown

Transitions(history) == Stabilized(RawTransitions(history))

TransitionEvent(shown, i) == shown[i] \in Highlighted /\ (i > 1 => shown[i] # shown[i - 1])

-----------------------------------------------------------------------------
\* A label is known from the week on that has the memory behind it.
TypeOK ==
    LET raw == RawTransitions(weeks)
        shown == Transitions(weeks)
    IN  /\ Len(shown) = Len(weeks)
        /\ \A i \in DOMAIN weeks :
             /\ shown[i] = "UNKNOWN" <=> i < Memory
             /\ shown[i] \in {raw[i], "NEUTRAL"}

\* herd_transition_s1.json, opposite_direction_cooldown_weeks: a ticker is never shown
\* to turn round within the cooldown, over suppressed and unconfirmed labels as well.
NoOppositeInCooldown ==
    LET shown == Transitions(weeks)
    IN  \A i, j \in DOMAIN shown :
            i < j /\ shown[i] \in Directional /\ shown[j] \in Directional
                /\ Direction(shown[i]) # Direction(shown[j]) => j - i > Cooldown

\* Events of a ticker are as far apart as a confirmation takes, whatever labels lie
\* between them: one week of another label, or a suppressed one, repeats nothing.
EventsApart ==
    LET shown == Transitions(weeks)
    IN  \A i, j \in DOMAIN shown :
            i < j /\ TransitionEvent(shown, i) /\ TransitionEvent(shown, j)
                => j - i >= Confirmation

\* observation_s1.py: two runs label histories that start in different weeks.  Once the
\* shorter one has its memory and its confirmation, and both have shown no direction for
\* as long as the cooldown is, they show the same labels from then on.
WindowsAgree ==
    LET now == Len(weeks)
        full == Transitions(weeks)
    IN  \A start \in 2..(now - Memory - Confirmation - Cooldown + 2) :
          LET window == Transitions(SubSeq(weeks, start, now))
              \* the label of a week in the shorter history
              In(i)    == window[i - start + 1]
              Quiet(i) == full[i] \notin Directional /\ In(i) \notin Directional
          IN  (\E i \in (start + Memory + Confirmation - 2)..(now - Cooldown) :
                  \A k \in i..(i + Cooldown - 1) : Quiet(k))
              => full[now] = In(now)

=============================================================================
