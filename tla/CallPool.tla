------------------------------ MODULE CallPool ------------------------------
(***************************************************************************)
(* What a pool of permits promises its callers: never more than Size of     *)
(* them are inside, whoever comes and however they leave.  When the server  *)
(* restarts, nobody is inside.                                              *)
(***************************************************************************)
EXTENDS Naturals, FiniteSets

CONSTANTS Callers,  \* threads that may call
          Size      \* the number of permits

VARIABLE inside  \* the callers inside

Init == inside = {}

Enter(c) ==
    /\ c \notin inside
    /\ Cardinality(inside) < Size
    /\ inside' = inside \cup {c}

Leave(c) ==
    /\ c \in inside
    /\ inside' = inside \ {c}

Restart == inside' = {}

Next ==
    \/ \E c \in Callers : Enter(c) \/ Leave(c)
    \/ Restart

Spec == Init /\ [][Next]_inside

=============================================================================
