------------------------------ MODULE EventLedger ------------------------------
(***************************************************************************)
(* The hash-chained ledger of earnings events (herd/append_only_ledger.py)  *)
(* as the weekly job and a run by hand fill it                              *)
(* (herd/sec_earnings_event_ledger_v1.py,                                   *)
(* scheduler/earnings_event_intake.py).                                     *)
(*                                                                          *)
(* A line is one write and one fsync.  A process that dies in it, or a disk  *)
(* that is full, may leave nothing, the line, the line without its end, or   *)
(* a part of it.  A hash stands for what is hashed: the previous hash of a   *)
(* line is the payloads before it, as the writer knew them.                 *)
(***************************************************************************)
EXTENDS Naturals, FiniteSets, Sequences, SequencesExt

CONSTANTS Writers,    \* processes that collect events
          Events,     \* identities of events, numbers in the order they are written
          Versions,   \* what the source may say of one
          Nobody,
          MaxCrashes  \* bound on processes that die

VARIABLES source,      \* what the source says of the events it has
          file, lock,
          at,          \* where a writer is
          candidates,  \* what it still has to append
          known,       \* the payloads of the file, as it knows them
          answered,    \* the events a call said are in the ledger
          damaged,     \* a crash left a line without its end
          crashes

vars == <<source, file, lock, at, candidates, known, answered, damaged, crashes>>

\* Finitely many events, and no writer is Nobody.
IntakeAssumption == IsFiniteSet(Events) /\ MaxCrashes \in Nat /\ Nobody \notin Writers

Payload == [event : Events, version : Versions]

\* A line is as it was written, or lacks its end, or a part of it.
Texts == {"whole", "open", "cut"}

Line == [sequence : Nat, previous : Seq(Payload), payload : Payload, text : Texts]

Payloads(lines) == [i \in DOMAIN lines |-> lines[i].payload]

\* read_ledger: every line parses, counts on and continues the chain.
Readable(lines) ==
    \A i \in DOMAIN lines :
        /\ lines[i].text # "cut"
        /\ lines[i].sequence = i
        /\ lines[i].previous = [j \in 1..(i - 1) |-> lines[j].payload]

\* What is written after a line without its end becomes part of it, and no JSON.
Written(lines, line) ==
    IF lines # <<>> /\ Last(lines).text # "whole"
    THEN [lines EXCEPT ![Len(lines)].text = "cut"]
    ELSE Append(lines, line)

\* The envelope of a payload after those that are known.
Envelope(payloads, payload, text) ==
    [sequence |-> Len(payloads) + 1, previous |-> payloads, payload |-> payload, text |-> text]

-----------------------------------------------------------------------------
Init ==
    /\ source = <<>>
    /\ file = <<>> /\ lock = Nobody
    /\ at = [w \in Writers |-> "idle"]
    /\ candidates = [w \in Writers |-> <<>>]
    /\ known = [w \in Writers |-> <<>>]
    /\ answered = {} /\ damaged = FALSE /\ crashes = 0

\* An event is disclosed, or the source corrects what it says of one.
Disclose(event, version) ==
    /\ source' = [e \in DOMAIN source \union {event} |-> IF e = event THEN version ELSE source[e]]
    /\ UNCHANGED <<file, lock, at, candidates, known, answered, damaged, crashes>>

\* Some disclosed events, in the order they are written.
Scans ==
    {order \in SeqOf(DOMAIN source, Cardinality(Events)) :
        \A i, j \in DOMAIN order : i < j => order[i] < order[j]}

\* collect_events: what the source says of the events of some issuers.
Collect(w, order) ==
    /\ at[w] = "idle"
    /\ at' = [at EXCEPT ![w] = "collected"]
    /\ candidates' = [candidates EXCEPT ![w] =
           [i \in DOMAIN order |-> [event |-> order[i], version |-> source[order[i]]]]]
    /\ UNCHANGED <<source, file, lock, known, answered, damaged, crashes>>

\* The lock is free when the call is over or its process gone.
Leave(w) ==
    /\ lock' = IF lock = w THEN Nobody ELSE lock
    /\ at' = [at EXCEPT ![w] = "idle"]
    /\ candidates' = [candidates EXCEPT ![w] = <<>>]
    /\ known' = [known EXCEPT ![w] = <<>>]

\* Mutant: the lock is not taken.
ReadUnlocked(w) ==
    /\ at[w] = "collected" /\ Readable(file)
    /\ at' = [at EXCEPT ![w] = "appending"]
    /\ known' = [known EXCEPT ![w] = Payloads(file)]
    /\ UNCHANGED <<source, file, lock, candidates, answered, damaged, crashes>>

\* append_unique takes the lock and reads; a file that cannot be read ends the call.
Read(w) ==
    /\ at[w] = "collected" /\ lock = Nobody
    /\ IF Readable(file)
       THEN /\ lock' = w
            /\ at' = [at EXCEPT ![w] = "appending"]
            /\ known' = [known EXCEPT ![w] = Payloads(file)]
            /\ UNCHANGED candidates
       ELSE Leave(w)
    /\ UNCHANGED <<source, file, answered, damaged, crashes>>

IsKnown(w, payload) == \E i \in DOMAIN known[w] : known[w][i].event = payload.event

\* A payload with a known identity is skipped if it is the same, ...
Skip(w) ==
    /\ at[w] = "appending" /\ candidates[w] # <<>>
    /\ Head(candidates[w]) \in ToSet(known[w])
    /\ candidates' = [candidates EXCEPT ![w] = Tail(@)]
    /\ UNCHANGED <<source, file, lock, at, known, answered, damaged, crashes>>

\* ... ends the call if it is not, ...
Refuse(w) ==
    /\ at[w] = "appending" /\ candidates[w] # <<>>
    /\ IsKnown(w, Head(candidates[w])) /\ Head(candidates[w]) \notin ToSet(known[w])
    /\ Leave(w)
    /\ UNCHANGED <<source, file, answered, damaged, crashes>>

\* ... and is written if its identity is new.
AppendLine(w) ==
    /\ at[w] = "appending" /\ candidates[w] # <<>>
    /\ ~IsKnown(w, Head(candidates[w]))
    /\ file' = Written(file, Envelope(known[w], Head(candidates[w]), "whole"))
    /\ known' = [known EXCEPT ![w] = Append(@, Head(candidates[w]))]
    /\ candidates' = [candidates EXCEPT ![w] = Tail(@)]
    /\ UNCHANGED <<source, lock, at, answered, damaged, crashes>>

\* The call answers with the number of events that are in the ledger now.
Answer(w) ==
    /\ at[w] = "appending" /\ candidates[w] = <<>>
    /\ answered' = answered \union ToSet(known[w])
    /\ Leave(w)
    /\ UNCHANGED <<source, file, damaged, crashes>>

\* The process dies before it writes, ...
Die(w) ==
    /\ at[w] # "idle" /\ crashes < MaxCrashes
    /\ crashes' = crashes + 1
    /\ Leave(w)
    /\ UNCHANGED <<source, file, answered, damaged>>

\* ... or in its write, or the write fails: a part of the line may be there, or all.
Tear(w, text) ==
    /\ at[w] = "appending" /\ candidates[w] # <<>> /\ crashes < MaxCrashes
    /\ ~IsKnown(w, Head(candidates[w]))
    /\ file' = Written(file, Envelope(known[w], Head(candidates[w]), text))
    /\ damaged' = (damaged \/ text # "whole")
    /\ crashes' = crashes + 1
    /\ Leave(w)
    /\ UNCHANGED <<source, answered>>

Next ==
    \/ \E event \in Events, version \in Versions : Disclose(event, version)
    \/ \E w \in Writers :
          \/ \E order \in Scans : Collect(w, order)
          \/ Read(w) \/ Skip(w) \/ Refuse(w) \/ AppendLine(w) \/ Answer(w) \/ Die(w)
          \/ \E text \in Texts : Tear(w, text)

Spec == Init /\ [][Next]_vars

-----------------------------------------------------------------------------
TypeOK ==
    /\ DOMAIN source \subseteq Events /\ \A e \in DOMAIN source : source[e] \in Versions
    /\ file \in Seq(Line)
    /\ lock \in Writers \union {Nobody}
    /\ at \in [Writers -> {"idle", "collected", "appending"}]
    /\ candidates \in [Writers -> Seq(Payload)]
    /\ known \in [Writers -> Seq(Payload)]
    /\ answered \subseteq Payload
    /\ damaged \in BOOLEAN /\ crashes \in 0..MaxCrashes

EventsAreUnique ==
    \A i, j \in DOMAIN file : file[i].payload.event = file[j].payload.event => i = j

\* The chain breaks only after a crash in a line, whatever the writers do at once; and a
\* reader who gets an answer gets every event a call ever said is in the ledger, each
\* once.
EventsAreKept ==
    /\ ~damaged => Readable(file)
    /\ Readable(file) => answered \subseteq ToSet(Payloads(file)) /\ EventsAreUnique

\* An event a call said is in the ledger can be read: violated, since a line that
\* follows one without its end makes both unreadable, though its call succeeds.
AnsweredIsReadable == answered # {} => Readable(file)

=============================================================================
