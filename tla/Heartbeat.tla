------------------------------ MODULE Heartbeat ------------------------------
(***************************************************************************)
(* The scheduler daemon's sign of life.  It writes a file when it starts,   *)
(* every minute while it serves, and when it stops; the back end reads from *)
(* the file's age whether the daemon lives.  A write fills a temporary file *)
(* that all writers share and renames it; at the end the last pulse may     *)
(* still be in its thread while the main thread writes that it stopped.     *)
(***************************************************************************)
EXTENDS Naturals

CONSTANTS MaxAge,  \* MAX_HEARTBEAT_AGE_SECONDS, in minutes
          Nothing  \* no file, no content

Writers == {"main", "pulse"}

\* Bound: the file, the temporary one, and one that is only open.
Inodes == 1..3

VARIABLES stage,    \* of the daemon
          downFor,  \* minutes since the process ended
          missed,   \* pulses missed since the last that was written
          due,      \* the pulse of this minute is still to come
          step,     \* of each writer: "idle", "stamped", "opened" or "written"
          open,     \* the file a writer has open
          stamp,    \* what it is to write
          named,    \* the files with the two names
          content   \* of each file

vars == <<stage, downFor, missed, due, step, open, stamp, named, content>>

\* The limit of the age is a number, and Nothing is no content.
HeartbeatAssumption == MaxAge \in Nat /\ Nothing \notin [status : {"RUNNING", "STOPPED"}, age : Nat]

Stages == {"down", "starting", "catching up", "serving", "stopping"}

Stamp(status) == [status |-> status, age |-> 0]

\* Counts of minutes are told apart up to one past the limit.
Counted(n) == IF n > MaxAge THEN n ELSE n + 1

Older(s) == IF s = Nothing THEN Nothing ELSE [s EXCEPT !.age = Counted(@)]

Init ==
    /\ stage = "down"
    /\ downFor = 0
    /\ missed = 0
    /\ due = FALSE
    /\ step = [w \in Writers |-> "idle"]
    /\ open = [w \in Writers |-> 0]
    /\ stamp = [w \in Writers |-> Nothing]
    /\ named = [path |-> 0, temporary |-> 0]
    /\ content = [i \in Inodes |-> Nothing]

-----------------------------------------------------------------------------
(* _write.                                                                  *)

\* The time is taken.
Begin(w, status) ==
    /\ step[w] = "idle"
    /\ step' = [step EXCEPT ![w] = "stamped"]
    /\ stamp' = [stamp EXCEPT ![w] = Stamp(status)]

Unused == Inodes \ ({named.path, named.temporary} \cup {open[w] : w \in Writers})

\* write_text opens the temporary file: an old one is emptied.
Open(w) ==
    /\ step[w] = "stamped"
    /\ \E i \in IF named.temporary = 0 THEN Unused ELSE {named.temporary} :
         /\ open' = [open EXCEPT ![w] = i]
         /\ named' = [named EXCEPT !.temporary = i]
         /\ content' = [content EXCEPT ![i] = Nothing]
    /\ step' = [step EXCEPT ![w] = "opened"]
    /\ UNCHANGED <<stage, downFor, missed, due, stamp>>

\* All stamps have the same length, so that the later of two covers the earlier.
Fill(w) ==
    /\ step[w] = "opened"
    /\ content' = [content EXCEPT ![open[w]] = stamp[w]]
    /\ open' = [open EXCEPT ![w] = 0]
    /\ step' = [step EXCEPT ![w] = "written"]
    /\ UNCHANGED <<stage, downFor, missed, due, stamp, named>>

Done(w) ==
    /\ step' = [step EXCEPT ![w] = "idle"]
    /\ stamp' = [stamp EXCEPT ![w] = Nothing]

\* What follows the main thread's write.
After == CASE stage = "starting" -> "catching up" [] stage = "stopping" -> "down" [] OTHER -> stage

\* os.replace, which fails when the other writer has renamed the file already: a
\* pulse's failure is logged, the main thread's ends it.
Replace(w) ==
    /\ step[w] = "written"
    /\ named' = IF named.temporary = 0 THEN named
                ELSE [path |-> named.temporary, temporary |-> 0]
    /\ Done(w)
    /\ stage' = IF w = "main" THEN After ELSE stage
    /\ missed' = IF w = "pulse" THEN 0 ELSE missed
    /\ UNCHANGED <<downFor, due, open, content>>

-----------------------------------------------------------------------------
(* The daemon.                                                              *)

Ended == stage = "down" /\ \A w \in Writers : step[w] = "idle"

Start ==
    /\ Ended
    /\ stage' = "starting"
    /\ downFor' = 0
    /\ Begin("main", "RUNNING")
    /\ UNCHANGED <<missed, due, open, named, content>>

\* The catch-up is over; the interval's first pulse comes after a minute.
Serve ==
    /\ stage = "catching up"
    /\ stage' = "serving"
    /\ missed' = MaxAge + 1
    /\ UNCHANGED <<downFor, due, step, open, stamp, named, content>>

Pulse ==
    /\ stage = "serving"
    /\ due
    /\ due' = FALSE
    /\ Begin("pulse", "RUNNING")
    /\ UNCHANGED <<stage, downFor, missed, open, named, content>>

\* More than the scheduler's grace of a second late.
Miss ==
    /\ stage = "serving"
    /\ due
    /\ due' = FALSE
    /\ missed' = Counted(missed)
    /\ UNCHANGED <<stage, downFor, step, open, stamp, named, content>>

\* Interrupted from the keyboard: the scheduler does not wait for a pulse.
Stop ==
    /\ stage = "serving"
    /\ stage' = "stopping"
    /\ due' = FALSE
    /\ Begin("main", "STOPPED")
    /\ UNCHANGED <<downFor, missed, open, named, content>>

\* The process is killed; a catch-up that is interrupted ends like this, too.
Kill ==
    /\ ~Ended
    /\ stage' = "down"
    /\ due' = FALSE
    /\ step' = [w \in Writers |-> "idle"]
    /\ open' = [w \in Writers |-> 0]
    /\ stamp' = [w \in Writers |-> Nothing]
    /\ UNCHANGED <<downFor, missed, named, content>>

\* A minute passes.  A write lasts less than one: a pulse that has begun is over
\* before the next is due.
Minute ==
    /\ ~due
    /\ \A w \in Writers : step[w] = "idle"
    /\ due' = (stage = "serving")
    /\ downFor' = IF Ended THEN Counted(downFor) ELSE downFor
    /\ content' = [i \in Inodes |-> Older(content[i])]
    /\ UNCHANGED <<stage, missed, step, open, stamp, named>>

Next ==
    \/ Start \/ Serve \/ Pulse \/ Miss \/ Stop \/ Kill \/ Minute
    \/ \E w \in Writers : Open(w) \/ Fill(w) \/ Replace(w)

Spec == Init /\ [][Next]_vars

-----------------------------------------------------------------------------
(* SchedulerHeartbeatService.getStatus.                                     *)

\* Mutant: any age will do.
RunningForever(s) == s.status = "RUNNING"

Running(s) == s.status = "RUNNING" /\ s.age <= MaxAge

GetStatus ==
    IF named.path = 0 THEN "UNAVAILABLE"
    ELSE LET s == content[named.path]
         IN  CASE s = Nothing           -> "INVALID"
               [] s # Nothing /\ Running(s) -> "RUNNING"
               [] s # Nothing /\ ~Running(s) -> IF s.status = "STOPPED" THEN "STOPPED" ELSE "STALE"

-----------------------------------------------------------------------------
\* A file has one name, and only a writer that fills it has it open.
TypeOK ==
    /\ stage \in Stages
    /\ named.path \in Inodes \cup {0} /\ named.temporary \in Inodes \cup {0}
    /\ named.path # 0 => named.path # named.temporary
    /\ \A w \in Writers : step[w] = "opened" <=> open[w] # 0
    /\ downFor \in 0..(MaxAge + 1) /\ missed \in 0..(MaxAge + 1)

\* SchedulerHeartbeatService: a daemon that has been down for longer than the limit,
\* killed or stopped at any point of its writes, is not shown as running, though a
\* pulse may have been the last to write.
DeadIsNoticed == downFor > MaxAge => GetStatus # "RUNNING"

\* SchedulerHeartbeat, SchedulerHeartbeatService: a daemon that serves and has been
\* heard is shown as running as long as fewer pulses than the limit are missed in a
\* row, whatever files earlier processes left: its own writes are never seen half
\* done.
PulsesShow == stage = "serving" /\ missed < MaxAge => GetStatus = "RUNNING"

\* heartbeat.py:1: the file is written atomically, so that a reader never finds it
\* empty.
NeverTorn == GetStatus # "INVALID"

=============================================================================
