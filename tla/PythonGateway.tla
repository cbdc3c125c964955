---------------------------- MODULE PythonGateway ----------------------------
(***************************************************************************)
(* PythonProcessGateway of the back end: a call takes one of the semaphore's *)
(* permits or is refused after a second, starts a process, waits for it at   *)
(* most its timeout, and gives the permit back on every way out.  A process  *)
(* that is killed may live on for a while, a restart of the server leaves    *)
(* running processes behind, and their callers are gone.                     *)
(***************************************************************************)
EXTENDS Naturals, FiniteSets

CONSTANTS Callers,        \* threads that call the gateway
          Interruptible,  \* those that a shutdown of their executor interrupts
          Pids,           \* bound: processes that live at the same time
          MaxProcesses,   \* MAX_CONCURRENT_PROCESSES
          NoPid           \* no process

\* What the modules that use this one assume of the constants.
GatewayAssumption ==
    /\ IsFiniteSet(Callers)
    /\ Interruptible \subseteq Callers
    /\ MaxProcesses \in Nat
    /\ NoPid \notin Pids

VARIABLES permits,  \* permits of the semaphore
          call,     \* the phase of each caller's call
          pid,      \* the process a call waits for
          process   \* the processes of the host

vars == <<permits, call, pid, process>>

Phases == {"idle", "asking", "inside", "waiting", "killing"}

\* "exited" and "failed": ended, with exit code 0 and another one.  "doomed": sent
\* the kill signal.
ProcessStates == {"free", "running", "doomed", "exited", "failed"}

\* The callers that took a permit and have not given it back.
Holders == {c \in Callers : call[c] \in {"inside", "waiting", "killing"}}

Init ==
    /\ permits = MaxProcesses
    /\ call = [c \in Callers |-> "idle"]
    /\ pid = [c \in Callers |-> NoPid]
    /\ process = [p \in Pids |-> "free"]

-----------------------------------------------------------------------------
Ask(c) ==
    /\ call[c] = "idle"
    /\ call' = [call EXCEPT ![c] = "asking"]
    /\ UNCHANGED <<permits, pid, process>>

Acquire(c) ==
    /\ call[c] = "asking"
    /\ permits > 0
    /\ permits' = permits - 1
    /\ call' = [call EXCEPT ![c] = "inside"]
    /\ UNCHANGED <<pid, process>>

\* The second is over, or the thread is interrupted: no permit to give back.
TurnAway(c) ==
    /\ call' = [call EXCEPT ![c] = "idle"]
    /\ UNCHANGED <<permits, pid, process>>

Release(c) ==
    /\ permits' = permits + 1
    /\ call' = [call EXCEPT ![c] = "idle"]
    /\ pid' = [pid EXCEPT ![c] = NoPid]

\* Mutant: the finally that gives the permit back covers the wait for it too.
RefuseReleasing(c) ==
    /\ call[c] = "asking"
    /\ permits = 0
    /\ Release(c)
    /\ UNCHANGED process

Refuse(c) ==
    /\ call[c] = "asking"
    /\ permits = 0
    /\ TurnAway(c)

\* No project root, no interpreter, or the process cannot be started.
NotStarted(c) ==
    /\ call[c] = "inside"
    /\ Release(c)
    /\ UNCHANGED process

Start(c, p) ==
    /\ call[c] = "inside"
    /\ process[p] = "free"
    /\ call' = [call EXCEPT ![c] = "waiting"]
    /\ pid' = [pid EXCEPT ![c] = p]
    /\ process' = [process EXCEPT ![p] = "running"]
    /\ UNCHANGED permits

\* A process its caller is done with: killed if it has not ended.
Left(p) == [process EXCEPT ![p] = IF @ \in {"exited", "failed"} THEN "free" ELSE "doomed"]

\* The process has ended in time.  The call fails on its exit code, and on blank,
\* unreadable or too long output too.
Receive(c) ==
    /\ call[c] = "waiting"
    /\ process[pid[c]] = "exited"
    /\ process' = Left(pid[c])
    /\ Release(c)

Fail(c) ==
    /\ call[c] = "waiting"
    /\ process[pid[c]] \in {"exited", "failed"}
    /\ process' = Left(pid[c])
    /\ Release(c)

TimeOut(c) ==
    /\ call[c] = "waiting"
    /\ process[pid[c]] = "running"
    /\ call' = [call EXCEPT ![c] = "killing"]
    /\ process' = Left(pid[c])
    /\ UNCHANGED <<permits, pid>>

\* Mutant: a killed process is waited for without a limit.
GiveUpWhenDead(c) ==
    /\ call[c] = "killing"
    /\ process[pid[c]] = "failed"
    /\ process' = Left(pid[c])
    /\ Release(c)

\* The process has died, or two seconds are over and it has not.
GiveUp(c) ==
    /\ call[c] = "killing"
    /\ process' = Left(pid[c])
    /\ Release(c)

\* Mutant: the permit is given back however the call ends.
InterruptReleasing(c) ==
    /\ c \in Interruptible
    /\ \/ /\ call[c] = "asking"
          /\ Release(c)
          /\ UNCHANGED process
       \/ /\ call[c] \in {"waiting", "killing"}
          /\ process' = Left(pid[c])
          /\ Release(c)

\* The executor of the thread is shut down.
Interrupt(c) ==
    /\ c \in Interruptible
    /\ \/ /\ call[c] = "asking"
          /\ TurnAway(c)
       \/ /\ call[c] \in {"waiting", "killing"}
          /\ process' = Left(pid[c])
          /\ Release(c)

\* Processes that nobody waits for are reaped by the host.
Waited(p) == \E c \in Callers : pid[c] = p

End(p, state) ==
    /\ process[p] = "running"
    /\ process' = [process EXCEPT ![p] = IF Waited(p) THEN state ELSE "free"]
    /\ UNCHANGED <<permits, call, pid>>

\* The kill signal takes effect.
Die(p) ==
    /\ process[p] = "doomed"
    /\ process' = [process EXCEPT ![p] = IF Waited(p) THEN "failed" ELSE "free"]
    /\ UNCHANGED <<permits, call, pid>>

\* The server ends and starts again; running processes stay behind.
Restart ==
    /\ permits' = MaxProcesses
    /\ call' = [c \in Callers |-> "idle"]
    /\ pid' = [c \in Callers |-> NoPid]
    /\ process' = [p \in Pids |->
                     IF process[p] \in {"exited", "failed"} THEN "free" ELSE process[p]]

-----------------------------------------------------------------------------
\* What a call does once it has been made.
CallStep(c) ==
    \/ Acquire(c) \/ Refuse(c)
    \/ NotStarted(c) \/ \E p \in Pids : Start(c, p)
    \/ Receive(c) \/ Fail(c) \/ TimeOut(c) \/ GiveUp(c)

Next ==
    \/ \E c \in Callers : Ask(c) \/ CallStep(c) \/ Interrupt(c)
    \/ \E p \in Pids : End(p, "exited") \/ End(p, "failed") \/ Die(p)
    \/ Restart

Spec == Init /\ [][Next]_vars

-----------------------------------------------------------------------------
TypeOK ==
    /\ permits \in Nat
    /\ call \in [Callers -> Phases]
    /\ pid \in [Callers -> Pids \cup {NoPid}]
    /\ process \in [Pids -> ProcessStates]

\* The semaphore counts what is there: whichever way calls end, by a result, an
\* error, a timeout or an interrupt, permits are neither lost nor given back twice.
PermitsConserved == permits + Cardinality(Holders) = MaxProcesses

\* A call waits for a process of its own, and a process that runs in a call's
\* name is waited for: nobody reads the exit code of another's process.
OwnProcess ==
    /\ \A c \in Callers : call[c] \in {"waiting", "killing"} <=> pid[c] # NoPid
    /\ \A c, d \in Callers : pid[c] = pid[d] /\ pid[c] # NoPid => c = d

\* Processes that run and have not been sent the kill signal are at most the
\* number of permits, but for those a restart of the server left behind.
RunningBounded ==
    Cardinality({p \in Pids : process[p] = "running" /\ Waited(p)}) <= MaxProcesses

\* The gateway is a pool of permits.
Pool == INSTANCE CallPool WITH Size <- MaxProcesses, inside <- Holders

PoolSpec == Pool!Spec

=============================================================================
