--------------------------- MODULE OperationsProofs ---------------------------
(***************************************************************************)
(* The gateway under any threads, processes and permits: however calls end  *)
(* and the server restarts, permits are conserved, and the gateway is a pool *)
(* of permits.  What all threads and processes of Operations do to it are    *)
(* steps of the gateway, so that holds of them, and the invariants of        *)
(* requests, runs and stored answers follow.                                 *)
(***************************************************************************)
EXTENDS Operations, FiniteSetTheorems, TLAPS

\* The threads are finitely many, and one of them is the executor's.
LEMMA CallersFit ==
    IsFiniteSet(Callers) /\ MaxProcesses \in Nat /\ Nothing \notin Pids
  BY OperationsAssumption DEF OperationsAssumption, G!GatewayAssumption, G!IsFiniteSet, IsFiniteSet

\* The gateway counts as this module does.
LEMMA CountIs == \A S : G!Cardinality(S) = Cardinality(S)
  BY DEF G!Cardinality, Cardinality

-----------------------------------------------------------------------------
(* Callers who come and go                                                  *)

\* The callers with a permit are finitely many, and a phase other than theirs holds none.
LEMMA HoldersFinite == IsFiniteSet(G!Holders) /\ Cardinality(G!Holders) \in Nat
<1>1. IsFiniteSet(G!Holders)
  BY FS_Subset, CallersFit DEF G!Holders
<1> QED
  BY <1>1, FS_CardinalityType

\* A caller whose phase changes from one without a permit to one with it is added to
\* the holders; the other way round it is removed; else they stay the same.
LEMMA PhaseChange ==
    ASSUME G!TypeOK, NEW c \in Callers, NEW phase \in G!Phases,
           call' = [call EXCEPT ![c] = phase]
    PROVE  /\ phase \in {"inside", "waiting", "killing"} => G!Holders' = G!Holders \cup {c}
           /\ phase \in {"idle", "asking"} => G!Holders' = G!Holders \ {c}
  BY DEF G!TypeOK, G!Holders

\* A permit taken by a caller who had none, and one given back by a caller who had one.
LEMMA OneMoreOneLess ==
    ASSUME NEW c
    PROVE  /\ c \notin G!Holders => Cardinality(G!Holders \cup {c}) = Cardinality(G!Holders) + 1
           /\ c \in G!Holders => Cardinality(G!Holders \ {c}) = Cardinality(G!Holders) - 1
  BY HoldersFinite, FS_AddElement, FS_RemoveElement

-----------------------------------------------------------------------------
(* Steps                                                                    *)

\* The kinds of steps: of a call on its way in, of a caller who takes a permit, who
\* keeps what he has, who gives his permit back, of processes, and the restart.
Waits(c) ==
    /\ c \notin G!Holders
    /\ \E phase \in {"idle", "asking"} : call' = [call EXCEPT ![c] = phase]
    /\ UNCHANGED <<permits, pid, process>>

Enters(c) ==
    /\ c \notin G!Holders
    /\ permits > 0
    /\ permits' = permits - 1
    /\ call' = [call EXCEPT ![c] = "inside"]
    /\ UNCHANGED <<pid, process>>

Stays(c) ==
    /\ c \in G!Holders
    /\ \E phase \in {"waiting", "killing"} : call' = [call EXCEPT ![c] = phase]
    /\ permits' = permits
    /\ pid' \in [Callers -> Pids \cup {Nothing}]
    /\ process' \in [Pids -> G!ProcessStates]

Leaves(c) ==
    /\ c \in G!Holders
    /\ G!Release(c)
    /\ process' \in [Pids -> G!ProcessStates]

HostStep ==
    /\ process' \in [Pids -> G!ProcessStates]
    /\ UNCHANGED <<permits, call, pid>>

\* A process its caller is done with is in one of the states of a process.
LEMMA LeftType ==
    ASSUME G!TypeOK, NEW p
    PROVE  G!Left(p) \in [Pids -> G!ProcessStates]
  BY DEF G!TypeOK, G!Left, G!ProcessStates

\* Every step is of one of these kinds.
LEMMA StepKinds ==
    ASSUME G!TypeOK, G!Next
    PROVE  \/ \E c \in Callers : Waits(c) \/ Enters(c) \/ Stays(c) \/ Leaves(c)
           \/ HostStep
           \/ G!Restart
<1>1. ASSUME NEW c \in Callers, G!Ask(c) PROVE Waits(c)
  BY <1>1 DEF G!Ask, Waits, G!Holders
<1>2. ASSUME NEW c \in Callers, G!CallStep(c) \/ G!Interrupt(c)
      PROVE  Waits(c) \/ Enters(c) \/ Stays(c) \/ Leaves(c)
  <2>1. CASE G!Acquire(c)
    BY <2>1 DEF G!Acquire, Enters, G!Holders
  <2>2. CASE G!Refuse(c)
    BY <2>2 DEF G!Refuse, G!TurnAway, Waits, G!Holders
  <2>3. CASE G!NotStarted(c)
    BY <2>3 DEF G!NotStarted, Leaves, G!Holders, G!TypeOK
  <2>4. ASSUME NEW p \in Pids, G!Start(c, p) PROVE Stays(c)
    BY <2>4 DEF G!Start, Stays, G!Holders, G!TypeOK, G!ProcessStates
  <2>5. CASE G!Receive(c) \/ G!Fail(c) \/ G!GiveUp(c)
    BY <2>5, LeftType DEF G!Receive, G!Fail, G!GiveUp, Leaves, G!Holders
  <2>6. CASE G!TimeOut(c)
    BY <2>6, LeftType DEF G!TimeOut, Stays, G!Holders, G!TypeOK
  <2>7. CASE G!Interrupt(c)
    BY <2>7, LeftType DEF G!Interrupt, G!TurnAway, Waits, Leaves, G!Holders
  <2> QED
    BY <1>2, <2>1, <2>2, <2>3, <2>4, <2>5, <2>6, <2>7 DEF G!CallStep
<1>3. ASSUME NEW p \in Pids, G!End(p, "exited") \/ G!End(p, "failed") \/ G!Die(p)
      PROVE  HostStep
  BY <1>3 DEF G!End, G!Die, HostStep, G!TypeOK, G!ProcessStates
<1> QED
  BY <1>1, <1>2, <1>3 DEF G!Next

\* A caller on its way in and one who keeps what he has change nothing of who holds one.
LEMMA KeepsHolders ==
    ASSUME G!TypeOK, NEW c \in Callers, Waits(c) \/ Stays(c)
    PROVE  G!Holders' = G!Holders
<1>1. CASE Waits(c)
  <2>1. G!Holders' = G!Holders \ {c}
    BY <1>1, PhaseChange DEF Waits, G!Phases
  <2> QED
    BY <1>1, <2>1 DEF Waits
<1>2. CASE Stays(c)
  <2>1. G!Holders' = G!Holders \cup {c}
    BY <1>2, PhaseChange DEF Stays, G!Phases
  <2> QED
    BY <1>2, <2>1 DEF Stays
<1> QED
  BY <1>1, <1>2

-----------------------------------------------------------------------------
(* The invariants                                                           *)

Conserved == permits + Cardinality(G!Holders) = MaxProcesses

PermitInv == G!TypeOK /\ Conserved

\* All permits are there at first.
LEMMA InitInvariant ==
    ASSUME G!Init
    PROVE  PermitInv
<1>1. G!TypeOK
  BY CallersFit DEF G!Init, G!TypeOK, G!Phases, G!ProcessStates
<1>2. G!Holders = {}
  BY DEF G!Init, G!Holders
<1>3. Conserved
  BY <1>2, FS_EmptySet, CallersFit DEF G!Init, Conserved
<1> QED
  BY <1>1, <1>3 DEF PermitInv

\* No kind of step changes the sum of the permits that are there and that are held.
LEMMA NextInvariant ==
    ASSUME PermitInv, [G!Next]_G!vars
    PROVE  PermitInv'
<1> USE DEF PermitInv
<1>1. ASSUME NEW c \in Callers, Waits(c) PROVE PermitInv'
  <2>1. G!TypeOK'
    BY <1>1 DEF Waits, G!TypeOK, G!Phases
  <2>2. G!Holders' = G!Holders
    BY <1>1, KeepsHolders
  <2> QED
    BY <1>1, <2>1, <2>2 DEF Waits, Conserved
<1>2. ASSUME NEW c \in Callers, Enters(c) PROVE PermitInv'
  <2>1. G!TypeOK'
    BY <1>2 DEF Enters, G!TypeOK, G!Phases
  <2>2. G!Holders' = G!Holders \cup {c}
    BY <1>2, PhaseChange DEF Enters, G!Phases
  <2>3. Cardinality(G!Holders') = Cardinality(G!Holders) + 1
    BY <1>2, <2>2, OneMoreOneLess DEF Enters
  <2> QED
    BY <1>2, <2>1, <2>3, HoldersFinite DEF Enters, G!TypeOK, Conserved
<1>3. ASSUME NEW c \in Callers, Stays(c) PROVE PermitInv'
  <2>1. G!TypeOK'
    BY <1>3 DEF Stays, G!TypeOK, G!Phases
  <2>2. G!Holders' = G!Holders
    BY <1>3, KeepsHolders
  <2> QED
    BY <1>3, <2>1, <2>2 DEF Stays, Conserved
<1>4. ASSUME NEW c \in Callers, Leaves(c) PROVE PermitInv'
  <2>1. G!TypeOK'
    BY <1>4 DEF Leaves, G!Release, G!TypeOK, G!Phases
  <2>2. G!Holders' = G!Holders \ {c}
    BY <1>4, PhaseChange DEF Leaves, G!Release, G!Phases
  <2>3. Cardinality(G!Holders') = Cardinality(G!Holders) - 1
    BY <1>4, <2>2, OneMoreOneLess DEF Leaves
  <2> QED
    BY <1>4, <2>1, <2>3, HoldersFinite DEF Leaves, G!Release, G!TypeOK, Conserved
<1>5. CASE HostStep
  BY <1>5 DEF HostStep, G!TypeOK, G!Holders, Conserved
<1>6. CASE G!Restart
  <2>1. G!TypeOK'
    BY <1>6, CallersFit DEF G!Restart, G!TypeOK, G!Phases, G!ProcessStates
  <2>2. G!Holders' = {}
    BY <1>6 DEF G!Restart, G!Holders
  <2> QED
    BY <1>6, <2>1, <2>2, FS_EmptySet, CallersFit DEF G!Restart, Conserved
<1>7. CASE UNCHANGED G!vars
  BY <1>7 DEF G!vars, G!TypeOK, G!Holders, Conserved
<1> QED
  BY <1>1, <1>2, <1>3, <1>4, <1>5, <1>6, <1>7, StepKinds

\* The invariant of the permits holds throughout.
LEMMA PermitInvariance == G!Spec => []PermitInv
  BY InitInvariant, NextInvariant, PTL DEF G!Spec

\* PythonProcessGateway: permits, calls and processes have their types.
THEOREM TypeCorrect == G!Spec => []G!TypeOK
<1>1. PermitInv => G!TypeOK
  BY DEF PermitInv
<1> QED
  BY <1>1, PermitInvariance, PTL

\* PythonProcessGateway.execute: for any callers and permits, no way a call ends and
\* no restart loses a permit or gives one back twice.
THEOREM PermitsAreConserved == G!Spec => []PermitsConserved
<1>1. PermitInv => PermitsConserved
  BY CountIs DEF PermitInv, Conserved, PermitsConserved, G!PermitsConserved
<1> QED
  BY <1>1, PermitInvariance, PTL

-----------------------------------------------------------------------------
(* The pool                                                                 *)

\* A step of the gateway is a step of the pool of those with a permit, or none.
LEMMA StepIsPoolStep ==
    ASSUME PermitInv, [G!Next]_G!vars
    PROVE  [G!Pool!Next]_G!Holders
<1> USE DEF PermitInv
<1>1. ASSUME NEW c \in Callers, Waits(c) \/ Stays(c) PROVE G!Holders' = G!Holders
  BY <1>1, KeepsHolders
<1>2. ASSUME NEW c \in Callers, Enters(c) PROVE G!Pool!Enter(c)
  <2>1. G!Holders' = G!Holders \cup {c}
    BY <1>2, PhaseChange DEF Enters, G!Phases
  <2>2. Cardinality(G!Holders) < MaxProcesses
    BY <1>2, HoldersFinite, CallersFit DEF Enters, G!TypeOK, Conserved
  <2> QED
    BY <1>2, <2>1, <2>2 DEF Enters, G!Pool!Enter, G!Pool!Cardinality, Cardinality
<1>3. ASSUME NEW c \in Callers, Leaves(c) PROVE G!Pool!Leave(c)
  BY <1>3, PhaseChange DEF Leaves, G!Release, G!Phases, G!Pool!Leave
<1>4. CASE HostStep \/ UNCHANGED G!vars
  BY <1>4 DEF HostStep, G!vars, G!Holders
<1>5. ASSUME G!Restart PROVE G!Holders' = {}
  BY <1>5 DEF G!Restart, G!Holders
<1> QED
  BY <1>1, <1>2, <1>3, <1>4, <1>5, StepKinds DEF G!Pool!Next, G!Pool!Restart

\* PythonProcessGateway implements a pool of MAX_CONCURRENT_PROCESSES permits.
THEOREM GatewayIsAPool == G!Spec => PermitPool
<1>1. G!Init => G!Pool!Init
  BY DEF G!Init, G!Pool!Init, G!Holders
<1> QED
  BY <1>1, InitInvariant, NextInvariant, StepIsPoolStep, PTL DEF PermitPool, G!Spec, G!PoolSpec, G!Pool!Spec

-----------------------------------------------------------------------------
(* Calls and their processes                                                *)

\* OwnProcess is inductive once a process somebody waits for is known not to be free:
\* the next call takes a free one.
OwnInv ==
    /\ G!TypeOK
    /\ G!OwnProcess
    /\ \A c \in Callers : pid[c] # Nothing => process[pid[c]] # "free"

\* A caller gives its process back, and what becomes of it is no other call's.
LEMMA LeavingKeepsOwn ==
    ASSUME OwnInv, NEW c \in Callers, pid[c] # Nothing,
           G!Release(c), process' = G!Left(pid[c]), G!TypeOK'
    PROVE  OwnInv'
<1>1. \A d \in Callers \ {c} : call'[d] = call[d] /\ pid'[d] = pid[d]
  BY DEF G!Release, OwnInv, G!TypeOK
<1>2. call'[c] = "idle" /\ pid'[c] = Nothing
  BY DEF G!Release, OwnInv, G!TypeOK
<1>3. G!OwnProcess'
  BY <1>1, <1>2 DEF OwnInv, G!OwnProcess
<1>4. ASSUME NEW d \in Callers, pid'[d] # Nothing PROVE process'[pid'[d]] # "free"
  <2>1. d # c /\ pid'[d] = pid[d] /\ pid[d] # pid[c] /\ pid[d] \in Pids
    BY <1>1, <1>2, <1>4 DEF OwnInv, G!OwnProcess, G!TypeOK
  <2>2. process'[pid[d]] = process[pid[d]]
    BY <2>1 DEF G!Left, OwnInv, G!TypeOK
  <2> QED
    BY <1>4, <2>1, <2>2 DEF OwnInv
<1> QED
  BY <1>3, <1>4 DEF OwnInv

\* No step gives a call the process of another one, or leaves it a free one.
LEMMA NextKeepsOwn ==
    ASSUME OwnInv, G!TypeOK', [G!Next]_G!vars
    PROVE  OwnInv'
<1> USE DEF OwnInv
<1>1. ASSUME NEW c \in Callers, NEW phase \in {"idle", "asking", "inside"},
             call[c] \notin {"waiting", "killing"},
             call' = [call EXCEPT ![c] = phase], UNCHANGED <<pid, process>>
      PROVE  OwnInv'
  BY <1>1 DEF G!OwnProcess, G!TypeOK
<1>2. ASSUME NEW c \in Callers, G!Ask(c) \/ G!Acquire(c) \/ G!Refuse(c) PROVE OwnInv'
  BY <1>1, <1>2 DEF G!Ask, G!Acquire, G!Refuse, G!TurnAway
<1>3. ASSUME NEW c \in Callers, G!NotStarted(c) PROVE OwnInv'
  <2>1. pid[c] = Nothing
    BY <1>3 DEF G!NotStarted, G!OwnProcess
  <2>2. pid' = pid
    BY <1>3, <2>1 DEF G!NotStarted, G!Release, G!TypeOK
  <2> QED
    BY <1>1, <1>3, <2>2 DEF G!NotStarted, G!Release
<1>4. ASSUME NEW c \in Callers, NEW p \in Pids, G!Start(c, p) PROVE OwnInv'
  <2>1. /\ \A d \in Callers \ {c} : call'[d] = call[d] /\ pid'[d] = pid[d]
        /\ call'[c] = "waiting" /\ pid'[c] = p /\ p # Nothing
        /\ \A q \in Pids \ {p} : process'[q] = process[q]
        /\ process'[p] = "running" /\ process[p] = "free"
    BY <1>4, CallersFit DEF G!Start, G!TypeOK
  <2>2. \A d \in Callers : pid[d] # p
    BY <2>1
  <2>3. G!OwnProcess'
    BY <2>1, <2>2 DEF G!OwnProcess
  <2>4. ASSUME NEW d \in Callers, pid'[d] # Nothing PROVE process'[pid'[d]] # "free"
    BY <2>1, <2>2, <2>4 DEF G!TypeOK
  <2> QED
    BY <2>3, <2>4
<1>5. ASSUME NEW c \in Callers, G!Receive(c) \/ G!Fail(c) \/ G!GiveUp(c) PROVE OwnInv'
  <2>1. pid[c] # Nothing
    BY <1>5 DEF G!Receive, G!Fail, G!GiveUp, G!OwnProcess
  <2> QED
    BY <1>5, <2>1, LeavingKeepsOwn DEF G!Receive, G!Fail, G!GiveUp
<1>6. ASSUME NEW c \in Callers, G!TimeOut(c) PROVE OwnInv'
  <2>1. G!OwnProcess'
    BY <1>6 DEF G!TimeOut, G!OwnProcess, G!TypeOK
  <2>2. \A q \in Pids : process[q] # "free" => process'[q] # "free"
    BY <1>6 DEF G!TimeOut, G!Left, G!TypeOK
  <2> QED
    BY <1>6, <2>1, <2>2 DEF G!TimeOut, G!TypeOK
<1>7. ASSUME NEW c \in Callers, G!Interrupt(c) PROVE OwnInv'
  <2>1. CASE call[c] = "asking" /\ G!TurnAway(c)
    BY <1>1, <2>1 DEF G!TurnAway
  <2>2. CASE call[c] \in {"waiting", "killing"} /\ process' = G!Left(pid[c]) /\ G!Release(c)
    <3>1. pid[c] # Nothing
      BY <2>2 DEF G!OwnProcess
    <3> QED
      BY <2>2, <3>1, LeavingKeepsOwn
  <2> QED
    BY <1>7, <2>1, <2>2 DEF G!Interrupt
<1>8. ASSUME NEW p \in Pids, G!End(p, "exited") \/ G!End(p, "failed") \/ G!Die(p) PROVE OwnInv'
  <2>1. \A c \in Callers : pid[c] # Nothing => process'[pid[c]] # "free"
    BY <1>8 DEF G!End, G!Die, G!Waited, G!TypeOK
  <2> QED
    BY <1>8, <2>1 DEF G!End, G!Die, G!OwnProcess
<1>9. CASE G!Restart
  BY <1>9 DEF G!Restart, G!OwnProcess
<1>10. CASE UNCHANGED G!vars
  BY <1>10 DEF G!vars, G!OwnProcess, G!TypeOK
<1> QED
  BY <1>2, <1>3, <1>4, <1>5, <1>6, <1>7, <1>8, <1>9, <1>10 DEF G!Next, G!CallStep

\* PythonProcessGateway.run: a call waits for the process it has started and for no
\* other's, which has not been reaped while it waits.
THEOREM CallsHaveTheirProcess == G!Spec => []OwnInv
<1>1. G!Init => OwnInv
  BY InitInvariant DEF PermitInv, G!Init, OwnInv, G!OwnProcess
<1> QED
  BY <1>1, TypeCorrect, NextKeepsOwn, PTL DEF G!Spec

\* PythonProcessGateway: of the processes that run, at most as many as there are permits
\* are waited for; the rest a restart or a caller who gave up has left behind.
THEOREM RunningIsBounded == G!Spec => []G!RunningBounded
<1>1. ASSUME OwnInv, Conserved PROVE G!RunningBounded
  <2> DEFINE waited == {p \in Pids : process[p] = "running" /\ G!Waited(p)}
             caller == [c \in G!Holders |-> pid[c]]
             image  == {caller[c] : c \in G!Holders}
  <2>1. waited \subseteq image
    BY <1>1, CallersFit DEF OwnInv, G!OwnProcess, G!Waited, G!Holders
  <2>2. IsFiniteSet(image) /\ Cardinality(image) <= Cardinality(G!Holders)
    <3>1. caller \in Surjection(G!Holders, image)
      BY DEF Surjection
    <3> QED
      BY <3>1, HoldersFinite, FS_Surjection
  <2>3. Cardinality(waited) <= Cardinality(image) /\ Cardinality(waited) \in Nat /\ Cardinality(image) \in Nat
    BY <2>1, <2>2, FS_Subset, FS_CardinalityType
  <2>4. Cardinality(G!Holders) <= MaxProcesses
    BY <1>1, HoldersFinite, CallersFit DEF OwnInv, G!TypeOK, Conserved
  <2> QED
    BY <2>2, <2>3, <2>4, HoldersFinite, CallersFit, CountIs DEF G!RunningBounded
<1>2. PermitInv => Conserved
  BY DEF PermitInv
<1> QED
  BY <1>1, <1>2, CallsHaveTheirProcess, PermitInvariance, PTL

-----------------------------------------------------------------------------
(* The operations are steps of the gateway                                  *)

\* A step of a thread's call.
LEMMA GatewaySteps ==
    ASSUME NEW c \in Callers
    PROVE  /\ G!Ask(c) => G!Next
           /\ G!Acquire(c) \/ G!Refuse(c) \/ G!NotStarted(c) => G!Next
           /\ (\E p \in Pids : G!Start(c, p)) => G!Next
           /\ G!Receive(c) \/ G!Fail(c) \/ G!TimeOut(c) \/ G!GiveUp(c) => G!Next
           /\ G!Interrupt(c) => G!Next
  BY DEF G!Next, G!CallStep

\* A process that ends or dies, and a restart.
LEMMA HostSteps ==
    /\ \A p \in Pids : G!End(p, "exited") \/ G!End(p, "failed") \/ G!Die(p) => G!Next
    /\ G!Restart => G!Next
  BY DEF G!Next

\* Every step of the operations is a step of the gateway, or leaves it alone.
LEMMA StepIsGatewayStep == [Next]_vars => [G!Next]_G!vars
<1> SUFFICES ASSUME [Next]_vars PROVE G!Next \/ UNCHANGED gateway
  BY DEF G!vars, gateway
<1>1. ASSUME NEW r \in Requests, NEW new, Begin(r, new) PROVE G!Next
  BY <1>1, GatewaySteps DEF Begin, Callers
<1>2. ASSUME NEW r \in Requests,
             \/ \E t \in Tickers : RefreshStock(r, t)
             \/ RefreshPortfolio(r) \/ CurrentPortfolio(r)
      PROVE  G!Next
  BY <1>1, <1>2 DEF RefreshStock, RefreshPortfolio, CurrentPortfolio
<1>3. ASSUME NEW r \in Requests, (\E job \in Jobs : RequestRun(r, job)) \/ RequestStep(r)
      PROVE  UNCHANGED gateway
  BY <1>3 DEF RequestRun, RequestStep, Execute, Answer
<1>4. ASSUME WorkerStep \/ ShutDown PROVE G!Next \/ UNCHANGED gateway
  BY <1>4, GatewaySteps DEF WorkerStep, RunUpdate, ClearRequested, FreeWorker, ShutDown, Callers
<1>5. ASSUME NEW c \in Callers, CallStep(c) PROVE G!Next
  BY <1>5, GatewaySteps DEF CallStep, Acquire, Start, Receive, Throw, TimeOut
<1>6. ASSUME NEW p \in Pids, ProcessStep(p) PROVE G!Next \/ UNCHANGED gateway
  BY <1>6, HostSteps
     DEF ProcessStep, Calculate, CollectFrames, CalculateNext, TickerFails, SkipRun, SaveRow, LoadClosing,
         LoadHoldings, StoreSnapshot, LoadPrices, SnapshotFails, Finish, Die, Continue, Ends
<1>7. ASSUME Restart PROVE G!Next \/ UNCHANGED gateway
  BY <1>7, HostSteps DEF Restart
<1>8. CASE UNCHANGED vars
  BY <1>8 DEF vars
<1> QED
  BY <1>2, <1>3, <1>4, <1>5, <1>6, <1>7, <1>8 DEF Next

\* Threads and processes use the gateway as its specification says.
LEMMA ThreadsUseTheGateway == Spec => G!Spec
<1>1. Init => G!Init
  BY DEF Init
<1> QED
  BY <1>1, StepIsGatewayStep, PTL DEF Spec, G!Spec

\* PythonProcessGateway: for any threads, processes, jobs and tables, permits are conserved.
THEOREM OperationsConservePermits == Spec => []PermitsConserved
  BY ThreadsUseTheGateway, PermitsAreConserved

\* The calls of all threads use the gateway as a pool of MAX_CONCURRENT_PROCESSES permits.
THEOREM OperationsUseAPool == Spec => PermitPool
  BY ThreadsUseTheGateway, GatewayIsAPool

-----------------------------------------------------------------------------
(* Requests, their calls and the programs                                   *)

Refreshing(x) == x.kind \in {"single", "batch"}

\* What is shown above of the calls: types, and a process of its own for each,
\* which has not been reaped.
GatewayFits ==
    /\ G!TypeOK
    /\ \A c \in Callers : call[c] \in {"waiting", "killing"} <=> pid[c] # Nothing
    /\ \A c, d \in Callers : pid[c] = pid[d] /\ pid[c] # Nothing => c = d
    /\ \A c \in Callers : pid[c] # Nothing => process[pid[c]] # "free"

\* A thread that is in a call knows its task, and the worker is in a call only while it is
\* at a run.
CallsFit ==
    /\ \A r \in Requests : call[r] # "idle" =>
         /\ task[r] # Nothing /\ task[r].kind \notin Jobs /\ task[r].answer = Nothing
    /\ call[Worker] # "idle" => worker = "calling"
    /\ worker \in {"busy", "calling"} => task[Worker] # Nothing /\ task[Worker].kind \in Jobs

\* One request at most is being handed over, and none while the worker is at one.
FlagFits ==
    /\ RequestedMeansWork
    /\ \A r, s \in Requests : Handing(r) /\ Handing(s) => r = s
    /\ \A r \in Requests : Handing(r) => worker \notin {"busy", "calling"}

\* A valuation is for no ticker, and only a refresh goes on to read what is stored.
TasksKept ==
    /\ requested \in BOOLEAN
    /\ worker \in {"free", "busy", "calling", "done", "closed"}
    /\ task \in [Callers -> TaskRecord \cup {Nothing}]
    /\ \A c \in Callers : task[c] # Nothing =>
         /\ task[c].kind \in kinds
         /\ task[c].kind = "value" => task[c].tickers = {}
         /\ task[c].answer # Nothing => Refreshing(task[c])
    /\ CallsFit /\ FlagFits

\* The process a thread waits for runs the refresh it has asked for.
ProcessesFit ==
    \A c \in Callers : pid[c] # Nothing =>
        /\ program[pid[c]] # Nothing
        /\ task[c].kind = program[pid[c]].kind
        /\ Refreshing(program[pid[c]]) => task[c].tickers = program[pid[c]].of

\* A program at a step has what the step needs, and a refresh has of every ticker that
\* is not left an error or a row.
ProgramFits(prog, stored) ==
    /\ prog.todo \subseteq prog.of /\ prog.errors \subseteq prog.of
    /\ prog.step = "save" => prog.at \in prog.todo /\ prog.dates[prog.at] # 0
    /\ prog.kind \in Jobs /\ prog.step \in {"calculate", "save"} => \A t \in prog.todo : prog.dates[t] # 0
    /\ prog.step \in {"price", "store"} => prog.row # Nothing
    /\ prog.step = "price" => prog.kind = "value"
    /\ prog.step = "calculate" => prog.kind \in Jobs
    /\ prog.kind = "value" => prog.todo = {} /\ prog.errors = {} /\ prog.step \notin {"collect", "save"}
    /\ prog.kind \in Jobs /\ prog.step = "collect" => prog.of = Operational
    /\ Refreshing(prog) =>
         /\ prog.step \in {"collect", "save", "end"}
         /\ prog.step = "end" => prog.todo = {}
         /\ prog.kind = "single" => prog.errors = {}
         /\ \A t \in prog.of : t \in prog.todo \/ t \in prog.errors \/ prog.dates[t] \in stored[t]

ProgramsKept ==
    /\ program \in [Pids -> ProgramRecord \cup {Nothing}]
    /\ \A p \in Pids :
         /\ (program[p] = Nothing) = (process[p] = "free")
         /\ program[p] # Nothing => ProgramFits(program[p], prices)
         /\ process[p] = "exited" => program[p].step = "end"

TablesKept ==
    /\ prices \in [Tickers -> SUBSET Dates]
    /\ history \in Snapshots \cup {Nothing}

IInv ==
    GatewayFits /\ TasksKept /\ ProcessesFit /\ ProgramsKept /\ TablesKept /\ AnswersAreStored

-----------------------------------------------------------------------------
(* The programs                                                             *)

\* A program that fits the tables fits them when rows are added.
LEMMA FitsLater ==
    ASSUME NEW prog, NEW stored, NEW later, ProgramFits(prog, stored),
           \A t \in prog.of : stored[t] \subseteq later[t]
    PROVE  ProgramFits(prog, later)
  BY DEF ProgramFits

\* A process starts with all its tickers to do.
LEMMA StartedFits ==
    ASSUME NEW kind \in Kinds, NEW tickers \in SUBSET Tickers, NEW stored,
           kind \in Jobs => tickers = Operational, kind = "value" => tickers = {}
    PROVE  /\ Started(kind, tickers) \in ProgramRecord
           /\ ProgramFits(Started(kind, tickers), stored)
           /\ Started(kind, tickers).kind = kind /\ Started(kind, tickers).of = tickers
<1>1. Started(kind, tickers) \in ProgramRecord
  BY DEF Started, ProgramRecord, ProgramSteps
<1> QED
  BY <1>1 DEF Started, ProgramFits, Refreshing, Kinds, Jobs

\* A program that is no refresh may stop where it is.
LEMMA StoppedFits ==
    ASSUME NEW prog \in ProgramRecord, NEW stored, ProgramFits(prog, stored), ~Refreshing(prog)
    PROVE  /\ Stopped(prog) \in ProgramRecord
           /\ ProgramFits(Stopped(prog), stored)
           /\ Stopped(prog).kind = prog.kind
  BY DEF Stopped, ProgramRecord, ProgramSteps, ProgramFits, Refreshing

\* A program that is through with a ticker goes on with the others; a refresh has seen to
\* that the ticker has an error or a row.
LEMMA AfterFits ==
    ASSUME NEW prog \in ProgramRecord, NEW stored, NEW t \in prog.todo,
           prog.todo \subseteq prog.of, prog.errors \subseteq prog.of, prog.kind # "value",
           prog.kind \in Jobs => \A u \in prog.todo : prog.dates[u] # 0,
           Refreshing(prog) =>
             /\ prog.kind = "single" => prog.errors = {}
             /\ \A u \in prog.of : u \in prog.todo \ {t} \/ u \in prog.errors \/ prog.dates[u] \in stored[u]
    PROVE  /\ After(prog, t) \in ProgramRecord
           /\ ProgramFits(After(prog, t), stored)
           /\ After(prog, t).kind = prog.kind /\ After(prog, t).of = prog.of
<1> DEFINE left == prog.todo \ {t}
           step == IF left # {} THEN (IF prog.kind \in Jobs THEN "calculate" ELSE "collect")
                   ELSE IF prog.kind \in Jobs THEN "load" ELSE "end"
<1>1. After(prog, t) = [prog EXCEPT !.todo = left, !.at = Nothing, !.insert = FALSE, !.step = step]
  BY DEF After
<1>2. step \in ProgramSteps /\ left \in SUBSET Tickers
  BY DEF ProgramSteps, ProgramRecord
<1>3. After(prog, t) \in ProgramRecord
  BY <1>1, <1>2 DEF ProgramRecord
<1>4. /\ After(prog, t).kind = prog.kind /\ After(prog, t).of = prog.of
      /\ After(prog, t).todo = left /\ After(prog, t).errors = prog.errors
      /\ After(prog, t).step = step /\ After(prog, t).dates = prog.dates
  BY <1>1 DEF ProgramRecord
<1> HIDE DEF left
<1>5. ProgramFits(After(prog, t), stored)
  BY <1>4 DEF ProgramFits, Refreshing, Jobs, left
<1> QED
  BY <1>3, <1>4, <1>5

\* A program that looks for a ticker's row has still to save it.
LEMMA LookingFits ==
    ASSUME NEW prog \in ProgramRecord, NEW stored, NEW t \in prog.todo,
           prog.todo \subseteq prog.of, prog.errors \subseteq prog.of, prog.kind # "value",
           prog.dates[t] # 0,
           prog.kind \in Jobs => \A u \in prog.todo : prog.dates[u] # 0,
           Refreshing(prog) =>
             /\ prog.kind = "single" => prog.errors = {}
             /\ \A u \in prog.of : u \in prog.todo \/ u \in prog.errors \/ prog.dates[u] \in stored[u]
    PROVE  /\ Looking(prog, t) \in ProgramRecord
           /\ ProgramFits(Looking(prog, t), stored)
           /\ Looking(prog, t).kind = prog.kind /\ Looking(prog, t).of = prog.of
<1>1. Looking(prog, t) \in ProgramRecord
  BY DEF Looking, ProgramRecord, ProgramSteps
<1>2. /\ Looking(prog, t).kind = prog.kind /\ Looking(prog, t).of = prog.of
      /\ Looking(prog, t).todo = prog.todo /\ Looking(prog, t).errors = prog.errors
      /\ Looking(prog, t).step = "save" /\ Looking(prog, t).dates = prog.dates
      /\ Looking(prog, t).at = t
  BY DEF Looking, ProgramRecord
<1> QED
  BY <1>1, <1>2 DEF ProgramFits, Refreshing

-----------------------------------------------------------------------------
(* Steps of the processes                                                   *)

\* Rows that are added take no answer back.
LEMMA AnswersStay ==
    ASSUME TasksKept, TablesKept, TablesKept', AnswersAreStored, UNCHANGED task,
           \A t \in Tickers : prices[t] \subseteq prices'[t]
    PROVE  AnswersAreStored'
<1> SUFFICES ASSUME NEW r \in Requests, task[r] # Nothing, task[r].answer # Nothing,
                    NEW t \in task[r].tickers
             PROVE  task[r].answer[t] \in prices'[t]
  BY DEF AnswersAreStored
<1>1. task[r].answer[t] \in prices[t] /\ task[r].tickers \subseteq Tickers
  BY DEF AnswersAreStored, TasksKept, TaskRecord, Callers
<1> QED
  BY <1>1

\* A thread's task and call are not changed by what the processes do.
LEMMA TasksStay ==
    ASSUME TasksKept, UNCHANGED <<task, requested, worker, call, kinds>>
    PROVE  TasksKept'
  BY DEF TasksKept, CallsFit, FlagFits, RequestedMeansWork, Handing

\* A program that goes on to fit the tables leaves everything as it has to be.
LEMMA ContinueKeeps ==
    ASSUME IInv, NEW p \in Pids, NEW step, At(p, step), NEW next \in ProgramRecord, Continue(p, next),
           TablesKept', \A t \in Tickers : prices[t] \subseteq prices'[t],
           next.kind = program[p].kind, Refreshing(next) => next.of = program[p].of,
           ProgramFits(next, prices')
    PROVE  IInv'
<1> USE DEF IInv
<1>1. /\ \A q \in Pids \ {p} : program'[q] = program[q]
      /\ program'[p] = next /\ next # Nothing
      /\ UNCHANGED <<gateway, server, kinds>>
  BY OperationsAssumption DEF Continue, ProgramsKept, OperationsAssumption
<1>2. GatewayFits' /\ TasksKept'
  BY <1>1, TasksStay DEF GatewayFits, gateway, server, G!TypeOK
<1>3. ProgramsKept'
  <2>1. program' \in [Pids -> ProgramRecord \cup {Nothing}]
    BY DEF Continue, ProgramsKept
  <2>2. ASSUME NEW q \in Pids \ {p}
        PROVE  /\ (program'[q] = Nothing) = (process'[q] = "free")
               /\ program'[q] # Nothing => ProgramFits(program'[q], prices')
               /\ process'[q] = "exited" => program'[q].step = "end"
    <3>1. program'[q] = program[q] /\ process'[q] = process[q]
      BY <1>1 DEF gateway
    <3>2. ASSUME program[q] # Nothing PROVE ProgramFits(program[q], prices')
      <4>1. program[q] \in ProgramRecord /\ ProgramFits(program[q], prices)
        BY <3>2 DEF ProgramsKept
      <4>2. program[q].of \subseteq Tickers
        BY <4>1 DEF ProgramRecord
      <4> QED
        BY <4>1, <4>2, FitsLater
    <3> QED
      BY <3>1, <3>2 DEF ProgramsKept
  <2>3. /\ (program'[p] = Nothing) = (process'[p] = "free")
        /\ process'[p] # "exited"
    BY <1>1 DEF At, gateway
  <2> QED
    BY <1>1, <2>1, <2>2, <2>3 DEF ProgramsKept
<1>4. ProcessesFit'
  BY <1>1 DEF ProcessesFit, GatewayFits, G!TypeOK, gateway, server, Refreshing
<1>5. AnswersAreStored'
  BY <1>1, AnswersStay DEF server
<1> QED
  BY <1>2, <1>3, <1>4, <1>5

\* Processes that end and are reaped leave the programs of the others as they are, and a
\* process that ended well was at its end.
LEMMA RemainingFits ==
    ASSUME ProgramsKept, TablesKept, program' = Remaining, UNCHANGED tables,
           process' \in [Pids -> G!ProcessStates],
           \A p \in Pids : process[p] = "free" => process'[p] = "free",
           \A p \in Pids : process'[p] = "exited" =>
               process[p] = "exited" \/ program[p].step = "end"
    PROVE  /\ ProgramsKept' /\ TablesKept'
           /\ \A p \in Pids : process'[p] # "free" => program'[p] = program[p]
<1>1. program' = [p \in Pids |-> IF process'[p] = "free" THEN Nothing ELSE program[p]]
  BY DEF Remaining
<1>2. program' \in [Pids -> ProgramRecord \cup {Nothing}]
  BY <1>1 DEF ProgramsKept
<1>3. TablesKept' /\ prices' = prices
  BY DEF TablesKept, tables
<1> QED
  BY <1>1, <1>2, <1>3 DEF ProgramsKept

\* A process that ends by itself or by the signal changes no task.
LEMMA EndKeeps ==
    ASSUME IInv, GatewayFits', NEW p \in Pids, program' = Remaining,
           UNCHANGED <<permits, call, pid, server, tables, kinds>>,
           NEW state, (G!End(p, state) /\ (state = "exited" => program[p].step = "end")) \/ G!Die(p),
           state \in {"exited", "failed"}
    PROVE  IInv'
<1> USE DEF IInv
<1>1. process' \in [Pids -> G!ProcessStates]
  BY DEF GatewayFits, G!TypeOK
<1>2. /\ \A q \in Pids : process[q] = "free" => process'[q] = "free"
      /\ \A q \in Pids : process'[q] = "exited" => process[q] = "exited" \/ program[q].step = "end"
  BY DEF GatewayFits, G!TypeOK, G!End, G!Die
<1>3. /\ ProgramsKept' /\ TablesKept'
      /\ \A q \in Pids : process'[q] # "free" => program'[q] = program[q]
  BY <1>1, <1>2, RemainingFits
<1>4. ProcessesFit'
  BY <1>3 DEF ProcessesFit, GatewayFits, G!TypeOK, server
<1>5. TasksKept' /\ AnswersAreStored'
  BY <1>3, TasksStay, AnswersStay DEF server, tables
<1> QED
  BY <1>3, <1>4, <1>5

\* What a step of a program may use of it.
LEMMA ProgramAt ==
    ASSUME IInv, NEW p \in Pids, NEW step, At(p, step)
    PROVE  program[p] \in ProgramRecord /\ ProgramFits(program[p], prices) /\ program[p].step = step
  BY DEF IInv, ProgramsKept, At

\* The tables are left alone by most steps of a program.
LEMMA TablesStay ==
    ASSUME TablesKept, UNCHANGED tables
    PROVE  TablesKept' /\ prices' = prices /\ \A t \in Tickers : prices[t] \subseteq prices'[t]
  BY DEF TablesKept, tables

\* A refresh, job or valuation that is at a step of its own goes on.
LEMMA CollectStepKeeps ==
    ASSUME IInv, NEW p \in Pids, NEW t \in Tickers, NEW d \in Dates, Calculate(p, t, d)
    PROVE  IInv'
<1> USE DEF Calculate
<1> DEFINE prog == [program[p] EXCEPT !.dates[t] = d]
<1>1. /\ program[p] \in ProgramRecord /\ ProgramFits(program[p], prices) /\ program[p].step = "collect"
      /\ t \in program[p].todo /\ program[p].kind \notin Jobs
  BY ProgramAt
<1>2. /\ prog \in ProgramRecord
      /\ prog.kind = program[p].kind /\ prog.of = program[p].of /\ prog.todo = program[p].todo
      /\ prog.errors = program[p].errors /\ \A u \in Tickers \ {t} : prog.dates[u] = program[p].dates[u]
      /\ prog.dates[t] = d /\ d # 0
  BY <1>1, OperationsAssumption DEF ProgramRecord, OperationsAssumption
<1>3. TablesKept' /\ prices' = prices /\ \A u \in Tickers : prices[u] \subseteq prices'[u]
  BY TablesStay DEF IInv
<1> HIDE DEF prog
<1>4. /\ prog.todo \subseteq prog.of /\ prog.errors \subseteq prog.of /\ prog.kind # "value"
      /\ t \in prog.todo /\ prog.kind \notin Jobs
      /\ Refreshing(prog) =>
           /\ prog.kind = "single" => prog.errors = {}
           /\ \A u \in prog.of : u \in prog.todo \/ u \in prog.errors \/ prog.dates[u] \in prices'[u]
  BY <1>1, <1>2, <1>3 DEF ProgramFits, Refreshing, ProgramRecord
<1>5. /\ Looking(prog, t) \in ProgramRecord
      /\ ProgramFits(Looking(prog, t), prices')
      /\ Looking(prog, t).kind = prog.kind /\ Looking(prog, t).of = prog.of
  BY <1>2, <1>4, LookingFits
<1>6. Continue(p, Looking(prog, t))
  BY DEF prog
<1> QED
  BY <1>2, <1>3, <1>5, <1>6, ContinueKeeps

\* The frames of a job.
LEMMA FramesStepKeeps ==
    ASSUME IInv, NEW p \in Pids, NEW dates \in [Tickers -> Dates \cup {0}], CollectFrames(p, dates)
    PROVE  IInv'
<1> USE DEF CollectFrames
<1> DEFINE saved == Saved(program[p].kind, dates)
           next == [program[p] EXCEPT !.dates = dates, !.todo = saved,
                                      !.step = IF saved = {} THEN "load" ELSE "calculate"]
<1>1. /\ program[p] \in ProgramRecord /\ ProgramFits(program[p], prices) /\ program[p].step = "collect"
      /\ program[p].kind \in Jobs
  BY ProgramAt
<1>2. TablesKept' /\ prices' = prices /\ \A u \in Tickers : prices[u] \subseteq prices'[u]
  BY TablesStay DEF IInv
<1>3. saved \subseteq Operational /\ Operational \subseteq Tickers
  BY OperationsAssumption DEF Saved, OperationsAssumption
<1> HIDE DEF saved
<1>4. next \in ProgramRecord
  BY <1>1, <1>3 DEF ProgramRecord, ProgramSteps
<1>5. /\ next.kind = program[p].kind /\ next.of = program[p].of /\ next.errors = program[p].errors
      /\ next.todo = saved /\ next.dates = dates /\ next.step \in {"load", "calculate"}
      /\ \A t \in saved : dates[t] # 0
  BY <1>1 DEF ProgramRecord, Saved, saved
<1>6. ProgramFits(next, prices')
  BY <1>1, <1>3, <1>5 DEF ProgramFits, Refreshing, Jobs
<1>7. Continue(p, next)
  BY DEF saved
<1> HIDE DEF next
<1> QED
  BY <1>2, <1>4, <1>5, <1>6, <1>7, ContinueKeeps

\* A job goes on to the next of its tickers.
LEMMA CalculateStepKeeps ==
    ASSUME IInv, NEW p \in Pids, NEW t \in Tickers, CalculateNext(p, t)
    PROVE  IInv'
<1>1. /\ program[p] \in ProgramRecord /\ ProgramFits(program[p], prices)
      /\ program[p].step = "calculate" /\ program[p].kind \in Jobs
      /\ t \in program[p].todo /\ program[p].dates[t] # 0
  BY ProgramAt DEF CalculateNext, ProgramFits
<1>2. TablesKept' /\ prices' = prices /\ \A u \in Tickers : prices[u] \subseteq prices'[u]
  BY TablesStay DEF IInv, CalculateNext
<1>3. /\ Looking(program[p], t) \in ProgramRecord /\ ProgramFits(Looking(program[p], t), prices')
      /\ Looking(program[p], t).kind = program[p].kind /\ Looking(program[p], t).of = program[p].of
  BY <1>1, <1>2, LookingFits DEF ProgramFits, Refreshing, Jobs
<1> QED
  BY <1>2, <1>3, ContinueKeeps DEF CalculateNext

\* The row of a ticker that is saved is the one its program has collected.
LEMMA SaveStepKeeps ==
    ASSUME IInv, NEW p \in Pids, SaveRow(p)
    PROVE  IInv'
<1> DEFINE t == program[p].at
           d == program[p].dates[t]
<1>1. /\ program[p] \in ProgramRecord /\ ProgramFits(program[p], prices) /\ program[p].step = "save"
  BY ProgramAt DEF SaveRow
<1>2. t \in program[p].todo /\ t \in Tickers /\ d \in Dates /\ program[p].kind # "value"
  BY <1>1 DEF ProgramFits, ProgramRecord
<1>3. prices' = [prices EXCEPT ![t] = @ \cup {d}] /\ history' = history
      /\ Continue(p, After(program[p], t))
  BY DEF SaveRow
<1> HIDE DEF t, d
<1>4. /\ TablesKept' /\ d \in prices'[t]
      /\ \A u \in Tickers : prices[u] \subseteq prices'[u]
  BY <1>2, <1>3 DEF TablesKept, IInv
<1>5. Refreshing(program[p]) =>
        /\ program[p].kind = "single" => program[p].errors = {}
        /\ \A u \in program[p].of :
              u \in program[p].todo \ {t} \/ u \in program[p].errors \/ program[p].dates[u] \in prices'[u]
  <2>1. program[p].of \subseteq Tickers
    BY <1>1 DEF ProgramRecord
  <2> QED
    BY <1>1, <1>4, <2>1 DEF ProgramFits, d
<1>6. /\ After(program[p], t) \in ProgramRecord /\ ProgramFits(After(program[p], t), prices')
      /\ After(program[p], t).kind = program[p].kind /\ After(program[p], t).of = program[p].of
  BY <1>1, <1>2, <1>5, AfterFits DEF ProgramFits
<1>7. At(p, "save")
  BY DEF SaveRow
<1> QED
  BY <1>3, <1>4, <1>6, <1>7, ContinueKeeps

\* A ticker that fails is an error of a batch, is left out by a job, and ends the process
\* that is for it alone.
LEMMA FailStepKeeps ==
    ASSUME IInv, GatewayFits', NEW p \in Pids, NEW t \in Tickers, TickerFails(p, t)
    PROVE  IInv'
<1>1. PICK step \in {"collect", "calculate", "save"} :
        At(p, step) /\ t \in program[p].todo
  BY ProgramAt DEF TickerFails, ProgramFits
<1>2. /\ program[p] \in ProgramRecord /\ ProgramFits(program[p], prices) /\ program[p].step = step
      /\ step = "collect" => program[p].kind \notin Jobs
  BY <1>1, ProgramAt DEF TickerFails, At
<1>3. CASE program[p].kind = "single"
  BY <1>3, EndKeeps DEF TickerFails, Ends, G!End
<1>4. CASE program[p].kind # "single"
  <2> DEFINE prog == [program[p] EXCEPT !.errors = Reported(p, t)]
  <2>1. Continue(p, After(prog, t)) /\ UNCHANGED tables
    BY <1>4 DEF TickerFails
  <2>2. TablesKept' /\ prices' = prices /\ \A u \in Tickers : prices[u] \subseteq prices'[u]
    BY <2>1, TablesStay DEF IInv
  <2>3. program[p].kind # "value" /\ t \in program[p].of
    BY <1>1, <1>2 DEF ProgramFits
  <2>4. /\ prog \in ProgramRecord /\ prog.kind = program[p].kind /\ prog.of = program[p].of
        /\ prog.todo = program[p].todo /\ prog.dates = program[p].dates
        /\ prog.errors = IF program[p].kind = "batch" THEN program[p].errors \cup {t} ELSE {}
    BY <1>2 DEF ProgramRecord, Reported
  <2> HIDE DEF prog
  <2>5. /\ prog.todo \subseteq prog.of /\ prog.errors \subseteq prog.of /\ prog.kind # "value"
        /\ t \in prog.todo
        /\ prog.kind \in Jobs => \A u \in prog.todo : prog.dates[u] # 0
        /\ Refreshing(prog) =>
             /\ prog.kind = "single" => prog.errors = {}
             /\ \A u \in prog.of : u \in prog.todo \ {t} \/ u \in prog.errors \/ prog.dates[u] \in prices'[u]
    BY <1>1, <1>2, <1>4, <2>2, <2>3, <2>4 DEF ProgramFits, Refreshing
  <2>6. /\ After(prog, t) \in ProgramRecord /\ ProgramFits(After(prog, t), prices')
        /\ After(prog, t).kind = prog.kind /\ After(prog, t).of = prog.of
    BY <2>4, <2>5, AfterFits
  <2> QED
    BY <1>1, <2>1, <2>2, <2>4, <2>6, ContinueKeeps
<1> QED
  BY <1>3, <1>4

\* A program that is no refresh stops, also when the run is a duplicate.
LEMMA StopKeeps ==
    ASSUME IInv, NEW p \in Pids, NEW step, At(p, step), ~Refreshing(program[p]),
           Continue(p, Stopped(program[p])), TablesKept', prices' = prices
    PROVE  IInv'
<1>1. program[p] \in ProgramRecord /\ ProgramFits(program[p], prices)
  BY ProgramAt
<1>2. /\ Stopped(program[p]) \in ProgramRecord /\ ProgramFits(Stopped(program[p]), prices')
      /\ Stopped(program[p]).kind = program[p].kind
  BY <1>1, StoppedFits
<1>3. ~Refreshing(Stopped(program[p]))
  BY <1>2 DEF Refreshing
<1> QED
  BY <1>2, <1>3, ContinueKeeps

\* The snapshot of a job: the day's closing prices of the holdings.
LEMMA ClosingStepKeeps ==
    ASSUME IInv, NEW p \in Pids, LoadClosing(p)
    PROVE  IInv'
<1> DEFINE kind    == program[p].kind
           frames  == program[p].dates
           closing == [t \in Holdings |-> IF prices[t] = {} THEN 0 ELSE Max(prices[t])]
           row     == Snapshot(kind, {t \in Holdings : closing[t] = 0},
                               {t \in Holdings : closing[t] \in 1..(frames[t] - 1)})
           loaded  == [Started(kind, {}) EXCEPT !.row = row, !.step = "store",
                                                !.insert = (history = Nothing)]
           next    == IF row.missing # Holdings THEN loaded ELSE Stopped(loaded)
<1>1. /\ program[p] \in ProgramRecord /\ kind \in Jobs /\ kind \in Kinds
      /\ At(p, "load") /\ Continue(p, next) /\ UNCHANGED tables
  BY ProgramAt DEF LoadClosing, Kinds
<1>2. TablesKept' /\ prices' = prices /\ \A u \in Tickers : prices[u] \subseteq prices'[u]
  BY <1>1, TablesStay DEF IInv
<1> HIDE DEF closing, frames
<1>3. row \in Snapshots
  BY <1>1, OperationsAssumption DEF Snapshots, Snapshot, OperationsAssumption
<1> HIDE DEF row, kind
<1>4. /\ loaded \in ProgramRecord /\ loaded.kind = kind /\ loaded.todo = {} /\ loaded.of = {}
      /\ loaded.errors = {} /\ loaded.step = "store" /\ loaded.row = row
  BY <1>1, <1>3 DEF Started, ProgramRecord, ProgramSteps
<1> HIDE DEF loaded
<1>5. row # Nothing
  BY <1>3, OperationsAssumption DEF OperationsAssumption
<1>6. ProgramFits(loaded, prices') /\ ~Refreshing(loaded)
  BY <1>1, <1>4, <1>5 DEF ProgramFits, Refreshing, Jobs
<1>7. next \in ProgramRecord /\ ProgramFits(next, prices') /\ next.kind = kind
  BY <1>4, <1>6, StoppedFits
<1>8. kind = program[p].kind
  BY DEF kind
<1> HIDE DEF next
<1>9. ~Refreshing(next)
  BY <1>1, <1>7 DEF Refreshing, Jobs
<1> QED
  BY <1>1, <1>2, <1>7, <1>8, <1>9, ContinueKeeps

\* A valuation reads its holdings and their prices.
LEMMA ValueStepKeeps ==
    ASSUME IInv, NEW p \in Pids, LoadHoldings(p) \/ \E missing \in SUBSET Tickers : LoadPrices(p, missing)
    PROVE  IInv'
<1>1. TablesKept' /\ prices' = prices /\ \A u \in Tickers : prices[u] \subseteq prices'[u]
  BY TablesStay DEF IInv, LoadHoldings, LoadPrices
<1>2. Nothing \notin Snapshots /\ Holdings \subseteq Tickers
  BY OperationsAssumption DEF OperationsAssumption
<1>3. CASE LoadHoldings(p)
  <2>1. /\ program[p] \in ProgramRecord /\ ProgramFits(program[p], prices)
        /\ program[p].kind = "value" /\ At(p, "load")
    BY <1>3, ProgramAt DEF LoadHoldings
  <2>2. CASE Holdings = {}
    BY <1>1, <1>3, <2>1, <2>2, StopKeeps DEF LoadHoldings, Refreshing
  <2>3. CASE Holdings # {}
    <3> DEFINE row  == Snapshot("value", {}, {})
               next == [program[p] EXCEPT !.of = Holdings, !.row = row, !.step = "price"]
    <3>1. row \in Snapshots /\ row # Nothing
      BY <1>2 DEF Snapshots, Snapshot, Kinds
    <3> HIDE DEF row
    <3>2. /\ next \in ProgramRecord /\ next.kind = "value" /\ next.of = Holdings /\ next.row = row
          /\ next.step = "price" /\ next.todo = program[p].todo /\ next.errors = program[p].errors
      BY <1>2, <2>1, <3>1 DEF ProgramRecord, ProgramSteps
    <3>3. Continue(p, next)
      BY <1>3, <2>3 DEF LoadHoldings, row
    <3> HIDE DEF next
    <3>4. ProgramFits(next, prices') /\ ~Refreshing(next)
      BY <2>1, <3>1, <3>2 DEF ProgramFits, Refreshing, Jobs
    <3> QED
      BY <1>1, <2>1, <3>2, <3>3, <3>4, ContinueKeeps
  <2> QED
    BY <2>2, <2>3
<1>4. ASSUME NEW missing \in SUBSET Tickers, LoadPrices(p, missing) PROVE IInv'
  <2> DEFINE priced == [program[p] EXCEPT !.row.missing = missing, !.step = "store",
                                          !.insert = (history = Nothing)]
             next   == IF Storable(priced) THEN priced ELSE Stopped(priced)
  <2>1. /\ program[p] \in ProgramRecord /\ ProgramFits(program[p], prices)
        /\ program[p].step = "price" /\ At(p, "price")
    BY <1>4, ProgramAt DEF LoadPrices
  <2>2. program[p].kind = "value" /\ program[p].row \in Snapshots
    BY <2>1 DEF ProgramFits, ProgramRecord
  <2> DEFINE row == [program[p].row EXCEPT !.missing = missing]
  <2>3. row \in Snapshots /\ row # Nothing
    BY <1>2, <2>2 DEF Snapshots
  <2>4. priced = [program[p] EXCEPT !.row = row, !.step = "store", !.insert = (history = Nothing)]
    BY <2>1 DEF ProgramRecord
  <2> HIDE DEF row, priced
  <2>5. /\ priced \in ProgramRecord /\ priced.kind = "value" /\ priced.row = row
        /\ priced.of = program[p].of /\ priced.todo = program[p].todo
        /\ priced.errors = program[p].errors /\ priced.step = "store"
    BY <2>1, <2>2, <2>3, <2>4 DEF ProgramRecord, ProgramSteps
  <2>6. ProgramFits(priced, prices') /\ ~Refreshing(priced)
    BY <2>1, <2>2, <2>3, <2>5 DEF ProgramFits, Refreshing, Jobs
  <2>7. next \in ProgramRecord /\ ProgramFits(next, prices') /\ next.kind = "value"
    BY <2>5, <2>6, StoppedFits
  <2>8. Continue(p, next)
    BY <1>4 DEF LoadPrices, priced
  <2> HIDE DEF next
  <2>9. ~Refreshing(next)
    BY <2>7 DEF Refreshing
  <2> QED
    BY <1>1, <2>1, <2>2, <2>7, <2>8, <2>9, ContinueKeeps
<1> QED
  BY <1>3, <1>4

\* A snapshot is stored, or cannot be.
LEMMA StoreStepKeeps ==
    ASSUME IInv, GatewayFits', NEW p \in Pids, StoreSnapshot(p) \/ SnapshotFails(p)
    PROVE  IInv'
<1>1. /\ program[p] \in ProgramRecord /\ ProgramFits(program[p], prices)
      /\ program[p].step = "store" /\ At(p, "store")
  BY ProgramAt DEF StoreSnapshot, SnapshotFails
<1>2. ~Refreshing(program[p]) /\ program[p].row \in Snapshots
  BY <1>1 DEF ProgramFits, ProgramRecord
<1>3. CASE StoreSnapshot(p)
  <2>1. TablesKept' /\ prices' = prices
    BY <1>2, <1>3 DEF StoreSnapshot, TablesKept, IInv
  <2> QED
    BY <1>1, <1>2, <1>3, <2>1, StopKeeps DEF StoreSnapshot
<1>4. CASE SnapshotFails(p) /\ program[p].kind = "value"
  BY <1>4, EndKeeps DEF SnapshotFails, Ends, G!End
<1>5. CASE SnapshotFails(p) /\ program[p].kind # "value"
  <2>1. TablesKept' /\ prices' = prices
    BY <1>5, TablesStay DEF SnapshotFails, IInv
  <2> QED
    BY <1>1, <1>2, <1>5, <2>1, StopKeeps DEF SnapshotFails
<1> QED
  BY <1>3, <1>4, <1>5

\* Whatever a process does, the invariant holds after it.
LEMMA ProcessStepKeeps ==
    ASSUME IInv, GatewayFits', NEW p \in Pids, ProcessStep(p)
    PROVE  IInv'
<1>1. CASE SkipRun(p)
  <2>1. TablesKept' /\ prices' = prices
    BY <1>1, TablesStay DEF SkipRun, IInv
  <2>2. ~Refreshing(program[p])
    BY <1>1 DEF SkipRun, Refreshing, Jobs
  <2> QED
    BY <1>1, <2>1, <2>2, StopKeeps DEF SkipRun
<1>2. CASE Finish(p)
  BY <1>2, EndKeeps DEF Finish, Ends, At, G!End
<1>3. CASE Die(p)
  <2>1. UNCHANGED <<permits, call, pid, server, tables, kinds>> /\ program' = Remaining /\ G!Die(p)
    BY <1>3 DEF Die, G!Die
  <2> QED
    BY <2>1, EndKeeps
<1> QED
  BY <1>1, <1>2, <1>3, CollectStepKeeps, FramesStepKeeps, CalculateStepKeeps, SaveStepKeeps,
     FailStepKeeps, ClosingStepKeeps, ValueStepKeeps, StoreStepKeeps DEF ProcessStep

-----------------------------------------------------------------------------
(* Steps of the server                                                      *)

\* A request for a refresh or a valuation.
LEMMA BeginKeeps ==
    ASSUME IInv, GatewayFits', NEW r \in Requests, NEW new \in TaskRecord, Begin(r, new),
           new.kind \notin Jobs, new.answer = Nothing, new.kind = "value" => new.tickers = {}
    PROVE  IInv'
<1> USE DEF IInv
<1>1. /\ task[r] = Nothing /\ task' = [task EXCEPT ![r] = new] /\ new.kind \in kinds /\ new # Nothing
      /\ call[r] = "idle" /\ call' = [call EXCEPT ![r] = "asking"]
      /\ UNCHANGED <<permits, pid, process, requested, worker, program, tables, kinds>>
  BY OperationsAssumption DEF Begin, G!Ask, OperationsAssumption
<1>2. r # Worker /\ r \in Callers
  BY OperationsAssumption DEF OperationsAssumption, Callers
<1>3. /\ \A c \in Callers \ {r} : task'[c] = task[c] /\ call'[c] = call[c]
      /\ task'[r] = new /\ call'[r] = "asking"
  BY <1>1, <1>2 DEF TasksKept, GatewayFits, G!TypeOK
<1>4. TasksKept'
  <2>1. CallsFit'
    BY <1>1, <1>2, <1>3 DEF TasksKept, CallsFit, Callers
  <2>2. \A s \in Requests : Handing(s)' = Handing(s)
    BY <1>1, <1>2, <1>3 DEF Handing, Callers
  <2>3. FlagFits'
    BY <1>1, <2>2 DEF TasksKept, FlagFits, RequestedMeansWork
  <2> QED
    BY <1>1, <1>2, <1>3, <2>1, <2>3 DEF TasksKept, Callers
<1>5. ProcessesFit'
  <2>1. pid[r] = Nothing
    BY <1>1, <1>2 DEF GatewayFits
  <2> QED
    BY <1>1, <1>3, <2>1 DEF ProcessesFit
<1>6. ProgramsKept' /\ TablesKept'
  BY <1>1 DEF ProgramsKept, TablesKept, tables
<1>7. AnswersAreStored'
  BY <1>1, <1>2, <1>3 DEF AnswersAreStored, tables, Callers
<1> QED
  BY <1>4, <1>5, <1>6, <1>7

\* A request for a run is handed to the worker, or turned away: in both cases the flag
\* says so.
LEMMA HandingKeeps ==
    ASSUME IInv, GatewayFits', NEW r \in Requests, (\E job \in Jobs : RequestRun(r, job)) \/ Execute(r)
    PROVE  IInv'
<1> USE DEF IInv
<1>1. r # Worker /\ r \in Callers /\ Worker \in Callers
  BY OperationsAssumption DEF OperationsAssumption, Callers
<1>2. UNCHANGED <<gateway, program, tables, kinds>>
  BY DEF RequestRun, Execute
<1>3. ProgramsKept' /\ TablesKept'
  BY <1>2 DEF ProgramsKept, TablesKept, tables, gateway
<1>4. ASSUME NEW job \in Jobs, RequestRun(r, job) PROVE IInv'
  <2> DEFINE new == Task(job, {})
  <2>1. new \in TaskRecord /\ new # Nothing /\ new.kind = job /\ new.answer = Nothing
    BY OperationsAssumption DEF Task, TaskRecord, Kinds, OperationsAssumption
  <2>2. task[r] = Nothing /\ ~requested /\ requested' = TRUE /\ job \in kinds /\ UNCHANGED worker
        /\ task' = [task EXCEPT ![r] = new]
    BY <1>4 DEF RequestRun
  <2> HIDE DEF new
  <2>3. /\ \A c \in Callers \ {r} : task'[c] = task[c]
        /\ task'[r] = new
    BY <1>1, <2>2 DEF TasksKept
  <2>4. /\ \A s \in Requests : Handing(s)' <=> s = r
        /\ worker \notin {"busy", "calling"}
    BY <1>1, <2>1, <2>2, <2>3, <1>4 DEF Handing, TasksKept, FlagFits, RequestedMeansWork, Callers
  <2>5. FlagFits'
    BY <2>2, <2>4 DEF FlagFits, RequestedMeansWork
  <2>6. call[r] = "idle"
    BY <2>2 DEF TasksKept, CallsFit
  <2>7. CallsFit'
    BY <1>1, <1>2, <2>2, <2>3, <2>6 DEF TasksKept, CallsFit, gateway, Callers
  <2>8. TasksKept'
    BY <1>1, <1>2, <2>1, <2>2, <2>3, <2>5, <2>7 DEF TasksKept, Jobs
  <2>9. ProcessesFit' /\ AnswersAreStored'
    BY <1>1, <1>2, <2>1, <2>3, <2>6 DEF ProcessesFit, GatewayFits, AnswersAreStored, gateway, tables, Callers
  <2> QED
    BY <1>3, <2>8, <2>9
<1>5. ASSUME Execute(r) PROVE IInv'
  <2>1. /\ Handing(r) /\ task[r] # Nothing /\ task[r].kind \in Jobs
        /\ requested /\ worker \notin {"busy", "calling"} /\ task[r] \in TaskRecord
        /\ call[r] = "idle" /\ call[Worker] = "idle" /\ pid[r] = Nothing /\ pid[Worker] = Nothing
    BY <1>1, <1>5 DEF Execute, Handing, TasksKept, FlagFits, RequestedMeansWork, CallsFit, GatewayFits
  <2>2. /\ \A c \in Requests \ {r} : task'[c] = task[c]
        /\ task'[r] = Nothing
        /\ task' \in [Callers -> TaskRecord \cup {Nothing}]
        /\ \/ task'[Worker] = task[r] /\ worker' = "busy" /\ requested' = requested
           \/ task'[Worker] = task[Worker] /\ worker' = worker /\ requested' = FALSE
    <3>1. task \in [Callers -> TaskRecord \cup {Nothing}] /\ Requests \subseteq Callers
      BY DEF TasksKept, Callers
    <3>2. CASE worker = "free"
      <4>1. /\ task' = [[task EXCEPT ![r] = Nothing] EXCEPT ![Worker] = task[r]]
            /\ worker' = "busy" /\ requested' = requested
        BY <1>5, <3>2 DEF Execute
      <4> QED
        BY <1>1, <2>1, <3>1, <4>1, OperationsAssumption DEF OperationsAssumption
    <3>3. CASE worker # "free"
      <4>1. task' = [task EXCEPT ![r] = Nothing] /\ worker' = worker /\ requested' = FALSE
        BY <1>5, <3>3 DEF Execute
      <4> QED
        BY <1>1, <3>1, <4>1
    <3> QED
      BY <3>2, <3>3
  <2>3. \A s \in Requests : ~Handing(s)'
    BY <2>1, <2>2 DEF TasksKept, FlagFits, Handing
  <2>4. FlagFits'
    BY <2>1, <2>2, <2>3 DEF FlagFits, RequestedMeansWork
  <2>5. CallsFit'
    BY <1>1, <1>2, <2>1, <2>2 DEF TasksKept, CallsFit, gateway
  <2>6. TasksKept'
    BY <1>1, <1>2, <2>1, <2>2, <2>4, <2>5 DEF TasksKept, Callers
  <2>7. ProcessesFit' /\ AnswersAreStored'
    <3>1. ASSUME NEW c \in Callers, pid[c] # Nothing PROVE task'[c] = task[c] /\ UNCHANGED <<pid, program>>
      BY <1>2, <2>1, <2>2, <3>1 DEF Callers, gateway
    <3>2. ProcessesFit'
      BY <1>2, <3>1 DEF ProcessesFit, gateway
    <3>3. AnswersAreStored'
      BY <1>2, <2>2 DEF AnswersAreStored, tables
    <3> QED
      BY <3>2, <3>3
  <2> QED
    BY <1>3, <2>6, <2>7
<1> QED
  BY <1>4, <1>5

\* The worker begins a run, is through with it, and is free again.
LEMMA WorkerKeeps ==
    ASSUME IInv, GatewayFits', WorkerStep
    PROVE  IInv'
<1> USE DEF IInv
<1>1. Worker \in Callers /\ Worker \notin Requests
  BY OperationsAssumption DEF OperationsAssumption, Callers
<1>2. /\ UNCHANGED <<pid, process, program, tables, kinds>>
      /\ \A r \in Requests : task'[r] = task[r] /\ call'[r] = call[r]
      /\ task' \in [Callers -> TaskRecord \cup {Nothing}]
      /\ task'[Worker] \in {task[Worker], Nothing}
  BY <1>1 DEF WorkerStep, RunUpdate, ClearRequested, FreeWorker, G!Ask, gateway, TasksKept, GatewayFits,
              G!TypeOK, Callers
<1>3. ProgramsKept' /\ TablesKept' /\ AnswersAreStored'
  BY <1>2 DEF ProgramsKept, TablesKept, tables, AnswersAreStored
<1>4. \A r \in Requests : Handing(r)' = Handing(r)
  BY <1>2 DEF Handing
<1>5. CASE RunUpdate
  <2>1. /\ worker = "busy" /\ worker' = "calling" /\ UNCHANGED <<requested, task>>
        /\ call[Worker] = "idle" /\ pid[Worker] = Nothing
    BY <1>1, <1>5 DEF RunUpdate, G!Ask, GatewayFits
  <2>2. FlagFits'
    BY <1>4, <2>1 DEF TasksKept, FlagFits, RequestedMeansWork
  <2>3. CallsFit'
    BY <1>2, <2>1 DEF TasksKept, CallsFit
  <2>4. TasksKept'
    BY <1>2, <2>1, <2>2, <2>3 DEF TasksKept
  <2>5. ProcessesFit'
    BY <1>2, <2>1 DEF ProcessesFit
  <2> QED
    BY <1>3, <2>4, <2>5
<1>6. CASE ClearRequested
  <2>1. /\ worker = "calling" /\ worker' = "done" /\ requested' = FALSE /\ task'[Worker] = Nothing
        /\ call' = call /\ call[Worker] = "idle" /\ pid[Worker] = Nothing
    BY <1>1, <1>6 DEF ClearRequested, gateway, GatewayFits, TasksKept
  <2>2. FlagFits'
    BY <1>4, <2>1 DEF TasksKept, FlagFits, RequestedMeansWork
  <2>3. CallsFit'
    BY <1>2, <2>1 DEF TasksKept, CallsFit
  <2>4. TasksKept'
    BY <1>2, <2>1, <2>2, <2>3 DEF TasksKept, Callers
  <2>5. ProcessesFit'
    BY <1>2, <2>1 DEF ProcessesFit, Callers
  <2> QED
    BY <1>3, <2>4, <2>5
<1>7. CASE FreeWorker
  <2>1. worker = "done" /\ worker' = "free" /\ UNCHANGED <<task, call, requested>>
    BY <1>7 DEF FreeWorker, gateway
  <2>2. FlagFits'
    BY <1>4, <2>1 DEF TasksKept, FlagFits, RequestedMeansWork
  <2>3. CallsFit'
    BY <2>1 DEF TasksKept, CallsFit
  <2>4. TasksKept'
    BY <1>2, <2>1, <2>2, <2>3 DEF TasksKept
  <2>5. ProcessesFit'
    BY <1>2, <2>1 DEF ProcessesFit
  <2> QED
    BY <1>3, <2>4, <2>5
<1> QED
  BY <1>5, <1>6, <1>7 DEF WorkerStep

\* A thread that leaves its call gives its process back: the others have theirs, and the
\* programs that have not been reaped are as they were.
LEMMA LeavingFits ==
    ASSUME IInv, GatewayFits', NEW c \in Callers, program' = Remaining, UNCHANGED tables,
           pid' = [pid EXCEPT ![c] = Nothing], process' = process \/ process' = G!Left(pid[c]),
           \A d \in Callers \ {c} : task'[d] = task[d]
    PROVE  ProgramsKept' /\ TablesKept' /\ ProcessesFit'
<1> USE DEF IInv
<1>1. /\ process' \in [Pids -> G!ProcessStates]
      /\ \A p \in Pids : process[p] = "free" => process'[p] = "free" \/ pid[c] = p
      /\ \A p \in Pids : process'[p] = "exited" => process[p] = "exited"
  BY DEF GatewayFits, G!TypeOK, G!Left
<1>2. \A p \in Pids : process[p] = "free" => process'[p] = "free"
  <2>1. pid[c] # Nothing => process[pid[c]] # "free"
    BY DEF GatewayFits
  <2>2. Nothing \notin Pids
    BY OperationsAssumption DEF OperationsAssumption, G!GatewayAssumption
  <2> QED
    BY <1>1, <2>1, <2>2
<1>3. /\ ProgramsKept' /\ TablesKept'
      /\ \A p \in Pids : process'[p] # "free" => program'[p] = program[p]
  BY <1>1, <1>2, RemainingFits
<1>4. ProcessesFit'
  <2> SUFFICES ASSUME NEW d \in Callers, pid'[d] # Nothing
               PROVE  /\ program'[pid'[d]] # Nothing
                      /\ task'[d].kind = program'[pid'[d]].kind
                      /\ Refreshing(program'[pid'[d]]) => task'[d].tickers = program'[pid'[d]].of
    BY DEF ProcessesFit, Refreshing
  <2>1. d # c /\ pid'[d] = pid[d] /\ pid[d] \in Pids /\ process'[pid'[d]] # "free"
    BY DEF GatewayFits, G!TypeOK
  <2>2. program'[pid'[d]] = program[pid[d]] /\ task'[d] = task[d]
    BY <1>3, <2>1
  <2> QED
    BY <2>1, <2>2 DEF ProcessesFit
<1> QED
  BY <1>3, <1>4

\* A thread whose call ends drops its task, goes on with it, or is the worker, which has
\* its own to clear.
LEMMA CallEnds ==
    ASSUME IInv, NEW c \in Callers, NEW new \in TaskRecord \cup {Nothing}, call[c] # "idle",
           call' = [call EXCEPT ![c] = "idle"], task' = [task EXCEPT ![c] = new],
           UNCHANGED <<requested, worker, kinds>>,
           c = Worker => new = task[c],
           new # Nothing => new.kind = task[c].kind /\ new.tickers = task[c].tickers,
           c # Worker /\ new # Nothing => Refreshing(new)
    PROVE  TasksKept'
<1> USE DEF IInv
<1>1. Worker \in Callers /\ Worker \notin Requests /\ (c # Worker => c \in Requests)
  BY OperationsAssumption DEF OperationsAssumption, Callers
<1>2. /\ \A d \in Callers \ {c} : task'[d] = task[d] /\ call'[d] = call[d]
      /\ task'[c] = new /\ call'[c] = "idle"
      /\ task' \in [Callers -> TaskRecord \cup {Nothing}]
  BY DEF TasksKept, GatewayFits, G!TypeOK
<1>3. task[c] # Nothing /\ (c # Worker => task[c].kind \notin Jobs)
  BY <1>1 DEF TasksKept, CallsFit
<1>4. \A r \in Requests : Handing(r)' = Handing(r)
  BY <1>1, <1>2, <1>3 DEF Handing, Callers
<1>5. FlagFits'
  BY <1>4 DEF TasksKept, FlagFits, RequestedMeansWork
<1>6. CallsFit'
  BY <1>1, <1>2 DEF TasksKept, CallsFit, Callers
<1>7. \A d \in Callers : task'[d] # Nothing =>
        /\ task'[d].kind \in kinds
        /\ task'[d].kind = "value" => task'[d].tickers = {}
        /\ task'[d].answer # Nothing => Refreshing(task'[d])
  BY <1>1, <1>2, <1>3 DEF TasksKept
<1> QED
  BY <1>2, <1>5, <1>6, <1>7 DEF TasksKept

\* A call throws.
LEMMA ThrowKeeps ==
    ASSUME IInv, GatewayFits', NEW c \in Callers, Throw(c)
    PROVE  IInv'
<1> DEFINE new == IF c = Worker THEN task[c] ELSE Nothing
<1>1. /\ call[c] # "idle" /\ call' = [call EXCEPT ![c] = "idle"]
      /\ pid' = [pid EXCEPT ![c] = Nothing]
      /\ process' = process \/ process' = G!Left(pid[c])
  BY DEF Throw, G!Refuse, G!TurnAway, G!NotStarted, G!Fail, G!GiveUp, G!Release, IInv, GatewayFits, G!TypeOK
<1>2. /\ task' = [task EXCEPT ![c] = new] /\ program' = Remaining
      /\ UNCHANGED <<requested, worker, tables, kinds>>
  BY DEF Throw, IInv, TasksKept
<1>3. new \in TaskRecord \cup {Nothing} /\ \A d \in Callers \ {c} : task'[d] = task[d]
  BY <1>2 DEF IInv, TasksKept
<1>4. TasksKept'
  BY <1>1, <1>2, <1>3, CallEnds
<1>5. ProgramsKept' /\ TablesKept' /\ ProcessesFit'
  BY <1>1, <1>2, <1>3, LeavingFits
<1>6. AnswersAreStored'
  <2>1. \A r \in Requests : task'[r] = task[r] \/ task'[r] = Nothing
    BY <1>2 DEF IInv, TasksKept, Callers
  <2> QED
    BY <1>2, <2>1 DEF IInv, AnswersAreStored, tables
<1> QED
  BY <1>4, <1>5, <1>6 DEF IInv

\* A call returns: a refresh that is acceptable has no ticker left and none that failed,
\* so each one's row is there.
LEMMA ReceiveKeeps ==
    ASSUME IInv, GatewayFits', NEW c \in Callers, Receive(c)
    PROVE  IInv'
<1> USE DEF IInv
<1> DEFINE output == program[pid[c]]
           good == task[c].kind \in {"single", "batch"} /\ Acceptable(output)
           new == IF good THEN [task[c] EXCEPT !.answer = output.dates]
                  ELSE IF c = Worker THEN task[c] ELSE Nothing
<1>1. /\ call[c] = "waiting" /\ call' = [call EXCEPT ![c] = "idle"]
      /\ pid' = [pid EXCEPT ![c] = Nothing] /\ pid[c] # Nothing /\ pid[c] \in Pids
      /\ process' = G!Left(pid[c]) /\ process[pid[c]] = "exited"
  BY DEF Receive, G!Receive, G!Release, GatewayFits, G!TypeOK
<1>2. /\ task' = [task EXCEPT ![c] = new] /\ program' = Remaining
      /\ UNCHANGED <<requested, worker, tables, kinds>>
  BY DEF Receive, TasksKept
<1>3. /\ output \in ProgramRecord /\ ProgramFits(output, prices) /\ output.step = "end"
      /\ task[c].kind = output.kind
      /\ Refreshing(output) => task[c].tickers = output.of
  BY <1>1 DEF ProgramsKept, ProcessesFit
<1>4. task[c] \in TaskRecord /\ (c = Worker => task[c].kind \in Jobs)
  BY <1>1 DEF TasksKept, CallsFit, Callers
<1>5. c = Worker => ~good
  BY <1>4 DEF Jobs
<1> HIDE DEF output
<1>6. CASE good
  <2>1. /\ new \in TaskRecord /\ new # Nothing /\ new.kind = task[c].kind /\ new.tickers = task[c].tickers
        /\ new.answer = output.dates /\ Refreshing(new)
    BY <1>3, <1>4, <1>6, OperationsAssumption
       DEF TaskRecord, ProgramRecord, Refreshing, OperationsAssumption
  <2>2. Refreshing(output)
    BY <1>3, <1>6 DEF Refreshing
  <2>3. \A t \in new.tickers : new.answer[t] \in prices[t]
    BY <1>3, <1>6, <2>1, <2>2 DEF ProgramFits, Acceptable, Refreshing
  <2> HIDE DEF new
  <2>4. TasksKept'
    BY <1>1, <1>2, <1>5, <1>6, <2>1, CallEnds
  <2>5. \A d \in Callers \ {c} : task'[d] = task[d]
    BY <1>2 DEF TasksKept
  <2>6. ProgramsKept' /\ TablesKept' /\ ProcessesFit'
    BY <1>1, <1>2, <2>5, LeavingFits
  <2>7. AnswersAreStored'
    BY <1>2, <2>3, <2>5 DEF AnswersAreStored, tables, TasksKept, Callers
  <2> QED
    BY <2>4, <2>6, <2>7
<1>7. CASE ~good
  <2>1. new = IF c = Worker THEN task[c] ELSE Nothing
    BY <1>7
  <2> HIDE DEF new, good
  <2>2. TasksKept'
    BY <1>1, <1>2, <1>4, <2>1, CallEnds
  <2>3. \A d \in Callers \ {c} : task'[d] = task[d]
    BY <1>2 DEF TasksKept
  <2>4. ProgramsKept' /\ TablesKept' /\ ProcessesFit'
    BY <1>1, <1>2, <2>3, LeavingFits
  <2>5. \A r \in Requests : task'[r] = task[r] \/ task'[r] = Nothing
    BY <1>2, <2>1 DEF TasksKept, Callers
  <2>6. AnswersAreStored'
    BY <1>2, <2>5 DEF AnswersAreStored, tables
  <2> QED
    BY <2>2, <2>4, <2>6
<1> QED
  BY <1>6, <1>7

\* The executor's shutdown ends the worker's call and clears the flag.
LEMMA ShutDownKeeps ==
    ASSUME IInv, GatewayFits', ShutDown
    PROVE  IInv'
<1> USE DEF IInv
<1>1. Worker \in Callers /\ Worker \notin Requests
  BY OperationsAssumption DEF OperationsAssumption, Callers
<1>2. /\ call[Worker] # "idle" /\ call' = [call EXCEPT ![Worker] = "idle"]
      /\ pid' = [pid EXCEPT ![Worker] = Nothing]
      /\ process' = process \/ process' = G!Left(pid[Worker])
  BY <1>1 DEF ShutDown, G!Interrupt, G!TurnAway, G!Release, GatewayFits, G!TypeOK
<1>3. /\ requested' = FALSE /\ worker' = "closed" /\ program' = Remaining
      /\ UNCHANGED <<tables, kinds>>
      /\ \A d \in Callers \ {Worker} : task'[d] = task[d]
      /\ task'[Worker] = Nothing /\ task' \in [Callers -> TaskRecord \cup {Nothing}]
  BY <1>1 DEF ShutDown, TasksKept
<1>4. ProgramsKept' /\ TablesKept' /\ ProcessesFit'
  BY <1>1, <1>2, <1>3, LeavingFits
<1>5. worker = "calling"
  BY <1>2 DEF TasksKept, CallsFit
<1>6. \A r \in Requests : Handing(r)' = Handing(r) /\ ~Handing(r)
  BY <1>1, <1>3, <1>5 DEF Handing, TasksKept, FlagFits, Callers
<1>7. FlagFits'
  BY <1>3, <1>6 DEF FlagFits, RequestedMeansWork
<1>8. CallsFit'
  BY <1>1, <1>2, <1>3 DEF TasksKept, CallsFit, GatewayFits, G!TypeOK, Callers
<1>9. TasksKept'
  BY <1>3, <1>7, <1>8 DEF TasksKept
<1>10. AnswersAreStored'
  BY <1>1, <1>3 DEF AnswersAreStored, tables, Callers
<1> QED
  BY <1>4, <1>9, <1>10

\* A call takes its permit, or runs out of time.
LEMMA WaitingKeeps ==
    ASSUME IInv, GatewayFits', NEW c \in Callers, Acquire(c) \/ TimeOut(c)
    PROVE  IInv'
<1> USE DEF IInv
<1>1. /\ call[c] # "idle" /\ UNCHANGED <<pid, task, requested, worker, program, tables, kinds>>
      /\ \A d \in Callers \ {c} : call'[d] = call[d]
      /\ \A p \in Pids : process'[p] = process[p] \/ (process[p] = "running" /\ process'[p] = "doomed")
  BY DEF Acquire, TimeOut, G!Acquire, G!TimeOut, G!Left, server, GatewayFits, G!TypeOK
<1>2. TasksKept'
  BY <1>1 DEF TasksKept, CallsFit, FlagFits, RequestedMeansWork, Handing, Callers
<1>3. ProcessesFit' /\ TablesKept' /\ AnswersAreStored'
  BY <1>1 DEF ProcessesFit, TablesKept, tables, AnswersAreStored
<1>4. ProgramsKept'
  BY <1>1 DEF ProgramsKept, tables
<1> QED
  BY <1>2, <1>3, <1>4

\* A process is started for the task of its thread.
LEMMA StartKeeps ==
    ASSUME IInv, GatewayFits', NEW c \in Callers, NEW p \in Pids, Start(c, p)
    PROVE  IInv'
<1> USE DEF IInv
<1> DEFINE kind == task[c].kind
           tickers == IF kind \in Jobs THEN Operational ELSE task[c].tickers
           new == Started(kind, tickers)
<1>1. /\ call[c] = "inside" /\ process[p] = "free"
      /\ call' = [call EXCEPT ![c] = "waiting"] /\ pid' = [pid EXCEPT ![c] = p]
      /\ process' = [process EXCEPT ![p] = "running"] /\ program' = [program EXCEPT ![p] = new]
      /\ UNCHANGED <<task, requested, worker, tables, kinds>>
  BY DEF Start, G!Start, server
<1>2. task[c] \in TaskRecord /\ (kind = "value" => task[c].tickers = {})
  BY <1>1 DEF TasksKept, CallsFit, Callers
<1>3. kind \in Kinds /\ tickers \in SUBSET Tickers
  BY <1>2, OperationsAssumption DEF TaskRecord, OperationsAssumption
<1>4. new \in ProgramRecord /\ ProgramFits(new, prices) /\ new.kind = kind /\ new.of = tickers
  BY <1>2, <1>3, StartedFits DEF Jobs
<1>5. new # Nothing
  BY <1>4, OperationsAssumption DEF OperationsAssumption
<1> HIDE DEF new
<1>6. /\ \A d \in Callers \ {c} : call'[d] = call[d] /\ pid'[d] = pid[d] /\ pid[d] # p
      /\ pid'[c] = p
      /\ \A q \in Pids \ {p} : process'[q] = process[q] /\ program'[q] = program[q]
      /\ process'[p] = "running" /\ program'[p] = new
  BY <1>1 DEF GatewayFits, G!TypeOK, ProgramsKept
<1>7. TasksKept'
  BY <1>1, <1>6 DEF TasksKept, CallsFit, FlagFits, RequestedMeansWork, Handing, Callers
<1>8. program' \in [Pids -> ProgramRecord \cup {Nothing}]
  BY <1>1, <1>4 DEF ProgramsKept
<1>9. ProgramsKept'
  BY <1>1, <1>4, <1>5, <1>6, <1>8 DEF ProgramsKept, tables
<1>10. ProcessesFit'
  <2>1. ASSUME NEW d \in Callers \ {c}, pid'[d] # Nothing PROVE pid'[d] = pid[d] /\ program'[pid'[d]] = program[pid[d]]
    BY <1>6, <2>1 DEF GatewayFits, G!TypeOK
  <2>2. Refreshing(new) => tickers = task[c].tickers
    BY <1>4 DEF Refreshing, Jobs
  <2> QED
    BY <1>1, <1>4, <1>5, <1>6, <2>1, <2>2 DEF ProcessesFit
<1>11. TablesKept' /\ AnswersAreStored'
  BY <1>1 DEF TablesKept, tables, AnswersAreStored
<1> QED
  BY <1>7, <1>9, <1>10, <1>11

\* A refresh is answered.
LEMMA AnswerKeeps ==
    ASSUME IInv, GatewayFits', NEW r \in Requests, Answer(r)
    PROVE  IInv'
<1> USE DEF IInv
<1>1. r # Worker /\ r \in Callers /\ Worker \in Callers
  BY OperationsAssumption DEF OperationsAssumption, Callers
<1>2. /\ task[r] # Nothing /\ task[r].answer # Nothing /\ task' = [task EXCEPT ![r] = Nothing]
      /\ UNCHANGED <<call, pid, process, requested, worker, program, tables, kinds>>
  BY DEF Answer, gateway
<1>3. /\ \A c \in Callers \ {r} : task'[c] = task[c]
      /\ task'[r] = Nothing /\ task' \in [Callers -> TaskRecord \cup {Nothing}]
  BY <1>1, <1>2 DEF TasksKept
<1>4. call[r] = "idle" /\ pid[r] = Nothing /\ Refreshing(task[r])
  BY <1>1, <1>2 DEF TasksKept, CallsFit, GatewayFits
<1>5. \A s \in Requests : Handing(s)' = Handing(s)
  BY <1>1, <1>3, <1>4 DEF Handing, Refreshing, Jobs, Callers
<1>6. FlagFits'
  BY <1>2, <1>5 DEF TasksKept, FlagFits, RequestedMeansWork
<1>7. CallsFit'
  BY <1>1, <1>2, <1>3, <1>4 DEF TasksKept, CallsFit, Callers
<1>8. TasksKept'
  BY <1>1, <1>2, <1>3, <1>6, <1>7 DEF TasksKept
<1>9. ProgramsKept' /\ TablesKept'
  BY <1>2 DEF ProgramsKept, TablesKept, tables
<1>10. ProcessesFit'
  BY <1>1, <1>2, <1>3, <1>4 DEF ProcessesFit
<1>11. AnswersAreStored'
  BY <1>1, <1>2, <1>3 DEF AnswersAreStored, tables, Callers
<1> QED
  BY <1>8, <1>9, <1>10, <1>11

\* After a restart no thread is at anything; what runs, runs on.
LEMMA RestartKeeps ==
    ASSUME IInv, GatewayFits', Restart
    PROVE  IInv'
<1> USE DEF IInv
<1>1. /\ task' = [c \in Callers |-> Nothing] /\ requested' = FALSE /\ worker' = "free"
      /\ call' = [c \in Callers |-> "idle"] /\ pid' = [c \in Callers |-> Nothing]
      /\ program' = Remaining /\ UNCHANGED <<tables, kinds>>
      /\ process' = [p \in Pids |-> IF process[p] \in {"exited", "failed"} THEN "free" ELSE process[p]]
  BY DEF Restart, G!Restart
<1>2. Requests \subseteq Callers /\ Worker \in Callers
  BY DEF Callers
<1>3. \A c \in Callers : task'[c] = Nothing /\ call'[c] = "idle" /\ pid'[c] = Nothing
  BY <1>1
<1>4. TasksKept'
  BY <1>1, <1>2, <1>3 DEF TasksKept, CallsFit, FlagFits, RequestedMeansWork, Handing
<1>5. ProcessesFit' /\ AnswersAreStored'
  BY <1>2, <1>3 DEF ProcessesFit, AnswersAreStored
<1>6. /\ process' \in [Pids -> G!ProcessStates]
      /\ \A p \in Pids : process[p] = "free" => process'[p] = "free"
      /\ \A p \in Pids : process'[p] # "exited"
  BY <1>1 DEF GatewayFits, G!TypeOK
<1>7. ProgramsKept' /\ TablesKept'
  BY <1>1, <1>6, RemainingFits
<1> QED
  BY <1>4, <1>5, <1>7

-----------------------------------------------------------------------------
(* The theorems                                                             *)

\* At first nothing is asked for and nothing runs.
LEMMA InitFits == ASSUME Init, GatewayFits PROVE IInv
<1>1. TasksKept
  BY OperationsAssumption
     DEF Init, G!Init, TasksKept, CallsFit, FlagFits, RequestedMeansWork, Handing, Callers, OperationsAssumption
<1>2. ProgramsKept /\ ProcessesFit
  BY DEF Init, G!Init, ProgramsKept, ProcessesFit
<1>3. TablesKept /\ AnswersAreStored
  BY OperationsAssumption DEF Init, TablesKept, AnswersAreStored, Callers, OperationsAssumption
<1> QED
  BY <1>1, <1>2, <1>3 DEF IInv

\* No step of a thread, a process or the host breaks the invariant.
LEMMA NextFits == ASSUME IInv, GatewayFits', [Next]_vars PROVE IInv'
<1>1. ASSUME NEW r \in Requests,
             \/ \E t \in Tickers : RefreshStock(r, t)
             \/ RefreshPortfolio(r) \/ CurrentPortfolio(r)
      PROVE  IInv'
  <2>1. ASSUME NEW kind \in {"single", "batch", "value"}, NEW tickers \in SUBSET Tickers
        PROVE  /\ Task(kind, tickers) \in TaskRecord
               /\ Task(kind, tickers).kind = kind /\ kind \notin Jobs
               /\ Task(kind, tickers).tickers = tickers /\ Task(kind, tickers).answer = Nothing
    BY DEF Task, TaskRecord, Kinds, Jobs
  <2>2. \A t \in Tickers : RefreshStock(r, t) => IInv'
    BY <2>1, BeginKeeps DEF RefreshStock
  <2>3. RefreshPortfolio(r) => IInv'
    BY <2>1, BeginKeeps, OperationsAssumption DEF RefreshPortfolio, OperationsAssumption
  <2>4. CurrentPortfolio(r) => IInv'
    BY <2>1, BeginKeeps DEF CurrentPortfolio
  <2> QED
    BY <1>1, <2>2, <2>3, <2>4
<1>2. ASSUME NEW r \in Requests, (\E job \in Jobs : RequestRun(r, job)) \/ RequestStep(r)
      PROVE  IInv'
  BY <1>2, HandingKeeps, AnswerKeeps DEF RequestStep
<1>3. ASSUME NEW c \in Callers, CallStep(c) PROVE IInv'
  BY <1>3, WaitingKeeps, StartKeeps, ReceiveKeeps, ThrowKeeps DEF CallStep
<1>4. CASE UNCHANGED vars
  BY <1>4 DEF vars, gateway, server, tables, IInv, GatewayFits, TasksKept, CallsFit, FlagFits, RequestedMeansWork,
              Handing, ProcessesFit, ProgramsKept, TablesKept, AnswersAreStored
<1> QED
  BY <1>1, <1>2, <1>3, <1>4, WorkerKeeps, ShutDownKeeps, RestartKeeps, ProcessStepKeeps DEF Next

\* What is shown of the gateway's calls holds of the operations.
LEMMA GatewayAlwaysFits == Spec => []GatewayFits
<1>1. OwnInv => GatewayFits
  BY DEF OwnInv, G!OwnProcess, GatewayFits
<1> QED
  BY <1>1, CallsHaveTheirProcess, ThreadsUseTheGateway, PTL

\* The invariant holds throughout.
LEMMA InvariantHolds == Spec => []IInv
<1>1. Spec => []GatewayFits
  BY GatewayAlwaysFits
<1> QED
  BY <1>1, InitFits, NextFits, PTL DEF Spec

\* Threads, programs and tables are at what they may be at.
THEOREM OperationsTypes == Spec => []TypeOK
<1>1. ASSUME IInv PROVE TypeOK
  BY <1>1 DEF IInv, GatewayFits, TasksKept, ProgramsKept, ProgramFits, TablesKept, TypeOK
<1> QED
  BY <1>1, InvariantHolds, PTL

\* SchedulerOperationsService: whatever way runs end, and however requests and the shutdown
\* of the executor interleave, the request flag is set just while there is a request.
THEOREM RequestsMeanWork == Spec => []RequestedMeansWork
<1>1. ASSUME IInv PROVE RequestedMeansWork
  BY <1>1 DEF IInv, TasksKept, FlagFits
<1> QED
  BY <1>1, InvariantHolds, PTL

\* calculate_many: whatever processes store rows of the same tickers, a batch that is
\* through has each ticker's row stored or has reported it.
THEOREM BatchesTryAll == Spec => []BatchTriesAll
<1>1. ASSUME IInv PROVE BatchTriesAll
  BY <1>1 DEF IInv, ProgramsKept, ProgramFits, Refreshing, BatchTriesAll
<1> QED
  BY <1>1, InvariantHolds, PTL

\* HerdService: the rows a refresh is answered with are those its own process has stored,
\* whichever threads share the gateway and whoever gives up.
THEOREM RefreshesStoreTheirAnswers == Spec => []AnswersAreStored
  BY InvariantHolds, PTL DEF IInv

=============================================================================
