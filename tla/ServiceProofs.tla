---------------------------- MODULE ServiceProofs ----------------------------
(***************************************************************************)
(* The safety properties of QuantumService hold for any jobs, requests,    *)
(* retries and faults; those that rest on one request per job id, for any  *)
(* requests with ids of their own.                                         *)
(***************************************************************************)
EXTENDS QuantumService, TLAPS

\* RemoteAerBackend draws an id for each run.
UniqueIds == \A r1, r2 \in Requests : JobOf[r1] = JobOf[r2] => r1 = r2

Kept == "store" \notin happened
HasResult(j) == store[j] # None /\ store[j].results # None

\* What is in the store when somebody reads it: a resource, or a handler about to
\* create one, has its circuit there, and a simulator past its start holds a copy.
DataInv ==
    /\ \A j \in Jobs : \A n \in Attempts :
        sim[j][n].step \in {"loaded", "simulated", "reported"} => sim[j][n].data # None
    /\ \A r \in Requests : handler[r] = "stored" /\ Kept => store[JobOf[r]] # None
    /\ CircuitBeforeResource

\* What a client has been told is still true, and was true for a reason.
AnswerInv ==
    /\ \A j \in Jobs : phase[j] = "completed" => succeeded[j] # {}
    /\ FailureIsReal
    /\ \A r \in Requests : client[r] \in {"fetching", "returned"} =>
        phase[JobOf[r]] \in {"completed", "deleted"} /\ succeeded[JobOf[r]] # {}
    /\ \A r \in Requests : client[r] = "returned" => got[r] # None
    /\ \A r \in Requests : handler[r] \in {"asked", "checked"} => client[r] = "fetching"
    /\ \A r \in Requests : r \in Straight /\ worker[r] = "completed" => client[r] = "returned"

\* With unique ids nothing is stored for a job once its resource is there but what
\* its simulators store, and those store results.
BeforeInv ==
    /\ \A r \in Requests : client[r] = "idle" => handler[r] = "none"
    /\ \A r \in Requests : client[r] = "idle" \/ handler[r] \in {"received", "stored"} =>
        phase[JobOf[r]] = "absent"
    /\ \A j \in Jobs : phase[j] = "absent" =>
        succeeded[j] = {} /\ \A n \in Attempts : sim[j][n].step = "none"

ResultInv ==
    /\ \A j \in Jobs : Kept /\ succeeded[j] # {} => HasResult(j)
    /\ \A j \in Jobs : \A n \in Attempts : Kept /\ sim[j][n].step = "stored" => HasResult(j)
    /\ BrokenForAReason

-----------------------------------------------------------------------------
(* Types.                                                                  *)

\* What the parts of TypeOK say together.
LEMMA Types ==
    TypeOK <=>
        /\ phase \in [Jobs -> Operator!Phase] /\ attempt \in [Jobs -> Attempts]
        /\ failed \in [Jobs -> SUBSET Attempts] /\ succeeded \in [Jobs -> SUBSET Attempts]
        /\ store \in [Jobs -> Store!JobData \cup {None}]
        /\ sim \in [Jobs -> [Attempts -> [step : Simulators!Steps, data : Store!JobData \cup {None}]]]
        /\ server \in {"up", "down"} /\ handler \in [Requests -> Transpiler!Steps]
        /\ client \in [Requests -> Backend!Steps] /\ got \in [Requests -> Requests \cup {None}]
        /\ worker \in [Requests -> Workers!Steps]
        /\ happened \subseteq FaultKinds
BY DEF TypeOK, Operator!TypeOK, Store!TypeOK, Simulators!TypeOK, Transpiler!TypeOK, Backend!TypeOK,
    Workers!TypeOK, Attempts, Operator!Attempts, Simulators!Attempts, Store!JobData,
    Simulators!Store!JobData

\* A value that Redis holds is never the answer "nil".
LEMMA NoValue == None \notin Store!JobData
BY JobsAssumption DEF Store!JobData

-----------------------------------------------------------------------------
(* What each group of steps changes.                                       *)

\* The operator: one job, forward, and to "completed" after a success only.
LEMMA OperatorEffect ==
    ASSUME TypeOK, NEW j \in Jobs, Operate(j) \/ Delete(j)
    PROVE  /\ UNCHANGED <<succeeded, store, sim, transpiler, clients, happened>>
           /\ attempt' \in [Jobs -> Attempts] /\ failed' = failed
           /\ phase[j] \notin {"absent", "deleted"}
           /\ \E q \in Operator!Phase \ {"absent"} :
                /\ phase' = [phase EXCEPT ![j] = q]
                /\ q = "completed" => succeeded[j] # {}
                /\ phase[j] \in {"completed", "failed"} => q = "deleted"
<1> USE DEF Operate, Delete, Others, Operator!Move
<1> DEFINE Goal ==
    /\ UNCHANGED <<succeeded, store, sim, transpiler, clients, happened>>
    /\ attempt' \in [Jobs -> Attempts] /\ failed' = failed
    /\ phase[j] \notin {"absent", "deleted"}
    /\ \E q \in Operator!Phase \ {"absent"} :
         /\ phase' = [phase EXCEPT ![j] = q]
         /\ q = "completed" => succeeded[j] # {}
         /\ phase[j] \in {"completed", "failed"} => q = "deleted"
<1>0. attempt \in [Jobs -> Attempts]
  BY Types
<1>1. ASSUME Operator!Admit(j), UNCHANGED <<store, sim>>, Others PROVE Goal
  BY <1>0, <1>1 DEF Operator!Admit, Operator!Phase, Operator!Active
<1>2. ASSUME Operator!Launch(j), UNCHANGED <<store, sim>>, Others PROVE Goal
  BY <1>0, <1>2 DEF Operator!Launch, Operator!Phase, Operator!Active
<1>3. ASSUME Operator!Relaunch(j), UNCHANGED <<store, sim>>, Others PROVE Goal
  BY <1>0, <1>3 DEF Operator!Relaunch, Operator!Phase, Operator!Active
<1>4. ASSUME Operator!Retry(j), UNCHANGED <<store, sim>>, Others PROVE Goal
  <2>1. attempt[j] + 1 \in Attempts
    <3>1. attempt[j] \in 0..MaxRetries /\ attempt[j] < MaxRetries /\ MaxRetries \in Nat
      BY <1>0, <1>4, ParametersAssumption DEF Operator!Retry, Attempts
    <3> QED BY <3>1 DEF Attempts
  <2>2. attempt' \in [Jobs -> Attempts]
    BY <1>0, <1>4, <2>1 DEF Operator!Retry
  <2> QED BY <1>4, <2>2 DEF Operator!Retry, Operator!Phase, Operator!Active
<1>5. ASSUME Operator!Complete(j), UNCHANGED <<store, sim>>, Others PROVE Goal
  BY <1>0, <1>5 DEF Operator!Complete, Operator!Phase, Operator!Terminal
<1>6. ASSUME Operator!Exhaust(j), UNCHANGED <<store, sim>>, Others PROVE Goal
  BY <1>0, <1>6 DEF Operator!Exhaust, Operator!Phase, Operator!Terminal
<1>7. ASSUME Operator!TimeOut(j), UNCHANGED <<store, sim>>, Others PROVE Goal
  BY <1>0, <1>7 DEF Operator!TimeOut, Operator!Phase, Operator!Active, Operator!Terminal
<1>8. ASSUME Operator!Remove(j), UNCHANGED <<store, sim>>, Others PROVE Goal
  <2>1. 0 \in Attempts
    BY ParametersAssumption DEF Attempts
  <2>2. attempt' \in [Jobs -> Attempts]
    BY <1>0, <1>8, <2>1 DEF Operator!Remove
  <2> QED BY <1>8, <2>2 DEF Operator!Remove, Operator!Phase, Operator!Terminal
<1> QED BY <1>1, <1>2, <1>3, <1>4, <1>5, <1>6, <1>7, <1>8

\* A simulator: its own process, and in the store nothing but results.
Moves(j, n, s) == sim' = [sim EXCEPT ![j] = [sim[j] EXCEPT ![n] = s]]
Stores(j, n) ==
    /\ sim[j][n].data \in Store!JobData
    /\ \E d \in Store!JobData :
        /\ d.circuit = sim[j][n].data.circuit /\ d.results = d.circuit
        /\ store' = [store EXCEPT ![j] = d]
Process == [step : Simulators!Steps, data : Store!JobData \cup {None}]

\* A simulator's step leaves every other process as it was.
LEMMA MovesTypes ==
    ASSUME TypeOK, NEW j \in Jobs, NEW n \in Attempts, NEW s \in Process, Moves(j, n, s)
    PROVE  /\ sim' \in [Jobs -> [Attempts -> Process]]
           /\ \A i \in Jobs, m \in Attempts :
                sim'[i][m] = IF i = j /\ m = n THEN s ELSE sim[i][m]
BY Types DEF Moves, Process

\* Another step, the same job data.
LEMMA GoToMoves ==
    ASSUME TypeOK, NEW j \in Jobs, NEW n \in Attempts, NEW step \in Simulators!Steps,
           Simulators!GoTo(j, n, step)
    PROVE  \E s \in Process : Moves(j, n, s) /\ s.step = step /\ s.data = sim[j][n].data
<1> DEFINE s == [sim[j][n] EXCEPT !.step = step]
<1>1. sim[j][n] \in Process
  BY Types DEF Process
<1>2. s \in Process /\ s.step = step /\ s.data = sim[j][n].data
  BY <1>1 DEF Process
<1>3. Moves(j, n, s)
  BY Types DEF Simulators!GoTo, Moves
<1> QED BY <1>2, <1>3

\* A pod is created for the attempt that counts, of a job that has a resource.
LEMMA CreatePodEffect ==
    ASSUME TypeOK, NEW j \in Jobs, CreatePod(j)
    PROVE  /\ UNCHANGED <<resource, store, transpiler, clients, happened>>
           /\ phase[j] # "absent"
           /\ \E n \in Attempts : \E s \in Process :
                Moves(j, n, s) /\ s.step = "created" /\ s.data = sim[j][n].data
<1>1. attempt[j] \in Attempts /\ "created" \in Simulators!Steps
  BY Types DEF Simulators!Steps
<1>2. \E s \in Process :
        Moves(j, attempt[j], s) /\ s.step = "created" /\ s.data = sim[j][attempt[j]].data
  BY <1>1, GoToMoves DEF CreatePod, Simulators!Create
<1> QED BY <1>1, <1>2 DEF CreatePod, Simulators!Create, Others, Operator!Active, Operator!Terminal

\* A simulator goes past its start with job data only; what it stores is that data
\* with the results of its circuit.
LEMMA SimulateEffect ==
    ASSUME TypeOK, DataInv, NEW j \in Jobs, NEW n \in Attempts, Simulate(j, n)
    PROVE  /\ UNCHANGED <<resource, transpiler, clients, happened>>
           /\ sim[j][n].step # "none"
           /\ \E s \in Process :
                /\ Moves(j, n, s)
                /\ s.step \in {"loaded", "simulated", "reported"} => s.data # None
                /\ s.data \in {sim[j][n].data, store[j]}
                /\ \/ store' = store /\ s.step # "stored"
                   \/ Stores(j, n)
<1> DEFINE Goal == \E s \in Process :
                /\ Moves(j, n, s)
                /\ s.step \in {"loaded", "simulated", "reported"} => s.data # None
                /\ s.data \in {sim[j][n].data, store[j]}
                /\ \/ store' = store /\ s.step # "stored"
                   \/ Stores(j, n)
<1>0. UNCHANGED <<resource, transpiler, clients, happened>>
  BY DEF Simulate, Others
<1>1. sim[j][n] \in Process /\ store[j] \in Store!JobData \cup {None}
  BY Types DEF Process
<1>2. sim[j][n].step \in {"loaded", "simulated", "reported"} => sim[j][n].data # None
  BY DEF DataInv
<1>3. {"loaded", "simulated", "reported", "stored", "failing"} \subseteq Simulators!Steps
  BY DEF Simulators!Steps
<1>4. ASSUME Simulators!Load(j, n) PROVE Goal
  <2>1. CASE store[j] = None
    <3> DEFINE s == [sim[j][n] EXCEPT !.step = "failing"]
    <3>1. Moves(j, n, s)
      BY <1>4, <2>1, Types DEF Simulators!Load, Moves, Simulators!Store!GetJobData
    <3>2. s \in Process /\ s.step = "failing" /\ s.data = sim[j][n].data
      BY <1>1, <1>3 DEF Process
    <3> QED BY <1>4, <3>1, <3>2 DEF Simulators!Load
  <2>2. CASE store[j] # None
    <3> DEFINE s == [step |-> "loaded", data |-> store[j]]
    <3>1. Moves(j, n, s)
      BY <1>4, <2>2, Types DEF Simulators!Load, Moves, Simulators!Store!GetJobData
    <3>2. s \in Process /\ s.step = "loaded" /\ s.data # None /\ s.data = store[j]
      BY <1>1, <1>3, <2>2 DEF Process
    <3> QED BY <1>4, <3>1, <3>2 DEF Simulators!Load
  <2> QED BY <2>1, <2>2
<1>5. ASSUME Simulators!RunSimulation(j, n) PROVE Goal
  BY <1>2, <1>3, <1>5, GoToMoves DEF Simulators!RunSimulation
<1>6. ASSUME Simulators!Report(j, n) PROVE Goal
  <2>1. PICK step \in {"reported", "failing"} : Simulators!GoTo(j, n, step)
    BY <1>6 DEF Simulators!Report
  <2> QED BY <1>2, <1>3, <1>6, <2>1, GoToMoves DEF Simulators!Report
<1>7. ASSUME Simulators!StoreResult(j, n) PROVE Goal
  <2> DEFINE d == [sim[j][n].data EXCEPT !.results = sim[j][n].data.circuit]
  <2>1. sim[j][n].data \in Store!JobData
    BY <1>1, <1>2, <1>7 DEF Process, Simulators!StoreResult
  <2>2. d \in Store!JobData /\ d.circuit = sim[j][n].data.circuit /\ d.results = d.circuit
    BY <2>1, JobsAssumption DEF Store!JobData
  <2>3. store' = [store EXCEPT ![j] = d]
    BY <1>7 DEF Simulators!StoreResult, Simulators!Store!UpdateJobData, Simulators!WithResults
  <2>4. \E s \in Process : Moves(j, n, s) /\ s.step = "stored" /\ s.data = sim[j][n].data
    BY <1>3, <1>7, GoToMoves DEF Simulators!StoreResult
  <2>5. Stores(j, n)
    BY <2>1, <2>2, <2>3 DEF Stores
  <2> QED BY <2>4, <2>5
<1>8. ASSUME Simulators!Raise(j, n) PROVE Goal
  BY <1>3, <1>8, GoToMoves DEF Simulators!Raise
<1>9. sim[j][n].step # "none"
  BY DEF Simulate, Simulators!Load, Simulators!RunSimulation, Simulators!Report,
    Simulators!StoreResult, Simulators!Raise
<1> QED BY <1>0, <1>4, <1>5, <1>6, <1>7, <1>8, <1>9 DEF Simulate

\* The end of a process; exit code 0 only after its result was stored.
LEMMA ExitEffect ==
    ASSUME TypeOK, NEW j \in Jobs, NEW n \in Attempts, Exit(j, n)
    PROVE  /\ UNCHANGED <<phase, attempt, store, transpiler, clients, happened>>
           /\ sim[j][n].step # "none"
           /\ \E s \in Process : Moves(j, n, s) /\ s.step = "none" /\ s.data = None
           /\ failed' \in [Jobs -> SUBSET Attempts]
           /\ \/ succeeded' = succeeded
              \/ /\ sim[j][n].step = "stored"
                 /\ succeeded' = [succeeded EXCEPT ![j] = succeeded[j] \cup {n}]
<1>1. Simulators!Leave(j, n)
  BY DEF Exit, Simulators!ExitSuccess, Simulators!ExitFailure, Simulators!ExitAtStart,
    Simulators!Vanish
<1>2. Moves(j, n, [step |-> "none", data |-> None])
  BY <1>1, Types DEF Simulators!Leave, Moves, Simulators!NoProcess
<1>3. [step |-> "none", data |-> None] \in Process
  BY DEF Process, Simulators!Steps
<1>4. failed' \in [Jobs -> SUBSET Attempts]
  BY Types DEF Exit, Operator!AttemptFails, Operator!AttemptSucceeds, resource
<1>5. UNCHANGED <<phase, attempt, store, transpiler, clients, happened>>
  BY <1>1 DEF Exit, Others, Operator!AttemptFails, Operator!AttemptSucceeds, resource,
    Simulators!Leave
<1>6. sim[j][n].step # "none"
  BY DEF Exit, Simulators!ExitSuccess, Simulators!ExitFailure, Simulators!ExitAtStart,
    Simulators!Vanish
<1>7. \/ succeeded' = succeeded
      \/ /\ sim[j][n].step = "stored"
         /\ succeeded' = [succeeded EXCEPT ![j] = succeeded[j] \cup {n}]
  BY DEF Exit, Simulators!ExitSuccess, Operator!AttemptFails, Operator!AttemptSucceeds, resource
<1> QED BY <1>2, <1>3, <1>4, <1>5, <1>6, <1>7

\* Types, of the next state.
LEMMA TypesNext ==
    TypeOK' <=>
        /\ phase' \in [Jobs -> Operator!Phase] /\ attempt' \in [Jobs -> Attempts]
        /\ failed' \in [Jobs -> SUBSET Attempts] /\ succeeded' \in [Jobs -> SUBSET Attempts]
        /\ store' \in [Jobs -> Store!JobData \cup {None}]
        /\ sim' \in [Jobs -> [Attempts -> [step : Simulators!Steps, data : Store!JobData \cup {None}]]]
        /\ server' \in {"up", "down"} /\ handler' \in [Requests -> Transpiler!Steps]
        /\ client' \in [Requests -> Backend!Steps] /\ got' \in [Requests -> Requests \cup {None}]
        /\ worker' \in [Requests -> Workers!Steps]
        /\ happened' \subseteq FaultKinds
BY DEF TypeOK, Operator!TypeOK, Store!TypeOK, Simulators!TypeOK, Transpiler!TypeOK, Backend!TypeOK,
    Workers!TypeOK, Attempts, Operator!Attempts, Simulators!Attempts, Store!JobData,
    Simulators!Store!JobData

\* The initial state is well typed.
LEMMA TypeInit == Init => TypeOK
<1> SUFFICES ASSUME Init PROVE TypeOK
  OBVIOUS
<1>1. 0 \in Attempts
  BY ParametersAssumption DEF Attempts
<1> QED
  BY <1>1, Types DEF Init, Operator!Init, Store!Init, Simulators!Init, Transpiler!Init,
    Backend!Init,
    Workers!Init, Operator!Phase, Simulators!NoProcess, Simulators!Steps, Simulators!Attempts, Attempts,
    Transpiler!Steps, Backend!Steps, Workers!Steps

\* The steps of a client, of its worker and of the service for it keep the types.
LEMMA RequestTypes ==
    ASSUME TypeOK, NEW r \in Requests, RequestStep(r)
    PROVE  TypeOK'
<1> USE Types, TypesNext, JobsAssumption
    DEF resource, transpiler, clients, Fault, NoFault, Transpiler!Steps, Backend!Steps,
        Backend!Raised, Workers!Steps
<1>1. ASSUME StartWorker(r) PROVE TypeOK'
  BY <1>1 DEF StartWorker, Workers!Usage, Workers!Execute, Workers!Move
<1>2. ASSUME EndWorker(r) PROVE TypeOK'
  BY <1>2 DEF EndWorker, Workers!Exception, Workers!Complete, Workers!CodeEnds, Workers!Move
<1>3. ASSUME Run(r) PROVE TypeOK'
  BY <1>3 DEF Run, Backend!Run, Backend!Move, Transpiler!Request, Transpiler!GoTo
<1>4. ASSUME PostTimesOut(r) PROVE TypeOK'
  BY <1>4 DEF PostTimesOut, Backend!PostTimesOut, Backend!Move, Unanswered
<1>5. ASSUME Transpile(r) PROVE TypeOK'
  <2>1. [circuit |-> r, results |-> None] \in Store!JobData
    BY DEF Store!JobData
  <2>2. store' \in [Jobs -> Store!JobData \cup {None}]
    BY <1>5, <2>1 DEF Transpile, Transpiler!StoreCircuit, Transpiler!Refuse,
      Transpiler!Store!CreateJobData
  <2>3. handler' \in [Requests -> Transpiler!Steps] /\ server' = server
    BY <1>5 DEF Transpile, Transpiler!StoreCircuit, Transpiler!Refuse, Transpiler!GoTo
  <2> QED BY <1>5, <2>2, <2>3 DEF Transpile
<1>6. ASSUME CreateResource(r) PROVE TypeOK'
  <2>1. UNCHANGED resource \/ Operator!Submit(JobOf[r])
    BY <1>6 DEF CreateResource
  <2>2. /\ phase' \in [Jobs -> Operator!Phase]
        /\ UNCHANGED <<attempt, failed, succeeded>>
    <3>1. phase \in [Jobs -> Operator!Phase] /\ "" \in Operator!Phase
      BY DEF Operator!Phase
    <3>2. UNCHANGED resource \/ phase' = [phase EXCEPT ![JobOf[r]] = ""]
      BY <2>1 DEF Operator!Submit, Operator!Move
    <3>3. phase' \in [Jobs -> Operator!Phase]
      BY <3>1, <3>2
    <3> QED BY <2>1, <3>3 DEF Operator!Submit, Operator!Move
  <2>3. handler' \in [Requests -> Transpiler!Steps] /\ server' = server /\ store' = store
    BY <1>6 DEF CreateResource, Transpiler!CreateResource, Transpiler!Conflict,
      Transpiler!CreateFails, Transpiler!GoTo
  <2>4. happened' \subseteq FaultKinds /\ UNCHANGED <<sim, clients>>
    BY <1>6 DEF CreateResource
  <2> QED BY <2>2, <2>3, <2>4
<1>7. ASSUME Reply(r) PROVE TypeOK'
  BY <1>7 DEF Reply, Backend!Answered, Backend!Move, Transpiler!GoTo
<1>8. ASSUME PollStatus(r) PROVE TypeOK'
  BY <1>8 DEF PollStatus, Backend!Poll, Backend!Move, Transpiler!GoTo
<1>9. ASSUME CheckCompleted(r) PROVE TypeOK'
  <2>1. client' \in [Requests -> Backend!Steps] /\ got' \in [Requests -> Requests \cup {None}]
    BY <1>9 DEF CheckCompleted, Backend!Receive, Backend!Move
  <2>2. handler' \in [Requests -> Transpiler!Steps] /\ server' = server /\ store' = store
    BY <1>9 DEF CheckCompleted, Transpiler!CheckCompleted, Transpiler!GoTo
  <2>3. happened' \subseteq FaultKinds
    BY <1>9 DEF CheckCompleted
  <2> QED BY <1>9, <2>1, <2>2, <2>3 DEF CheckCompleted
<1>10. ASSUME ReadResult(r) PROVE TypeOK'
  BY <1>10 DEF ReadResult, Transpiler!Respond, Transpiler!GoTo, Transpiler!ResultOf,
    Transpiler!Store!GetJobData, Backend!Receive, Backend!Move, Store!JobData
<1>11. ASSUME FetchTimesOut(r) PROVE TypeOK'
  BY <1>11 DEF FetchTimesOut, Backend!FetchTimesOut, Backend!Move, Transpiler!GoTo, Unanswered
<1>12. ASSUME GiveUp(r) PROVE TypeOK'
  BY <1>12 DEF GiveUp, Backend!GiveUp, Backend!Move
<1>13. ASSUME CallResult(r) PROVE TypeOK'
  BY <1>13 DEF CallResult, Backend!CallResult, Backend!Move
<1> QED BY <1>1, <1>2, <1>3, <1>4, <1>5, <1>6, <1>7, <1>8, <1>9, <1>10, <1>11, <1>12, <1>13
  DEF RequestStep

\* Every step keeps the types; that of a simulator that stores needs DataInv.
LEMMA TypeStep == TypeOK /\ DataInv /\ [Next]_vars => TypeOK'
<1> SUFFICES ASSUME TypeOK, DataInv, [Next]_vars PROVE TypeOK'
  OBVIOUS
<1> USE DEF resource, transpiler, clients
<1>1. ASSUME NEW r \in Requests, RequestStep(r) PROVE TypeOK'
  BY <1>1, RequestTypes
<1>2. ASSUME NEW j \in Jobs, Operate(j) \/ Delete(j) PROVE TypeOK'
  BY <1>2, OperatorEffect, Types, TypesNext
<1>3. ASSUME NEW j \in Jobs, CreatePod(j) PROVE TypeOK'
  BY <1>3, CreatePodEffect, MovesTypes, Types, TypesNext DEF Process
<1>4. ASSUME NEW j \in Jobs, Forget(j) PROVE TypeOK'
  BY <1>4, Types, TypesNext DEF Forget, Fault, Store!Forget, Store!DeleteJobData
<1>5. ASSUME NEW j \in Jobs, NEW n \in Attempts, Simulate(j, n) PROVE TypeOK'
  <2>1. sim' \in [Jobs -> [Attempts -> Process]]
    BY <1>5, SimulateEffect, MovesTypes
  <2>2. store' \in [Jobs -> Store!JobData \cup {None}]
    BY <1>5, SimulateEffect, Types DEF Stores
  <2> QED BY <1>5, <2>1, <2>2, SimulateEffect, Types, TypesNext DEF Process
<1>6. ASSUME NEW j \in Jobs, NEW n \in Attempts, Exit(j, n) PROVE TypeOK'
  <2>1. sim' \in [Jobs -> [Attempts -> Process]]
    BY <1>6, ExitEffect, MovesTypes
  <2>2. succeeded' \in [Jobs -> SUBSET Attempts]
    <3>1. succeeded \in [Jobs -> SUBSET Attempts] /\ succeeded[j] \cup {n} \in SUBSET Attempts
      BY Types
    <3>2. succeeded' = succeeded \/ succeeded' = [succeeded EXCEPT ![j] = succeeded[j] \cup {n}]
      BY <1>6, ExitEffect
    <3> QED BY <3>1, <3>2
  <2> QED BY <1>6, <2>1, <2>2, ExitEffect, Types, TypesNext DEF Process
<1>7. ASSUME StartTranspiler PROVE TypeOK'
  BY <1>7, Types, TypesNext DEF StartTranspiler, Transpiler!StartUp
<1>8. ASSUME CrashTranspiler PROVE TypeOK'
  BY <1>8, Types, TypesNext DEF CrashTranspiler, Transpiler!Crash, Transpiler!Steps, Fault
<1>9. CASE UNCHANGED vars
  BY <1>9, Types, TypesNext DEF vars
<1> QED BY <1>1, <1>2, <1>3, <1>4, <1>5, <1>6, <1>7, <1>8, <1>9 DEF Next, JobStep

-----------------------------------------------------------------------------
(* DataInv.                                                                *)

\* Nothing is there in the beginning.
LEMMA DataInit == Init => DataInv
BY JobsAssumption DEF Init, DataInv, CircuitBeforeResource, Operator!Init, Store!Init,
  Simulators!Init,
    Transpiler!Init, Simulators!NoProcess, Simulators!Attempts, Attempts

\* A process that moves on with its data leaves every running process its data.
LEMMA MovesData ==
    ASSUME TypeOK, DataInv, NEW j \in Jobs, NEW n \in Attempts, NEW s \in Process, Moves(j, n, s),
           s.step \in {"loaded", "simulated", "reported"} => s.data # None
    PROVE  \A i \in Jobs : \A m \in Attempts :
                sim'[i][m].step \in {"loaded", "simulated", "reported"} => sim'[i][m].data # None
<1> TAKE i \in Jobs
<1> TAKE m \in Attempts
<1>1. sim'[i][m] = s \/ sim'[i][m] = sim[i][m]
  BY MovesTypes
<1>2. sim[i][m].step \in {"loaded", "simulated", "reported"} => sim[i][m].data # None
  BY DEF DataInv
<1> QED BY <1>1, <1>2

\* The parts of a request's step that DataInv depends on: the stored circuit comes
\* first, then the resource.
LEMMA RequestData ==
    ASSUME TypeOK, DataInv, NEW r \in Requests, RequestStep(r)
    PROVE  DataInv'
<1> USE Types, JobsAssumption DEF resource, transpiler, clients, Fault, NoFault, Kept
<1>1. sim' = sim
  BY DEF RequestStep, StartWorker, EndWorker, Run, PostTimesOut, Transpile, CreateResource, Reply, CallResult,
    PollStatus, CheckCompleted, ReadResult, FetchTimesOut, GiveUp
<1>2. CASE Transpile(r)
  <2>1. store' = store \/ store' = [store EXCEPT ![JobOf[r]] = [circuit |-> r, results |-> None]]
    BY <1>2 DEF Transpile, Transpiler!StoreCircuit, Transpiler!Refuse,
      Transpiler!Store!CreateJobData
  <2>2. [circuit |-> r, results |-> None] # None
    BY NoValue DEF Store!JobData
  <2>3. \A j \in Jobs : store[j] # None => store'[j] # None
    BY <2>1, <2>2
  <2>4. \/ handler' = [handler EXCEPT ![r] = "stored"] /\ store'[JobOf[r]] # None
        \/ handler' = [handler EXCEPT ![r] = "error"]
    BY <1>2, <2>2 DEF Transpile, Transpiler!StoreCircuit, Transpiler!Refuse, Transpiler!GoTo,
      Transpiler!Store!CreateJobData
  <2>5. \A q \in Requests : handler'[q] = "stored" => handler[q] = "stored" \/ store'[JobOf[q]] # None
    BY <2>4
  <2> QED BY <1>1, <1>2, <2>3, <2>5 DEF Transpile, DataInv, CircuitBeforeResource
<1>3. CASE CreateResource(r)
  <2>1. store' = store /\ handler[r] = "stored"
    BY <1>3 DEF CreateResource, Transpiler!CreateResource, Transpiler!Conflict,
      Transpiler!CreateFails
  <2>2. \A q \in Requests : handler'[q] = "stored" => handler[q] = "stored"
    BY <1>3 DEF CreateResource, Transpiler!CreateResource, Transpiler!Conflict,
      Transpiler!CreateFails, Transpiler!GoTo
  <2>3. \A j \in Jobs : phase'[j] = phase[j] \/ j = JobOf[r]
    BY <1>3 DEF CreateResource, Operator!Submit, Operator!Move
  <2>4. "store" \in happened => "store" \in happened'
    BY <1>3 DEF CreateResource
  <2> QED BY <1>1, <2>1, <2>2, <2>3, <2>4 DEF DataInv, CircuitBeforeResource
<1>4. CASE ~Transpile(r) /\ ~CreateResource(r)
  <2>1. phase' = phase /\ store' = store
    BY <1>4 DEF RequestStep, Transpiler!CheckCompleted, Transpiler!Respond, StartWorker,
      EndWorker, Run, PostTimesOut, Reply, CallResult, PollStatus, CheckCompleted, ReadResult, FetchTimesOut,
      GiveUp
  <2>2. "store" \in happened => "store" \in happened'
    BY <1>4 DEF RequestStep, Unanswered, StartWorker, EndWorker, Run, PostTimesOut, Reply, CallResult,
      PollStatus, CheckCompleted, ReadResult, FetchTimesOut, GiveUp
  <2>3. ASSUME NEW q \in Requests, handler'[q] = "stored" PROVE handler[q] = "stored"
    BY <1>4, <2>3 DEF RequestStep, Transpiler!CheckCompleted, Transpiler!Respond,
      Transpiler!Request,
      Transpiler!GoTo, Transpiler!Steps, StartWorker, EndWorker, Run, PostTimesOut, Reply, CallResult,
      PollStatus, CheckCompleted, ReadResult, FetchTimesOut, GiveUp
  <2> QED BY <1>1, <2>1, <2>2, <2>3 DEF DataInv, CircuitBeforeResource
<1> QED BY <1>2, <1>3, <1>4

\* No step leaves a resource, or a simulator past its start, without its circuit.
LEMMA DataStep == TypeOK /\ DataInv /\ [Next]_vars => DataInv'
<1> SUFFICES ASSUME TypeOK, DataInv, [Next]_vars PROVE DataInv'
  OBVIOUS
<1> USE Types DEF resource, transpiler, clients, Kept
<1>1. ASSUME NEW r \in Requests, RequestStep(r) PROVE DataInv'
  BY <1>1, RequestData
<1>2. ASSUME NEW j \in Jobs, Operate(j) \/ Delete(j) PROVE DataInv'
  <2>1. \A i \in Jobs : phase[i] = "absent" => phase'[i] = "absent"
    BY <1>2, OperatorEffect
  <2> QED BY <1>2, <2>1, OperatorEffect DEF DataInv, CircuitBeforeResource
<1>3. ASSUME NEW j \in Jobs, CreatePod(j) PROVE DataInv'
  <2>1. PICK n \in Attempts, s \in Process : Moves(j, n, s) /\ s.step = "created"
    BY <1>3, CreatePodEffect
  <2>2. \A i \in Jobs : \A m \in Attempts :
          sim'[i][m].step \in {"loaded", "simulated", "reported"} => sim'[i][m].data # None
    BY <2>1, MovesData
  <2>3. UNCHANGED <<phase, store, handler, happened>>
    BY <1>3, CreatePodEffect
  <2> QED BY <2>2, <2>3 DEF DataInv, CircuitBeforeResource
<1>4. ASSUME NEW j \in Jobs, Forget(j) PROVE DataInv'
  BY <1>4 DEF Forget, Fault, DataInv, CircuitBeforeResource
<1>5. ASSUME NEW j \in Jobs, NEW n \in Attempts, Simulate(j, n) PROVE DataInv'
  <2>1. \A i \in Jobs : store[i] # None => store'[i] # None
    BY <1>5, SimulateEffect, NoValue DEF Stores
  <2>2. \A i \in Jobs : \A m \in Attempts :
          sim'[i][m].step \in {"loaded", "simulated", "reported"} => sim'[i][m].data # None
    <3>1. PICK s \in Process :
            Moves(j, n, s) /\ (s.step \in {"loaded", "simulated", "reported"} => s.data # None)
      BY <1>5, SimulateEffect
    <3> QED BY <3>1, MovesData
  <2>3. UNCHANGED <<phase, handler, happened>>
    BY <1>5, SimulateEffect
  <2>4. \A r \in Requests : JobOf[r] \in Jobs
    BY JobsAssumption
  <2> QED BY <2>1, <2>2, <2>3, <2>4 DEF DataInv, CircuitBeforeResource
<1>6. ASSUME NEW j \in Jobs, NEW n \in Attempts, Exit(j, n) PROVE DataInv'
  <2>1. PICK s \in Process : Moves(j, n, s) /\ s.step = "none"
    BY <1>6, ExitEffect
  <2>2. \A i \in Jobs : \A m \in Attempts :
          sim'[i][m].step \in {"loaded", "simulated", "reported"} => sim'[i][m].data # None
    BY <2>1, MovesData
  <2>3. UNCHANGED <<phase, store, handler, happened>>
    BY <1>6, ExitEffect
  <2> QED BY <2>2, <2>3 DEF DataInv, CircuitBeforeResource
<1>7. ASSUME StartTranspiler PROVE DataInv'
  BY <1>7 DEF StartTranspiler, Transpiler!StartUp, DataInv, CircuitBeforeResource
<1>8. ASSUME CrashTranspiler PROVE DataInv'
  BY <1>8 DEF CrashTranspiler, Transpiler!Crash, Fault, DataInv, CircuitBeforeResource
<1>9. CASE UNCHANGED vars
  BY <1>9 DEF vars, DataInv, CircuitBeforeResource
<1> QED BY <1>1, <1>2, <1>3, <1>4, <1>5, <1>6, <1>7, <1>8, <1>9 DEF Next, JobStep

-----------------------------------------------------------------------------
(* AnswerInv.                                                              *)

\* Nobody has been told anything in the beginning.
LEMMA AnswerInit == Init => AnswerInv
BY DEF Init, AnswerInv, FailureIsReal, Operator!Init, Transpiler!Init, Backend!Init, Workers!Init

\* A request's step is about that request, and creates its resource at most.
LEMMA RequestLocal ==
    ASSUME TypeOK, NEW r \in Requests, RequestStep(r)
    PROVE  /\ \A q \in Requests \ {r} :
                /\ client'[q] = client[q] /\ got'[q] = got[q]
                /\ worker'[q] = worker[q] /\ handler'[q] = handler[q]
           /\ succeeded' = succeeded
           /\ \A j \in Jobs : phase'[j] = phase[j] \/ (phase[j] = "absent" /\ phase'[j] = Transpiler!Empty)
<1> USE Types DEF resource, transpiler, clients
<1> DEFINE Goal ==
    /\ \A q \in Requests \ {r} :
         /\ client'[q] = client[q] /\ got'[q] = got[q]
         /\ worker'[q] = worker[q] /\ handler'[q] = handler[q]
    /\ succeeded' = succeeded
    /\ \A j \in Jobs : phase'[j] = phase[j] \/ (phase[j] = "absent" /\ phase'[j] = Transpiler!Empty)
<1>1. ASSUME StartWorker(r) PROVE Goal
  BY <1>1 DEF StartWorker, Workers!Usage, Workers!Execute, Workers!Move, Transpiler!Empty
<1>2. ASSUME EndWorker(r) PROVE Goal
  BY <1>2 DEF EndWorker, Workers!Exception, Workers!Complete, Workers!CodeEnds, Workers!Move, Transpiler!Empty
<1>3. ASSUME Run(r) PROVE Goal
  BY <1>3 DEF Run, Backend!Run, Backend!Move, Transpiler!Request, Transpiler!GoTo, Transpiler!Empty
<1>4. ASSUME PostTimesOut(r) PROVE Goal
  BY <1>4 DEF PostTimesOut, Backend!PostTimesOut, Backend!Move, Unanswered, Transpiler!Empty
<1>5. ASSUME Transpile(r) PROVE Goal
  BY <1>5 DEF Transpile, Transpiler!StoreCircuit, Transpiler!Refuse, Transpiler!GoTo,
    Transpiler!Store!CreateJobData, Transpiler!Empty
<1>6. ASSUME CreateResource(r) PROVE Goal
  BY <1>6 DEF CreateResource, Transpiler!CreateResource, Transpiler!Conflict,
    Transpiler!CreateFails, Transpiler!GoTo, Operator!Submit, Operator!Move, resource,
    Transpiler!Empty
<1>7. ASSUME Reply(r) PROVE Goal
  BY <1>7 DEF Reply, Backend!Answered, Backend!Move, Transpiler!GoTo, Transpiler!Empty
<1>8. ASSUME PollStatus(r) PROVE Goal
  BY <1>8 DEF PollStatus, Backend!Poll, Backend!Move, Transpiler!GoTo, Transpiler!Empty
<1>9. ASSUME CheckCompleted(r) PROVE Goal
  BY <1>9 DEF CheckCompleted, Transpiler!CheckCompleted, Transpiler!GoTo, Backend!Receive,
    Backend!Move, Transpiler!Empty
<1>10. ASSUME ReadResult(r) PROVE Goal
  BY <1>10 DEF ReadResult, Transpiler!Respond, Transpiler!GoTo, Transpiler!ResultOf,
    Transpiler!Store!GetJobData, Backend!Receive, Backend!Move, Transpiler!Empty
<1>11. ASSUME FetchTimesOut(r) PROVE Goal
  BY <1>11 DEF FetchTimesOut, Backend!FetchTimesOut, Backend!Move, Transpiler!GoTo, Unanswered,
    Transpiler!Empty
<1>12. ASSUME GiveUp(r) PROVE Goal
  BY <1>12 DEF GiveUp, Backend!GiveUp, Backend!Move, Transpiler!Empty
<1>13. ASSUME CallResult(r) PROVE Goal
  BY <1>13 DEF CallResult, Backend!CallResult, Backend!Move, Transpiler!Empty
<1> QED BY <1>1, <1>2, <1>3, <1>4, <1>5, <1>6, <1>7, <1>8, <1>9, <1>10, <1>11, <1>12, <1>13
  DEF RequestStep

\* What AnswerInv says of one request.
Answered(r) ==
    /\ client[r] = "failed" => phase[JobOf[r]] \in {"failed", "deleted"}
    /\ client[r] \in {"fetching", "returned"} =>
        phase[JobOf[r]] \in {"completed", "deleted"} /\ succeeded[JobOf[r]] # {}
    /\ client[r] = "returned" => got[r] # None
    /\ handler[r] \in {"asked", "checked"} => client[r] = "fetching"
    /\ r \in Straight /\ worker[r] = "completed" => client[r] = "returned"

\* AnswerInv, request by request.
LEMMA AnswersOfAll ==
    AnswerInv <=> /\ \A j \in Jobs : phase[j] = "completed" => succeeded[j] # {}
                  /\ \A r \in Requests : Answered(r)
BY DEF AnswerInv, Answered, FailureIsReal

\* The same, of the next state.
LEMMA AnswersOfAllNext ==
    AnswerInv' <=> /\ \A j \in Jobs : phase'[j] = "completed" => succeeded'[j] # {}
                   /\ \A r \in Requests : Answered(r)'
BY DEF AnswerInv, Answered, FailureIsReal

\* The service answers what is so, and a client believes it no earlier.
LEMMA RequestAnswer ==
    ASSUME TypeOK, AnswerInv, NEW r \in Requests, RequestStep(r)
    PROVE  AnswerInv'
<1>0. /\ \A j \in Jobs : phase[j] = "completed" => succeeded[j] # {}
      /\ \A q \in Requests : Answered(q)
  BY AnswersOfAll
<1>1. \A j \in Jobs : phase'[j] = "completed" => succeeded'[j] # {}
  BY <1>0, RequestLocal DEF Transpiler!Empty
<1>2. \A q \in Requests \ {r} : Answered(q)'
  <2> SUFFICES ASSUME NEW q \in Requests \ {r} PROVE Answered(q)'
    OBVIOUS
  <2>1. Answered(q) /\ JobOf[q] \in Jobs
    BY <1>0, JobsAssumption
  <2> QED BY <2>1, RequestLocal DEF Answered
<1>3. Answered(r)'
  <2>1. Answered(r) /\ JobOf[r] \in Jobs
    BY <1>0, JobsAssumption
  <2>2. phase[JobOf[r]] = "completed" => succeeded[JobOf[r]] # {}
    BY <1>0, <2>1
  <2>3. succeeded' = succeeded /\ (phase'[JobOf[r]] = phase[JobOf[r]] \/ phase[JobOf[r]] = "absent")
    BY <2>1, RequestLocal
  <2> USE <2>1, <2>2, <2>3, Types DEF Answered, transpiler, clients
  <2>4. ASSUME StartWorker(r) PROVE Answered(r)'
    BY <2>4 DEF StartWorker, Workers!Usage, Workers!Execute, Workers!Move
  <2>5. ASSUME EndWorker(r) PROVE Answered(r)'
    BY <2>5 DEF EndWorker, Workers!Exception, Workers!Complete, Workers!CodeEnds, Workers!Move
  <2>6. ASSUME Run(r) PROVE Answered(r)'
    BY <2>6 DEF Run, Backend!Run, Backend!Move, Transpiler!Request, Transpiler!GoTo
  <2>7. ASSUME PostTimesOut(r) PROVE Answered(r)'
    BY <2>7 DEF PostTimesOut, Backend!PostTimesOut, Backend!Move, Unanswered
  <2>8. ASSUME Transpile(r) PROVE Answered(r)'
    BY <2>8 DEF Transpile, Transpiler!StoreCircuit, Transpiler!Refuse, Transpiler!GoTo,
      Transpiler!Store!CreateJobData
  <2>9. ASSUME CreateResource(r) PROVE Answered(r)'
    BY <2>9 DEF CreateResource, Transpiler!CreateResource, Transpiler!Conflict,
      Transpiler!CreateFails, Transpiler!GoTo, Operator!Submit, Operator!Move, resource
  <2>10. ASSUME Reply(r) PROVE Answered(r)'
    BY <2>10 DEF Reply, Backend!Answered, Backend!Move, Transpiler!GoTo
  <2>11. ASSUME PollStatus(r) PROVE Answered(r)'
    BY <2>11 DEF PollStatus, Backend!Poll, Backend!Move, Transpiler!GoTo, Transpiler!StatusOf,
      Transpiler!Empty
  <2>12. ASSUME CheckCompleted(r) PROVE Answered(r)'
    BY <2>12 DEF CheckCompleted, Transpiler!CheckCompleted, Transpiler!GoTo, Backend!Receive,
      Backend!Move
  <2>13. ASSUME ReadResult(r) PROVE Answered(r)'
    BY <2>13 DEF ReadResult, Transpiler!Respond, Transpiler!GoTo, Transpiler!ResultOf,
      Transpiler!Store!GetJobData, Backend!Receive, Backend!Move
  <2>14. ASSUME FetchTimesOut(r) PROVE Answered(r)'
    BY <2>14 DEF FetchTimesOut, Backend!FetchTimesOut, Backend!Move, Transpiler!GoTo, Unanswered
  <2>15. ASSUME GiveUp(r) PROVE Answered(r)'
    BY <2>15 DEF GiveUp, Backend!GiveUp, Backend!Move
  <2>16. ASSUME CallResult(r) PROVE Answered(r)'
    BY <2>16 DEF CallResult, Backend!CallResult, Backend!Move
  <2> QED BY <2>4, <2>5, <2>6, <2>7, <2>8, <2>9, <2>10, <2>11, <2>12, <2>13, <2>14,
    <2>15, <2>16 DEF RequestStep
<1> QED BY <1>1, <1>2, <1>3, AnswersOfAllNext

\* A job that moves on takes no answer back.
LEMMA JobAnswer ==
    ASSUME TypeOK, AnswerInv, UNCHANGED <<transpiler, clients>>,
           \A j \in Jobs : succeeded[j] # {} => succeeded'[j] # {},
           \A j \in Jobs : phase'[j] = "completed" => succeeded'[j] # {},
           \A j \in Jobs : phase[j] \in {"completed", "failed", "deleted"} => phase'[j] \in {phase[j], "deleted"}
    PROVE  AnswerInv'
<1> SUFFICES ASSUME NEW r \in Requests PROVE Answered(r)'
  BY AnswersOfAllNext
<1>1. Answered(r) /\ JobOf[r] \in Jobs
  BY AnswersOfAll, JobsAssumption
<1> QED BY <1>1 DEF Answered, transpiler, clients

\* No step makes an answer untrue.
LEMMA AnswerStep == TypeOK /\ DataInv /\ AnswerInv /\ [Next]_vars => AnswerInv'
<1> SUFFICES ASSUME TypeOK, DataInv, AnswerInv, [Next]_vars PROVE AnswerInv'
  OBVIOUS
<1>0. \A j \in Jobs : phase[j] = "completed" => succeeded[j] # {}
  BY DEF AnswerInv
<1>1. ASSUME NEW r \in Requests, RequestStep(r) PROVE AnswerInv'
  BY <1>1, RequestAnswer
<1>2. ASSUME NEW j \in Jobs, Operate(j) \/ Delete(j) PROVE AnswerInv'
  <2>1. PICK q \in Operator!Phase \ {"absent"} :
          /\ phase' = [phase EXCEPT ![j] = q]
          /\ q = "completed" => succeeded[j] # {}
          /\ phase[j] \in {"completed", "failed"} => q = "deleted"
    BY <1>2, OperatorEffect
  <2>2. UNCHANGED <<succeeded, transpiler, clients>> /\ phase[j] # "deleted"
    BY <1>2, OperatorEffect
  <2>3. phase \in [Jobs -> Operator!Phase]
    BY Types
  <2>4. \A i \in Jobs : phase'[i] = "completed" => succeeded'[i] # {}
    BY <1>0, <2>1, <2>2, <2>3
  <2>5. \A i \in Jobs : phase[i] \in {"completed", "failed", "deleted"} => phase'[i] \in {phase[i], "deleted"}
    BY <2>1, <2>2, <2>3
  <2> QED BY <2>2, <2>4, <2>5, JobAnswer
<1>3. ASSUME NEW j \in Jobs, CreatePod(j) PROVE AnswerInv'
  BY <1>0, <1>3, CreatePodEffect, JobAnswer DEF resource
<1>4. ASSUME NEW j \in Jobs, Forget(j) PROVE AnswerInv'
  BY <1>0, <1>4, JobAnswer DEF Forget, resource
<1>5. ASSUME NEW j \in Jobs, NEW n \in Attempts, Simulate(j, n) PROVE AnswerInv'
  BY <1>0, <1>5, SimulateEffect, JobAnswer DEF resource
<1>6. ASSUME NEW j \in Jobs, NEW n \in Attempts, Exit(j, n) PROVE AnswerInv'
  <2>1. \A i \in Jobs : succeeded[i] # {} => succeeded'[i] # {}
    <3>1. succeeded' = succeeded \/ succeeded' = [succeeded EXCEPT ![j] = succeeded[j] \cup {n}]
      BY <1>6, ExitEffect
    <3>2. DOMAIN succeeded = Jobs
      BY Types
    <3> QED BY <3>1, <3>2
  <2>2. phase' = phase /\ UNCHANGED <<transpiler, clients>>
    BY <1>6, ExitEffect
  <2> QED BY <1>0, <2>1, <2>2, JobAnswer
<1>7. ASSUME StartTranspiler PROVE AnswerInv'
  BY <1>7 DEF StartTranspiler, Transpiler!StartUp, AnswerInv, FailureIsReal, resource, clients
<1>8. ASSUME CrashTranspiler PROVE AnswerInv'
  BY <1>8 DEF CrashTranspiler, Transpiler!Crash, AnswerInv, FailureIsReal, resource, clients
<1>9. CASE UNCHANGED vars
  BY <1>9 DEF vars, AnswerInv, FailureIsReal, resource, transpiler, clients
<1> QED BY <1>1, <1>2, <1>3, <1>4, <1>5, <1>6, <1>7, <1>8, <1>9 DEF Next, JobStep

-----------------------------------------------------------------------------
(* BeforeInv and ResultInv, for requests with ids of their own.            *)

\* No job has begun in the beginning.
LEMMA BeforeInit == Init => BeforeInv /\ ResultInv
BY JobsAssumption DEF Init, BeforeInv, ResultInv, BrokenForAReason, Operator!Init, Transpiler!Init,
    Backend!Init, Simulators!Init, Simulators!NoProcess, Simulators!Attempts, Attempts, HasResult

\* What BeforeInv says of one request.
NotBegun(r) ==
    /\ client[r] = "idle" => handler[r] = "none"
    /\ client[r] = "idle" \/ handler[r] \in {"received", "stored"} => phase[JobOf[r]] = "absent"

NoTrace(j) == succeeded[j] = {} /\ \A n \in Attempts : sim[j][n].step = "none"

\* With unique ids only the request itself begins its job.
LEMMA RequestBefore ==
    ASSUME UniqueIds, TypeOK, BeforeInv, NEW r \in Requests, RequestStep(r)
    PROVE  BeforeInv'
<1>1. /\ \A q \in Requests : NotBegun(q)
      /\ \A j \in Jobs : phase[j] = "absent" => NoTrace(j)
  BY DEF BeforeInv, NotBegun, NoTrace
<1>2. sim' = sim
  BY DEF RequestStep, StartWorker, EndWorker, Run, PostTimesOut, Transpile, CreateResource, Reply, CallResult,
    PollStatus, CheckCompleted, ReadResult, FetchTimesOut, GiveUp
<1>3. \A j \in Jobs : phase'[j] = "absent" => NoTrace(j)'
  BY <1>1, <1>2, RequestLocal DEF Transpiler!Empty, NoTrace
<1>4. \A q \in Requests \ {r} : NotBegun(q)'
  <2> SUFFICES ASSUME NEW q \in Requests \ {r} PROVE NotBegun(q)'
    OBVIOUS
  <2>1. NotBegun(q) /\ JobOf[q] # JobOf[r]
    BY <1>1 DEF UniqueIds
  <2>2. phase'[JobOf[q]] = phase[JobOf[q]]
    BY <2>1, Types, JobsAssumption DEF RequestStep, Operator!Submit, Operator!Move, resource,
      StartWorker, EndWorker, Run, PostTimesOut, Transpile, CreateResource, Reply, CallResult, PollStatus,
      CheckCompleted, ReadResult, FetchTimesOut, GiveUp
  <2> QED BY <2>1, <2>2, RequestLocal DEF NotBegun
<1>5. NotBegun(r)'
  <2>1. NotBegun(r) /\ JobOf[r] \in Jobs
    BY <1>1, JobsAssumption
  <2> USE <2>1, Types DEF NotBegun, transpiler, clients, resource
  <2>2. ASSUME StartWorker(r) PROVE NotBegun(r)'
    BY <2>2 DEF StartWorker, Workers!Usage, Workers!Execute, Workers!Move
  <2>3. ASSUME EndWorker(r) PROVE NotBegun(r)'
    BY <2>3 DEF EndWorker, Workers!Exception, Workers!Complete, Workers!CodeEnds, Workers!Move
  <2>4. ASSUME Run(r) PROVE NotBegun(r)'
    BY <2>4 DEF Run, Backend!Run, Backend!Move, Transpiler!Request, Transpiler!GoTo
  <2>5. ASSUME PostTimesOut(r) PROVE NotBegun(r)'
    BY <2>5 DEF PostTimesOut, Backend!PostTimesOut, Backend!Move, Unanswered
  <2>6. ASSUME Transpile(r) PROVE NotBegun(r)'
    BY <2>6 DEF Transpile, Transpiler!StoreCircuit, Transpiler!Refuse, Transpiler!GoTo,
      Transpiler!Store!CreateJobData
  <2>7. ASSUME CreateResource(r) PROVE NotBegun(r)'
    BY <2>7 DEF CreateResource, Transpiler!CreateResource, Transpiler!Conflict,
      Transpiler!CreateFails, Transpiler!GoTo, Operator!Submit, Operator!Move, resource
  <2>8. ASSUME Reply(r) PROVE NotBegun(r)'
    BY <2>8 DEF Reply, Backend!Answered, Backend!Move, Transpiler!GoTo
  <2>9. ASSUME PollStatus(r) PROVE NotBegun(r)'
    BY <2>9 DEF PollStatus, Backend!Poll, Backend!Move, Transpiler!GoTo
  <2>10. ASSUME CheckCompleted(r) PROVE NotBegun(r)'
    BY <2>10 DEF CheckCompleted, Transpiler!CheckCompleted, Transpiler!GoTo, Backend!Receive,
      Backend!Move
  <2>11. ASSUME ReadResult(r) PROVE NotBegun(r)'
    BY <2>11 DEF ReadResult, Transpiler!Respond, Transpiler!GoTo, Transpiler!ResultOf,
      Transpiler!Store!GetJobData, Backend!Receive, Backend!Move
  <2>12. ASSUME FetchTimesOut(r) PROVE NotBegun(r)'
    BY <2>12 DEF FetchTimesOut, Backend!FetchTimesOut, Backend!Move, Transpiler!GoTo, Unanswered
  <2>13. ASSUME GiveUp(r) PROVE NotBegun(r)'
    BY <2>13 DEF GiveUp, Backend!GiveUp, Backend!Move
  <2>14. ASSUME CallResult(r) PROVE NotBegun(r)'
    BY <2>14 DEF CallResult, Backend!CallResult, Backend!Move
  <2> QED BY <2>2, <2>3, <2>4, <2>5, <2>6, <2>7, <2>8, <2>9, <2>10, <2>11, <2>12,
    <2>13, <2>14 DEF RequestStep
<1> QED BY <1>3, <1>4, <1>5 DEF BeforeInv, NotBegun, NoTrace

\* A job that has no resource takes no step.
LEMMA BeforeStep == UniqueIds /\ TypeOK /\ DataInv /\ BeforeInv /\ [Next]_vars => BeforeInv'
<1> SUFFICES ASSUME UniqueIds, TypeOK, DataInv, BeforeInv, [Next]_vars PROVE BeforeInv'
  OBVIOUS
<1> USE DEF resource, transpiler, clients
<1>0. /\ \A r \in Requests : NotBegun(r) /\ JobOf[r] \in Jobs
      /\ \A j \in Jobs : phase[j] = "absent" => NoTrace(j)
  BY JobsAssumption DEF BeforeInv, NotBegun, NoTrace
<1>a. ASSUME NEW j \in Jobs, phase[j] # "absent", UNCHANGED <<transpiler, clients>>,
             phase'[j] # "absent",
             \A i \in Jobs \ {j} : /\ phase'[i] = phase[i] /\ succeeded'[i] = succeeded[i]
                                   /\ \A n \in Attempts : sim'[i][n] = sim[i][n]
      PROVE  BeforeInv'
  <2>1. \A r \in Requests : NotBegun(r)'
    BY <1>0, <1>a DEF NotBegun
  <2>2. \A i \in Jobs : phase'[i] = "absent" => NoTrace(i)'
    BY <1>0, <1>a DEF NoTrace
  <2> QED BY <2>1, <2>2 DEF BeforeInv, NotBegun, NoTrace
<1>1. ASSUME NEW r \in Requests, RequestStep(r) PROVE BeforeInv'
  BY <1>1, RequestBefore
<1>2. ASSUME NEW j \in Jobs, Operate(j) \/ Delete(j) PROVE BeforeInv'
  <2>1. \A i \in Jobs \ {j} : phase'[i] = phase[i]
    <3>1. PICK q \in Operator!Phase : phase' = [phase EXCEPT ![j] = q]
      BY <1>2, OperatorEffect
    <3> QED BY <3>1, Types
  <2>2. phase[j] # "absent" /\ phase'[j] # "absent"
    BY <1>2, OperatorEffect, Types
  <2> QED BY <1>2, <2>1, <2>2, <1>a, OperatorEffect
<1>3. ASSUME NEW j \in Jobs, CreatePod(j) PROVE BeforeInv'
  <2>1. PICK n \in Attempts, s \in Process : Moves(j, n, s)
    BY <1>3, CreatePodEffect
  <2>2. \A i \in Jobs \ {j} : \A m \in Attempts : sim'[i][m] = sim[i][m]
    BY <2>1, MovesTypes
  <2> QED BY <1>3, <2>2, <1>a, CreatePodEffect
<1>4. ASSUME NEW j \in Jobs, Forget(j) PROVE BeforeInv'
  BY <1>4 DEF Forget, BeforeInv
<1>5. ASSUME NEW j \in Jobs, NEW n \in Attempts, Simulate(j, n) PROVE BeforeInv'
  <2>1. PICK s \in Process : Moves(j, n, s)
    BY <1>5, SimulateEffect
  <2>2. \A i \in Jobs \ {j} : \A m \in Attempts : sim'[i][m] = sim[i][m]
    BY <2>1, MovesTypes
  <2>3. phase[j] # "absent"
    BY <1>0, <1>5, SimulateEffect DEF NoTrace
  <2> QED BY <1>5, <2>2, <2>3, <1>a, SimulateEffect
<1>6. ASSUME NEW j \in Jobs, NEW n \in Attempts, Exit(j, n) PROVE BeforeInv'
  <2>1. PICK s \in Process : Moves(j, n, s)
    BY <1>6, ExitEffect
  <2>2. \A i \in Jobs \ {j} : \A m \in Attempts : sim'[i][m] = sim[i][m]
    BY <2>1, MovesTypes
  <2>3. phase[j] # "absent"
    BY <1>0, <1>6, ExitEffect DEF NoTrace
  <2>4. \A i \in Jobs \ {j} : succeeded'[i] = succeeded[i]
    <3>1. succeeded' = succeeded \/ succeeded' = [succeeded EXCEPT ![j] = succeeded[j] \cup {n}]
      BY <1>6, ExitEffect
    <3> QED BY <3>1, Types
  <2> QED BY <1>6, <2>2, <2>3, <2>4, <1>a, ExitEffect
<1>7. ASSUME StartTranspiler PROVE BeforeInv'
  BY <1>7 DEF StartTranspiler, Transpiler!StartUp, BeforeInv
<1>8. ASSUME CrashTranspiler PROVE BeforeInv'
  BY <1>8 DEF CrashTranspiler, Transpiler!Crash, BeforeInv
<1>9. CASE UNCHANGED vars
  BY <1>9 DEF vars, BeforeInv
<1> QED BY <1>1, <1>2, <1>3, <1>4, <1>5, <1>6, <1>7, <1>8, <1>9 DEF Next, JobStep

\* What ResultInv says of one job.
ResultThere(j) ==
    Kept /\ (succeeded[j] # {} \/ \E n \in Attempts : sim[j][n].step = "stored") => HasResult(j)

\* ResultInv, job by job.
LEMMA ResultsOfAll == ResultInv <=> (\A j \in Jobs : ResultThere(j)) /\ BrokenForAReason
BY DEF ResultInv, ResultThere

\* The same, of the next state.
LEMMA ResultsOfAllNext == ResultInv' <=> (\A j \in Jobs : ResultThere(j)') /\ BrokenForAReason'
BY DEF ResultInv, ResultThere

\* The only thing a request stores is a circuit, before its job has a simulator.
LEMMA RequestResult ==
    ASSUME TypeOK, DataInv, AnswerInv, BeforeInv, ResultInv, NEW r \in Requests, RequestStep(r)
    PROVE  \A j \in Jobs : ResultThere(j)'
<1>1. /\ \A j \in Jobs : ResultThere(j)
      /\ \A j \in Jobs : phase[j] = "absent" => NoTrace(j)
  BY ResultsOfAll DEF BeforeInv, NoTrace
<1>2. sim' = sim /\ succeeded' = succeeded
  BY RequestLocal DEF RequestStep, StartWorker, EndWorker, Run, PostTimesOut, Transpile,
    CreateResource, Reply, CallResult, PollStatus, CheckCompleted, ReadResult, FetchTimesOut, GiveUp
<1>3. Kept' => Kept
  BY DEF RequestStep, Kept, Fault, NoFault, Unanswered, StartWorker, EndWorker, Run, PostTimesOut,
    Transpile, CreateResource, Reply, CallResult, PollStatus, CheckCompleted, ReadResult, FetchTimesOut,
    GiveUp
<1>4. CASE Transpile(r)
  <2>1. ASSUME NEW j \in Jobs, j # JobOf[r] PROVE ResultThere(j)'
    <3>1. store'[j] = store[j]
      BY <1>4, <2>1, Types, JobsAssumption
        DEF Transpile, Transpiler!StoreCircuit, Transpiler!Refuse, Transpiler!Store!CreateJobData
    <3> QED BY <1>1, <1>2, <1>3, <2>1, <3>1 DEF ResultThere, HasResult, Kept
  <2>2. ResultThere(JobOf[r])'
    <3>1. handler[r] = "received"
      BY <1>4 DEF Transpile, Transpiler!StoreCircuit, Transpiler!Refuse
    <3>2. JobOf[r] \in Jobs /\ phase[JobOf[r]] = "absent"
      BY <3>1, JobsAssumption DEF BeforeInv
    <3> QED BY <1>1, <1>2, <3>2 DEF NoTrace, ResultThere
  <2> QED BY <2>1, <2>2
<1>5. CASE ~Transpile(r)
  <2>1. store' = store
    BY <1>5 DEF RequestStep, Transpiler!CheckCompleted, Transpiler!Respond,
      Transpiler!CreateResource,
      Transpiler!Conflict, Transpiler!CreateFails, StartWorker, EndWorker, Run, PostTimesOut,
      CreateResource, Reply, CallResult, PollStatus, CheckCompleted, ReadResult, FetchTimesOut, GiveUp
  <2> QED BY <1>1, <1>2, <1>3, <2>1 DEF ResultThere, HasResult
<1> QED BY <1>4, <1>5

\* result() trips: the job had been completed, so it is gone or its result was there.
LEMMA RequestBroken ==
    ASSUME TypeOK, AnswerInv, ResultInv, NEW r \in Requests, RequestStep(r)
    PROVE  BrokenForAReason'
<1> DEFINE Reason(q) == phase[JobOf[q]] = "deleted" \/ happened \cap {"api", "store"} # {}
<1>0. happened \subseteq happened'
  BY DEF RequestStep, Fault, NoFault, Unanswered, StartWorker, EndWorker, Run, PostTimesOut,
    Transpile, CreateResource, Reply, CallResult, PollStatus, CheckCompleted, ReadResult, FetchTimesOut,
    GiveUp
<1>1. \A q \in Requests : JobOf[q] \in Jobs
  BY JobsAssumption
<1>2. \A q \in Requests : client[q] = "broken" => Reason(q)
  BY DEF ResultInv, BrokenForAReason
<1>3. \A q \in Requests : Reason(q) => Reason(q)'
  BY <1>0, <1>1, RequestLocal
<1>4. CASE client'[r] # "broken" \/ client[r] = "broken"
  BY <1>2, <1>3, <1>4, RequestLocal DEF BrokenForAReason
<1>5. CASE client'[r] = "broken" /\ client[r] # "broken"
  <2>1. CheckCompleted(r) \/ ReadResult(r)
    BY <1>5, Types DEF RequestStep, StartWorker, EndWorker, Run, PostTimesOut, Transpile,
      CreateResource, Reply, CallResult, PollStatus, CheckCompleted, ReadResult, FetchTimesOut, GiveUp,
      Workers!Usage, Workers!Execute, Workers!Exception, Workers!Complete, Workers!CodeEnds, Workers!Move,
    Transpiler!Request, Transpiler!GoTo, Transpiler!StoreCircuit, Transpiler!Refuse,
    Transpiler!CreateResource,
    Transpiler!Conflict, Transpiler!CreateFails, Transpiler!CheckCompleted, Transpiler!Respond,
    Backend!Move, Backend!Run, Backend!PostTimesOut, Backend!Answered, Backend!CallResult,
    Backend!Poll, Backend!Receive,
    Backend!FetchTimesOut, Backend!GiveUp, clients
  <2>2. client[r] = "fetching"
    BY <1>5, <2>1, Types DEF CheckCompleted, ReadResult, Backend!Receive, Backend!Move
  <2>3. phase[JobOf[r]] \in {"completed", "deleted"} /\ succeeded[JobOf[r]] # {}
    BY <2>2 DEF AnswerInv
  <2>4. CASE phase[JobOf[r]] = "deleted"
    BY <1>1, <1>2, <1>3, <2>4, RequestLocal DEF BrokenForAReason
  <2>5. CASE phase[JobOf[r]] = "completed"
    <3>1. CASE CheckCompleted(r)
      <4>1. "api" \in happened'
        BY <1>5, <2>5, <3>1 DEF CheckCompleted, Transpiler!StatusOf, Transpiler!Empty, Fault
      <4> QED BY <4>1, <1>2, <1>3, RequestLocal DEF BrokenForAReason
    <3>2. CASE ReadResult(r)
      <4>1. CASE "store" \in happened
        BY <4>1, <1>0, <1>2, <1>3, RequestLocal DEF BrokenForAReason
      <4>2. CASE "store" \notin happened
        <5>1. HasResult(JobOf[r])
          BY <1>1, <2>3, <4>2 DEF ResultInv, Kept
        <5>2. Transpiler!ResultOf(r) # None
          BY <5>1 DEF HasResult, Transpiler!ResultOf, Transpiler!Store!GetJobData
        <5>3. "store" \in happened'
          BY <1>5, <3>2, <5>2, Types DEF ReadResult, Backend!Receive, Backend!Move, Fault
        <5> QED BY <5>3, <1>2, <1>3, RequestLocal DEF BrokenForAReason
      <4> QED BY <4>1, <4>2
    <3> QED BY <2>1, <3>1, <3>2
  <2> QED BY <2>3, <2>4, <2>5
<1> QED BY <1>4, <1>5

\* Nobody else makes a client trip, and a deleted resource stays deleted.
LEMMA JobBroken ==
    ASSUME ResultInv, client' = client, happened \subseteq happened',
           \A j \in Jobs : phase[j] = "deleted" => phase'[j] = "deleted"
    PROVE  BrokenForAReason'
BY JobsAssumption DEF ResultInv, BrokenForAReason

\* A result that is there stays there: a simulator that overwrites it writes one.
LEMMA ResultStep == TypeOK /\ DataInv /\ AnswerInv /\ BeforeInv /\ ResultInv /\ [Next]_vars => ResultInv'
<1> SUFFICES ASSUME TypeOK, DataInv, AnswerInv, BeforeInv, ResultInv, [Next]_vars PROVE ResultInv'
  OBVIOUS
<1> USE DEF resource, transpiler, clients
<1>0. \A j \in Jobs : ResultThere(j)
  BY ResultsOfAll
<1>1. ASSUME NEW r \in Requests, RequestStep(r) PROVE ResultInv'
  BY <1>1, RequestResult, RequestBroken, ResultsOfAllNext
<1>2. ASSUME NEW j \in Jobs, Operate(j) \/ Delete(j) PROVE ResultInv'
  <2>1. UNCHANGED <<succeeded, store, sim, client, happened>>
    BY <1>2, OperatorEffect
  <2>2. \A i \in Jobs : phase[i] = "deleted" => phase'[i] = "deleted"
    <3>1. PICK q \in Operator!Phase : phase' = [phase EXCEPT ![j] = q]
      BY <1>2, OperatorEffect
    <3>2. phase[j] # "deleted"
      BY <1>2, OperatorEffect
    <3> QED BY <3>1, <3>2, Types
  <2>3. \A i \in Jobs : ResultThere(i)'
    BY <1>0, <2>1 DEF ResultThere, HasResult, Kept
  <2> QED BY <2>1, <2>2, <2>3, JobBroken, ResultsOfAllNext
<1>3. ASSUME NEW j \in Jobs, CreatePod(j) PROVE ResultInv'
  <2>1. PICK n \in Attempts, s \in Process : Moves(j, n, s) /\ s.step = "created"
    BY <1>3, CreatePodEffect
  <2>2. \A i \in Jobs : \A m \in Attempts : sim'[i][m] = s \/ sim'[i][m] = sim[i][m]
    BY <2>1, MovesTypes
  <2>3. UNCHANGED <<phase, succeeded, store, client, happened>>
    BY <1>3, CreatePodEffect
  <2>4. \A i \in Jobs : ResultThere(i)'
    BY <1>0, <2>1, <2>2, <2>3 DEF ResultThere, HasResult, Kept
  <2> QED BY <2>3, <2>4, JobBroken, ResultsOfAllNext
<1>4. ASSUME NEW j \in Jobs, Forget(j) PROVE ResultInv'
  <2>1. "store" \in happened' /\ happened \subseteq happened' /\ UNCHANGED <<phase, client>>
    BY <1>4 DEF Forget, Fault
  <2> QED BY <2>1, JobBroken, ResultsOfAllNext DEF ResultThere, Kept
<1>5. ASSUME NEW j \in Jobs, NEW n \in Attempts, Simulate(j, n) PROVE ResultInv'
  <2>1. PICK s \in Process :
          /\ Moves(j, n, s)
          /\ \/ store' = store /\ s.step # "stored"
             \/ Stores(j, n)
    BY <1>5, SimulateEffect
  <2>2. UNCHANGED <<phase, succeeded, client, happened>>
    BY <1>5, SimulateEffect
  <2>3. CASE store' = store /\ s.step # "stored"
    <3>1. \A i \in Jobs : \A m \in Attempts : sim'[i][m] = s \/ sim'[i][m] = sim[i][m]
      BY <2>1, MovesTypes
    <3>2. \A i \in Jobs : ResultThere(i)'
      BY <1>0, <2>2, <2>3, <3>1 DEF ResultThere, HasResult, Kept
    <3> QED BY <2>2, <3>2, JobBroken, ResultsOfAllNext
  <2>4. CASE Stores(j, n)
    <3>1. \A i \in Jobs \ {j} : \A m \in Attempts : sim'[i][m] = sim[i][m]
      BY <2>1, MovesTypes
    <3>2. HasResult(j)' /\ \A i \in Jobs \ {j} : store'[i] = store[i]
      BY <2>4, NoValue, JobsAssumption, Types DEF HasResult, Stores, Store!JobData
    <3>3. \A i \in Jobs \ {j} : ResultThere(i)'
      BY <1>0, <2>2, <3>1, <3>2 DEF ResultThere, HasResult, Kept
    <3>4. ResultThere(j)'
      BY <3>2 DEF ResultThere
    <3> QED BY <2>2, <3>3, <3>4, JobBroken, ResultsOfAllNext
  <2> QED BY <2>1, <2>3, <2>4
<1>6. ASSUME NEW j \in Jobs, NEW n \in Attempts, Exit(j, n) PROVE ResultInv'
  <2>1. PICK s \in Process : Moves(j, n, s) /\ s.step = "none"
    BY <1>6, ExitEffect
  <2>2. \A i \in Jobs : \A m \in Attempts : sim'[i][m] = s \/ sim'[i][m] = sim[i][m]
    BY <2>1, MovesTypes
  <2>3. UNCHANGED <<phase, store, client, happened>>
    BY <1>6, ExitEffect
  <2>4. \A i \in Jobs : succeeded'[i] # {} =>
          succeeded[i] # {} \/ \E m \in Attempts : sim[i][m].step = "stored"
    <3>1. \/ succeeded' = succeeded
          \/ sim[j][n].step = "stored" /\ succeeded' = [succeeded EXCEPT ![j] = succeeded[j] \cup {n}]
      BY <1>6, ExitEffect
    <3> QED BY <3>1, Types
  <2>5. \A i \in Jobs : ResultThere(i)'
    BY <1>0, <2>1, <2>2, <2>3, <2>4 DEF ResultThere, HasResult, Kept
  <2> QED BY <2>3, <2>5, JobBroken, ResultsOfAllNext
<1>7. ASSUME StartTranspiler PROVE ResultInv'
  BY <1>7 DEF StartTranspiler, Transpiler!StartUp, ResultInv, BrokenForAReason, Kept, HasResult
<1>8. ASSUME CrashTranspiler PROVE ResultInv'
  BY <1>8 DEF CrashTranspiler, Transpiler!Crash, Fault, ResultInv, BrokenForAReason, Kept, HasResult
<1>9. CASE UNCHANGED vars
  BY <1>9 DEF vars, ResultInv, BrokenForAReason, Kept, HasResult
<1> QED BY <1>1, <1>2, <1>3, <1>4, <1>5, <1>6, <1>7, <1>8, <1>9 DEF Next, JobStep

-----------------------------------------------------------------------------
(* OwnInv: with unique ids nothing of another request is ever stored or    *)
(* returned.                                                               *)

Own(r, data) == data # None => data.circuit = r /\ data.results \in {None, r}

OwnInv ==
    \A r \in Requests :
        /\ Own(r, store[JobOf[r]])
        /\ \A n \in Attempts : Own(r, sim[JobOf[r]][n].data)
        /\ got[r] \in {None, r}

\* Nothing is stored or returned in the beginning.
LEMMA OwnInit == Init => OwnInv
BY JobsAssumption DEF Init, OwnInv, Own, Store!Init, Simulators!Init, Simulators!NoProcess,
  Backend!Init,
    Simulators!Attempts, Attempts

\* A request stores its own circuit, and reads what is stored under its own id.
LEMMA RequestOwn ==
    ASSUME UniqueIds, TypeOK, OwnInv, NEW r \in Requests, RequestStep(r)
    PROVE  OwnInv'
<1>1. sim' = sim
  BY DEF RequestStep, StartWorker, EndWorker, Run, PostTimesOut, Transpile, CreateResource, Reply, CallResult,
    PollStatus, CheckCompleted, ReadResult, FetchTimesOut, GiveUp
<1>2. \A q \in Requests : Own(q, store'[JobOf[q]])
  <2>1. CASE Transpile(r)
    <3>1. store' = store \/ store' = [store EXCEPT ![JobOf[r]] = [circuit |-> r, results |-> None]]
      BY <2>1 DEF Transpile, Transpiler!StoreCircuit, Transpiler!Refuse,
        Transpiler!Store!CreateJobData
    <3>2. Own(r, [circuit |-> r, results |-> None])
      BY DEF Own
    <3> TAKE q \in Requests
    <3>3. Own(q, store[JobOf[q]]) /\ JobOf[q] \in Jobs
      BY JobsAssumption DEF OwnInv
    <3>4. CASE JobOf[q] = JobOf[r]
      <4>1. q = r
        BY <3>4 DEF UniqueIds
      <4> QED BY <3>1, <3>2, <3>3, <4>1, Types
    <3>5. CASE JobOf[q] # JobOf[r]
      BY <3>1, <3>3, <3>5, Types
    <3> QED BY <3>4, <3>5
  <2>2. CASE ~Transpile(r)
    <3>1. store' = store
      BY <2>2 DEF RequestStep, Transpiler!CheckCompleted, Transpiler!Respond,
        Transpiler!CreateResource,
        Transpiler!Conflict, Transpiler!CreateFails, StartWorker, EndWorker, Run, PostTimesOut,
        CreateResource, Reply, CallResult, PollStatus, CheckCompleted, ReadResult, FetchTimesOut, GiveUp
    <3> QED BY <3>1 DEF OwnInv
  <2> QED BY <2>1, <2>2
<1>3. got'[r] \in {None, r}
  <2>1. CASE ReadResult(r)
    <3>1. Transpiler!ResultOf(r) \in {None, r}
      BY DEF OwnInv, Own, Transpiler!ResultOf, Transpiler!Store!GetJobData
    <3> QED BY <2>1, <3>1, Types DEF ReadResult, Backend!Receive
  <2>2. CASE CheckCompleted(r)
    BY <2>2, Types DEF CheckCompleted, Backend!Receive, OwnInv
  <2>3. CASE ~ReadResult(r) /\ ~CheckCompleted(r)
    <3>1. got' = got
      BY <2>3 DEF RequestStep, clients, Backend!Run, Backend!PostTimesOut, Backend!Answered,
        Backend!CallResult, Backend!Poll,
        Backend!FetchTimesOut, Backend!GiveUp, StartWorker, EndWorker, Run, PostTimesOut,
        Transpile, CreateResource, Reply, CallResult, PollStatus, FetchTimesOut, GiveUp
    <3> QED BY <3>1 DEF OwnInv
  <2> QED BY <2>1, <2>2, <2>3
<1>4. \A q \in Requests \ {r} : got'[q] \in {None, q}
  BY RequestLocal DEF OwnInv
<1> QED BY <1>1, <1>2, <1>3, <1>4 DEF OwnInv

\* A simulator writes what it has read under its own id.
LEMMA SimulatorOwn ==
    ASSUME TypeOK, OwnInv, NEW j \in Jobs, NEW n \in Attempts, NEW s \in Process, Moves(j, n, s),
           s.data \in {None, sim[j][n].data, store[j]}, store' = store \/ Stores(j, n), got' = got
    PROVE  OwnInv'
<1> SUFFICES ASSUME NEW r \in Requests
             PROVE  /\ Own(r, store'[JobOf[r]])
                    /\ \A m \in Attempts : Own(r, sim'[JobOf[r]][m].data)
                    /\ got'[r] \in {None, r}
  BY DEF OwnInv
<1>1. /\ JobOf[r] \in Jobs /\ got[r] \in {None, r}
      /\ Own(r, store[JobOf[r]]) /\ \A m \in Attempts : Own(r, sim[JobOf[r]][m].data)
  BY JobsAssumption DEF OwnInv
<1>2. Own(r, None)
  BY DEF Own
<1>3. \A m \in Attempts : Own(r, sim'[JobOf[r]][m].data)
  <2> TAKE m \in Attempts
  <2>1. CASE JobOf[r] = j /\ m = n
    BY <1>1, <1>2, <2>1, MovesTypes
  <2>2. CASE ~(JobOf[r] = j /\ m = n)
    BY <1>1, <2>2, MovesTypes
  <2> QED BY <2>1, <2>2
<1>4. Own(r, store'[JobOf[r]])
  <2>1. CASE store' = store
    BY <1>1, <2>1
  <2>2. CASE Stores(j, n)
    BY <1>1, <2>2, NoValue, Types DEF Stores, Own
  <2> QED BY <2>1, <2>2
<1> QED BY <1>1, <1>3, <1>4

\* No step mixes up two requests.
LEMMA OwnStep == UniqueIds /\ TypeOK /\ DataInv /\ OwnInv /\ [Next]_vars => OwnInv'
<1> SUFFICES ASSUME UniqueIds, TypeOK, DataInv, OwnInv, [Next]_vars PROVE OwnInv'
  OBVIOUS
<1> USE DEF resource, transpiler, clients
<1>1. ASSUME NEW r \in Requests, RequestStep(r) PROVE OwnInv'
  BY <1>1, RequestOwn
<1>2. ASSUME NEW j \in Jobs, Operate(j) \/ Delete(j) PROVE OwnInv'
  BY <1>2, OperatorEffect DEF OwnInv
<1>3. ASSUME NEW j \in Jobs, CreatePod(j) PROVE OwnInv'
  BY <1>3, CreatePodEffect, SimulatorOwn
<1>4. ASSUME NEW j \in Jobs, Forget(j) PROVE OwnInv'
  <2>1. store' = [store EXCEPT ![j] = None] /\ sim' = sim /\ got' = got
    BY <1>4 DEF Forget, Store!Forget, Store!DeleteJobData
  <2> QED BY <2>1, Types, JobsAssumption DEF OwnInv, Own
<1>5. ASSUME NEW j \in Jobs, NEW n \in Attempts, Simulate(j, n) PROVE OwnInv'
  BY <1>5, SimulateEffect, SimulatorOwn
<1>6. ASSUME NEW j \in Jobs, NEW n \in Attempts, Exit(j, n) PROVE OwnInv'
  BY <1>6, ExitEffect, SimulatorOwn
<1>7. ASSUME StartTranspiler PROVE OwnInv'
  BY <1>7 DEF StartTranspiler, Transpiler!StartUp, OwnInv
<1>8. ASSUME CrashTranspiler PROVE OwnInv'
  BY <1>8 DEF CrashTranspiler, Transpiler!Crash, OwnInv
<1>9. CASE UNCHANGED vars
  BY <1>9 DEF vars, OwnInv
<1> QED BY <1>1, <1>2, <1>3, <1>4, <1>5, <1>6, <1>7, <1>8, <1>9 DEF Next, JobStep

-----------------------------------------------------------------------------
(* Theorems.                                                               *)

\* For any requests, also such as share a job id: what DataInv and AnswerInv say of
\* the store and of the clients is true in every reachable state.
THEOREM ServiceInvariance == Spec => [](TypeOK /\ DataInv /\ AnswerInv)
<1>1. Init => TypeOK /\ DataInv /\ AnswerInv
  BY TypeInit, DataInit, AnswerInit
<1>2. TypeOK /\ DataInv /\ AnswerInv /\ [Next]_vars => (TypeOK /\ DataInv /\ AnswerInv)'
  BY TypeStep, DataStep, AnswerStep
<1> QED BY <1>1, <1>2, PTL DEF Spec

\* Type correctness of the composition and of its parts.
THEOREM ServiceTypes == Spec => []TypeOK
BY ServiceInvariance, PTL

\* The operator never starts a simulator whose circuit the service has not stored.
THEOREM CircuitIsThere == Spec => []CircuitBeforeResource
<1>1. DataInv => CircuitBeforeResource
  BY DEF DataInv
<1> QED BY <1>1, ServiceInvariance, PTL

\* "Quantum job failed" is said of failed jobs only, whatever calls and replies get lost.
THEOREM FailuresAreReal == Spec => []FailureIsReal
<1>1. AnswerInv => FailureIsReal
  BY DEF AnswerInv
<1> QED BY <1>1, ServiceInvariance, PTL

\* result() returns, to any code, a result only, after a simulator has succeeded and
\* the operator has completed the job; so code that catches nothing and does not exit
\* by itself (Straight, an assumption about the user) lets worker.py exit with 0 only then.
THEOREM SuccessesAreReal == Spec => []SuccessIsReal
<1>1. AnswerInv => SuccessIsReal
  BY DEF AnswerInv, SuccessIsReal
<1> QED BY <1>1, ServiceInvariance, PTL

\* With unique ids the four invariants hold together.
LEMMA UniqueInvariance ==
    ASSUME UniqueIds
    PROVE  Spec => [](TypeOK /\ DataInv /\ AnswerInv /\ BeforeInv /\ ResultInv)
<1>1. Init => TypeOK /\ DataInv /\ AnswerInv /\ BeforeInv /\ ResultInv
  BY TypeInit, DataInit, AnswerInit, BeforeInit
<1>2. TypeOK /\ DataInv /\ AnswerInv /\ BeforeInv /\ ResultInv /\ [Next]_vars
        => (TypeOK /\ DataInv /\ AnswerInv /\ BeforeInv /\ ResultInv)'
  BY UniqueIds, TypeStep, DataStep, AnswerStep, BeforeStep, ResultStep
<1> QED BY <1>1, <1>2, PTL DEF Spec

\* With unique ids the result of a completed job is in the store, whichever attempts
\* wrote to it in whichever order, unless Redis itself loses it.
THEOREM ResultIsThere ==
    ASSUME UniqueIds
    PROVE  Spec => []CompletedHasResult
<1>1. AnswerInv /\ ResultInv => CompletedHasResult
  BY DEF AnswerInv, ResultInv, CompletedHasResult, Kept, HasResult
<1> QED BY <1>1, UniqueInvariance, PTL

\* With unique ids result() trips over a reply only if the job is gone or a call failed.
THEOREM BrokenIsJustified ==
    ASSUME UniqueIds
    PROVE  Spec => []BrokenForAReason
<1>1. ResultInv => BrokenForAReason
  BY DEF ResultInv
<1> QED BY <1>1, UniqueInvariance, PTL

\* With unique ids a client is given the result of its own circuit: the reuse of an id
\* is all it takes, and all that can be, to be given another's.
THEOREM ResultIsOnesOwn ==
    ASSUME UniqueIds
    PROVE  Spec => []OneCircuitPerJob
<1>1. Init => TypeOK /\ DataInv /\ AnswerInv /\ OwnInv
  BY TypeInit, DataInit, AnswerInit, OwnInit
<1>2. TypeOK /\ DataInv /\ AnswerInv /\ OwnInv /\ [Next]_vars => (TypeOK /\ DataInv /\ AnswerInv /\ OwnInv)'
  BY UniqueIds, TypeStep, DataStep, AnswerStep, OwnStep
<1>3. AnswerInv /\ OwnInv => OneCircuitPerJob
  BY DEF AnswerInv, OwnInv, OneCircuitPerJob
<1> QED BY <1>1, <1>2, <1>3, PTL DEF Spec
=============================================================================
