---------------------------- MODULE QuantumService ----------------------------
(***************************************************************************)
(* The whole service, from a user's code to its result: the worker, the    *)
(* remote backend, the transpiler service, the job store, the simulators,  *)
(* and the operator, which takes part as its abstract specification        *)
(* JobLifecycle.                                                           *)
(* Each step is one component's, or two components' at a call.             *)
(***************************************************************************)
EXTENDS Integers

CONSTANTS
    Jobs,           \* job ids
    Requests,       \* runs of the remote backend, each with a circuit of its own
    Straight,       \* those in code that catches no exception, see Worker
    JobOf,          \* the job id a run sends: RemoteAerBackend draws one at random,
                    \* other clients of POST /transpile choose theirs
    MaxRetries,     \* MAX_RETRIES
    HasTimeOut,     \* JOB_TIMEOUT > 0
    HasTTL,         \* the operator deletes resources after DEFAULT_TTL_SECONDS
    UserMayDelete,  \* somebody deletes resources with kubectl
    FaultKinds,     \* which faults happen, see Fault
    None            \* no value, no result

VARIABLES
    phase, attempt, failed, succeeded,  \* the resources, see JobLifecycle
    store,                              \* see JobStore
    sim,                                \* see Simulator
    server, handler,                    \* see TranspilerService
    client, got,                        \* see RemoteAerJob
    worker,                             \* see Worker
    happened                            \* the faults so far that leave something behind

resource == <<phase, attempt, failed, succeeded>>
transpiler == <<server, handler>>
clients == <<client, got, worker>>
vars == <<resource, store, sim, transpiler, clients, happened>>

ASSUME JobsAssumption ==
    /\ JobOf \in [Requests -> Jobs] /\ Straight \subseteq Requests
    /\ None \notin Requests /\ None \notin [circuit : Requests, results : Requests \cup {None}]
ASSUME ParametersAssumption ==
    /\ MaxRetries \in Nat
    /\ HasTimeOut \in BOOLEAN /\ HasTTL \in BOOLEAN /\ UserMayDelete \in BOOLEAN
    /\ FaultKinds \subseteq {"api", "store", "network", "crash"}

Operator == INSTANCE JobLifecycle
Store == INSTANCE JobStore WITH Circuits <- Requests
Simulators == INSTANCE Simulator WITH Circuits <- Requests
Transpiler == INSTANCE TranspilerService
Backend == INSTANCE RemoteAerJob
Workers == INSTANCE Worker

Attempts == 0..MaxRetries

TypeOK ==
    /\ Operator!TypeOK /\ Store!TypeOK /\ Simulators!TypeOK
    /\ Transpiler!TypeOK /\ Backend!TypeOK /\ Workers!TypeOK
    /\ happened \subseteq FaultKinds

Init ==
    /\ Operator!Init /\ Store!Init /\ Simulators!Init /\ Transpiler!Init
    /\ Backend!Init /\ Workers!Init
    /\ happened = {}

\* A call of the transpiler to the API server fails ("api"), Redis fails or
\* forgets ("store"), a request of the client times out ("network"), the transpiler
\* service is killed ("crash").  No property needs to know of the last two.
Fault(k) ==
    /\ k \in FaultKinds
    /\ happened' = happened \cup ({k} \cap {"api", "store"})
NoFault == UNCHANGED happened

-----------------------------------------------------------------------------
(* Requests: the worker, the backend and the transpiler service.           *)

StartWorker(r) ==
    /\ Workers!Usage(r) \/ Workers!Execute(r)
    /\ UNCHANGED <<resource, store, sim, transpiler, client, got, happened>>

EndWorker(r) ==
    /\ Workers!Exception(r) \/ Workers!Complete(r)
    /\ UNCHANGED <<resource, store, sim, transpiler, client, got, happened>>

Run(r) ==
    /\ worker[r] = "executing"
    /\ Backend!Run(r)
    /\ Transpiler!Request(r, "received")
    /\ UNCHANGED <<resource, store, sim, worker, happened>>

\* Without a handler the connection is refused or has been reset.
Unanswered(r) == IF handler[r] = "none" THEN NoFault ELSE Fault("network")

\* (Mutant: a POST without a time limit.)
PostWithoutLimit(r) ==
    /\ handler[r] = "none"
    /\ Backend!PostTimesOut(r)
    /\ UNCHANGED <<resource, store, sim, transpiler, worker, happened>>
PostTimesOut(r) ==
    /\ Backend!PostTimesOut(r)
    /\ Unanswered(r)
    /\ UNCHANGED <<resource, store, sim, transpiler, worker>>

Transpile(r) ==
    /\ Transpiler!StoreCircuit(r) \/ Transpiler!Refuse(r)
    /\ UNCHANGED <<resource, sim, clients, happened>>

\* A call that fails may have been carried out all the same.
CreateResource(r) ==
    /\ \/ Transpiler!CreateResource(r) /\ Operator!Submit(JobOf[r]) /\ NoFault
       \/ Transpiler!Conflict(r) /\ UNCHANGED resource /\ NoFault
       \/ /\ Transpiler!CreateFails(r) /\ Fault("api")
          /\ Operator!Submit(JobOf[r]) \/ UNCHANGED resource
    /\ UNCHANGED <<sim, clients>>

Reply(r) ==
    /\ handler[r] \in {"accepted", "error"}
    /\ Backend!Answered(r, handler[r] = "accepted")
    /\ Transpiler!GoTo(r, "none")
    /\ UNCHANGED <<resource, store, sim, worker, happened>>

CallResult(r) ==
    /\ worker[r] = "executing"
    /\ Backend!CallResult(r)
    /\ UNCHANGED <<resource, store, sim, transpiler, worker, happened>>

\* One round of polling.  A round whose calls fail changes nothing.
PollStatus(r) ==
    LET status == Transpiler!StatusOf(JobOf[r])
    IN  /\ server = "up"
        /\ Backend!Poll(r, status, Transpiler!NotFound(status))
        /\ IF status = "completed" THEN Transpiler!GoTo(r, "asked") ELSE UNCHANGED transpiler
        /\ UNCHANGED <<resource, store, sim, worker, happened>>

\* The two steps of GET /job/<id>/result; a reply without a result is received
\* like the one that has it.
CheckCompleted(r) ==
    /\ \E status \in {Transpiler!StatusOf(JobOf[r]), Transpiler!Empty} :
        /\ Transpiler!CheckCompleted(r, status)
        /\ IF status = Transpiler!StatusOf(JobOf[r]) THEN NoFault ELSE Fault("api")
        /\ IF status = "completed" THEN UNCHANGED <<client, got>> ELSE Backend!Receive(r, None)
    /\ UNCHANGED <<resource, sim, worker>>

ReadResult(r) ==
    /\ Transpiler!Respond(r)
    /\ \/ Backend!Receive(r, Transpiler!ResultOf(r)) /\ NoFault
       \/ Backend!Receive(r, None) /\ Fault("store")
    /\ UNCHANGED <<resource, sim, worker>>

FetchTimesOut(r) ==
    /\ Backend!FetchTimesOut(r)
    /\ Unanswered(r)
    /\ Transpiler!GoTo(r, "none")
    /\ UNCHANGED <<resource, store, sim, worker>>

GiveUp(r) ==
    /\ Backend!GiveUp(r)
    /\ UNCHANGED <<resource, store, sim, transpiler, worker, happened>>

StartTranspiler ==
    /\ Transpiler!StartUp
    /\ UNCHANGED <<resource, sim, clients, happened>>

\* What a handler was about to do is not done; what it has stored stays.
CrashTranspiler ==
    /\ Transpiler!Crash
    /\ Fault("crash")
    /\ UNCHANGED <<resource, sim, clients>>

-----------------------------------------------------------------------------
(* Jobs: the operator, the simulators and the store.                       *)

Others == UNCHANGED <<transpiler, clients, happened>>

Operate(j) ==
    /\ \/ Operator!Admit(j) \/ Operator!Launch(j) \/ Operator!Relaunch(j)
       \/ Operator!Retry(j) \/ Operator!Complete(j) \/ Operator!Exhaust(j)
       \/ Operator!TimeOut(j)
       \/ HasTTL /\ phase[j] \in Operator!Terminal /\ Operator!Remove(j)
    /\ UNCHANGED <<store, sim>> /\ Others

\* kubectl delete, or delete_quantum_job, which has no caller.
Delete(j) ==
    /\ UserMayDelete /\ Operator!Remove(j)
    /\ UNCHANGED <<store, sim>> /\ Others

\* A pod is created for a pending job.  The operator may know so from its cache
\* only, but never of an earlier attempt (QuantumAerJobController!OnlyCurrentAttemptRuns).
CreatePod(j) ==
    /\ phase[j] \in Operator!Active \cup Operator!Terminal
    /\ Simulators!Create(j, attempt[j])
    /\ UNCHANGED resource /\ Others

Simulate(j, n) ==
    /\ \/ Simulators!Load(j, n) \/ Simulators!RunSimulation(j, n) \/ Simulators!Report(j, n)
       \/ Simulators!StoreResult(j, n) \/ Simulators!Raise(j, n)
    /\ UNCHANGED resource /\ Others

Exit(j, n) ==
    /\ \/ Simulators!ExitSuccess(j, n) /\ Operator!AttemptSucceeds(j, n)
       \/ Simulators!ExitFailure(j, n) /\ Operator!AttemptFails(j, n)
       \/ Simulators!ExitAtStart(j, n) /\ Operator!AttemptFails(j, n)
       \/ Simulators!Vanish(j, n) /\ (Operator!AttemptFails(j, n) \/ UNCHANGED resource)
    /\ Others

Forget(j) ==
    /\ Fault("store")
    /\ Store!Forget(j)
    /\ UNCHANGED <<resource, sim, transpiler, clients>>

-----------------------------------------------------------------------------
RequestStep(r) ==
    \/ StartWorker(r) \/ EndWorker(r)
    \/ Run(r) \/ PostTimesOut(r) \/ Transpile(r) \/ CreateResource(r) \/ Reply(r)
    \/ CallResult(r) \/ PollStatus(r) \/ CheckCompleted(r) \/ ReadResult(r) \/ FetchTimesOut(r) \/ GiveUp(r)

JobStep(j) ==
    \/ Operate(j) \/ Delete(j) \/ CreatePod(j) \/ Forget(j)
    \/ \E n \in Attempts : Simulate(j, n) \/ Exit(j, n)

Next ==
    \/ \E r \in Requests : RequestStep(r)
    \/ \E j \in Jobs : JobStep(j)
    \/ StartTranspiler \/ CrashTranspiler

Spec == Init /\ [][Next]_vars

\* A user's code ends or makes its next call, and a request ends at the latest with
\* its time limit.
WorkerFairness(r) ==
    /\ WF_vars(EndWorker(r) \/ Run(r) \/ CallResult(r))
    /\ WF_vars(PostTimesOut(r)) /\ WF_vars(FetchTimesOut(r))

\* The transpiler service is started again, and is neither down nor slow whenever
\* it is asked.
TranspilerFairness(r) ==
    /\ WF_vars(StartTranspiler)
    /\ SF_vars(PollStatus(r)) /\ SF_vars(CheckCompleted(r)) /\ SF_vars(ReadResult(r))

\* The operator decides every job that has a timeout, which is what
\* QuantumAerJobController!EventuallyFinished says of it.
OperatorFairness(j) ==
    /\ WF_vars(Operator!Admit(j) /\ UNCHANGED <<store, sim>> /\ Others)
    /\ WF_vars(Operator!TimeOut(j) /\ UNCHANGED <<store, sim>> /\ Others)

Fairness ==
    /\ \A r \in Requests : WorkerFairness(r) /\ TranspilerFairness(r)
    /\ \A j \in Jobs : OperatorFairness(j)

FairSpec == Spec /\ Fairness

-----------------------------------------------------------------------------
(* Properties.                                                             *)

\* A simulator finds its circuit: it is stored before the resource that makes the
\* operator start the simulator exists, and nothing takes it away but Redis.
CircuitBeforeResource ==
    \A j \in Jobs : phase[j] # "absent" /\ "store" \notin happened => store[j] # None

\* Where the API shows a job as completed, its result can be read: the status
\* is decided by the exit of a pod that has stored its result before.
CompletedHasResult ==
    \A j \in Jobs : phase[j] = "completed" /\ "store" \notin happened =>
        store[j] # None /\ store[j].results # None

\* A client that is told "Quantum job failed" is told the truth, although the
\* service has an empty status for jobs it cannot find or ask about.
FailureIsReal ==
    \A r \in Requests : client[r] = "failed" => phase[JobOf[r]] \in {"failed", "deleted"}

\* result() only trips over a reply it does not expect if the resource or the
\* stored data went away, or a call failed, after the job was seen completed.
BrokenForAReason ==
    \A r \in Requests : client[r] = "broken" =>
        phase[JobOf[r]] = "deleted" \/ happened \cap {"api", "store"} # {}

\* A client hears how its job ended, unless it gives up or the resource is gone and
\* cannot be asked about: no lost reply and no failed call makes it poll for ever.
AnswerArrives ==
    \A r \in Requests : client[r] = "polling" ~>
        \/ client[r] \in {"returned", "failed", "broken", "overdue"}
        \/ phase[JobOf[r]] = "deleted"

\* Every `python worker.py` ends, whatever becomes of the service and of the job, if
\* the time of its polling passes: nothing else in it waits without a limit.
WorkerEnds ==
    (\A r \in Requests : SF_vars(GiveUp(r))) =>
        \A r \in Requests : worker[r] = "executing" ~> worker[r] \in {"completed", "failed"}

\* Any code to which result() has returned has got a result, a simulator of its job
\* has exited with 0, and the operator has completed the job. "EXECUTION COMPLETED
\* SUCCESSFULLY", the exit code 0 of the worker, says as much of straight code only:
\* other code may have caught an exception, or never have asked for a result.
SuccessIsReal ==
    \A r \in Requests :
        client[r] = "returned" \/ (r \in Straight /\ worker[r] = "completed") =>
            /\ got[r] # None /\ succeeded[JobOf[r]] # {}
            /\ phase[JobOf[r]] \in {"completed", "deleted"}

-----------------------------------------------------------------------------
(* What the documentation, the comments and the replies say.               *)

\* "JobID is a unique identifier for this simulation job": the result of a job is
\* that of the circuit it was submitted with.
OneCircuitPerJob == \A r \in Requests : client[r] = "returned" => got[r] = r

\* "Job not completed", says the reply that makes result() give up.
NotCompletedIsTrue ==
    [][\A r \in Requests : handler[r] = "asked" /\ client[r] = "fetching" /\ client'[r] = "broken" =>
          phase[JobOf[r]] # "completed"]_vars
=============================================================================
