------------------------------ MODULE Simulator ------------------------------
(***************************************************************************)
(* simulator.py, in the pod of attempt n of job j, between the store it    *)
(* reads its circuit from and writes its result to, and the resource it    *)
(* reports to.  What the operator does about the pod is not here.          *)
(***************************************************************************)
EXTENDS Integers

CONSTANTS Jobs, MaxRetries, Circuits, None

VARIABLES
    store,  \* see JobStore
    phase,  \* see JobLifecycle
    sim     \* sim[j][n]: where the process is, and job_data once it has been read

Store == INSTANCE JobStore

Attempts == 0..MaxRetries
Steps == {"none", "created", "loaded", "simulated", "reported", "stored", "failing"}
NoProcess == [step |-> "none", data |-> None]

TypeOK == sim \in [Jobs -> [Attempts -> [step : Steps, data : Store!JobData \cup {None}]]]

Init == sim = [j \in Jobs |-> [n \in Attempts |-> NoProcess]]

ResourceExists(j) == phase[j] \notin {"absent", "deleted"}

GoTo(j, n, step) == sim' = [sim EXCEPT ![j][n].step = step]

\* The operator has created the pod.
Create(j, n) ==
    /\ sim[j][n].step = "none"
    /\ GoTo(j, n, "created")
    /\ UNCHANGED store

\* get_job_data; without a value, job_data.get raises.
Load(j, n) ==
    /\ sim[j][n].step = "created"
    /\ sim' = [sim EXCEPT ![j][n] =
                  IF Store!GetJobData(j) = None THEN [@ EXCEPT !.step = "failing"]
                  ELSE [step |-> "loaded", data |-> Store!GetJobData(j)]]
    /\ UNCHANGED store

\* On AerSimulator, or on the model of an IBM backend if the IBM service answers.
RunSimulation(j, n) ==
    /\ sim[j][n].step = "loaded"
    /\ GoTo(j, n, "simulated")
    /\ UNCHANGED store

\* update_quantum_job_status: the status is patched, if there is one to patch.
Report(j, n) ==
    /\ sim[j][n].step = "simulated"
    /\ GoTo(j, n, IF ResourceExists(j) THEN "reported" ELSE "failing")
    /\ UNCHANGED store

\* The serialized results go into job_data, the circuit as it was read, and the
\* whole is written back.
WithResults(data) == [data EXCEPT !.results = data.circuit]
StoreResult(j, n) ==
    /\ sim[j][n].step = "reported"
    /\ Store!UpdateJobData(j, WithResults(sim[j][n].data))
    /\ GoTo(j, n, "stored")

\* An exception anywhere in main; storing the result may have failed or not.
Raise(j, n) ==
    /\ sim[j][n].step \in {"created", "loaded", "simulated", "reported", "stored"}
    /\ GoTo(j, n, "failing")
    /\ UNCHANGED store

\* sys.exit(0).  (Mutant: the result is stored after the pod has exited.)
Leave(j, n) == sim' = [sim EXCEPT ![j][n] = NoProcess] /\ UNCHANGED store
ExitEarly(j, n) == sim[j][n].step = "reported" /\ Leave(j, n)
ExitSuccess(j, n) == sim[j][n].step = "stored" /\ Leave(j, n)

\* load_kube_config exits itself, which is not an Exception: nothing is reported.
ExitAtStart(j, n) == sim[j][n].step = "created" /\ Leave(j, n)

\* sys.exit(1)
ExitFailure(j, n) == sim[j][n].step = "failing" /\ Leave(j, n)

\* The container is killed, or the pod is deleted.
Vanish(j, n) == sim[j][n].step # "none" /\ Leave(j, n)
=============================================================================
