-------------------------- MODULE TranspilerService --------------------------
(***************************************************************************)
(* transpiler_service.py: the Flask handlers, each in a thread of its own. *)
(* A handler is as many steps as it makes calls to Redis and to the API    *)
(* server; GET /job/<id>/status makes one call, and is StatusOf here.      *)
(***************************************************************************)
CONSTANTS
    Requests,   \* clients, each with a circuit of its own
    JobOf,      \* the job id each of them sends
    Jobs, None

VARIABLES
    store,      \* see JobStore
    phase,      \* see JobLifecycle
    server,     \* the process
    handler     \* handler[r]: the handler of the request r is waiting for

Store == INSTANCE JobStore WITH Circuits <- Requests

\* "received", "stored": POST /transpile; "asked", "checked": GET /job/<id>/result.
\* The others are the replies to the first: 202 and 500 (or 400).
Steps == {"none", "received", "stored", "accepted", "error", "asked", "checked"}

TypeOK == server \in {"up", "down"} /\ handler \in [Requests -> Steps]

Init == server = "up" /\ handler = [r \in Requests |-> "none"]

GoTo(r, step) == handler' = [handler EXCEPT ![r] = step] /\ UNCHANGED server

\* The module's own code, run once: without the IBM service it goes on, without a
\* Kubernetes configuration or Redis it exits and is started again.
StartUp ==
    /\ server = "down" /\ server' = "up"
    /\ UNCHANGED <<store, handler>>

\* Killed by the liveness probe, or for its memory: the handlers go with it.
Crash ==
    /\ server = "up" /\ server' = "down"
    /\ handler' = [r \in Requests |-> "none"]
    /\ UNCHANGED store

\* A request reaches its handler if there is a process to take it.
Request(r, step) ==
    IF server = "up" THEN GoTo(r, step) ELSE UNCHANGED <<server, handler>>

\* No circuits, circuits that cannot be read or transpiled, Redis unavailable.
Refuse(r) ==
    /\ handler[r] = "received"
    /\ GoTo(r, "error")
    /\ UNCHANGED store

\* create_job_data, whatever is there under that id.  (Mutant: left for later.)
StoreNothing(r) ==
    /\ handler[r] = "received"
    /\ GoTo(r, "stored")
    /\ UNCHANGED store
StoreCircuit(r) ==
    /\ handler[r] = "received"
    /\ Store!CreateJobData(JobOf[r], r)
    /\ GoTo(r, "stored")

\* create_namespaced_custom_object: accepted, refused because the name exists (the
\* stored circuit stays), or failed.
CreateResource(r) ==
    /\ handler[r] = "stored" /\ phase[JobOf[r]] = "absent"
    /\ GoTo(r, "accepted")
    /\ UNCHANGED store

CreateFails(r) ==
    /\ handler[r] = "stored"
    /\ GoTo(r, "error")
    /\ UNCHANGED store

Conflict(r) == phase[JobOf[r]] \notin {"absent", "deleted"} /\ CreateFails(r)

\* get_quantum_job_status: the status is empty if the resource does not exist, if
\* the operator has not written one yet, or if the call fails.
Empty == ""
StatusOf(j) == IF phase[j] \in {"absent", "deleted"} THEN Empty ELSE phase[j]

\* get_job_status_endpoint: 404 for an empty status.
NotFound(status) == status = Empty

\* get_job_result_endpoint, first its status, then the data.
CheckCompleted(r, status) ==
    /\ handler[r] = "asked"
    /\ GoTo(r, IF status = "completed" THEN "checked" ELSE "none")
    /\ UNCHANGED store

Respond(r) ==
    /\ handler[r] = "checked"
    /\ GoTo(r, "none")
    /\ UNCHANGED store

\* The result in the reply: none for a value that is gone or has no results.
ResultOf(r) ==
    LET data == Store!GetJobData(JobOf[r]) IN IF data = None THEN None ELSE data.results
=============================================================================
