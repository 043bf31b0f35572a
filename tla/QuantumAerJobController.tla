----------------------- MODULE QuantumAerJobController -----------------------
(***************************************************************************)
(* The quantum-job-operator: one controller-runtime worker that reconciles *)
(* QuantumAerJob resources, with everything it shares state with.          *)
(*                                                                         *)
(*   job, pod             the API server's objects, the truth              *)
(*   jobCache, podCache   the informer caches, the only thing Get reads    *)
(*   queue, rc            the work queue and the reconcile in progress     *)
(*   timedOut, expired    the clock, as far as the code compares it        *)
(*                                                                         *)
(* A reconcile is not atomic: each call to the API server is a step of its *)
(* own, and simulator pods, kubelets, informers, users, the clock and a    *)
(* crash of the operator act between any two of them.  rc.obj is the       *)
(* reconciler's copy of the resource, read at the beginning and used until *)
(* the end.                                                                *)
(*                                                                         *)
(* Wall-clock time is abstracted to the two comparisons the code makes:    *)
(* "now - startTime > timeOut" and "now - completionTime >= ttl" may       *)
(* become true at any time once the respective field is set.  Delays       *)
(* before a requeue are not modelled: a key in the queue is taken some day.*)
(***************************************************************************)
EXTENDS Integers

CONSTANTS
    Jobs,               \* names of the QuantumAerJob resources
    MaxRetries,         \* spec.maxRetries
    HasTimeOut,         \* spec.timeOut > 0
    HasTTL,             \* spec.ttlSecondsAfterFinished # nil
    UserMayDelete,      \* somebody deletes resources with kubectl
    FaultKinds,         \* which faults happen, see Fault
    MaxFaults,          \* bound: faults in a behaviour
    MaxPodFailures,     \* bound: failures of the pod of one attempt
    None                \* no object, no key

VARIABLES job, pod, submitted, timedOut, expired,
          jobCache, podCache, queue, rc, faults, failures, succeeded

cluster == <<job, pod>>
clock == <<timedOut, expired>>
caches == <<jobCache, podCache>>
history == <<failures, succeeded>>
vars == <<cluster, submitted, clock, caches, queue, rc, faults, history>>

Attempts == 0..MaxRetries
Terminal == {"completed", "failed"}
JobState == {"", "pending", "in progress"} \cup Terminal
NoPod == -1

\* The resource.  podName is "<name>-sim-<k>" in the code and k here; the times
\* are reduced to whether they are set, messages to who wrote them.
JobObject == [
    rv : Nat,                                   \* metadata.resourceVersion
    jobStatus : JobState,
    retries : Attempts,
    podName : Attempts \cup {NoPod},
    startTime : BOOLEAN,
    completionTime : BOOLEAN,
    errorMessage : {"", "simulator", "timeout", "retries"}]

Phases == {"Pending", "Running", "Succeeded", "Failed"}
\* The steps of simulator.py that others can see: running, status patched for a
\* success, status patched for a failure.
SimSteps == {"none", "working", "reported", "exiting"}
PodObject == [phase : Phases \cup {"absent"}, deleting : BOOLEAN, sim : SimSteps]
AbsentPod == [phase |-> "absent", deleting |-> FALSE, sim |-> "none"]

\* Where a reconcile is: the handler and the call it is about to make.
Steps == {"idle", "timeout", "new", "pending", "create", "name", "progress", "running",
          "lost", "delete failed", "retry", "exhausted", "complete",
          "terminal", "delete pod", "ttl"}
Idle == [pc |-> "idle", key |-> None, obj |-> None]

ASSUME JobsAssumption == None \notin Jobs /\ None \notin JobObject
ASSUME BoundsAssumption ==
    /\ MaxRetries \in Nat /\ MaxFaults \in Nat /\ MaxPodFailures \in Nat
    /\ FaultKinds \subseteq {"crash", "api", "read", "disruption"}
    /\ HasTimeOut \in BOOLEAN /\ HasTTL \in BOOLEAN /\ UserMayDelete \in BOOLEAN

TypeOK ==
    /\ job \in [Jobs -> JobObject \cup {None}]
    /\ pod \in [Jobs -> [Attempts -> PodObject]]
    /\ submitted \in SUBSET Jobs
    /\ timedOut \in SUBSET Jobs
    /\ expired \in SUBSET Jobs
    /\ jobCache \in [Jobs -> JobObject \cup {None}]
    /\ podCache \in [Jobs -> [Attempts -> Phases \cup {"absent"}]]
    /\ queue \in SUBSET Jobs
    /\ \/ rc = Idle
       \/ rc \in [pc : Steps \ {"idle"}, key : Jobs, obj : JobObject]
    /\ faults \in Nat
    /\ failures \in [Jobs -> [Attempts -> Nat]]
    /\ succeeded \in [Jobs -> SUBSET Attempts]

Init ==
    /\ job = [j \in Jobs |-> None]
    /\ pod = [j \in Jobs |-> [n \in Attempts |-> AbsentPod]]
    /\ submitted = {} /\ timedOut = {} /\ expired = {}
    /\ jobCache = [j \in Jobs |-> None]
    /\ podCache = [j \in Jobs |-> [n \in Attempts |-> "absent"]]
    /\ queue = {}
    /\ rc = Idle
    /\ faults = 0
    /\ failures = [j \in Jobs |-> [n \in Attempts |-> 0]]
    /\ succeeded = [j \in Jobs |-> {}]

Exists(j) == job[j] # None

-----------------------------------------------------------------------------
(* The API server.                                                         *)

AtVersion(o, v) == [o EXCEPT !.rv = v]

\* A fault of kind k happens now: "crash" of the operator, "api" for a write
\* and "read" for a Get of a pod that returns an error, "disruption" for a pod
\* deleted by someone else.
Fault(k) ==
    /\ k \in FaultKinds
    /\ faults < MaxFaults
    /\ faults' = faults + 1

\* What happens to the object of a pod.
NewPod == [phase |-> "Pending", deleting |-> FALSE, sim |-> "none"]
Terminating(p) == [p EXCEPT !.deleting = TRUE]
Running(p) == [p EXCEPT !.phase = "Running", !.sim = "working"]
Working(p, step) == [p EXCEPT !.sim = step]
Exited(p, phase) == [p EXCEPT !.phase = phase, !.sim = "none"]

\* Create: an existing object, even one being deleted, is left alone.
CreatePod(j, n) ==
    pod' = IF pod[j][n] = AbsentPod THEN [pod EXCEPT ![j][n] = NewPod] ELSE pod

\* Delete, by name: a pod that has terminated goes at once, any other when its
\* kubelet has stopped the container.
DeletePod(j, n) ==
    pod' = CASE pod[j][n].phase \in {"Succeeded", "Failed"} -> [pod EXCEPT ![j][n] = AbsentPod]
             [] pod[j][n].phase \in {"Pending", "Running"}  -> [pod EXCEPT ![j][n] = Terminating(@)]
             [] OTHER                                       -> pod

\* Optimistic concurrency: a status update is accepted only for the version it
\* was made from.
Accepts(j, o) == Exists(j) /\ job[j].rv = o.rv

-----------------------------------------------------------------------------
(* The reconciler.                                                         *)

GoTo(step) ==
    /\ rc' = [rc EXCEPT !.pc = step]
    /\ UNCHANGED queue

\* Every "return" that asks for another reconcile, at once, later or with an error.
Requeue ==
    /\ rc' = Idle
    /\ queue' = queue \cup {rc.key}

\* return ctrl.Result{}, nil
Done ==
    /\ rc' = Idle
    /\ UNCHANGED queue

\* The requeues nothing else stands in for, because no event announces that a
\* timeout or a TTL is over.  (Mutants: Done.)
Poll == Requeue
AwaitTTL == Requeue

\* r.Status().Update(ctx, job); every caller requeues, whatever it returns, so an
\* error after the update was carried out is the first disjunct.
StatusUpdate(new) ==
    /\ \/ /\ Accepts(rc.key, rc.obj)
          /\ job' = [job EXCEPT ![rc.key] = AtVersion(new, rc.obj.rv + 1)]
          /\ UNCHANGED faults
       \/ ~Accepts(rc.key, rc.obj) /\ UNCHANGED <<job, faults>>
       \/ Fault("api") /\ UNCHANGED job
    /\ Requeue
    /\ UNCHANGED <<pod, submitted, clock, caches, history>>

\* The changes to the status, each by the handler that makes it.
TimedOut(o) == [o EXCEPT !.jobStatus = "failed", !.errorMessage = "timeout", !.completionTime = TRUE]
Admitted(o) == [o EXCEPT !.jobStatus = "pending", !.startTime = TRUE, !.retries = 0]
Named(o) == [o EXCEPT !.podName = o.retries]
Launched(o) == [o EXCEPT !.jobStatus = "in progress"]
LostCounts(o) == [o EXCEPT !.jobStatus = "pending", !.podName = NoPod,
                           !.retries = IF @ < MaxRetries THEN @ + 1 ELSE @]  \* mutant
Lost(o) == [o EXCEPT !.jobStatus = "pending", !.podName = NoPod]
Retried(o) == [o EXCEPT !.retries = @ + 1, !.jobStatus = "pending", !.podName = NoPod]
Exhausted(o) == [o EXCEPT !.jobStatus = "failed", !.errorMessage = "retries", !.completionTime = TRUE]
Completed(o) == [o EXCEPT !.jobStatus = "completed", !.completionTime = TRUE]

TimeOutExceededAlways(j, o) == HasTimeOut /\ o.startTime /\ j \in timedOut  \* mutant
TimeOutExceeded(j, o) ==
    /\ HasTimeOut /\ o.startTime
    /\ j \in timedOut
    /\ o.jobStatus \notin Terminal

Handler(j, o) ==
    CASE TimeOutExceeded(j, o)          -> "timeout"
      [] ~TimeOutExceeded(j, o) /\ o.jobStatus = ""             -> "new"
      [] ~TimeOutExceeded(j, o) /\ o.jobStatus = "pending"      -> "pending"
      [] ~TimeOutExceeded(j, o) /\ o.jobStatus = "in progress"  -> "running"
      [] OTHER                          -> "terminal"

Reconcile(j) ==
    /\ rc = Idle
    /\ j \in queue
    /\ queue' = queue \ {j}
    /\ rc' = IF jobCache[j] = None THEN Idle
             ELSE [pc |-> Handler(j, jobCache[j]), key |-> j, obj |-> jobCache[j]]
    /\ UNCHANGED <<cluster, submitted, clock, caches, faults, history>>

UpdateTimedOut == rc.pc = "timeout" /\ StatusUpdate(TimedOut(rc.obj))

HandleNewJob == rc.pc = "new" /\ StatusUpdate(Admitted(rc.obj))

\* getForPod: what the cache says of the pod named in the status.
PodPhase(j, o) == IF o.podName = NoPod THEN "absent" ELSE podCache[j][o.podName]

\* getForPod returns an error other than NotFound.
GetFails == rc.obj.podName # NoPod /\ Fault("read")

HandlePendingJob ==
    /\ rc.pc = "pending"
    /\ \/ PodPhase(rc.key, rc.obj) = "absent" /\ GoTo("create") /\ UNCHANGED faults
       \/ PodPhase(rc.key, rc.obj) # "absent" /\ GoTo("progress") /\ UNCHANGED faults
       \/ GetFails /\ GoTo("progress")
    /\ UNCHANGED <<cluster, submitted, clock, caches, history>>

\* An error returned by Create, or by the look-up of the service account before
\* it; a request that fails may have been carried out all the same.
CreateSimulatorPod ==
    /\ rc.pc = "create"
    /\ \/ /\ CreatePod(rc.key, rc.obj.retries)
          /\ IF rc.obj.podName # rc.obj.retries THEN GoTo("name") ELSE Requeue
          /\ UNCHANGED faults
       \/ /\ Fault("api") /\ Requeue
          /\ CreatePod(rc.key, rc.obj.retries) \/ UNCHANGED pod
    /\ UNCHANGED <<job, submitted, clock, caches, history>>

UpdatePodName == rc.pc = "name" /\ StatusUpdate(Named(rc.obj))

UpdateProgress == rc.pc = "progress" /\ StatusUpdate(Launched(rc.obj))

\* What handleRunningJob does next, by the phase of the pod.  (Mutants: one retry
\* too many; a pod that is gone has done its work; what has not succeeded has failed.)
AfterPodOneMore(phase, o) ==
    CASE phase = "absent"    -> "lost"
      [] phase = "Failed"    -> IF o.retries <= MaxRetries THEN "delete failed" ELSE "exhausted"
      [] phase = "Succeeded" -> "complete"
      [] OTHER               -> "poll"
AfterPodGoneIsDone(phase, o) ==
    CASE phase = "Failed"    -> IF o.retries < MaxRetries THEN "delete failed" ELSE "exhausted"
      [] phase \in {"Succeeded", "absent"} -> "complete"
      [] OTHER               -> "poll"
AfterPodImpatient(phase, o) ==
    CASE phase = "absent"    -> "lost"
      [] phase = "Succeeded" -> "complete"
      [] OTHER               -> IF o.retries < MaxRetries THEN "delete failed" ELSE "exhausted"
AfterPod(phase, o) ==
    CASE phase = "absent"    -> "lost"
      [] phase = "Failed"    -> IF o.retries < MaxRetries THEN "delete failed" ELSE "exhausted"
      [] phase = "Succeeded" -> "complete"
      [] OTHER               -> "poll"

HandleRunningJob ==
    /\ rc.pc = "running"
    /\ \/ LET next == AfterPod(PodPhase(rc.key, rc.obj), rc.obj)
          IN  /\ IF next = "poll" THEN Poll ELSE GoTo(next)
              /\ UNCHANGED faults
       \/ GetFails /\ Requeue
    /\ UNCHANGED <<cluster, submitted, clock, caches, history>>

UpdateLost == rc.pc = "lost" /\ StatusUpdate(Lost(rc.obj))

\* r.Delete(ctx, pod), then the step after it; NotFound counts as success.
DeleteThen(step) ==
    /\ \/ DeletePod(rc.key, rc.obj.podName) /\ GoTo(step) /\ UNCHANGED faults
       \/ /\ Fault("api") /\ Requeue
          /\ DeletePod(rc.key, rc.obj.podName) \/ UNCHANGED pod
    /\ UNCHANGED <<job, submitted, clock, caches, history>>

DeleteForgotten ==  \* mutant
    /\ rc.pc = "delete failed" /\ GoTo("retry")
    /\ UNCHANGED <<cluster, submitted, clock, caches, faults, history>>
DeleteFailedPod == rc.pc = "delete failed" /\ DeleteThen("retry")

\* (Mutant: a conflict is met by writing the same status to the latest version.)
UpdateRetryOnConflict ==
    /\ rc.pc = "retry" /\ Exists(rc.key)
    /\ job' = [job EXCEPT ![rc.key] = AtVersion(Retried(rc.obj), @.rv + 1)]
    /\ Requeue
    /\ UNCHANGED <<pod, submitted, clock, caches, faults, history>>
UpdateRetry == rc.pc = "retry" /\ StatusUpdate(Retried(rc.obj))

UpdateExhausted == rc.pc = "exhausted" /\ StatusUpdate(Exhausted(rc.obj))

UpdateCompleted == rc.pc = "complete" /\ StatusUpdate(Completed(rc.obj))

HandleTerminalJob ==
    /\ rc.pc = "terminal"
    /\ \/ PodPhase(rc.key, rc.obj) = "absent" /\ GoTo("ttl") /\ UNCHANGED faults
       \/ PodPhase(rc.key, rc.obj) # "absent" /\ GoTo("delete pod") /\ UNCHANGED faults
       \/ GetFails /\ Requeue
    /\ UNCHANGED <<cluster, submitted, clock, caches, history>>

DeleteTerminalPod == rc.pc = "delete pod" /\ DeleteThen("ttl")

\* The end of handleTerminalJob: without a TTL the job is retained, before the
\* TTL it is looked at again, after it the resource is deleted.
CheckTTL ==
    /\ rc.pc = "ttl"
    /\ \/ /\ ~(HasTTL /\ rc.obj.completionTime)
          /\ Done /\ UNCHANGED <<job, faults>>
       \/ /\ HasTTL /\ rc.obj.completionTime /\ rc.key \notin expired
          /\ AwaitTTL /\ UNCHANGED <<job, faults>>
       \/ /\ HasTTL /\ rc.obj.completionTime /\ rc.key \in expired
          /\ \/ /\ job' = [job EXCEPT ![rc.key] = None]
                /\ Done /\ UNCHANGED faults
             \/ /\ Fault("api") /\ Requeue
                /\ (job' = [job EXCEPT ![rc.key] = None]) \/ UNCHANGED job
    /\ UNCHANGED <<pod, submitted, clock, caches, history>>

\* The operator dies and its Deployment starts another: the reconcile is gone,
\* the caches are filled from the API server and every resource is queued.
CrashRestart ==
    /\ Fault("crash")
    /\ rc' = Idle
    /\ jobCache' = job
    /\ podCache' = [j \in Jobs |-> [n \in Attempts |-> pod[j][n].phase]]
    /\ queue' = {j \in Jobs : Exists(j)}
    /\ UNCHANGED <<cluster, submitted, clock, history>>

-----------------------------------------------------------------------------
(* The informers: a cache catches up with the API server at any time, and  *)
(* the event puts the resource, or the owner of the pod, in the queue.     *)

SyncJob(j) ==
    /\ jobCache[j] # job[j]
    /\ jobCache' = [jobCache EXCEPT ![j] = job[j]]
    /\ queue' = queue \cup {j}
    /\ UNCHANGED <<cluster, submitted, clock, podCache, rc, faults, history>>

SyncPods(j) ==
    /\ podCache[j] # [n \in Attempts |-> pod[j][n].phase]
    /\ podCache' = [podCache EXCEPT ![j] = [n \in Attempts |-> pod[j][n].phase]]
    /\ queue' = queue \cup {j}
    /\ UNCHANGED <<cluster, submitted, clock, jobCache, rc, faults, history>>

-----------------------------------------------------------------------------
(* The simulator pods.                                                     *)

\* Every field of a step that does not concern the operator's own state.
OperatorUnchanged == UNCHANGED <<submitted, clock, caches, queue, rc>>

\* update_quantum_job_status: a merge patch of status.errorMessage, which no
\* version check can refuse.
WithError(o, message) == [o EXCEPT !.errorMessage = message]
PatchOnlyErrors(j, message) ==  \* mutant
    job' = IF message = "" THEN job
           ELSE [job EXCEPT ![j] = AtVersion(WithError(@, message), @.rv + 1)]
PatchError(j, message) ==
    job' = [job EXCEPT ![j] = AtVersion(WithError(@, message), @.rv + 1)]

StartSimulator(j, n) ==
    /\ pod[j][n].phase = "Pending" /\ ~pod[j][n].deleting
    /\ pod' = [pod EXCEPT ![j][n] = Running(@)]
    /\ OperatorUnchanged /\ UNCHANGED <<job, faults, history>>

\* The simulation has run: the status is patched before the result is stored.
ReportSuccess(j, n) ==
    /\ pod[j][n].sim = "working"
    /\ Exists(j)
    /\ PatchError(j, "")
    /\ pod' = [pod EXCEPT ![j][n] = Working(@, "reported")]
    /\ OperatorUnchanged /\ UNCHANGED <<faults, history>>

\* An exception anywhere in main, the storing of the result included: the
\* failure is reported if the API server takes it.
ReportFailure(j, n) ==
    /\ pod[j][n].sim \in {"working", "reported"}
    /\ failures[j][n] < MaxPodFailures
    /\ (Exists(j) /\ PatchError(j, "simulator")) \/ UNCHANGED job
    /\ pod' = [pod EXCEPT ![j][n] = Working(@, "exiting")]
    /\ OperatorUnchanged /\ UNCHANGED <<faults, history>>

\* The result is stored, sys.exit(0).
ExitSuccess(j, n) ==
    /\ pod[j][n].sim = "reported"
    /\ pod' = [pod EXCEPT ![j][n] = Exited(@, "Succeeded")]
    /\ succeeded' = [succeeded EXCEPT ![j] = @ \cup {n}]
    /\ OperatorUnchanged /\ UNCHANGED <<job, faults, failures>>

FailPod(j, n) ==
    /\ failures[j][n] < MaxPodFailures
    /\ pod' = [pod EXCEPT ![j][n] = Exited(@, "Failed")]
    /\ failures' = [failures EXCEPT ![j][n] = @ + 1]
    /\ OperatorUnchanged /\ UNCHANGED <<job, faults, succeeded>>

\* sys.exit(1)
ExitFailure(j, n) == pod[j][n].sim = "exiting" /\ FailPod(j, n)

\* The pod is evicted or its container is killed before it exits by itself.
KillPod(j, n) == pod[j][n].phase \in {"Pending", "Running"} /\ FailPod(j, n)

-----------------------------------------------------------------------------
(* The rest of the cluster.                                                *)

NewJob == [rv |-> 1, jobStatus |-> "", retries |-> 0, podName |-> NoPod,
           startTime |-> FALSE, completionTime |-> FALSE, errorMessage |-> ""]

\* The transpiler service, or a user, creates the resource.
Submit(j) ==
    /\ j \notin submitted
    /\ submitted' = submitted \cup {j}
    /\ job' = [job EXCEPT ![j] = NewJob]
    /\ UNCHANGED <<pod, clock, caches, queue, rc, faults, history>>

UserDelete(j) ==
    /\ UserMayDelete
    /\ Exists(j)
    /\ job' = [job EXCEPT ![j] = None]
    /\ OperatorUnchanged /\ UNCHANGED <<pod, faults, history>>

\* A node is drained: its pods are deleted.
Disrupt(j, n) ==
    /\ pod[j][n].phase # "absent" /\ ~pod[j][n].deleting
    /\ Fault("disruption")
    /\ DeletePod(j, n)
    /\ OperatorUnchanged /\ UNCHANGED <<job, history>>

\* The garbage collector deletes the pods whose owner is gone.
CollectPod(j, n) ==
    /\ ~Exists(j)
    /\ pod[j][n].phase # "absent" /\ ~pod[j][n].deleting
    /\ DeletePod(j, n)
    /\ OperatorUnchanged /\ UNCHANGED <<job, faults, history>>

\* The grace period of a deleted pod is over.
ReapPod(j, n) ==
    /\ pod[j][n].deleting
    /\ pod' = [pod EXCEPT ![j][n] = AbsentPod]
    /\ OperatorUnchanged /\ UNCHANGED <<job, faults, history>>

PassTimeOut(j) ==
    /\ HasTimeOut /\ Exists(j) /\ job[j].startTime /\ j \notin timedOut
    /\ timedOut' = timedOut \cup {j}
    /\ UNCHANGED <<cluster, submitted, expired, caches, queue, rc, faults, history>>

PassTTL(j) ==
    /\ HasTTL /\ Exists(j) /\ job[j].completionTime /\ j \notin expired
    /\ expired' = expired \cup {j}
    /\ UNCHANGED <<cluster, submitted, timedOut, caches, queue, rc, faults, history>>

-----------------------------------------------------------------------------
\* A step of the reconcile in progress.
OperatorStep ==
    \/ UpdateTimedOut \/ HandleNewJob
    \/ HandlePendingJob \/ CreateSimulatorPod \/ UpdatePodName \/ UpdateProgress
    \/ HandleRunningJob \/ UpdateLost \/ DeleteFailedPod \/ UpdateRetry
    \/ UpdateExhausted \/ UpdateCompleted
    \/ HandleTerminalJob \/ DeleteTerminalPod \/ CheckTTL

\* What others do to job j and to its pod n.
JobStep(j) ==
    Submit(j) \/ UserDelete(j) \/ PassTimeOut(j) \/ PassTTL(j) \/ SyncJob(j) \/ SyncPods(j)

PodStep(j, n) ==
    \/ StartSimulator(j, n) \/ ReportSuccess(j, n) \/ ReportFailure(j, n)
    \/ ExitSuccess(j, n) \/ ExitFailure(j, n) \/ KillPod(j, n)
    \/ Disrupt(j, n) \/ CollectPod(j, n) \/ ReapPod(j, n)

Next ==
    \/ OperatorStep
    \/ CrashRestart
    \/ \E j \in Jobs : Reconcile(j) \/ JobStep(j) \/ \E n \in Attempts : PodStep(j, n)

Spec == Init /\ [][Next]_vars

\* The worker keeps working and its queue is first-in first-out, so no key is
\* passed over for ever (strong, because a worker busy with another key disables
\* Reconcile); watches deliver; time passes; the garbage collector and kubelets
\* remove what is deleted.  Pods may never start, simulations may hang, and no
\* fault is obliged to happen.
Fairness ==
    /\ WF_vars(OperatorStep)
    /\ \A j \in Jobs :
        /\ SF_vars(Reconcile(j))
        /\ WF_vars(SyncJob(j)) /\ WF_vars(SyncPods(j))
        /\ WF_vars(PassTimeOut(j)) /\ WF_vars(PassTTL(j))
        /\ \A n \in Attempts :
            WF_vars(CollectPod(j, n)) /\ WF_vars(ReapPod(j, n))

FairSpec == Spec /\ Fairness

-----------------------------------------------------------------------------
(* Safety.                                                                 *)

\* A job that exists never has two simulators that are meant to run: whatever
\* was stale, lost or repeated, a pod that nobody has asked to delete belongs to
\* the attempt the resource counts now.  This is what naming pods by the retry
\* counter and treating AlreadyExists as success are for.
OnlyCurrentAttemptRuns ==
    \A j \in Jobs : Exists(j) =>
        \A n \in Attempts : pod[j][n].phase # "absent" /\ ~pod[j][n].deleting => n = job[j].retries

\* "Delete failed pod": although Delete goes by name and the phase comes from a
\* cache, a retry never hits a pod that still runs.  (Needs that only the
\* operator deletes pods and that the cache answers.)
RetryDeletesOnlyFailedPods ==
    [][rc.pc = "delete failed" /\ rc' # rc =>
        \A j \in Jobs : \A n \in Attempts :
            pod[j][n].phase \in {"Pending", "Running"} =>
                pod'[j][n].deleting = pod[j][n].deleting]_vars

\* Two simulator processes of a job never run at the same time, not even one
\* that is being deleted beside its successor: a retry follows a failed pod, and
\* a failed pod has no process.  (Needs the same.)
OneSimulatorAtATime ==
    \A j \in Jobs : \A m, n \in Attempts :
        pod[j][m].sim # "none" /\ pod[j][n].sim # "none" => m = n

\* A completed job was completed by the attempt it names: the pod of that very
\* attempt has exited with 0, however old the cached phase that was acted upon.
CompletedByItsAttempt ==
    \A j \in Jobs : Exists(j) /\ job[j].jobStatus = "completed" =>
        job[j].retries \in succeeded[j]

\* A job fails only if its time has run out or if the pod of every attempt it was
\* entitled to has failed: stale reads, conflicts and crashes never cost a retry.
FailedForAReason ==
    \A j \in Jobs : Exists(j) /\ job[j].jobStatus = "failed" =>
        j \in timedOut \/ \A n \in Attempts : failures[j][n] > 0

\* A completed job reports no error, although earlier attempts have left theirs
\* in the same field and the last pod may have been patching it moments before.
CompletedWithoutError ==
    \A j \in Jobs : Exists(j) /\ job[j].jobStatus = "completed" => job[j].errorMessage = ""

\* A finished job is never reopened, nor its verdict, its attempt or its pod
\* changed: late timeouts, stale reads and repeated reconciles lose against it.
TerminalIsFinal ==
    [][\A j \in Jobs :
        Exists(j) /\ job[j].jobStatus \in Terminal /\ Exists(j)' =>
            /\ job'[j].jobStatus = job[j].jobStatus
            /\ job'[j].retries = job[j].retries
            /\ job'[j].podName = job[j].podName]_vars

\* What the life of a resource is made of, see JobLifecycle.
PhaseOf == [j \in Jobs |-> IF Exists(j) THEN job[j].jobStatus
                           ELSE IF j \in submitted THEN "deleted" ELSE "absent"]
AttemptOf == [j \in Jobs |-> IF Exists(j) THEN job[j].retries ELSE 0]
FailedOf == [j \in Jobs |-> {n \in Attempts : failures[j][n] > 0}]

Lifecycle == INSTANCE JobLifecycle WITH
    phase <- PhaseOf, attempt <- AttemptOf, failed <- FailedOf

\* The life of each resource is one JobLifecycle allows: each change of the
\* status the API shows is a legal one, made for the reason it should have, no
\* matter how many reads, conflicts, crashes and pods lie behind it.
ImplementsLifecycle == Lifecycle!Spec

-----------------------------------------------------------------------------
(* Liveness.                                                               *)

Finished(j) == Exists(j) => job[j].jobStatus \in Terminal

\* A job with a timeout is decided some day, even if its simulation hangs.
EventuallyFinished == \A j \in Jobs : Exists(j) ~> Finished(j)

\* A job with a TTL leaves nothing behind: the resource is deleted, and so is
\* every pod that was ever created for it, known to the status or not.
EventuallyCollected ==
    \A j \in Jobs : (Exists(j) /\ job[j].jobStatus \in Terminal) ~>
        (~Exists(j) /\ \A n \in Attempts : pod[j][n] = AbsentPod)

-----------------------------------------------------------------------------
(* What the documentation and the comments say, and the code does not do.  *)

\* "MaxRetries allowed if pod fails": each failure of a pod uses up a retry, so
\* no attempt fails twice.
EachFailureCounts == \A j \in Jobs : \A n \in Attempts : failures[j][n] <= 1

\* "ErrorMessage contains error details if the job failed".
FailedHasErrorDetails ==
    \A j \in Jobs : Exists(j) /\ job[j].jobStatus = "failed" => job[j].errorMessage # ""

\* "Let handleTerminalJob clean up": once a job has failed or completed, no pod
\* of it is left behind.
TerminalJobIsCleanedUp ==
    \A j \in Jobs : (Exists(j) /\ job[j].jobStatus \in Terminal) ~>
        (\A n \in Attempts : pod[j][n] = AbsentPod)
=============================================================================
