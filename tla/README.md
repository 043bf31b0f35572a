# Verification of the quantum job service

A verification development, in TLA+, of the system in this repository: users run Qiskit code against a
remote backend; a transpiler service turns each circuit into a `QuantumAerJob` resource; a Kubernetes
operator runs a simulator pod for it, retries, times out and cleans up; results come back through Redis.

- [Inventory](#inventory): the parts of the system, their state, what is hard about them
- [Modules](#modules): which module models which part, and how
- [Runs](#runs): what TLC checks, within which bounds
- [Disagreements](#disagreements): where the code does not do what its text says
- [Proofs](#proofs): what TLAPS proves, and along which argument
- [Limits and plan](#limits-and-plan): what is not modelled, what comes next

## Inventory

| Component | Source | State | Operations | Interacts with |
|---|---|---|---|---|
| QuantumAerJob operator | `quantum-job-operator/internal/controller/quantumaerjob_controller.go` | none of its own: the resource's `status`, an informer cache, a work queue, the local copy `job` of one reconcile | `Reconcile` and a handler per `jobStatus` | API server (Get from the cache, Create, Delete, Status().Update), pods |
| Resource type | `quantum-job-operator/api/v3/quantumaerjob_types.go` | `spec`, `status` | defaults, status subresource | everybody |
| Operator process | `quantum-job-operator/cmd/main.go` | leader lease, caches | start, crash, leader election | API server |
| Simulator | `simulator/simulator.py` | `job_data`, read once | read circuit, simulate, patch `status.errorMessage`, store result, exit 0 or 1 | Redis, API server, IBM service |
| Transpiler service | `transpiler-service/transpiler_service.py` | whether the process is up, threads of Flask | start-up, `POST /transpile`, `GET /job/<id>/status`, `GET /job/<id>/result` | Redis, API server |
| Job store | `utils/redisDB.py`, `k8s/redis-deployment.yaml` | one value per job id, with a time to live; evicted by LRU | create, get, update, delete, list | transpiler, simulator |
| Remote backend | `remote_aer_backend.py` | `_result_cache` | `run`, `result` (polling), `status` | transpiler |
| Worker | `worker/worker.py` | the process and its exit code | checks, `exec` of user code | remote backend |
| Limits | environment of worker and transpiler, `redisDB.py` | start times, expiry | none: five numbers that nothing compares | all of them |

What is hard:

- **Stale reads.** Every `Get` of the operator is answered from an informer's cache, which may not even
  contain the operator's own last write. Only `Status().Update` compares versions; `Create` and `Delete` go by name.
- **Steps of several calls.** Create-then-record-name, delete-then-count-retry, patch-status-then-store-result,
  store-circuit-then-create-resource: each pair can be cut by a crash, a conflict or an error.
- **Two writers of one status.** Simulators patch `status.errorMessage` without a version check while the operator
  updates the whole status with one; during a change of leader there are two operators besides.
- **Time.** A timeout races late successes, a TTL races clients that still poll, and nothing announces either:
  the operator has to come back by itself. Client, operator and store each have a limit of their own.
- **Lost calls.** A failed call, a job that does not exist and a job the operator has not seen look the same to a client;
  a call that timed out may have been carried out.

What makes each component correct: a job is decided exactly once and for a reason; one attempt at a time; nothing is
left behind; a job that is shown as completed has its result where the client will look for it; a client is told what
happened, in time; a worker ends, and its exit code is true.

## Modules

`JobLifecycle` is the abstract specification: what the API shows of a job (its `jobStatus` and `retries`) and the pod
outcomes that justify each change.

`QuantumAerJobController` is the operator together with what it shares state with. Its state:

| Variable | Stands for |
|---|---|
| `job`, `pod` | objects in the API server: the resource (version, status), the pod of each attempt (phase, deletion, progress of `simulator.py`) |
| `jobCache`, `podCache` | the informer caches |
| `queue`, `rc` | the work queue, and the reconcile in progress: the call it is about to make and its copy of the resource |
| `timedOut`, `expired` | whether "now - startTime > timeOut" and "now - completionTime >= ttl" hold yet |
| `submitted`, `faults`, `failures`, `succeeded` | bookkeeping: names used, faults so far, outcomes of pods |

Each call to the API server is a step; between any two of them pods, kubelets, caches, users, the clock, and a crash of
the operator may act. Each handler is an action of its first step (`HandlePendingJob`, `HandleRunningJob`, ...), and each
write that may follow an action of its own, named for what it writes (`UpdateRetry`, `CreateSimulatorPod`, ...).

`LeaderFailover` runs two operators. It extends the controller, which is the new leader, with an instance of the same
module for what is left of the old one: its queue, its cache of pods and the reconcile it was in (`oldRc`). `TakeOver` starts the new
leader from nothing while the old one is anywhere in a reconcile; `OldStep` is any step of that reconcile; `OldExits`
is the process noticing that its lease is lost, which may be as late as the end of the reconcile. Both write to the same API server.
Beside the old leader, everything else goes on as in the controller (`FailoverNext`); `TerseNext` is a smaller variant for TLC.

`JobStore`, `Simulator`, `TranspilerService`, `RemoteAerJob` and `Worker` model one Python file each: the operations of the
file as actions on the file's own state, with the replies and circuits of the others as parameters or shared variables.

| Module | State | Actions |
|---|---|---|
| `JobStore` | `store[j]`: circuit and result under `job:<j>` | `CreateJobData`, `UpdateJobData`, `DeleteJobData`, `Forget` (expiry, eviction, restart) |
| `Simulator` | `sim[j][n]`: where the process of attempt n is, and the `job_data` it has read | `Load`, `RunSimulation`, `Report`, `StoreResult`, `Raise`, the exits |
| `TranspilerService` | `server`: up or down; `handler[r]`: the handler of a client's request | `StartUp`, `Crash`, `StoreCircuit`, `CreateResource` and its failures, `CheckCompleted`, `Respond` |
| `RemoteAerJob` | `client[r]`, `got[r]` (`_result_cache`) | `Run`, `Answered`, `CallResult`, `Poll`, `Receive` and the exceptions |
| `Worker` | `worker[r]`: the process and its exit code | `Usage`, `Execute`, `Exception`, `Complete` |

`Worker` executes a user's code, and what that is decides what its exit code is worth: `worker.py` exits with 0 whenever `exec` returns. The constant
`Straight` is the set of the requests whose code is like `_test/simulator_service_test_job.py`: `run()`, then `result()`, no exception caught, no exit of its
own. Such code returns from `exec` only at its end (`CodeEnds`). The code of all other requests may stop before `run()` or before `result()`, may catch what the backend raises, and may exit as it likes.

`QuantumService` composes them: a step is one component's, or two components' where one calls the other, and the operator
takes part as `JobLifecycle`. That is sound because `QuantumAerJobController` is shown to implement `JobLifecycle`
(run `controller_disruptions`, theorem `Implementation`; with two operators, run `controller_failover`): what holds of the
composition with the abstract operator holds with the one in the code. Pods are created for the attempt the resource counts, which is `OnlyCurrentAttemptRuns`.
The simulator appears twice because it talks to both sides: in `QuantumAerJobController` its steps are those the operator
can see (patches, exits), in `Simulator` those the store can see. Faults of the service are calls to the API server that fail ("api"),
carried out or not, Redis failing or forgetting ("store"), time limits of the client's calls that pass ("network"), and the death of the
transpiler service with all its handlers ("crash"). `happened` records the first two, because an invariant that
excuses a state by such a fault must know of it.

`Deadlines` takes the five limits as numbers, for one job and one client: `JOB_TIMEOUT` of the worker (how long `result()` polls)
and its interval, `JOB_TIMEOUT` of the transpiler service (`spec.timeOut`), `DEFAULT_TTL_SECONDS`, and the `ttl` default of
`redisDB.py`. Each action is a summary of what the other modules have in detail (`CreatePod` is any attempt's pod); what is new is
`now`, and `Tick`, which lets time pass only so far that everything due has happened within `Lag` of its time.

The `MC` modules name the constants for TLC. The proofs are in `ReconcilerProofs` (one reconciler among others), `ControllerProofs` and `AttemptProofs`
(one operator), `FailoverProofs` (two), `ServiceProofs` and `DeadlineProofs`.

Operators commented "Mutant" (`RetryOnceMore`, `StoreNothing`, `ExitEarly`, ...) are variants of the definition that
follows them with a plausible bug. They are no part of any specification: put in place of that definition, each makes TLC
report a property violated, which shows that the property depends on the code it is about.

## Runs

`MaxFaults` bounds the faults of a behaviour of the controller and `MaxPodFailures` the failures of the pod of one attempt;
everything else, versions included, is bounded because writes happen only for a reason. In the service the faults are not counted.
`MaxTime` ends time in `deadlines`. `CHECK_DEADLOCK` is off: a system whose jobs are done rightly stops.

| Run | Instance | Properties | Shows |
|---|---|---|---|
| `controller_faults` | 1 job, 1 retry, one crash or failed write, one failure per pod, user deletions, timeout and TTL, fairness | `TypeOK`, `OneSimulatorAtATime`, `CompletedWithoutError`, `RetryDeletesOnlyFailedPods`, `EventuallyFinished`, `EventuallyCollected` | one simulator at a time, retries hit failed pods only, completed jobs report no error; every job is decided, nothing is left behind |
| `controller_disruptions` | 1 job, 1 retry, one node drain or failed read, timeout | `OnlyCurrentAttemptRuns`, `CompletedByItsAttempt`, `FailedForAReason`, `TerminalIsFinal`, `ImplementsLifecycle` | verdicts are justified and final although pods vanish; the operator refines `JobLifecycle` |
| `controller_failover` | 1 job, 1 retry, one change of leader anywhere in a reconcile | `CompletedByItsAttempt`, `FailedForAReason`, `TerminalIsFinal`, `ImplementsLifecycle` | the same of two operators at once |
| `service_resubmission` | 2 workers with 1 job id, no retry, all faults, TTL | `TypeOK`, `CircuitBeforeResource`, `FailureIsReal`, `SuccessIsReal` | circuits are there before resources; failures and results reported are real, and so is exit code 0 of straight code; the other worker has arbitrary code |
| `service_single` | 1 request of arbitrary code, 1 retry, failing calls, lost replies, crashes of the service, TTL, user deletions, fairness | `BrokenForAReason`, `CompletedHasResult`, `AnswerArrives`, `WorkerEnds` | a completed job has its result; `result()` trips for a reason only; polling ends with an answer, the worker ends |
| `deadlines` | limits 5, 1, 4, 4, 8 and Lag 1 until time 22 | `TypeOK`, `CircuitOutlivesJob`, `ResultOutlivesJob`, `NobodyWaitsInVain` | the store forgets last; no verdict comes and goes unseen between two polls |

One job is enough for the controller: there is one worker, and jobs share nothing but its time; names of pods derive from
names of jobs. Two requests for one job are the least that can disagree about it. One retry lets an attempt have a
successor, so an attempt has pods of another attempt beside it. One fault can fall between any two calls; conflicts, stale
caches and repeated reconciles are not faults and happen any number of times. `OneSimulatorAtATime`
and `RetryDeletesOnlyFailedPods` are claimed only where the operator alone deletes pods: with node drains a cached failure
can be that of an earlier pod of the same name, and `Delete` goes by name, without a UID. `service_single` leaves out faults of Redis because its invariants
do not apply after one; `service_resubmission` has them. The limits of `deadlines` are as close to each other as the
first three conditions of `LimitsAssumption` allow, which is what the proofs need and what the defaults (600, 5, 600, 300, 1200 seconds) satisfy for every Lag
up to 147 seconds; 22 is long enough for all of them to pass one after another.

What a change of leader costs: `OnlyCurrentAttemptRuns` and `CompletedWithoutError` are not claimed in `controller_failover`. The old leader may
create a pod (by name, unfenced) for an attempt the new one has already left behind. Verdicts stay right since status updates compare
versions. The simulators' reports of failures are left out of that run to keep it small (`TerseSpec`); a report is one more patch of `errorMessage`, like that of a success.
The theorems of `FailoverProofs` leave nothing out: they are about `FailoverSpec`, with all faults, any number of changes of leader, and failures reported.

**Fairness.** Of the operator: a reconcile that has begun goes on (`WF`), and a key in the queue is taken some day (`SF`,
since a worker that is busy with another key disables it; the work queue is first-in first-out). Of the cluster: watches deliver, the garbage
collector and kubelets finish deletions. Of time: a limit that applies passes. Not assumed: that a pod starts, that a
simulation ends, that a fault happens. A key the code does not requeue stays away until an event: the
requeues of lines 391-392 and 445-451 are what the mutants of the liveness properties take away. In `QuantumService` (`Fairness`) a user's
code ends or makes its next call (one `WF` for the three, so that none of them is forced; code that loops for ever is excluded) and the time limits of its calls pass (`WF`); the transpiler service is restarted by its kubelet (`WF`; its pod has the default `restartPolicy`)
and is not down or slow whenever it is asked (`SF` on the calls of the polling loop, since every crash disables them); new jobs are admitted and a job
with a timeout is decided, which is `EventuallyFinished` of the controller. `WorkerEnds` has the passing of the polling time (`SF` of `GiveUp`,
which every fetch that times out disables and enables again) as its hypothesis rather than in `Fairness`, so that `AnswerArrives` is about clients that go on polling.

## Disagreements

The runs named `finding_*` end in a behaviour of the code that contradicts a sentence of the repository.

| Run | The text | The code |
|---|---|---|
| `finding_uncounted_failure` | `quantumaerjob_types.go:48` "MaxRetries allowed if pod fails" | the failed pod is deleted before the retry is counted; if the update conflicts, the attempt is run again for free |
| `finding_error_erased` | `quantumaerjob_types.go:116` "ErrorMessage contains error details if the job failed" | a simulator that succeeds after the timeout patches the message to "" |
| `finding_orphan_pod` | `quantumaerjob_controller.go:94` "Let handleTerminalJob clean up" | a job that times out before its pod's name is recorded keeps the pod as long as the resource lives |
| `finding_circuit_replaced` | `quantumaerjob_types.go:44` "JobID is a unique identifier for this simulation job." | a second request with the id replaces the circuit before it is refused |
| `finding_not_completed` | `transpiler_service.py:300` "Job not completed" | said of a completed job after one failed call; the client then raises `KeyError` |
| `finding_late_result` | `remote_aer_backend.py:72` "did not complete within" | said of a job that was completed before `result()` was called and whose resource the TTL deletes before the first poll: a 404 is polled past |

Three more show in the code without a run. `RemoteAerJob.status()` formats the method `job_id` into its URL
(`remote_aer_backend.py:83`) and looks for a key `state` (88) that the status does not have, so it says QUEUED of every job. A job
that the operator has not looked at yet has an empty status and is answered with 404 (`transpiler_service.py:276`);
the polling client goes on, so this does no harm to `result()`. The transpiler service decides once, at its start, whether there is an IBM
service (`transpiler_service.py:73`, 233), each simulator for itself (`simulator.py:109-119`): a circuit may be transpiled for
`AerSimulator` and then run on the model of an IBM backend.

## Proofs

`ReconcilerProofs` says what one reconciler can rely on when it may not be the only one, `ControllerProofs` what one that is alone achieves, `FailoverProofs` what two do.
`ControllerProofs` proves, with TLAPS, for every set of jobs, every `MaxRetries`, every set and number of faults:

| Theorem | Statement |
|---|---|
| `TypeCorrect` | `Spec => []TypeOK` |
| `CurrentAttempt` | `Spec => []OnlyCurrentAttemptRuns` |
| `CompletionJustified` | `Spec => []CompletedByItsAttempt` |
| `FailureJustified` | `Spec => []FailedForAReason` |
| `VerdictIsFinal` | `Spec => TerminalIsFinal` |
| `Implementation` | `Spec => ImplementsLifecycle` |

Assumed are `JobsAssumption` and `BoundsAssumption` of `QuantumAerJobController`: `None` is neither a job nor an object,
and the bounds are natural numbers.

None of the properties is inductive: each is about the resource, while an operator acts on copies. What a copy is still worth is in two layers.

**One among others** (`ReconcilerProofs`). `View` is the invariant of one reconciler, of its queue, cache of pods and reconcile in progress (`ReconcilerOK`) and
of the cluster (`ClusterOK`):

- `StepOK`: what the reconcile has concluded from its copy when it makes a call;
- `CopyOf`: the copy, like every version in a cache, was the resource once. What it says was justified by outcomes of pods, it is not newer than the resource, and equal
  versions are equal objects: an update that is accepted was computed from the resource as it is. A verdict it has is the verdict still;
- `CachedPhases`, `StepEvidence`: a phase, real or cached, is evidence of an outcome, which stays true although the phase does not.

`Moves` is all it relies on in a step of somebody else: versions grow, a verdict stays, a resource that is gone does not come back, and outcomes and timeouts are not forgotten.
Lemma `ReconcilerStays` says that `ReconcilerOK` survives `Moves`, `ViewStep` that every step of the controller keeps `View` and is itself among the `Moves`. From `View` alone
follow `VerdictStep` (a verdict, its attempt and its pod stay) and `LifecycleStep`: each step is one of `JobLifecycle`, or leaves the mapped variables alone.

**Alone** (`ControllerProofs`). A reconciler that is the only one to count retries knows more, `SoleOK`: its copy is not newer than the cache (`VersionsOK`), a pending job's attempt moves on only
after it was in progress (`AttemptsKept`), pods that are not being deleted are the current attempt's, and the retry that moves the counter on has seen to the pod it leaves behind (`PodsOK`).
`Create` and `Delete` go by name and no version protects them; this is what does. It fails with two operators, and so does `OnlyCurrentAttemptRuns`. `IInv` is the two layers together
(lemma `Parts`); its proof has a frame lemma for the many steps that change little, and a lemma for each of the others.

**Two** (`FailoverProofs`). For the specification of `LeaderFailover`:

| Theorem | Statement |
|---|---|
| `BothViewsStay` | `FailoverSpec => []FailoverInv` |
| `CompletedByItsAttemptOfTwo` | `FailoverSpec => []CompletedByItsAttempt` |
| `FailedForAReasonOfTwo` | `FailoverSpec => []FailedForAReason` |
| `VerdictIsFinalForTwo` | `FailoverSpec => TerminalIsFinal` |
| `ImplementationOfTwo` | `FailoverSpec => ImplementsLifecycle` |
| `TerseIsPartOfIt` | `TerseSpec => FailoverSpec` |

`FailoverInv` is `ClusterOK` with the `ReconcilerOK` of each leader. The lemmas of `ReconcilerProofs` are used twice, by name for the new leader and through an instance of the whole module, `OldP`, for the
old one; lemmas `Same...` say that the definitions which do not speak of the reconciler are the same in both. Whichever leader steps makes `Moves`, so the other's `ReconcilerOK` stays; `TakeOver` hands
the view of the leader to the old one and starts the new one with an empty one. No lease, clock or fencing enters the argument: versions on status updates are enough for verdicts to be right and final.

`AttemptProofs` builds on `IInv` and proves what is claimed only where nobody but the operator deletes pods and the cache answers
(`Undisturbed`: `FaultKinds` has neither "disruption" nor "read", as in the run `controller_faults`; crashes, failed writes and
users who delete resources remain, in any number):

| Theorem | Statement | Needs |
|---|---|---|
| `CopiesLagByOne` | `Spec => []LagOK` | |
| `PodsFollowStatus` | `Spec => []PodInv` | `Undisturbed` |
| `OneSimulator` | `Spec => []OneSimulatorAtATime` | `Undisturbed` |
| `RetryDeletes` | `Spec => RetryDeletesOnlyFailedPods` | `Undisturbed` |
| `NoErrorOfCompleted` | `Spec => []CompletedWithoutError` | `Undisturbed` |

The argument has three layers. `LagOK`: the cache may be arbitrarily late, but an update is accepted only if it was made from the current version, which
was then in the cache; so no copy is more than one update behind the resource, and while a reconcile goes on the cache holds its copy or the truth.
`PodInv` then says what each of the at most two versions in play still tells of the pods. `Fits` is for the current version: no pod of a later attempt exists or is cached, a
live pod is the current attempt's, a pending job's named pod is there, a running job's pod that is not in the cache is not there. `Lags` is for the cache and the
copy: a launched pod is seen, a lost one is gone from both, a phase that has ended in the cache is not that of an earlier pod of the name. `Knows` is for each step of the
reconcile, between the read that led to it and the call it makes: a job about to get a pod is not in progress, a pod about to be deleted has no process. `RecedeFrame` covers
all steps that make no pod, update no status and take no pod from an unfinished job; the others have a lemma each. `MessageInv` adds the
error message: the attempt that has reported or achieved a success has erased what earlier ones wrote, whoever could still write
belongs to the current attempt, and an update carries the current message over because it is made from the current version.
The hypothesis is needed: after a node drain the cache can show the failure of a pod whose successor of the same name runs, and a read that fails sends `handlePendingJob`
on as if the pod had been found; TLC finds two simulators after a single fault of either kind, and a completed job with an error message after a single drain. TLC has checked `LagOK`, `PodInv` and `MessageInv` as invariants on one job, with up to two retries, faults and failures of a pod, before they were proved.

`ServiceProofs` proves the invariants of `QuantumService` for every set of jobs and requests, every `MaxRetries` and every set of faults:

| Theorem | Statement | Needs |
|---|---|---|
| `ServiceTypes` | `Spec => []TypeOK` | |
| `CircuitIsThere` | `Spec => []CircuitBeforeResource` | |
| `FailuresAreReal` | `Spec => []FailureIsReal` | |
| `SuccessesAreReal` | `Spec => []SuccessIsReal` | |
| `ResultIsThere` | `Spec => []CompletedHasResult` | `UniqueIds` |
| `BrokenIsJustified` | `Spec => []BrokenForAReason` | `UniqueIds` |
| `ResultIsOnesOwn` | `Spec => []OneCircuitPerJob` | `UniqueIds` |

`UniqueIds` says that no two requests send the same job id, as `RemoteAerBackend` does by drawing one at random; `finding_circuit_replaced` shows what happens without it, and
`ResultIsOnesOwn` that nothing else can mix results up. Of the invariants behind these theorems, `DataInv` says what is in the store when somebody
is about to rely on it (a handler that has stored its circuit and not yet created the resource, a simulator past its start), `AnswerInv` that what a
client was told is still true: a verdict does not change, a deleted resource stays deleted.
`SuccessesAreReal` says of any code that `result()` returns to it for a good reason only; of the worker's exit code 0 it says so under the assumption that the code is in `Straight`. With unique ids, `BeforeInv` says that nothing of a job exists before
its request, so that the one write which takes results away, `create_job_data`, comes before any simulator; `ResultInv` then that a result stays
where it is, because a simulator of a repeated attempt overwrites it with one; and `OwnInv` that no circuit but the request's own is under its id.
The steps that go through several modules have a lemma on what they change (`OperatorEffect`, `SimulateEffect`, `ExitEffect`, `RequestLocal`), which all invariance proofs share.

`DeadlineProofs` proves `DeadlineTypes`, `CircuitLasts`, `ResultLasts` and `ClientIsAnswered` (the invariants of the run `deadlines`) for all limits that satisfy `LimitsAssumption` and without a
bound on time other than `MaxTime`, which is any number. The assumption adds up Lags: job data is at most two Lags old when the job's time starts, the operator
decides within one Lag of the timeout (`StoreInv`), hence `JobTimeOut + 3 * Lag < StoreTTL`; a result is at most two Lags old when its job is completed, and
the resource goes within one Lag of its TTL (`ResultInv`), hence `TTL + 3 * Lag < StoreTTL`; and a client that is waiting polls again within `Interval + 2 * Lag`, before the resource can be gone
(`ClientInv`). The constants come from four places and nothing checks them against each other. Note what is not promised: with equal `JOB_TIMEOUT`s of client and job a client
that begins at once may give up before it hears of the job's timeout.

Model-checked only: liveness (`EventuallyFinished`, `EventuallyCollected`, `AnswerArrives`, `WorkerEnds`: it rests on fairness and `ENABLED`, which are out of the prover's reach).

## Limits and plan

- **Time** is two flags per job in the controller, and may pass at any moment in the service: more than the program can do, so what holds
  there holds. What depends on the numbers is in `Deadlines`, where retries are not counted and calls do not fail.
- **Names** are used once: a resource is not created again under the name of a deleted one, and `Store` values of a
  deleted job are not reused. `FailureIsReal` and `SuccessIsReal` rely on it: they compare what a client was told with the resource of that name.
- **Old leader**: in `LeaderFailover` it finishes the reconcile it was in and starts no other; a real one might start another before it notices that
  its lease is lost.
- **Versions** move with every accepted write, also with one that changes nothing, which the API server would not count.
- **Pod phase Unknown** (`quantumaerjob_controller.go:395`), which kubelets have not set since Kubernetes 1.20, a
  third leader, missing service accounts that are never created, and quotas are left out.
- **Client**: one `run()` per worker and one `result()` per run (code that catches an exception of `result()` and calls it again is not modelled); a status reply is acted upon when it is made, which changes nothing since the
  statuses it acts upon are final. `status()` changes nothing.
- **Worker**: the exit code says of other than straight code only that the code has ended: nothing more is claimed. A process that is killed from outside is not modelled; it leaves behind what `PostTimesOut` leaves behind.

### Not modelled

Manifests (their values are the constants), generated code, the scaffolded Go tests and `operator_transpiled_test_job.py`, which creates a
resource of the older API version; `list_all_jobs` and `close`, which nobody calls and which change nothing; the physics: circuits, targets,
transpilation and simulation are values without content.

What could come next: incarnations of a resource (a second submission after the TTL, with pods of the deleted namesake still
terminating); a controller with counted faults and two retries at once, for which TLC needs more time than it is given here.
