------------------------------ MODULE Deadlines ------------------------------
(***************************************************************************)
(* The limits that are set in different places and never compared: how     *)
(* long the client polls and how often, when the operator gives a job up   *)
(* and when it deletes a finished one, and how long Redis keeps job data.  *)
(* QuantumService lets each of them pass at any time; here they are        *)
(* numbers, for one job and one client, without retries being counted.     *)
(*                                                                         *)
(* Everything in the system reacts within Lag to what is due: no fault and *)
(* no queue is longer.  A limit is due at a time, and time does not pass   *)
(* that time by more than Lag (see Tick).                                  *)
(***************************************************************************)
EXTENDS Integers

CONSTANTS
    ClientTimeOut,  \* JOB_TIMEOUT of the worker: result() polls that long
    Interval,       \* the client's sleep between two polls
    JobTimeOut,     \* JOB_TIMEOUT of the transpiler service: spec.timeOut
    TTL,            \* DEFAULT_TTL_SECONDS: spec.ttlSecondsAfterFinished
    StoreTTL,       \* ttl of create_job_data and update_job_data
    Lag,            \* bound: the latest reaction to anything
    MaxTime         \* bound: the end of time

\* What the values must satisfy for the properties below.  Nothing in the code
\* compares them; the defaults (600, 5, 600, 300, 1200) do for a Lag of up to 147.
ASSUME LimitsAssumption ==
    /\ ClientTimeOut \in Nat /\ Interval \in Nat /\ JobTimeOut \in Nat \ {0} /\ TTL \in Nat
    /\ StoreTTL \in Nat /\ Lag \in Nat \ {0} /\ MaxTime \in Nat
    /\ JobTimeOut + 3 * Lag < StoreTTL
    /\ TTL + 3 * Lag < StoreTTL
    /\ Interval + 2 * Lag < TTL
    /\ Lag < ClientTimeOut

VARIABLES
    now,
    jobStatus, startTime, completionTime,       \* the resource ("new": no status yet)
    presence,                                   \* whether it has been deleted
    expires, results,                           \* job data: until when, with results?
    pod,                                        \* the simulator of the current attempt
    client, began, wake                         \* the client: when it began to poll, when it goes on

resource == <<jobStatus, startTime, completionTime, presence>>
data == <<expires, results>>
clients == <<client, began, wake>>
vars == <<now, resource, data, pod, clients>>

Terminal == {"completed", "failed"}

TypeOK ==
    /\ now \in Nat /\ startTime \in Nat /\ completionTime \in Nat
    /\ expires \in Nat /\ began \in Nat /\ wake \in Nat
    /\ now <= MaxTime /\ startTime <= now /\ completionTime <= now
    /\ expires <= now + StoreTTL /\ began <= now /\ wake <= now + Interval
    /\ jobStatus \in {"absent", "new", "active"} \cup Terminal
    /\ presence \in {"present", "deleted"}
    /\ results \in {"none", "there"}
    /\ pod \in {"none", "created", "loaded", "stored", "succeeded", "failed"}
    /\ client \in {"idle", "polling", "fetching", "returned", "failed", "broken", "timeout"}

Init ==
    /\ now = 0
    /\ jobStatus = "absent" /\ startTime = 0 /\ completionTime = 0 /\ presence = "present"
    /\ expires = 0 /\ results = "none"
    /\ pod = "none"
    /\ client = "idle" /\ began = 0 /\ wake = 0

-----------------------------------------------------------------------------
(* The transpiler service and Redis.                                       *)

\* setex: the whole value, its time to live from now on.  (Mutant: SET with KEEPTTL.)
SetJobDataKeepingTTL(newResults) ==
    /\ expires' = IF expires > now THEN expires ELSE now + StoreTTL
    /\ results' = newResults
SetJobData(newResults) ==
    /\ expires' = now + StoreTTL
    /\ results' = newResults

\* The key has expired.
Stored == expires > now

StoreCircuit ==
    /\ jobStatus = "absent" /\ expires = 0
    /\ SetJobData("none")
    /\ UNCHANGED <<now, resource, pod, clients>>

CreateResource ==
    /\ jobStatus = "absent" /\ expires # 0
    /\ jobStatus' = "new"
    /\ UNCHANGED <<now, startTime, completionTime, presence, data, pod, clients>>

-----------------------------------------------------------------------------
(* The operator.                                                           *)

Admit ==
    /\ jobStatus = "new"
    /\ jobStatus' = "active" /\ startTime' = now
    /\ UNCHANGED <<now, completionTime, presence, data, pod, clients>>

Finish(verdict) ==
    /\ jobStatus = "active"
    /\ jobStatus' = verdict /\ completionTime' = now
    /\ UNCHANGED <<now, startTime, presence, data, clients>>

\* A reconcile that has found the limit not yet exceeded may still write another
\* verdict after it, so Complete and Exhaust do not ask.
TimeOutExceeded == now - startTime > JobTimeOut

TimeOut == TimeOutExceeded /\ Finish("failed") /\ UNCHANGED pod
Complete == pod = "succeeded" /\ Finish("completed") /\ UNCHANGED pod
Exhaust == pod = "failed" /\ Finish("failed") /\ UNCHANGED pod

\* A pod for a pending job: the first, a retry, or one in place of a pod that is
\* lost.  (Mutant: each attempt has a time limit of its own.)
CreatePodAnew ==
    /\ jobStatus = "active" /\ pod \in {"none", "failed"}
    /\ pod' = "created" /\ startTime' = now
    /\ UNCHANGED <<now, jobStatus, completionTime, presence, data, clients>>
CreatePod ==
    /\ jobStatus = "active" /\ pod \in {"none", "failed"}
    /\ pod' = "created"
    /\ UNCHANGED <<now, resource, data, clients>>

\* By handleTerminalJob, or by somebody else at any time.
DeletePod ==
    /\ pod # "none"
    /\ pod' = "none"
    /\ UNCHANGED <<now, resource, data, clients>>

\* handleTerminalJob, the resource.  (Mutant: measured from the start.)
TTLExceededFromStart == now - startTime >= TTL
TTLExceeded == now - completionTime >= TTL
DeleteResource ==
    /\ jobStatus \in Terminal /\ presence = "present"
    /\ TTLExceeded
    /\ presence' = "deleted"
    /\ UNCHANGED <<now, jobStatus, startTime, completionTime, data, pod, clients>>

-----------------------------------------------------------------------------
(* The simulator.                                                          *)

SimulatorStep(from, to) ==
    /\ pod = from /\ pod' = to
    /\ UNCHANGED <<now, resource, clients>>

\* Without the circuit main raises.
Load == SimulatorStep("created", IF Stored THEN "loaded" ELSE "failed") /\ UNCHANGED data
StoreResult == SimulatorStep("loaded", "stored") /\ SetJobData("there")
ExitSuccess == SimulatorStep("stored", "succeeded") /\ UNCHANGED data
Fail == \E step \in {"created", "loaded", "stored"} : SimulatorStep(step, "failed") /\ UNCHANGED data

-----------------------------------------------------------------------------
(* The client.                                                             *)

\* result() may be called as late as one likes after run() has returned.
CallResult ==
    /\ client = "idle" /\ jobStatus # "absent"
    /\ client' = "polling" /\ began' = now /\ wake' = now
    /\ UNCHANGED <<now, resource, data, pod>>

StatusOf == IF presence = "deleted" THEN "unknown" ELSE jobStatus

InTime == now - began < ClientTimeOut
\* time.sleep(interval).  (Mutant: twice that.)
SleepTwice == wake' = now + 2 * Interval
Sleep == wake' = now + Interval

Poll ==
    /\ client = "polling" /\ now >= wake /\ InTime
    /\ CASE StatusOf = "completed" -> client' = "fetching" /\ wake' = now
         [] StatusOf = "failed"    -> client' = "failed" /\ UNCHANGED wake
         [] OTHER                  -> Sleep /\ UNCHANGED client
    /\ UNCHANGED <<now, resource, data, pod, began>>

GiveUp ==
    /\ client = "polling" /\ now >= wake /\ ~InTime
    /\ client' = "timeout"
    /\ UNCHANGED <<now, resource, data, pod, began, wake>>

Fetch ==
    /\ client = "fetching"
    /\ client' = IF StatusOf = "completed" /\ Stored /\ results = "there" THEN "returned" ELSE "broken"
    /\ UNCHANGED <<now, resource, data, pod, began, wake>>

-----------------------------------------------------------------------------
(* Time.                                                                   *)

\* What is due at time t happens before t + Lag is over.
Due(t) == now < t + Lag

StoredAt == expires - StoreTTL

Tick ==
    /\ now < MaxTime
    /\ jobStatus = "absent" /\ expires # 0 => Due(StoredAt)
    /\ jobStatus = "new" => now < StoredAt + 2 * Lag
    /\ jobStatus = "active" => Due(startTime + JobTimeOut)
    /\ pod = "stored" => Due(StoredAt)
    /\ jobStatus = "active" /\ pod = "succeeded" => now < StoredAt + 2 * Lag
    /\ jobStatus \in Terminal /\ presence = "present" => Due(completionTime + TTL)
    /\ client \in {"polling", "fetching"} => Due(wake)
    /\ now' = now + 1
    /\ UNCHANGED <<resource, data, pod, clients>>

Next ==
    \/ StoreCircuit \/ CreateResource
    \/ Admit \/ TimeOut \/ Complete \/ Exhaust \/ CreatePod \/ DeletePod \/ DeleteResource
    \/ Load \/ StoreResult \/ ExitSuccess \/ Fail
    \/ CallResult \/ Poll \/ GiveUp \/ Fetch
    \/ Tick

Spec == Init /\ [][Next]_vars

-----------------------------------------------------------------------------
(* Properties.                                                             *)

\* No attempt fails for want of its circuit: as long as a job is undecided, its
\* data is in the store, although nothing renews it while the job waits and runs.
CircuitOutlivesJob ==
    jobStatus \in {"new", "active"} => Stored

\* What the API shows as completed can be read, until the resource is deleted:
\* the store forgets the result later than the operator forgets the job.
ResultOutlivesJob ==
    jobStatus = "completed" /\ presence = "present" => Stored /\ results = "there"

\* result() ends without an answer only if the job was decided too late for it, in
\* the last round of polling or after it, or if it was called too late, when the
\* TTL was about to pass: between two polls no decision comes and goes unseen.
NobodyWaitsInVain ==
    client \in {"timeout", "broken"} =>
        \/ jobStatus \notin Terminal
        \/ completionTime + Interval + Lag >= began + ClientTimeOut
        \/ began + 2 * Lag >= completionTime + TTL

\* "did not complete within": so says the error raised when polling has ended.  It
\* should not be said of a job that was completed before polling began.
TimedOutIsTrue ==
    client = "timeout" /\ jobStatus = "completed" => began <= completionTime
=============================================================================
