---------------------------- MODULE JobLifecycle ----------------------------
(***************************************************************************)
(* What the operator promises about a QuantumAerJob, seen through the API: *)
(* the sequence of values of status.jobStatus, the attempt (status.retries)*)
(* each of them belongs to, and the outcomes of the simulator pods that    *)
(* justify them.  There are no caches, no pods, no reconcile loop and no   *)
(* faults here: QuantumAerJobController implements this specification.     *)
(***************************************************************************)
EXTENDS Integers

CONSTANTS
    Jobs,           \* names of the QuantumAerJob resources
    MaxRetries,     \* spec.maxRetries
    HasTimeOut,     \* spec.timeOut > 0
    UserMayDelete   \* somebody deletes resources with kubectl

VARIABLES
    phase,          \* jobStatus, or whether the resource exists at all
    attempt,        \* status.retries
    failed,         \* the attempts whose pod has exited with an error
    succeeded       \* the attempts whose pod has exited with 0

vars == <<phase, attempt, failed, succeeded>>

Attempts == 0..MaxRetries
Terminal == {"completed", "failed"}
Active == {"pending", "in progress"}
Phase == {"absent", "deleted", ""} \cup Active \cup Terminal

TypeOK ==
    /\ phase \in [Jobs -> Phase]
    /\ attempt \in [Jobs -> Attempts]
    /\ failed \in [Jobs -> SUBSET Attempts]
    /\ succeeded \in [Jobs -> SUBSET Attempts]

Init ==
    /\ phase = [j \in Jobs |-> "absent"]
    /\ attempt = [j \in Jobs |-> 0]
    /\ failed = [j \in Jobs |-> {}]
    /\ succeeded = [j \in Jobs |-> {}]

\* The step from status p to status q of job j at its current attempt.
Move(j, p, q) ==
    /\ phase[j] = p
    /\ phase' = [phase EXCEPT ![j] = q]
    /\ UNCHANGED <<attempt, failed, succeeded>>

Submit(j) == Move(j, "absent", "")
Admit(j) == Move(j, "", "pending")
Launch(j) == Move(j, "pending", "in progress")

\* The pod has disappeared: the same attempt is run again.
Relaunch(j) == Move(j, "in progress", "pending")

\* The pod of the current attempt has failed and there are retries left.
\* (Mutant: one too many.)
RetryOnceMore(j) ==
    /\ phase[j] = "in progress"
    /\ attempt[j] \in failed[j]
    /\ attempt[j] <= MaxRetries
    /\ phase' = [phase EXCEPT ![j] = "pending"]
    /\ attempt' = [attempt EXCEPT ![j] = @ + 1]
    /\ UNCHANGED <<failed, succeeded>>
Retry(j) ==
    /\ phase[j] = "in progress"
    /\ attempt[j] \in failed[j]
    /\ attempt[j] < MaxRetries
    /\ phase' = [phase EXCEPT ![j] = "pending"]
    /\ attempt' = [attempt EXCEPT ![j] = @ + 1]
    /\ UNCHANGED <<failed, succeeded>>

Complete(j) ==
    /\ attempt[j] \in succeeded[j]
    /\ Move(j, "in progress", "completed")

Exhaust(j) ==
    /\ attempt[j] = MaxRetries
    /\ attempt[j] \in failed[j]
    /\ Move(j, "in progress", "failed")

TimeOut(j) ==
    /\ HasTimeOut
    /\ \E p \in Active : Move(j, p, "failed")

\* The resource goes: when its job has finished, or when a user deletes it.
Remove(j) ==
    /\ phase[j] \in Terminal \/ (UserMayDelete /\ phase[j] \notin {"absent", "deleted"})
    /\ phase' = [phase EXCEPT ![j] = "deleted"]
    /\ attempt' = [attempt EXCEPT ![j] = 0]
    /\ UNCHANGED <<failed, succeeded>>

\* A simulator pod of job j exits.  Pods outlive status changes (a job that has
\* timed out may still have a running pod), hence no guard on the phase.
AttemptFails(j, n) ==
    /\ failed' = [failed EXCEPT ![j] = @ \cup {n}]
    /\ UNCHANGED <<phase, attempt, succeeded>>

AttemptSucceeds(j, n) ==
    /\ succeeded' = [succeeded EXCEPT ![j] = @ \cup {n}]
    /\ UNCHANGED <<phase, attempt, failed>>

Next ==
    \E j \in Jobs :
        \/ Submit(j) \/ Admit(j) \/ Launch(j) \/ Relaunch(j) \/ Retry(j)
        \/ Complete(j) \/ Exhaust(j) \/ TimeOut(j) \/ Remove(j)
        \/ \E n \in Attempts : AttemptFails(j, n) \/ AttemptSucceeds(j, n)

Spec == Init /\ [][Next]_vars
=============================================================================
