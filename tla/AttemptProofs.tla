---------------------------- MODULE AttemptProofs ----------------------------
(***************************************************************************)
(* Proofs about the simulator pods of QuantumAerJobController where nobody *)
(* but the operator, the garbage collector and the kubelets deletes pods,  *)
(* and the cache answers: at most one simulator of a job runs, a retry     *)
(* deletes failed pods only, and a completed job reports no error.         *)
(***************************************************************************)
EXTENDS ControllerProofs

-----------------------------------------------------------------------------
(* How far a copy of a resource may lag behind it: by one update of the    *)
(* operator at most, because the next update is only accepted when it was  *)
(* made from a copy, hence from a cache, that has the one before.          *)

\* Two versions that differ at most in what simulators patch.
Same(o, p) == o.jobStatus = p.jobStatus /\ o.retries = p.retries /\ o.podName = p.podName

\* Version p is what the operator may make of version o.
Follows(o, p) ==
    \/ /\ o.jobStatus = "" /\ p.jobStatus = "pending"
       /\ p.retries = o.retries /\ p.podName = NoPod
    \/ /\ o.jobStatus = "pending" /\ o.podName = NoPod
       /\ p.jobStatus = "pending" /\ p.retries = o.retries /\ p.podName = o.retries
    \/ /\ o.jobStatus = "pending" /\ o.podName = o.retries
       /\ p.jobStatus = "in progress" /\ p.retries = o.retries
    \/ /\ o.jobStatus = "in progress"
       /\ p.jobStatus = "pending" /\ p.retries \in {o.retries, o.retries + 1} /\ p.podName = NoPod
    \/ /\ o.jobStatus = "in progress"
       /\ p.jobStatus = "completed" /\ p.retries = o.retries
    \/ /\ o.jobStatus \notin Terminal
       /\ p.jobStatus = "failed" /\ p.retries = o.retries

OneBehind(o, p) == Same(o, p) \/ Follows(o, p)

\* The cache and the reconciler's copy are at most one update behind, and while
\* the reconcile goes on the cache holds either its copy or what is true now.
LagOK ==
    /\ \A j \in Jobs : Exists(j) /\ jobCache[j] # None => OneBehind(jobCache[j], job[j])
    /\ rc # Idle /\ Exists(rc.key) => OneBehind(rc.obj, job[rc.key])
    /\ rc # Idle /\ jobCache[rc.key] # None =>
           /\ OneBehind(rc.obj, jobCache[rc.key])
           /\ \/ Same(rc.obj, jobCache[rc.key])
              \/ Exists(rc.key) => Same(jobCache[rc.key], job[rc.key])

\* What the update made at each step writes.
Writes(step, o, p) ==
    \/ /\ step = "timeout" /\ o.jobStatus \notin Terminal
       /\ p.jobStatus = "failed" /\ p.retries = o.retries
    \/ /\ step = "new" /\ o.jobStatus = ""
       /\ p.jobStatus = "pending" /\ p.retries = o.retries /\ p.podName = NoPod
    \/ /\ step = "name" /\ o.jobStatus = "pending" /\ o.podName \in {NoPod, o.retries}
       /\ p.jobStatus = "pending" /\ p.retries = o.retries /\ p.podName = o.retries
    \/ /\ step = "progress" /\ o.jobStatus = "pending" /\ o.podName = o.retries
       /\ p.jobStatus = "in progress" /\ p.retries = o.retries
    \/ /\ step = "lost" /\ o.jobStatus = "in progress"
       /\ p.jobStatus = "pending" /\ p.retries = o.retries /\ p.podName = NoPod
    \/ /\ step = "retry" /\ o.jobStatus = "in progress" /\ o.retries < MaxRetries
       /\ p.jobStatus = "pending" /\ p.retries = o.retries + 1 /\ p.podName = NoPod
    \/ /\ step = "exhausted" /\ o.jobStatus = "in progress"
       /\ p.jobStatus = "failed" /\ p.retries = o.retries
    \/ /\ step = "complete" /\ o.jobStatus = "in progress"
       /\ p.jobStatus = "completed" /\ p.retries = o.retries

\* Only a verdict of failure changes the message.
KeepsMessage(o, p) == p.errorMessage = o.errorMessage \/ p.jobStatus = "failed"

LEMMA MessageFields ==
  ASSUME NEW o \in JobObject
  PROVE  /\ Admitted(o).errorMessage = o.errorMessage /\ Named(o).errorMessage = o.errorMessage
         /\ Launched(o).errorMessage = o.errorMessage /\ Lost(o).errorMessage = o.errorMessage
         /\ Retried(o).errorMessage = o.errorMessage /\ Completed(o).errorMessage = o.errorMessage
         /\ \A v \in Nat : AtVersion(o, v).errorMessage = o.errorMessage
         /\ \A message \in {"", "simulator"} : WithError(o, message).errorMessage = message
  BY Zenon DEF JobObject, Admitted, Named, Launched, Lost, Retried, Completed, AtVersion, WithError

\* Each update writes what its step says.
LEMMA UpdateWrites ==
  ASSUME IInv, OperatorUpdate
  PROVE  \E new \in JobObject :
            StatusUpdate(new) /\ Writes(rc.pc, rc.obj, new) /\ KeepsMessage(rc.obj, new)
<1> USE DEF IInv, KeepsMessage
<1>o. ASSUME rc.pc # "idle"
      PROVE  /\ rc.obj \in JobObject /\ WellFormed(rc.obj)
             /\ rc.obj.podName \in Attempts \cup {NoPod}
  BY <1>o, Busy, JobFields DEF StatusOK, VersionOK
<1>1. CASE UpdateTimedOut
  BY <1>1, <1>o, TimedOutFields DEF UpdateTimedOut, StepOK, Writes
<1>2. CASE HandleNewJob
  <2>1. rc.pc = "new" /\ rc.obj.jobStatus = "" /\ rc.obj.podName = NoPod /\ rc.obj.retries = 0
    BY <1>2, <1>o DEF HandleNewJob, StepOK, WellFormed
  <2> QED  BY <1>2, <1>o, <2>1, AdmittedFields, MessageFields DEF HandleNewJob, Writes
<1>3. CASE UpdatePodName
  <2>1. rc.pc = "name" /\ rc.obj.jobStatus = "pending"
    BY <1>3 DEF UpdatePodName, StepOK, AtPending
  <2>2. rc.obj.podName \in {NoPod, rc.obj.retries} /\ rc.obj \in JobObject
    BY <1>o, <2>1 DEF WellFormed
  <2>3. Writes(rc.pc, rc.obj, Named(rc.obj)) /\ Named(rc.obj) \in JobObject
    BY <2>1, <2>2, NamedFields DEF Writes
  <2> QED  BY <1>3, <2>2, <2>3, MessageFields DEF UpdatePodName
<1>4. CASE UpdateProgress
  <2>1. rc.pc = "progress" /\ rc.obj.jobStatus = "pending" /\ rc.obj.podName # NoPod
    BY <1>4 DEF UpdateProgress, StepOK, AtPending
  <2> QED  BY <1>4, <1>o, <2>1, LaunchedFields, MessageFields DEF UpdateProgress, Writes, WellFormed
<1>5. CASE UpdateLost
  <2>1. rc.pc = "lost" /\ rc.obj.jobStatus = "in progress"
    BY <1>5 DEF UpdateLost, StepOK, AtRunning
  <2> QED  BY <1>5, <1>o, <2>1, LostFields, MessageFields DEF UpdateLost, Writes
<1>6. CASE UpdateRetry
  <2>1. rc.pc = "retry" /\ rc.obj.jobStatus = "in progress" /\ rc.obj.retries < MaxRetries
    BY <1>6 DEF UpdateRetry, StepOK, AtRunning
  <2> QED  BY <1>6, <1>o, <2>1, RetriedFields, MessageFields DEF UpdateRetry, Writes
<1>7. CASE UpdateExhausted
  <2>1. rc.pc = "exhausted" /\ rc.obj.jobStatus = "in progress"
    BY <1>7 DEF UpdateExhausted, StepOK, AtRunning
  <2> QED  BY <1>7, <1>o, <2>1, ExhaustedFields DEF UpdateExhausted, Writes
<1>8. CASE UpdateCompleted
  <2>1. rc.pc = "complete" /\ rc.obj.jobStatus = "in progress"
    BY <1>8 DEF UpdateCompleted, StepOK, AtRunning
  <2> QED  BY <1>8, <1>o, <2>1, CompletedFields, MessageFields DEF UpdateCompleted, Writes
<1> QED  BY <1>1, <1>2, <1>3, <1>4, <1>5, <1>6, <1>7, <1>8 DEF OperatorUpdate

\* An accepted update, as the caches and the pods' owners will see it.
LEMMA Update ==
  ASSUME IInv, OperatorUpdate, job' # job
  PROVE  /\ rc # Idle /\ rc.key \in Jobs /\ Exists(rc.key) /\ job'[rc.key] # None
         /\ rc.obj \in JobObject /\ WellFormed(rc.obj)
         /\ job[rc.key] = rc.obj /\ jobCache[rc.key] = rc.obj
         /\ Writes(rc.pc, rc.obj, job'[rc.key]) /\ KeepsMessage(rc.obj, job'[rc.key])
         /\ \A j \in Jobs : j # rc.key => job'[j] = job[j]
         /\ rc' = Idle /\ UNCHANGED <<pod, submitted, jobCache, podCache>>
<1>1. PICK new \in JobObject :
        StatusUpdate(new) /\ Writes(rc.pc, rc.obj, new) /\ KeepsMessage(rc.obj, new)
  BY UpdateWrites
<1>2. /\ rc # Idle /\ rc.key \in Jobs /\ rc.obj \in JobObject /\ WellFormed(rc.obj)
  <2>1. rc # Idle
    BY UpdatesAreLegal, Parts
  <2> QED  BY <2>1, Busy DEF IInv, StatusOK, VersionOK
<1> DEFINE p == AtVersion(new, rc.obj.rv + 1)
<1>3. /\ Exists(rc.key) /\ job[rc.key] = rc.obj /\ jobCache[rc.key] = rc.obj
      /\ job' = [job EXCEPT ![rc.key] = p]
  BY <1>1, <1>2, AcceptedIsCurrent
<1>4. rc.obj.rv + 1 \in Nat
  <2>1. rc.obj.rv \in Nat
    BY <1>2, JobFields, Zenon
  <2> QED  BY <2>1, NextVersion, Zenon
<1>5. /\ p # None /\ p.jobStatus = new.jobStatus /\ p.retries = new.retries
      /\ p.podName = new.podName /\ p.errorMessage = new.errorMessage
  BY <1>4, AtVersionFields, MessageFields, JobFields, Zenon
<1> HIDE DEF p
<1>6. job'[rc.key] = p /\ \A j \in Jobs : j # rc.key => job'[j] = job[j]
  BY <1>2, <1>3 DEF IInv, TypeOK
<1>7. rc' = Idle /\ UNCHANGED <<pod, submitted, jobCache, podCache>>
  BY <1>1 DEF StatusUpdate, Requeue, caches
<1>8. Writes(rc.pc, rc.obj, job'[rc.key]) /\ KeepsMessage(rc.obj, job'[rc.key])
  BY <1>1, <1>5, <1>6 DEF Writes, KeepsMessage
<1>9. job'[rc.key] # None
  BY <1>5, <1>6
<1> QED  BY <1>2, <1>3, <1>6, <1>7, <1>8, <1>9

\* The steps of a reconcile that write no status leave its copy and the caches
\* alone, and of the resources at most one is deleted.
OtherStep ==
    \/ HandlePendingJob \/ CreateSimulatorPod \/ HandleRunningJob \/ DeleteFailedPod
    \/ HandleTerminalJob \/ DeleteTerminalPod \/ CheckTTL

LEMMA CopyGoesOn ==
  ASSUME TypeOK, rc # Idle, NEW step \in Steps \ {"idle"}, GoTo(step) \/ Requeue \/ Done
  PROVE  SameCopy
<1>1. CASE GoTo(step)
  <2>1. rc'.pc = step /\ rc'.key = rc.key /\ rc'.obj = rc.obj
    BY <1>1, GoToFields
  <2> QED  BY <2>1 DEF SameCopy, Idle
<1> QED  BY <1>1 DEF Requeue, Done, SameCopy

LEMMA OtherStepEffect ==
  ASSUME IInv, OtherStep
  PROVE  /\ rc # Idle /\ SameCopy /\ UNCHANGED <<submitted, jobCache, podCache>>
         /\ \A j \in Jobs : Exists(j)' => Exists(j) /\ job'[j] = job[j]
<1>1. rc # Idle
  <2>1. rc.pc # "idle"
    BY DEF OtherStep, HandlePendingJob, CreateSimulatorPod, HandleRunningJob, DeleteFailedPod,
           HandleTerminalJob, DeleteTerminalPod, CheckTTL
  <2> QED  BY <2>1, Busy DEF IInv
<1>2. /\ UNCHANGED <<submitted, jobCache, podCache>>
      /\ job' = job \/ job' = [job EXCEPT ![rc.key] = None]
  BY DEF OtherStep, HandlePendingJob, CreateSimulatorPod, HandleRunningJob, DeleteFailedPod,
         HandleTerminalJob, DeleteTerminalPod, CheckTTL, DeleteThen, cluster, caches
<1>3. \A j \in Jobs : Exists(j)' => Exists(j) /\ job'[j] = job[j]
  BY <1>1, <1>2, Busy DEF IInv, TypeOK, Exists
<1>4. \/ Requeue \/ Done
      \/ \E step \in {"create", "progress", "name", "lost", "delete failed", "exhausted", "complete",
                      "retry", "ttl", "delete pod"} : GoTo(step)
  <2>1. CASE HandlePendingJob \/ CreateSimulatorPod
    BY <2>1 DEF HandlePendingJob, CreateSimulatorPod
  <2>2. CASE HandleRunningJob
    BY <2>2 DEF HandleRunningJob, AfterPod, Poll
  <2>3. CASE DeleteFailedPod \/ DeleteTerminalPod
    BY <2>3 DEF DeleteFailedPod, DeleteTerminalPod, DeleteThen
  <2>4. CASE HandleTerminalJob \/ CheckTTL
    BY <2>4 DEF HandleTerminalJob, CheckTTL, AwaitTTL
  <2> QED  BY <2>1, <2>2, <2>3, <2>4 DEF OtherStep
<1>5. SameCopy
  <2>1. Requeue \/ Done => SameCopy
    BY DEF Requeue, Done, SameCopy
  <2> QED  BY <1>1, <1>4, <2>1, CopyGoesOn DEF IInv, Steps
<1> QED  BY <1>1, <1>2, <1>3, <1>5

\* Any step that changes no resource but by deleting or patching it.
LEMMA LagFrame ==
  ASSUME IInv, LagOK, SameCopy, jobCache' = jobCache,
         \A j \in Jobs : Exists(j)' => Exists(j) /\ Same(job[j], job'[j])
  PROVE  LagOK'
<1>1. ASSUME NEW j \in Jobs, Exists(j)', NEW o, OneBehind(o, job[j])
      PROVE  OneBehind(o, job'[j])
  BY <1>1 DEF OneBehind, Follows, Same
<1>2. \A j \in Jobs : Exists(j)' /\ jobCache'[j] # None => OneBehind(jobCache'[j], job'[j])
  BY <1>1 DEF LagOK
<1>3. ASSUME rc' # Idle
      PROVE  /\ rc'.key = rc.key /\ rc'.obj = rc.obj /\ rc # Idle /\ rc.key \in Jobs
  BY <1>3, Busy DEF SameCopy, IInv
<1>4. rc' # Idle /\ Exists(rc.key)' => OneBehind(rc.obj, job[rc.key])'
  BY <1>1, <1>3 DEF LagOK, Exists
<1>5. ASSUME rc' # Idle, jobCache'[rc'.key] # None
      PROVE  /\ OneBehind(rc.obj, jobCache[rc.key])'
             /\ \/ Same(rc.obj, jobCache[rc.key])'
                \/ Exists(rc.key)' => Same(jobCache[rc.key], job[rc.key])'
  <2>1. /\ OneBehind(rc.obj, jobCache[rc.key])
        /\ \/ Same(rc.obj, jobCache[rc.key])
           \/ Exists(rc.key) => Same(jobCache[rc.key], job[rc.key])
    BY <1>3, <1>5 DEF LagOK
  <2>2. /\ rc'.key = rc.key /\ rc'.obj = rc.obj
        /\ Exists(rc.key)' => Exists(rc.key) /\ Same(job[rc.key], job'[rc.key])
    BY <1>3, <1>5 DEF Exists
  <2> QED  BY <2>1, <2>2 DEF Same, OneBehind, Follows
<1> QED  BY <1>2, <1>4, <1>5 DEF LagOK

LEMMA SameIsBehind ==
  /\ \A o : Same(o, o)
  /\ \A o, p : Same(o, p) => OneBehind(o, p)
  BY DEF Same, OneBehind

LEMMA UpdateLag ==
  ASSUME IInv, LagOK, OperatorUpdate, job' # job
  PROVE  LagOK'
<1>1. Follows(rc.obj, job'[rc.key]) \/ Same(rc.obj, job'[rc.key])
  BY Update DEF Writes, Follows, Same, WellFormed, Terminal
<1>2. ASSUME NEW j \in Jobs, Exists(j)', jobCache'[j] # None
      PROVE  OneBehind(jobCache'[j], job'[j])
  <2>1. CASE j = rc.key
    <3>1. jobCache'[j] = rc.obj
      BY <2>1, Update
    <3> QED  BY <1>1, <2>1, <3>1 DEF OneBehind
  <2>2. CASE j # rc.key
    BY <1>2, <2>2, Update DEF LagOK, Exists
  <2> QED  BY <2>1, <2>2
<1> QED  BY <1>2, Update DEF LagOK, Exists

LEMMA ReconcileLag ==
  ASSUME IInv, LagOK, NEW j \in Jobs, Reconcile(j)
  PROVE  LagOK'
<1>1. UNCHANGED <<job, jobCache>>
  BY DEF Reconcile, cluster, caches
<1>2. rc' = Idle \/ (rc'.key = j /\ rc'.obj = jobCache[j] /\ jobCache[j] # None)
  BY DEF Reconcile
<1> QED  BY <1>1, <1>2, SameIsBehind DEF LagOK, Exists

LEMMA RefreshLag ==
  ASSUME IInv, LagOK, job' = job, rc' = rc \/ rc' = Idle,
         \A j \in Jobs : jobCache'[j] = jobCache[j] \/ jobCache'[j] = job[j]
  PROVE  LagOK'
<1>1. \A j \in Jobs : Exists(j)' /\ jobCache'[j] # None => OneBehind(jobCache'[j], job'[j])
  BY SameIsBehind DEF LagOK, Exists
<1>2. ASSUME rc # Idle, jobCache'[rc.key] # None
      PROVE  /\ OneBehind(rc.obj, jobCache'[rc.key])
             /\ \/ Same(rc.obj, jobCache'[rc.key])
                \/ Exists(rc.key) => Same(jobCache'[rc.key], job[rc.key])
  <2>1. rc.key \in Jobs
    BY <1>2, Busy DEF IInv
  <2> QED  BY <1>2, <2>1, SameIsBehind DEF LagOK, Exists
<1> QED  BY <1>1, <1>2 DEF LagOK, Exists

LEMMA SubmitLag ==
  ASSUME IInv, LagOK, NEW k \in Jobs, Submit(k)
  PROVE  LagOK'
<1>1. /\ jobCache[k] = None /\ (rc # Idle => rc.key # k) /\ UNCHANGED <<jobCache, rc>>
      /\ \A j \in Jobs : j # k => job'[j] = job[j]
  BY SubmittedFirst DEF Submit, caches, IInv, TypeOK, VersionsOK
<1>2. rc # Idle => rc.key \in Jobs /\ rc.key # k
  BY <1>1, Busy DEF IInv
<1> QED  BY <1>1, <1>2 DEF LagOK, Exists

LEMMA PodStepEffect ==
  ASSUME IInv, NEW k \in Jobs, NEW n \in Attempts, PodStep(k, n)
  PROVE  /\ UNCHANGED <<submitted, jobCache, podCache, rc>>
         /\ \A j \in Jobs : (Exists(j)' <=> Exists(j)) /\ (Exists(j) => Same(job[j], job'[j]))
<1>1. MaybePatched(k) /\ UNCHANGED <<submitted, jobCache, podCache, rc>>
  BY DEF PodStep, StartSimulator, ReportSuccess, ReportFailure, ExitSuccess, ExitFailure,
         KillPod, FailPod, Disrupt, CollectPod, ReapPod, OperatorUnchanged, MaybePatched, caches
<1> QED  BY <1>1, PatchEffect, Parts DEF Same, View, ClusterOK

\* What else happens to a job does not concern the reconcile in progress.
LEMMA JobStepEffect ==
  ASSUME IInv, NEW k \in Jobs, UserDelete(k) \/ PassTimeOut(k) \/ PassTTL(k)
  PROVE  /\ UNCHANGED <<pod, submitted, jobCache, podCache, rc>>
         /\ \A j \in Jobs : Exists(j)' => Exists(j) /\ job'[j] = job[j]
<1>1. /\ UNCHANGED <<pod, submitted, jobCache, podCache, rc>>
      /\ job' = job \/ job' = [job EXCEPT ![k] = None]
  BY DEF UserDelete, PassTimeOut, PassTTL, OperatorUnchanged, cluster, caches
<1> QED  BY <1>1 DEF IInv, TypeOK, Exists

LEMMA LagStep ==
  ASSUME IInv, LagOK, [Next]_vars
  PROVE  LagOK'
<1>s. rc' = rc => SameCopy
  BY DEF SameCopy, Idle
<1>1. CASE OperatorUpdate
  <2>1. CASE job' # job
    BY <1>1, <2>1, UpdateLag
  <2>2. CASE job' = job
    <3>1. SameCopy /\ jobCache' = jobCache
      BY <1>1, UpdateWrites DEF StatusUpdate, Requeue, SameCopy, caches
    <3> QED  BY <2>2, <3>1, SameIsBehind, LagFrame DEF Exists
  <2> QED  BY <2>1, <2>2
<1>2. CASE OtherStep
  BY <1>2, OtherStepEffect, SameIsBehind, LagFrame
<1>3. CASE CrashRestart
  BY <1>3, RefreshLag DEF CrashRestart, cluster
<1>4. ASSUME NEW j \in Jobs, Reconcile(j)
      PROVE  LagOK'
  BY <1>4, ReconcileLag
<1>5. ASSUME NEW j \in Jobs, JobStep(j)
      PROVE  LagOK'
  <2>1. CASE Submit(j)
    BY <2>1, SubmitLag
  <2>2. CASE SyncJob(j) \/ SyncPods(j)
    <3>1. \A i \in Jobs : jobCache'[i] = jobCache[i] \/ jobCache'[i] = job[i]
      BY <2>2 DEF SyncJob, SyncPods, IInv, TypeOK
    <3> QED  BY <2>2, <3>1, RefreshLag DEF SyncJob, SyncPods, cluster
  <2>3. CASE UserDelete(j) \/ PassTimeOut(j) \/ PassTTL(j)
    BY <1>s, <2>3, JobStepEffect, SameIsBehind, LagFrame
  <2> QED  BY <1>5, <2>1, <2>2, <2>3 DEF JobStep
<1>6. ASSUME NEW j \in Jobs, NEW n \in Attempts, PodStep(j, n)
      PROVE  LagOK'
  BY <1>s, <1>6, PodStepEffect, LagFrame
<1>7. CASE UNCHANGED vars
  <2>1. job' = job /\ rc' = rc /\ jobCache' = jobCache
    BY <1>7 DEF vars, cluster, caches
  <2> QED  BY <1>s, <2>1, SameIsBehind, LagFrame DEF Exists
<1> QED  BY <1>1, <1>2, <1>3, <1>4, <1>5, <1>6, <1>7 DEF Next, OperatorStep, OperatorUpdate, OtherStep

\* Whatever the informers miss, neither the cache nor the reconciler's copy is
\* more than one update behind the resource: an update needs a copy of the
\* current version, so the cache has had that version.
THEOREM CopiesLagByOne == Spec => []LagOK
<1>1. Init => LagOK
  BY DEF Init, LagOK, Exists
<1>2. IInv /\ LagOK /\ [Next]_vars => LagOK'
  BY LagStep
<1> QED  BY <1>1, <1>2, Invariance, PTL DEF Spec

-----------------------------------------------------------------------------
(* Where pods are deleted by the operator alone, and by the cluster only   *)
(* because the operator has asked for it or their owner is gone.           *)

Undisturbed == FaultKinds \cap {"disruption", "read"} = {}

Present(j, n) == pod[j][n].phase # "absent"
Live(j, n) == pod[j][n].phase \in {"Pending", "Running"}
Seen(j, n) == podCache[j][n] # "absent"
Ended(j, n) == podCache[j][n] \in {"Succeeded", "Failed"}

\* What version o of the resource, the current one, says of the pods of job j: of
\* later attempts there are none; no attempt but its own is live; its own pod is
\* there while a status names it, until a lost or failed one is noticed.
Fits(j, o) ==
    /\ \A n \in Attempts : pod[j][n].deleting => o.jobStatus \in Terminal
    /\ \A n \in Attempts : n > o.retries => ~Present(j, n) /\ ~Seen(j, n)
    /\ \A n \in Attempts : Live(j, n) => n = o.retries
    /\ o.jobStatus \in {"", "pending"} /\ o.podName = NoPod /\ ~Present(j, o.retries) =>
           ~Seen(j, o.retries)
    /\ o.jobStatus = "pending" /\ o.podName # NoPod => Present(j, o.retries)
    /\ o.jobStatus = "in progress" /\ ~Seen(j, o.retries) => ~Present(j, o.retries)
    /\ o.jobStatus \notin Terminal /\ Ended(j, o.retries) => ~Live(j, o.retries)

JobIs(j, status) == Exists(j) /\ job[j].jobStatus = status

\* What a copy o of the resource of job j, which may be one update behind, still
\* says: a pod that has been launched is there and in the cache, a lost one is
\* gone from both, and an end in the cache is not that of an earlier pod.
Lags(j, o) ==
    /\ o.jobStatus = "pending" /\ JobIs(j, "in progress") =>
           Present(j, o.retries) /\ Seen(j, o.retries)
    /\ o.jobStatus = "in progress" /\ JobIs(j, "pending") /\ job[j].retries = o.retries =>
           ~Present(j, o.retries) /\ ~Seen(j, o.retries)
    /\ o.jobStatus = "in progress" /\ Ended(j, o.retries) => ~Live(j, o.retries)
    /\ o.jobStatus \in {"", "pending"} => \A n \in Attempts : Live(j, n) => n = o.retries

\* At most one pod of job j is live, and the cache starts from nothing.
Alone(j) ==
    /\ \A m, n \in Attempts : Live(j, m) /\ Live(j, n) => m = n
    /\ j \notin submitted => \A n \in Attempts : ~Seen(j, n)

CacheIs(j, status) == jobCache[j] # None /\ jobCache[j].jobStatus = status

\* What the reconcile of job j from copy o knows at each step.
Knows(step, j, o) ==
    /\ step = "pending" /\ CacheIs(j, "in progress") /\ ~Seen(j, o.retries) => ~Present(j, o.retries)
    /\ step = "create" => ~JobIs(j, "in progress")
    /\ step = "create" /\ CacheIs(j, "in progress") =>
           ~Exists(j) /\ ~Present(j, o.retries) /\ ~Seen(j, o.retries)
    /\ step = "name" /\ JobIs(j, "pending") => Present(j, o.retries)
    /\ step = "progress" /\ JobIs(j, "pending") => Present(j, o.retries) /\ Seen(j, o.retries)
    /\ step = "lost" /\ JobIs(j, "in progress") => ~Present(j, o.retries) /\ ~Seen(j, o.retries)
    /\ step = "delete failed" /\ JobIs(j, "pending") => job[j].retries # o.retries
    /\ step \in {"delete failed", "retry", "complete"} => ~Live(j, o.retries)

JobPods(j) ==
    /\ Exists(j) => Fits(j, job[j])
    /\ jobCache[j] # None => Lags(j, jobCache[j])
    /\ Alone(j)

PodInv ==
    /\ \A j \in Jobs : JobPods(j)
    /\ rc # Idle => Lags(rc.key, rc.obj) /\ Knows(rc.pc, rc.key, rc.obj)

\* The pods of a job that is not finished stay where they are.
Recede(j) == \A n \in Attempts :
    /\ Live(j, n)' => Live(j, n)
    /\ Present(j, n)' => Present(j, n)
    /\ Exists(j) /\ job[j].jobStatus \notin Terminal =>
           /\ Present(j, n) => Present(j, n)'
           /\ pod'[j][n].deleting => pod[j][n].deleting

\* Any step that makes no pod, updates no status and deletes no pod of a job that
\* is not finished.
LEMMA RecedeFrame ==
  ASSUME IInv, PodInv, UNCHANGED <<jobCache, podCache>>, submitted \subseteq submitted',
         \A j \in Jobs : Recede(j),
         \A j \in Jobs : Exists(j)' => Exists(j) /\ Same(job[j], job'[j]),
         \/ rc' = Idle
         \/ /\ rc # Idle /\ rc' # Idle /\ rc'.key = rc.key /\ rc'.obj = rc.obj
            /\ rc'.pc = rc.pc \/ rc'.pc \in {"ttl", "delete pod"}
  PROVE  PodInv'
<1>1. ASSUME NEW j \in Jobs, Exists(j)'
      PROVE  Fits(j, job[j])'
  <2>1. Exists(j) /\ Fits(j, job[j]) /\ Recede(j) /\ Same(job[j], job'[j])
    BY <1>1 DEF PodInv, JobPods
  <2>2. PICK o, p : o = job[j] /\ p = job'[j]
    OBVIOUS
  <2>3. o.retries \in Attempts /\ p.jobStatus = o.jobStatus /\ p.retries = o.retries /\ p.podName = o.podName
    <3>1. o \in JobObject
      BY <2>1, <2>2 DEF IInv, TypeOK, Exists
    <3> QED  BY <2>1, <2>2, <3>1, JobFields DEF Same
  <2>4. /\ \A n \in Attempts : /\ Live(j, n)' => Live(j, n)
                               /\ Present(j, n)' => Present(j, n)
                               /\ Seen(j, n)' <=> Seen(j, n)
        /\ Ended(j, o.retries)' <=> Ended(j, o.retries)
        /\ o.jobStatus \notin Terminal => \A n \in Attempts :
                /\ Present(j, n) => Present(j, n)'
                /\ pod'[j][n].deleting => pod[j][n].deleting
    BY <2>1, <2>2, <2>3 DEF Recede, Seen, Ended
  <2>5. o.jobStatus \in {"", "pending", "in progress"} => o.jobStatus \notin Terminal
    BY DEF Terminal
  <2>6. Fits(j, p)'
    BY <2>1, <2>2, <2>3, <2>4, <2>5 DEF Fits
  <2> QED  BY <2>2, <2>6 DEF Fits
<1>2. ASSUME NEW j \in Jobs, NEW o \in JobObject, Lags(j, o)
      PROVE  Lags(j, o)'
  <2>1. o.retries \in Attempts
    BY JobFields
  <2> QED  BY <1>2, <2>1 DEF Lags, JobIs, Recede, Same, Present, Live, Seen, Ended, Terminal
<1>3. ASSUME NEW j \in Jobs
      PROVE  Alone(j)'
  <2>1. Alone(j) /\ \A n \in Attempts : Live(j, n)' => Live(j, n)
    BY <1>3 DEF PodInv, JobPods, Recede
  <2>2. \A n \in Attempts : Seen(j, n)' <=> Seen(j, n)
    BY DEF Seen
  <2> QED  BY <2>1, <2>2 DEF Alone
<1>4. ASSUME NEW j \in Jobs, NEW o \in JobObject, NEW step, Knows(step, j, o)
      PROVE  Knows(step, j, o)'
  <2>1. /\ Live(j, o.retries)' => Live(j, o.retries)
        /\ Present(j, o.retries)' => Present(j, o.retries)
        /\ Seen(j, o.retries)' <=> Seen(j, o.retries)
        /\ \A status \in JobState : CacheIs(j, status)' <=> CacheIs(j, status)
    BY JobFields DEF Recede, Live, Present, Seen, CacheIs
  <2>2. /\ \A status \in JobState : JobIs(j, status)' => JobIs(j, status)
        /\ JobIs(j, "pending")' => /\ Present(j, o.retries) => Present(j, o.retries)'
                                   /\ job'[j].retries = job[j].retries
        /\ Exists(j)' => Exists(j)
    BY JobFields DEF JobIs, Recede, Same, Terminal, Exists, Present
  <2> HIDE DEF Live, Present, Seen, CacheIs, JobIs, Exists
  <2> QED  BY <1>4, <2>1, <2>2 DEF Knows, JobState
<1>5. \A j \in Jobs : jobCache'[j] # None => Lags(j, jobCache[j])'
  <2>1. SUFFICES ASSUME NEW j \in Jobs, NEW o, o = jobCache[j], o # None
                 PROVE  Lags(j, o)'
    BY DEF Lags
  <2> QED  BY <1>2, <2>1 DEF PodInv, JobPods, IInv, TypeOK
<1>6. ASSUME rc' # Idle
      PROVE  Lags(rc.key, rc.obj)' /\ Knows(rc.pc, rc.key, rc.obj)'
  <2>1. PICK k, o, step : k = rc.key /\ o = rc.obj /\ step = rc.pc
    OBVIOUS
  <2>2. k \in Jobs /\ o \in JobObject /\ Lags(k, o) /\ Knows(step, k, o)
    BY <1>6, <2>1, Busy DEF PodInv, JobPods, IInv
  <2>3. Lags(k, o)' /\ Knows(step, k, o)'
    BY <1>2, <1>4, <2>2
  <2>4. rc'.key = k /\ rc'.obj = o /\ (rc'.pc = step \/ rc'.pc \in {"ttl", "delete pod"})
    BY <1>6, <2>1
  <2>5. Lags(rc.key, rc.obj)'
    BY <2>3, <2>4 DEF Lags
  <2>6. Knows(rc.pc, rc.key, rc.obj)'
    <3>1. CASE rc'.pc = step
      BY <2>3, <2>4, <3>1 DEF Knows
    <3>2. CASE rc'.pc \in {"ttl", "delete pod"}
      BY <3>2 DEF Knows
    <3> QED  BY <2>4, <3>1, <3>2
  <2> QED  BY <2>5, <2>6
<1> QED  BY <1>1, <1>3, <1>5, <1>6 DEF PodInv, JobPods

\* What a step leaves of job j.
Untouched(j) ==
    /\ job'[j] = job[j] /\ jobCache'[j] = jobCache[j]
    /\ pod'[j] = pod[j] /\ podCache'[j] = podCache[j]
    /\ j \in submitted <=> j \in submitted'

LEMMA UntouchedJob ==
  ASSUME NEW j \in Jobs, Untouched(j)
  PROVE  /\ JobPods(j) => JobPods(j)'
         /\ \A o : Lags(j, o) => Lags(j, o)'
         /\ \A step, o : Knows(step, j, o) => Knows(step, j, o)'
<1>1. \A o : Fits(j, o) => Fits(j, o)'
  BY DEF Untouched, Fits, Present, Live, Seen, Ended
<1>2. \A o : Lags(j, o) => Lags(j, o)'
  BY DEF Untouched, Lags, JobIs, Exists, Present, Live, Seen, Ended
<1>3. ASSUME NEW step, NEW o, Knows(step, j, o)
      PROVE  Knows(step, j, o)'
  <2>1. /\ Live(j, o.retries)' <=> Live(j, o.retries)
        /\ Present(j, o.retries)' <=> Present(j, o.retries)
        /\ Seen(j, o.retries)' <=> Seen(j, o.retries)
    BY DEF Untouched, Live, Present, Seen
  <2>2. /\ \A status : JobIs(j, status)' <=> JobIs(j, status)
        /\ \A status : CacheIs(j, status)' <=> CacheIs(j, status)
        /\ Exists(j)' <=> Exists(j)
        /\ job'[j] = job[j]
    BY DEF Untouched, JobIs, CacheIs, Exists
  <2> QED  BY <1>3, <2>1, <2>2 DEF Knows
<1>4. Alone(j) => Alone(j)'
  BY DEF Untouched, Alone, Live, Seen
<1>5. (Exists(j) => Fits(j, job[j])) => (Exists(j) => Fits(j, job[j]))'
  <2>1. PICK o : o = job[j] /\ o = job'[j]
    BY DEF Untouched
  <2> QED  BY <1>1, <2>1 DEF Fits, Exists
<1>6. (jobCache[j] # None => Lags(j, jobCache[j])) => (jobCache[j] # None => Lags(j, jobCache[j]))'
  <2>1. PICK o : o = jobCache[j] /\ o = jobCache'[j]
    BY DEF Untouched
  <2> QED  BY <1>2, <2>1 DEF Lags
<1> QED  BY <1>2, <1>3, <1>4, <1>5, <1>6 DEF JobPods

LEMMA UpdatePods ==
  ASSUME IInv, PodInv, OperatorUpdate, job' # job
  PROVE  PodInv'
<1>1. PICK k, o, p : k = rc.key /\ o = rc.obj /\ p = job'[k]
  OBVIOUS
<1>2. /\ k \in Jobs /\ job[k] = o /\ jobCache[k] = o /\ o # None /\ p # None
      /\ o.retries \in Nat /\ o.retries \in Attempts /\ WellFormed(o)
      /\ Writes(rc.pc, o, p) /\ rc' = Idle /\ UNCHANGED <<pod, submitted, jobCache, podCache>>
      /\ \A j \in Jobs : j # k => job'[j] = job[j]
  <2>1. rc.obj.retries \in Nat /\ rc.obj.retries \in Attempts
    BY Update, JobFields
  <2> QED  BY <1>1, <2>1, Update DEF Exists
<1>3. Fits(k, o) /\ Lags(k, o) /\ Alone(k) /\ Knows(rc.pc, k, o)
  BY <1>1, <1>2, Update DEF PodInv, JobPods, Exists
<1>4. \A status : JobIs(k, status) <=> o.jobStatus = status
  BY <1>2 DEF JobIs, Exists
<1>5. /\ rc.pc = "name" => Present(k, o.retries)
      /\ rc.pc = "progress" => Present(k, o.retries) /\ Seen(k, o.retries)
      /\ rc.pc = "lost" => ~Present(k, o.retries) /\ ~Seen(k, o.retries)
      /\ rc.pc = "retry" => ~Live(k, o.retries)
  BY <1>2, <1>3, <1>4 DEF Knows, Writes
<1>6. Fits(k, p)
  <2>1. CASE p.jobStatus = "failed" \/ p.jobStatus = "completed"
    BY <1>2, <1>3, <2>1 DEF Writes, Fits, Terminal
  <2>2. CASE rc.pc \in {"new", "name", "lost"}
    <3>1. p.jobStatus = "pending" /\ p.retries = o.retries /\ o.jobStatus \notin Terminal
      BY <1>2, <2>2 DEF Writes, Terminal
    <3>2. p.podName # NoPod => Present(k, o.retries)
      BY <1>2, <1>5, <2>2 DEF Writes
    <3>3. ~Present(k, o.retries) => ~Seen(k, o.retries)
      BY <1>2, <1>3, <1>5, <2>2 DEF Writes, WellFormed, Fits
    <3> QED  BY <1>3, <3>1, <3>2, <3>3 DEF Fits, Terminal
  <2>3. CASE rc.pc = "progress"
    BY <1>2, <1>3, <1>5, <2>3 DEF Writes, Fits, Terminal
  <2>4. CASE rc.pc = "retry"
    <3>1. /\ p.jobStatus = "pending" /\ p.retries = o.retries + 1 /\ p.podName = NoPod
          /\ o.jobStatus = "in progress" /\ o.retries < MaxRetries
      BY <1>2, <2>4 DEF Writes
    <3>2. /\ p.retries \in Attempts
          /\ \A n \in Attempts : n > p.retries => n > o.retries
          /\ p.retries > o.retries
      <4>1. \A r \in Nat : r < MaxRetries =>
              /\ r + 1 \in Attempts /\ r + 1 > r
              /\ \A n \in Attempts : n > r + 1 => n > r
        BY BoundsAssumption DEF Attempts
      <4> QED  BY <1>2, <3>1, <4>1
    <3>3. \A n \in Attempts : ~Live(k, n)
      BY <1>3, <1>5, <2>4 DEF Fits
    <3>4. ~Seen(k, p.retries)
      BY <1>3, <3>2 DEF Fits
    <3>5. \A n \in Attempts : ~pod[k][n].deleting
      BY <1>3, <3>1 DEF Fits, Terminal
    <3> QED  BY <1>3, <3>1, <3>2, <3>3, <3>4, <3>5 DEF Fits
  <2> QED  BY <1>2, <2>1, <2>2, <2>3, <2>4 DEF Writes
<1>7. Lags(k, o)'
  <2>1. \A status : JobIs(k, status)' => p.jobStatus = status
    BY <1>1 DEF JobIs
  <2>2. /\ \A n \in Attempts : Live(k, n)' <=> Live(k, n)
        /\ Present(k, o.retries)' <=> Present(k, o.retries)
        /\ Seen(k, o.retries)' <=> Seen(k, o.retries)
        /\ Ended(k, o.retries)' <=> Ended(k, o.retries)
        /\ job'[k].retries = p.retries
    BY <1>1, <1>2 DEF Live, Present, Seen, Ended
  <2>3. o.jobStatus = "pending" /\ p.jobStatus = "in progress" => rc.pc = "progress"
    BY <1>2 DEF Writes
  <2>4. o.jobStatus = "in progress" /\ p.jobStatus = "pending" /\ p.retries = o.retries => rc.pc = "lost"
    <3>1. \A r \in Nat : r + 1 # r
      OBVIOUS
    <3> QED  BY <1>2, <3>1 DEF Writes
  <2> QED  BY <1>2, <1>3, <1>5, <2>1, <2>2, <2>3, <2>4 DEF Lags
<1>8. JobPods(k)'
  <2>1. Fits(k, job[k])'
    BY <1>1, <1>2, <1>6 DEF Fits, Present, Live, Seen, Ended
  <2>2. Lags(k, jobCache[k])'
    BY <1>2, <1>7 DEF Lags
  <2> QED  BY <1>2, <1>3, <2>1, <2>2 DEF JobPods, Alone, Live, Seen
<1>9. ASSUME NEW j \in Jobs, j # k
      PROVE  JobPods(j)'
  BY <1>2, <1>9, UntouchedJob DEF Untouched, PodInv
<1> QED  BY <1>2, <1>8, <1>9 DEF PodInv

LEMMA NoSuchPod ==
  ASSUME IInv, NEW j \in Jobs, NEW n \in Attempts
  PROVE  /\ pod[j][n] = AbsentPod => ~Present(j, n)
         /\ ~Present(j, n) /\ ~pod[j][n].deleting => pod[j][n] = AbsentPod
<1>1. pod[j][n] \in PodObject
  BY DEF IInv, TypeOK
<1>2. ~Present(j, n) => pod[j][n].sim = "none"
  BY DEF IInv, EvidenceOK, StepEvidence, Present
<1> QED  BY <1>1, <1>2, NewPodFields DEF Present, PodObject, AbsentPod

\* The pod of the attempt the copy counts, made where there was none.
LEMMA CreateMakes ==
  ASSUME IInv, LagOK, PodInv, rc # Idle, rc.pc = "create",
         NEW k, NEW o, k = rc.key, o = rc.obj, pod[k][o.retries] = AbsentPod,
         pod' = [pod EXCEPT ![k][o.retries] = NewPod],
         UNCHANGED <<job, submitted, jobCache, podCache>>
  PROVE  (\A j \in Jobs : JobPods(j)') /\ Lags(k, o)' /\ Present(k, o.retries)'
<1>1. PICK r : r = o.retries
  OBVIOUS
<1>2. k \in Jobs /\ o \in JobObject /\ r \in Attempts /\ o.retries = r
  BY <1>1, Busy, JobFields DEF IInv
<1>3. /\ o.jobStatus = "pending" /\ ~JobIs(k, "in progress") /\ Lags(k, o) /\ JobPods(k)
      /\ Exists(k) => job[k].retries = r
      /\ CacheIs(k, "in progress") => ~Exists(k) /\ ~Present(k, r) /\ ~Seen(k, r)
  <2>1. o.jobStatus = "pending" /\ StillHolds(k, o)
    BY <1>1 DEF IInv, StepOK, AtPending, StatusOK, VersionOK
  <2> QED  BY <1>1, <1>2, <2>1 DEF PodInv, Knows, StillHolds, AttemptKept
<1>4. /\ \A n \in Attempts : n # r => pod'[k][n] = pod[k][n]
      /\ \A j \in Jobs : j # k => pod'[j] = pod[j]
      /\ pod'[k][r] = NewPod
  BY <1>1, <1>2 DEF IInv, TypeOK
<1>5. /\ \A n \in Attempts : Live(k, n) => n = r
      /\ \A n \in Attempts : Live(k, n)' => n = r
      /\ \A n \in Attempts : n # r => /\ Present(k, n)' <=> Present(k, n)
                                      /\ pod'[k][n].deleting <=> pod[k][n].deleting
      /\ \A n \in Attempts : Seen(k, n)' <=> Seen(k, n)
      /\ Present(k, r)' /\ ~pod'[k][r].deleting
  <2>1. \A n \in Attempts : Live(k, n) => n = r
    BY <1>2, <1>3 DEF Lags
  <2> QED  BY <1>2, <1>4, <2>1, NewPodFields DEF Live, Present, Seen
<1>6. ASSUME Exists(k)
      PROVE  Fits(k, job[k])'
  <2>1. PICK q : q = job[k] /\ q = job'[k]
    OBVIOUS
  <2>2. Fits(k, q) /\ q.retries = r /\ q.jobStatus # "in progress" /\ ~Present(k, r)
    BY <1>1, <1>2, <1>3, <1>6, <2>1, NoSuchPod DEF JobPods, JobIs
  <2>3. q.jobStatus \notin Terminal => ~Seen(k, r)
    <3>1. q \in JobObject /\ WellFormed(q)
      BY <1>2, <1>6, <2>1 DEF IInv, TypeOK, StatusOK, VersionOK, Exists
    <3>2. q.jobStatus \in {"", "pending"} \cup Terminal
      BY <2>2, <3>1, JobFields DEF Terminal
    <3> QED  BY <2>2, <3>1, <3>2 DEF Fits, WellFormed
  <2>4. q.jobStatus \notin Terminal => ~Ended(k, r)'
    BY <2>3 DEF Seen, Ended
  <2>5. \A n \in Attempts : n > r => n # r
    BY DEF Attempts
  <2>6. Fits(k, q)'
    BY <1>2, <1>5, <2>2, <2>4, <2>5 DEF Fits
  <2> QED  BY <2>1, <2>6 DEF Fits
<1>7. ASSUME jobCache[k] # None
      PROVE  Lags(k, jobCache[k])'
  <2>1. PICK c : c = jobCache[k] /\ c = jobCache'[k]
    OBVIOUS
  <2>2. Lags(k, c) /\ c.retries \in Attempts /\ OneBehind(o, c)
    BY <1>1, <1>2, <1>3, <1>7, <2>1, JobFields DEF JobPods, LagOK, IInv, TypeOK
  <2>3. /\ c.jobStatus \in {"", "pending"} => c.retries = r
        /\ c.jobStatus = "in progress" => ~Exists(k) /\ ~Present(k, r) /\ ~Seen(k, r)
    BY <1>2, <1>3, <1>7, <2>1, <2>2 DEF OneBehind, Same, Follows, CacheIs
  <2>4. c.jobStatus = "in progress" /\ Ended(k, c.retries)' => ~Live(k, c.retries)'
    BY <1>5, <2>2, <2>3 DEF Lags, Seen, Ended
  <2>5. /\ JobIs(k, "in progress")' <=> JobIs(k, "in progress")
        /\ JobIs(k, "pending")' => Exists(k)
    BY DEF JobIs, Exists
  <2>6. Lags(k, c)'
    BY <1>3, <1>5, <2>2, <2>3, <2>4, <2>5 DEF Lags
  <2> QED  BY <2>1, <2>6 DEF Lags
<1>8. JobPods(k)'
  <2>1. Alone(k)'
    BY <1>3, <1>5 DEF JobPods, Alone, Seen
  <2> QED  BY <1>6, <1>7, <2>1 DEF JobPods, Exists
<1>9. ASSUME NEW j \in Jobs, j # k
      PROVE  JobPods(j)'
  BY <1>4, <1>9, UntouchedJob DEF Untouched, PodInv
<1>10. Lags(k, o)'
  BY <1>2, <1>3, <1>5 DEF Lags, JobIs, Exists
<1> QED  BY <1>2, <1>5, <1>8, <1>9, <1>10 DEF Present

\* How a step that goes on with the reconcile is put together, or one that ends it.
LEMMA Assembled ==
  ASSUME NEW k, NEW o, NEW step, \A j \in Jobs : JobPods(j)',
         rc' = Idle \/ (rc'.key = k /\ rc'.obj = o /\ rc'.pc = step /\ Lags(k, o)' /\ Knows(step, k, o)')
  PROVE  PodInv'
<1>1. CASE rc' = Idle
  BY <1>1 DEF PodInv
<1>2. CASE rc'.key = k /\ rc'.obj = o /\ rc'.pc = step /\ Lags(k, o)' /\ Knows(step, k, o)'
  <2>1. Lags(rc.key, rc.obj)'
    BY <1>2 DEF Lags
  <2>2. Knows(rc.pc, rc.key, rc.obj)'
    BY <1>2 DEF Knows
  <2> QED  BY <2>1, <2>2 DEF PodInv
<1> QED  BY <1>1, <1>2

LEMMA CreatePods ==
  ASSUME IInv, LagOK, PodInv, CreateSimulatorPod
  PROVE  PodInv'
<1>1. rc.pc = "create" /\ rc # Idle /\ UNCHANGED <<job, submitted, jobCache, podCache>>
  BY Busy DEF CreateSimulatorPod, Idle, caches, IInv
<1>2. PICK k, o : k = rc.key /\ o = rc.obj
  OBVIOUS
<1>3. k \in Jobs /\ o \in JobObject /\ o.retries \in Attempts /\ Lags(k, o)
  BY <1>1, <1>2, Busy, JobFields DEF IInv, PodInv
<1>4. rc' = Idle \/ (rc'.pc = "name" /\ rc'.key = k /\ rc'.obj = o /\ CreatePod(k, o.retries))
  <2>1. CASE GoTo("name") /\ CreatePod(rc.key, rc.obj.retries)
    BY <1>1, <1>2, <2>1, GoToFields DEF IInv, Steps
  <2>2. CASE Requeue
    BY <2>2 DEF Requeue
  <2> QED  BY <2>1, <2>2 DEF CreateSimulatorPod
<1>5. CASE pod' # pod
  <2>1. pod[k][o.retries] = AbsentPod /\ pod' = [pod EXCEPT ![k][o.retries] = NewPod]
    BY <1>2, <1>5 DEF CreateSimulatorPod, CreatePod
  <2>2. (\A j \in Jobs : JobPods(j)') /\ Lags(k, o)' /\ Present(k, o.retries)'
    BY <1>1, <1>2, <2>1, CreateMakes
  <2>3. Knows("name", k, o)'
    BY <2>2 DEF Knows
  <2> QED  BY <1>4, <2>2, <2>3, Assembled
<1>6. CASE pod' = pod
  <2>1. \A j \in Jobs : Untouched(j)
    BY <1>1, <1>6 DEF Untouched
  <2>2. (\A j \in Jobs : JobPods(j)') /\ Lags(k, o)'
    BY <1>3, <2>1, UntouchedJob DEF PodInv
  <2>3. ASSUME rc' # Idle
        PROVE  Knows("name", k, o)'
    <3>1. pod[k][o.retries] # AbsentPod
      <4>1. pod[k][o.retries] = AbsentPod => pod'[k][o.retries] = NewPod
        BY <1>3, <1>4, <2>3 DEF CreatePod, IInv, TypeOK
      <4> QED  BY <1>6, <4>1, NewPodFields
    <3>2. ASSUME JobIs(k, "pending")
          PROVE  Present(k, o.retries)
      <4>1. ~pod[k][o.retries].deleting
        BY <1>3, <3>2 DEF PodInv, JobPods, JobIs, Fits, Terminal
      <4> QED  BY <1>3, <3>1, <4>1, NoSuchPod
    <3>3. /\ JobIs(k, "pending")' => JobIs(k, "pending")
          /\ Present(k, o.retries)' <=> Present(k, o.retries)
      BY <1>1, <1>6 DEF JobIs, Present, Exists
    <3> QED  BY <3>2, <3>3 DEF Knows
  <2> QED  BY <1>4, <2>2, <2>3, Assembled
<1> QED  BY <1>5, <1>6

\* The failed pod of the attempt the copy counts, deleted.
LEMMA DeleteFailedRemoves ==
  ASSUME IInv, LagOK, PodInv, rc # Idle, rc.pc = "delete failed",
         NEW k, NEW o, k = rc.key, o = rc.obj, Present(k, o.retries),
         pod' = [pod EXCEPT ![k][o.retries] = AbsentPod],
         UNCHANGED <<job, submitted, jobCache, podCache>>
  PROVE  (\A j \in Jobs : JobPods(j)') /\ Lags(k, o)'
<1>1. PICK r : r = o.retries
  OBVIOUS
<1>2. k \in Jobs /\ o \in JobObject /\ r \in Attempts /\ o.retries = r
  BY <1>1, Busy, JobFields DEF IInv
<1>3. /\ o.jobStatus = "in progress" /\ Lags(k, o) /\ JobPods(k) /\ ~Live(k, r)
      /\ JobIs(k, "pending") => job[k].retries # r
      /\ Exists(k) => job[k].jobStatus # ""
  <2>1. o.jobStatus = "in progress"
    BY DEF IInv, StepOK, AtRunning
  <2>2. Exists(k) => job[k].jobStatus # ""
    BY <2>1 DEF LagOK, OneBehind, Same, Follows
  <2> QED  BY <1>1, <1>2, <2>1, <2>2 DEF PodInv, Knows
<1>4. /\ \A n \in Attempts : n # r => pod'[k][n] = pod[k][n]
      /\ \A j \in Jobs : j # k => pod'[j] = pod[j]
      /\ pod'[k][r] = AbsentPod
  BY <1>1, <1>2 DEF IInv, TypeOK
<1>5. /\ \A n \in Attempts : Live(k, n)' <=> Live(k, n)
      /\ \A n \in Attempts : Present(k, n)' => Present(k, n)
      /\ \A n \in Attempts : n # r => (Present(k, n)' <=> Present(k, n))
      /\ \A n \in Attempts : pod'[k][n].deleting => pod[k][n].deleting
      /\ \A n \in Attempts : Seen(k, n)' <=> Seen(k, n)
      /\ \A n \in Attempts : Ended(k, n)' <=> Ended(k, n)
  <2>1. \A n \in Attempts : (Seen(k, n)' <=> Seen(k, n)) /\ (Ended(k, n)' <=> Ended(k, n))
    BY DEF Seen, Ended
  <2>2. ~Live(k, r)' /\ ~Present(k, r)' /\ ~pod'[k][r].deleting
    BY <1>4, NewPodFields DEF Live, Present
  <2>3. \A n \in Attempts : n # r => /\ Live(k, n)' <=> Live(k, n)
                                     /\ Present(k, n)' <=> Present(k, n)
                                     /\ pod'[k][n].deleting <=> pod[k][n].deleting
    BY <1>4 DEF Live, Present
  <2> QED  BY <1>3, <2>1, <2>2, <2>3
<1>6. /\ \A status : JobIs(k, status)' <=> JobIs(k, status)
      /\ job'[k] = job[k] /\ jobCache'[k] = jobCache[k]
  BY DEF JobIs, Exists
<1>7. ASSUME Exists(k)
      PROVE  Fits(k, job[k])'
  <2>1. PICK q : q = job[k] /\ q = job'[k]
    BY <1>6
  <2>2. /\ Fits(k, q) /\ q.jobStatus # "" /\ q.retries \in Attempts
        /\ q.jobStatus = "pending" => q.retries # r
    BY <1>2, <1>3, <1>7, <2>1, JobFields DEF JobPods, JobIs, IInv, TypeOK, Exists
  <2>3. Fits(k, q)'
    BY <1>5, <2>2 DEF Fits
  <2> QED  BY <2>1, <2>3 DEF Fits
<1>8. ASSUME NEW c \in JobObject, Lags(k, c), c = o \/ c = jobCache[k]
      PROVE  Lags(k, c)'
  <2>1. c.retries \in Attempts
    BY <1>8, JobFields
  <2>2. ~(c.jobStatus = "pending" /\ JobIs(k, "in progress"))
    BY <1>3, <1>8, JobFields DEF LagOK, Same, JobIs
  <2> QED  BY <1>5, <1>6, <1>8, <2>1, <2>2 DEF Lags
<1>9. JobPods(k)'
  <2>1. Alone(k)'
    BY <1>3, <1>5 DEF JobPods, Alone
  <2>2. ASSUME jobCache[k] # None
        PROVE  Lags(k, jobCache[k])'
    <3>1. PICK c : c = jobCache[k]
      OBVIOUS
    <3>2. c \in JobObject /\ Lags(k, c)
      BY <1>2, <1>3, <2>2, <3>1 DEF JobPods, IInv, TypeOK
    <3>3. Lags(k, c)'
      BY <1>8, <3>1, <3>2
    <3> QED  BY <1>6, <3>1, <3>3 DEF Lags
  <2> QED  BY <1>6, <1>7, <2>1, <2>2 DEF JobPods, Exists
<1>10. ASSUME NEW j \in Jobs, j # k
       PROVE  JobPods(j)'
  BY <1>4, <1>10, UntouchedJob DEF Untouched, PodInv
<1> QED  BY <1>2, <1>3, <1>8, <1>9, <1>10

LEMMA DeleteFailedPods ==
  ASSUME IInv, LagOK, PodInv, DeleteFailedPod
  PROVE  PodInv'
<1>1. rc.pc = "delete failed" /\ rc # Idle /\ UNCHANGED <<job, submitted, jobCache, podCache>>
  BY Busy DEF DeleteFailedPod, DeleteThen, Idle, caches, IInv
<1>2. PICK k, o : k = rc.key /\ o = rc.obj
  OBVIOUS
<1>3. k \in Jobs /\ o \in JobObject /\ o.retries \in Attempts /\ Lags(k, o) /\ ~Live(k, o.retries)
  BY <1>1, <1>2, Busy, JobFields DEF IInv, PodInv, Knows
<1>4. rc' = Idle \/ (rc'.pc = "retry" /\ rc'.key = k /\ rc'.obj = o)
  <2>1. CASE GoTo("retry")
    BY <1>1, <1>2, <2>1, GoToFields DEF IInv, Steps
  <2>2. CASE Requeue
    BY <2>2 DEF Requeue
  <2> QED  BY <2>1, <2>2 DEF DeleteFailedPod, DeleteThen
<1>5. CASE pod' # pod
  <2>1. DeletePod(k, o.retries)
    <3>1. o.podName = o.retries
      BY <1>1, <1>2 DEF IInv, StepOK, AtRunning, StatusOK, VersionOK, WellFormed
    <3> QED  BY <1>2, <1>5, <3>1 DEF DeleteFailedPod, DeleteThen
  <2>2. Present(k, o.retries) /\ pod' = [pod EXCEPT ![k][o.retries] = AbsentPod]
    BY <1>3, <1>5, <2>1 DEF DeletePod, Live, Present
  <2>3. (\A j \in Jobs : JobPods(j)') /\ Lags(k, o)'
    BY <1>1, <1>2, <2>2, DeleteFailedRemoves
  <2>4. Knows("retry", k, o)'
    <3>1. ~Live(k, o.retries)'
      BY <1>3, <2>2, NewPodFields DEF Live, IInv, TypeOK
    <3> QED  BY <3>1 DEF Knows
  <2> QED  BY <1>4, <2>3, <2>4, Assembled
<1>6. CASE pod' = pod
  <2>1. \A j \in Jobs : Untouched(j)
    BY <1>1, <1>6 DEF Untouched
  <2>2. (\A j \in Jobs : JobPods(j)') /\ Lags(k, o)'
    BY <1>3, <2>1, UntouchedJob DEF PodInv
  <2>3. Knows("retry", k, o)'
    BY <1>3, <1>6 DEF Knows, Live
  <2> QED  BY <1>4, <2>2, <2>3, Assembled
<1> QED  BY <1>5, <1>6

LEMMA NoPodIsNone == \A n \in Attempts : n # NoPod
  BY DEF Attempts, NoPod

LEMMA OnlyReconciler ==
  ASSUME PodInv, UNCHANGED <<job, pod, submitted, jobCache, podCache>>,
         NEW k \in Jobs, NEW o, NEW step, Lags(k, o),
         rc' = Idle \/ (rc'.key = k /\ rc'.obj = o /\ rc'.pc = step /\ Knows(step, k, o))
  PROVE  PodInv'
<1>1. \A j \in Jobs : Untouched(j)
  BY DEF Untouched
<1> QED  BY <1>1, UntouchedJob, Assembled DEF PodInv

LEMMA ReconcilePods ==
  ASSUME IInv, PodInv, NEW k \in Jobs, Reconcile(k)
  PROVE  PodInv'
<1>1. UNCHANGED <<job, pod, submitted, jobCache, podCache>>
  BY DEF Reconcile, cluster, caches
<1>2. CASE rc' = Idle
  BY <1>1, <1>2, UntouchedJob, Assembled DEF Untouched, PodInv
<1>3. CASE rc' # Idle
  <2>1. PICK o, step : o = jobCache[k] /\ step = Handler(k, o)
    OBVIOUS
  <2>2. o # None /\ rc'.key = k /\ rc'.obj = o /\ rc'.pc = step
    BY <1>3, <2>1 DEF Reconcile
  <2>3. /\ step \in {"timeout", "new", "pending", "running", "terminal"}
        /\ step = "pending" => o.jobStatus = "pending"
    BY <2>1 DEF Handler
  <2>4. Knows(step, k, o)
    BY <2>1, <2>3 DEF Knows, CacheIs
  <2>5. Lags(k, o)
    BY <2>1, <2>2 DEF PodInv, JobPods
  <2> QED  BY <1>1, <2>2, <2>4, <2>5, OnlyReconciler
<1> QED  BY <1>2, <1>3

LEMMA PendingPods ==
  ASSUME IInv, LagOK, PodInv, Undisturbed, HandlePendingJob
  PROVE  PodInv'
<1>1. /\ rc.pc = "pending" /\ rc # Idle
      /\ UNCHANGED <<job, pod, submitted, jobCache, podCache>>
  BY Busy DEF HandlePendingJob, Idle, IInv, cluster, caches
<1>2. PICK k, o, r : k = rc.key /\ o = rc.obj /\ r = o.retries
  OBVIOUS
<1>3. /\ k \in Jobs /\ o \in JobObject /\ r \in Attempts /\ r # NoPod /\ Lags(k, o)
      /\ o.jobStatus = "pending" /\ o.podName \in {NoPod, r}
  BY <1>1, <1>2, Busy, JobFields, NoPodIsNone
  DEF IInv, PodInv, StepOK, AtPending, StatusOK, VersionOK, WellFormed
<1>4. /\ Exists(k) => OneBehind(o, job[k])
      /\ jobCache[k] # None =>
             /\ OneBehind(o, jobCache[k])
             /\ Same(o, jobCache[k]) \/ (Exists(k) => Same(jobCache[k], job[k]))
  BY <1>1, <1>2 DEF LagOK
<1>5. \E step \in {"create", "progress"} :
         /\ rc'.pc = step /\ rc'.key = k /\ rc'.obj = o
         /\ PodPhase(k, o) = "absent" <=> step = "create"
  <2>1. ~GetFails
    BY DEF GetFails, Fault, Undisturbed
  <2>2. PICK step \in {"create", "progress"} :
          GoTo(step) /\ (PodPhase(k, o) = "absent" <=> step = "create")
    BY <1>2, <2>1 DEF HandlePendingJob
  <2> QED  BY <1>1, <1>2, <2>2, GoToFields DEF IInv, Steps
<1>6. ASSUME PodPhase(k, o) = "absent"
      PROVE  Knows("create", k, o)
  <2>1. o.podName = r => ~Seen(k, r)
    BY <1>3, <1>6 DEF PodPhase, Seen
  <2>2. ~JobIs(k, "in progress")
    BY <1>2, <1>3, <1>4, <2>1 DEF Lags, JobIs, OneBehind, Same, Follows
  <2>3. ASSUME CacheIs(k, "in progress")
        PROVE  ~Exists(k) /\ ~Present(k, r) /\ ~Seen(k, r)
    <3>1. jobCache[k] # None /\ ~Same(o, jobCache[k]) /\ o.podName = r
      BY <1>2, <1>3, <1>4, <2>3 DEF CacheIs, OneBehind, Same, Follows
    <3>2. ~Exists(k)
      BY <1>4, <2>2, <2>3, <3>1 DEF CacheIs, JobIs, Same
    <3>3. ~Present(k, r)
      BY <1>1, <1>2, <2>1, <2>3, <3>1 DEF PodInv, Knows
    <3> QED  BY <2>1, <3>1, <3>2, <3>3
  <2> QED  BY <1>2, <2>2, <2>3 DEF Knows
<1>7. ASSUME PodPhase(k, o) # "absent"
      PROVE  Knows("progress", k, o)
  <2>1. o.podName = r /\ Seen(k, r)
    BY <1>3, <1>7 DEF PodPhase, Seen
  <2>2. ASSUME JobIs(k, "pending")
        PROVE  Present(k, r)
    <3>1. Same(o, job[k])
      BY <1>2, <1>3, <1>4, <2>1, <2>2 DEF JobIs, OneBehind, Follows
    <3>2. Fits(k, job[k])
      BY <1>3, <2>2 DEF PodInv, JobPods, JobIs
    <3> QED  BY <1>2, <1>3, <2>1, <3>1, <3>2 DEF Fits, Same
  <2> QED  BY <1>2, <2>1, <2>2 DEF Knows
<1> QED  BY <1>1, <1>3, <1>5, <1>6, <1>7, OnlyReconciler

LEMMA RunningPods ==
  ASSUME IInv, LagOK, PodInv, HandleRunningJob
  PROVE  PodInv'
<1>1. /\ rc.pc = "running" /\ rc # Idle
      /\ UNCHANGED <<job, pod, submitted, jobCache, podCache>>
  BY Busy DEF HandleRunningJob, Idle, IInv, cluster, caches
<1>2. PICK k, o, r : k = rc.key /\ o = rc.obj /\ r = o.retries
  OBVIOUS
<1>3. /\ k \in Jobs /\ o \in JobObject /\ r \in Attempts /\ Lags(k, o)
      /\ o.jobStatus = "in progress" /\ o.podName = r
  BY <1>1, <1>2, Busy, JobFields
  DEF IInv, PodInv, StepOK, AtRunning, StatusOK, VersionOK, WellFormed
<1>4. \/ rc' = Idle
      \/ \E step \in {"lost", "delete failed", "exhausted", "complete"} :
            /\ rc'.pc = step /\ rc'.key = k /\ rc'.obj = o
            /\ step = AfterPod(podCache[k][r], o)
  <2>1. PodPhase(k, o) = podCache[k][r]
    BY <1>3, NoPodIsNone DEF PodPhase
  <2>2. CASE Requeue
    BY <2>2 DEF Requeue
  <2>3. CASE ~Requeue
    <3>1. PICK step \in {"lost", "delete failed", "exhausted", "complete"} :
            GoTo(step) /\ step = AfterPod(podCache[k][r], o)
      BY <1>2, <2>1, <2>3 DEF HandleRunningJob, Poll, AfterPod
    <3> QED  BY <1>1, <1>2, <3>1, GoToFields DEF IInv, Steps
  <2> QED  BY <2>2, <2>3
<1>5. ASSUME podCache[k][r] = "absent"
      PROVE  Knows("lost", k, o)
  <2>1. ASSUME JobIs(k, "in progress")
        PROVE  ~Present(k, r)
    <3>1. Same(o, job[k])
      BY <1>1, <1>2, <1>3, <2>1 DEF LagOK, JobIs, OneBehind, Follows
    <3>2. Fits(k, job[k])
      BY <1>3, <2>1 DEF PodInv, JobPods, JobIs
    <3> QED  BY <1>2, <1>3, <1>5, <3>1, <3>2 DEF Fits, Same, Seen
  <2> QED  BY <1>2, <1>5, <2>1 DEF Knows, Seen
<1>6. ASSUME podCache[k][r] \in {"Succeeded", "Failed"}, NEW step \in {"delete failed", "complete"}
      PROVE  Knows(step, k, o)
  BY <1>2, <1>3, <1>6 DEF Lags, Knows, Seen, Ended
<1>7. ASSUME NEW step \in {"lost", "delete failed", "exhausted", "complete"},
             step = AfterPod(podCache[k][r], o)
      PROVE  Knows(step, k, o)
  <2>1. CASE step = "exhausted"
    BY <2>1 DEF Knows
  <2>2. CASE step = "lost"
    BY <1>5, <1>7, <2>2 DEF AfterPod
  <2>3. CASE step \in {"delete failed", "complete"}
    BY <1>6, <1>7, <2>3 DEF AfterPod
  <2> QED  BY <2>1, <2>2, <2>3
<1> QED  BY <1>1, <1>3, <1>4, <1>7, OnlyReconciler

\* What a resource says of its pods, a copy of it made now says too.
LEMMA FitsIsLags ==
  ASSUME NEW j \in Jobs, Exists(j), job[j].retries \in Attempts, Fits(j, job[j])
  PROVE  Lags(j, job[j])
  BY DEF Fits, Lags, JobIs, Terminal

\* The pods of a job are listed anew, all of them together.
Listed(j) == \A n \in Attempts : podCache'[j][n] = pod[j][n].phase

LEMMA RelistedPods ==
  ASSUME IInv, NEW j \in Jobs, UNCHANGED <<job, pod, submitted>>, podCache'[j] = podCache[j] \/ Listed(j)
  PROVE  /\ \A o \in JobObject : Fits(j, o) => Fits(j, o)'
         /\ \A o \in JobObject : Lags(j, o) => Lags(j, o)'
         /\ \A o \in JobObject : \A step : jobCache'[j] = jobCache[j] /\ Knows(step, j, o) =>
                                           Knows(step, j, o)'
         /\ Alone(j) => Alone(j)'
<1>1. /\ \A n \in Attempts : /\ Live(j, n)' <=> Live(j, n)
                             /\ Present(j, n)' <=> Present(j, n)
                             /\ pod'[j][n] = pod[j][n]
      /\ \A status : JobIs(j, status)' <=> JobIs(j, status)
      /\ Exists(j)' <=> Exists(j)
      /\ job'[j] = job[j]
  BY DEF Live, Present, JobIs, Exists
<1>2. \A n \in Attempts : /\ (Seen(j, n)' <=> Seen(j, n)) \/ (Seen(j, n)' <=> Present(j, n))
                          /\ Ended(j, n)' => Ended(j, n) \/ ~Live(j, n)
  BY DEF Listed, Seen, Present, Live, Ended
<1>3. \A o \in JobObject : o.retries \in Attempts
  BY JobFields
<1>4. \A o \in JobObject : Fits(j, o) => Fits(j, o)'
  BY <1>1, <1>2, <1>3 DEF Fits
<1>5. \A o \in JobObject : Lags(j, o) => Lags(j, o)'
  BY <1>1, <1>2, <1>3 DEF Lags
<1>6. ASSUME NEW o \in JobObject, NEW step, jobCache'[j] = jobCache[j], Knows(step, j, o)
      PROVE  Knows(step, j, o)'
  <2>1. \A status : CacheIs(j, status)' <=> CacheIs(j, status)
    BY <1>6 DEF CacheIs
  <2> QED  BY <1>1, <1>2, <1>3, <1>6, <2>1 DEF Knows
<1>7. Alone(j) => Alone(j)'
  <2>1. j \notin submitted => \A n \in Attempts : ~Present(j, n)
    BY NewPodFields DEF IInv, VersionsOK, Present
  <2> QED  BY <1>1, <1>2, <2>1 DEF Alone
<1> QED  BY <1>4, <1>5, <1>6, <1>7

LEMMA RefreshPods ==
  ASSUME IInv, PodInv, UNCHANGED <<job, pod, submitted>>, NEW j \in Jobs,
         jobCache'[j] = jobCache[j] \/ jobCache'[j] = job[j],
         podCache'[j] = podCache[j] \/ Listed(j)
  PROVE  JobPods(j)'
<1>1. Exists(j) => job[j] \in JobObject /\ job[j].retries \in Attempts /\ Fits(j, job[j])
  BY JobFields DEF IInv, TypeOK, PodInv, JobPods, Exists
<1>2. ASSUME Exists(j)'
      PROVE  Fits(j, job[j])'
  <2>1. PICK q : q = job[j]
    OBVIOUS
  <2>2. Fits(j, q)'
    BY <1>1, <1>2, <2>1, RelistedPods DEF Exists
  <2> QED  BY <2>1, <2>2 DEF Fits
<1>3. ASSUME jobCache'[j] # None
      PROVE  Lags(j, jobCache[j])'
  <2>1. PICK c : c = jobCache'[j]
    OBVIOUS
  <2>2. c \in JobObject /\ Lags(j, c)
    BY <1>1, <1>3, <2>1, FitsIsLags DEF IInv, TypeOK, PodInv, JobPods, Exists
  <2>3. Lags(j, c)'
    BY <2>2, RelistedPods
  <2> QED  BY <2>1, <2>3 DEF Lags
<1>4. Alone(j)'
  BY RelistedPods DEF PodInv, JobPods
<1> QED  BY <1>2, <1>3, <1>4 DEF JobPods

LEMMA CrashPods ==
  ASSUME IInv, PodInv, CrashRestart
  PROVE  PodInv'
<1>1. \A j \in Jobs : jobCache'[j] = job[j] /\ Listed(j)
  BY DEF CrashRestart, Listed
<1> QED  BY <1>1, RefreshPods DEF CrashRestart, cluster, PodInv

LEMMA SyncPodsPods ==
  ASSUME IInv, PodInv, NEW k \in Jobs, SyncPods(k)
  PROVE  PodInv'
<1>1. UNCHANGED <<job, pod, submitted, jobCache, rc>>
  BY DEF SyncPods, cluster
<1>2. \A j \in Jobs : podCache'[j] = podCache[j] \/ Listed(j)
  BY DEF SyncPods, Listed, IInv, TypeOK
<1>3. \A j \in Jobs : JobPods(j)'
  BY <1>1, <1>2, RefreshPods
<1>4. ASSUME rc # Idle
      PROVE  PodInv'
  <2>1. PICK k0, o, step : k0 = rc.key /\ o = rc.obj /\ step = rc.pc
    OBVIOUS
  <2>2. k0 \in Jobs /\ o \in JobObject /\ Lags(k0, o) /\ Knows(step, k0, o)
    BY <1>4, <2>1, Busy DEF IInv, PodInv
  <2>3. Lags(k0, o)' /\ Knows(step, k0, o)'
    BY <1>1, <1>2, <2>2, RelistedPods
  <2> QED  BY <1>1, <1>3, <2>1, <2>3, Assembled
<1> QED  BY <1>1, <1>3, <1>4 DEF PodInv

LEMMA SyncJobPods ==
  ASSUME IInv, PodInv, NEW k \in Jobs, SyncJob(k)
  PROVE  PodInv'
<1>1. UNCHANGED <<job, pod, submitted, podCache, rc>>
  BY DEF SyncJob, cluster
<1>2. \A j \in Jobs : jobCache'[j] = jobCache[j] \/ jobCache'[j] = job[j]
  BY DEF SyncJob, IInv, TypeOK
<1>3. \A j \in Jobs : JobPods(j)'
  BY <1>1, <1>2, RefreshPods
<1>4. ASSUME rc # Idle
      PROVE  PodInv'
  <2>1. PICK j, o, step : j = rc.key /\ o = rc.obj /\ step = rc.pc
    OBVIOUS
  <2>2. j \in Jobs /\ o \in JobObject /\ Lags(j, o) /\ Knows(step, j, o)
    BY <1>4, <2>1, Busy DEF IInv, PodInv
  <2>3. Lags(j, o)'
    BY <1>1, <2>2, RelistedPods
  <2>4. Knows(step, j, o)'
    <3>1. CASE jobCache'[j] = jobCache[j]
      BY <1>1, <2>2, <3>1, RelistedPods
    <3>2. CASE jobCache'[j] = job[j]
      <4>1. CacheIs(j, "in progress")' => JobIs(j, "in progress")
        BY <3>2 DEF CacheIs, JobIs, Exists
      <4>2. step \in {"pending", "create"} => (Exists(j) => job[j].retries = o.retries)
        BY <1>4, <2>1 DEF IInv, StepOK, AtPending, StatusOK, VersionOK, StillHolds, AttemptKept
      <4>3. JobIs(j, "in progress") => (~Seen(j, job[j].retries) => ~Present(j, job[j].retries)) /\ Exists(j)
        BY <2>2 DEF PodInv, JobPods, Fits, JobIs
      <4>4. /\ \A n \in Attempts : /\ Live(j, n)' <=> Live(j, n)
                                   /\ Present(j, n)' <=> Present(j, n)
                                   /\ Seen(j, n)' <=> Seen(j, n)
            /\ \A status : JobIs(j, status)' <=> JobIs(j, status)
            /\ job'[j] = job[j]
        BY <1>1 DEF Live, Present, Seen, JobIs, Exists
      <4>5. o.retries \in Attempts
        BY <2>2, JobFields
      <4> QED  BY <2>2, <4>1, <4>2, <4>3, <4>4, <4>5 DEF Knows
    <3> QED  BY <1>2, <2>2, <3>1, <3>2
  <2> QED  BY <1>1, <1>3, <2>1, <2>3, <2>4, Assembled
<1> QED  BY <1>1, <1>3, <1>4 DEF PodInv

LEMMA SubmitPods ==
  ASSUME IInv, PodInv, NEW k \in Jobs, Submit(k)
  PROVE  PodInv'
<1>1. /\ UNCHANGED <<pod, jobCache, podCache, rc>> /\ job'[k] = NewJob
      /\ \A j \in Jobs : j # k => job'[j] = job[j]
      /\ submitted' = submitted \cup {k} /\ jobCache[k] = None
  BY SubmittedFirst DEF Submit, caches, IInv, TypeOK
<1>2. \A n \in Attempts : ~Present(k, n) /\ ~Live(k, n) /\ ~Seen(k, n) /\ ~pod[k][n].deleting
  BY NewPodFields DEF Submit, IInv, VersionsOK, PodInv, JobPods, Alone, Present, Live, Seen
<1>3. JobPods(k)'
  <2>1. \A n \in Attempts : ~Present(k, n)' /\ ~Live(k, n)' /\ ~Seen(k, n)' /\ ~pod'[k][n].deleting
    BY <1>1, <1>2 DEF Present, Live, Seen
  <2>2. /\ NewJob.retries \in Attempts /\ NewJob.jobStatus = ""
    BY NewJobFields, JobFields
  <2>3. Fits(k, NewJob)'
    BY <2>1, <2>2 DEF Fits
  <2>4. Fits(k, job[k])'
    BY <1>1, <2>3 DEF Fits
  <2> QED  BY <1>1, <2>1, <2>4 DEF JobPods, Alone
<1>4. \A j \in Jobs : j # k => Untouched(j)
  BY <1>1 DEF Untouched
<1>5. ASSUME rc # Idle
      PROVE  PodInv'
  <2>1. PICK j, o, step : j = rc.key /\ o = rc.obj /\ step = rc.pc
    OBVIOUS
  <2>2. j \in Jobs /\ j # k /\ Lags(j, o) /\ Knows(step, j, o)
    BY <1>5, <2>1, Busy, SubmittedFirst DEF IInv, PodInv, Submit
  <2>3. Lags(j, o)' /\ Knows(step, j, o)'
    BY <1>4, <2>2, UntouchedJob
  <2>4. \A i \in Jobs : JobPods(i)'
    BY <1>3, <1>4, UntouchedJob DEF PodInv
  <2> QED  BY <1>1, <2>1, <2>3, <2>4, Assembled
<1> QED  BY <1>1, <1>3, <1>4, <1>5, UntouchedJob DEF PodInv

LEMMA UnchangedRecede ==
  ASSUME NEW j \in Jobs, pod'[j] = pod[j]
  PROVE  Recede(j)
  BY DEF Recede, Live, Present

\* A pod that is deleted stays what it was until it is gone.
LEMMA DeletedRecede ==
  ASSUME IInv, NEW k \in Jobs, NEW n \in Attempts, DeletePod(k, n),
         Exists(k) => job[k].jobStatus \in Terminal
  PROVE  \A j \in Jobs : Recede(j)
<1>1. \A j \in Jobs : \A m \in Attempts :
        /\ pod'[j][m] = pod[j][m] \/ (j = k /\ m = n)
        /\ pod'[j][m] = AbsentPod \/ pod'[j][m].phase = pod[j][m].phase
  BY DeletePodEffect DEF IInv
<1> QED  BY <1>1, NewPodFields DEF Recede, Live, Present

LEMMA SimulatorsRecede ==
  ASSUME IInv, PodInv, Undisturbed, NEW k \in Jobs, NEW n \in Attempts, PodStep(k, n)
  PROVE  \A j \in Jobs : Recede(j)
<1>0. pod[k][n] \in PodObject
  BY DEF IInv, TypeOK
<1>1. CASE Disrupt(k, n)
  BY <1>1 DEF Disrupt, Fault, Undisturbed
<1>2. CASE CollectPod(k, n)
  BY <1>2, DeletedRecede DEF CollectPod
<1>3. ASSUME NEW p \in PodObject, pod' = [pod EXCEPT ![k][n] = p],
             p.phase \in {"Pending", "Running"} => Live(k, n),
             p.phase # "absent" <=> Present(k, n), p.deleting = pod[k][n].deleting
      PROVE  \A j \in Jobs : Recede(j)
  <2>1. \A j \in Jobs : \A m \in Attempts :
          pod'[j][m] = pod[j][m] \/ (j = k /\ m = n /\ pod'[j][m] = p)
    BY <1>3 DEF IInv, TypeOK
  <2> QED  BY <1>3, <2>1 DEF Recede, Live, Present
<1>4. CASE StartSimulator(k, n)
  BY <1>0, <1>3, <1>4, PodFields DEF StartSimulator, Live, Present
<1>5. CASE ReportSuccess(k, n) \/ ReportFailure(k, n)
  <2>1. PICK step \in SimSteps : pod' = [pod EXCEPT ![k][n] = Working(pod[k][n], step)]
    BY <1>5 DEF ReportSuccess, ReportFailure, SimSteps
  <2>2. /\ Working(pod[k][n], step) \in PodObject
        /\ Working(pod[k][n], step).phase = pod[k][n].phase
        /\ Working(pod[k][n], step).deleting = pod[k][n].deleting
    BY <1>0, PodFields
  <2> QED  BY <1>3, <2>1, <2>2 DEF Live, Present
<1>6. CASE ExitSuccess(k, n) \/ ExitFailure(k, n) \/ KillPod(k, n)
  <2>1. PICK phase \in {"Succeeded", "Failed"} :
          pod' = [pod EXCEPT ![k][n] = Exited(pod[k][n], phase)] /\ Present(k, n)
    BY <1>6 DEF ExitSuccess, ExitFailure, KillPod, FailPod, IInv, TypeOK, EvidenceOK, StepEvidence, Present
  <2>2. /\ Exited(pod[k][n], phase) \in PodObject
        /\ Exited(pod[k][n], phase).phase = phase
        /\ Exited(pod[k][n], phase).deleting = pod[k][n].deleting
    BY <1>0, PodFields DEF Phases
  <2> QED  BY <1>3, <2>1, <2>2 DEF Live, Present
<1>7. CASE ReapPod(k, n)
  <2>1. Exists(k) => job[k].jobStatus \in Terminal
    BY <1>7 DEF ReapPod, PodInv, JobPods, Fits
  <2>2. \A j \in Jobs : \A m \in Attempts :
          pod'[j][m] = pod[j][m] \/ (j = k /\ m = n /\ pod'[j][m] = AbsentPod)
    BY <1>7 DEF ReapPod, IInv, TypeOK
  <2> QED  BY <2>1, <2>2, NewPodFields DEF Recede, Live, Present
<1> QED  BY <1>1, <1>2, <1>4, <1>5, <1>6, <1>7 DEF PodStep

\* The steps of a reconcile that touch neither the status nor a pod of a job that
\* is not finished.
LEMMA TerminalPods ==
  ASSUME IInv, PodInv, HandleTerminalJob \/ DeleteTerminalPod \/ CheckTTL
  PROVE  PodInv'
<1>1. /\ rc # Idle /\ SameCopy /\ UNCHANGED <<submitted, jobCache, podCache>>
      /\ \A j \in Jobs : Exists(j)' => Exists(j) /\ Same(job[j], job'[j])
  BY OtherStepEffect, SameIsBehind DEF OtherStep
<1>2. rc' = Idle \/ rc'.pc \in {"ttl", "delete pod"}
  <2>1. ASSUME NEW step \in {"ttl", "delete pod"}, GoTo(step)
        PROVE  rc'.pc \in {"ttl", "delete pod"}
    BY <1>1, <2>1, GoToFields DEF IInv, Steps
  <2>2. \/ Requeue \/ Done
        \/ \E step \in {"ttl", "delete pod"} : GoTo(step)
    BY DEF HandleTerminalJob, DeleteTerminalPod, DeleteThen, CheckTTL, AwaitTTL
  <2> QED  BY <2>1, <2>2 DEF Requeue, Done
<1>3. \A j \in Jobs : Recede(j)
  <2>1. CASE pod' = pod
    BY <2>1, UnchangedRecede
  <2>2. CASE pod' # pod
    <3>1. DeleteTerminalPod
      BY <2>2 DEF HandleTerminalJob, CheckTTL, cluster
    <3>2. DeletePod(rc.key, rc.obj.podName)
      BY <2>2, <3>1 DEF DeleteTerminalPod, DeleteThen
    <3>3. rc.key \in Jobs /\ rc.obj.podName \in Attempts
      <4>1. rc.key \in Jobs /\ rc.obj \in JobObject
        BY <1>1, Busy DEF IInv
      <4>2. rc.obj.podName # NoPod
        BY <3>1 DEF DeleteTerminalPod, IInv, StepOK
      <4> QED  BY <4>1, <4>2, JobFields
    <3>4. Exists(rc.key) => job[rc.key].jobStatus \in Terminal
      BY <1>1, <3>1 DEF DeleteTerminalPod, IInv, StepOK, AtTerminal, StatusOK, VersionOK, StillHolds, AttemptKept
    <3> QED  BY <3>2, <3>3, <3>4, DeletedRecede
  <2> QED  BY <2>1, <2>2
<1> QED  BY <1>1, <1>2, <1>3, RecedeFrame DEF SameCopy

LEMMA PodInvStep ==
  ASSUME IInv, LagOK, PodInv, Undisturbed, [Next]_vars
  PROVE  PodInv'
<1>s. rc' = rc => SameCopy /\ (rc' # Idle => rc'.pc = rc.pc)
  BY DEF SameCopy
<1>1. CASE OperatorUpdate
  <2>1. CASE job' # job
    BY <1>1, <2>1, UpdatePods
  <2>2. CASE job' = job
    <3>1. rc' = Idle /\ UNCHANGED <<pod, submitted, jobCache, podCache>>
      BY <1>1, UpdateWrites DEF StatusUpdate, Requeue, caches
    <3> QED  BY <2>2, <3>1, UntouchedJob, Assembled DEF Untouched, PodInv
  <2> QED  BY <2>1, <2>2
<1>2. CASE OtherStep
  BY <1>2, PendingPods, CreatePods, RunningPods, DeleteFailedPods, TerminalPods DEF OtherStep
<1>3. CASE CrashRestart
  BY <1>3, CrashPods
<1>4. ASSUME NEW j \in Jobs, Reconcile(j)
      PROVE  PodInv'
  BY <1>4, ReconcilePods
<1>5. ASSUME NEW j \in Jobs, JobStep(j)
      PROVE  PodInv'
  <2>1. CASE UserDelete(j) \/ PassTimeOut(j) \/ PassTTL(j)
    BY <1>s, <2>1, JobStepEffect, SameIsBehind, UnchangedRecede, RecedeFrame DEF SameCopy
  <2> QED  BY <1>5, <2>1, SubmitPods, SyncJobPods, SyncPodsPods DEF JobStep
<1>6. ASSUME NEW j \in Jobs, NEW n \in Attempts, PodStep(j, n)
      PROVE  PodInv'
  BY <1>s, <1>6, PodStepEffect, SimulatorsRecede, RecedeFrame DEF SameCopy
<1>7. CASE UNCHANGED vars
  <2>1. UNCHANGED <<job, pod, submitted, jobCache, podCache, rc>>
    BY <1>7 DEF vars, cluster, caches
  <2> QED
    BY <1>s, <2>1, SameIsBehind, UnchangedRecede, RecedeFrame DEF SameCopy, Exists
<1> QED  BY <1>1, <1>2, <1>3, <1>4, <1>5, <1>6, <1>7 DEF Next, OperatorStep, OperatorUpdate, OtherStep

\* Where nobody else deletes pods and the cache answers, every version of the
\* resource, however old, says what PodInv takes from it about the pods: the
\* invariant behind the theorems below.
THEOREM PodsFollowStatus == Undisturbed => (Spec => []PodInv)
<1> SUFFICES ASSUME Undisturbed
             PROVE  Spec => []PodInv
  OBVIOUS
<1>1. Init => PodInv
  BY NewPodFields DEF Init, PodInv, JobPods, Alone, Exists, Live, Seen, Idle
<1>2. IInv /\ LagOK /\ PodInv /\ [Next]_vars => PodInv'
  BY PodInvStep
<1> QED  BY <1>1, <1>2, Invariance, CopiesLagByOne, PTL DEF Spec

\* Two simulator processes of a job never run at once, not even one that is being
\* deleted beside its successor.
THEOREM OneSimulator == Undisturbed => (Spec => []OneSimulatorAtATime)
<1>1. ASSUME IInv, PodInv
      PROVE  OneSimulatorAtATime
  <2>1. \A j \in Jobs : \A n \in Attempts : pod[j][n].sim # "none" => Live(j, n)
    BY <1>1 DEF IInv, EvidenceOK, StepEvidence, Live
  <2>2. \A j \in Jobs : \A m, n \in Attempts : Live(j, m) /\ Live(j, n) => m = n
    BY <1>1 DEF PodInv, JobPods, Alone
  <2> QED  BY <2>1, <2>2 DEF OneSimulatorAtATime
<1> QED  BY <1>1, Invariance, PodsFollowStatus, PTL

\* The Delete of a retry, by name and after the phase in a cache, hits no pod that
\* still runs.
THEOREM RetryDeletes == Undisturbed => (Spec => RetryDeletesOnlyFailedPods)
<1>1. IInv /\ PodInv /\ [Next]_vars =>
        [rc.pc = "delete failed" /\ rc' # rc =>
            \A j \in Jobs : \A n \in Attempts :
                pod[j][n].phase \in {"Pending", "Running"} =>
                    pod'[j][n].deleting = pod[j][n].deleting]_vars
  <2> SUFFICES ASSUME IInv, PodInv, [Next]_vars, rc.pc = "delete failed", rc' # rc,
                      NEW j \in Jobs, NEW n \in Attempts, pod[j][n].phase \in {"Pending", "Running"}
               PROVE  pod'[j][n].deleting = pod[j][n].deleting
    OBVIOUS
  <2>1. rc # Idle /\ rc.key \in Jobs /\ rc.obj.retries \in Attempts /\ ~Live(rc.key, rc.obj.retries)
    BY Busy, JobFields DEF IInv, PodInv, Knows, Idle
  <2>2. rc.obj.podName = rc.obj.retries
    BY <2>1 DEF IInv, StepOK, AtRunning, StatusOK, VersionOK, WellFormed
  <2>3. DeleteFailedPod \/ pod' = pod
    <3>1. OperatorUpdate => pod' = pod
      BY UpdateWrites DEF StatusUpdate
    <3>2. \A i \in Jobs : \A m \in Attempts : PodStep(i, m) => rc' = rc
      BY PodStepEffect
    <3>3. \A i \in Jobs : JobStep(i) => pod' = pod
      BY DEF JobStep, Submit, UserDelete, PassTimeOut, PassTTL, SyncJob, SyncPods, cluster
    <3>4. OtherStep => DeleteFailedPod \/ pod' = pod
      BY DEF OtherStep, HandlePendingJob, CreateSimulatorPod, HandleRunningJob, HandleTerminalJob,
             DeleteTerminalPod, CheckTTL, cluster
    <3>5. CrashRestart \/ (\E i \in Jobs : Reconcile(i)) => pod' = pod
      BY DEF CrashRestart, Reconcile, cluster
    <3> QED
      BY <3>1, <3>2, <3>3, <3>4, <3>5 DEF Next, OperatorStep, OperatorUpdate, OtherStep, vars, cluster
  <2>4. ASSUME DeletePod(rc.key, rc.obj.retries)
        PROVE  pod'[j][n] = pod[j][n]
    BY <2>1, <2>4 DEF Live, DeletePod, IInv, TypeOK
  <2> QED  BY <2>2, <2>3, <2>4 DEF DeleteFailedPod, DeleteThen
<1> QED  BY <1>1, Invariance, PodsFollowStatus, PTL DEF Spec, RetryDeletesOnlyFailedPods

-----------------------------------------------------------------------------
(* The error message of a job, which the simulators of all its attempts    *)
(* write and an update carries over from the copy it was made from.        *)

\* What version o of the resource of job j, the current one, says of reports: the
\* attempt that has reported or achieved a success has erased the errors of those
\* before it, and nobody is left to report another once the job is completed.
Reported(j, o) ==
    /\ o.jobStatus = "completed" => o.errorMessage = "" /\ \A n \in Attempts : ~Live(j, n)
    /\ o.jobStatus \notin Terminal =>
           /\ \A n \in Attempts : pod[j][n].sim = "reported" => o.errorMessage = ""
           /\ "Succeeded" \in {pod[j][o.retries].phase, podCache[j][o.retries]} =>
                  o.errorMessage = ""

ToComplete == rc.pc = "complete" /\ JobIs(rc.key, "in progress") => job[rc.key].errorMessage = ""

MessageInv == (\A j \in Jobs : Exists(j) => Reported(j, job[j])) /\ ToComplete

\* The pods of job j bring no success the resource does not know of.
NoNews(j) == \A n \in Attempts :
    /\ JobIs(j, "completed") /\ Live(j, n)' => Live(j, n)
    /\ pod'[j][n].sim = "reported" => pod[j][n].sim = "reported"
    /\ pod'[j][n].phase = "Succeeded" => pod[j][n].phase = "Succeeded"
    /\ podCache'[j][n] = "Succeeded" => "Succeeded" \in {pod[j][n].phase, podCache[j][n]}

LEMMA StillReported ==
  ASSUME IInv, MessageInv, NEW j \in Jobs, NoNews(j), Exists(j)' => Exists(j) /\ job'[j] = job[j]
  PROVE  Exists(j)' => Reported(j, job[j])'
<1> SUFFICES ASSUME Exists(j)'
             PROVE  Reported(j, job[j])'
  OBVIOUS
<1>1. PICK o : o = job[j] /\ o = job'[j]
  OBVIOUS
<1>2. Exists(j) /\ Reported(j, o) /\ o.retries \in Attempts
  BY <1>1, JobFields DEF MessageInv, IInv, TypeOK, Exists
<1>3. o.jobStatus = "completed" => \A n \in Attempts : Live(j, n)' => Live(j, n)
  BY <1>1, <1>2 DEF NoNews, JobIs
<1>4. Reported(j, o)'
  BY <1>2, <1>3 DEF Reported, NoNews
<1> QED  BY <1>1, <1>4 DEF Reported

LEMMA MessageFrame ==
  ASSUME IInv, MessageInv, \A j \in Jobs : NoNews(j),
         \A j \in Jobs : Exists(j)' => Exists(j) /\ job'[j] = job[j],
         rc'.pc = "complete" => rc' = rc
  PROVE  MessageInv'
<1>1. ToComplete'
  <2>1. SUFFICES ASSUME rc' = rc, rc.pc = "complete", JobIs(rc.key, "in progress")'
                 PROVE  job'[rc.key].errorMessage = ""
    BY DEF ToComplete
  <2>2. rc.key \in Jobs
    BY <2>1, Busy DEF IInv
  <2> QED  BY <2>1, <2>2 DEF MessageInv, ToComplete, JobIs, Exists
<1> QED  BY <1>1, StillReported DEF MessageInv

\* The job is completed from a copy that is the current version, and its message
\* with it.
LEMMA UpdateMessage ==
  ASSUME IInv, PodInv, MessageInv, OperatorUpdate, job' # job
  PROVE  MessageInv'
<1>1. PICK k, o, p : k = rc.key /\ o = rc.obj /\ p = job'[k]
  OBVIOUS
<1>2. /\ k \in Jobs /\ Exists(k) /\ job[k] = o /\ o.retries \in Attempts
      /\ Writes(rc.pc, o, p) /\ KeepsMessage(o, p)
      /\ rc' = Idle /\ UNCHANGED <<pod, podCache>>
      /\ \A j \in Jobs : j # k => job'[j] = job[j]
  <2>1. rc.obj.retries \in Attempts
    BY Update, JobFields
  <2> QED  BY <1>1, <2>1, Update
<1>3. Fits(k, o) /\ Reported(k, o) /\ Knows(rc.pc, k, o)
  BY <1>1, <1>2, Update DEF PodInv, JobPods, MessageInv
<1>4. ASSUME p.jobStatus = "failed"
      PROVE  Reported(k, p)
  BY <1>4 DEF Reported, Terminal
<1>5. ASSUME p.jobStatus = "completed"
      PROVE  Reported(k, p)
  <2>1. rc.pc = "complete" /\ o.jobStatus = "in progress"
    BY <1>2, <1>5 DEF Writes
  <2>2. p.errorMessage = ""
    BY <1>1, <1>2, <1>5, <2>1 DEF KeepsMessage, MessageInv, ToComplete, JobIs
  <2>3. \A n \in Attempts : ~Live(k, n)
    BY <1>3, <2>1 DEF Knows, Fits
  <2> QED  BY <1>5, <2>2, <2>3 DEF Reported, Terminal
<1>6. ASSUME p.jobStatus \notin Terminal
      PROVE  Reported(k, p)
  <2>1. /\ p.errorMessage = o.errorMessage /\ o.jobStatus \notin Terminal
        /\ p.jobStatus # "completed"
    BY <1>2, <1>6 DEF KeepsMessage, Writes, Terminal
  <2>2. CASE p.retries = o.retries
    BY <1>3, <2>1, <2>2 DEF Reported
  <2>3. CASE p.retries # o.retries
    <3>1. p.retries = o.retries + 1 /\ o.retries < MaxRetries
      BY <1>2, <2>3 DEF Writes
    <3>2. p.retries \in Attempts /\ p.retries > o.retries
      <4>1. \A r \in Attempts : r < MaxRetries => r + 1 \in Attempts /\ r + 1 > r
        BY BoundsAssumption DEF Attempts
      <4> QED  BY <1>2, <3>1, <4>1
    <3>3. pod[k][p.retries].phase = "absent" /\ podCache[k][p.retries] = "absent"
      BY <1>3, <3>2 DEF Fits, Present, Seen
    <3> QED  BY <1>3, <2>1, <3>3 DEF Reported
  <2> QED  BY <2>2, <2>3
<1>7. Reported(k, p)
  BY <1>4, <1>5, <1>6 DEF Terminal
<1>8. Reported(k, job[k])'
  BY <1>1, <1>2, <1>7 DEF Reported, Live
<1>9. ASSUME NEW j \in Jobs, j # k
      PROVE  Exists(j)' => Reported(j, job[j])'
  BY <1>2, <1>9, StillReported DEF NoNews, Live, Exists
<1> QED  BY <1>2, <1>8, <1>9 DEF MessageInv, ToComplete, Idle

\* The cache says that the pod of the attempt the copy counts has succeeded.
LEMMA RunningMessage ==
  ASSUME IInv, LagOK, MessageInv, HandleRunningJob
  PROVE  MessageInv'
<1>1. /\ rc.pc = "running" /\ rc # Idle /\ UNCHANGED <<job, pod, podCache>>
  BY Busy DEF HandleRunningJob, Idle, IInv, cluster, caches
<1>2. CASE rc'.pc # "complete"
  BY <1>1, <1>2, MessageFrame DEF NoNews, Live, Exists
<1>3. CASE rc'.pc = "complete"
  <2>1. PICK k, o : k = rc.key /\ o = rc.obj
    OBVIOUS
  <2>2. /\ k \in Jobs /\ o.retries \in Attempts
        /\ o.jobStatus = "in progress" /\ o.podName = o.retries
    BY <1>1, <2>1, Busy, JobFields DEF IInv, StepOK, AtRunning, StatusOK, VersionOK, WellFormed
  <2>3. rc'.key = k /\ podCache[k][o.retries] = "Succeeded"
    <3>1. ~Requeue
      BY <1>3 DEF Requeue, Idle
    <3>2. GoTo("complete") /\ PodPhase(k, o) = "Succeeded"
      <4>1. PICK step \in {"lost", "delete failed", "exhausted", "complete"} :
              GoTo(step) /\ step = AfterPod(PodPhase(k, o), o)
        BY <2>1, <3>1 DEF HandleRunningJob, Poll, AfterPod
      <4>2. step = "complete"
        BY <1>1, <1>3, <4>1, GoToFields DEF IInv, Steps
      <4> QED  BY <4>1, <4>2 DEF AfterPod
    <3>3. rc'.key = k
      BY <1>1, <2>1, <3>2, GoToFields DEF IInv, Steps
    <3> QED  BY <2>2, <3>2, <3>3, NoPodIsNone DEF PodPhase
  <2>4. JobIs(k, "in progress") => job[k].errorMessage = ""
    <3>1. JobIs(k, "in progress") => job[k].retries = o.retries
      BY <1>1, <2>1, <2>2 DEF LagOK, OneBehind, Same, Follows, JobIs
    <3> QED  BY <2>2, <2>3, <3>1 DEF MessageInv, Reported, JobIs, Terminal
  <2>5. ToComplete'
    BY <1>1, <2>3, <2>4 DEF ToComplete, JobIs, Exists
  <2> QED  BY <1>1, <2>5, StillReported DEF MessageInv, NoNews, Live, Exists
<1> QED  BY <1>2, <1>3

LEMMA PatchedMessage ==
  ASSUME IInv, NEW k \in Jobs, Exists(k), NEW message \in {"", "simulator"}, PatchError(k, message)
  PROVE  /\ Exists(k)' /\ job'[k].errorMessage = message
         /\ job'[k].jobStatus = job[k].jobStatus /\ job'[k].retries = job[k].retries
         /\ \A j \in Jobs : j # k => job'[j] = job[j]
<1>1. job[k] \in JobObject
  BY DEF IInv, TypeOK, Exists
<1> DEFINE o == WithError(job[k], message)
<1>2. o \in JobObject /\ o.errorMessage = message
  BY <1>1, WithErrorFields, MessageFields, Zenon
<1>3. job[k].rv + 1 \in Nat
  <2>1. job[k].rv \in Nat
    BY <1>1, JobFields, Zenon
  <2> QED  BY <2>1, NextVersion, Zenon
<1>4. job' = [job EXCEPT ![k] = AtVersion(o, job[k].rv + 1)]
  BY DEF PatchError
<1> HIDE DEF o
<1>5. AtVersion(o, job[k].rv + 1).errorMessage = message
  BY <1>2, <1>3, MessageFields, Zenon
<1>6. job'[k].errorMessage = message /\ \A j \in Jobs : j # k => job'[j] = job[j]
  BY <1>4, <1>5 DEF IInv, TypeOK
<1>7. MaybePatched(k)
  BY DEF MaybePatched
<1> QED  BY <1>6, <1>7, PatchEffect, Parts DEF View, ClusterOK

\* A pod that changes by itself, its phase and its step apart.
LEMMA OnePodMoves ==
  ASSUME IInv, NEW k \in Jobs, NEW n \in Attempts, NEW p, pod' = [pod EXCEPT ![k][n] = p]
  PROVE  /\ pod'[k][n] = p
         /\ \A m \in Attempts : m # n => pod'[k][m] = pod[k][m]
         /\ \A j \in Jobs : j # k => pod'[j] = pod[j]
  BY DEF IInv, TypeOK

LEMMA StepFields ==
  ASSUME NEW p \in PodObject
  PROVE  /\ \A step \in SimSteps : Working(p, step).sim = step
         /\ Running(p).sim = "working"
  BY DEF PodObject, Working, Running

LEMMA SuccessMessage ==
  ASSUME IInv, MessageInv, NEW k \in Jobs, NEW n \in Attempts, ReportSuccess(k, n)
  PROVE  MessageInv'
<1>1. /\ Exists(k) /\ PatchError(k, "") /\ pod[k][n].sim = "working"
      /\ pod' = [pod EXCEPT ![k][n] = Working(pod[k][n], "reported")]
      /\ rc' = rc /\ podCache' = podCache
  BY DEF ReportSuccess, OperatorUnchanged, caches
<1>2. Exists(k)' /\ job'[k].errorMessage = "" /\ job'[k].jobStatus = job[k].jobStatus
  BY <1>1, PatchedMessage
<1>3. \A m \in Attempts : pod'[k][m].phase = pod[k][m].phase
  <2>1. PICK p : p = Working(pod[k][n], "reported")
    OBVIOUS
  <2>2. p.phase = pod[k][n].phase
    BY <2>1, PodFields DEF IInv, TypeOK, SimSteps
  <2>3. pod' = [pod EXCEPT ![k][n] = p]
    BY <1>1, <2>1
  <2> QED  BY <2>2, <2>3, OnePodMoves
<1>4. Reported(k, job[k])'
  <2>1. Reported(k, job[k])
    BY <1>1 DEF MessageInv
  <2> QED  BY <1>2, <1>3, <2>1 DEF Reported, Live
<1>5. ASSUME NEW j \in Jobs, j # k
      PROVE  Exists(j)' => Reported(j, job[j])'
  <2>1. job'[j] = job[j]
    BY <1>1, <1>5, PatchedMessage
  <2>2. pod'[j] = pod[j]
    BY <1>1, <1>5, OnePodMoves
  <2>3. NoNews(j)
    BY <1>1, <2>1, <2>2 DEF NoNews, Live
  <2> QED  BY <2>1, <2>3, StillReported DEF Exists
<1>6. ToComplete'
  BY <1>1, <1>2, PatchedMessage, Busy DEF ToComplete, MessageInv, JobIs, Exists, IInv
<1> QED  BY <1>4, <1>5, <1>6 DEF MessageInv

\* A failure is reported by a pod that is live, and so of the current attempt.
LEMMA FailureMessage ==
  ASSUME IInv, LagOK, PodInv, MessageInv, NEW k \in Jobs, NEW n \in Attempts,
         Exists(k), PatchError(k, "simulator"), pod[k][n].sim \in {"working", "reported"},
         pod' = [pod EXCEPT ![k][n] = Working(pod[k][n], "exiting")],
         UNCHANGED <<rc, podCache>>
  PROVE  MessageInv'
<1>1. /\ Exists(k)' /\ job'[k].jobStatus = job[k].jobStatus /\ job'[k].retries = job[k].retries
      /\ \A j \in Jobs : j # k => job'[j] = job[j]
  BY PatchedMessage
<1>2. pod[k][n].phase = "Running"
  BY DEF IInv, EvidenceOK, StepEvidence
<1>3. pod'[k][n].phase = "Running" /\ pod'[k][n].sim = "exiting"
  <2>1. PICK p : p = Working(pod[k][n], "exiting")
    OBVIOUS
  <2>2. pod[k][n] \in PodObject /\ "exiting" \in SimSteps
    BY DEF IInv, TypeOK, SimSteps
  <2>3. p.phase = "Running" /\ p.sim = "exiting"
    BY <1>2, <2>1, <2>2, PodFields, StepFields
  <2>4. pod' = [pod EXCEPT ![k][n] = p]
    BY <2>1
  <2>5. pod'[k][n] = p
    BY <2>4 DEF IInv, TypeOK
  <2> QED  BY <2>3, <2>5
<1>4. Live(k, n) /\ n = job[k].retries /\ Fits(k, job[k]) /\ Reported(k, job[k])
  BY <1>2 DEF PodInv, JobPods, Fits, Live, MessageInv
<1>5. ASSUME job[k].jobStatus \notin Terminal
      PROVE  /\ \A m \in Attempts : pod'[k][m].sim # "reported"
             /\ pod'[k][n].phase # "Succeeded" /\ podCache'[k][n] # "Succeeded"
  <2>1. ASSUME NEW m \in Attempts, m # n
        PROVE  pod'[k][m].sim # "reported"
    <3>1. pod'[k][m] = pod[k][m] /\ ~Live(k, m)
      <4>1. pod'[k][m] = pod[k][m]
        BY <2>1, OnePodMoves
      <4>2. ~Live(k, m)
        BY <1>4, <2>1 DEF Fits
      <4> QED  BY <4>1, <4>2
    <3> QED  BY <3>1 DEF IInv, EvidenceOK, StepEvidence, Live
  <2>2. podCache[k][n] # "Succeeded"
    BY <1>4, <1>5 DEF Fits, Ended
  <2> QED  BY <1>3, <2>1, <2>2
<1>6. Reported(k, job[k])'
  <2>1. job[k].jobStatus # "completed"
    BY <1>4 DEF Reported
  <2> QED  BY <1>1, <1>4, <1>5, <2>1 DEF Reported
<1>7. ASSUME NEW j \in Jobs, j # k
      PROVE  Exists(j)' => Reported(j, job[j])'
  <2>1. job'[j] = job[j] /\ pod'[j] = pod[j]
    BY <1>1, <1>7, OnePodMoves
  <2>2. NoNews(j)
    BY <2>1 DEF NoNews, Live
  <2> QED  BY <2>1, <2>2, StillReported DEF Exists
<1>8. ToComplete'
  <2>1. SUFFICES ASSUME rc.pc = "complete", JobIs(rc.key, "in progress")'
                 PROVE  job'[rc.key].errorMessage = ""
    BY DEF ToComplete
  <2>2. rc # Idle /\ rc.key \in Jobs
    BY <2>1, Busy DEF IInv
  <2>3. CASE rc.key # k
    BY <1>1, <2>1, <2>2, <2>3 DEF MessageInv, ToComplete, JobIs, Exists
  <2>4. CASE rc.key = k
    <3>1. rc.obj.jobStatus = "in progress" /\ ~Live(k, rc.obj.retries)
      BY <2>1, <2>2, <2>4 DEF IInv, StepOK, AtRunning, PodInv, Knows
    <3>2. job[k].jobStatus = "in progress"
      BY <1>1, <2>1, <2>4 DEF JobIs
    <3>3. job[k].retries = rc.obj.retries
      BY <2>2, <2>4, <3>1, <3>2 DEF LagOK, OneBehind, Same, Follows
    <3> QED  BY <1>4, <3>1, <3>3
  <2> QED  BY <2>3, <2>4
<1> QED  BY <1>6, <1>7, <1>8 DEF MessageInv

LEMMA ExitMessage ==
  ASSUME IInv, MessageInv, NEW k \in Jobs, NEW n \in Attempts, ExitSuccess(k, n)
  PROVE  MessageInv'
<1>1. /\ pod[k][n].sim = "reported"
      /\ pod' = [pod EXCEPT ![k][n] = Exited(pod[k][n], "Succeeded")]
      /\ UNCHANGED <<job, rc, podCache>>
  BY DEF ExitSuccess, OperatorUnchanged, caches
<1>2. pod'[k][n].phase = "Succeeded" /\ pod'[k][n].sim = "none"
  <2>1. PICK p : p = Exited(pod[k][n], "Succeeded")
    OBVIOUS
  <2>2. p.phase = "Succeeded" /\ p.sim = "none"
    BY <2>1, PodFields DEF IInv, TypeOK, Phases
  <2>3. pod' = [pod EXCEPT ![k][n] = p]
    BY <1>1, <2>1
  <2>4. pod'[k][n] = p
    BY <2>3 DEF IInv, TypeOK
  <2> QED  BY <2>2, <2>4
<1>3. ASSUME Exists(k)
      PROVE  Reported(k, job[k])'
  <2>1. Reported(k, job[k])
    BY <1>3 DEF MessageInv
  <2>2. job[k].jobStatus \notin Terminal => job[k].errorMessage = ""
    BY <1>1, <2>1 DEF Reported
  <2>3. \A m \in Attempts : Live(k, m)' => Live(k, m)
    BY <1>1, <1>2, OnePodMoves DEF Live
  <2> QED  BY <1>1, <2>1, <2>2, <2>3 DEF Reported
<1>4. ASSUME NEW j \in Jobs, j # k
      PROVE  Exists(j)' => Reported(j, job[j])'
  <2>1. job'[j] = job[j] /\ pod'[j] = pod[j]
    BY <1>1, <1>4, OnePodMoves
  <2>2. NoNews(j)
    BY <1>1, <2>1 DEF NoNews, Live
  <2> QED  BY <2>1, <2>2, StillReported DEF Exists
<1>5. ToComplete'
  BY <1>1 DEF MessageInv, ToComplete, JobIs, Exists
<1> QED  BY <1>1, <1>3, <1>4, <1>5 DEF MessageInv, Exists

LEMMA SubmitMessage ==
  ASSUME IInv, MessageInv, NEW k \in Jobs, Submit(k)
  PROVE  MessageInv'
<1>1. /\ job'[k] = NewJob /\ (\A j \in Jobs : j # k => job'[j] = job[j])
      /\ UNCHANGED <<rc, pod, podCache>>
  BY DEF Submit, caches, IInv, TypeOK
<1>2. Reported(k, job[k])'
  <2>1. NewJob.jobStatus = "" /\ NewJob.errorMessage = ""
    BY DEF NewJob
  <2> QED  BY <1>1, <2>1 DEF Reported
<1>3. ASSUME NEW j \in Jobs, j # k
      PROVE  Exists(j)' => Reported(j, job[j])'
  BY <1>1, <1>3, StillReported DEF NoNews, Live, Exists
<1>4. ToComplete'
  <2>1. rc # Idle => rc.key # k /\ rc.key \in Jobs
    BY Busy, SubmittedFirst DEF Submit, IInv
  <2> QED  BY <1>1, <2>1, Busy DEF MessageInv, ToComplete, JobIs, Exists, IInv
<1> QED  BY <1>2, <1>3, <1>4 DEF MessageInv

LEMMA SamePodsNoNews ==
  ASSUME NEW j \in Jobs, pod' = pod, podCache'[j] = podCache[j] \/ Listed(j)
  PROVE  NoNews(j)
  BY DEF NoNews, Live, Listed

LEMMA DeletedNoNews ==
  ASSUME IInv, NEW k \in Jobs, NEW n \in Attempts, DeletePod(k, n), podCache' = podCache
  PROVE  \A j \in Jobs : NoNews(j)
<1>1. \A j \in Jobs : \A m \in Attempts :
        \/ pod'[j][m] = AbsentPod
        \/ pod'[j][m].phase = pod[j][m].phase /\ pod'[j][m].sim = pod[j][m].sim
  BY DeletePodEffect DEF IInv
<1> QED  BY <1>1, NewPodFields DEF NoNews, Live

\* The pods that come to nothing, start or are killed.
LEMMA SimulatorsNoNews ==
  ASSUME IInv, NEW k \in Jobs, NEW n \in Attempts,
         \/ StartSimulator(k, n) \/ ExitFailure(k, n) \/ KillPod(k, n)
         \/ Disrupt(k, n) \/ CollectPod(k, n) \/ ReapPod(k, n)
         \/ ReportFailure(k, n) /\ job' = job
  PROVE  \A j \in Jobs : NoNews(j)
<1>0. pod[k][n] \in PodObject /\ podCache' = podCache
  BY DEF StartSimulator, ExitFailure, KillPod, FailPod, Disrupt, CollectPod, ReapPod,
         ReportFailure, OperatorUnchanged, caches, IInv, TypeOK
<1>1. ASSUME NEW p, pod' = [pod EXCEPT ![k][n] = p],
             p.phase \in {"Pending", "Running"} => Live(k, n),
             p.sim # "reported", p.phase = "Succeeded" => pod[k][n].phase = "Succeeded"
      PROVE  \A j \in Jobs : NoNews(j)
  <2>1. \A j \in Jobs : \A m \in Attempts :
          pod'[j][m] = pod[j][m] \/ (j = k /\ m = n /\ pod'[j][m] = p)
    BY <1>1 DEF IInv, TypeOK
  <2> QED  BY <1>0, <1>1, <2>1 DEF NoNews, Live
<1>2. CASE StartSimulator(k, n)
  <2>1. PICK p : p = Running(pod[k][n])
    OBVIOUS
  <2>2. p.phase = "Running" /\ p.sim = "working" /\ pod' = [pod EXCEPT ![k][n] = p] /\ Live(k, n)
    BY <1>0, <1>2, <2>1, PodFields, StepFields DEF StartSimulator, Live
  <2> QED  BY <1>1, <2>2
<1>3. CASE ExitFailure(k, n) \/ KillPod(k, n)
  <2>1. PICK p : p = Exited(pod[k][n], "Failed")
    OBVIOUS
  <2>2. p.phase = "Failed" /\ p.sim = "none"
    BY <1>0, <2>1, PodFields DEF Phases
  <2>3. pod' = [pod EXCEPT ![k][n] = p]
    BY <1>3, <2>1 DEF ExitFailure, KillPod, FailPod
  <2> QED  BY <1>1, <2>2, <2>3
<1>4. CASE Disrupt(k, n) \/ CollectPod(k, n)
  BY <1>0, <1>4, DeletedNoNews DEF Disrupt, CollectPod
<1>5. CASE ReapPod(k, n)
  BY <1>1, <1>5, NewPodFields DEF ReapPod
<1>6. CASE ReportFailure(k, n)
  <2>1. PICK p : p = Working(pod[k][n], "exiting")
    OBVIOUS
  <2>2. pod[k][n].phase = "Running" /\ pod' = [pod EXCEPT ![k][n] = p]
    BY <1>6, <2>1 DEF ReportFailure, IInv, EvidenceOK, StepEvidence
  <2>3. p.phase = pod[k][n].phase /\ p.sim = "exiting"
    BY <1>0, <2>1, PodFields, StepFields DEF SimSteps
  <2> QED  BY <1>1, <2>2, <2>3 DEF Live
<1> QED  BY <1>2, <1>3, <1>4, <1>5, <1>6

\* A pod is made for a copy that is pending, hence never for a completed job.
LEMMA CreateNoNews ==
  ASSUME IInv, LagOK, CreateSimulatorPod
  PROVE  \A j \in Jobs : NoNews(j)
<1>1. rc.pc = "create" /\ rc # Idle /\ podCache' = podCache
  BY Busy DEF CreateSimulatorPod, Idle, caches, IInv
<1>2. PICK k, o : k = rc.key /\ o = rc.obj
  OBVIOUS
<1>3. k \in Jobs /\ o.retries \in Attempts /\ o.jobStatus = "pending"
  BY <1>1, <1>2, Busy, JobFields DEF IInv, StepOK, AtPending
<1>4. ~JobIs(k, "completed")
  BY <1>1, <1>2, <1>3 DEF LagOK, OneBehind, Same, Follows, JobIs
<1>5. pod' = pod \/ pod' = [pod EXCEPT ![k][o.retries] = NewPod]
  BY <1>2 DEF CreateSimulatorPod, CreatePod
<1>6. \A j \in Jobs : \A m \in Attempts :
        pod'[j][m] = pod[j][m] \/ (j = k /\ pod'[j][m] = NewPod)
  BY <1>3, <1>5 DEF IInv, TypeOK
<1> QED  BY <1>1, <1>4, <1>6, NewPodFields DEF NoNews, Live

LEMMA OtherMessage ==
  ASSUME IInv, LagOK, PodInv, MessageInv, OtherStep, ~HandleRunningJob
  PROVE  MessageInv'
<1>1. /\ rc # Idle /\ UNCHANGED podCache
      /\ \A j \in Jobs : Exists(j)' => Exists(j) /\ job'[j] = job[j]
  BY OtherStepEffect
<1>2. rc'.pc # "complete"
  <2>1. ASSUME NEW step \in {"create", "progress", "name", "retry", "ttl", "delete pod"}, GoTo(step)
        PROVE  rc'.pc # "complete"
    BY <1>1, <2>1, GoToFields DEF IInv, Steps
  <2>2. \/ Requeue \/ Done
        \/ \E step \in {"create", "progress", "name", "retry", "ttl", "delete pod"} : GoTo(step)
    <3>1. CASE HandlePendingJob \/ CreateSimulatorPod
      BY <3>1 DEF HandlePendingJob, CreateSimulatorPod
    <3>2. CASE DeleteFailedPod \/ DeleteTerminalPod
      BY <3>2 DEF DeleteFailedPod, DeleteTerminalPod, DeleteThen
    <3>3. CASE HandleTerminalJob \/ CheckTTL
      BY <3>3 DEF HandleTerminalJob, CheckTTL, AwaitTTL
    <3> QED  BY <3>1, <3>2, <3>3 DEF OtherStep
  <2>3. Requeue \/ Done => rc'.pc # "complete"
    BY DEF Requeue, Done, Idle
  <2> QED  BY <2>1, <2>2, <2>3
<1>3. \A j \in Jobs : NoNews(j)
  <2>1. CASE pod' = pod
    BY <1>1, <2>1, SamePodsNoNews
  <2>2. CASE CreateSimulatorPod
    BY <2>2, CreateNoNews
  <2>3. CASE (DeleteFailedPod \/ DeleteTerminalPod) /\ pod' # pod
    <3>1. DeletePod(rc.key, rc.obj.podName)
      BY <2>3 DEF DeleteFailedPod, DeleteTerminalPod, DeleteThen
    <3>2. rc.key \in Jobs /\ rc.obj.podName \in Attempts
      <4>1. rc.key \in Jobs /\ rc.obj \in JobObject
        BY <1>1, Busy DEF IInv
      <4>2. rc.obj.podName # NoPod
        BY <2>3 DEF DeleteFailedPod, DeleteTerminalPod, IInv, StepOK
      <4> QED  BY <4>1, <4>2, JobFields
    <3> QED  BY <1>1, <3>1, <3>2, DeletedNoNews
  <2>4. HandlePendingJob \/ HandleTerminalJob \/ CheckTTL => pod' = pod
    BY DEF HandlePendingJob, HandleTerminalJob, CheckTTL, cluster
  <2> QED  BY <2>1, <2>2, <2>3, <2>4 DEF OtherStep
<1> QED  BY <1>1, <1>2, <1>3, MessageFrame

LEMMA MessageStep ==
  ASSUME IInv, LagOK, PodInv, MessageInv, [Next]_vars
  PROVE  MessageInv'
<1>1. CASE OperatorUpdate
  <2>1. CASE job' # job
    BY <1>1, <2>1, UpdateMessage
  <2>2. CASE job' = job
    <3>1. rc' = Idle /\ UNCHANGED <<pod, podCache>>
      BY <1>1, UpdateWrites DEF StatusUpdate, Requeue, caches
    <3> QED  BY <2>2, <3>1, SamePodsNoNews, MessageFrame DEF Idle, Exists
  <2> QED  BY <2>1, <2>2
<1>2. CASE OtherStep
  BY <1>2, OtherMessage, RunningMessage
<1>3. CASE CrashRestart
  <2>1. \A j \in Jobs : Listed(j)
    BY <1>3 DEF CrashRestart, Listed
  <2> QED  BY <1>3, <2>1, SamePodsNoNews, MessageFrame DEF CrashRestart, cluster, Idle, Exists
<1>4. ASSUME NEW j \in Jobs, Reconcile(j)
      PROVE  MessageInv'
  <2>1. rc'.pc # "complete"
    BY <1>4 DEF Reconcile, Handler, Idle
  <2> QED  BY <1>4, <2>1, SamePodsNoNews, MessageFrame DEF Reconcile, cluster, caches, Exists
<1>5. ASSUME NEW j \in Jobs, JobStep(j)
      PROVE  MessageInv'
  <2>1. CASE Submit(j)
    BY <2>1, SubmitMessage
  <2>2. CASE UserDelete(j) \/ PassTimeOut(j) \/ PassTTL(j)
    BY <2>2, JobStepEffect, SamePodsNoNews, MessageFrame
  <2>3. CASE SyncJob(j) \/ SyncPods(j)
    <3>1. \A i \in Jobs : podCache'[i] = podCache[i] \/ Listed(i)
      BY <2>3 DEF SyncJob, SyncPods, Listed, IInv, TypeOK
    <3> QED  BY <2>3, <3>1, SamePodsNoNews, MessageFrame DEF SyncJob, SyncPods, cluster, Exists
  <2> QED  BY <1>5, <2>1, <2>2, <2>3 DEF JobStep
<1>6. ASSUME NEW j \in Jobs, NEW n \in Attempts, PodStep(j, n)
      PROVE  MessageInv'
  <2>1. CASE ReportSuccess(j, n)
    BY <2>1, SuccessMessage
  <2>2. CASE ExitSuccess(j, n)
    BY <2>2, ExitMessage
  <2>3. CASE ReportFailure(j, n) /\ job' # job
    <3>1. /\ Exists(j) /\ PatchError(j, "simulator") /\ pod[j][n].sim \in {"working", "reported"}
          /\ pod' = [pod EXCEPT ![j][n] = Working(pod[j][n], "exiting")]
          /\ UNCHANGED <<rc, podCache>>
      BY <2>3 DEF ReportFailure, OperatorUnchanged, caches
    <3> QED  BY <3>1, FailureMessage
  <2>4. CASE \/ StartSimulator(j, n) \/ ExitFailure(j, n) \/ KillPod(j, n)
             \/ Disrupt(j, n) \/ CollectPod(j, n) \/ ReapPod(j, n)
             \/ ReportFailure(j, n) /\ job' = job
    <3>1. job' = job /\ rc' = rc
      BY <2>4 DEF StartSimulator, ExitFailure, KillPod, FailPod, Disrupt, CollectPod, ReapPod,
                  ReportFailure, OperatorUnchanged
    <3> QED  BY <2>4, <3>1, SimulatorsNoNews, MessageFrame DEF Exists
  <2> QED  BY <1>6, <2>1, <2>2, <2>3, <2>4 DEF PodStep
<1>7. CASE UNCHANGED vars
  BY <1>7, SamePodsNoNews, MessageFrame DEF vars, cluster, caches, Exists
<1> QED  BY <1>1, <1>2, <1>3, <1>4, <1>5, <1>6, <1>7 DEF Next, OperatorStep, OperatorUpdate, OtherStep

\* A completed job reports no error, although earlier attempts wrote theirs into
\* the same field and an update could carry an old message over.
THEOREM NoErrorOfCompleted == Undisturbed => (Spec => []CompletedWithoutError)
<1> SUFFICES ASSUME Undisturbed
             PROVE  Spec => []CompletedWithoutError
  OBVIOUS
<1>1. Init => MessageInv
  BY DEF Init, MessageInv, ToComplete, Exists, Idle
<1>2. IInv /\ LagOK /\ PodInv /\ MessageInv /\ [Next]_vars => MessageInv'
  BY MessageStep
<1>3. MessageInv => CompletedWithoutError
  BY DEF MessageInv, Reported, CompletedWithoutError
<1> QED  BY <1>1, <1>2, <1>3, Invariance, CopiesLagByOne, PodsFollowStatus, PTL DEF Spec
=============================================================================
