--------------------------- MODULE ReconcilerProofs ---------------------------
(***************************************************************************)
(* What can be said of one reconciler when it may not be the only one.     *)
(*                                                                         *)
(* View is an invariant of its own queue, cache of pods and reconcile in   *)
(* progress and of the cluster it works on.  Of everybody else it assumes  *)
(* Moves alone: versions grow, a verdict stays, a resource that is gone    *)
(* does not come back, and what pods have done is not forgotten.  Its own  *)
(* steps are Moves, too.  ControllerProofs uses this for the one operator  *)
(* of QuantumAerJobController, FailoverProofs for each of the two of       *)
(* LeaderFailover.                                                         *)
(***************************************************************************)
EXTENDS QuantumAerJobController, TLAPS

-----------------------------------------------------------------------------
(* The invariant.                                                          *)

AtPending == {"pending", "create", "name", "progress"}
AtRunning == {"running", "lost", "delete failed", "retry", "exhausted", "complete"}
AtTerminal == {"terminal", "delete pod", "ttl"}

\* What the reconcile in progress knows of its copy of the resource.
StepOK ==
    /\ rc.pc = "timeout" => /\ HasTimeOut /\ rc.obj.startTime /\ rc.key \in timedOut
                            /\ rc.obj.jobStatus \notin Terminal
    /\ rc.pc = "new" => rc.obj.jobStatus = ""
    /\ rc.pc \in AtPending => rc.obj.jobStatus = "pending"
    /\ rc.pc \in AtRunning => rc.obj.jobStatus = "in progress"
    /\ rc.pc \in AtTerminal => rc.obj.jobStatus \in Terminal
    /\ rc.pc \in {"progress", "delete failed", "retry", "exhausted", "complete", "delete pod"} =>
           rc.obj.podName # NoPod
    /\ rc.pc \in {"delete failed", "retry"} => rc.obj.retries < MaxRetries
    /\ rc.pc = "exhausted" => rc.obj.retries = MaxRetries

\* A version of the resource is not newer than another, and equal if as old.
NotNewer(o, p) == o.rv <= p.rv /\ (o.rv = p.rv => o = p)

\* The pod a resource names, by its status.
WellFormed(o) ==
    /\ o.jobStatus = "" => o.podName = NoPod /\ ~o.startTime /\ o.retries = 0
    /\ o.jobStatus = "pending" => o.podName \in {NoPod, o.retries}
    /\ o.jobStatus = "in progress" => o.podName = o.retries

\* The outcomes of pods that justify the status of job j in version o.
Justified(j, o) ==
    /\ \A n \in Attempts : n < o.retries => failures[j][n] > 0
    /\ o.jobStatus = "completed" => o.retries \in succeeded[j]
    /\ o.jobStatus = "failed" => j \in timedOut \/ \A n \in Attempts : failures[j][n] > 0

\* Version o of the resource of job j was there once: it has its reasons, it is
\* not newer than the resource, and if it had a verdict that is the verdict still.
CopyOf(j, o) ==
    /\ o \in JobObject /\ j \in submitted
    /\ WellFormed(o) /\ Justified(j, o)
    /\ Exists(j) => /\ NotNewer(o, job[j])
                    /\ o.jobStatus \in Terminal => job[j].jobStatus = o.jobStatus

ClusterType ==
    /\ job \in [Jobs -> JobObject \cup {None}]
    /\ pod \in [Jobs -> [Attempts -> PodObject]]
    /\ submitted \in SUBSET Jobs /\ timedOut \in SUBSET Jobs /\ expired \in SUBSET Jobs
    /\ jobCache \in [Jobs -> JobObject \cup {None}]
    /\ faults \in Nat
    /\ failures \in [Jobs -> [Attempts -> Nat]]
    /\ succeeded \in [Jobs -> SUBSET Attempts]

\* The resources are versions of themselves, the cache holds versions of them, and
\* the phase of a pod is evidence of its outcome.
ClusterOK ==
    /\ ClusterType
    /\ \A j \in Jobs : Exists(j) => CopyOf(j, job[j])
    /\ \A j \in Jobs : jobCache[j] # None => CopyOf(j, jobCache[j])
    /\ \A j \in Jobs : \A n \in Attempts :
           /\ pod[j][n].phase = "Failed" => failures[j][n] > 0
           /\ pod[j][n].phase = "Succeeded" => n \in succeeded[j]

ReconcilerType ==
    /\ podCache \in [Jobs -> [Attempts -> Phases \cup {"absent"}]]
    /\ queue \in SUBSET Jobs
    /\ \/ rc = Idle
       \/ rc \in [pc : Steps \ {"idle"}, key : Jobs, obj : JobObject]

\* The evidence on which the reconcile in progress is about to act.
StepEvidence ==
    /\ rc.pc \in {"delete failed", "retry", "exhausted"} => failures[rc.key][rc.obj.retries] > 0
    /\ rc.pc = "complete" => rc.obj.retries \in succeeded[rc.key]

CachedPhases ==
    \A j \in Jobs : \A n \in Attempts :
        /\ podCache[j][n] = "Failed" => failures[j][n] > 0
        /\ podCache[j][n] = "Succeeded" => n \in succeeded[j]

ReconcilerOK ==
    /\ ReconcilerType
    /\ StepOK
    /\ rc # Idle => CopyOf(rc.key, rc.obj)
    /\ CachedPhases
    /\ StepEvidence

View == ClusterOK /\ ReconcilerOK

\* Outcomes and timeouts are never forgotten.
HistoryGrows ==
    /\ \A j \in Jobs : \A n \in Attempts : failures[j][n] > 0 => failures'[j][n] > 0
    /\ \A j \in Jobs : succeeded[j] \subseteq succeeded'[j]
    /\ timedOut \subseteq timedOut'

\* What one reconciler relies on in the steps of all the others.
Moves ==
    /\ HistoryGrows
    /\ submitted \subseteq submitted'
    /\ \A j \in submitted : Exists(j)' =>
           /\ Exists(j)
           /\ job'[j] = job[j] \/ job[j].rv < job'[j].rv
           /\ job[j].jobStatus \in Terminal => job'[j].jobStatus = job[j].jobStatus

-----------------------------------------------------------------------------
(* What the changes of an object leave alone.                              *)

LEMMA JobFields ==
  ASSUME NEW o \in JobObject
  PROVE  /\ o.rv \in Nat /\ o.jobStatus \in {"", "pending", "in progress", "completed", "failed"}
         /\ o.retries \in Nat /\ o.retries <= MaxRetries /\ o.retries \in Attempts
         /\ o.podName \in Attempts \cup {NoPod} /\ o.startTime \in BOOLEAN /\ o # None
<1>1. /\ o.rv \in Nat /\ o.jobStatus \in JobState /\ o.retries \in Attempts
      /\ o.podName \in Attempts \cup {NoPod} /\ o.startTime \in BOOLEAN
  BY Zenon DEF JobObject
<1>2. o.retries \in Nat /\ o.retries <= MaxRetries
  BY <1>1, BoundsAssumption DEF Attempts
<1>3. o.jobStatus \in {"", "pending", "in progress", "completed", "failed"}
  BY <1>1 DEF JobState, Terminal
<1> QED  BY <1>1, <1>2, <1>3, JobsAssumption, Zenon

LEMMA NextVersion == \A v \in Nat : v + 1 \in Nat
  OBVIOUS

LEMMA TimedOutFields ==
  ASSUME NEW o \in JobObject
  PROVE  LET p == TimedOut(o) IN
         /\ p \in JobObject /\ p.jobStatus = "failed"
         /\ p.retries = o.retries /\ p.podName = o.podName
  BY Zenon DEF JobObject, TimedOut, JobState, Terminal

LEMMA AdmittedFields ==
  ASSUME NEW o \in JobObject
  PROVE  LET p == Admitted(o) IN
         /\ p \in JobObject /\ p.jobStatus = "pending"
         /\ p.retries = 0 /\ p.podName = o.podName
<1>1. 0 \in Attempts
  BY BoundsAssumption DEF Attempts
<1> QED  BY <1>1, Zenon DEF JobObject, Admitted, JobState, Terminal

LEMMA NamedFields ==
  ASSUME NEW o \in JobObject
  PROVE  LET p == Named(o) IN
         /\ p \in JobObject /\ p.jobStatus = o.jobStatus
         /\ p.retries = o.retries /\ p.podName = o.retries
  BY Zenon DEF JobObject, Named

LEMMA LaunchedFields ==
  ASSUME NEW o \in JobObject
  PROVE  LET p == Launched(o) IN
         /\ p \in JobObject /\ p.jobStatus = "in progress"
         /\ p.retries = o.retries /\ p.podName = o.podName
  BY Zenon DEF JobObject, Launched, JobState

LEMMA LostFields ==
  ASSUME NEW o \in JobObject
  PROVE  LET p == Lost(o) IN
         /\ p \in JobObject /\ p.jobStatus = "pending"
         /\ p.retries = o.retries /\ p.podName = NoPod
  BY Zenon DEF JobObject, Lost, JobState

LEMMA RetriedFields ==
  ASSUME NEW o \in JobObject, o.retries < MaxRetries
  PROVE  LET p == Retried(o) IN
         /\ p \in JobObject /\ p.jobStatus = "pending"
         /\ p.retries = o.retries + 1 /\ p.podName = NoPod
<1>1. o.retries + 1 \in Attempts
  <2>1. o.retries \in Nat
    BY JobFields, Zenon
  <2> QED  BY <2>1, BoundsAssumption DEF Attempts
<1> QED  BY <1>1, Zenon DEF JobObject, Retried, JobState

LEMMA ExhaustedFields ==
  ASSUME NEW o \in JobObject
  PROVE  LET p == Exhausted(o) IN
         /\ p \in JobObject /\ p.jobStatus = "failed"
         /\ p.retries = o.retries /\ p.podName = o.podName
  BY Zenon DEF JobObject, Exhausted, JobState, Terminal

LEMMA CompletedFields ==
  ASSUME NEW o \in JobObject
  PROVE  LET p == Completed(o) IN
         /\ p \in JobObject /\ p.jobStatus = "completed"
         /\ p.retries = o.retries /\ p.podName = o.podName
  BY Zenon DEF JobObject, Completed, JobState, Terminal

LEMMA AtVersionFields ==
  ASSUME NEW o \in JobObject, NEW v \in Nat
  PROVE  LET p == AtVersion(o, v) IN
         /\ p \in JobObject /\ p.rv = v /\ p.jobStatus = o.jobStatus
         /\ p.retries = o.retries /\ p.podName = o.podName /\ p.startTime = o.startTime
  BY Zenon DEF JobObject, AtVersion

LEMMA WithErrorFields ==
  ASSUME NEW o \in JobObject, NEW message \in {"", "simulator"}
  PROVE  LET p == WithError(o, message) IN
         /\ p \in JobObject /\ p.jobStatus = o.jobStatus
         /\ p.retries = o.retries /\ p.podName = o.podName /\ p.startTime = o.startTime
  BY Zenon DEF JobObject, WithError

LEMMA NewJobFields ==
  /\ NewJob \in JobObject /\ NewJob.jobStatus = "" /\ NewJob.retries = 0
  /\ NewJob.podName = NoPod /\ ~NewJob.startTime
  BY BoundsAssumption DEF NewJob, JobObject, JobState, Attempts, NoPod

LEMMA PodFields ==
  ASSUME NEW p \in PodObject
  PROVE  /\ Terminating(p) \in PodObject /\ Terminating(p).phase = p.phase /\ Terminating(p).deleting
         /\ Terminating(p).sim = p.sim
         /\ Running(p) \in PodObject /\ Running(p).phase = "Running"
         /\ Running(p).deleting = p.deleting
         /\ \A step \in SimSteps :
                /\ Working(p, step) \in PodObject /\ Working(p, step).phase = p.phase
                /\ Working(p, step).deleting = p.deleting
         /\ \A phase \in Phases :
                /\ Exited(p, phase) \in PodObject /\ Exited(p, phase).phase = phase
                /\ Exited(p, phase).deleting = p.deleting /\ Exited(p, phase).sim = "none"
  BY Zenon DEF PodObject, Terminating, Running, Working, Exited, SimSteps, Phases

LEMMA NewPodFields ==
  /\ NewPod \in PodObject /\ NewPod.phase = "Pending" /\ ~NewPod.deleting
  /\ NewPod.sim = "none"
  /\ AbsentPod \in PodObject /\ AbsentPod.phase = "absent" /\ ~AbsentPod.deleting
  /\ AbsentPod.sim = "none"
  BY DEF NewPod, AbsentPod, PodObject, SimSteps, Phases

LEMMA GoToFields ==
  ASSUME TypeOK, rc # Idle, NEW step \in Steps \ {"idle"}, GoTo(step)
  PROVE  /\ rc' \in [pc : Steps \ {"idle"}, key : Jobs, obj : JobObject]
         /\ rc'.pc = step /\ rc'.key = rc.key /\ rc'.obj = rc.obj /\ queue' = queue
<1>1. rc \in [pc : Steps \ {"idle"}, key : Jobs, obj : JobObject]
  BY DEF TypeOK
<1> QED  BY <1>1, Zenon DEF GoTo

LEMMA Busy ==
  ASSUME TypeOK
  PROVE  /\ rc.pc # "idle" <=> rc # Idle
         /\ rc # Idle => rc.key \in Jobs /\ rc.obj \in JobObject /\ rc.pc \in Steps
  BY DEF TypeOK, Idle

-----------------------------------------------------------------------------
(* Copies, and what they survive.                                          *)

LEMMA ViewType == View => TypeOK
  BY DEF View, ClusterOK, ClusterType, ReconcilerOK, ReconcilerType, TypeOK

LEMMA ReasonsStay ==
  ASSUME HistoryGrows, NEW j \in Jobs, NEW o \in JobObject, Justified(j, o)
  PROVE  Justified(j, o)'
  BY JobFields DEF HistoryGrows, Justified

\* Whatever the others do, a copy stays a copy.
LEMMA CopyStays ==
  ASSUME ClusterOK, ClusterType', Moves, NEW j \in Jobs, NEW o, CopyOf(j, o)
  PROVE  CopyOf(j, o)'
<1>1. o \in JobObject /\ j \in submitted' /\ WellFormed(o) /\ Justified(j, o)'
  BY ReasonsStay DEF CopyOf, Moves
<1>2. ASSUME Exists(j)'
      PROVE  /\ NotNewer(o, job'[j])
             /\ o.jobStatus \in Terminal => job'[j].jobStatus = o.jobStatus
  <2>1. /\ Exists(j)
        /\ job'[j] = job[j] \/ job[j].rv < job'[j].rv
        /\ job[j].jobStatus \in Terminal => job'[j].jobStatus = job[j].jobStatus
    BY <1>2 DEF CopyOf, Moves
  <2>2. NotNewer(o, job[j]) /\ (o.jobStatus \in Terminal => job[j].jobStatus = o.jobStatus)
    BY <2>1 DEF CopyOf
  <2>3. o.rv \in Nat /\ job[j].rv \in Nat /\ job'[j].rv \in Nat
    BY <1>1, <1>2, <2>1, JobFields DEF ClusterOK, ClusterType, Exists
  <2> QED  BY <2>1, <2>2, <2>3 DEF NotNewer
<1> QED  BY <1>1, <1>2 DEF CopyOf, WellFormed, Justified, NotNewer, Exists

\* A reconciler that makes no step keeps what it knows.
LEMMA ReconcilerStays ==
  ASSUME View, ClusterType', Moves, UNCHANGED <<podCache, queue, rc>>
  PROVE  ReconcilerOK'
<1>1. ReconcilerType' /\ CachedPhases'
  BY DEF View, ReconcilerOK, ReconcilerType, CachedPhases, Moves, HistoryGrows
<1>2. StepOK'
  BY DEF View, ReconcilerOK, StepOK, Moves, HistoryGrows
<1>3. rc # Idle => CopyOf(rc.key, rc.obj)'
  BY CopyStays, Busy, ViewType DEF View, ReconcilerOK
<1>4. StepEvidence'
  <2>1. rc # Idle => rc.key \in Jobs /\ rc.obj.retries \in Attempts
    BY Busy, JobFields, ViewType
  <2>2. rc.pc \in {"delete failed", "retry", "exhausted", "complete"} => rc # Idle
    BY Busy, ViewType
  <2> QED  BY <2>1, <2>2 DEF View, ReconcilerOK, StepEvidence, Moves, HistoryGrows
<1> QED  BY <1>1, <1>2, <1>3, <1>4 DEF ReconcilerOK

\* A reconciler that has none in progress knows nothing.
LEMMA IdleKnowsNothing ==
  ASSUME ReconcilerType, CachedPhases, rc = Idle
  PROVE  ReconcilerOK
  BY DEF ReconcilerOK, StepOK, StepEvidence, Idle, AtPending, AtRunning, AtTerminal

\* How the cluster changes: each resource stays, or has a new version that has its
\* reasons; the cache catches up or not; no pod ends without a record of it.
LEMMA ClusterMoves ==
  ASSUME ClusterOK, ClusterType', Moves,
         \A j \in Jobs : Exists(j)' =>
             \/ Exists(j) /\ job'[j] = job[j]
             \/ j \in submitted' /\ WellFormed(job'[j]) /\ Justified(j, job[j])',
         \A j \in Jobs : jobCache'[j] = jobCache[j] \/ jobCache'[j] = job[j],
         \A j \in Jobs : \A n \in Attempts :
             /\ pod'[j][n].phase = "Failed" => failures'[j][n] > 0
             /\ pod'[j][n].phase = "Succeeded" => n \in succeeded'[j]
  PROVE  ClusterOK'
<1>1. ASSUME NEW j \in Jobs, Exists(j)'
      PROVE  CopyOf(j, job[j])'
  <2>1. job'[j] \in JobObject
    BY <1>1 DEF ClusterType, Exists
  <2>2. job'[j].rv \in Nat
    BY <2>1, JobFields
  <2>3. NotNewer(job'[j], job'[j])
    BY <2>2 DEF NotNewer
  <2>4. j \in submitted' /\ WellFormed(job'[j]) /\ Justified(j, job[j])'
    <3>1. CASE Exists(j) /\ job'[j] = job[j]
      <4>1. CopyOf(j, job[j])
        BY <3>1 DEF ClusterOK
      <4>2. Justified(j, job[j]) /\ j \in submitted /\ WellFormed(job[j]) /\ job[j] \in JobObject
        BY <4>1 DEF CopyOf
      <4> QED  BY <3>1, <4>2, JobFields DEF Justified, Moves, HistoryGrows
    <3>2. CASE j \in submitted' /\ WellFormed(job'[j]) /\ Justified(j, job[j])'
      BY <3>2
    <3> QED  BY <1>1, <3>1, <3>2
  <2> QED  BY <2>1, <2>3, <2>4 DEF CopyOf, NotNewer, WellFormed
<1>2. ASSUME NEW j \in Jobs, jobCache'[j] # None
      PROVE  CopyOf(j, jobCache[j])'
  <2>1. PICK o : o = jobCache'[j]
    OBVIOUS
  <2>2. CopyOf(j, o)
    BY <1>2, <2>1 DEF ClusterOK, Exists
  <2>3. CopyOf(j, o)'
    BY <2>2, CopyStays
  <2> QED  BY <2>1, <2>3 DEF CopyOf, NotNewer, WellFormed, Justified
<1> QED  BY <1>1, <1>2 DEF ClusterOK

-----------------------------------------------------------------------------
(* The steps that write the status.                                        *)

\* A status the reconcile in progress may write over its copy of the resource.
Legal(new) ==
    /\ new \in JobObject
    /\ rc.obj.jobStatus \notin Terminal
    /\ rc.obj.jobStatus \in {"", "pending"} => new.retries = rc.obj.retries
    /\ new.retries # rc.obj.retries => rc.pc = "retry"
    /\ new.jobStatus # ""
    /\ WellFormed(new)
    /\ Justified(rc.key, new)

OperatorUpdate ==
    \/ UpdateTimedOut \/ HandleNewJob \/ UpdatePodName \/ UpdateProgress
    \/ UpdateLost \/ UpdateRetry \/ UpdateExhausted \/ UpdateCompleted

LEMMA UpdatesAreLegal ==
  ASSUME View, OperatorUpdate
  PROVE  rc # Idle /\ \E new : Legal(new) /\ StatusUpdate(new)
<1> USE ViewType DEF View, ReconcilerOK
<1>o. ASSUME rc.pc # "idle"
      PROVE  /\ rc # Idle /\ rc.key \in Jobs /\ rc.obj \in JobObject
             /\ WellFormed(rc.obj) /\ Justified(rc.key, rc.obj)
             /\ rc.obj.retries \in Nat /\ rc.obj.retries <= MaxRetries
  BY <1>o, Busy, JobFields DEF CopyOf
<1>1. CASE UpdateTimedOut
  <2>1. Legal(TimedOut(rc.obj))
    BY <1>1, <1>o, TimedOutFields
       DEF UpdateTimedOut, StepOK, Legal, Justified, WellFormed, Terminal
  <2> QED  BY <1>1, <1>o, <2>1 DEF UpdateTimedOut
<1>2. CASE HandleNewJob
  <2>1. Legal(Admitted(rc.obj))
    BY <1>2, <1>o, AdmittedFields DEF HandleNewJob, StepOK, Legal, Justified, WellFormed, Terminal
  <2> QED  BY <1>2, <1>o, <2>1 DEF HandleNewJob
<1>3. CASE UpdatePodName
  <2>1. Legal(Named(rc.obj))
    BY <1>3, <1>o, NamedFields
       DEF UpdatePodName, StepOK, Legal, Justified, WellFormed, Terminal, AtPending
  <2> QED  BY <1>3, <1>o, <2>1 DEF UpdatePodName
<1>4. CASE UpdateProgress
  <2>1. Legal(Launched(rc.obj))
    BY <1>4, <1>o, LaunchedFields
       DEF UpdateProgress, StepOK, Legal, Justified, WellFormed, Terminal, AtPending
  <2> QED  BY <1>4, <1>o, <2>1 DEF UpdateProgress
<1>5. CASE UpdateLost
  <2>1. Legal(Lost(rc.obj))
    BY <1>5, <1>o, LostFields
       DEF UpdateLost, StepOK, Legal, Justified, WellFormed, Terminal, AtRunning
  <2> QED  BY <1>5, <1>o, <2>1 DEF UpdateLost
<1>6. CASE UpdateRetry
  <2>a. /\ rc.obj.jobStatus = "in progress" /\ rc.obj.retries < MaxRetries
        /\ failures[rc.key][rc.obj.retries] > 0 /\ rc.pc = "retry"
    BY <1>6 DEF UpdateRetry, StepOK, StepEvidence, AtRunning
  <2>b. /\ Retried(rc.obj) \in JobObject /\ Retried(rc.obj).jobStatus = "pending"
        /\ Retried(rc.obj).retries = rc.obj.retries + 1 /\ Retried(rc.obj).podName = NoPod
    BY <1>6, <1>o, <2>a, RetriedFields DEF UpdateRetry
  <2>c. \A n \in Attempts : n < rc.obj.retries + 1 => failures[rc.key][n] > 0
    <3> TAKE n \in Attempts
    <3>1. n \in Int /\ rc.obj.retries \in Nat
      BY <1>6, <1>o DEF UpdateRetry, Attempts
    <3>2. n < rc.obj.retries + 1 => n = rc.obj.retries \/ n < rc.obj.retries
      BY <3>1
    <3>3. n < rc.obj.retries => failures[rc.key][n] > 0
      BY <1>6, <1>o DEF UpdateRetry, Justified
    <3> QED  BY <2>a, <3>2, <3>3
  <2>1. Legal(Retried(rc.obj))
    BY <2>a, <2>b, <2>c DEF Legal, Justified, WellFormed, Terminal
  <2> QED  BY <1>6, <1>o, <2>1 DEF UpdateRetry
<1>7. CASE UpdateExhausted
  <2>a. /\ rc.obj.jobStatus = "in progress" /\ rc.obj.retries = MaxRetries
        /\ failures[rc.key][MaxRetries] > 0
    BY <1>7 DEF UpdateExhausted, StepOK, StepEvidence, AtRunning
  <2>b. /\ Exhausted(rc.obj) \in JobObject /\ Exhausted(rc.obj).jobStatus = "failed"
        /\ Exhausted(rc.obj).retries = rc.obj.retries
    BY <1>7, <1>o, ExhaustedFields DEF UpdateExhausted
  <2>c. \A n \in Attempts : failures[rc.key][n] > 0
    <3> TAKE n \in Attempts
    <3>1. n < rc.obj.retries => failures[rc.key][n] > 0
      BY <1>7, <1>o DEF UpdateExhausted, Justified
    <3>2. n = MaxRetries \/ n < MaxRetries
      BY BoundsAssumption DEF Attempts
    <3> QED  BY <2>a, <3>1, <3>2
  <2>1. Legal(Exhausted(rc.obj))
    BY <2>a, <2>b, <2>c DEF Legal, Justified, WellFormed, Terminal
  <2> QED  BY <1>7, <1>o, <2>1 DEF UpdateExhausted
<1>8. CASE UpdateCompleted
  <2>1. Legal(Completed(rc.obj))
    BY <1>8, <1>o, CompletedFields
       DEF UpdateCompleted, StepOK, StepEvidence, Legal, Justified, WellFormed, Terminal, AtRunning
  <2> QED  BY <1>8, <1>o, <2>1 DEF UpdateCompleted
<1> QED  BY <1>1, <1>2, <1>3, <1>4, <1>5, <1>6, <1>7, <1>8 DEF OperatorUpdate

\* Optimistic concurrency at work: an update that is accepted was made from the
\* current version.
LEMMA AcceptedFromCurrent ==
  ASSUME View, rc # Idle, NEW new, StatusUpdate(new), job' # job
  PROVE  /\ Exists(rc.key) /\ job[rc.key] = rc.obj
         /\ job' = [job EXCEPT ![rc.key] = AtVersion(new, rc.obj.rv + 1)]
<1>1. /\ Exists(rc.key) /\ job[rc.key].rv = rc.obj.rv
      /\ job' = [job EXCEPT ![rc.key] = AtVersion(new, rc.obj.rv + 1)]
  BY DEF StatusUpdate, Accepts
<1>2. rc.key \in Jobs /\ rc.obj \in JobObject
  BY Busy, ViewType
<1>3. NotNewer(rc.obj, job[rc.key])
  BY <1>1 DEF View, ReconcilerOK, CopyOf
<1> QED  BY <1>1, <1>3 DEF NotNewer

\* An update in effect: the version it replaces and the one it writes.
LEMMA UpdateEffect ==
  ASSUME View, rc # Idle, NEW new, Legal(new), StatusUpdate(new), job' # job
  PROVE  /\ rc.key \in Jobs /\ rc.obj \in JobObject /\ Exists(rc.key) /\ job[rc.key] = rc.obj
         /\ rc.obj.jobStatus \notin Terminal
         /\ \E p \in JobObject :
                /\ job' = [job EXCEPT ![rc.key] = p]
                /\ p # None /\ p.rv = rc.obj.rv + 1 /\ p.jobStatus = new.jobStatus
                /\ p.retries = new.retries /\ p.podName = new.podName
<1>1. /\ rc.key \in Jobs /\ rc.obj \in JobObject /\ Exists(rc.key) /\ job[rc.key] = rc.obj
      /\ job' = [job EXCEPT ![rc.key] = AtVersion(new, rc.obj.rv + 1)]
  BY AcceptedFromCurrent, Busy, ViewType
<1>2. new \in JobObject /\ rc.obj.rv + 1 \in Nat
  <2>1. rc.obj.rv \in Nat
    BY <1>1, JobFields, Zenon
  <2> QED  BY <2>1, NextVersion, Zenon DEF Legal
<1>3. PICK p : p = AtVersion(new, rc.obj.rv + 1)
  OBVIOUS
<1>4. /\ p \in JobObject /\ p # None /\ p.rv = rc.obj.rv + 1 /\ p.jobStatus = new.jobStatus
      /\ p.retries = new.retries /\ p.podName = new.podName
  BY <1>2, <1>3, AtVersionFields, JobFields, Zenon
<1> QED  BY <1>1, <1>3, <1>4 DEF Legal

LEMMA HistoryStays ==
  ASSUME UNCHANGED <<timedOut, failures, succeeded>>
  PROVE  HistoryGrows
  BY DEF HistoryGrows

\* What a step that writes no status does to the cluster.
LEMMA QuietMoves ==
  ASSUME ClusterOK, ClusterType', UNCHANGED <<job, submitted>>, HistoryGrows,
         \A j \in Jobs : jobCache'[j] = jobCache[j] \/ jobCache'[j] = job[j],
         \A j \in Jobs : \A n \in Attempts :
             /\ pod'[j][n].phase = "Failed" => failures'[j][n] > 0
             /\ pod'[j][n].phase = "Succeeded" => n \in succeeded'[j]
  PROVE  Moves /\ ClusterOK'
<1>1. Moves
  BY DEF Moves, Exists
<1> QED  BY <1>1, ClusterMoves DEF Exists

\* The end of a reconcile, and a step on its way.
LEMMA Ends ==
  ASSUME View, ClusterType', Moves, podCache' = podCache, rc' = Idle, queue' \in SUBSET Jobs
  PROVE  ReconcilerOK'
<1>1. ReconcilerType' /\ CachedPhases'
  BY DEF View, ReconcilerOK, ReconcilerType, CachedPhases, Moves, HistoryGrows
<1> QED  BY <1>1 DEF ReconcilerOK, StepOK, StepEvidence, Idle, AtPending, AtRunning, AtTerminal

LEMMA GoesTo ==
  ASSUME View, ClusterType', Moves, podCache' = podCache, rc # Idle,
         NEW step \in Steps \ {"idle"}, GoTo(step), StepOK', StepEvidence'
  PROVE  ReconcilerOK'
<1>1. /\ rc' \in [pc : Steps \ {"idle"}, key : Jobs, obj : JobObject]
      /\ rc'.key = rc.key /\ rc'.obj = rc.obj /\ queue' = queue
  BY GoToFields, ViewType
<1>2. ReconcilerType' /\ CachedPhases'
  BY <1>1 DEF View, ReconcilerOK, ReconcilerType, CachedPhases, Moves, HistoryGrows
<1>3. CopyOf(rc.key, rc.obj)'
  <2>1. PICK k, o : k = rc.key /\ o = rc.obj
    OBVIOUS
  <2>2. CopyOf(k, o)'
    BY <2>1, CopyStays, Busy, ViewType DEF View, ReconcilerOK
  <2> QED  BY <1>1, <2>1, <2>2 DEF CopyOf, NotNewer, WellFormed, Justified, Exists
<1> QED  BY <1>2, <1>3 DEF ReconcilerOK

LEMMA UpdateMoves ==
  ASSUME View, OperatorUpdate
  PROVE  Moves /\ View'
<1>1. PICK new : rc # Idle /\ Legal(new) /\ StatusUpdate(new)
  BY UpdatesAreLegal
<1>2. /\ rc.key \in Jobs /\ rc' = Idle /\ queue' = queue \cup {rc.key} /\ faults' \in Nat
      /\ UNCHANGED <<pod, submitted, timedOut, expired, jobCache, podCache, failures, succeeded>>
  BY <1>1, Busy, ViewType DEF StatusUpdate, Requeue, Fault, TypeOK, clock, caches, history
<1>3. Moves /\ ClusterType' /\ ClusterOK'
  <2>1. CASE job' = job
    <3>1. ClusterType'
      BY <1>2, <2>1 DEF View, ClusterOK, ClusterType
    <3>2. \A j \in Jobs : \A n \in Attempts :
             /\ pod'[j][n].phase = "Failed" => failures'[j][n] > 0
             /\ pod'[j][n].phase = "Succeeded" => n \in succeeded'[j]
      BY <1>2 DEF View, ClusterOK
    <3> QED  BY <1>2, <2>1, <3>1, <3>2, HistoryStays, QuietMoves DEF View
  <2>2. CASE job' # job
    <3>1. PICK p \in JobObject :
              /\ job' = [job EXCEPT ![rc.key] = p] /\ p # None /\ p.rv = rc.obj.rv + 1
              /\ p.jobStatus = new.jobStatus /\ p.retries = new.retries /\ p.podName = new.podName
      BY <1>1, <2>2, UpdateEffect
    <3>2. rc.obj \in JobObject /\ Exists(rc.key) /\ job[rc.key] = rc.obj
          /\ rc.obj.jobStatus \notin Terminal /\ rc.key \in submitted
      BY <1>1, <2>2, UpdateEffect DEF View, ReconcilerOK, CopyOf
    <3>3. ClusterType' /\ job'[rc.key] = p /\ \A j \in Jobs : j # rc.key => job'[j] = job[j]
      BY <1>2, <3>1 DEF View, ClusterOK, ClusterType
    <3>4. rc.obj.rv < p.rv
      <4>1. rc.obj.rv \in Nat
        BY <3>2, JobFields, Zenon
      <4> QED  BY <3>1, <4>1
    <3>5. Moves
      <4> SUFFICES ASSUME NEW j \in submitted, Exists(j)'
                   PROVE  /\ Exists(j)
                          /\ job'[j] = job[j] \/ job[j].rv < job'[j].rv
                          /\ job[j].jobStatus \in Terminal => job'[j].jobStatus = job[j].jobStatus
        BY <1>2, HistoryStays DEF Moves
      <4>1. j \in Jobs
        BY DEF View, ClusterOK, ClusterType
      <4> QED  BY <3>2, <3>3, <3>4, <4>1 DEF Exists
    <3>6. WellFormed(p) /\ Justified(rc.key, p)
      <4>1. WellFormed(new) /\ Justified(rc.key, new) /\ new.jobStatus # ""
        BY <1>1 DEF Legal
      <4> QED  BY <3>1, <4>1 DEF WellFormed, Justified
    <3>7. \A j \in Jobs : Exists(j)' =>
             \/ Exists(j) /\ job'[j] = job[j]
             \/ j \in submitted' /\ WellFormed(job'[j]) /\ Justified(j, job[j])'
      BY <1>2, <3>2, <3>3, <3>6 DEF Exists, Justified
    <3>8. \A j \in Jobs : \A n \in Attempts :
             /\ pod'[j][n].phase = "Failed" => failures'[j][n] > 0
             /\ pod'[j][n].phase = "Succeeded" => n \in succeeded'[j]
      BY <1>2 DEF View, ClusterOK
    <3> QED  BY <1>2, <3>3, <3>5, <3>7, <3>8, ClusterMoves DEF View
  <2> QED  BY <2>1, <2>2
<1>4. queue' \in SUBSET Jobs
  BY <1>2 DEF View, ReconcilerOK, ReconcilerType
<1> QED  BY <1>2, <1>3, <1>4, Ends DEF View

-----------------------------------------------------------------------------
(* The other steps of the reconciler.                                      *)

Gone(j, n) == pod[j][n].phase = "absent" \/ pod[j][n].deleting

\* Deleting a pod, by whomever.
LEMMA DeletePodEffect ==
  ASSUME TypeOK, NEW k \in Jobs, NEW n \in Attempts, DeletePod(k, n)
  PROVE  /\ pod' \in [Jobs -> [Attempts -> PodObject]]
         /\ \A j \in Jobs : \A m \in Attempts :
                pod'[j][m] = pod[j][m] \/ (j = k /\ m = n)
         /\ \A j \in Jobs : \A m \in Attempts :
                /\ Gone(j, m) => Gone(j, m)'
                /\ \/ pod'[j][m] = AbsentPod
                   \/ pod'[j][m].phase = pod[j][m].phase /\ pod'[j][m].sim = pod[j][m].sim
                /\ pod[j][m] = AbsentPod => pod'[j][m] = AbsentPod
         /\ Gone(k, n)'
<1>1. pod[k][n] \in PodObject
  BY DEF TypeOK
<1>2. pod[k][n].phase \in {"Pending", "Running", "Succeeded", "Failed", "absent"}
  <2>1. pod[k][n].phase \in Phases \cup {"absent"}
    BY <1>1, Zenon DEF PodObject
  <2> QED  BY <2>1 DEF Phases
<1>3. \E p \in PodObject :
        /\ pod' = [pod EXCEPT ![k][n] = p]
        /\ p.phase = "absent" \/ p.deleting
        /\ p = AbsentPod \/ (p.phase = pod[k][n].phase /\ p.sim = pod[k][n].sim)
        /\ pod[k][n] = AbsentPod => p = AbsentPod
  <2>1. CASE pod[k][n].phase \in {"Succeeded", "Failed"}
    BY <2>1, NewPodFields DEF DeletePod
  <2>2. CASE pod[k][n].phase \in {"Pending", "Running"}
    <3> DEFINE p == Terminating(pod[k][n])
    <3>1. p \in PodObject /\ p.deleting /\ p.phase = pod[k][n].phase
          /\ p.sim = pod[k][n].sim /\ pod[k][n] # AbsentPod
      BY <1>1, <2>2, PodFields, NewPodFields
    <3>2. pod' = [pod EXCEPT ![k][n] = p]
      BY <2>2 DEF DeletePod
    <3> QED  BY <3>1, <3>2
  <2>3. CASE pod[k][n].phase = "absent"
    <3>1. pod' = [pod EXCEPT ![k][n] = pod[k][n]]
      BY <2>3 DEF DeletePod, TypeOK
    <3> QED  BY <1>1, <2>3, <3>1
  <2> QED  BY <1>2, <2>1, <2>2, <2>3
<1>4. PICK p \in PodObject :
        /\ pod' = [pod EXCEPT ![k][n] = p]
        /\ p.phase = "absent" \/ p.deleting
        /\ p = AbsentPod \/ (p.phase = pod[k][n].phase /\ p.sim = pod[k][n].sim)
        /\ pod[k][n] = AbsentPod => p = AbsentPod
  BY <1>3
<1>5. pod' \in [Jobs -> [Attempts -> PodObject]]
  BY <1>4 DEF TypeOK
<1>6. pod'[k][n] = p /\ \A j \in Jobs : \A m \in Attempts : pod'[j][m] = pod[j][m] \/ (j = k /\ m = n)
  BY <1>4 DEF TypeOK
<1> QED  BY <1>4, <1>5, <1>6 DEF Gone

\* A step that reads or writes pods and leaves all else to the next one.
LEMMA PodsOnly ==
  ASSUME View, faults' \in Nat, pod' \in [Jobs -> [Attempts -> PodObject]],
         UNCHANGED <<job, submitted, timedOut, expired, jobCache, failures, succeeded>>,
         \A j \in Jobs : \A n \in Attempts :
             pod'[j][n].phase \in {"Succeeded", "Failed"} => pod'[j][n].phase = pod[j][n].phase
  PROVE  Moves /\ ClusterType' /\ ClusterOK'
<1>1. ClusterType'
  BY DEF View, ClusterOK, ClusterType
<1>2. \A j \in Jobs : \A n \in Attempts :
          /\ pod'[j][n].phase = "Failed" => failures'[j][n] > 0
          /\ pod'[j][n].phase = "Succeeded" => n \in succeeded'[j]
  BY DEF View, ClusterOK
<1> QED  BY <1>1, <1>2, HistoryStays, QuietMoves DEF View

LEMMA ReadsMove ==
  ASSUME View, faults' \in Nat,
         UNCHANGED <<job, pod, submitted, timedOut, expired, jobCache, failures, succeeded>>
  PROVE  Moves /\ ClusterType' /\ ClusterOK'
<1>1. pod' \in [Jobs -> [Attempts -> PodObject]]
  BY DEF View, ClusterOK, ClusterType
<1> QED  BY <1>1, PodsOnly

LEMMA HandlePendingMoves ==
  ASSUME View, HandlePendingJob
  PROVE  Moves /\ View'
<1>1. /\ rc.pc = "pending" /\ rc # Idle
      /\ UNCHANGED <<job, pod, submitted, timedOut, expired, jobCache, podCache, failures, succeeded>>
  BY DEF HandlePendingJob, cluster, clock, caches, history, Idle
<1>2. faults' \in Nat
  BY DEF HandlePendingJob, GetFails, Fault, View, ClusterOK, ClusterType
<1>3. Moves /\ ClusterType' /\ ClusterOK'
  BY <1>1, <1>2, ReadsMove
<1>4. PICK step \in {"create", "progress"} :
        GoTo(step) /\ (step = "progress" => rc.obj.podName # NoPod)
  BY DEF HandlePendingJob, PodPhase, GetFails
<1>5. rc'.pc = step /\ rc'.key = rc.key /\ rc'.obj = rc.obj
  BY <1>1, <1>4, GoToFields, ViewType DEF Steps
<1>6. StepOK' /\ StepEvidence'
  <2>1. rc.obj.jobStatus = "pending"
    BY <1>1 DEF View, ReconcilerOK, StepOK, AtPending
  <2> QED  BY <1>4, <1>5, <2>1 DEF StepOK, StepEvidence, AtPending, AtRunning, AtTerminal
<1>7. step \in Steps \ {"idle"}
  BY <1>4 DEF Steps
<1>8. ReconcilerOK'
  BY <1>1, <1>3, <1>4, <1>6, <1>7, GoesTo
<1> QED  BY <1>3, <1>8 DEF View

LEMMA HandleRunningMoves ==
  ASSUME View, HandleRunningJob
  PROVE  Moves /\ View'
<1>1. /\ rc.pc = "running" /\ rc # Idle
      /\ UNCHANGED <<job, pod, submitted, timedOut, expired, jobCache, podCache, failures, succeeded>>
  BY DEF HandleRunningJob, cluster, clock, caches, history, Idle
<1>2. faults' \in Nat
  BY DEF HandleRunningJob, GetFails, Fault, View, ClusterOK, ClusterType
<1>3. Moves /\ ClusterType' /\ ClusterOK'
  BY <1>1, <1>2, ReadsMove
<1>4. /\ rc.key \in Jobs /\ rc.obj.jobStatus = "in progress"
      /\ rc.obj.podName = rc.obj.retries /\ rc.obj.podName # NoPod
      /\ rc.obj.retries \in Attempts /\ rc.obj.retries \in Nat /\ rc.obj.retries <= MaxRetries
  <2>1. rc.key \in Jobs /\ rc.obj \in JobObject /\ WellFormed(rc.obj)
    BY <1>1, Busy, ViewType DEF View, ReconcilerOK, CopyOf
  <2>2. rc.obj.jobStatus = "in progress"
    BY <1>1 DEF View, ReconcilerOK, StepOK, AtRunning
  <2>3. rc.obj.retries \in Attempts /\ rc.obj.retries \in Nat /\ rc.obj.retries <= MaxRetries
    BY <2>1, JobFields
  <2>4. rc.obj.podName = rc.obj.retries
    BY <2>1, <2>2 DEF WellFormed
  <2>5. rc.obj.retries # NoPod
    BY <2>3 DEF NoPod
  <2> QED  BY <2>1, <2>2, <2>3, <2>4, <2>5
<1>5. CASE Requeue
  <2>1. rc' = Idle /\ queue' \in SUBSET Jobs
    BY <1>4, <1>5 DEF Requeue, View, ReconcilerOK, ReconcilerType
  <2>2. ReconcilerOK'
    BY <1>1, <1>3, <2>1, Ends
  <2> QED  BY <1>3, <2>2 DEF View
<1>6. CASE ~Requeue
  <2> DEFINE phase == PodPhase(rc.key, rc.obj)
             step == AfterPod(phase, rc.obj)
  <2>1. step # "poll" /\ GoTo(step)
    BY <1>6 DEF HandleRunningJob, Poll, GetFails
  <2>2. /\ step \in {"lost", "delete failed", "exhausted", "complete"}
        /\ step = "delete failed" => rc.obj.retries < MaxRetries
        /\ step = "exhausted" => ~(rc.obj.retries < MaxRetries)
        /\ step \in {"delete failed", "exhausted"} => phase = "Failed"
        /\ step = "complete" => phase = "Succeeded"
    BY <2>1 DEF AfterPod
  <2>3. phase = podCache[rc.key][rc.obj.retries]
    BY <1>4 DEF PodPhase
  <2>4. /\ phase = "Failed" => failures[rc.key][rc.obj.retries] > 0
        /\ phase = "Succeeded" => rc.obj.retries \in succeeded[rc.key]
    BY <1>4, <2>3 DEF View, ReconcilerOK, CachedPhases
  <2> HIDE DEF phase, step
  <2>5. step \in Steps \ {"idle"} /\ rc'.pc = step /\ rc'.key = rc.key /\ rc'.obj = rc.obj
    BY <1>1, <2>1, <2>2, GoToFields, ViewType DEF Steps
  <2>6. step = "exhausted" => rc.obj.retries = MaxRetries
    <3>1. \A m, n \in Nat : m <= n /\ ~(m < n) => m = n
      OBVIOUS
    <3> QED  BY <1>4, <2>2, <3>1, BoundsAssumption
  <2>7. StepOK'
    BY <1>4, <2>2, <2>5, <2>6 DEF StepOK, AtPending, AtRunning, AtTerminal
  <2>8. StepEvidence'
    BY <1>1, <2>2, <2>4, <2>5 DEF StepEvidence
  <2>9. ReconcilerOK'
    BY <1>1, <1>3, <2>1, <2>5, <2>7, <2>8, GoesTo
  <2> QED  BY <1>3, <2>9 DEF View
<1> QED  BY <1>5, <1>6

LEMMA HandleTerminalMoves ==
  ASSUME View, HandleTerminalJob
  PROVE  Moves /\ View'
<1>1. /\ rc.pc = "terminal" /\ rc # Idle
      /\ UNCHANGED <<job, pod, submitted, timedOut, expired, jobCache, podCache, failures, succeeded>>
  <2>1. rc.pc = "terminal"
        /\ UNCHANGED <<job, pod, submitted, timedOut, expired, jobCache, podCache, failures, succeeded>>
    BY DEF HandleTerminalJob, cluster, clock, caches, history
  <2> QED  BY <2>1, Busy, ViewType
<1>2. faults' \in Nat
  <2>1. UNCHANGED faults \/ Fault("read")
    BY DEF HandleTerminalJob, GetFails
  <2> QED  BY <2>1 DEF Fault, View, ClusterOK, ClusterType
<1>3. Moves /\ ClusterType' /\ ClusterOK'
  BY <1>1, <1>2, ReadsMove
<1>4. rc.key \in Jobs /\ rc.obj.jobStatus \in Terminal
  BY <1>1, Busy, ViewType DEF View, ReconcilerOK, StepOK, AtTerminal
<1>5. CASE Requeue
  <2>1. rc' = Idle /\ queue' \in SUBSET Jobs
    BY <1>4, <1>5 DEF Requeue, View, ReconcilerOK, ReconcilerType
  <2>2. ReconcilerOK'
    BY <1>1, <1>3, <2>1, Ends
  <2> QED  BY <1>3, <2>2 DEF View
<1>6. CASE ~Requeue
  <2>1. PICK step \in {"ttl", "delete pod"} :
          GoTo(step) /\ (step = "delete pod" => rc.obj.podName # NoPod)
    BY <1>6 DEF HandleTerminalJob, PodPhase, GetFails
  <2>2. step \in Steps \ {"idle"} /\ rc'.pc = step /\ rc'.key = rc.key /\ rc'.obj = rc.obj
    BY <1>1, <2>1, GoToFields, ViewType DEF Steps
  <2>3. StepOK' /\ StepEvidence'
    BY <1>4, <2>1, <2>2 DEF StepOK, StepEvidence, AtPending, AtRunning, AtTerminal
  <2>4. ReconcilerOK'
    BY <1>1, <1>3, <2>1, <2>2, <2>3, GoesTo
  <2> QED  BY <1>3, <2>4 DEF View
<1> QED  BY <1>5, <1>6

LEMMA CreateMoves ==
  ASSUME View, CreateSimulatorPod
  PROVE  Moves /\ View'
<1> DEFINE k == rc.key
           n == rc.obj.retries
<1>1. /\ rc.pc = "create" /\ rc # Idle
      /\ UNCHANGED <<job, submitted, timedOut, expired, jobCache, podCache, failures, succeeded>>
      /\ Requeue \/ GoTo("name")
      /\ UNCHANGED faults \/ Fault("api")
      /\ pod' = pod \/ pod' = [pod EXCEPT ![k][n] = NewPod]
  BY DEF CreateSimulatorPod, CreatePod, clock, caches, history, Idle
<1>2. k \in Jobs /\ n \in Attempts /\ rc.obj.jobStatus = "pending"
  <2>1. k \in Jobs /\ rc.obj \in JobObject
    BY <1>1, Busy, ViewType
  <2>2. rc.obj.jobStatus = "pending"
    BY <1>1 DEF View, ReconcilerOK, StepOK, AtPending
  <2> QED  BY <2>1, <2>2, JobFields
<1>3. faults' \in Nat
  BY <1>1 DEF Fault, View, ClusterOK, ClusterType
<1>4. /\ pod' \in [Jobs -> [Attempts -> PodObject]]
      /\ \A j \in Jobs : \A m \in Attempts :
             pod'[j][m].phase \in {"Succeeded", "Failed"} => pod'[j][m].phase = pod[j][m].phase
  <2>1. pod \in [Jobs -> [Attempts -> PodObject]] /\ NewPod \in PodObject /\ NewPod.phase = "Pending"
    BY NewPodFields DEF View, ClusterOK, ClusterType
  <2> HIDE DEF k, n
  <2>2. pod' \in [Jobs -> [Attempts -> PodObject]]
        /\ \A j \in Jobs : \A m \in Attempts : pod'[j][m] = pod[j][m] \/ pod'[j][m] = NewPod
    BY <1>1, <1>2, <2>1
  <2> QED  BY <2>1, <2>2
<1>5. Moves /\ ClusterType' /\ ClusterOK'
  BY <1>1, <1>3, <1>4, PodsOnly
<1>6. CASE Requeue
  <2>1. rc' = Idle /\ queue' \in SUBSET Jobs
    BY <1>2, <1>6 DEF Requeue, View, ReconcilerOK, ReconcilerType
  <2>2. ReconcilerOK'
    BY <1>1, <1>5, <2>1, Ends
  <2> QED  BY <1>5, <2>2 DEF View
<1>7. CASE GoTo("name")
  <2>1. "name" \in Steps \ {"idle"}
    BY DEF Steps
  <2>2. rc'.pc = "name" /\ rc'.key = rc.key /\ rc'.obj = rc.obj
    BY <1>1, <1>7, <2>1, GoToFields, ViewType
  <2>3. StepOK' /\ StepEvidence'
    BY <1>2, <2>2 DEF StepOK, StepEvidence, AtPending, AtRunning, AtTerminal
  <2>4. ReconcilerOK'
    BY <1>1, <1>5, <1>7, <2>1, <2>3, GoesTo
  <2> QED  BY <1>5, <2>4 DEF View
<1> QED  BY <1>1, <1>6, <1>7

LEMMA DeleteMoves ==
  ASSUME View, DeleteFailedPod \/ DeleteTerminalPod
  PROVE  Moves /\ View'
<1> DEFINE k == rc.key
           n == rc.obj.podName
<1>1. /\ rc.pc \in {"delete failed", "delete pod"}
      /\ UNCHANGED <<job, submitted, timedOut, expired, jobCache, podCache, failures, succeeded>>
      /\ UNCHANGED faults \/ Fault("api")
      /\ DeletePod(k, n) \/ pod' = pod
  BY DEF DeleteFailedPod, DeleteTerminalPod, DeleteThen, clock, caches, history
<1>2. rc # Idle /\ k \in Jobs /\ n \in Attempts
  <2>1. rc # Idle /\ k \in Jobs /\ rc.obj \in JobObject
    BY <1>1, Busy, ViewType
  <2>2. n \in Attempts \cup {NoPod}
    BY <2>1, JobFields
  <2>3. n # NoPod
    BY <1>1 DEF View, ReconcilerOK, StepOK
  <2> QED  BY <2>1, <2>2, <2>3
<1>3. faults' \in Nat
  <2>1. UNCHANGED faults \/ Fault("api")
    BY <1>1
  <2> QED  BY <2>1 DEF Fault, View, ClusterOK, ClusterType
<1>4. /\ pod' \in [Jobs -> [Attempts -> PodObject]]
      /\ \A j \in Jobs : \A m \in Attempts :
             pod'[j][m].phase \in {"Succeeded", "Failed"} => pod'[j][m].phase = pod[j][m].phase
  <2>1. CASE pod' = pod
    BY <2>1 DEF View, ClusterOK, ClusterType
  <2>2. CASE DeletePod(k, n)
    <3> HIDE DEF k, n
    <3>1. /\ pod' \in [Jobs -> [Attempts -> PodObject]]
          /\ \A j \in Jobs : \A m \in Attempts :
                 pod'[j][m] = AbsentPod \/ pod'[j][m].phase = pod[j][m].phase
      BY <1>2, <2>2, DeletePodEffect, ViewType
    <3> QED  BY <3>1, NewPodFields
  <2> QED  BY <1>1, <2>1, <2>2
<1>5. Moves /\ ClusterType' /\ ClusterOK'
  BY <1>1, <1>3, <1>4, PodsOnly
<1>6. CASE Requeue
  <2>1. rc' = Idle /\ queue' \in SUBSET Jobs
    BY <1>2, <1>6 DEF Requeue, View, ReconcilerOK, ReconcilerType
  <2>2. ReconcilerOK'
    BY <1>1, <1>5, <2>1, Ends
  <2> QED  BY <1>5, <2>2 DEF View
<1>7. CASE ~Requeue
  <2>1. PICK step \in {"retry", "ttl"} :
          GoTo(step) /\ (step = "retry" <=> rc.pc = "delete failed")
    BY <1>1, <1>7 DEF DeleteFailedPod, DeleteTerminalPod, DeleteThen
  <2>2. step \in Steps \ {"idle"}
    BY <2>1 DEF Steps
  <2>3. rc'.pc = step /\ rc'.key = rc.key /\ rc'.obj = rc.obj
    BY <1>2, <2>1, <2>2, GoToFields, ViewType
  <2>4. StepOK /\ StepEvidence
    BY DEF View, ReconcilerOK
  <2>5. StepOK'
    BY <1>1, <2>1, <2>3, <2>4 DEF StepOK, AtPending, AtRunning, AtTerminal
  <2>6. StepEvidence'
    BY <1>1, <2>1, <2>3, <2>4 DEF StepEvidence
  <2>7. ReconcilerOK'
    BY <1>1, <1>2, <1>5, <2>1, <2>2, <2>5, <2>6, GoesTo
  <2> QED  BY <1>5, <2>7 DEF View
<1> QED  BY <1>6, <1>7

\* A resource is gone, and every copy of it with it.
LEMMA RemovalMoves ==
  ASSUME View, NEW k \in Jobs, job' = job \/ job' = [job EXCEPT ![k] = None],
         UNCHANGED <<pod, submitted, timedOut, expired, jobCache, failures, succeeded>>, faults' \in Nat
  PROVE  Moves /\ ClusterType' /\ ClusterOK'
<1>1. ClusterType' /\ \A j \in Jobs : job'[j] = job[j] \/ job'[j] = None
  BY DEF View, ClusterOK, ClusterType
<1>2. Moves
  BY <1>1, HistoryStays DEF Moves, Exists, View, ClusterOK, ClusterType
<1>3. \A j \in Jobs : \A n \in Attempts :
          /\ pod'[j][n].phase = "Failed" => failures'[j][n] > 0
          /\ pod'[j][n].phase = "Succeeded" => n \in succeeded'[j]
  BY DEF View, ClusterOK
<1>4. \A j \in Jobs : Exists(j)' => Exists(j) /\ job'[j] = job[j]
  BY <1>1 DEF Exists
<1> QED  BY <1>1, <1>2, <1>3, <1>4, ClusterMoves DEF View

LEMMA CheckTTLMoves ==
  ASSUME View, CheckTTL
  PROVE  Moves /\ View'
<1>1. /\ rc.pc = "ttl" /\ rc # Idle
      /\ job' = [job EXCEPT ![rc.key] = None] \/ job' = job
      /\ Done \/ Requeue
      /\ UNCHANGED faults \/ Fault("api")
      /\ UNCHANGED <<pod, submitted, timedOut, expired, jobCache, podCache, failures, succeeded>>
  BY DEF CheckTTL, AwaitTTL, clock, caches, history, Idle
<1>2. rc.key \in Jobs
  BY <1>1, Busy, ViewType
<1>3. rc' = Idle /\ queue' \in SUBSET Jobs
  BY <1>1, <1>2 DEF Done, Requeue, View, ReconcilerOK, ReconcilerType
<1>4. faults' \in Nat
  BY <1>1 DEF Fault, View, ClusterOK, ClusterType
<1>5. Moves /\ ClusterType' /\ ClusterOK'
  BY <1>1, <1>2, <1>4, RemovalMoves
<1> QED  BY <1>1, <1>3, <1>5, Ends DEF View

\* Every step of a reconcile is one the other reconciler can live with, and keeps
\* what this one knows.
LEMMA OperatorMoves ==
  ASSUME View, OperatorStep
  PROVE  Moves /\ View'
  BY UpdateMoves, HandlePendingMoves, HandleRunningMoves, HandleTerminalMoves, CreateMoves,
     DeleteMoves, CheckTTLMoves DEF OperatorStep, OperatorUpdate

-----------------------------------------------------------------------------
(* The steps of everybody else.                                            *)

\* The resource of job k is the same, or a simulator has patched its message.
MaybePatched(k) ==
    job' = job \/ (Exists(k) /\ \E message \in {"", "simulator"} : PatchError(k, message))

LEMMA PatchEffect ==
  ASSUME ClusterType, NEW k \in Jobs, MaybePatched(k)
  PROVE  /\ job' \in [Jobs -> JobObject \cup {None}]
         /\ \A j \in Jobs : Exists(j)' <=> Exists(j)
         /\ \A j \in Jobs : Exists(j) =>
                /\ job'[j] = job[j] \/ (job'[j].rv = job[j].rv + 1)
                /\ job'[j].jobStatus = job[j].jobStatus /\ job'[j].retries = job[j].retries
                /\ job'[j].podName = job[j].podName /\ job'[j].startTime = job[j].startTime
<1> SUFFICES ASSUME Exists(k), NEW message \in {"", "simulator"}, PatchError(k, message)
             PROVE  /\ job' \in [Jobs -> JobObject \cup {None}]
                    /\ \A j \in Jobs : Exists(j)' <=> Exists(j)
                    /\ \A j \in Jobs : Exists(j) =>
                         /\ job'[j] = job[j] \/ (job'[j].rv = job[j].rv + 1)
                         /\ job'[j].jobStatus = job[j].jobStatus /\ job'[j].retries = job[j].retries
                         /\ job'[j].podName = job[j].podName /\ job'[j].startTime = job[j].startTime
  BY DEF MaybePatched, ClusterType, Exists
<1> DEFINE o == WithError(job[k], message)
           p == AtVersion(o, job[k].rv + 1)
<1>1. job[k] \in JobObject
  BY DEF ClusterType, Exists
<1>2. /\ o \in JobObject /\ o.jobStatus = job[k].jobStatus /\ o.retries = job[k].retries
      /\ o.podName = job[k].podName /\ o.startTime = job[k].startTime
  BY <1>1, WithErrorFields, Zenon
<1>3. job[k].rv + 1 \in Nat
  <2>1. job[k].rv \in Nat
    BY <1>1, JobFields, Zenon
  <2> QED  BY <2>1, NextVersion, Zenon
<1>4. job' = [job EXCEPT ![k] = p]
  BY DEF PatchError
<1> HIDE DEF o
<1>5. /\ p \in JobObject /\ p.rv = job[k].rv + 1 /\ p.jobStatus = o.jobStatus
      /\ p.retries = o.retries /\ p.podName = o.podName /\ p.startTime = o.startTime
  BY <1>2, <1>3, AtVersionFields, Zenon
<1>6. p # None
  BY <1>5, JobFields
<1> HIDE DEF p
<1>7. job' \in [Jobs -> JobObject \cup {None}]
  BY <1>4, <1>5 DEF ClusterType
<1>8. job'[k] = p /\ \A j \in Jobs : j # k => job'[j] = job[j]
  BY <1>4 DEF ClusterType
<1> QED  BY <1>2, <1>5, <1>6, <1>7, <1>8 DEF Exists

\* A step of pod n of job k that keeps count of how the pod ends.
LEMMA PodMoves ==
  ASSUME View, NEW k \in Jobs, NEW n \in Attempts, NEW p \in PodObject, MaybePatched(k),
         pod' = [pod EXCEPT ![k][n] = p], HistoryGrows,
         failures' \in [Jobs -> [Attempts -> Nat]], succeeded' \in [Jobs -> SUBSET Attempts],
         p.phase = "Failed" => failures'[k][n] > 0,
         p.phase = "Succeeded" => n \in succeeded'[k],
         faults' \in Nat, UNCHANGED <<submitted, clock, jobCache>>
  PROVE  Moves /\ ClusterType' /\ ClusterOK'
<1>1. /\ job' \in [Jobs -> JobObject \cup {None}]
      /\ \A j \in Jobs : Exists(j)' <=> Exists(j)
      /\ \A j \in Jobs : Exists(j) =>
             /\ job'[j] = job[j] \/ (job'[j].rv = job[j].rv + 1)
             /\ job'[j].jobStatus = job[j].jobStatus /\ job'[j].retries = job[j].retries
             /\ job'[j].podName = job[j].podName /\ job'[j].startTime = job[j].startTime
  BY PatchEffect DEF View, ClusterOK
<1>2. /\ pod' \in [Jobs -> [Attempts -> PodObject]]
      /\ \A j \in Jobs : \A m \in Attempts :
             pod'[j][m] = pod[j][m] \/ (j = k /\ m = n /\ pod'[j][m] = p)
  BY DEF View, ClusterOK, ClusterType
<1>3. ClusterType'
  BY <1>1, <1>2 DEF View, ClusterOK, ClusterType, clock
<1>4. Moves
  <2> SUFFICES ASSUME NEW j \in submitted, Exists(j)'
               PROVE  /\ Exists(j)
                      /\ job'[j] = job[j] \/ job[j].rv < job'[j].rv
                      /\ job[j].jobStatus \in Terminal => job'[j].jobStatus = job[j].jobStatus
    BY DEF Moves
  <2>1. j \in Jobs
    BY DEF View, ClusterOK, ClusterType
  <2>2. Exists(j) /\ job[j] \in JobObject
    BY <1>1, <2>1 DEF View, ClusterOK, ClusterType, Exists
  <2>3. job[j].rv \in Nat
    BY <2>2, JobFields
  <2> QED  BY <1>1, <2>1, <2>2, <2>3
<1>5. ASSUME NEW j \in Jobs, Exists(j)'
      PROVE  j \in submitted' /\ WellFormed(job'[j]) /\ Justified(j, job[j])'
  <2>1. Exists(j) /\ CopyOf(j, job[j])
    BY <1>1, <1>5 DEF View, ClusterOK
  <2>2. job[j] \in JobObject /\ WellFormed(job[j]) /\ Justified(j, job[j]) /\ j \in submitted
    BY <2>1 DEF CopyOf
  <2>3. WellFormed(job'[j])
    BY <1>1, <2>1, <2>2 DEF WellFormed
  <2>4. Justified(j, job[j])'
    BY <1>1, <2>1, <2>2, JobFields DEF Justified, HistoryGrows
  <2> QED  BY <2>2, <2>3, <2>4
<1>6. \A j \in Jobs : \A m \in Attempts :
          /\ pod'[j][m].phase = "Failed" => failures'[j][m] > 0
          /\ pod'[j][m].phase = "Succeeded" => m \in succeeded'[j]
  BY <1>2 DEF View, ClusterOK, HistoryGrows
<1> QED  BY <1>3, <1>4, <1>5, <1>6, ClusterMoves DEF View

LEMMA PodStepMoves ==
  ASSUME View, NEW j \in Jobs, NEW n \in Attempts, PodStep(j, n)
  PROVE  Moves /\ View'
<1> DEFINE q == pod[j][n]
<1>1. /\ q \in PodObject /\ q.phase \in Phases \cup {"absent"}
      /\ failures \in [Jobs -> [Attempts -> Nat]] /\ succeeded \in [Jobs -> SUBSET Attempts]
      /\ faults \in Nat
  <2>1. q \in PodObject
    BY DEF View, ClusterOK, ClusterType
  <2>2. q.phase \in Phases \cup {"absent"}
    BY <2>1, Zenon DEF PodObject
  <2> QED  BY <2>1, <2>2 DEF View, ClusterOK, ClusterType
<1>2. /\ q.phase = "Failed" => failures[j][n] > 0
      /\ q.phase = "Succeeded" => n \in succeeded[j]
  BY DEF View, ClusterOK
<1>3. /\ Terminating(q) \in PodObject /\ Terminating(q).phase = q.phase
      /\ Running(q) \in PodObject /\ Running(q).phase = "Running"
      /\ Working(q, "reported") \in PodObject /\ Working(q, "reported").phase = q.phase
      /\ Working(q, "exiting") \in PodObject /\ Working(q, "exiting").phase = q.phase
      /\ Exited(q, "Succeeded") \in PodObject /\ Exited(q, "Succeeded").phase = "Succeeded"
      /\ Exited(q, "Failed") \in PodObject /\ Exited(q, "Failed").phase = "Failed"
      /\ AbsentPod \in PodObject /\ AbsentPod.phase = "absent"
  BY <1>1, PodFields, NewPodFields DEF SimSteps, Phases
<1>4. UNCHANGED <<submitted, clock, jobCache, podCache, queue, rc>> /\ MaybePatched(j)
  BY DEF PodStep, StartSimulator, ReportSuccess, ReportFailure, ExitSuccess, ExitFailure,
         KillPod, FailPod, Disrupt, CollectPod, ReapPod, OperatorUnchanged, MaybePatched, caches
<1>5. faults' \in Nat
  <2>1. UNCHANGED faults \/ Fault("disruption")
    BY DEF PodStep, StartSimulator, ReportSuccess, ReportFailure, ExitSuccess, ExitFailure,
           KillPod, FailPod, Disrupt, CollectPod, ReapPod
  <2> QED  BY <1>1, <2>1 DEF Fault
<1>6. \E p \in PodObject :
        /\ pod' = [pod EXCEPT ![j][n] = p] /\ HistoryGrows
        /\ failures' \in [Jobs -> [Attempts -> Nat]] /\ succeeded' \in [Jobs -> SUBSET Attempts]
        /\ p.phase = "Failed" => failures'[j][n] > 0
        /\ p.phase = "Succeeded" => n \in succeeded'[j]
  <2> DEFINE Result(p) ==
        /\ pod' = [pod EXCEPT ![j][n] = p] /\ HistoryGrows
        /\ failures' \in [Jobs -> [Attempts -> Nat]] /\ succeeded' \in [Jobs -> SUBSET Attempts]
        /\ p.phase = "Failed" => failures'[j][n] > 0
        /\ p.phase = "Succeeded" => n \in succeeded'[j]
  <2>s. ASSUME UNCHANGED history, NEW p \in PodObject, pod' = [pod EXCEPT ![j][n] = p],
               p.phase = q.phase \/ p.phase \in {"absent", "Running"}
        PROVE  Result(p)
    <3>1. HistoryGrows /\ failures' = failures /\ succeeded' = succeeded
      BY <1>4, <2>s, HistoryStays DEF clock, history
    <3> QED  BY <1>1, <1>2, <2>s, <3>1
  <2>1. CASE StartSimulator(j, n)
    <3>1. Result(Running(q))
      BY <1>3, <2>1, <2>s DEF StartSimulator
    <3> QED  BY <1>3, <3>1
  <2>2. CASE ReportSuccess(j, n)
    <3>1. Result(Working(q, "reported"))
      BY <1>3, <2>2, <2>s DEF ReportSuccess
    <3> QED  BY <1>3, <3>1
  <2>3. CASE ReportFailure(j, n)
    <3>1. Result(Working(q, "exiting"))
      BY <1>3, <2>3, <2>s DEF ReportFailure
    <3> QED  BY <1>3, <3>1
  <2>4. CASE ExitSuccess(j, n)
    <3>1. /\ pod' = [pod EXCEPT ![j][n] = Exited(q, "Succeeded")] /\ failures' = failures
          /\ succeeded' = [succeeded EXCEPT ![j] = @ \cup {n}] /\ timedOut' = timedOut
      BY <1>4, <2>4 DEF ExitSuccess, clock
    <3>2. /\ succeeded' \in [Jobs -> SUBSET Attempts] /\ n \in succeeded'[j]
          /\ \A i \in Jobs : succeeded[i] \subseteq succeeded'[i]
      BY <1>1, <3>1
    <3>3. HistoryGrows
      BY <3>1, <3>2 DEF HistoryGrows
    <3>4. Result(Exited(q, "Succeeded"))
      BY <1>1, <1>3, <3>1, <3>2, <3>3
    <3> QED  BY <1>3, <3>4
  <2>5. CASE ExitFailure(j, n) \/ KillPod(j, n)
    <3>1. /\ pod' = [pod EXCEPT ![j][n] = Exited(q, "Failed")] /\ succeeded' = succeeded
          /\ failures' = [failures EXCEPT ![j][n] = @ + 1] /\ timedOut' = timedOut
      BY <1>4, <2>5 DEF ExitFailure, KillPod, FailPod, clock
    <3>2. /\ failures' \in [Jobs -> [Attempts -> Nat]] /\ failures'[j][n] > 0
          /\ \A i \in Jobs : \A m \in Attempts : failures[i][m] > 0 => failures'[i][m] > 0
      BY <1>1, <3>1
    <3>3. HistoryGrows
      BY <3>1, <3>2 DEF HistoryGrows
    <3>4. Result(Exited(q, "Failed"))
      BY <1>1, <1>3, <3>1, <3>2, <3>3
    <3> QED  BY <1>3, <3>4
  <2>6. CASE Disrupt(j, n) \/ CollectPod(j, n)
    <3>1. DeletePod(j, n) /\ UNCHANGED history
      BY <2>6 DEF Disrupt, CollectPod
    <3>2. q.phase \in {"Pending", "Running", "Succeeded", "Failed"}
      BY <1>1, <2>6 DEF Disrupt, CollectPod, Phases
    <3>3. pod' = [pod EXCEPT ![j][n] = AbsentPod] \/ pod' = [pod EXCEPT ![j][n] = Terminating(q)]
      BY <3>1, <3>2 DEF DeletePod
    <3>4. Result(AbsentPod) \/ Result(Terminating(q))
      BY <1>3, <2>s, <3>1, <3>3
    <3> QED  BY <1>3, <3>4
  <2>7. CASE ReapPod(j, n)
    <3>1. Result(AbsentPod)
      BY <1>3, <2>7, <2>s DEF ReapPod
    <3> QED  BY <1>3, <3>1
  <2> QED  BY <2>1, <2>2, <2>3, <2>4, <2>5, <2>6, <2>7 DEF PodStep
<1>7. Moves /\ ClusterType' /\ ClusterOK'
  BY <1>4, <1>5, <1>6, PodMoves
<1> QED  BY <1>4, <1>7, ReconcilerStays DEF View

LEMMA ReconcileMoves ==
  ASSUME View, NEW j \in Jobs, Reconcile(j)
  PROVE  Moves /\ View'
<1>1. /\ queue' = queue \ {j}
      /\ UNCHANGED <<job, pod, submitted, timedOut, expired, jobCache, podCache, faults, failures, succeeded>>
  BY DEF Reconcile, cluster, clock, caches, history
<1>2. faults' \in Nat /\ queue' \in SUBSET Jobs
  BY <1>1 DEF View, ClusterOK, ClusterType, ReconcilerOK, ReconcilerType
<1>3. Moves /\ ClusterType' /\ ClusterOK'
  BY <1>1, <1>2, ReadsMove
<1>4. CASE jobCache[j] = None
  <2>1. rc' = Idle
    BY <1>4 DEF Reconcile
  <2> QED  BY <1>1, <1>2, <1>3, <2>1, Ends DEF View
<1>5. CASE jobCache[j] # None
  <2> DEFINE o == jobCache[j]
  <2>1. CopyOf(j, o)
    BY <1>5 DEF View, ClusterOK
  <2>2. /\ o \in JobObject
        /\ o.jobStatus \in {"", "pending", "in progress", "completed", "failed"}
    BY <2>1, JobFields DEF CopyOf
  <2>3. Handler(j, o) \in {"timeout", "new", "pending", "running", "terminal"}
    BY DEF Handler
  <2>4. rc' = [pc |-> Handler(j, o), key |-> j, obj |-> o]
    BY <1>5 DEF Reconcile
  <2>5. rc'.pc = Handler(j, o) /\ rc'.key = j /\ rc'.obj = o /\ rc' # Idle
    BY <2>3, <2>4 DEF Idle
  <2>6. ReconcilerType' /\ CachedPhases'
    <3>1. rc' \in [pc : Steps \ {"idle"}, key : Jobs, obj : JobObject]
      BY <2>2, <2>3, <2>4 DEF Steps
    <3> QED  BY <1>1, <1>2, <3>1 DEF View, ReconcilerOK, ReconcilerType, CachedPhases
  <2>7. StepOK'
    <3>1. Handler(j, o) = "timeout" => TimeOutExceeded(j, o)
      BY DEF Handler
    <3>2. Handler(j, o) = "new" => o.jobStatus = ""
      BY DEF Handler
    <3>3. Handler(j, o) = "pending" => o.jobStatus = "pending"
      BY DEF Handler
    <3>4. Handler(j, o) = "running" => o.jobStatus = "in progress"
      BY DEF Handler
    <3>5. Handler(j, o) = "terminal" => o.jobStatus \in Terminal
      BY <2>2 DEF Handler, TimeOutExceeded, Terminal
    <3>6. timedOut' = timedOut
      BY <1>1
    <3> QED  BY <2>3, <2>5, <3>1, <3>2, <3>3, <3>4, <3>5, <3>6
             DEF StepOK, TimeOutExceeded, AtPending, AtRunning, AtTerminal
  <2>8. StepEvidence'
    BY <2>3, <2>5 DEF StepEvidence
  <2>9. CopyOf(rc.key, rc.obj)'
    <3>1. PICK p : p = o
      OBVIOUS
    <3>2. CopyOf(j, p)'
      BY <1>3, <2>1, <3>1, CopyStays DEF View
    <3> QED  BY <2>5, <3>1, <3>2 DEF CopyOf, NotNewer, WellFormed, Justified, Exists
  <2> QED  BY <1>3, <2>6, <2>7, <2>8, <2>9 DEF View, ReconcilerOK
<1> QED  BY <1>4, <1>5

LEMMA SubmitMoves ==
  ASSUME View, NEW k \in Jobs, Submit(k)
  PROVE  Moves /\ View'
<1>1. /\ submitted' = submitted \cup {k} /\ job' = [job EXCEPT ![k] = NewJob]
      /\ UNCHANGED <<pod, timedOut, expired, jobCache, podCache, queue, rc, faults, failures, succeeded>>
      /\ k \notin submitted
  BY DEF Submit, clock, caches, history
<1>2. ClusterType' /\ job'[k] = NewJob /\ \A j \in Jobs : j # k => job'[j] = job[j]
  BY <1>1, NewJobFields DEF View, ClusterOK, ClusterType
<1>3. Moves
  BY <1>1, <1>2, HistoryStays DEF Moves, Exists, View, ClusterOK, ClusterType
<1>4. \A j \in Jobs : Exists(j)' =>
          \/ Exists(j) /\ job'[j] = job[j]
          \/ j \in submitted' /\ WellFormed(job'[j]) /\ Justified(j, job[j])'
  <2>1. \A n \in Attempts : ~(n < 0)
    BY BoundsAssumption DEF Attempts
  <2>2. WellFormed(job'[k]) /\ Justified(k, job[k])'
    BY <1>2, <2>1, NewJobFields DEF WellFormed, Justified
  <2> QED  BY <1>1, <1>2, <2>2 DEF Exists
<1>5. \A j \in Jobs : \A m \in Attempts :
          /\ pod'[j][m].phase = "Failed" => failures'[j][m] > 0
          /\ pod'[j][m].phase = "Succeeded" => m \in succeeded'[j]
  BY <1>1 DEF View, ClusterOK
<1>6. ClusterOK'
  BY <1>1, <1>2, <1>3, <1>4, <1>5, ClusterMoves DEF View
<1> QED  BY <1>1, <1>2, <1>3, <1>6, ReconcilerStays DEF View

LEMMA ClockMoves ==
  ASSUME View, timedOut \subseteq timedOut', timedOut' \subseteq Jobs, expired' \subseteq Jobs,
         UNCHANGED <<cluster, submitted, caches, queue, rc, faults, history>>
  PROVE  Moves /\ View'
<1>1. UNCHANGED <<job, pod, submitted, jobCache, podCache, faults, failures, succeeded>>
  BY DEF cluster, caches, history
<1>2. ClusterType'
  BY <1>1 DEF View, ClusterOK, ClusterType
<1>3. HistoryGrows
  BY <1>1 DEF HistoryGrows
<1>4. \A j \in Jobs : \A m \in Attempts :
          /\ pod'[j][m].phase = "Failed" => failures'[j][m] > 0
          /\ pod'[j][m].phase = "Succeeded" => m \in succeeded'[j]
  BY <1>1 DEF View, ClusterOK
<1>5. Moves /\ ClusterOK'
  BY <1>1, <1>2, <1>3, <1>4, QuietMoves DEF View
<1> QED  BY <1>1, <1>2, <1>5, ReconcilerStays DEF View

\* The caches catch up with the API server, each entry or not; a reconcile may be
\* cut short.
LEMMA RefreshMoves ==
  ASSUME View, jobCache' \in [Jobs -> JobObject \cup {None}],
         \A j \in Jobs : jobCache'[j] = jobCache[j] \/ jobCache'[j] = job[j],
         podCache' \in [Jobs -> [Attempts -> Phases \cup {"absent"}]],
         \A j \in Jobs : \A n \in Attempts :
             podCache'[j][n] = podCache[j][n] \/ podCache'[j][n] = pod[j][n].phase,
         rc' = rc \/ rc' = Idle, queue' \in SUBSET Jobs, faults' \in Nat,
         UNCHANGED <<cluster, submitted, clock, history>>
  PROVE  Moves /\ View'
<1>1. UNCHANGED <<job, pod, submitted, timedOut, expired, failures, succeeded>>
  BY DEF cluster, clock, history
<1>2. ClusterType'
  BY <1>1 DEF View, ClusterOK, ClusterType
<1>3. \A j \in Jobs : \A n \in Attempts :
          /\ pod'[j][n].phase = "Failed" => failures'[j][n] > 0
          /\ pod'[j][n].phase = "Succeeded" => n \in succeeded'[j]
  BY <1>1 DEF View, ClusterOK
<1>4. Moves /\ ClusterOK'
  BY <1>1, <1>2, <1>3, HistoryStays, QuietMoves DEF View
<1>5. CachedPhases'
  BY <1>1 DEF View, ClusterOK, ReconcilerOK, CachedPhases
<1>6. ReconcilerOK'
  <2>1. CASE rc' = Idle
    BY <1>5, <2>1 DEF ReconcilerOK, ReconcilerType, StepOK, StepEvidence, Idle,
                      AtPending, AtRunning, AtTerminal
  <2>2. CASE rc' = rc
    <3>1. ReconcilerType'
      BY <2>2 DEF View, ReconcilerOK, ReconcilerType
    <3>2. StepOK' /\ StepEvidence'
      BY <1>1, <2>2 DEF View, ReconcilerOK, StepOK, StepEvidence
    <3>3. rc # Idle => CopyOf(rc.key, rc.obj)'
      BY <1>2, <1>4, <2>2, CopyStays, Busy, ViewType DEF View, ReconcilerOK
    <3> QED  BY <1>5, <2>2, <3>1, <3>2, <3>3 DEF ReconcilerOK
  <2> QED  BY <2>1, <2>2
<1> QED  BY <1>4, <1>6 DEF View

LEMMA PhasesOfPods ==
  ASSUME TypeOK
  PROVE  \A j \in Jobs : \A n \in Attempts : pod[j][n].phase \in Phases \cup {"absent"}
<1> TAKE j \in Jobs
<1> TAKE n \in Attempts
<1>1. pod[j][n] \in PodObject
  BY DEF TypeOK
<1> QED  BY <1>1, Zenon DEF PodObject

LEMMA CrashMoves ==
  ASSUME View, CrashRestart
  PROVE  Moves /\ View'
<1>1. faults' \in Nat /\ queue' \in SUBSET Jobs
  BY DEF CrashRestart, Fault, View, ClusterOK, ClusterType
<1>2. /\ jobCache' \in [Jobs -> JobObject \cup {None}]
      /\ \A j \in Jobs : jobCache'[j] = jobCache[j] \/ jobCache'[j] = job[j]
  BY DEF CrashRestart, View, ClusterOK, ClusterType
<1>3. /\ podCache' \in [Jobs -> [Attempts -> Phases \cup {"absent"}]]
      /\ \A j \in Jobs : \A n \in Attempts :
             podCache'[j][n] = podCache[j][n] \/ podCache'[j][n] = pod[j][n].phase
  BY PhasesOfPods, ViewType DEF CrashRestart
<1>4. rc' = Idle /\ UNCHANGED <<cluster, submitted, clock, history>>
  BY DEF CrashRestart
<1> QED  BY <1>1, <1>2, <1>3, <1>4, RefreshMoves

LEMMA SyncMoves ==
  ASSUME View, NEW k \in Jobs, SyncJob(k) \/ SyncPods(k)
  PROVE  Moves /\ View'
<1>1. faults' \in Nat /\ queue' \in SUBSET Jobs
  BY ViewType DEF SyncJob, SyncPods, TypeOK
<1>2. /\ jobCache' \in [Jobs -> JobObject \cup {None}]
      /\ \A j \in Jobs : jobCache'[j] = jobCache[j] \/ jobCache'[j] = job[j]
  BY ViewType DEF SyncJob, SyncPods, TypeOK
<1>3. /\ podCache' \in [Jobs -> [Attempts -> Phases \cup {"absent"}]]
      /\ \A j \in Jobs : \A n \in Attempts :
             podCache'[j][n] = podCache[j][n] \/ podCache'[j][n] = pod[j][n].phase
  <2>1. CASE podCache' = podCache
    BY <2>1, ViewType DEF TypeOK
  <2>2. CASE podCache' = [podCache EXCEPT ![k] = [n \in Attempts |-> pod[k][n].phase]]
    <3>1. [n \in Attempts |-> pod[k][n].phase] \in [Attempts -> Phases \cup {"absent"}]
      BY PhasesOfPods, ViewType
    <3> QED  BY <2>2, <3>1, ViewType DEF TypeOK
  <2> QED  BY <2>1, <2>2 DEF SyncJob, SyncPods
<1>4. rc' = rc /\ UNCHANGED <<cluster, submitted, clock, history>>
  BY DEF SyncJob, SyncPods
<1> QED  BY <1>1, <1>2, <1>3, <1>4, RefreshMoves

LEMMA JobStepMoves ==
  ASSUME View, NEW j \in Jobs, JobStep(j)
  PROVE  Moves /\ View'
<1>1. CASE UserDelete(j)
  <2>1. /\ job' = [job EXCEPT ![j] = None] /\ faults' = faults
        /\ UNCHANGED <<pod, submitted, timedOut, expired, jobCache, podCache, queue, rc, failures, succeeded>>
    BY <1>1 DEF UserDelete, OperatorUnchanged, clock, caches, history
  <2>2. faults' \in Nat
    BY <2>1 DEF View, ClusterOK, ClusterType
  <2>3. Moves /\ ClusterType' /\ ClusterOK'
    BY <2>1, <2>2, RemovalMoves
  <2> QED  BY <2>1, <2>3, ReconcilerStays DEF View
<1>2. CASE PassTimeOut(j) \/ PassTTL(j)
  <2>1. /\ timedOut \subseteq timedOut' /\ timedOut' \subseteq Jobs /\ expired' \subseteq Jobs
        /\ UNCHANGED <<cluster, submitted, caches, queue, rc, faults, history>>
    BY <1>2, ViewType DEF PassTimeOut, PassTTL, TypeOK
  <2> QED  BY <2>1, ClockMoves
<1> QED  BY <1>1, <1>2, SubmitMoves, SyncMoves DEF JobStep

LEMMA StutterMoves ==
  ASSUME View, UNCHANGED vars
  PROVE  Moves /\ View'
<1>1. /\ UNCHANGED <<cluster, submitted, caches, queue, rc, faults, history>>
      /\ UNCHANGED <<timedOut, expired>>
  BY DEF vars, clock
<1>2. timedOut' \subseteq Jobs /\ expired' \subseteq Jobs
  BY <1>1 DEF View, ClusterOK, ClusterType
<1> QED  BY <1>1, <1>2, ClockMoves

LEMMA ViewInit == Init => View
<1> SUFFICES ASSUME Init  PROVE View
  OBVIOUS
<1> USE DEF Init
<1>1. ClusterOK
  BY NewPodFields DEF ClusterOK, ClusterType, Exists, AbsentPod
<1>2. ReconcilerType /\ CachedPhases
  BY DEF ReconcilerType, CachedPhases
<1> QED  BY <1>1, <1>2, IdleKnowsNothing DEF View

-----------------------------------------------------------------------------
(* What a step may never do, and what JobLifecycle sees of it.             *)

\* What may happen to the resources in one step: nothing a reader of the status
\* sees; a legal update of an active job; a new resource; the end of one.
Unseen == /\ \A j \in Jobs : Exists(j)' <=> Exists(j)
          /\ \A j \in Jobs : Exists(j) =>
                 job'[j].jobStatus = job[j].jobStatus /\ job'[j].retries = job[j].retries
                 /\ job'[j].podName = job[j].podName
          /\ submitted' = submitted

Removal(k) ==
    /\ Exists(k) /\ job' = [job EXCEPT ![k] = None]
    /\ job[k].jobStatus \in Terminal \/ UserMayDelete
    /\ UNCHANGED <<submitted, history>>

Kinds == \/ Unseen
         \/ OperatorUpdate
         \/ \E k \in Jobs : Submit(k) \/ Removal(k)

LEMMA SameJobs ==
  ASSUME UNCHANGED <<job, submitted>>
  PROVE  Unseen
  BY DEF Unseen, Exists

LEMMA KindsOfSteps ==
  ASSUME View, [Next]_vars
  PROVE  Kinds
<1>1. CASE OperatorStep
  <2>1. CASE CheckTTL
    <3>1. rc.pc = "ttl" /\ rc # Idle /\ rc.key \in Jobs /\ UNCHANGED <<submitted, history>>
          /\ (job' = job \/ job' = [job EXCEPT ![rc.key] = None])
      BY <2>1, Busy, ViewType DEF CheckTTL, Idle
    <3>2. CASE job' = job \/ ~Exists(rc.key)
      <4>1. job' = job
        BY <3>1, <3>2, ViewType DEF Exists, TypeOK
      <4> QED  BY <3>1, <4>1, SameJobs DEF Kinds
    <3>3. CASE job' # job /\ Exists(rc.key)
      <4>1. job[rc.key].jobStatus \in Terminal
        BY <3>1, <3>3 DEF View, ReconcilerOK, StepOK, CopyOf, AtTerminal
      <4> QED  BY <3>1, <3>3, <4>1 DEF Kinds, Removal
    <3> QED  BY <3>2, <3>3
  <2>2. CASE HandlePendingJob \/ CreateSimulatorPod \/ HandleRunningJob \/ DeleteFailedPod
             \/ HandleTerminalJob \/ DeleteTerminalPod
    BY <2>2, SameJobs
       DEF Kinds, HandlePendingJob, CreateSimulatorPod, HandleRunningJob, DeleteFailedPod,
           HandleTerminalJob, DeleteTerminalPod, DeleteThen, cluster
  <2> QED  BY <1>1, <2>1, <2>2 DEF OperatorStep, OperatorUpdate, Kinds
<1>2. CASE CrashRestart
  BY <1>2, SameJobs DEF CrashRestart, cluster, Kinds
<1>3. ASSUME NEW j \in Jobs, Reconcile(j)
      PROVE  Kinds
  BY <1>3, SameJobs DEF Reconcile, cluster, Kinds
<1>4. ASSUME NEW j \in Jobs, JobStep(j)
      PROVE  Kinds
  <2>1. CASE Submit(j)
    BY <2>1 DEF Kinds
  <2>2. CASE UserDelete(j)
    BY <2>2 DEF Kinds, UserDelete, Removal, OperatorUnchanged
  <2>3. CASE PassTimeOut(j) \/ PassTTL(j) \/ SyncJob(j) \/ SyncPods(j)
    BY <2>3, SameJobs DEF PassTimeOut, PassTTL, SyncJob, SyncPods, cluster, Kinds
  <2> QED  BY <1>4, <2>1, <2>2, <2>3 DEF JobStep
<1>5. ASSUME NEW j \in Jobs, NEW n \in Attempts, PodStep(j, n)
      PROVE  Kinds
  <2>1. MaybePatched(j) /\ submitted' = submitted
    BY <1>5 DEF PodStep, StartSimulator, ReportSuccess, ReportFailure, ExitSuccess, ExitFailure,
                KillPod, FailPod, Disrupt, CollectPod, ReapPod, OperatorUnchanged, MaybePatched
  <2> QED  BY <2>1, PatchEffect DEF Kinds, Unseen, View, ClusterOK
<1>6. CASE UNCHANGED vars
  BY <1>6, SameJobs DEF vars, cluster, Kinds
<1> QED  BY <1>1, <1>2, <1>3, <1>4, <1>5, <1>6 DEF Next

LEMMA SubmittedOnce ==
  ASSUME View, NEW j \in Jobs, Exists(j)
  PROVE  j \in submitted
  BY DEF View, ClusterOK, CopyOf

\* A finished job keeps its verdict, its attempt and its pod in this step.
VerdictKept ==
    \A j \in Jobs : Exists(j) /\ job[j].jobStatus \in Terminal /\ Exists(j)' =>
        /\ job'[j].jobStatus = job[j].jobStatus
        /\ job'[j].retries = job[j].retries
        /\ job'[j].podName = job[j].podName

LEMMA VerdictStep ==
  ASSUME View, [Next]_vars
  PROVE  VerdictKept
<1> SUFFICES ASSUME NEW j \in Jobs, Exists(j), job[j].jobStatus \in Terminal, Exists(j)'
             PROVE  /\ job'[j].jobStatus = job[j].jobStatus
                    /\ job'[j].retries = job[j].retries
                    /\ job'[j].podName = job[j].podName
  BY DEF VerdictKept
<1>1. CASE Unseen
  BY <1>1 DEF Unseen
<1>2. CASE OperatorUpdate
  <2>1. PICK new : rc # Idle /\ Legal(new) /\ StatusUpdate(new)
    BY <1>2, UpdatesAreLegal
  <2>2. job' # job => j # rc.key /\ rc.key \in Jobs /\ job'[j] = job[j]
    BY <2>1, UpdateEffect DEF View, ClusterOK, ClusterType
  <2> QED  BY <2>2
<1>3. ASSUME NEW k \in Jobs, Submit(k) \/ Removal(k)
      PROVE  job'[j] = job[j]
  <2>1. CASE Submit(k)
    <3>1. j # k
      BY <2>1, SubmittedOnce DEF Submit
    <3> QED  BY <2>1, <3>1 DEF Submit, View, ClusterOK, ClusterType
  <2>2. CASE Removal(k)
    BY <2>2 DEF Removal, View, ClusterOK, ClusterType, Exists
  <2> QED  BY <1>3, <2>1, <2>2
<1> QED  BY <1>1, <1>2, <1>3, KindsOfSteps DEF Kinds

LEMMA BarsDomain ==
  /\ PhaseOf = [j \in Jobs |-> PhaseOf[j]] /\ AttemptOf = [j \in Jobs |-> AttemptOf[j]]
  /\ \A j \in Jobs : Exists(j) => PhaseOf[j] = job[j].jobStatus /\ AttemptOf[j] = job[j].retries
  /\ \A j \in Jobs : ~Exists(j) =>
         /\ PhaseOf[j] = (IF j \in submitted THEN "deleted" ELSE "absent")
         /\ AttemptOf[j] = 0
  /\ \A j \in Jobs : \A n \in Attempts : n \in FailedOf[j] <=> failures[j][n] > 0
  BY DEF PhaseOf, AttemptOf, FailedOf

LEMMA BarsDomainNext ==
  /\ PhaseOf' = [j \in Jobs |-> PhaseOf'[j]] /\ AttemptOf' = [j \in Jobs |-> AttemptOf'[j]]
  /\ \A j \in Jobs : Exists(j)' => PhaseOf'[j] = job'[j].jobStatus /\ AttemptOf'[j] = job'[j].retries
  /\ \A j \in Jobs : ~Exists(j)' =>
         /\ PhaseOf'[j] = (IF j \in submitted' THEN "deleted" ELSE "absent")
         /\ AttemptOf'[j] = 0
  BY DEF PhaseOf, AttemptOf

LEMMA SameFunction ==
  ASSUME NEW S, NEW f, NEW g, f = [x \in S |-> f[x]], g = [x \in S |-> g[x]],
         \A x \in S : g[x] = f[x]
  PROVE  g = f
  OBVIOUS

LEMMA OneValueMoved ==
  ASSUME NEW S, NEW f, NEW g, f = [x \in S |-> f[x]], g = [x \in S |-> g[x]],
         NEW k \in S, \A x \in S : x # k => g[x] = f[x]
  PROVE  g = [f EXCEPT ![k] = g[k]]
<1> DEFINE h == [f EXCEPT ![k] = g[k]]
<1>1. h = [x \in S |-> h[x]] /\ \A x \in S : h[x] = g[x]
  OBVIOUS
<1> HIDE DEF h
<1>2. h = g
  BY <1>1, SameFunction
<1> QED  BY <1>2 DEF h

\* The history only changes when a pod exits, and FailedOf only with it.
LEMMA HistoryKinds ==
  ASSUME [Next]_vars
  PROVE  \/ UNCHANGED history
         \/ \E j \in Jobs : \E n \in Attempts : ExitSuccess(j, n) \/ FailPod(j, n)
<1>1. CASE OperatorStep
  BY <1>1 DEF OperatorStep, UpdateTimedOut, HandleNewJob, HandlePendingJob, CreateSimulatorPod,
              UpdatePodName, UpdateProgress, HandleRunningJob, UpdateLost, DeleteFailedPod,
              UpdateRetry, UpdateExhausted, UpdateCompleted, HandleTerminalJob,
              DeleteTerminalPod, CheckTTL, StatusUpdate, DeleteThen
<1>2. CASE CrashRestart
  BY <1>2 DEF CrashRestart
<1>3. ASSUME NEW j \in Jobs, Reconcile(j) \/ JobStep(j)
      PROVE  UNCHANGED history
  BY <1>3 DEF Reconcile, JobStep, Submit, UserDelete, PassTimeOut, PassTTL, SyncJob, SyncPods
<1>4. ASSUME NEW j \in Jobs, NEW n \in Attempts, PodStep(j, n)
      PROVE  UNCHANGED history \/ ExitSuccess(j, n) \/ FailPod(j, n)
  BY <1>4 DEF PodStep, StartSimulator, ReportSuccess, ReportFailure, ExitFailure, KillPod,
              Disrupt, CollectPod, ReapPod
<1>5. CASE UNCHANGED vars
  BY <1>5 DEF vars
<1> QED  BY <1>1, <1>2, <1>3, <1>4, <1>5 DEF Next

LEMMA UnseenStutters ==
  ASSUME Unseen
  PROVE  PhaseOf' = PhaseOf /\ AttemptOf' = AttemptOf
<1>1. \A j \in Jobs : PhaseOf'[j] = PhaseOf[j] /\ AttemptOf'[j] = AttemptOf[j]
  BY BarsDomain, BarsDomainNext DEF Unseen
<1> QED  BY <1>1, BarsDomain, BarsDomainNext, SameFunction

\* A new version of the resource of one job, as JobLifecycle sees it.
LEMMA OneJobMoves ==
  ASSUME NEW k \in Jobs, \A j \in Jobs : j # k => job'[j] = job[j],
         \A j \in Jobs : j # k => (j \in submitted' <=> j \in submitted)
  PROVE  /\ PhaseOf' = [PhaseOf EXCEPT ![k] = PhaseOf'[k]]
         /\ AttemptOf' = [AttemptOf EXCEPT ![k] = AttemptOf'[k]]
         /\ AttemptOf'[k] = AttemptOf[k] => AttemptOf' = AttemptOf
<1>1. \A j \in Jobs : j # k => PhaseOf'[j] = PhaseOf[j] /\ AttemptOf'[j] = AttemptOf[j]
  BY BarsDomain, BarsDomainNext DEF Exists
<1>2. /\ PhaseOf' = [PhaseOf EXCEPT ![k] = PhaseOf'[k]]
      /\ AttemptOf' = [AttemptOf EXCEPT ![k] = AttemptOf'[k]]
  BY <1>1, BarsDomain, BarsDomainNext, OneValueMoved
<1>3. ASSUME AttemptOf'[k] = AttemptOf[k]
      PROVE  AttemptOf' = AttemptOf
  <2>1. \A j \in Jobs : AttemptOf'[j] = AttemptOf[j]
    BY <1>1, <1>3
  <2> QED  BY <2>1, BarsDomain, BarsDomainNext, SameFunction
<1> QED  BY <1>2, <1>3

LEMMA SameHistory ==
  ASSUME UNCHANGED history
  PROVE  FailedOf' = FailedOf /\ succeeded' = succeeded
  BY DEF history, FailedOf

\* What JobLifecycle sees of an accepted update.
LEMMA Written ==
  ASSUME View, rc # Idle, NEW new \in JobObject, StatusUpdate(new), job' # job
  PROVE  /\ rc.key \in Jobs
         /\ PhaseOf[rc.key] = rc.obj.jobStatus /\ AttemptOf[rc.key] = rc.obj.retries
         /\ PhaseOf' = [PhaseOf EXCEPT ![rc.key] = new.jobStatus]
         /\ AttemptOf' = [AttemptOf EXCEPT ![rc.key] = new.retries]
         /\ new.retries = rc.obj.retries => AttemptOf' = AttemptOf
         /\ new.jobStatus = rc.obj.jobStatus => PhaseOf' = PhaseOf
         /\ FailedOf' = FailedOf /\ succeeded' = succeeded
<1> DEFINE k == rc.key
<1>1. /\ k \in Jobs /\ rc.obj \in JobObject /\ Exists(k) /\ job[k] = rc.obj
      /\ job' = [job EXCEPT ![k] = AtVersion(new, rc.obj.rv + 1)]
  BY AcceptedFromCurrent, Busy, ViewType
<1>2. PICK p \in JobObject :
          /\ job' = [job EXCEPT ![k] = p] /\ p # None
          /\ p.jobStatus = new.jobStatus /\ p.retries = new.retries
  <2>1. rc.obj.rv + 1 \in Nat
    BY <1>1, JobFields, NextVersion, Zenon
  <2>2. PICK p : p = AtVersion(new, rc.obj.rv + 1)
    OBVIOUS
  <2>3. p \in JobObject /\ p.jobStatus = new.jobStatus /\ p.retries = new.retries
    BY <2>1, <2>2, AtVersionFields, Zenon
  <2>4. p # None
    BY <2>3, JobFields, Zenon
  <2> QED  BY <1>1, <2>2, <2>3, <2>4
<1>3. job'[k] = p /\ \A j \in Jobs : j # k => job'[j] = job[j]
  BY <1>1, <1>2 DEF View, ClusterOK, ClusterType
<1>4. submitted' = submitted /\ UNCHANGED history
  BY DEF StatusUpdate
<1>5. PhaseOf'[k] = new.jobStatus /\ AttemptOf'[k] = new.retries
  BY <1>1, <1>2, <1>3, BarsDomainNext DEF Exists
<1>6. PhaseOf[k] = rc.obj.jobStatus /\ AttemptOf[k] = rc.obj.retries
  BY <1>1, BarsDomain
<1> HIDE DEF k
<1>7. /\ PhaseOf' = [PhaseOf EXCEPT ![k] = new.jobStatus]
      /\ AttemptOf' = [AttemptOf EXCEPT ![k] = new.retries]
      /\ AttemptOf'[k] = AttemptOf[k] => AttemptOf' = AttemptOf
  BY <1>1, <1>3, <1>4, <1>5, OneJobMoves
<1>8. new.jobStatus = rc.obj.jobStatus => PhaseOf' = PhaseOf
  <2>1. new.jobStatus = rc.obj.jobStatus => \A j \in Jobs : PhaseOf'[j] = PhaseOf[j]
    BY <1>5, <1>6, <1>7, BarsDomain
  <2> QED  BY <2>1, BarsDomain, BarsDomainNext, SameFunction
<1> QED  BY <1>1, <1>4, <1>5, <1>6, <1>7, <1>8, SameHistory DEF k

\* Every update of the status is a step of JobLifecycle.
LEMMA UpdateRefines ==
  ASSUME View, OperatorUpdate, job' # job
  PROVE  Lifecycle!Next \/ UNCHANGED Lifecycle!vars
<1> DEFINE k == rc.key
           o == rc.obj
<1>1. /\ rc # Idle /\ k \in Jobs /\ o \in JobObject /\ WellFormed(o)
      /\ o.retries \in Nat /\ o.retries \in Attempts
      /\ o.jobStatus \in {"", "pending", "in progress", "completed", "failed"}
  <2>1. rc # Idle
    BY UpdatesAreLegal
  <2> QED  BY <2>1, Busy, JobFields, ViewType DEF View, ReconcilerOK, CopyOf
<1>2. /\ Lifecycle!Terminal = Terminal /\ Lifecycle!Active = {"pending", "in progress"}
  BY DEF Terminal, Lifecycle!Terminal, Lifecycle!Active
<1>u. ASSUME NEW new \in JobObject, StatusUpdate(new)
      PROVE  /\ PhaseOf[k] = o.jobStatus /\ AttemptOf[k] = o.retries
             /\ PhaseOf' = [PhaseOf EXCEPT ![k] = new.jobStatus]
             /\ AttemptOf' = [AttemptOf EXCEPT ![k] = new.retries]
             /\ new.retries = o.retries => AttemptOf' = AttemptOf
             /\ new.jobStatus = o.jobStatus => PhaseOf' = PhaseOf
             /\ FailedOf' = FailedOf /\ succeeded' = succeeded
  BY <1>1, <1>u, Written
<1> DEFINE moved(p, q) == PhaseOf[k] = p /\ PhaseOf' = [PhaseOf EXCEPT ![k] = q]
                          /\ AttemptOf' = AttemptOf /\ FailedOf' = FailedOf /\ succeeded' = succeeded
<1>m. ASSUME NEW p, NEW q, moved(p, q)
      PROVE  Lifecycle!Move(k, p, q)
  BY <1>m DEF Lifecycle!Move
<1>3. CASE UpdateTimedOut
  <2>1. moved(o.jobStatus, "failed")
    <3>1. /\ TimedOut(o) \in JobObject /\ TimedOut(o).jobStatus = "failed"
          /\ TimedOut(o).retries = o.retries
      BY <1>1, TimedOutFields
    <3>2. StatusUpdate(TimedOut(o))
      BY <1>3 DEF UpdateTimedOut
    <3> QED  BY <1>u, <3>1, <3>2
  <2>2. HasTimeOut /\ o.jobStatus \in {"pending", "in progress"}
    BY <1>1, <1>3 DEF UpdateTimedOut, View, ReconcilerOK, StepOK, WellFormed, Terminal
  <2>3. Lifecycle!TimeOut(k)
    BY <1>2, <1>m, <2>1, <2>2 DEF Lifecycle!TimeOut
  <2> QED  BY <1>1, <2>3 DEF Lifecycle!Next
<1>4. CASE HandleNewJob
  <2>1. o.jobStatus = "" /\ o.retries = 0
    BY <1>1, <1>4 DEF HandleNewJob, View, ReconcilerOK, StepOK, WellFormed
  <2>2. moved("", "pending")
    BY <1>1, <1>4, <1>u, <2>1, AdmittedFields DEF HandleNewJob
  <2>3. Lifecycle!Admit(k)
    BY <1>m, <2>2 DEF Lifecycle!Admit
  <2> QED  BY <1>1, <2>3 DEF Lifecycle!Next
<1>5. CASE UpdatePodName
  <2>1. UNCHANGED <<PhaseOf, AttemptOf, FailedOf, succeeded>>
    BY <1>1, <1>5, <1>u, NamedFields DEF UpdatePodName
  <2> QED  BY <2>1 DEF Lifecycle!vars
<1>6. CASE UpdateProgress
  <2>1. o.jobStatus = "pending"
    BY <1>6 DEF UpdateProgress, View, ReconcilerOK, StepOK, AtPending
  <2>2. moved("pending", "in progress")
    BY <1>1, <1>6, <1>u, <2>1, LaunchedFields DEF UpdateProgress
  <2>3. Lifecycle!Launch(k)
    BY <1>m, <2>2 DEF Lifecycle!Launch
  <2> QED  BY <1>1, <2>3 DEF Lifecycle!Next
<1>7. CASE UpdateLost
  <2>1. o.jobStatus = "in progress"
    BY <1>7 DEF UpdateLost, View, ReconcilerOK, StepOK, AtRunning
  <2>2. moved("in progress", "pending")
    BY <1>1, <1>7, <1>u, <2>1, LostFields DEF UpdateLost
  <2>3. Lifecycle!Relaunch(k)
    BY <1>m, <2>2 DEF Lifecycle!Relaunch
  <2> QED  BY <1>1, <2>3 DEF Lifecycle!Next
<1>8. CASE UpdateRetry
  <2>1. /\ o.jobStatus = "in progress" /\ o.retries < MaxRetries /\ failures[k][o.retries] > 0
    BY <1>8 DEF UpdateRetry, View, ReconcilerOK, StepOK, StepEvidence, AtRunning
  <2>2. /\ Retried(o) \in JobObject /\ Retried(o).jobStatus = "pending"
        /\ Retried(o).retries = o.retries + 1
    BY <1>1, <2>1, RetriedFields
  <2>3. /\ PhaseOf[k] = "in progress" /\ AttemptOf[k] = o.retries
        /\ PhaseOf' = [PhaseOf EXCEPT ![k] = "pending"]
        /\ AttemptOf' = [AttemptOf EXCEPT ![k] = o.retries + 1]
        /\ FailedOf' = FailedOf /\ succeeded' = succeeded
    BY <1>8, <1>u, <2>1, <2>2 DEF UpdateRetry
  <2>4. o.retries \in FailedOf[k]
    BY <1>1, <2>1, BarsDomain
  <2>5. Lifecycle!Retry(k)
    BY <2>1, <2>3, <2>4 DEF Lifecycle!Retry
  <2> QED  BY <1>1, <2>5 DEF Lifecycle!Next
<1>9. CASE UpdateExhausted
  <2>1. /\ o.jobStatus = "in progress" /\ o.retries = MaxRetries /\ failures[k][o.retries] > 0
    BY <1>9 DEF UpdateExhausted, View, ReconcilerOK, StepOK, StepEvidence, AtRunning
  <2>2. moved("in progress", "failed") /\ AttemptOf[k] = o.retries
    BY <1>1, <1>9, <1>u, <2>1, ExhaustedFields DEF UpdateExhausted
  <2>3. o.retries \in FailedOf[k]
    BY <1>1, <2>1, BarsDomain
  <2>4. Lifecycle!Exhaust(k)
    BY <1>m, <2>1, <2>2, <2>3 DEF Lifecycle!Exhaust
  <2> QED  BY <1>1, <2>4 DEF Lifecycle!Next
<1>10. CASE UpdateCompleted
  <2>1. /\ o.jobStatus = "in progress" /\ o.retries \in succeeded[k]
    BY <1>10 DEF UpdateCompleted, View, ReconcilerOK, StepOK, StepEvidence, AtRunning
  <2>2. moved("in progress", "completed") /\ AttemptOf[k] = o.retries
    BY <1>1, <1>10, <1>u, <2>1, CompletedFields DEF UpdateCompleted
  <2>3. Lifecycle!Complete(k)
    BY <1>m, <2>1, <2>2 DEF Lifecycle!Complete
  <2> QED  BY <1>1, <2>3 DEF Lifecycle!Next
<1> QED  BY <1>3, <1>4, <1>5, <1>6, <1>7, <1>8, <1>9, <1>10 DEF OperatorUpdate

\* The exit of a pod is one, too, whatever has become of its resource.
LEMMA ExitRefines ==
  ASSUME View, NEW j \in Jobs, NEW n \in Attempts, ExitSuccess(j, n) \/ FailPod(j, n)
  PROVE  Lifecycle!Next
<1>1. UNCHANGED <<job, submitted>>
  BY DEF ExitSuccess, FailPod, OperatorUnchanged
<1>2. PhaseOf' = PhaseOf /\ AttemptOf' = AttemptOf
  BY <1>1, SameJobs, UnseenStutters
<1>3. Lifecycle!Attempts = Attempts
  BY DEF Attempts, Lifecycle!Attempts
<1>4. CASE ExitSuccess(j, n)
  <2>1. FailedOf' = FailedOf /\ succeeded' = [succeeded EXCEPT ![j] = @ \cup {n}]
    BY <1>4 DEF ExitSuccess, FailedOf
  <2>2. Lifecycle!AttemptSucceeds(j, n)
    BY <1>2, <2>1 DEF Lifecycle!AttemptSucceeds
  <2> QED  BY <1>3, <2>2 DEF Lifecycle!Next
<1>5. CASE FailPod(j, n)
  <2>1. succeeded' = succeeded /\ failures' = [failures EXCEPT ![j][n] = @ + 1]
    BY <1>5 DEF FailPod
  <2>2. failures \in [Jobs -> [Attempts -> Nat]]
    BY DEF View, ClusterOK, ClusterType
  <2>3. \A i \in Jobs : \A m \in Attempts :
            failures'[i][m] > 0 <=> failures[i][m] > 0 \/ (i = j /\ m = n)
    BY <2>1, <2>2
  <2>4. FailedOf' = [FailedOf EXCEPT ![j] = @ \cup {n}]
    <3>1. \A i \in Jobs : i # j => FailedOf'[i] = FailedOf[i]
      BY <2>3 DEF FailedOf
    <3>2. FailedOf'[j] = FailedOf[j] \cup {n}
      BY <2>3 DEF FailedOf
    <3>3. FailedOf = [i \in Jobs |-> FailedOf[i]] /\ FailedOf' = [i \in Jobs |-> FailedOf'[i]]
      BY DEF FailedOf
    <3>4. FailedOf' = [FailedOf EXCEPT ![j] = FailedOf'[j]]
      BY <3>1, <3>3, OneValueMoved
    <3> QED  BY <3>2, <3>4
  <2>5. Lifecycle!AttemptFails(j, n)
    BY <1>2, <2>1, <2>4 DEF Lifecycle!AttemptFails
  <2> QED  BY <1>3, <2>5 DEF Lifecycle!Next
<1> QED  BY <1>4, <1>5

LEMMA SubmitRefines ==
  ASSUME View, NEW k \in Jobs, Submit(k)
  PROVE  Lifecycle!Next
<1>1. /\ ~Exists(k) /\ k \notin submitted /\ submitted' = submitted \cup {k}
      /\ job' = [job EXCEPT ![k] = NewJob] /\ UNCHANGED history
  BY SubmittedOnce DEF Submit
<1>2. /\ Exists(k)' /\ job'[k].jobStatus = "" /\ job'[k].retries = 0
      /\ \A j \in Jobs : j # k => job'[j] = job[j]
  BY <1>1, NewJobFields, JobFields DEF View, ClusterOK, ClusterType, Exists
<1>3. PhaseOf[k] = "absent" /\ AttemptOf[k] = 0 /\ PhaseOf'[k] = "" /\ AttemptOf'[k] = 0
  BY <1>1, <1>2, BarsDomain, BarsDomainNext
<1>4. PhaseOf' = [PhaseOf EXCEPT ![k] = ""] /\ AttemptOf' = AttemptOf
  BY <1>1, <1>2, <1>3, OneJobMoves
<1>5. Lifecycle!Submit(k)
  BY <1>1, <1>3, <1>4, SameHistory DEF Lifecycle!Submit, Lifecycle!Move
<1> QED  BY <1>5 DEF Lifecycle!Next

LEMMA RemovalRefines ==
  ASSUME View, NEW k \in Jobs, Removal(k)
  PROVE  Lifecycle!Next
<1>1. /\ Exists(k) /\ submitted' = submitted /\ UNCHANGED history
      /\ job' = [job EXCEPT ![k] = None] /\ k \in submitted
      /\ job[k].jobStatus \in Terminal \/ UserMayDelete
  BY SubmittedOnce DEF Removal
<1>2. ~Exists(k)' /\ \A j \in Jobs : j # k => job'[j] = job[j]
  BY <1>1 DEF View, ClusterOK, ClusterType, Exists
<1>3. PhaseOf[k] = job[k].jobStatus /\ PhaseOf'[k] = "deleted" /\ AttemptOf'[k] = 0
  BY <1>1, <1>2, BarsDomain, BarsDomainNext
<1>4. PhaseOf' = [PhaseOf EXCEPT ![k] = "deleted"] /\ AttemptOf' = [AttemptOf EXCEPT ![k] = 0]
  BY <1>1, <1>2, <1>3, OneJobMoves
<1>5. job[k].jobStatus \in {"", "pending", "in progress", "completed", "failed"}
  <2>1. job[k] \in JobObject
    BY <1>1 DEF View, ClusterOK, ClusterType, Exists
  <2> QED  BY <2>1, JobFields
<1>6. Lifecycle!Remove(k)
  BY <1>1, <1>3, <1>4, <1>5, SameHistory DEF Lifecycle!Remove, Lifecycle!Terminal, Terminal
<1> QED  BY <1>6 DEF Lifecycle!Next


\* Every step is a step of JobLifecycle or leaves its variables alone.
LEMMA LifecycleStep ==
  ASSUME View, [Next]_vars
  PROVE  Lifecycle!Next \/ UNCHANGED Lifecycle!vars
<1>1. CASE \E j \in Jobs : \E n \in Attempts : ExitSuccess(j, n) \/ FailPod(j, n)
  BY <1>1, ExitRefines
<1>2. CASE UNCHANGED history /\ Unseen
  BY <1>2, SameHistory, UnseenStutters DEF Lifecycle!vars
<1>3. CASE OperatorUpdate /\ job' # job
  BY <1>3, UpdateRefines
<1>4. CASE OperatorUpdate /\ job' = job
  <2>1. UNCHANGED history /\ submitted' = submitted
    BY <1>4, UpdatesAreLegal DEF StatusUpdate
  <2> QED  BY <1>4, <2>1, SameHistory, SameJobs, UnseenStutters DEF Lifecycle!vars
<1>5. ASSUME NEW k \in Jobs, Submit(k) \/ Removal(k)
      PROVE  Lifecycle!Next
  BY <1>5, SubmitRefines, RemovalRefines
<1> QED  BY <1>1, <1>2, <1>3, <1>4, <1>5, KindsOfSteps, HistoryKinds DEF Kinds

LEMMA LifecycleInit == Init => Lifecycle!Init
<1> SUFFICES ASSUME Init  PROVE Lifecycle!Init
  OBVIOUS
<1>1. \A j \in Jobs : PhaseOf[j] = "absent" /\ AttemptOf[j] = 0
  BY BarsDomain DEF Init, Exists
<1>2. PhaseOf = [j \in Jobs |-> "absent"] /\ AttemptOf = [j \in Jobs |-> 0]
  BY <1>1 DEF PhaseOf, AttemptOf
<1>3. FailedOf = [j \in Jobs |-> {}]
  BY DEF Init, FailedOf
<1> QED  BY <1>2, <1>3 DEF Lifecycle!Init, Init

\* A reconciler that is alone keeps its view, and what it does are Moves.
LEMMA ViewStep ==
  ASSUME View, [Next]_vars
  PROVE  Moves /\ View'
  BY OperatorMoves, CrashMoves, ReconcileMoves, JobStepMoves, PodStepMoves, StutterMoves DEF Next
=============================================================================
