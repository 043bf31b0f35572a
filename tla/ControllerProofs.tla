--------------------------- MODULE ControllerProofs ---------------------------
(***************************************************************************)
(* Proofs about QuantumAerJobController, for every set of jobs, every      *)
(* number of retries, every set of faults and every number of them.  What  *)
(* is said here needs that there is one reconciler only; what does not is  *)
(* in ReconcilerProofs.                                                    *)
(***************************************************************************)
EXTENDS ReconcilerProofs

-----------------------------------------------------------------------------
(* The inductive invariant.                                                *)

\* The reconciler's copy is not newer than the cache, the cache not newer than
\* the resource, and neither exists before the resource was submitted.
VersionsOK ==
    /\ \A j \in Jobs : j \notin submitted =>
           /\ job[j] = None /\ jobCache[j] = None
           /\ \A n \in Attempts : pod[j][n] = AbsentPod
    /\ \A j \in Jobs : Exists(j) /\ jobCache[j] # None => NotNewer(jobCache[j], job[j])
    /\ rc # Idle =>
           /\ rc.key \in submitted
           /\ Exists(rc.key) => /\ jobCache[rc.key] # None
                                /\ NotNewer(rc.obj, jobCache[rc.key])
                                /\ NotNewer(rc.obj, job[rc.key])

\* A retry is only counted from "in progress": a copy in which the job is new or
\* pending has the attempt the resource counts.
AttemptKept(j, o) ==
    Exists(j) /\ o.jobStatus \in {"", "pending"} => job[j].retries = o.retries

\* What stays true of the resource after version o of it was read.
StillHolds(j, o) ==
    /\ AttemptKept(j, o)
    /\ Exists(j) /\ o.jobStatus \in Terminal => job[j].jobStatus = o.jobStatus

VersionOK(j, o) == WellFormed(o) /\ Justified(j, o) /\ StillHolds(j, o)

StatusOK ==
    /\ \A j \in Jobs : Exists(j) => VersionOK(j, job[j])
    /\ \A j \in Jobs : jobCache[j] # None => VersionOK(j, jobCache[j])
    /\ rc # Idle => VersionOK(rc.key, rc.obj)

\* Phases, real or cached, are evidence of an outcome, and a simulator that runs
\* of a running pod.
EvidenceOK ==
    /\ \A j \in Jobs : \A n \in Attempts :
           /\ pod[j][n].phase = "Failed" \/ podCache[j][n] = "Failed" => failures[j][n] > 0
           /\ pod[j][n].phase = "Succeeded" \/ podCache[j][n] = "Succeeded" => n \in succeeded[j]
           /\ pod[j][n].sim # "none" => pod[j][n].phase = "Running"
    /\ StepEvidence

\* Before the retry counter moves on, the pod it leaves behind is gone.
PodsOK ==
    /\ OnlyCurrentAttemptRuns
    /\ rc.pc = "retry" => Gone(rc.key, rc.obj.retries)

IInv == TypeOK /\ StepOK /\ VersionsOK /\ StatusOK /\ EvidenceOK /\ PodsOK

\* IInv is the view of the reconciler and what it may add when it is alone.
AttemptsKept ==
    /\ \A j \in Jobs : jobCache[j] # None => AttemptKept(j, jobCache[j])
    /\ rc # Idle => AttemptKept(rc.key, rc.obj)

SimulatorsRun ==
    \A j \in Jobs : \A n \in Attempts : pod[j][n].sim # "none" => pod[j][n].phase = "Running"

SoleOK == VersionsOK /\ AttemptsKept /\ SimulatorsRun /\ PodsOK

LEMMA AsNewAsItself ==
  ASSUME NEW o \in JobObject
  PROVE  NotNewer(o, o)
<1>1. o.rv \in Nat
  BY JobFields
<1> QED  BY <1>1 DEF NotNewer

LEMMA StillNotNewer ==
  ASSUME NEW o \in JobObject, NEW p \in JobObject, NEW q \in JobObject,
         NotNewer(o, p), q = p \/ p.rv < q.rv
  PROVE  NotNewer(o, q)
<1>1. o.rv \in Nat /\ p.rv \in Nat /\ q.rv \in Nat
  BY JobFields
<1> QED  BY <1>1 DEF NotNewer

LEMMA Parts == IInv <=> View /\ SoleOK
<1>1. ASSUME IInv
      PROVE  View /\ SoleOK
  <2> USE <1>1
  <2>1. ClusterType /\ ReconcilerType
    BY DEF IInv, TypeOK, ClusterType, ReconcilerType
  <2>2. \A j \in Jobs : Exists(j) => NotNewer(job[j], job[j])
    BY <2>1, AsNewAsItself DEF ClusterType, Exists
  <2>3. /\ \A j \in Jobs : Exists(j) => CopyOf(j, job[j])
        /\ \A j \in Jobs : jobCache[j] # None => CopyOf(j, jobCache[j])
    BY <2>1, <2>2
       DEF IInv, VersionsOK, StatusOK, VersionOK, StillHolds, CopyOf, ClusterType, Exists
  <2>4. rc # Idle => CopyOf(rc.key, rc.obj)
    BY <2>1, Busy DEF IInv, VersionsOK, StatusOK, VersionOK, StillHolds, CopyOf
  <2>5. View
    BY <2>1, <2>3, <2>4
       DEF IInv, EvidenceOK, View, ClusterOK, ReconcilerOK, CachedPhases
  <2> QED  BY <2>5 DEF IInv, StatusOK, VersionOK, StillHolds, EvidenceOK,
                       SoleOK, AttemptsKept, SimulatorsRun
<1>2. ASSUME View, SoleOK
      PROVE  IInv
  <2> USE <1>2
  <2>1. TypeOK /\ StepOK
    BY ViewType DEF View, ReconcilerOK
  <2>2. EvidenceOK
    BY DEF View, ClusterOK, ReconcilerOK, CachedPhases, EvidenceOK, SoleOK, SimulatorsRun
  <2>3. StatusOK
    BY Busy, <2>1 DEF View, ClusterOK, ReconcilerOK, CopyOf, SoleOK, AttemptsKept, AttemptKept,
       StatusOK, VersionOK, StillHolds
  <2> QED  BY <2>1, <2>2, <2>3 DEF IInv, SoleOK
<1> QED  BY <1>1, <1>2

THEOREM InvInit == Init => IInv
<1> SUFFICES ASSUME Init  PROVE SoleOK
  BY ViewInit, Parts
<1> USE DEF Init
<1>1. VersionsOK
  BY DEF VersionsOK, Exists
<1>2. AttemptsKept /\ SimulatorsRun
  BY DEF AttemptsKept, SimulatorsRun, AbsentPod
<1>3. PodsOK
  BY DEF PodsOK, OnlyCurrentAttemptRuns, Exists, Idle
<1> QED  BY <1>1, <1>2, <1>3 DEF SoleOK

-----------------------------------------------------------------------------
(* Frames: what most steps leave alone.                                    *)

\* The reconcile goes on with its copy of the resource, or is over.
SameCopy == rc' = Idle \/ (rc # Idle /\ rc' # Idle /\ rc'.key = rc.key /\ rc'.obj = rc.obj)

\* The caches catch up with the API server, each entry or not.
CacheCatchesUp == \A j \in Jobs : jobCache'[j] = jobCache[j] \/ jobCache'[j] = job[j]

\* A resource stays, is patched or goes.
AttemptsStay == \A j \in Jobs : Exists(j)' => Exists(j) /\ job'[j].retries = job[j].retries

\* No pod that is gone comes back.
NoNewPod == \A j \in Jobs : \A n \in Attempts :
    /\ Gone(j, n) => Gone(j, n)'
    /\ pod[j][n] = AbsentPod => pod'[j][n] = AbsentPod

LEMMA SubmittedFirst ==
  ASSUME IInv, NEW j \in Jobs, Exists(j) \/ jobCache[j] # None \/ (rc # Idle /\ rc.key = j)
  PROVE  j \in submitted
  BY DEF IInv, VersionsOK, Exists

LEMMA CopiesFrame ==
  ASSUME IInv, Moves, ClusterType', AttemptsStay, CacheCatchesUp, SameCopy, submitted' = submitted,
         \A j \in Jobs : j \notin submitted => \A n \in Attempts : pod'[j][n] = AbsentPod
  PROVE  VersionsOK' /\ AttemptsKept'
<1>1. ASSUME NEW j \in Jobs, NEW o \in JobObject, Exists(j)', NotNewer(o, job[j])
      PROVE  NotNewer(o, job'[j])
  <2>1. Exists(j) /\ j \in submitted
    BY <1>1, SubmittedFirst DEF AttemptsStay
  <2>2. job'[j] = job[j] \/ job[j].rv < job'[j].rv
    BY <1>1, <2>1 DEF Moves
  <2>3. job[j] \in JobObject /\ job'[j] \in JobObject
    BY <1>1, <2>1 DEF IInv, TypeOK, ClusterType, Exists
  <2> QED  BY <1>1, <2>2, <2>3, StillNotNewer
<1>2. \A j \in Jobs : Exists(j) => job[j] \in JobObject /\ NotNewer(job[j], job[j])
  BY AsNewAsItself DEF IInv, TypeOK, Exists
<1>3. ASSUME NEW j \in Jobs, Exists(j)', jobCache'[j] # None
      PROVE  NotNewer(jobCache[j], job[j])'
  <2>1. Exists(j) /\ jobCache'[j] \in JobObject
    BY <1>3 DEF AttemptsStay, ClusterType
  <2>2. NotNewer(jobCache'[j], job[j])
    BY <1>2, <1>3, <2>1 DEF IInv, VersionsOK, CacheCatchesUp
  <2>3. NotNewer(jobCache'[j], job'[j])
    BY <1>1, <1>3, <2>1, <2>2
  <2> QED  BY <2>3 DEF NotNewer
<1>4. ASSUME rc' # Idle
      PROVE  /\ rc'.key \in submitted
             /\ Exists(rc.key)' => /\ jobCache'[rc'.key] # None
                                   /\ NotNewer(rc'.obj, jobCache'[rc'.key])
                                   /\ NotNewer(rc'.obj, job'[rc'.key])
  <2>1. rc # Idle /\ rc'.key = rc.key /\ rc'.obj = rc.obj /\ rc.key \in Jobs /\ rc.obj \in JobObject
    BY <1>4, Busy DEF SameCopy, IInv
  <2>2. rc.key \in submitted
    BY <2>1 DEF IInv, VersionsOK
  <2>3. ASSUME Exists(rc.key)'
        PROVE  /\ jobCache'[rc.key] # None
               /\ NotNewer(rc.obj, jobCache'[rc.key])
               /\ NotNewer(rc.obj, job'[rc.key])
    <3>1. Exists(rc.key)
      BY <2>1, <2>3 DEF AttemptsStay, Exists
    <3>2. /\ jobCache[rc.key] # None /\ NotNewer(rc.obj, jobCache[rc.key])
          /\ NotNewer(rc.obj, job[rc.key])
      BY <2>1, <3>1 DEF IInv, VersionsOK
    <3>3. Exists(rc.key) /\ job'[rc.key] # None
      BY <2>1, <2>3, <3>1 DEF Exists
    <3>4. NotNewer(rc.obj, job'[rc.key])
      BY <1>1, <2>1, <3>2, <3>3 DEF Exists
    <3> QED  BY <2>1, <3>1, <3>2, <3>4 DEF CacheCatchesUp, Exists
  <2> QED  BY <2>1, <2>2, <2>3 DEF Exists
<1>5. VersionsOK'
  <2>1. ASSUME NEW j \in Jobs, j \notin submitted
        PROVE  job'[j] = None /\ jobCache'[j] = None
    BY <2>1 DEF IInv, VersionsOK, AttemptsStay, CacheCatchesUp, Exists
  <2> QED  BY <1>3, <1>4, <2>1 DEF VersionsOK, Exists
<1>6. AttemptsKept'
  <2>1. ASSUME NEW j \in Jobs, jobCache'[j] # None
        PROVE  AttemptKept(j, jobCache[j])'
    BY <2>1 DEF IInv, StatusOK, VersionOK, StillHolds, AttemptKept, AttemptsStay, CacheCatchesUp, Exists
  <2>2. ASSUME rc' # Idle
        PROVE  AttemptKept(rc.key, rc.obj)'
    <3>1. rc # Idle /\ rc'.key = rc.key /\ rc'.obj = rc.obj /\ rc.key \in Jobs
      BY <2>2, Busy DEF SameCopy, IInv
    <3>2. AttemptKept(rc.key, rc.obj)
      BY <3>1 DEF IInv, StatusOK, VersionOK, StillHolds
    <3> QED  BY <3>1, <3>2 DEF AttemptKept, AttemptsStay, Exists
  <2> QED  BY <2>1, <2>2 DEF AttemptsKept
<1> QED  BY <1>5, <1>6

LEMMA PodsFrame ==
  ASSUME IInv, NoNewPod, AttemptsStay, SameCopy, rc'.pc = "retry" => rc.pc = "retry"
  PROVE  PodsOK'
<1>1. OnlyCurrentAttemptRuns'
  BY DEF IInv, PodsOK, OnlyCurrentAttemptRuns, NoNewPod, AttemptsStay, Gone
<1>2. ASSUME rc'.pc = "retry"
      PROVE  Gone(rc.key, rc.obj.retries)'
  <2>1. rc.pc = "retry" /\ rc # Idle /\ rc'.key = rc.key /\ rc'.obj = rc.obj
    BY <1>2 DEF SameCopy, Idle
  <2>2. rc.key \in Jobs /\ rc.obj.retries \in Attempts
    BY <2>1, Busy, JobFields DEF IInv
  <2>3. Gone(rc.key, rc.obj.retries)
    BY <2>1 DEF IInv, PodsOK
  <2> QED  BY <2>1, <2>2, <2>3 DEF NoNewPod, Gone
<1> QED  BY <1>1, <1>2 DEF PodsOK

\* Most steps leave alone all that matters here.
LEMMA Frame ==
  ASSUME IInv, Moves, View', AttemptsStay, CacheCatchesUp, SameCopy, NoNewPod, SimulatorsRun',
         submitted' = submitted, rc'.pc = "retry" => rc.pc = "retry"
  PROVE  SoleOK'
<1>1. \A j \in Jobs : j \notin submitted => \A n \in Attempts : pod'[j][n] = AbsentPod
  BY DEF IInv, VersionsOK, NoNewPod
<1> QED  BY <1>1, CopiesFrame, PodsFrame DEF SoleOK, View, ClusterOK

\* And some leave the cluster alone altogether.
LEMMA QuietFrame ==
  ASSUME IInv, Moves, View', UNCHANGED <<job, pod, submitted>>, CacheCatchesUp, SameCopy,
         rc'.pc = "retry" => rc.pc = "retry"
  PROVE  SoleOK'
<1>1. AttemptsStay /\ NoNewPod
  BY DEF AttemptsStay, NoNewPod, Exists, Gone
<1>2. SimulatorsRun'
  BY DEF IInv, EvidenceOK, SimulatorsRun
<1> QED  BY <1>1, <1>2, Frame

-----------------------------------------------------------------------------
(* The steps of the reconciler.                                            *)

\* Optimistic concurrency at work: an update that is accepted was made from the
\* current version, and the cache holds that version too.
LEMMA AcceptedIsCurrent ==
  ASSUME IInv, rc # Idle, NEW new, StatusUpdate(new), job' # job
  PROVE  /\ Exists(rc.key) /\ job[rc.key] = rc.obj /\ jobCache[rc.key] = rc.obj
         /\ job' = [job EXCEPT ![rc.key] = AtVersion(new, rc.obj.rv + 1)]
<1>1. /\ Exists(rc.key) /\ job[rc.key] = rc.obj
      /\ job' = [job EXCEPT ![rc.key] = AtVersion(new, rc.obj.rv + 1)]
  BY AcceptedFromCurrent, Parts
<1>2. rc.key \in Jobs /\ rc.obj \in JobObject
  BY Busy DEF IInv
<1>3. /\ jobCache[rc.key] # None
      /\ NotNewer(rc.obj, jobCache[rc.key]) /\ NotNewer(jobCache[rc.key], rc.obj)
  BY <1>1, <1>2 DEF IInv, VersionsOK
<1>4. jobCache[rc.key] \in JobObject
  BY <1>2, <1>3 DEF IInv, TypeOK
<1>5. rc.obj.rv \in Nat /\ jobCache[rc.key].rv \in Nat
  BY <1>2, <1>4, JobFields
<1> QED  BY <1>1, <1>3, <1>5 DEF NotNewer

LEMMA AcceptedUpdate ==
  ASSUME IInv, rc # Idle, NEW new, Legal(new), StatusUpdate(new), job' # job
  PROVE  SoleOK'
<1> DEFINE k == rc.key
<1>1. /\ rc' = Idle /\ UNCHANGED <<pod, submitted, jobCache>>
  BY DEF StatusUpdate, Requeue, caches
<1>2. /\ k \in Jobs /\ rc.obj \in JobObject /\ rc.obj.rv \in Nat /\ rc.obj.jobStatus \notin Terminal
      /\ Exists(k) /\ job[k] = rc.obj /\ jobCache[k] = rc.obj
  BY AcceptedIsCurrent, Busy, JobFields DEF IInv, Legal
<1>3. PICK p \in JobObject :
        /\ job' = [job EXCEPT ![k] = p]
        /\ p # None /\ p.rv = rc.obj.rv + 1 /\ p.retries = new.retries
  BY UpdateEffect, Parts
<1>4. job'[k] = p /\ \A j \in Jobs : j # k => job'[j] = job[j]
  BY <1>2, <1>3 DEF IInv, TypeOK
<1> HIDE DEF k
<1>5. VersionsOK'
  <2>1. ASSUME NEW j \in Jobs, j \notin submitted
        PROVE  job'[j] = None
    BY <2>1, <1>2, <1>4 DEF IInv, VersionsOK, Exists
  <2>2. ASSUME NEW j \in Jobs, job'[j] # None, jobCache[j] # None
        PROVE  NotNewer(jobCache[j], job'[j])
    BY <2>2, <1>2, <1>3, <1>4 DEF IInv, VersionsOK, Exists, NotNewer
  <2> QED  BY <1>1, <2>1, <2>2 DEF IInv, VersionsOK, Exists, NotNewer
<1>6. AttemptsKept'
  <2>1. ASSUME NEW j \in Jobs, jobCache[j] # None
        PROVE  job'[j] # None /\ jobCache[j].jobStatus \in {"", "pending"} =>
                   job'[j].retries = jobCache[j].retries
    <3>1. CASE j = k
      BY <3>1, <1>2, <1>3, <1>4 DEF Legal
    <3>2. CASE j # k
      BY <2>1, <3>2, <1>4 DEF IInv, StatusOK, VersionOK, StillHolds, AttemptKept, Exists
    <3> QED  BY <3>1, <3>2
  <2> QED  BY <1>1, <2>1 DEF AttemptsKept, AttemptKept, Exists
<1>7. PodsOK'
  <2>1. new.retries # rc.obj.retries => Gone(k, rc.obj.retries)
    BY DEF Legal, IInv, PodsOK, k
  <2>2. ASSUME NEW j \in Jobs, job'[j] # None, NEW n \in Attempts,
               pod[j][n].phase # "absent", ~pod[j][n].deleting
        PROVE  n = job'[j].retries
    BY <2>1, <2>2, <1>2, <1>3, <1>4 DEF IInv, PodsOK, OnlyCurrentAttemptRuns, Gone, Exists
  <2> QED  BY <1>1, <2>2 DEF PodsOK, OnlyCurrentAttemptRuns, Exists, Idle
<1>8. SimulatorsRun'
  BY <1>1 DEF IInv, EvidenceOK, SimulatorsRun
<1> QED  BY <1>5, <1>6, <1>7, <1>8 DEF SoleOK

LEMMA UpdateInv ==
  ASSUME IInv, OperatorUpdate, Moves, View'
  PROVE  SoleOK'
<1>1. PICK new : rc # Idle /\ Legal(new) /\ StatusUpdate(new)
  BY UpdatesAreLegal, Parts
<1>2. CASE job' = job
  <2>1. rc' = Idle /\ UNCHANGED <<job, pod, submitted, jobCache>>
    BY <1>1, <1>2 DEF StatusUpdate, Requeue, caches
  <2> QED  BY <2>1, QuietFrame DEF SameCopy, CacheCatchesUp, Idle
<1>3. CASE job' # job
  BY <1>1, <1>3, AcceptedUpdate
<1> QED  BY <1>2, <1>3

\* The copy a reconcile begins with is the cache's.
LEMMA ReconcileInv ==
  ASSUME IInv, NEW j \in Jobs, Reconcile(j), Moves, View'
  PROVE  SoleOK'
<1>0. UNCHANGED <<job, pod, submitted, jobCache>>
  BY DEF Reconcile, cluster, caches
<1>1. CASE jobCache[j] = None
  <2>1. rc' = Idle
    BY <1>1 DEF Reconcile
  <2> QED  BY <1>0, <2>1, QuietFrame DEF SameCopy, CacheCatchesUp, Idle
<1>2. CASE jobCache[j] # None
  <2> DEFINE o == jobCache[j]
  <2>1. o \in JobObject /\ j \in submitted /\ VersionOK(j, o)
    BY <1>2, SubmittedFirst DEF IInv, TypeOK, StatusOK
  <2>2. rc' = [pc |-> Handler(j, o), key |-> j, obj |-> o]
    BY <1>2 DEF Reconcile
  <2>3. rc'.key = j /\ rc'.obj = o /\ rc'.pc # "retry"
    BY <2>2 DEF Handler
  <2>4. VersionsOK'
    BY <1>0, <1>2, <2>1, <2>3, AsNewAsItself DEF IInv, VersionsOK, Exists, NotNewer
  <2>5. AttemptsKept'
    BY <1>0, <2>1, <2>3
       DEF IInv, StatusOK, VersionOK, StillHolds, AttemptKept, AttemptsKept, Exists
  <2>6. PodsOK' /\ SimulatorsRun'
    BY <1>0, <2>3
       DEF IInv, PodsOK, OnlyCurrentAttemptRuns, Exists, EvidenceOK, SimulatorsRun
  <2> QED  BY <2>4, <2>5, <2>6 DEF SoleOK
<1> QED  BY <1>1, <1>2

\* The handlers that only look.
LEMMA HandleInv ==
  ASSUME IInv, HandlePendingJob \/ HandleRunningJob \/ HandleTerminalJob, Moves, View'
  PROVE  SoleOK'
<1>1. rc # Idle /\ UNCHANGED <<job, pod, submitted, jobCache>>
  <2>1. /\ rc.pc \in {"pending", "running", "terminal"}
        /\ UNCHANGED <<cluster, submitted, clock, caches, history>>
    BY Zenon DEF HandlePendingJob, HandleRunningJob, HandleTerminalJob
  <2> QED  BY <2>1 DEF cluster, caches, Idle
<1>2. Requeue \/ \E step \in Steps \ {"idle", "retry"} : GoTo(step)
  <2>1. CASE HandlePendingJob
    BY <2>1 DEF HandlePendingJob, Steps
  <2>2. CASE HandleRunningJob
    <3>1. \A phase : AfterPod(phase, rc.obj) \in
                          {"lost", "delete failed", "exhausted", "complete", "poll"}
      BY DEF AfterPod
    <3> QED  BY <2>2, <3>1 DEF HandleRunningJob, Poll, Steps
  <2>3. CASE HandleTerminalJob
    BY <2>3 DEF HandleTerminalJob, Steps
  <2> QED  BY <2>1, <2>2, <2>3
<1>3. SameCopy /\ (rc'.pc = "retry" => rc.pc = "retry")
  <2>1. CASE Requeue
    BY <2>1 DEF Requeue, SameCopy, Idle
  <2>2. ASSUME NEW step \in Steps \ {"idle", "retry"}, GoTo(step)
        PROVE  SameCopy /\ rc'.pc # "retry"
    <3>1. rc'.pc = step /\ rc'.key = rc.key /\ rc'.obj = rc.obj
      BY <1>1, <2>2, GoToFields DEF IInv
    <3> QED  BY <1>1, <2>2, <3>1 DEF SameCopy, Idle
  <2> QED  BY <1>2, <2>1, <2>2
<1> QED  BY <1>1, <1>3, QuietFrame DEF CacheCatchesUp

\* The pod that is created is of the attempt the resource counts, or there is no
\* resource any more.
LEMMA CreateInv ==
  ASSUME IInv, CreateSimulatorPod, Moves, View'
  PROVE  SoleOK'
<1> DEFINE k == rc.key
           n == rc.obj.retries
<1>1. /\ rc # Idle /\ k \in Jobs /\ rc.obj \in JobObject /\ n \in Attempts
      /\ rc.obj.jobStatus = "pending"
  <2>1. rc.pc = "create" /\ rc # Idle
    BY DEF CreateSimulatorPod, Idle
  <2>2. rc.obj.jobStatus = "pending"
    BY <2>1 DEF IInv, StepOK, AtPending
  <2>3. k \in Jobs /\ rc.obj \in JobObject /\ n \in Attempts
    BY <2>1, Busy, JobFields DEF IInv
  <2> QED  BY <2>1, <2>2, <2>3
<1>2. UNCHANGED <<job, submitted, jobCache>>
  BY DEF CreateSimulatorPod, caches
<1>3. SameCopy /\ rc'.pc # "retry"
  <2>1. Requeue \/ GoTo("name")
    BY DEF CreateSimulatorPod
  <2>2. CASE Requeue
    BY <2>2 DEF Requeue, SameCopy, Idle
  <2>3. CASE GoTo("name")
    <3>1. rc'.pc = "name" /\ rc'.key = rc.key /\ rc'.obj = rc.obj
      BY <1>1, <2>3, GoToFields DEF IInv, Steps
    <3> QED  BY <1>1, <3>1 DEF SameCopy, Idle
  <2> QED  BY <2>1, <2>2, <2>3
<1>4. \A j \in Jobs : \A m \in Attempts :
          pod'[j][m] = pod[j][m] \/ (j = k /\ m = n /\ pod'[j][m] = NewPod)
  <2>1. pod' = pod \/ pod' = [pod EXCEPT ![k][n] = NewPod]
    BY DEF CreateSimulatorPod, CreatePod
  <2> QED  BY <1>1, <2>1 DEF IInv, TypeOK
<1>5. k \in submitted
  BY <1>1, SubmittedFirst
<1>6. Exists(k) => job[k].retries = n
  BY <1>1 DEF IInv, StatusOK, VersionOK, StillHolds, AttemptKept
<1> HIDE DEF k, n
<1>7. VersionsOK' /\ AttemptsKept'
  <2>1. \A j \in Jobs : j \notin submitted => \A m \in Attempts : pod'[j][m] = AbsentPod
    BY <1>4, <1>5 DEF IInv, VersionsOK
  <2> QED  BY <1>2, <1>3, <2>1, CopiesFrame DEF View, ClusterOK, AttemptsStay, CacheCatchesUp, Exists
<1>8. OnlyCurrentAttemptRuns'
  BY <1>2, <1>4, <1>6 DEF IInv, PodsOK, OnlyCurrentAttemptRuns, Exists
<1>9. SimulatorsRun'
  BY <1>4, NewPodFields DEF IInv, EvidenceOK, SimulatorsRun
<1> QED  BY <1>3, <1>7, <1>8, <1>9 DEF SoleOK, PodsOK

\* The retry counter will move on only when the pod of this attempt is gone.
LEMMA DeleteInv ==
  ASSUME IInv, DeleteFailedPod \/ DeleteTerminalPod, Moves, View'
  PROVE  SoleOK'
<1> DEFINE k == rc.key
           n == rc.obj.podName
<1>1. /\ rc # Idle /\ k \in Jobs /\ rc.obj \in JobObject /\ n \in Attempts
      /\ DeleteFailedPod => n = rc.obj.retries
  <2>1. rc.pc \in {"delete failed", "delete pod"} /\ (DeleteFailedPod => rc.pc = "delete failed")
    BY DEF DeleteFailedPod, DeleteTerminalPod
  <2>2. rc # Idle /\ k \in Jobs /\ rc.obj \in JobObject /\ WellFormed(rc.obj)
    BY <2>1, Busy DEF IInv, StatusOK, VersionOK
  <2>3. n \in Attempts \cup {NoPod}
    BY <2>2, JobFields
  <2>4. n # NoPod /\ (rc.pc = "delete failed" => rc.obj.jobStatus = "in progress")
    BY <2>1 DEF IInv, StepOK, AtRunning
  <2> QED  BY <2>1, <2>2, <2>3, <2>4 DEF WellFormed
<1>2. UNCHANGED <<job, submitted, jobCache>>
  BY DEF DeleteFailedPod, DeleteTerminalPod, DeleteThen, caches
<1>3. PICK step \in {"retry", "ttl"} :
        /\ step = "retry" => DeleteFailedPod
        /\ Requeue \/ (GoTo(step) /\ DeletePod(k, n))
        /\ DeletePod(k, n) \/ pod' = pod
  BY DEF DeleteFailedPod, DeleteTerminalPod, DeleteThen
<1>4. /\ SameCopy
      /\ rc'.pc = "retry" => /\ rc'.key = k /\ rc'.obj.retries = n
                             /\ DeletePod(k, n)
  <2>1. CASE Requeue
    BY <2>1 DEF Requeue, SameCopy, Idle
  <2>2. CASE GoTo(step) /\ DeletePod(k, n)
    <3>1. rc'.pc = step /\ rc'.key = rc.key /\ rc'.obj = rc.obj
      BY <1>1, <2>2, GoToFields DEF IInv, Steps
    <3> QED  BY <1>1, <1>3, <2>2, <3>1 DEF SameCopy, Idle
  <2> QED  BY <1>3, <2>1, <2>2
<1> HIDE DEF k, n
<1>5. /\ NoNewPod /\ SimulatorsRun'
      /\ DeletePod(k, n) => pod'[k][n].phase = "absent" \/ pod'[k][n].deleting
  <2>0. TypeOK
    BY DEF IInv
  <2>1. CASE DeletePod(k, n)
    <3>1. \A j \in Jobs : \A m \in Attempts :
              /\ Gone(j, m) => Gone(j, m)'
              /\ \/ pod'[j][m] = AbsentPod
                 \/ pod'[j][m].phase = pod[j][m].phase /\ pod'[j][m].sim = pod[j][m].sim
              /\ pod[j][m] = AbsentPod => pod'[j][m] = AbsentPod
      BY <1>1, <2>0, <2>1, DeletePodEffect
    <3>2. ASSUME NEW a \in Jobs, NEW b \in Attempts, DeletePod(a, b)
          PROVE  pod'[a][b].phase = "absent" \/ pod'[a][b].deleting
      <4>1. Gone(a, b)'
        BY <2>0, <3>2, DeletePodEffect
      <4> QED  BY <4>1 DEF Gone
    <3> QED  BY <1>1, <2>1, <3>1, <3>2, NewPodFields DEF NoNewPod, SimulatorsRun, IInv, EvidenceOK
  <2>2. CASE pod' = pod /\ ~DeletePod(k, n)
    BY <2>2 DEF NoNewPod, Gone, SimulatorsRun, IInv, EvidenceOK
  <2> QED  BY <1>3, <2>1, <2>2
<1>6. AttemptsStay /\ CacheCatchesUp
  BY <1>2 DEF AttemptsStay, CacheCatchesUp, Exists
<1>7. VersionsOK' /\ AttemptsKept'
  <2>1. \A j \in Jobs : j \notin submitted => \A m \in Attempts : pod'[j][m] = AbsentPod
    BY <1>5 DEF IInv, VersionsOK, NoNewPod
  <2> QED  BY <1>2, <1>4, <1>6, <2>1, CopiesFrame DEF View, ClusterOK
<1>8. PodsOK'
  <2>1. OnlyCurrentAttemptRuns'
    BY <1>2, <1>5 DEF IInv, PodsOK, OnlyCurrentAttemptRuns, NoNewPod, Exists, Gone
  <2>2. rc'.pc = "retry" => Gone(rc.key, rc.obj.retries)'
    BY <1>4, <1>5 DEF Gone
  <2> QED  BY <2>1, <2>2 DEF PodsOK
<1> QED  BY <1>5, <1>7, <1>8 DEF SoleOK

LEMMA CheckTTLInv ==
  ASSUME IInv, CheckTTL, Moves, View'
  PROVE  SoleOK'
<1>1. /\ rc' = Idle /\ UNCHANGED <<pod, submitted, jobCache>>
      /\ job' = job \/ job' = [job EXCEPT ![rc.key] = None]
  BY DEF CheckTTL, AwaitTTL, Done, Requeue, caches
<1>2. rc.key \in Jobs
  BY Busy DEF CheckTTL, IInv
<1>3. AttemptsStay
  BY <1>1, <1>2 DEF AttemptsStay, Exists, IInv, TypeOK
<1>4. NoNewPod /\ SimulatorsRun'
  BY <1>1 DEF NoNewPod, Gone, SimulatorsRun, IInv, EvidenceOK
<1> QED  BY <1>1, <1>3, <1>4, Frame DEF CacheCatchesUp, SameCopy, Idle


-----------------------------------------------------------------------------
(* The steps of everybody else.                                            *)

\* What a step of a pod makes of it: a pod that is gone stays so, and what runs
\* is a simulator in a running pod.
PodMoved(j, n, p) ==
    /\ pod[j][n] # AbsentPod
    /\ pod' = [pod EXCEPT ![j][n] = p]
    /\ Gone(j, n) => p.phase = "absent" \/ p.deleting
    /\ p.sim # "none" => p.phase = "Running"

LEMMA PodMovedSo ==
  ASSUME IInv, NEW j \in Jobs, NEW n \in Attempts, PodStep(j, n)
  PROVE  \E p \in PodObject : PodMoved(j, n, p)
<1> DEFINE q == pod[j][n]
<1>1. /\ q \in PodObject /\ q.phase \in Phases \cup {"absent"}
      /\ q.sim # "none" => q.phase = "Running"
  BY PhasesOfPods DEF IInv, TypeOK, EvidenceOK
<1>2. /\ Terminating(q) \in PodObject /\ Terminating(q).phase = q.phase /\ Terminating(q).deleting
      /\ Terminating(q).sim = q.sim
      /\ Running(q) \in PodObject /\ Running(q).phase = "Running" /\ Running(q).deleting = q.deleting
      /\ \A step \in SimSteps :
             /\ Working(q, step) \in PodObject /\ Working(q, step).phase = q.phase
             /\ Working(q, step).deleting = q.deleting
      /\ \A phase \in Phases :
             /\ Exited(q, phase) \in PodObject /\ Exited(q, phase).phase = phase
             /\ Exited(q, phase).deleting = q.deleting /\ Exited(q, phase).sim = "none"
  BY <1>1, PodFields, Zenon
<1>3. /\ AbsentPod \in PodObject /\ AbsentPod.phase = "absent" /\ ~AbsentPod.deleting
      /\ AbsentPod.sim = "none"
  BY NewPodFields DEF AbsentPod
<1>4. CASE StartSimulator(j, n)
  <2>1. PodMoved(j, n, Running(q))
    BY <1>2, <1>3, <1>4 DEF StartSimulator, PodMoved, Gone
  <2> QED  BY <1>2, <2>1
<1>5. CASE ReportSuccess(j, n)
  <2>1. PodMoved(j, n, Working(q, "reported"))
    BY <1>1, <1>2, <1>3, <1>5 DEF ReportSuccess, PodMoved, Gone, SimSteps
  <2> QED  BY <1>2, <2>1 DEF SimSteps
<1>6. CASE ReportFailure(j, n)
  <2>1. PodMoved(j, n, Working(q, "exiting"))
    BY <1>1, <1>2, <1>3, <1>6 DEF ReportFailure, PodMoved, Gone, SimSteps
  <2> QED  BY <1>2, <2>1 DEF SimSteps
<1>7. CASE ExitSuccess(j, n)
  <2>1. PodMoved(j, n, Exited(q, "Succeeded"))
    BY <1>1, <1>2, <1>3, <1>7 DEF ExitSuccess, PodMoved, Gone, Phases
  <2> QED  BY <1>2, <2>1 DEF Phases
<1>8. CASE ExitFailure(j, n) \/ KillPod(j, n)
  <2>1. PodMoved(j, n, Exited(q, "Failed"))
    BY <1>1, <1>2, <1>3, <1>8 DEF ExitFailure, KillPod, FailPod, PodMoved, Gone, Phases
  <2> QED  BY <1>2, <2>1 DEF Phases
<1>9. CASE Disrupt(j, n) \/ CollectPod(j, n)
  <2>1. DeletePod(j, n) /\ q.phase \in {"Pending", "Running", "Succeeded", "Failed"}
    BY <1>1, <1>9 DEF Disrupt, CollectPod, Phases
  <2>2. pod' = [pod EXCEPT ![j][n] = AbsentPod] \/ pod' = [pod EXCEPT ![j][n] = Terminating(q)]
    BY <2>1 DEF DeletePod
  <2>3. PodMoved(j, n, AbsentPod) \/ PodMoved(j, n, Terminating(q))
    <3> HIDE DEF q
    <3> QED  BY <1>1, <1>2, <1>3, <2>1, <2>2 DEF PodMoved, q
  <2> QED  BY <1>2, <1>3, <2>3
<1>10. CASE ReapPod(j, n)
  <2>1. PodMoved(j, n, AbsentPod)
    BY <1>3, <1>10 DEF ReapPod, PodMoved
  <2> QED  BY <1>3, <2>1
<1> QED  BY <1>4, <1>5, <1>6, <1>7, <1>8, <1>9, <1>10 DEF PodStep

LEMMA PodStepInv ==
  ASSUME IInv, NEW j \in Jobs, NEW n \in Attempts, PodStep(j, n), Moves, View'
  PROVE  SoleOK'
<1>1. MaybePatched(j) /\ UNCHANGED <<submitted, jobCache, rc>>
  BY DEF PodStep, StartSimulator, ReportSuccess, ReportFailure, ExitSuccess, ExitFailure,
         KillPod, FailPod, Disrupt, CollectPod, ReapPod, OperatorUnchanged, MaybePatched, caches
<1>2. AttemptsStay
  BY <1>1, Parts, PatchEffect DEF AttemptsStay, View, ClusterOK
<1>3. PICK p \in PodObject : PodMoved(j, n, p)
  BY PodMovedSo
<1>4. \A i \in Jobs : \A m \in Attempts :
          pod'[i][m] = pod[i][m] \/ (i = j /\ m = n /\ pod'[i][m] = p)
  BY <1>3 DEF PodMoved, IInv, TypeOK
<1>5. NoNewPod
  BY <1>3, <1>4 DEF PodMoved, NoNewPod, Gone
<1>6. SimulatorsRun'
  BY <1>3, <1>4 DEF PodMoved, SimulatorsRun, IInv, EvidenceOK
<1> QED  BY <1>1, <1>2, <1>5, <1>6, Frame DEF CacheCatchesUp, SameCopy

LEMMA SubmitInv ==
  ASSUME IInv, NEW k \in Jobs, Submit(k)
  PROVE  SoleOK'
<1>1. /\ submitted' = submitted \cup {k} /\ job' = [job EXCEPT ![k] = NewJob]
      /\ UNCHANGED <<pod, jobCache, rc>>
  BY DEF Submit, caches
<1>2. /\ k \notin submitted /\ ~Exists(k) /\ jobCache[k] = None /\ (rc # Idle => rc.key # k)
      /\ \A n \in Attempts : pod[k][n] = AbsentPod
  BY SubmittedFirst DEF Submit, IInv, VersionsOK
<1>3. job'[k] = NewJob /\ \A j \in Jobs : j # k => job'[j] = job[j]
  BY <1>1 DEF IInv, TypeOK
<1>4. VersionsOK'
  BY <1>1, <1>2, <1>3, Busy DEF IInv, VersionsOK, Exists, NotNewer
<1>5. AttemptsKept'
  BY <1>1, <1>2, <1>3, Busy
     DEF IInv, StatusOK, VersionOK, StillHolds, AttemptKept, AttemptsKept, Exists
<1>6. SimulatorsRun'
  BY <1>1 DEF SimulatorsRun, IInv, EvidenceOK
<1>7. PodsOK'
  <2>1. ASSUME NEW j \in Jobs, job'[j] # None, NEW n \in Attempts,
               pod[j][n].phase # "absent", ~pod[j][n].deleting
        PROVE  n = job'[j].retries
    <3>1. j # k
      BY <1>2, <2>1, NewPodFields
    <3> QED  BY <1>3, <2>1, <3>1 DEF IInv, PodsOK, OnlyCurrentAttemptRuns, Exists
  <2>2. rc'.pc = "retry" => Gone(rc.key, rc.obj.retries)'
    BY <1>1 DEF IInv, PodsOK, Gone
  <2> QED  BY <1>1, <2>1, <2>2 DEF PodsOK, OnlyCurrentAttemptRuns, Exists
<1> QED  BY <1>4, <1>5, <1>6, <1>7 DEF SoleOK

\* A restart, what an informer brings, and the clock.
LEMMA OtherInv ==
  ASSUME IInv, Moves, View',
         \/ CrashRestart
         \/ \E j \in Jobs : SyncJob(j) \/ SyncPods(j) \/ PassTimeOut(j) \/ PassTTL(j)
  PROVE  SoleOK'
<1>1. UNCHANGED <<job, pod, submitted>>
  BY DEF CrashRestart, SyncJob, SyncPods, PassTimeOut, PassTTL, cluster
<1>2. CacheCatchesUp
  BY DEF CrashRestart, SyncJob, SyncPods, PassTimeOut, PassTTL, caches, CacheCatchesUp, IInv, TypeOK
<1>3. rc' = Idle \/ rc' = rc
  BY DEF CrashRestart, SyncJob, SyncPods, PassTimeOut, PassTTL
<1> QED  BY <1>1, <1>2, <1>3, QuietFrame DEF SameCopy, Idle

LEMMA JobStepInv ==
  ASSUME IInv, NEW j \in Jobs, JobStep(j), Moves, View'
  PROVE  SoleOK'
<1>1. CASE UserDelete(j)
  <2>1. job' = [job EXCEPT ![j] = None] /\ UNCHANGED <<pod, submitted, jobCache, rc>>
    BY <1>1 DEF UserDelete, OperatorUnchanged, caches
  <2>2. AttemptsStay /\ NoNewPod /\ SimulatorsRun'
    BY <2>1 DEF AttemptsStay, NoNewPod, Exists, Gone, SimulatorsRun, IInv, TypeOK, EvidenceOK
  <2> QED  BY <2>1, <2>2, Frame DEF CacheCatchesUp, SameCopy
<1> QED  BY <1>1, SubmitInv, OtherInv DEF JobStep

-----------------------------------------------------------------------------
(* The invariant, and what follows from it.                                *)

\* Every step of the system preserves the invariant.
LEMMA SoleStep ==
  ASSUME IInv, [Next]_vars, Moves, View'
  PROVE  SoleOK'
<1>1. CASE OperatorStep
  BY <1>1, UpdateInv, HandleInv, CreateInv, DeleteInv, CheckTTLInv DEF OperatorStep, OperatorUpdate
<1>2. CASE UNCHANGED vars
  <2>1. UNCHANGED <<job, pod, submitted, jobCache, rc>>
    BY <1>2 DEF vars, cluster, caches
  <2> QED  BY <2>1, QuietFrame DEF CacheCatchesUp, SameCopy
<1> QED  BY <1>1, <1>2, OtherInv, ReconcileInv, JobStepInv, PodStepInv DEF Next

THEOREM InvStep == IInv /\ [Next]_vars => IInv'
<1>1. IInv <=> View /\ SoleOK
  BY Parts
<1>2. IInv' <=> View' /\ SoleOK'
  BY <1>1, PTL
<1>3. ASSUME IInv, [Next]_vars
      PROVE  View' /\ SoleOK'
  BY <1>1, <1>3, ViewStep, SoleStep
<1> QED  BY <1>2, <1>3

\* The invariant holds in every reachable state.
THEOREM Invariance == Spec => []IInv
<1>1. IInv /\ [Next]_vars => IInv'
  BY InvStep
<1> QED  BY <1>1, InvInit, PTL DEF Spec

\* Type correctness, for every value of the constants.
THEOREM TypeCorrect == Spec => []TypeOK
<1>1. IInv => TypeOK
  BY DEF IInv
<1> QED  BY <1>1, Invariance, PTL

\* A pod nobody has asked to delete belongs to the attempt its resource counts:
\* createSimulatorPod never starts a pod the job has moved past, however stale
\* the copy it works from, and handleRunningJob leaves none behind.
THEOREM CurrentAttempt == Spec => []OnlyCurrentAttemptRuns
<1>1. IInv => OnlyCurrentAttemptRuns
  BY DEF IInv, PodsOK
<1> QED  BY <1>1, Invariance, PTL

\* handleRunningJob completes a job only for the attempt whose pod has succeeded.
THEOREM CompletionJustified == Spec => []CompletedByItsAttempt
<1>1. IInv => CompletedByItsAttempt
  BY DEF IInv, StatusOK, VersionOK, Justified, CompletedByItsAttempt
<1> QED  BY <1>1, Invariance, PTL

\* A job fails only when its time is up or every attempt it had has failed.
THEOREM FailureJustified == Spec => []FailedForAReason
<1>1. IInv => FailedForAReason
  BY DEF IInv, StatusOK, VersionOK, Justified, FailedForAReason
<1> QED  BY <1>1, Invariance, PTL

\* Timeouts, stale reads and repeated reconciles never change a verdict.
THEOREM VerdictIsFinal == Spec => TerminalIsFinal
<1>1. IInv /\ [Next]_vars => VerdictKept
  BY VerdictStep, Parts
<1> QED  BY <1>1, Invariance, PTL DEF Spec, TerminalIsFinal, VerdictKept

\* The operator implements JobLifecycle: every status it ever shows is reached by
\* the abstract steps, each taken for its reason.
THEOREM Implementation == Spec => ImplementsLifecycle
<1>1. IInv /\ [Next]_vars => [Lifecycle!Next]_(Lifecycle!vars)
  BY LifecycleStep, Parts
<1> QED  BY <1>1, LifecycleInit, Invariance, PTL DEF Spec, ImplementsLifecycle, Lifecycle!Spec
=============================================================================
