----------------------------- MODULE FailoverProofs -----------------------------
(***************************************************************************)
(* The theorems of LeaderFailover.  Nothing stops the two operators from   *)
(* writing at the same time; each keeps the view of ReconcilerProofs while *)
(* the other one makes its Moves.                                          *)
(***************************************************************************)
EXTENDS LeaderFailover, ReconcilerProofs

OldP == INSTANCE ReconcilerProofs WITH
    podCache <- oldPodCache, queue <- oldQueue, rc <- oldRc

-----------------------------------------------------------------------------
(* Old and OldP instantiate the same definitions, and what does not speak  *)
(* of a reconciler is the same in both.                                    *)

LEMMA SameObjects ==
  /\ OldP!Attempts = Attempts /\ OldP!NoPod = NoPod /\ OldP!Terminal = Terminal
  /\ OldP!JobState = JobState /\ OldP!JobObject = JobObject
  /\ OldP!Phases = Phases /\ OldP!SimSteps = SimSteps /\ OldP!PodObject = PodObject
  /\ OldP!Steps = Steps /\ OldP!Idle = Idle
<1>1. /\ OldP!Attempts = Attempts /\ OldP!NoPod = NoPod /\ OldP!Terminal = Terminal
      /\ OldP!Phases = Phases /\ OldP!SimSteps = SimSteps /\ OldP!Steps = Steps /\ OldP!Idle = Idle
  BY DEF OldP!Attempts, Attempts, OldP!NoPod, NoPod, OldP!Terminal, Terminal, OldP!Phases, Phases,
         OldP!SimSteps, SimSteps, OldP!Steps, Steps, OldP!Idle, Idle
<1>2. OldP!JobState = JobState
  BY <1>1 DEF OldP!JobState, JobState
<1>3. OldP!JobObject = JobObject
  BY <1>1, <1>2 DEF OldP!JobObject, JobObject
<1>4. OldP!PodObject = PodObject
  BY <1>1 DEF OldP!PodObject, PodObject
<1> QED  BY <1>1, <1>2, <1>3, <1>4

LEMMA SameUpdates ==
  \A new : Old!StatusUpdate(new) => OldP!StatusUpdate(new)
<1>1. Old!Accepts(oldRc.key, oldRc.obj) <=> OldP!Accepts(oldRc.key, oldRc.obj)
  BY DEF Old!Accepts, OldP!Accepts, Old!Exists, OldP!Exists
<1>2. Old!Requeue <=> OldP!Requeue
  BY DEF Old!Requeue, OldP!Requeue, Old!Idle, OldP!Idle
<1>3. Old!Fault("api") <=> OldP!Fault("api")
  BY DEF Old!Fault, OldP!Fault
<1>4. \A o, v : Old!AtVersion(o, v) = OldP!AtVersion(o, v)
  BY DEF Old!AtVersion, OldP!AtVersion
<1>5. /\ Old!clock = OldP!clock /\ Old!clock' = OldP!clock'
      /\ Old!caches = OldP!caches /\ Old!caches' = OldP!caches'
      /\ Old!history = OldP!history /\ Old!history' = OldP!history'
  BY DEF Old!clock, OldP!clock, Old!caches, OldP!caches, Old!history, OldP!history
<1> TAKE new
<1> HAVE Old!StatusUpdate(new)
<1> QED  BY <1>1, <1>2, <1>3, <1>4, <1>5 DEF Old!StatusUpdate, OldP!StatusUpdate

LEMMA SameFields ==
  \A o : /\ Old!TimedOut(o) = OldP!TimedOut(o) /\ Old!Admitted(o) = OldP!Admitted(o)
         /\ Old!Named(o) = OldP!Named(o) /\ Old!Launched(o) = OldP!Launched(o)
         /\ Old!Lost(o) = OldP!Lost(o) /\ Old!Retried(o) = OldP!Retried(o)
         /\ Old!Exhausted(o) = OldP!Exhausted(o) /\ Old!Completed(o) = OldP!Completed(o)
  BY DEF Old!TimedOut, OldP!TimedOut, Old!Admitted, OldP!Admitted, Old!Named, OldP!Named,
         Old!Launched, OldP!Launched, Old!Lost, OldP!Lost, Old!Retried, OldP!Retried,
         Old!Exhausted, OldP!Exhausted, Old!Completed, OldP!Completed, Old!NoPod, OldP!NoPod

\* The calls and returns of the handlers that write no status.
LEMMA SameSteps ==
  /\ Old!Requeue <=> OldP!Requeue
  /\ Old!Done <=> OldP!Done
  /\ \A step : Old!GoTo(step) <=> OldP!GoTo(step)
  /\ Old!GetFails <=> OldP!GetFails
  /\ Old!PodPhase(oldRc.key, oldRc.obj) = OldP!PodPhase(oldRc.key, oldRc.obj)
  /\ \A k : Old!Fault(k) <=> OldP!Fault(k)
  /\ \A j, n : Old!CreatePod(j, n) <=> OldP!CreatePod(j, n)
  /\ \A j, n : Old!DeletePod(j, n) <=> OldP!DeletePod(j, n)
  /\ (UNCHANGED Old!cluster <=> UNCHANGED OldP!cluster)
  /\ (UNCHANGED Old!clock <=> UNCHANGED OldP!clock)
  /\ (UNCHANGED Old!caches <=> UNCHANGED OldP!caches)
  /\ (UNCHANGED Old!history <=> UNCHANGED OldP!history)
<1>1. Old!Idle = OldP!Idle /\ Old!NoPod = OldP!NoPod
  BY DEF Old!Idle, OldP!Idle, Old!NoPod, OldP!NoPod
<1>2. (Old!Requeue <=> OldP!Requeue) /\ (Old!Done <=> OldP!Done)
  BY <1>1 DEF Old!Requeue, OldP!Requeue, Old!Done, OldP!Done
<1>3. \A step : Old!GoTo(step) <=> OldP!GoTo(step)
  BY DEF Old!GoTo, OldP!GoTo
<1>4. \A k : Old!Fault(k) <=> OldP!Fault(k)
  BY DEF Old!Fault, OldP!Fault
<1>5. Old!GetFails <=> OldP!GetFails
  BY <1>1, <1>4 DEF Old!GetFails, OldP!GetFails
<1>6. Old!PodPhase(oldRc.key, oldRc.obj) = OldP!PodPhase(oldRc.key, oldRc.obj)
  BY <1>1 DEF Old!PodPhase, OldP!PodPhase
<1>7. \A j, n : Old!CreatePod(j, n) <=> OldP!CreatePod(j, n)
  BY DEF Old!CreatePod, OldP!CreatePod, Old!AbsentPod, OldP!AbsentPod, Old!NewPod, OldP!NewPod
<1>8. \A j, n : Old!DeletePod(j, n) <=> OldP!DeletePod(j, n)
  BY DEF Old!DeletePod, OldP!DeletePod, Old!AbsentPod, OldP!AbsentPod,
         Old!Terminating, OldP!Terminating
<1>9. /\ (UNCHANGED Old!cluster <=> UNCHANGED OldP!cluster)
      /\ (UNCHANGED Old!clock <=> UNCHANGED OldP!clock)
      /\ (UNCHANGED Old!caches <=> UNCHANGED OldP!caches)
      /\ (UNCHANGED Old!history <=> UNCHANGED OldP!history)
  BY DEF Old!cluster, OldP!cluster, Old!clock, OldP!clock, Old!caches, OldP!caches,
         Old!history, OldP!history
<1> QED  BY <1>2, <1>3, <1>4, <1>5, <1>6, <1>7, <1>8, <1>9

\* A step of the old leader is a step of the reconciler the lemmas are about.
LEMMA OldOperatorStep == Old!OperatorStep => OldP!OperatorStep
<1>1. Old!UpdateTimedOut => OldP!UpdateTimedOut
  BY SameUpdates, SameFields DEF Old!UpdateTimedOut, OldP!UpdateTimedOut
<1>2. Old!HandleNewJob => OldP!HandleNewJob
  BY SameUpdates, SameFields DEF Old!HandleNewJob, OldP!HandleNewJob
<1>3. Old!UpdatePodName => OldP!UpdatePodName
  BY SameUpdates, SameFields DEF Old!UpdatePodName, OldP!UpdatePodName
<1>4. Old!UpdateProgress => OldP!UpdateProgress
  BY SameUpdates, SameFields DEF Old!UpdateProgress, OldP!UpdateProgress
<1>5. Old!UpdateLost => OldP!UpdateLost
  BY SameUpdates, SameFields DEF Old!UpdateLost, OldP!UpdateLost
<1>6. Old!UpdateRetry => OldP!UpdateRetry
  BY SameUpdates, SameFields DEF Old!UpdateRetry, OldP!UpdateRetry
<1>7. Old!UpdateExhausted => OldP!UpdateExhausted
  BY SameUpdates, SameFields DEF Old!UpdateExhausted, OldP!UpdateExhausted
<1>8. Old!UpdateCompleted => OldP!UpdateCompleted
  BY SameUpdates, SameFields DEF Old!UpdateCompleted, OldP!UpdateCompleted
<1>9. Old!HandlePendingJob => OldP!HandlePendingJob
  BY SameSteps DEF Old!HandlePendingJob, OldP!HandlePendingJob
<1>10. Old!CreateSimulatorPod => OldP!CreateSimulatorPod
  BY SameSteps DEF Old!CreateSimulatorPod, OldP!CreateSimulatorPod
<1>11. Old!HandleRunningJob => OldP!HandleRunningJob
  <2>1. \A phase : Old!AfterPod(phase, oldRc.obj) = OldP!AfterPod(phase, oldRc.obj)
    BY DEF Old!AfterPod, OldP!AfterPod
  <2> QED  BY <2>1, SameSteps DEF Old!HandleRunningJob, OldP!HandleRunningJob, Old!Poll, OldP!Poll
<1>12. \A step : Old!DeleteThen(step) => OldP!DeleteThen(step)
  BY SameSteps DEF Old!DeleteThen, OldP!DeleteThen
<1>13. Old!DeleteFailedPod => OldP!DeleteFailedPod
  BY <1>12 DEF Old!DeleteFailedPod, OldP!DeleteFailedPod
<1>14. Old!HandleTerminalJob => OldP!HandleTerminalJob
  BY SameSteps DEF Old!HandleTerminalJob, OldP!HandleTerminalJob
<1>15. Old!DeleteTerminalPod => OldP!DeleteTerminalPod
  BY <1>12 DEF Old!DeleteTerminalPod, OldP!DeleteTerminalPod
<1>16. Old!CheckTTL => OldP!CheckTTL
  BY SameSteps DEF Old!CheckTTL, OldP!CheckTTL, Old!AwaitTTL, OldP!AwaitTTL
<1> QED  BY <1>1, <1>2, <1>3, <1>4, <1>5, <1>6, <1>7, <1>8, <1>9, <1>10, <1>11, <1>13, <1>14,
            <1>15, <1>16 DEF Old!OperatorStep, OldP!OperatorStep

LEMMA OldSyncPods ==
  ASSUME NEW j \in Jobs, Old!SyncPods(j)
  PROVE  OldP!SyncPods(j)
<1>1. Old!Attempts = OldP!Attempts
  BY DEF Old!Attempts, OldP!Attempts
<1> QED  BY <1>1, SameSteps DEF Old!SyncPods, OldP!SyncPods

-----------------------------------------------------------------------------
(* The two views share the cluster and its moves.                          *)

LEMMA SameCopy ==
  \A j \in Jobs : \A o : OldP!CopyOf(j, o) <=> CopyOf(j, o)
  BY SameObjects
     DEF OldP!CopyOf, CopyOf, OldP!WellFormed, WellFormed, OldP!Justified, Justified,
         OldP!NotNewer, NotNewer, OldP!Exists, Exists

LEMMA SameCluster == OldP!ClusterOK <=> ClusterOK
<1>1. OldP!ClusterType <=> ClusterType
  BY SameObjects DEF OldP!ClusterType, ClusterType
<1> QED  BY <1>1, SameObjects, SameCopy DEF OldP!ClusterOK, ClusterOK, OldP!Exists, Exists

LEMMA SameMoves == OldP!Moves <=> Moves
  BY SameObjects DEF OldP!Moves, Moves, OldP!HistoryGrows, HistoryGrows, OldP!Exists, Exists

LEMMA SameBars ==
  /\ OldP!PhaseOf = PhaseOf /\ OldP!AttemptOf = AttemptOf /\ OldP!FailedOf = FailedOf
  BY SameObjects
     DEF OldP!PhaseOf, PhaseOf, OldP!AttemptOf, AttemptOf, OldP!FailedOf, FailedOf,
         OldP!Exists, Exists

LEMMA SameClusterNext == (OldP!ClusterOK' <=> ClusterOK') /\ (OldP!ClusterType' <=> ClusterType')
<1>1. OldP!ClusterType <=> ClusterType
  BY SameObjects DEF OldP!ClusterType, ClusterType
<1> QED  BY <1>1, SameCluster, PTL

-----------------------------------------------------------------------------
(* The invariant.                                                          *)

\* Each of the two operators has its view of the one cluster.
FailoverInv == ClusterOK /\ ReconcilerOK /\ OldP!ReconcilerOK

LEMMA BothViews == FailoverInv <=> View /\ OldP!View
  BY SameCluster DEF FailoverInv, View, OldP!View

\* No leader that has been replaced is still at work.
NobodyBefore == oldPodCache = NoPods /\ oldQueue = {} /\ oldRc = Idle

LEMMA NobodyKnowsNothing == NobodyBefore => OldP!ReconcilerOK
<1> SUFFICES ASSUME NobodyBefore  PROVE OldP!ReconcilerOK
  OBVIOUS
<1>1. OldP!ReconcilerType /\ OldP!CachedPhases
  BY SameObjects DEF OldP!ReconcilerType, OldP!CachedPhases, NobodyBefore, NoPods
<1> QED  BY <1>1, SameObjects, OldP!IdleKnowsNothing, JobsAssumption, BoundsAssumption DEF NobodyBefore

LEMMA NobodyKnowsNothingNext == NobodyBefore' => OldP!ReconcilerOK'
  BY NobodyKnowsNothing, PTL

LEMMA FailoverInvInit == FailoverInit => FailoverInv
  BY ViewInit, NobodyKnowsNothing DEF FailoverInit, NobodyBefore, FailoverInv, View

\* The steps of the leader and of everybody else, as in QuantumAerJobController.
LEMMA LeaderStep ==
  ASSUME FailoverInv, [Next]_vars, UNCHANGED old
  PROVE  FailoverInv'
<1>1. View' /\ Moves
  BY ViewStep, BothViews
<1>2. OldP!View /\ OldP!ClusterType' /\ OldP!Moves
  BY <1>1, BothViews, SameClusterNext, SameMoves DEF View, ClusterOK
<1>3. OldP!ReconcilerOK'
  BY <1>2, SameObjects, OldP!ReconcilerStays, JobsAssumption, BoundsAssumption DEF old
<1> QED  BY <1>1, <1>3 DEF FailoverInv, View

\* The old leader takes what it knows with it; it does not need its cache of pods
\* any more when getForPod is behind it.
LEMMA TakeOverKeeps ==
  ASSUME FailoverInv, TakeOver
  PROVE  FailoverInv'
<1>1. View' /\ Moves
  BY CrashMoves, BothViews DEF TakeOver
<1>2. UNCHANGED <<job, submitted, timedOut, failures, succeeded>>
  BY DEF TakeOver, CrashRestart, cluster, clock, history
<1>3. /\ oldRc' = rc /\ oldQueue' = {} /\ rc # Idle
      /\ oldPodCache' = podCache \/ oldPodCache' = NoPods
  BY DEF TakeOver
<1>4. /\ rc \in [pc : Steps \ {"idle"}, key : Jobs, obj : JobObject]
      /\ rc.key \in Jobs /\ rc.obj \in JobObject
  BY <1>3 DEF FailoverInv, ReconcilerOK, ReconcilerType
<1>5. OldP!ReconcilerType' /\ OldP!CachedPhases'
  BY <1>2, <1>3, <1>4, SameObjects
     DEF FailoverInv, ReconcilerOK, ReconcilerType, CachedPhases,
         OldP!ReconcilerType, OldP!CachedPhases, NoPods
<1>6. OldP!StepOK' /\ OldP!StepEvidence'
  BY <1>2, <1>3, SameObjects
     DEF FailoverInv, ReconcilerOK, StepOK, StepEvidence, AtPending, AtRunning, AtTerminal,
         OldP!StepOK, OldP!StepEvidence, OldP!AtPending, OldP!AtRunning, OldP!AtTerminal
<1>7. OldP!CopyOf(oldRc.key, oldRc.obj)'
  <2>1. CopyOf(rc.key, rc.obj)
    BY <1>3 DEF FailoverInv, ReconcilerOK
  <2> QED  BY <1>2, <1>3, <2>1, SameObjects
           DEF CopyOf, OldP!CopyOf, WellFormed, OldP!WellFormed, Justified, OldP!Justified,
               NotNewer, OldP!NotNewer, Exists, OldP!Exists
<1> QED  BY <1>1, <1>5, <1>6, <1>7 DEF FailoverInv, View, OldP!ReconcilerOK

\* The new leader does not move; the old one makes the step of an operator.
LEMMA OldStepKeeps ==
  ASSUME FailoverInv, OldStep
  PROVE  FailoverInv'
<1>1. OldP!Moves /\ OldP!View'
  <2>1. CASE Old!OperatorStep
    BY <2>1, BothViews, OldOperatorStep, SameObjects, OldP!OperatorMoves, JobsAssumption,
       BoundsAssumption
  <2>2. ASSUME NEW j \in Jobs, Old!SyncPods(j)
        PROVE  OldP!Moves /\ OldP!View'
    BY <2>2, BothViews, OldSyncPods, SameObjects, OldP!SyncMoves, JobsAssumption, BoundsAssumption
  <2> QED  BY <2>1, <2>2 DEF OldStep
<1>2. ClusterOK' /\ Moves /\ OldP!ReconcilerOK'
  BY <1>1, SameClusterNext, SameMoves DEF OldP!View
<1>3. ReconcilerOK'
  BY <1>2, BothViews, ReconcilerStays DEF OldStep, ClusterOK
<1> QED  BY <1>2, <1>3 DEF FailoverInv

LEMMA OldExitsKeeps ==
  ASSUME FailoverInv, OldExits
  PROVE  FailoverInv'
<1>1. View'
  BY BothViews, StutterMoves DEF OldExits
<1>2. OldP!ReconcilerOK'
  BY NobodyKnowsNothingNext DEF OldExits, NobodyBefore, NoPods, Idle, Attempts
<1> QED  BY <1>1, <1>2 DEF FailoverInv, View

\* Every step of the pair, as one of the reconcilers sees it.
LEMMA KindsOfFailoverSteps ==
  ASSUME [FailoverNext]_<<vars, old>>
  PROVE  \/ [Next]_vars /\ UNCHANGED old
         \/ TakeOver \/ OldStep \/ OldExits
  BY DEF FailoverNext

\* The pair keeps both views.
THEOREM BothViewsStay == FailoverSpec => []FailoverInv
<1>1. FailoverInv /\ [FailoverNext]_<<vars, old>> => FailoverInv'
  BY KindsOfFailoverSteps, LeaderStep, TakeOverKeeps, OldStepKeeps, OldExitsKeeps
<1> QED  BY FailoverInvInit, <1>1, PTL DEF FailoverSpec

-----------------------------------------------------------------------------
(* What survives a change of leaders.                                      *)

\* The pod of the attempt a completed job names has exited with 0, whichever of the
\* two leaders wrote the status, and however old the phase it had read.
THEOREM CompletedByItsAttemptOfTwo == FailoverSpec => []CompletedByItsAttempt
<1>1. FailoverInv => CompletedByItsAttempt
  BY DEF FailoverInv, ClusterOK, CopyOf, Justified, CompletedByItsAttempt
<1> QED  BY <1>1, BothViewsStay, PTL

\* A job fails only because its time has run out or every attempt has failed: two
\* leaders that retry the same job do not use up its retries twice as fast.
THEOREM FailedForAReasonOfTwo == FailoverSpec => []FailedForAReason
<1>1. FailoverInv => FailedForAReason
  BY DEF FailoverInv, ClusterOK, CopyOf, Justified, FailedForAReason
<1> QED  BY <1>1, BothViewsStay, PTL

LEMMA SameVerdicts == OldP!VerdictKept <=> VerdictKept
  BY SameObjects DEF OldP!VerdictKept, VerdictKept, OldP!Exists, Exists

\* A finished job keeps its verdict, its attempt and its pod: the late calls of the
\* leader that was replaced lose against it, without any fencing.
THEOREM VerdictIsFinalForTwo == FailoverSpec => TerminalIsFinal
<1>1. FailoverInv /\ [FailoverNext]_<<vars, old>> => [VerdictKept]_vars
  <2> SUFFICES ASSUME FailoverInv, [FailoverNext]_<<vars, old>>
               PROVE  [VerdictKept]_vars
    OBVIOUS
  <2>1. CASE [Next]_vars \/ TakeOver
    BY <2>1, VerdictStep, BothViews DEF TakeOver, Next
  <2>2. CASE OldStep
    <3>1. OldP!Next
      BY <2>2, OldOperatorStep, OldSyncPods DEF OldStep, OldP!Next, OldP!JobStep
    <3>2. OldP!VerdictKept
      BY <3>1, BothViews, OldP!VerdictStep, SameObjects, JobsAssumption, BoundsAssumption
    <3> QED  BY <3>2, SameVerdicts
  <2>3. CASE OldExits
    BY <2>3 DEF OldExits
  <2> QED  BY <2>1, <2>2, <2>3, KindsOfFailoverSteps
<1> QED  BY <1>1, BothViewsStay, PTL DEF FailoverSpec, TerminalIsFinal, VerdictKept

-----------------------------------------------------------------------------
(* The refinement of JobLifecycle.                                         *)

LEMMA SameBarsNext ==
  /\ OldP!PhaseOf' = PhaseOf' /\ OldP!AttemptOf' = AttemptOf' /\ OldP!FailedOf' = FailedOf'
  BY SameObjects
     DEF OldP!PhaseOf, PhaseOf, OldP!AttemptOf, AttemptOf, OldP!FailedOf, FailedOf,
         OldP!Exists, Exists

LEMMA SameMove ==
  \A j, p, q : OldP!Lifecycle!Move(j, p, q) <=> Lifecycle!Move(j, p, q)
  BY SameBars, SameBarsNext DEF OldP!Lifecycle!Move, Lifecycle!Move

LEMMA SameLifecycle ==
  ASSUME OldP!Lifecycle!Next \/ UNCHANGED OldP!Lifecycle!vars
  PROVE  Lifecycle!Next \/ UNCHANGED Lifecycle!vars
<1>1. CASE UNCHANGED OldP!Lifecycle!vars
  BY <1>1, SameBars, SameBarsNext DEF OldP!Lifecycle!vars, Lifecycle!vars
<1>2. ASSUME NEW j \in Jobs,
             \/ OldP!Lifecycle!Submit(j) \/ OldP!Lifecycle!Admit(j) \/ OldP!Lifecycle!Launch(j)
             \/ OldP!Lifecycle!Relaunch(j)
      PROVE  Lifecycle!Next
  BY <1>2, SameMove
     DEF OldP!Lifecycle!Submit, Lifecycle!Submit, OldP!Lifecycle!Admit, Lifecycle!Admit,
         OldP!Lifecycle!Launch, Lifecycle!Launch, OldP!Lifecycle!Relaunch, Lifecycle!Relaunch,
         Lifecycle!Next
<1>3. ASSUME NEW j \in Jobs,
             \/ OldP!Lifecycle!Retry(j) \/ OldP!Lifecycle!Complete(j)
             \/ OldP!Lifecycle!Exhaust(j) \/ OldP!Lifecycle!TimeOut(j)
      PROVE  Lifecycle!Next
  BY <1>3, SameMove, SameBars, SameBarsNext
     DEF OldP!Lifecycle!Retry, Lifecycle!Retry, OldP!Lifecycle!Complete, Lifecycle!Complete,
         OldP!Lifecycle!Exhaust, Lifecycle!Exhaust, OldP!Lifecycle!TimeOut, Lifecycle!TimeOut,
         OldP!Lifecycle!Active, Lifecycle!Active, Lifecycle!Next
<1>4. ASSUME NEW j \in Jobs,
             \/ OldP!Lifecycle!Remove(j)
             \/ \E n \in Attempts :
                    OldP!Lifecycle!AttemptFails(j, n) \/ OldP!Lifecycle!AttemptSucceeds(j, n)
      PROVE  Lifecycle!Next
  BY <1>4, SameBars, SameBarsNext
     DEF OldP!Lifecycle!Remove, Lifecycle!Remove, OldP!Lifecycle!Terminal, Lifecycle!Terminal,
         OldP!Lifecycle!AttemptFails, Lifecycle!AttemptFails, OldP!Lifecycle!AttemptSucceeds,
         Lifecycle!AttemptSucceeds, Lifecycle!Attempts, Attempts, Lifecycle!Next
<1> QED  BY <1>1, <1>2, <1>3, <1>4
         DEF OldP!Lifecycle!Next, OldP!Lifecycle!Attempts, Attempts

\* The status of each job moves as JobLifecycle allows, in every step of either
\* leader.
THEOREM ImplementationOfTwo == FailoverSpec => ImplementsLifecycle
<1>1. FailoverInit => Lifecycle!Init
  BY LifecycleInit DEF FailoverInit
<1>2. FailoverInv /\ [FailoverNext]_<<vars, old>> => [Lifecycle!Next]_(Lifecycle!vars)
  <2> SUFFICES ASSUME FailoverInv, [FailoverNext]_<<vars, old>>
               PROVE  Lifecycle!Next \/ UNCHANGED Lifecycle!vars
    OBVIOUS
  <2>1. CASE [Next]_vars \/ TakeOver \/ OldExits
    BY <2>1, LifecycleStep, BothViews DEF TakeOver, OldExits, Next
  <2>2. CASE OldStep
    <3>1. OldP!Next
      BY <2>2, OldOperatorStep, OldSyncPods DEF OldStep, OldP!Next, OldP!JobStep
    <3>2. OldP!Lifecycle!Next \/ UNCHANGED OldP!Lifecycle!vars
      BY <3>1, BothViews, OldP!LifecycleStep, SameObjects, JobsAssumption, BoundsAssumption
    <3> QED  BY <3>2, SameLifecycle
  <2> QED  BY <2>1, <2>2, KindsOfFailoverSteps
<1> QED  BY <1>1, <1>2, BothViewsStay, PTL DEF FailoverSpec, ImplementsLifecycle, Lifecycle!Spec

-----------------------------------------------------------------------------
(* What TLC checks is part of it.                                          *)

\* The behaviours in which simulators report no failure are behaviours of the two
\* leaders: every theorem above is one about them, too.
THEOREM TerseIsPartOfIt == TerseSpec => FailoverSpec
<1>1. ASSUME NEW j \in Jobs, NEW n \in Attempts, TerseStep(j, n)
      PROVE  PodStep(j, n)
  BY <1>1 DEF TerseStep, PodStep
<1>2. [TerseNext]_<<vars, old>> => [FailoverNext]_<<vars, old>>
  BY <1>1 DEF TerseNext, FailoverNext, Next
<1> QED  BY <1>2, PTL DEF TerseSpec, FailoverSpec
=============================================================================
