---------------------------- MODULE LeaderFailover ----------------------------
(***************************************************************************)
(* Leader election of the operator (cmd/main.go; --leader-elect in         *)
(* config/manager/manager.yaml).  An operator that is paused or cut off    *)
(* until its lease has run out is replaced by another, and may still make  *)
(* the calls of the reconcile it was in before it notices and exits.       *)
(* Nothing tells the API server which of the two is the leader: there is   *)
(* no fencing.                                                             *)
(*                                                                         *)
(* The leader is the operator of QuantumAerJobController; what is left of  *)
(* the one before it is a second instance of the same reconciler, with its *)
(* own queue, cache of pods and reconcile in progress.                     *)
(***************************************************************************)
EXTENDS QuantumAerJobController

VARIABLES oldPodCache, oldQueue, oldRc

old == <<oldPodCache, oldQueue, oldRc>>

Old == INSTANCE QuantumAerJobController WITH
    podCache <- oldPodCache, queue <- oldQueue, rc <- oldRc

\* The handlers that begin with getForPod; after it the cache is not read again.
ReadsPods(c) == c.pc \in {"pending", "running", "terminal"}

NoPods == [j \in Jobs |-> [n \in Attempts |-> "absent"]]

FailoverInit ==
    /\ Init
    /\ oldPodCache = NoPods /\ oldQueue = {} /\ oldRc = Idle

\* The lease has run out in the middle of a reconcile; another process acquires
\* it and starts from nothing.
TakeOver ==
    /\ rc # Idle
    /\ CrashRestart
    /\ oldPodCache' = IF ReadsPods(rc) THEN podCache ELSE NoPods
    /\ oldQueue' = {} /\ oldRc' = rc

\* The old leader goes on with its reconcile; its watch of pods may deliver first.
OldStep ==
    /\ \/ Old!OperatorStep
       \/ \E j \in Jobs : ReadsPods(oldRc) /\ Old!SyncPods(j)
    /\ UNCHANGED <<podCache, queue, rc>>

\* "leader election lost": it exits, at the latest when the reconcile is over.
OldExits ==
    /\ oldPodCache' = NoPods /\ oldQueue' = {} /\ oldRc' = Idle
    /\ old' # old
    /\ UNCHANGED vars

FailoverNext ==
    \/ TakeOver \/ OldStep \/ OldExits
    \/ UNCHANGED old /\ Next

FailoverSpec == FailoverInit /\ [][FailoverNext]_<<vars, old>>

-----------------------------------------------------------------------------
(* A smaller specification for TLC, in which a failure is not reported, it *)
(* only ends the pod.  A report is one more patch of errorMessage, and the *)
(* patches of the successes are there to make the leaders' updates         *)
(* conflict.                                                               *)

TerseStep(j, n) ==
    \/ StartSimulator(j, n) \/ ReportSuccess(j, n) \/ ExitSuccess(j, n) \/ KillPod(j, n)
    \/ CollectPod(j, n) \/ ReapPod(j, n)

TerseNext ==
    \/ TakeOver \/ OldStep \/ OldExits
    \/ UNCHANGED old /\ OperatorStep
    \/ UNCHANGED old /\ \E j \in Jobs : Reconcile(j) \/ JobStep(j)
    \/ UNCHANGED old /\ \E j \in Jobs : \E n \in Attempts : TerseStep(j, n)

TerseSpec == FailoverInit /\ [][TerseNext]_<<vars, old>>
=============================================================================
