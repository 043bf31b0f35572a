----------------------------- MODULE RemoteAerJob -----------------------------
(***************************************************************************)
(* remote_aer_backend.py, run by the user's code in the worker: one run()  *)
(* of RemoteAerBackend and result() of the RemoteAerJob that it returns.   *)
(* Replies are parameters: the service they come from is not modelled here.*)
(***************************************************************************)
CONSTANTS
    Requests,   \* runs, each with a circuit of its own
    None        \* no result

VARIABLES
    client,     \* client[r]: where the run is
    got         \* got[r]: _result_cache

\* The exceptions: "unreachable" and "rejected" are raised by run, "failed",
\* "overdue" and "broken" by result, the last where a reply was not foreseen.
Raised == {"unreachable", "rejected", "failed", "overdue", "broken"}
Steps == {"idle", "waiting", "submitted", "polling", "fetching", "returned"} \cup Raised

TypeOK ==
    /\ client \in [Requests -> Steps]
    /\ got \in [Requests -> Requests \cup {None}]

Init ==
    /\ client = [r \in Requests |-> "idle"]
    /\ got = [r \in Requests |-> None]

Move(r, p, q) ==
    /\ client[r] = p
    /\ client' = [client EXCEPT ![r] = q]

\* POST /transpile with a time limit of 30 seconds.
Run(r) == Move(r, "idle", "waiting") /\ UNCHANGED got
PostTimesOut(r) == Move(r, "waiting", "unreachable") /\ UNCHANGED got
Answered(r, accepted) ==
    /\ Move(r, "waiting", IF accepted THEN "submitted" ELSE "rejected")
    /\ UNCHANGED got

\* result(), the first time: nothing is cached, and polling begins.
CallResult(r) == Move(r, "submitted", "polling") /\ UNCHANGED got

\* One round of _poll_for_result: anything but completed or failed, a reply other
\* than 200 included, means another round.  (Mutants: a job that is not found has
\* failed; failed jobs are polled, too.)
PollOnce(r, status, notFound) ==
    /\ \/ status = "completed" /\ Move(r, "polling", "fetching")
       \/ (status = "failed" \/ notFound) /\ Move(r, "polling", "failed")
    /\ UNCHANGED got
PollForCompleted(r, status, notFound) ==
    status = "completed" /\ Move(r, "polling", "fetching") /\ UNCHANGED got
Poll(r, status, notFound) ==
    /\ \/ status = "completed" /\ Move(r, "polling", "fetching")
       \/ status = "failed" /\ Move(r, "polling", "failed")
    /\ UNCHANGED got

\* result_resp.json()['result'], whatever the code of the reply, and its decoding:
\* both raise if there is no result.
Receive(r, result) ==
    /\ Move(r, "fetching", IF result = None THEN "broken" ELSE "returned")
    /\ got' = [got EXCEPT ![r] = result]

\* requests.exceptions.RequestException
FetchTimesOut(r) == Move(r, "fetching", "polling") /\ UNCHANGED got

GiveUp(r) == Move(r, "polling", "overdue") /\ UNCHANGED got
=============================================================================
