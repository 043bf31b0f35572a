------------------------------- MODULE Worker -------------------------------
(***************************************************************************)
(* worker.py: `kubectl exec ... python worker.py <file>` starts a process  *)
(* that executes the user's code. It may call run() of a remote backend,   *)
(* then result() of the job, or stop at any time before; it may let the    *)
(* exceptions of the backend pass, or catch them and go on.                *)
(***************************************************************************)
CONSTANTS
    Requests,   \* processes, each with a circuit of its own
    Straight,   \* those whose code calls run(), then result(), catches nothing and
                \* does not exit by itself, like simulator_service_test_job.py
    None        \* no result

VARIABLES
    worker,     \* worker[r]: the process, and how it has ended
    client, got \* see RemoteAerJob

Backend == INSTANCE RemoteAerJob

\* "completed" exits with 0, "failed" with 1.
Steps == {"ready", "executing", "completed", "failed"}

TypeOK == worker \in [Requests -> Steps]

Init == worker = [r \in Requests |-> "ready"]

Move(r, p, q) ==
    /\ worker[r] = p
    /\ worker' = [worker EXCEPT ![r] = q]

\* No file is named, or it is not there.
Usage(r) == Move(r, "ready", "failed")

Execute(r) == Move(r, "ready", "executing")

\* Where the user's code is when it is not inside run() or result().
InUserCode(r) == client[r] \in {"idle", "submitted", "returned"}

\* An exception ends exec, whether the backend has raised it or the user's code.
\* (Mutant: it is printed and that is all.)
ExceptionIgnored(r) ==
    /\ client[r] \in Backend!Raised \/ InUserCode(r)
    /\ Move(r, "executing", "completed")
Exception(r) ==
    /\ client[r] \in Backend!Raised \/ InUserCode(r)
    /\ Move(r, "executing", "failed")

\* exec returns, for whatever reason. Straight code returns from exec at its end only;
\* other code may have caught what the backend raised, or never have called it.
CodeEnds(r) ==
    \/ client[r] = "returned"
    \/ r \notin Straight /\ (client[r] \in Backend!Raised \/ InUserCode(r))
Complete(r) ==
    /\ CodeEnds(r)
    /\ Move(r, "executing", "completed")
=============================================================================
