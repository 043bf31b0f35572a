------------------------------ MODULE JobStore ------------------------------
(***************************************************************************)
(* utils/redisDB.py: what the transpiler service and the simulators share. *)
(* One value per job, written whole and never compared: setex has neither  *)
(* a check for an existing key nor one for the value that was read.        *)
(***************************************************************************)
CONSTANTS
    Jobs,       \* job ids; the key is "job:<id>"
    Circuits,   \* circuits, transpiled or not; a result has the name of its circuit
    None        \* no value

VARIABLE store

\* The timestamps are left out.
JobData == [circuit : Circuits, results : Circuits \cup {None}]

TypeOK == store \in [Jobs -> JobData \cup {None}]

Init == store = [j \in Jobs |-> None]

CreateJobData(j, circuit) ==
    store' = [store EXCEPT ![j] = [circuit |-> circuit, results |-> None]]

GetJobData(j) == store[j]

UpdateJobData(j, data) == store' = [store EXCEPT ![j] = data]

\* delete_job_data has no caller; what it does, Redis does by itself.
DeleteJobData(j) == store' = [store EXCEPT ![j] = None]

\* The value reaches its time to live, is evicted (allkeys-lru), or Redis, which
\* has no volume, is restarted.
Forget(j) == store[j] # None /\ DeleteJobData(j)
=============================================================================
