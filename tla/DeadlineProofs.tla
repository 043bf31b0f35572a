---------------------------- MODULE DeadlineProofs ----------------------------
(***************************************************************************)
(* The three properties of Deadlines hold for all limits that satisfy      *)
(* LimitsAssumption, whatever the bound on time.                           *)
(***************************************************************************)
EXTENDS Deadlines, TLAPS

\* The circuit is stored within two Lags of the moment the job's time starts, and
\* the data is only ever replaced by newer data.
StoreInv ==
    /\ expires # 0 => StoredAt <= now
    /\ jobStatus # "absent" => expires # 0
    /\ jobStatus \in {"absent", "new"} => pod = "none" /\ presence = "present"
    /\ jobStatus = "absent" /\ expires # 0 => now <= StoredAt + Lag
    /\ jobStatus = "new" => now <= StoredAt + 2 * Lag
    /\ jobStatus = "active" =>
        /\ startTime <= now /\ startTime <= StoredAt + 2 * Lag
        /\ now <= startTime + JobTimeOut + Lag
        /\ presence = "present"

\* A result is at most two Lags old when its job is completed, and the operator
\* removes a finished job within a Lag of its TTL.
ResultInv ==
    /\ pod \in {"stored", "succeeded"} => expires # 0 /\ results = "there"
    /\ pod = "stored" => now <= StoredAt + Lag
    /\ jobStatus = "active" /\ pod = "succeeded" => now <= StoredAt + 2 * Lag
    /\ jobStatus = "completed" => results = "there" /\ completionTime <= StoredAt + 2 * Lag
    /\ jobStatus \in Terminal => completionTime <= now
    /\ jobStatus \in Terminal /\ presence = "present" => now <= completionTime + TTL + Lag
    /\ presence = "deleted" => completionTime + TTL <= now

AskedLate == began + 2 * Lag >= completionTime + TTL

\* A client that is waiting has seen the job undecided at its last poll, or has not
\* polled yet, or came too late.
ClientInv ==
    /\ client # "idle" => jobStatus # "absent" /\ began <= now
    /\ client \in {"polling", "fetching"} => now <= wake + Lag /\ wake <= now + Interval
    /\ client = "polling" /\ jobStatus \in Terminal =>
        wake = began \/ wake <= completionTime + Interval \/ AskedLate
    /\ client = "fetching" =>
        /\ jobStatus = "completed"
        /\ wake <= began + Lag \/ wake <= completionTime + Interval + Lag \/ AskedLate
    /\ client = "broken" => jobStatus = "completed"
    /\ client = "timeout" /\ jobStatus \notin Terminal => began + ClientTimeOut <= now

IInv == TypeOK /\ StoreInv /\ ResultInv /\ ClientInv /\ NobodyWaitsInVain

\* Type correctness is inductive.
LEMMA TypePreserved ==
    ASSUME TypeOK, [Next]_vars
    PROVE  TypeOK'
<1> USE LimitsAssumption DEF TypeOK, Terminal, resource, data, clients
<1>1. CASE StoreCircuit
  BY <1>1 DEF StoreCircuit, SetJobData
<1>2. CASE CreateResource
  BY <1>2 DEF CreateResource
<1>3. CASE Admit
  BY <1>3 DEF Admit
<1>4. CASE TimeOut
  BY <1>4 DEF TimeOut, Finish
<1>5. CASE Complete
  BY <1>5 DEF Complete, Finish
<1>6. CASE Exhaust
  BY <1>6 DEF Exhaust, Finish
<1>7. CASE CreatePod
  BY <1>7 DEF CreatePod
<1>8. CASE DeletePod
  BY <1>8 DEF DeletePod
<1>9. CASE DeleteResource
  BY <1>9 DEF DeleteResource, TTLExceeded
<1>10. CASE Load
  BY <1>10 DEF Load, SimulatorStep
<1>11. CASE StoreResult
  BY <1>11 DEF StoreResult, SimulatorStep, SetJobData
<1>12. CASE ExitSuccess
  BY <1>12 DEF ExitSuccess, SimulatorStep
<1>13. CASE Fail
  BY <1>13 DEF Fail, SimulatorStep
<1>14. CASE CallResult
  BY <1>14 DEF CallResult
<1>15. CASE Poll
  BY <1>15 DEF Poll, StatusOf, Sleep, InTime
<1>16. CASE GiveUp
  BY <1>16 DEF GiveUp, InTime
<1>17. CASE Fetch
  BY <1>17 DEF Fetch, StatusOf, Stored
<1>18. CASE Tick
  BY <1>18 DEF Tick, Due
<1>19. CASE UNCHANGED vars
  BY <1>19 DEF vars
<1> QED
  BY <1>1, <1>2, <1>3, <1>4, <1>5, <1>6, <1>7, <1>8, <1>9, <1>10, <1>11, <1>12, <1>13, <1>14, <1>15, <1>16, <1>17, <1>18, <1>19 DEF Next

\* StoreInv is inductive.
LEMMA StorePreserved ==
    ASSUME TypeOK, StoreInv, [Next]_vars
    PROVE  StoreInv'
<1> USE LimitsAssumption DEF TypeOK, Terminal, StoreInv, StoredAt, resource, data, clients
<1>1. CASE StoreCircuit
  BY <1>1 DEF StoreCircuit, SetJobData
<1>2. CASE CreateResource
  BY <1>2 DEF CreateResource
<1>3. CASE Admit
  BY <1>3 DEF Admit
<1>4. CASE TimeOut
  BY <1>4 DEF TimeOut, Finish
<1>5. CASE Complete
  BY <1>5 DEF Complete, Finish
<1>6. CASE Exhaust
  BY <1>6 DEF Exhaust, Finish
<1>7. CASE CreatePod
  BY <1>7 DEF CreatePod
<1>8. CASE DeletePod
  BY <1>8 DEF DeletePod
<1>9. CASE DeleteResource
  BY <1>9 DEF DeleteResource, TTLExceeded
<1>10. CASE Load
  BY <1>10 DEF Load, SimulatorStep
<1>11. CASE StoreResult
  BY <1>11 DEF StoreResult, SimulatorStep, SetJobData
<1>12. CASE ExitSuccess
  BY <1>12 DEF ExitSuccess, SimulatorStep
<1>13. CASE Fail
  BY <1>13 DEF Fail, SimulatorStep
<1>14. CASE CallResult
  BY <1>14 DEF CallResult
<1>15. CASE Poll
  BY <1>15 DEF Poll, StatusOf, Sleep, InTime
<1>16. CASE GiveUp
  BY <1>16 DEF GiveUp, InTime
<1>17. CASE Fetch
  BY <1>17 DEF Fetch, StatusOf, Stored
<1>18. CASE Tick
  BY <1>18 DEF Tick, Due
<1>19. CASE UNCHANGED vars
  BY <1>19 DEF vars
<1> QED
  BY <1>1, <1>2, <1>3, <1>4, <1>5, <1>6, <1>7, <1>8, <1>9, <1>10, <1>11, <1>12, <1>13, <1>14, <1>15, <1>16, <1>17, <1>18, <1>19 DEF Next

\* ResultInv is inductive relative to StoreInv.
LEMMA ResultPreserved ==
    ASSUME TypeOK, StoreInv, ResultInv, [Next]_vars
    PROVE  ResultInv'
<1> USE LimitsAssumption DEF TypeOK, Terminal, StoreInv, ResultInv, StoredAt, resource, data, clients
<1>1. CASE StoreCircuit
  BY <1>1 DEF StoreCircuit, SetJobData
<1>2. CASE CreateResource
  BY <1>2 DEF CreateResource
<1>3. CASE Admit
  BY <1>3 DEF Admit
<1>4. CASE TimeOut
  BY <1>4 DEF TimeOut, Finish
<1>5. CASE Complete
  BY <1>5 DEF Complete, Finish
<1>6. CASE Exhaust
  BY <1>6 DEF Exhaust, Finish
<1>7. CASE CreatePod
  BY <1>7 DEF CreatePod
<1>8. CASE DeletePod
  BY <1>8 DEF DeletePod
<1>9. CASE DeleteResource
  BY <1>9 DEF DeleteResource, TTLExceeded
<1>10. CASE Load
  BY <1>10 DEF Load, SimulatorStep
<1>11. CASE StoreResult
  BY <1>11 DEF StoreResult, SimulatorStep, SetJobData
<1>12. CASE ExitSuccess
  BY <1>12 DEF ExitSuccess, SimulatorStep
<1>13. CASE Fail
  BY <1>13 DEF Fail, SimulatorStep
<1>14. CASE CallResult
  BY <1>14 DEF CallResult
<1>15. CASE Poll
  BY <1>15 DEF Poll, StatusOf, Sleep, InTime
<1>16. CASE GiveUp
  BY <1>16 DEF GiveUp, InTime
<1>17. CASE Fetch
  BY <1>17 DEF Fetch, StatusOf, Stored
<1>18. CASE Tick
  BY <1>18 DEF Tick, Due
<1>19. CASE UNCHANGED vars
  BY <1>19 DEF vars
<1> QED
  BY <1>1, <1>2, <1>3, <1>4, <1>5, <1>6, <1>7, <1>8, <1>9, <1>10, <1>11, <1>12, <1>13, <1>14, <1>15, <1>16, <1>17, <1>18, <1>19 DEF Next

\* ClientInv is inductive relative to the other two.
LEMMA ClientPreserved ==
    ASSUME TypeOK, StoreInv, ResultInv, ClientInv, [Next]_vars
    PROVE  ClientInv'
<1> USE LimitsAssumption DEF TypeOK, Terminal, StoreInv, ResultInv, ClientInv, AskedLate, StoredAt, resource, data, clients
<1>1. CASE StoreCircuit
  BY <1>1 DEF StoreCircuit, SetJobData
<1>2. CASE CreateResource
  BY <1>2 DEF CreateResource
<1>3. CASE Admit
  BY <1>3 DEF Admit
<1>4. CASE TimeOut
  BY <1>4 DEF TimeOut, Finish
<1>5. CASE Complete
  BY <1>5 DEF Complete, Finish
<1>6. CASE Exhaust
  BY <1>6 DEF Exhaust, Finish
<1>7. CASE CreatePod
  BY <1>7 DEF CreatePod
<1>8. CASE DeletePod
  BY <1>8 DEF DeletePod
<1>9. CASE DeleteResource
  BY <1>9 DEF DeleteResource, TTLExceeded
<1>10. CASE Load
  BY <1>10 DEF Load, SimulatorStep
<1>11. CASE StoreResult
  BY <1>11 DEF StoreResult, SimulatorStep, SetJobData
<1>12. CASE ExitSuccess
  BY <1>12 DEF ExitSuccess, SimulatorStep
<1>13. CASE Fail
  BY <1>13 DEF Fail, SimulatorStep
<1>14. CASE CallResult
  BY <1>14 DEF CallResult
<1>15. CASE Poll
  BY <1>15 DEF Poll, StatusOf, Sleep, InTime
<1>16. CASE GiveUp
  BY <1>16 DEF GiveUp, InTime
<1>17. CASE Fetch
  BY <1>17 DEF Fetch, StatusOf, Stored
<1>18. CASE Tick
  BY <1>18 DEF Tick, Due
<1>19. CASE UNCHANGED vars
  BY <1>19 DEF vars
<1> QED
  BY <1>1, <1>2, <1>3, <1>4, <1>5, <1>6, <1>7, <1>8, <1>9, <1>10, <1>11, <1>12, <1>13, <1>14, <1>15, <1>16, <1>17, <1>18, <1>19 DEF Next

\* So is NobodyWaitsInVain: a client that gives up is one that ClientInv has let wait
\* through the last round, and a reply without a result means that the TTL has passed.
LEMMA AnswerPreserved ==
    ASSUME TypeOK, StoreInv, ResultInv, ClientInv, NobodyWaitsInVain, [Next]_vars
    PROVE  NobodyWaitsInVain'
<1> USE LimitsAssumption DEF TypeOK, Terminal, StoreInv, ResultInv, ClientInv, NobodyWaitsInVain, AskedLate, StoredAt, resource, data, clients
<1>1. CASE StoreCircuit
  BY <1>1 DEF StoreCircuit, SetJobData
<1>2. CASE CreateResource
  BY <1>2 DEF CreateResource
<1>3. CASE Admit
  BY <1>3 DEF Admit
<1>4. CASE TimeOut
  BY <1>4 DEF TimeOut, Finish
<1>5. CASE Complete
  BY <1>5 DEF Complete, Finish
<1>6. CASE Exhaust
  BY <1>6 DEF Exhaust, Finish
<1>7. CASE CreatePod
  BY <1>7 DEF CreatePod
<1>8. CASE DeletePod
  BY <1>8 DEF DeletePod
<1>9. CASE DeleteResource
  BY <1>9 DEF DeleteResource, TTLExceeded
<1>10. CASE Load
  BY <1>10 DEF Load, SimulatorStep
<1>11. CASE StoreResult
  BY <1>11 DEF StoreResult, SimulatorStep, SetJobData
<1>12. CASE ExitSuccess
  BY <1>12 DEF ExitSuccess, SimulatorStep
<1>13. CASE Fail
  BY <1>13 DEF Fail, SimulatorStep
<1>14. CASE CallResult
  BY <1>14 DEF CallResult
<1>15. CASE Poll
  BY <1>15 DEF Poll, StatusOf, Sleep, InTime
<1>16. CASE GiveUp
  BY <1>16 DEF GiveUp, InTime
<1>17. CASE Fetch
  BY <1>17 DEF Fetch, StatusOf, Stored
<1>18. CASE Tick
  BY <1>18 DEF Tick, Due
<1>19. CASE UNCHANGED vars
  BY <1>19 DEF vars
<1> QED
  BY <1>1, <1>2, <1>3, <1>4, <1>5, <1>6, <1>7, <1>8, <1>9, <1>10, <1>11, <1>12, <1>13, <1>14, <1>15, <1>16, <1>17, <1>18, <1>19 DEF Next

\* The data outlives the job: the last setex is at most JobTimeOut + 3 Lag ago while
\* the job is undecided, and at most TTL + 3 Lag while its resource is there.
LEMMA DataOutlives ==
    ASSUME TypeOK, StoreInv, ResultInv
    PROVE  CircuitOutlivesJob /\ ResultOutlivesJob
  BY LimitsAssumption DEF TypeOK, Terminal, StoreInv, ResultInv, StoredAt, Stored,
      CircuitOutlivesJob, ResultOutlivesJob

\* The inductive invariant holds in every reachable state.
THEOREM DeadlineInvariance == Spec => []IInv
<1>1. Init => IInv
  BY LimitsAssumption DEF Init, IInv, TypeOK, Terminal, StoreInv, ResultInv, ClientInv, NobodyWaitsInVain
<1>2. IInv /\ [Next]_vars => IInv'
  BY TypePreserved, StorePreserved, ResultPreserved, ClientPreserved, AnswerPreserved DEF IInv
<1> QED
  BY <1>1, <1>2, PTL DEF Spec

\* Type correctness: no time in the state lies further ahead than its limit.
THEOREM DeadlineTypes == Spec => []TypeOK
<1>1. IInv => TypeOK
  BY DEF IInv
<1> QED
  BY <1>1, DeadlineInvariance, PTL

\* redisDB.py:35: the circuit does not expire before its job is decided, if JOB_TIMEOUT
\* and three Lags are less than the time to live in Redis.
THEOREM CircuitLasts == Spec => []CircuitOutlivesJob
<1>1. IInv => CircuitOutlivesJob
  BY DataOutlives DEF IInv
<1> QED
  BY <1>1, DeadlineInvariance, PTL

\* redisDB.py:98: the result does not expire before its resource is deleted, if
\* DEFAULT_TTL_SECONDS and three Lags are less than the time to live in Redis.
THEOREM ResultLasts == Spec => []ResultOutlivesJob
<1>1. IInv => ResultOutlivesJob
  BY DataOutlives DEF IInv
<1> QED
  BY <1>1, DeadlineInvariance, PTL

\* remote_aer_backend.py:32: a client that has polled since before the last moments of
\* the TTL is answered, if the TTL is longer than a round of polling and two Lags.
THEOREM ClientIsAnswered == Spec => []NobodyWaitsInVain
<1>1. IInv => NobodyWaitsInVain
  BY DEF IInv
<1> QED
  BY <1>1, DeadlineInvariance, PTL

===============================================================================
