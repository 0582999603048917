------------------------ MODULE CircuitBreakerProofs ------------------------
(***************************************************************************)
(* The safety properties of CircuitBreaker for any set of requests, either *)
(* way of asking the breaker, any threshold and any saturation bound.      *)
(***************************************************************************)
EXTENDS CircuitBreaker, TLAPS

\* The history bounds the counters: failures counted by a closed circuit were
\* recorded in a row, and so were the successes counted by a half-open one.
RunsBound ==
    /\ state = "closed" => bads >= failureCount
    /\ state = "half_open" => goods >= successCount /\ successCount < SuccessThreshold

BreakerInv == BreakerTypeOK /\ CountMeansState /\ RunsBound

\* What a step does to the state and the counters of the circuit, whichever
\* request takes it: nothing, half-opening, on_success, on_failure or the clock.
LEMMA StepCases ==
    ASSUME BreakerTypeOK, [BreakerNext]_vars
    PROVE  /\ request' \in [Requests -> {"idle", "sent"} \cup Outcomes]
           /\ up' \in BOOLEAN
           /\ \/ UNCHANGED breaker
              \/ /\ state = "open" /\ state' = "half_open" /\ successCount' = 0
                 /\ UNCHANGED <<failureCount, elapsed, history>>
              \/ OnSuccess
              \/ OnFailure
              \/ elapsed' = TRUE /\ UNCHANGED <<state, counts, history>>
<1> USE DEF BreakerTypeOK, Outcomes
<1>1. CASE UNCHANGED vars
  BY <1>1 DEF vars, breaker
<1>2. ASSUME NEW r \in Requests, Check(r) \/ TryAcquire(r)
      PROVE  /\ request' \in [Requests -> {"idle", "sent"} \cup Outcomes]
             /\ UNCHANGED <<breaker, up>>
  BY <1>2 DEF Check, TryAcquire, Send
<1>3. ASSUME NEW r \in Requests, HalfOpen(r)
      PROVE  /\ request' \in [Requests -> {"idle", "sent"} \cup Outcomes]
             /\ UNCHANGED up
             /\ state = "open" /\ state' = "half_open" /\ successCount' = 0
             /\ UNCHANGED <<failureCount, elapsed, history>>
  BY <1>3 DEF HalfOpen, Send
<1>4. ASSUME NEW r \in Requests, Answer(r)
      PROVE  /\ request' \in [Requests -> {"idle", "sent"} \cup Outcomes]
             /\ UNCHANGED <<breaker, up>>
  BY <1>4 DEF Answer
<1>5. ASSUME NEW r \in Requests, Record(r)
      PROVE  /\ request' \in [Requests -> {"idle", "sent"} \cup Outcomes]
             /\ UNCHANGED up
             /\ OnSuccess \/ OnFailure \/ UNCHANGED breaker
  <2>1. request' \in [Requests -> {"idle", "sent"} \cup Outcomes] /\ UNCHANGED up
    BY <1>5 DEF Record
  <2>2. OnSuccess \/ OnFailure \/ UNCHANGED breaker
    BY <1>5, Zenon DEF Record
  <2>3. QED
    BY <2>1, <2>2
<1>6. CASE TimeoutElapses
  BY <1>6 DEF TimeoutElapses
<1>7. CASE StoreChanges
  BY <1>7 DEF StoreChanges, breaker
<1>8. QED
  BY <1>1, <1>2, <1>3, <1>4, <1>5, <1>6, <1>7 DEF BreakerNext

LEMMA InitInv == BreakerInit => BreakerInv
<1> SUFFICES ASSUME BreakerInit PROVE BreakerInv
  OBVIOUS
<1>1. elapsed \in BOOLEAN /\ up \in BOOLEAN
  BY Zenon DEF BreakerInit
<1>2. request \in [Requests -> {"idle", "sent"} \cup Outcomes]
  BY DEF BreakerInit
<1>3. /\ state = "closed" /\ failureCount = 0 /\ successCount = 0
      /\ bads = 0 /\ goods = 0
  BY DEF BreakerInit
<1>4. QED
  BY <1>1, <1>2, <1>3, BreakerAssumption
     DEF BreakerInv, BreakerTypeOK, CountMeansState, RunsBound, SuccessThreshold

LEMMA StepInv == BreakerInv /\ [BreakerNext]_vars => BreakerInv'
<1> SUFFICES ASSUME BreakerInv, [BreakerNext]_vars PROVE BreakerInv'
  OBVIOUS
<1> USE BreakerAssumption DEF BreakerInv, BreakerTypeOK, CountMeansState, RunsBound,
        SuccessThreshold, counts, history
<1>0. request' \in [Requests -> {"idle", "sent"} \cup Outcomes] /\ up' \in BOOLEAN
  BY StepCases
<1>1. CASE UNCHANGED breaker
  BY <1>0, <1>1 DEF breaker
<1>2. CASE /\ state = "open" /\ state' = "half_open" /\ successCount' = 0
           /\ UNCHANGED <<failureCount, elapsed, history>>
  BY <1>0, <1>2
<1>3. CASE OnSuccess
  <2>1. CASE state = "half_open"
    BY <1>0, <1>3, <2>1 DEF OnSuccess, Saturated
  <2>2. CASE state = "closed"
    BY <1>0, <1>3, <2>2 DEF OnSuccess, Saturated
  <2>3. CASE state = "open"
    BY <1>0, <1>3, <2>3 DEF OnSuccess, Saturated
  <2>4. QED
    BY <2>1, <2>2, <2>3
<1>4. CASE OnFailure
  <2>1. elapsed' \in BOOLEAN
    BY <1>4, Zenon DEF OnFailure
  <2>2. failureCount' \in 0 .. MaxCount /\ bads' \in 0 .. MaxCount /\ goods' \in 0 .. MaxCount
    BY <1>4 DEF OnFailure, Saturated
  <2>3. /\ state' = IF state = "half_open" \/ failureCount' >= FailureThreshold
                    THEN "open" ELSE state
        /\ successCount' = successCount
    BY <1>4 DEF OnFailure
  <2>4. CountMeansState' /\ RunsBound'
    BY <1>4, <2>2, <2>3 DEF OnFailure, Saturated
  <2>5. QED
    BY <1>0, <2>1, <2>2, <2>3, <2>4
<1>5. CASE elapsed' = TRUE /\ UNCHANGED <<state, counts, history>>
  BY <1>0, <1>5
<1>6. QED
  BY <1>1, <1>2, <1>3, <1>4, <1>5, StepCases

\* In every reachable state the counters are in range, the circuit is closed
\* exactly while the failure count is under the threshold, and what it counts was
\* recorded in a row.
THEOREM BreakerInvariance == BreakerSpec => []BreakerInv
BY InitInv, StepInv, PTL DEF BreakerSpec

\* A closed circuit is one whose failure count is under the threshold
\* (on_success, on_failure, try_acquire).
THEOREM CountMeansStateCorrect == BreakerSpec => []CountMeansState
<1>1. BreakerInv => CountMeansState
  BY DEF BreakerInv
<1>2. QED
  BY <1>1, BreakerInvariance, PTL

\* The atomics of CircuitBreaker and the calls in flight keep their types, for any
\* number of callers (try_acquire, on_success, on_failure).
THEOREM BreakerTyping == BreakerSpec => []BreakerTypeOK
<1>1. BreakerInv => BreakerTypeOK
  BY DEF BreakerInv
<1>2. QED
  BY <1>1, BreakerInvariance, PTL

\* The circuit trips only on failure_threshold failures in a row and closes only
\* on two successes in a row, for every interleaving of admissions and outcomes.
THEOREM TripsAndClosesOnRunsCorrect == BreakerSpec => TripsAndClosesOnRuns
<1> DEFINE Runs ==
      /\ state = "closed" /\ state' = "open" => bads' >= FailureThreshold
      /\ state /= "closed" /\ state' = "closed" => goods' >= SuccessThreshold
<1>1. BreakerInv /\ [BreakerNext]_vars => [Runs]_vars
  <2> SUFFICES ASSUME BreakerInv, [BreakerNext]_vars PROVE Runs
    OBVIOUS
  <2> USE BreakerAssumption DEF BreakerInv, BreakerTypeOK, CountMeansState,
          RunsBound, SuccessThreshold, counts, history
  <2>1. CASE OnSuccess
    BY <2>1 DEF OnSuccess, Saturated
  <2>2. CASE OnFailure
    BY <2>2 DEF OnFailure, Saturated
  <2>3. CASE UNCHANGED breaker \/ UNCHANGED state
    BY <2>3 DEF breaker
  <2>4. QED
    BY <2>1, <2>2, <2>3, StepCases
<1>2. QED
  BY <1>1, BreakerInvariance, PTL DEF BreakerSpec, TripsAndClosesOnRuns

=============================================================================
