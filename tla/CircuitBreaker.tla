--------------------------- MODULE CircuitBreaker ---------------------------
(***************************************************************************)
(* The circuit breaker in front of a remote store                          *)
(* (infra/cce-circuit-breaker) and the way its three clients use it        *)
(* (Qdrant, PostgreSQL, Elasticsearch).  A request asks the breaker under  *)
(* its mutex, runs without it, and records its outcome under it again, so  *)
(* outcomes of requests admitted in one state of the circuit are recorded  *)
(* in another.                                                             *)
(*                                                                         *)
(* A request asks in one of two ways.  "try_acquire" is the guard the      *)
(* breaker offers (try_acquire, also the guard of execute), which lets an  *)
(* open circuit become half-open once its timeout is over.  "is_open" is   *)
(* what the clients do: they look at the state and never call try_acquire. *)
(***************************************************************************)
EXTENDS Naturals

CONSTANTS
    Requests,           \* concurrent requests of one client
    Gates,              \* the ways in which they ask the breaker
    FailureThreshold,   \* CircuitBreaker::new, failure_threshold
    MaxCount            \* bound: where failure_count saturates (u32::MAX)

ASSUME BreakerAssumption ==
    /\ Gates \subseteq {"is_open", "try_acquire"}
    /\ FailureThreshold \in Nat \ {0}
    /\ MaxCount \in Nat /\ MaxCount >= FailureThreshold /\ MaxCount >= 2

SuccessThreshold == 2

VARIABLES
    state,          \* CircuitState
    failureCount,   \* failure_count
    successCount,   \* success_count
    elapsed,        \* last_failure.elapsed() >= timeout
    request,        \* request[r]: "idle", "sent", or the outcome not yet recorded
    up,             \* whether the store answers
    bads, goods     \* history: counted failures recorded since the last success,
                    \* successes recorded since the last counted failure

counts == <<failureCount, successCount>>
history == <<bads, goods>>
breaker == <<state, counts, elapsed, history>>
vars == <<breaker, request, up>>

Outcomes == {"ok", "transient", "deterministic"}

\* Type correctness; the counters stay in the range the code gives them.
BreakerTypeOK ==
    /\ state \in {"closed", "open", "half_open"}
    /\ failureCount \in 0 .. MaxCount
    /\ successCount \in 0 .. SuccessThreshold
    /\ elapsed \in BOOLEAN
    /\ request \in [Requests -> {"idle", "sent"} \cup Outcomes]
    /\ up \in BOOLEAN
    /\ bads \in 0 .. MaxCount
    /\ goods \in 0 .. MaxCount

BreakerInit ==
    /\ state = "closed"
    /\ failureCount = 0
    /\ successCount = 0
    /\ elapsed = FALSE
    /\ request = [r \in Requests |-> "idle"]
    /\ up = TRUE
    /\ bads = 0
    /\ goods = 0

-----------------------------------------------------------------------------
(* Asking the breaker, under its mutex *)

Send(r) ==
    /\ request[r] = "idle"
    /\ request' = [request EXCEPT ![r] = "sent"]

\* The clients' check: rejected while the circuit is open, whatever the time.
Check(r) ==
    /\ "is_open" \in Gates
    /\ state /= "open"
    /\ Send(r)
    /\ UNCHANGED <<breaker, up>>

\* Mutant: success_count is not reset when the circuit half-opens.
HalfOpenUnreset(r) ==
    /\ "try_acquire" \in Gates
    /\ state = "open"
    /\ elapsed
    /\ Send(r)
    /\ state' = "half_open"
    /\ UNCHANGED <<counts, elapsed, up, history>>

\* try_acquire on an open circuit whose timeout is over.
HalfOpen(r) ==
    /\ "try_acquire" \in Gates
    /\ state = "open"
    /\ elapsed
    /\ Send(r)
    /\ state' = "half_open"
    /\ successCount' = 0
    /\ UNCHANGED <<failureCount, elapsed, up, history>>

\* Mutant: transition_to resets success_count although the state does not change.
TryAcquireResetting(r) ==
    /\ "try_acquire" \in Gates
    /\ state /= "open"
    /\ Send(r)
    /\ successCount' = 0
    /\ UNCHANGED <<state, failureCount, elapsed, up, history>>

\* try_acquire otherwise: a half-open circuit lets any number of probes pass.
TryAcquire(r) ==
    /\ "try_acquire" \in Gates
    /\ state /= "open"
    /\ Send(r)
    /\ UNCHANGED <<breaker, up>>

-----------------------------------------------------------------------------
(* The request runs without the mutex *)

\* The store answers, or is away, or refuses the request for good.
Answer(r) ==
    /\ request[r] = "sent"
    /\ \E o \in {IF up THEN "ok" ELSE "transient", "deterministic"} :
           request' = [request EXCEPT ![r] = o]
    /\ UNCHANGED <<breaker, up>>

-----------------------------------------------------------------------------
(* Recording the outcome, under the mutex again *)

Saturated(n) == IF n < MaxCount THEN n + 1 ELSE n

\* on_success.  An open circuit takes no notice of a late success.
OnSuccess ==
    /\ goods' = Saturated(goods)
    /\ bads' = 0
    /\ UNCHANGED elapsed
    /\ \/ /\ state = "half_open"
          /\ successCount' = successCount + 1
          /\ IF successCount' >= SuccessThreshold
             THEN state' = "closed" /\ failureCount' = 0
             ELSE UNCHANGED <<state, failureCount>>
       \/ /\ state = "closed"
          /\ failureCount' = 0
          /\ UNCHANGED <<state, successCount>>
       \/ /\ state = "open"
          /\ UNCHANGED <<state, counts>>

\* Mutant: failure_count wraps instead of saturating.
OnFailureWrapping ==
    /\ failureCount' = (failureCount + 1) % (MaxCount + 1)
    /\ bads' = Saturated(bads)
    /\ goods' = 0
    /\ elapsed' = FALSE
    /\ state' = IF state = "half_open" \/ failureCount' >= FailureThreshold
                THEN "open" ELSE state
    /\ UNCHANGED successCount

\* on_failure.  The timeout starts again with every counted failure.
OnFailure ==
    /\ failureCount' = Saturated(failureCount)
    /\ bads' = Saturated(bads)
    /\ goods' = 0
    /\ elapsed' = FALSE
    /\ state' = IF state = "half_open" \/ failureCount' >= FailureThreshold
                THEN "open" ELSE state
    /\ UNCHANGED successCount

\* record_circuit_outcome, record_success, record_failure: a deterministic error
\* leaves the breaker alone.
Record(r) ==
    /\ request[r] \in Outcomes
    /\ request' = [request EXCEPT ![r] = "idle"]
    /\ \/ request[r] = "ok" /\ OnSuccess
       \/ request[r] = "transient" /\ OnFailure
       \/ request[r] = "deterministic" /\ UNCHANGED breaker
    /\ UNCHANGED up

-----------------------------------------------------------------------------
(* Time and the store *)

TimeoutElapses ==
    /\ state = "open"
    /\ ~elapsed
    /\ elapsed' = TRUE
    /\ UNCHANGED <<state, counts, request, up, history>>

StoreChanges ==
    /\ up' = ~up
    /\ UNCHANGED <<breaker, request>>

BreakerNext ==
    \/ \E r \in Requests :
        \/ Check(r) \/ HalfOpen(r) \/ TryAcquire(r)
        \/ Answer(r) \/ Record(r)
    \/ TimeoutElapses
    \/ StoreChanges

BreakerSpec == BreakerInit /\ [][BreakerNext]_vars

\* Requests keep coming, not every one of them is refused for good, an answered
\* request records its outcome, and time passes.
FairBreakerSpec ==
    /\ BreakerSpec
    /\ SF_vars(\E r \in Requests : Check(r) \/ HalfOpen(r) \/ TryAcquire(r))
    /\ SF_vars(\E r \in Requests : Answer(r) /\ request'[r] /= "deterministic")
    /\ \A r \in Requests : WF_vars(Answer(r)) /\ WF_vars(Record(r))
    /\ WF_vars(TimeoutElapses)

-----------------------------------------------------------------------------
(* Properties *)

\* The circuit is closed exactly while its failure count is under the threshold:
\* late outcomes, half-open rounds and the saturating counter never leave a closed
\* circuit that trips at the first failure, or an open one without the evidence.
CountMeansState == (state = "closed") <=> (failureCount < FailureThreshold)

\* The circuit trips only on failure_threshold failures recorded in a row, and
\* closes only on two successes in a row, whatever the order in which outcomes of
\* requests admitted earlier arrive.
TripsAndClosesOnRuns ==
    [][/\ state = "closed" /\ state' = "open" => bads' >= FailureThreshold
       /\ state /= "closed" /\ state' = "closed" => goods' >= SuccessThreshold]_vars

\* A store that stays up is used again: "Timeout before attempting to close
\* circuit" (cce-circuit-breaker, lib.rs).
Recovers == <>[]up => <>[](state = "closed")

=============================================================================
