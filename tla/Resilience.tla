----------------------------- MODULE Resilience -----------------------------
(***************************************************************************)
(* ResilientProvider: one upstream provider behind retries and a circuit   *)
(* breaker that all requests to it share.                                  *)
(*                                                                         *)
(* A call is one goroutine in ChatCompletion or ChatCompletionStream.  The *)
(* breaker's methods are atomic (its mutex); the upstream call and the     *)
(* backoff between two attempts are not, so a call may report its outcome  *)
(* long after the breaker has changed state.                               *)
(***************************************************************************)
EXTENDS Naturals

CONSTANTS
    Calls,         \* concurrent requests
    Threshold,     \* failed requests that open the circuit (5)
    Retries,       \* further attempts of a chat completion (2)
    ResetTimeout,  \* time the circuit stays open (30 s)
    FailureBound   \* bound of the model: the failure counter saturates here

ASSUME ThresholdAssumption == Threshold \in Nat \ {0}
ASSUME RetriesAssumption == Retries \in Nat
ASSUME TimeoutAssumption == ResetTimeout \in Nat
ASSUME BoundAssumption == FailureBound \in Nat /\ FailureBound >= Threshold

VARIABLES
    state,     \* CircuitBreaker.state
    failures,  \* CircuitBreaker.failures
    since,     \* time.Since(lastFailure), saturating above ResetTimeout
    pc,        \* idle, call (upstream call in progress), wait (backoff)
    kind,      \* chat (with retries) or stream (without)
    attempt,   \* the loop variable of ChatCompletion
    up,        \* environment: the upstream answers good requests with a usable response
    faulty     \* environment: callers send requests the upstream rejects, or leave
               \*   during the upstream call

breaker == <<state, failures, since>>
outside == <<up, faulty>>
breakerVars == <<breaker, pc, kind, attempt, outside>>

CircuitStates == {"Closed", "Open", "HalfOpen"}

BreakerInit ==
    /\ state = "Closed"
    /\ failures = 0
    /\ since = ResetTimeout + 1
    /\ pc = [c \in Calls |-> "idle"]
    /\ kind = [c \in Calls |-> "chat"]
    /\ attempt = [c \in Calls |-> 0]
    /\ up \in BOOLEAN
    /\ faulty \in BOOLEAN

\* time.Since(cb.lastFailure) > cb.resetTimeout
Expired == since > ResetTimeout

\* Mutant of Allow: a half-open circuit admits nobody but its first call.
AllowFirstOnly ==
    \/ state = "Closed" /\ state' = state
    \/ state = "Open" /\ Expired /\ state' = "HalfOpen"

\* Allow() returns true; false leaves the breaker as it is.
Allow ==
    \/ state \in {"Closed", "HalfOpen"} /\ state' = state
    \/ state = "Open" /\ Expired /\ state' = "HalfOpen"

\* Mutant of RecordSuccess: the failure count is not reset.
RecordSuccessKeepsCount ==
    state' = "Closed" /\ UNCHANGED <<failures, since>>

RecordSuccess ==
    failures' = 0 /\ state' = "Closed" /\ UNCHANGED since

RecordFailure ==
    /\ failures' = IF failures < FailureBound THEN failures + 1 ELSE failures
    /\ since' = 0
    /\ state' = IF failures + 1 >= Threshold THEN "Open" ELSE state

-----------------------------------------------------------------------------
\* A request asks the breaker; a refused one ends with an error at once.
Begin(c, k) ==
    /\ pc[c] = "idle"
    /\ Allow
    /\ pc' = [pc EXCEPT ![c] = "call"]
    /\ kind' = [kind EXCEPT ![c] = k]
    /\ attempt' = [attempt EXCEPT ![c] = 0]
    /\ UNCHANGED <<failures, since, outside>>

Finish(c) ==
    /\ pc' = [pc EXCEPT ![c] = "idle"]
    /\ UNCHANGED <<kind, attempt, outside>>

\* A non-empty response, or the response headers of a stream.
CallSucceeds(c) ==
    /\ pc[c] = "call"
    /\ up
    /\ RecordSuccess
    /\ Finish(c)

\* An error or an empty response (isEmptyOutput), whether the upstream is broken,
\* rejects this request or the caller's context ends during the call: another attempt
\* if any is left; the failure is reported to the breaker once per request.
CallFails(c) ==
    /\ pc[c] = "call"
    /\ ~up \/ faulty
    /\ IF kind[c] = "chat" /\ attempt[c] < Retries
       THEN /\ pc' = [pc EXCEPT ![c] = "wait"]
            /\ attempt' = [attempt EXCEPT ![c] = @ + 1]
            /\ UNCHANGED <<breaker, kind, outside>>
       ELSE RecordFailure /\ Finish(c)

BackoffDone(c) ==
    /\ pc[c] = "wait"
    /\ pc' = [pc EXCEPT ![c] = "call"]
    /\ UNCHANGED <<breaker, kind, attempt, outside>>

\* ctx.Done() during the backoff: the request ends and reports nothing.
BackoffCancelled(c) ==
    /\ pc[c] = "wait"
    /\ Finish(c)
    /\ UNCHANGED breaker

TimePasses ==
    /\ since <= ResetTimeout
    /\ since' = since + 1
    /\ UNCHANGED <<state, failures, pc, kind, attempt, outside>>

\* Environment: the upstream breaks down or recovers.
UpstreamChanges ==
    /\ up' = ~up
    /\ UNCHANGED <<breaker, pc, kind, attempt, faulty>>

\* Environment: callers with such requests, or that leave, come and go.
CallersChange ==
    /\ faulty' = ~faulty
    /\ UNCHANGED <<breaker, pc, kind, attempt, up>>

Call(c) ==
    \/ \E k \in {"chat", "stream"} : Begin(c, k)
    \/ CallSucceeds(c) \/ CallFails(c)
    \/ BackoffDone(c) \/ BackoffCancelled(c)

BreakerNext == (\E c \in Calls : Call(c)) \/ TimePasses \/ UpstreamChanges \/ CallersChange

BreakerSpec == BreakerInit /\ [][BreakerNext]_breakerVars

(***************************************************************************)
(* Time passes; an upstream call ends (the HTTP client times out) and so   *)
(* does a backoff; and requests keep arriving, if only because the status  *)
(* page probes every active provider each minute through this breaker.     *)
(***************************************************************************)
BreakerFairness ==
    /\ WF_breakerVars(TimePasses)
    /\ \A c \in Calls : /\ WF_breakerVars(Begin(c, "chat"))
                        /\ WF_breakerVars(CallSucceeds(c) \/ CallFails(c))
                        /\ WF_breakerVars(BackoffDone(c))

FairBreakerSpec == BreakerSpec /\ BreakerFairness

-----------------------------------------------------------------------------
(***************************************************************************)
(* Types; only a chat completion backs off, and its attempts are counted   *)
(* from 0 to Retries.                                                      *)
(***************************************************************************)
BreakerTypeOK ==
    /\ state \in CircuitStates
    /\ failures \in 0 .. FailureBound
    /\ since \in 0 .. ResetTimeout + 1
    /\ pc \in [Calls -> {"idle", "call", "wait"}]
    /\ kind \in [Calls -> {"chat", "stream"}]
    /\ attempt \in [Calls -> 0 .. Retries]
    /\ \A c \in Calls : pc[c] = "wait" => kind[c] = "chat"
    /\ up \in BOOLEAN
    /\ faulty \in BOOLEAN

(***************************************************************************)
(* The state and the counter never disagree, however late a call reports:  *)
(* the circuit is closed exactly while fewer than Threshold requests have  *)
(* failed since the last success.  So one failure of a half-open circuit   *)
(* opens it again, and a closed one never refuses on old failures.         *)
(***************************************************************************)
ClosedIffBelowThreshold == state = "Closed" <=> failures < Threshold

(***************************************************************************)
(* The breaker heals: when the upstream stays available and callers stop   *)
(* leaving and sending what it rejects, the circuit closes and remains     *)
(* closed, although cancelled backoffs report nothing and late failures    *)
(* postpone the end of the open period.  The second condition is needed:   *)
(* every error of a call counts against the provider, so the requests of a *)
(* few callers can keep the circuit of a healthy upstream open for all.    *)
(***************************************************************************)
HealsWhenUp == <>[](up /\ ~faulty) => <>[](state = "Closed")

-----------------------------------------------------------------------------
BreakerInv == BreakerTypeOK /\ ClosedIffBelowThreshold
=============================================================================
