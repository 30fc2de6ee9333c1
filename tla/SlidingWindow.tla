---------------------------- MODULE SlidingWindow ----------------------------
(***************************************************************************)
(* What a rate limiter promises: a request is admitted exactly when fewer  *)
(* than Limit requests of its key were admitted in the window that ends    *)
(* now.  There is no data structure here, only the history of decisions.   *)
(***************************************************************************)
EXTENDS Integers, FiniteSets

CONSTANTS
    Requests,  \* requests, each decided once
    Keys,      \* rate limit keys: user ids
    Limit,     \* requests admitted per window
    Window,    \* length of the window
    MaxTime    \* bound of the model: the clock stops here

ASSUME RequestsAssumption == IsFiniteSet(Requests)
ASSUME LimitAssumption == Limit \in Nat
ASSUME WindowAssumption == Window \in Nat
ASSUME MaxTimeAssumption == MaxTime \in Nat

VARIABLES
    now,      \* the clock
    outcome,  \* the decision on each request
    at,       \* when it was decided
    key       \* the key it belongs to

vars == <<now, outcome, at, key>>

Outcomes == {"none", "admitted", "refused"}

Init ==
    /\ now = 0
    /\ outcome = [r \in Requests |-> "none"]
    /\ at = [r \in Requests |-> 0]
    /\ key \in [Requests -> Keys]

\* The requests of key k admitted in the window (t - Window, t].
Admitted(k, t) ==
    {r \in Requests : /\ outcome[r] = "admitted"
                      /\ key[r] = k
                      /\ t - Window < at[r] /\ at[r] <= t}

Decide(r) ==
    /\ outcome[r] = "none"
    /\ at' = [at EXCEPT ![r] = now]
    /\ outcome' = [outcome EXCEPT ![r] =
                      IF Cardinality(Admitted(key[r], now)) < Limit
                      THEN "admitted" ELSE "refused"]
    /\ UNCHANGED <<now, key>>

Tick ==
    /\ now < MaxTime
    /\ now' = now + 1
    /\ UNCHANGED <<outcome, at, key>>

Next == (\E r \in Requests : Decide(r)) \/ Tick

Spec == Init /\ [][Next]_vars

-----------------------------------------------------------------------------
TypeOK ==
    /\ now \in 0 .. MaxTime
    /\ outcome \in [Requests -> Outcomes]
    /\ at \in [Requests -> Nat]
    /\ \A r \in Requests : at[r] <= now
    /\ key \in [Requests -> Keys]

(***************************************************************************)
(* No window of the given length, whenever it ends, holds more than Limit  *)
(* admitted requests of one key: the windows between two decisions too,    *)
(* not only those at which the limiter looked.                             *)
(***************************************************************************)
AnyWindowWithinLimit ==
    \A k \in Keys, t \in 0 .. now + Window :
        Cardinality(Admitted(k, t)) <= Limit
=============================================================================
