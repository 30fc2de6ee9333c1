--------------------------- MODULE MemoryRateLimit ---------------------------
(***************************************************************************)
(* SimpleRateLimiter: per key a list of the times of admitted requests     *)
(* that is pruned lazily, by Allow and by a cleanup goroutine.  Both hold  *)
(* the mutex, so they are atomic, and both read the clock under it.  The   *)
(* list is the set of the requests it stands for; their times are in at.   *)
(***************************************************************************)
EXTENDS SlidingWindow

VARIABLE requests   \* the map from key to admitted times; a deleted key is {}

memVars == <<vars, requests>>

MemInit == Init /\ requests = [k \in Keys |-> {}]

\* Mutant of Valid: an entry exactly one window old is still counted.
ValidInclusive(k) == {r \in requests[k] : at[r] >= now - Window}

\* Mutant of Valid: the comparison with the cutoff is reversed.
ValidReversed(k) == {r \in requests[k] : at[r] <= now - Window}

\* The entries of key k after the cutoff.
Valid(k) == {r \in requests[k] : at[r] > now - Window}

\* Allow decides on r and stores the pruned list, with r if it is admitted.
Allow(r) ==
    LET k == key[r]
        full == Cardinality(Valid(k)) >= Limit
    IN  /\ outcome[r] = "none"
        /\ at' = [at EXCEPT ![r] = now]
        /\ outcome' = [outcome EXCEPT ![r] = IF full THEN "refused" ELSE "admitted"]
        /\ requests' = [requests EXCEPT ![k] =
                           IF full THEN Valid(k) ELSE Valid(k) \cup {r}]
        /\ UNCHANGED <<now, key>>

\* The cleanup ticker: every list is pruned, empty ones are deleted.
Cleanup ==
    /\ requests' = [k \in Keys |-> Valid(k)]
    /\ requests' # requests
    /\ UNCHANGED vars

MemTick == Tick /\ UNCHANGED requests

MemNext == (\E r \in Requests : Allow(r)) \/ Cleanup \/ MemTick

MemSpec == MemInit /\ [][MemNext]_memVars

-----------------------------------------------------------------------------
\* Types, including those of the history.
MemTypeOK == TypeOK /\ requests \in [Keys -> SUBSET Requests]

(***************************************************************************)
(* The lists forget only what no later decision can count, and hold        *)
(* nothing that was refused or belongs to another key.                     *)
(***************************************************************************)
ListExact ==
    \A k \in Keys :
        /\ Admitted(k, now) \subseteq requests[k]
        /\ \A r \in requests[k] : outcome[r] = "admitted" /\ key[r] = k

(***************************************************************************)
(* The limiter implements the abstract sliding window: each decision of    *)
(* Allow is the one the history of all admitted requests demands, although *)
(* Allow sees only what pruning and cleanup left.                          *)
(***************************************************************************)
Promise == Spec
=============================================================================
