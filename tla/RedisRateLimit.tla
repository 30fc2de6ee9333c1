--------------------------- MODULE RedisRateLimit ---------------------------
(***************************************************************************)
(* RedisRateLimiter: the sliding window as a sorted set per key whose      *)
(* members and scores are the arrival times in microseconds.  The commands *)
(* of Allow go out in one pipeline, which is not a transaction: Redis may  *)
(* execute commands of other clients between them, and requests that       *)
(* arrive in the same microsecond are one member.  A request over the      *)
(* limit then removes the member with the highest score in a further       *)
(* command, which need not be its own.  When the connection breaks or an   *)
(* answer takes too long the Redis client sends the pipeline or command    *)
(* again, as often as its limit of retries allows, and then gives up.      *)
(*                                                                         *)
(* The history variables are those of SlidingWindow; at is the time        *)
(* captured when the request arrived.  EXPIRE removes the key one second   *)
(* after its last member left the window, so it never removes a member     *)
(* that counts, and is left out.                                           *)
(***************************************************************************)
EXTENDS SlidingWindow

CONSTANTS
    Concurrency,  \* requests inside Allow at the same time, over all instances
    RedisFails    \* whether Redis may fail

ASSUME ConcurrencyAssumption == Concurrency \in Nat \ {0}
ASSUME RedisFailsAssumption == RedisFails \in BOOLEAN

VARIABLES
    pc,       \* where each request is in Allow
    entries,  \* the sorted set of each key
    count,    \* the answer to ZCARD
    left,     \* history: when the request left Allow
    resent,   \* history: requests whose pipeline was sent again
    disturbed \* history: keys for which two requests were in Allow at the same
              \*   time, or a Redis command failed

redisVars == <<vars, pc, entries, count, left, resent, disturbed>>

RedisInit ==
    /\ Init
    /\ pc = [r \in Requests |-> "new"]
    /\ entries = [k \in Keys |-> {}]
    /\ count = [r \in Requests |-> 0]
    /\ left = [r \in Requests |-> 0]
    /\ resent = {}
    /\ disturbed = {}

Goto(r, step) ==
    pc' = [pc EXCEPT ![r] = step] /\ UNCHANGED <<left, resent, disturbed>>

\* Allow returns; a Redis error admits the request.
Return(r, result) ==
    /\ outcome' = [outcome EXCEPT ![r] = result]
    /\ pc' = [pc EXCEPT ![r] = "done"]
    /\ left' = [left EXCEPT ![r] = now]
    /\ UNCHANGED resent

InAllow == {r \in Requests : pc[r] \notin {"new", "done"}}

\* now := time.Now()
Arrive(r) ==
    /\ pc[r] = "new"
    /\ Cardinality(InAllow) < Concurrency
    /\ at' = [at EXCEPT ![r] = now]
    /\ pc' = [pc EXCEPT ![r] = "trim"]
    /\ disturbed' = disturbed \cup {key[q] : q \in {q \in InAllow : key[q] = key[r]}}
    /\ UNCHANGED <<now, outcome, key, entries, count, left, resent>>

\* Mutant of ZRemRangeByScore: expired members are not removed.
ZRemNothing(r) ==
    /\ pc[r] = "trim"
    /\ Goto(r, "card")
    /\ UNCHANGED <<vars, entries, count>>

\* Mutant of ZRemRangeByScore: a window too short by one unit.
ZRemOneMore(r) ==
    /\ pc[r] = "trim"
    /\ entries' = [entries EXCEPT ![key[r]] = {m \in @ : m > at[r] - Window + 1}]
    /\ Goto(r, "card")
    /\ UNCHANGED <<vars, count>>

\* ZREMRANGEBYSCORE -inf .. now - window
ZRemRangeByScore(r) ==
    /\ pc[r] = "trim"
    /\ entries' = [entries EXCEPT ![key[r]] = {m \in @ : m > at[r] - Window}]
    /\ Goto(r, "card")
    /\ UNCHANGED <<vars, count>>

ZCard(r) ==
    /\ pc[r] = "card"
    /\ count' = [count EXCEPT ![r] = Cardinality(entries[key[r]])]
    /\ Goto(r, "add")
    /\ UNCHANGED <<vars, entries>>

ZAdd(r) ==
    /\ pc[r] = "add"
    /\ entries' = [entries EXCEPT ![key[r]] = @ \cup {at[r]}]
    /\ Goto(r, "reply")
    /\ UNCHANGED <<vars, count>>

\* The answers arrive, at least a microsecond after the request did.
ReplyAdmits(r) ==
    /\ pc[r] = "reply"
    /\ at[r] < now
    /\ count[r] < Limit
    /\ Return(r, "admitted")
    /\ UNCHANGED <<now, at, key, entries, count, disturbed>>

ReplyOverLimit(r) ==
    /\ pc[r] = "reply"
    /\ at[r] < now
    /\ count[r] >= Limit
    /\ Goto(r, "undo")
    /\ UNCHANGED <<vars, entries, count>>

Highest(k) == {m \in entries[k] : \A n \in entries[k] : n <= m}

\* ZREMRANGEBYRANK -1 -1: "remove the entry we just added"
ZRemRangeByRank(r) ==
    /\ pc[r] = "undo"
    /\ entries' = [entries EXCEPT ![key[r]] = @ \ Highest(key[r])]
    /\ Return(r, "refused")
    /\ UNCHANGED <<now, at, key, count, disturbed>>

\* The pipeline fails, anywhere: the request is admitted (fail open).
ExecError(r) ==
    /\ RedisFails
    /\ pc[r] \in {"trim", "card", "add", "reply"}
    /\ at[r] < now
    /\ Return(r, "admitted")
    /\ disturbed' = disturbed \cup {key[r]}
    /\ UNCHANGED <<now, at, key, entries, count>>

\* The connection breaks or times out and the client sends the whole pipeline again,
\* with the same arrival time: what Redis executed of it is executed once more.
Resend(r) ==
    /\ RedisFails
    /\ pc[r] \in {"trim", "card", "add", "reply"}
    /\ at[r] < now
    /\ pc' = [pc EXCEPT ![r] = "trim"]
    /\ resent' = resent \cup {r}
    /\ disturbed' = disturbed \cup {key[r]}
    /\ UNCHANGED <<vars, entries, count, left>>

\* The removal is executed and its answer lost: the client sends it again.
UndoAgain(r) ==
    /\ RedisFails
    /\ pc[r] = "undo"
    /\ entries' = [entries EXCEPT ![key[r]] = @ \ Highest(key[r])]
    /\ disturbed' = disturbed \cup {key[r]}
    /\ UNCHANGED <<vars, pc, count, left, resent>>

\* The removal fails; its result is ignored.
UndoError(r) ==
    /\ RedisFails
    /\ pc[r] = "undo"
    /\ Return(r, "refused")
    /\ disturbed' = disturbed \cup {key[r]}
    /\ UNCHANGED <<now, at, key, entries, count>>

RedisTick == Tick /\ UNCHANGED <<pc, entries, count, left, resent, disturbed>>

Step(r) ==
    \/ Arrive(r) \/ ZRemRangeByScore(r) \/ ZCard(r) \/ ZAdd(r)
    \/ ReplyAdmits(r) \/ ReplyOverLimit(r) \/ ZRemRangeByRank(r)
    \/ ExecError(r) \/ UndoError(r) \/ Resend(r) \/ UndoAgain(r)

RedisNext == (\E r \in Requests : Step(r)) \/ RedisTick

RedisSpec == RedisInit /\ [][RedisNext]_redisVars

-----------------------------------------------------------------------------
(***************************************************************************)
(* For a key whose requests never overlapped and met no Redis failure the  *)
(* limiter is exact in both directions: no window, whenever it ends, holds *)
(* more than Limit admitted requests, and a request is refused only when   *)
(* the window that ends at its arrival already holds Limit of them.        *)
(* Neither expired members, nor the traces of refusals, nor another key's  *)
(* overlapping or failing requests disturb it.                             *)
(***************************************************************************)
ExactWhenUndisturbed ==
    \A k \in Keys \ disturbed :
        /\ \A t \in 0 .. now + Window : Cardinality(Admitted(k, t)) <= Limit
        /\ \A r \in Requests :
              outcome[r] = "refused" /\ key[r] = k
                  => Cardinality(Admitted(k, at[r])) >= Limit

\* Request q arrived in the window of r, or was still in Allow when r came.
Competes(q, r) ==
    /\ key[q] = key[r] /\ pc[q] # "new"
    /\ \/ at[q] > at[r] - Window
       \/ pc[q] # "done" \/ left[q] >= at[r]

\* The requests whose member r may have counted: those it competes with and, once its
\* pipeline was sent again, r itself.
Load(r) == {q \in Requests : Competes(q, r) /\ (q # r \/ r \in resent)}

(***************************************************************************)
(* Whatever interleaves, fails and is sent again, a request is refused     *)
(* only if Limit other requests of the same key arrived in its window or   *)
(* overlapped with it; a request whose pipeline was sent again may count   *)
(* its own member, once.  A user with little traffic is never refused, and *)
(* no other user's traffic counts.                                         *)
(***************************************************************************)
RefusedOnlyUnderLoad ==
    \A r \in Requests : outcome[r] = "refused" => Cardinality(Load(r)) >= Limit
=============================================================================
