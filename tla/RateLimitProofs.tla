--------------------------- MODULE RateLimitProofs ---------------------------
(***************************************************************************)
(* The sliding window never admits more than Limit requests in any window, *)
(* SimpleRateLimiter implements it, and RedisRateLimiter implements it for *)
(* every key without overlaps and failures and refuses nobody without the  *)
(* load for it: for every limit, window length, set of keys and number of  *)
(* requests.                                                               *)
(***************************************************************************)
EXTENDS MemoryRateLimit, RedisRateLimit, FiniteSetTheorems, FunctionTheorems, TLAPS

\* The bound for every window, also those that lie in the future.
AllWindows == \A k \in Keys, t \in Int : Cardinality(Admitted(k, t)) <= Limit

WindowInv == TypeOK /\ AllWindows

\* A window holds finitely many requests.
LEMMA AdmittedFinite ==
    ASSUME NEW k, NEW t
    PROVE  IsFiniteSet(Admitted(k, t)) /\ Cardinality(Admitted(k, t)) \in Nat
<1>1. Admitted(k, t) \in SUBSET Requests
  BY DEF Admitted
<1> QED
  BY <1>1, FS_Subset, FS_CardinalityType, RequestsAssumption

LEMMA InitWindow == Init => WindowInv
<1> SUFFICES ASSUME Init PROVE WindowInv
  OBVIOUS
<1>1. TypeOK
  BY MaxTimeAssumption DEF Init, TypeOK, Outcomes
<1>2. \A k, t : Admitted(k, t) = {}
  BY DEF Init, Admitted
<1>3. AllWindows
  BY <1>2, FS_EmptySet, LimitAssumption DEF AllWindows
<1> QED
  BY <1>1, <1>3 DEF WindowInv

LEMMA NextWindowType == TypeOK /\ [Next]_vars => TypeOK'
<1> SUFFICES ASSUME TypeOK, [Next]_vars PROVE TypeOK'
  OBVIOUS
<1>1. ASSUME NEW r \in Requests, Decide(r) PROVE TypeOK'
  BY <1>1, MaxTimeAssumption DEF Decide, TypeOK, Outcomes
<1>2. CASE Tick
  BY <1>2, MaxTimeAssumption DEF Tick, TypeOK
<1>3. CASE UNCHANGED vars
  BY <1>3 DEF vars, TypeOK
<1> QED
  BY <1>1, <1>2, <1>3 DEF Next

\* A decision adds at most the decided request to a window, and only to one
\* whose older requests were all counted by the decision.
LEMMA DecideWindow ==
    ASSUME WindowInv, NEW r \in Requests, Decide(r), NEW k \in Keys, NEW t \in Int
    PROVE  Cardinality(Admitted(k, t)') <= Limit
<1> USE DEF WindowInv
<1>0. now \in Nat /\ \A q \in Requests : at[q] \in Nat /\ at[q] <= now
  BY MaxTimeAssumption DEF TypeOK
<1>1. CASE outcome'[r] = "admitted" /\ key[r] = k /\ t - Window < now /\ now <= t
  <2>1. Cardinality(Admitted(k, now)) < Limit
    BY <1>1 DEF Decide, TypeOK
  <2>2. Admitted(k, t)' \subseteq Admitted(k, now) \cup {r}
    BY <1>0, <1>1, WindowAssumption DEF Decide, Admitted, TypeOK
  <2>a. IsFiniteSet(Admitted(k, now)) /\ Cardinality(Admitted(k, now)) \in Nat
    BY AdmittedFinite
  <2>b. /\ IsFiniteSet(Admitted(k, now) \cup {r})
        /\ \/ Cardinality(Admitted(k, now) \cup {r}) = Cardinality(Admitted(k, now))
           \/ Cardinality(Admitted(k, now) \cup {r}) = Cardinality(Admitted(k, now)) + 1
    BY <2>a, FS_AddElement
  <2>3. /\ Cardinality(Admitted(k, now) \cup {r}) <= Cardinality(Admitted(k, now)) + 1
        /\ Cardinality(Admitted(k, now) \cup {r}) \in Nat
    BY <2>a, <2>b
  <2>4. /\ Cardinality(Admitted(k, t)') <= Cardinality(Admitted(k, now) \cup {r})
        /\ Cardinality(Admitted(k, t)') \in Nat
    BY <2>2, <2>b, FS_Subset, FS_CardinalityType
  <2> QED
    BY <2>1, <2>a, <2>3, <2>4, LimitAssumption
<1>2. CASE ~(outcome'[r] = "admitted" /\ key[r] = k /\ t - Window < now /\ now <= t)
  <2>1. Admitted(k, t)' = Admitted(k, t)
    BY <1>2 DEF Decide, Admitted, TypeOK
  <2> QED
    BY <2>1 DEF AllWindows
<1> QED
  BY <1>1, <1>2

LEMMA NextWindow == WindowInv /\ [Next]_vars => WindowInv'
<1> SUFFICES ASSUME WindowInv, [Next]_vars PROVE WindowInv'
  OBVIOUS
<1>t. TypeOK'
  BY NextWindowType DEF WindowInv
<1>1. ASSUME NEW r \in Requests, Decide(r) PROVE AllWindows'
  BY <1>1, DecideWindow DEF AllWindows
<1>2. ASSUME Tick \/ UNCHANGED vars PROVE AllWindows'
  <2> SUFFICES ASSUME NEW k \in Keys, NEW t \in Int
               PROVE  Cardinality(Admitted(k, t)') <= Limit
    BY DEF AllWindows
  <2>1. Admitted(k, t)' = Admitted(k, t)
    BY <1>2 DEF Admitted, Tick, vars
  <2> QED
    BY <2>1 DEF WindowInv, AllWindows
<1> QED
  BY <1>t, <1>1, <1>2 DEF Next, WindowInv

\* The promise of a sliding window: no window ever holds more than Limit
\* admitted requests of one key.
THEOREM WindowsBounded == Spec => []AnyWindowWithinLimit
<1>1. WindowInv => AnyWindowWithinLimit
  BY MaxTimeAssumption, WindowAssumption
  DEF WindowInv, TypeOK, AllWindows, AnyWindowWithinLimit
<1> QED
  BY <1>1, InitWindow, NextWindow, PTL DEF Spec

-----------------------------------------------------------------------------
MemInv == MemTypeOK /\ ListExact

LEMMA MemInitInv == MemInit => MemInv
<1> SUFFICES ASSUME MemInit PROVE MemInv
  OBVIOUS
<1>1. TypeOK
  BY InitWindow DEF MemInit, WindowInv
<1> QED
  BY <1>1 DEF MemInit, Init, MemInv, MemTypeOK, ListExact, Admitted

\* What Allow counts is what the history demands.
LEMMA ValidIsAdmitted ==
    ASSUME MemInv, NEW k \in Keys
    PROVE  Valid(k) = Admitted(k, now)
<1>1. Valid(k) \subseteq Admitted(k, now)
  BY DEF MemInv, MemTypeOK, TypeOK, ListExact, Valid, Admitted
<1>2. Admitted(k, now) \subseteq Valid(k)
  BY DEF MemInv, MemTypeOK, TypeOK, ListExact, Valid, Admitted
<1> QED
  BY <1>1, <1>2

\* So a decision of Allow is a decision of the sliding window.
LEMMA AllowDecides ==
    ASSUME MemInv, NEW r \in Requests, Allow(r)
    PROVE  Decide(r)
<1>1. key[r] \in Keys
  BY DEF MemInv, MemTypeOK, TypeOK
<1>2. Valid(key[r]) = Admitted(key[r], now)
  BY <1>1, ValidIsAdmitted
<1>3. Cardinality(Admitted(key[r], now)) \in Nat
  BY AdmittedFinite
<1>4. Cardinality(Valid(key[r])) >= Limit <=> ~(Cardinality(Admitted(key[r], now)) < Limit)
  BY <1>2, <1>3, LimitAssumption
<1> QED
  BY <1>4 DEF Allow, Decide

LEMMA MemNextInv == MemInv /\ [MemNext]_memVars => MemInv'
<1> SUFFICES ASSUME MemInv, [MemNext]_memVars PROVE MemInv'
  OBVIOUS
<1> USE WindowAssumption, MaxTimeAssumption
<1>1. ASSUME NEW r \in Requests, Allow(r) PROVE MemInv'
  <2>1. TypeOK'
    BY <1>1, AllowDecides, NextWindowType DEF MemInv, MemTypeOK, Next
  <2>2. \A k \in Keys : Valid(k) = Admitted(k, now)
    BY ValidIsAdmitted
  <2>3. requests' \in [Keys -> SUBSET Requests]
    BY <1>1 DEF Allow, Valid, MemInv, MemTypeOK, TypeOK
  <2>4. ASSUME NEW k \in Keys PROVE Admitted(k, now)' \subseteq requests'[k]
    <3>1. CASE k # key[r]
      BY <1>1, <2>2, <3>1 DEF Allow, Admitted, MemInv, MemTypeOK, TypeOK, ListExact
    <3>2. CASE k = key[r]
      <4>1. Admitted(k, now)' \subseteq Admitted(k, now) \cup {r}
        BY <1>1 DEF Allow, Admitted, MemInv, MemTypeOK, TypeOK
      <4>2. r \in Admitted(k, now)' => outcome'[r] = "admitted"
        BY DEF Admitted
      <4>3. CASE Cardinality(Valid(k)) >= Limit
        <5>1. outcome'[r] = "refused" /\ requests'[k] = Valid(k)
          BY <1>1, <3>2, <4>3 DEF Allow, MemInv, MemTypeOK, TypeOK
        <5> QED BY <2>2, <4>1, <4>2, <5>1
      <4>4. CASE ~(Cardinality(Valid(k)) >= Limit)
        <5>1. requests'[k] = Valid(k) \cup {r}
          BY <1>1, <3>2, <4>4 DEF Allow, MemInv, MemTypeOK, TypeOK
        <5> QED BY <2>2, <4>1, <5>1
      <4> QED BY <4>3, <4>4
    <3> QED BY <3>1, <3>2
  <2>5. ASSUME NEW k \in Keys, NEW q \in requests'[k]
        PROVE  outcome'[q] = "admitted" /\ key'[q] = k
    <3>1. q \in requests[k] \/ (q = r /\ key[r] = k /\ outcome'[r] = "admitted")
      BY <1>1, <2>5 DEF Allow, Valid, MemInv, MemTypeOK, TypeOK
    <3>2. q \in requests[k] => q \in Requests /\ q # r /\ outcome[q] = "admitted" /\ key[q] = k
      BY <1>1 DEF Allow, MemInv, MemTypeOK, TypeOK, ListExact
    <3> QED
      BY <1>1, <3>1, <3>2 DEF Allow, MemInv, MemTypeOK, TypeOK
  <2> QED
    BY <2>1, <2>3, <2>4, <2>5 DEF MemInv, MemTypeOK, ListExact
<1>2. CASE Cleanup
  <2>1. TypeOK' /\ now' = now /\ \A k : Admitted(k, now)' = Admitted(k, now)
    BY <1>2 DEF Cleanup, vars, MemInv, MemTypeOK, TypeOK, Admitted
  <2>2. \A k \in Keys : requests'[k] = Admitted(k, now)
    BY <1>2, ValidIsAdmitted DEF Cleanup
  <2>3. requests' \in [Keys -> SUBSET Requests]
    BY <1>2 DEF Cleanup, Valid, MemInv, MemTypeOK
  <2>4. outcome' = outcome /\ key' = key
    BY <1>2 DEF Cleanup, vars
  <2> QED
    BY <2>1, <2>2, <2>3, <2>4 DEF MemInv, MemTypeOK, ListExact, Admitted
<1>3. CASE MemTick
  <2>1. TypeOK'
    BY <1>3, NextWindowType DEF MemTick, MemInv, MemTypeOK, Next
  <2>2. \A k \in Keys : Admitted(k, now)' \subseteq Admitted(k, now)
    BY <1>3 DEF MemTick, Tick, MemInv, MemTypeOK, TypeOK, Admitted
  <2> QED
    BY <1>3, <2>1, <2>2 DEF MemTick, Tick, MemInv, MemTypeOK, ListExact
<1>4. CASE UNCHANGED memVars
  BY <1>4 DEF memVars, vars, MemInv, MemTypeOK, TypeOK, ListExact, Admitted
<1> QED
  BY <1>1, <1>2, <1>3, <1>4 DEF MemNext

\* The lists of SimpleRateLimiter hold what the next decision must count.
THEOREM ListsExact == MemSpec => []ListExact
<1>1. MemInv => ListExact
  BY DEF MemInv
<1> QED
  BY <1>1, MemInitInv, MemNextInv, PTL DEF MemSpec

\* SimpleRateLimiter implements the sliding window.
THEOREM LimiterImplements == MemSpec => Promise
<1>1. MemInit => Init
  BY DEF MemInit
<1>2. MemInv /\ [MemNext]_memVars => [Next]_vars
  <2> SUFFICES ASSUME MemInv, [MemNext]_memVars PROVE [Next]_vars
    OBVIOUS
  <2>1. ASSUME NEW r \in Requests, Allow(r) PROVE Next
    BY <2>1, AllowDecides DEF Next
  <2>2. CASE Cleanup
    BY <2>2 DEF Cleanup
  <2>3. CASE MemTick
    BY <2>3 DEF MemTick, Next
  <2>4. CASE UNCHANGED memVars
    BY <2>4 DEF memVars
  <2> QED
    BY <2>1, <2>2, <2>3, <2>4 DEF MemNext
<1> QED
  BY <1>1, <1>2, MemInitInv, MemNextInv, PTL DEF MemSpec, Spec, Promise

\* Hence no window of SimpleRateLimiter holds more than Limit requests.
THEOREM LimiterBounded == MemSpec => []AnyWindowWithinLimit
  BY LimiterImplements, WindowsBounded, PTL DEF Promise

-----------------------------------------------------------------------------
(* The Redis limiter.                                                      *)

Steps == {"new", "trim", "card", "add", "reply", "undo", "done"}

RedisTypes ==
    /\ TypeOK
    /\ pc \in [Requests -> Steps]
    /\ entries \in [Keys -> SUBSET Nat]
    /\ count \in [Requests -> Nat]
    /\ left \in [Requests -> Nat]
    /\ resent \in SUBSET Requests
    /\ \A r \in Requests : outcome[r] # "none" <=> pc[r] = "done"

\* The requests that may have a member in the sorted set.
Written == {q \in Requests : pc[q] \in {"reply", "undo", "done"} \/ q \in resent}

\* A request is sent again only after it has arrived.
ResentArrived == \A q \in resent : pc[q] # "new"

\* A member of a sorted set is the arrival time of a request of that key.
MembersTraced ==
    \A k \in Keys : \A m \in entries[k] : \E q \in Written : key[q] = k /\ at[q] = m

\* Between ZREMRANGEBYSCORE and ZCARD of a request every member is one of its load.
MembersCompete ==
    \A r \in Requests : pc[r] = "card" =>
        \A m \in entries[key[r]] : \E q \in Written : Competes(q, r) /\ at[q] = m

\* What a request counted it has the load for.
Counted == {r \in Requests : pc[r] \in {"add", "reply", "undo"} \/ outcome[r] = "refused"}

CountHasLoad == \A r \in Counted : count[r] <= Cardinality(Load(r))

RefusedOverLimit ==
    \A r \in Requests : pc[r] = "undo" \/ outcome[r] = "refused" => count[r] >= Limit

LoadInv ==
    /\ RedisTypes /\ ResentArrived
    /\ MembersTraced /\ MembersCompete /\ CountHasLoad /\ RefusedOverLimit

\* A set of arrival times is finite and not larger than a set of requests with them.
LEMMA TimesOfRequests ==
    ASSUME NEW S, NEW T \in SUBSET Requests,
           \A m \in S : \E q \in T : at[q] = m
    PROVE  /\ IsFiniteSet(S) /\ IsFiniteSet(T)
           /\ Cardinality(S) \in Nat /\ Cardinality(T) \in Nat
           /\ Cardinality(S) <= Cardinality(T)
<1> DEFINE g == [m \in S |-> CHOOSE q \in T : at[q] = m]
<1>1. IsFiniteSet(T)
  BY FS_Subset, RequestsAssumption
<1>2. \A m \in S : g[m] \in T /\ at[g[m]] = m
  OBVIOUS
<1>3. g \in Injection(S, T)
  BY <1>2 DEF Injection, IsInjective
<1> QED
  BY <1>1, <1>3, FS_Injection, FS_CardinalityType

LEMMA LoadFinite ==
    ASSUME NEW r
    PROVE  IsFiniteSet(Load(r)) /\ Cardinality(Load(r)) \in Nat
<1>1. Load(r) \in SUBSET Requests
  BY DEF Load
<1> QED
  BY <1>1, FS_Subset, FS_CardinalityType, RequestsAssumption

\* ZCARD answers a number, not larger than the size of the load.
LEMMA CardOfMembers ==
    ASSUME LoadInv, NEW r \in Requests, pc[r] = "card"
    PROVE  /\ Cardinality(entries[key[r]]) \in Nat
           /\ Cardinality(entries[key[r]]) <= Cardinality(Load(r))
<1>1. \A m \in entries[key[r]] : \E q \in Load(r) : at[q] = m
  BY DEF LoadInv, MembersCompete, Load, Written
<1>2. Load(r) \in SUBSET Requests
  BY DEF Load
<1> QED
  BY <1>1, <1>2, TimesOfRequests

LEMMA RedisInitLoad == RedisInit => LoadInv
<1> SUFFICES ASSUME RedisInit PROVE LoadInv
  OBVIOUS
<1>1. RedisTypes
  BY MaxTimeAssumption DEF RedisInit, Init, RedisTypes, TypeOK, Outcomes, Steps
<1>2. \A r \in Requests : pc[r] = "new" /\ outcome[r] = "none"
  BY DEF RedisInit, Init
<1>3. \A k \in Keys : entries[k] = {}
  BY DEF RedisInit
<1> QED
  BY <1>1, <1>2, <1>3
  DEF LoadInv, ResentArrived, MembersTraced, MembersCompete, CountHasLoad, Counted,
      RefusedOverLimit, RedisInit

LEMMA RedisTypesKept == LoadInv /\ [RedisNext]_redisVars => RedisTypes'
<1> SUFFICES ASSUME LoadInv, [RedisNext]_redisVars PROVE RedisTypes'
  OBVIOUS
<1> USE DEF RedisTypes, TypeOK, Outcomes, Steps, vars
<1>0. RedisTypes /\ now \in Nat
  BY MaxTimeAssumption DEF LoadInv
<1>1. ASSUME NEW r \in Requests, Arrive(r) PROVE RedisTypes'
  BY <1>0, <1>1 DEF Arrive
<1>2. ASSUME NEW r \in Requests, ZRemRangeByScore(r) PROVE RedisTypes'
  BY <1>0, <1>2 DEF ZRemRangeByScore, Goto
<1>3. ASSUME NEW r \in Requests, ZCard(r) PROVE RedisTypes'
  <2>1. Cardinality(entries[key[r]]) \in Nat
    BY <1>3, CardOfMembers DEF ZCard
  <2> QED
    BY <1>0, <1>3, <2>1 DEF ZCard, Goto
<1>4. ASSUME NEW r \in Requests, ZAdd(r) PROVE RedisTypes'
  BY <1>0, <1>4 DEF ZAdd, Goto
<1>5. ASSUME NEW r \in Requests, ReplyAdmits(r) PROVE RedisTypes'
  BY <1>0, <1>5 DEF ReplyAdmits, Return
<1>6. ASSUME NEW r \in Requests, ReplyOverLimit(r) PROVE RedisTypes'
  BY <1>0, <1>6 DEF ReplyOverLimit, Goto
<1>7. ASSUME NEW r \in Requests, ZRemRangeByRank(r) PROVE RedisTypes'
  BY <1>0, <1>7 DEF ZRemRangeByRank, Return
<1>8. ASSUME NEW r \in Requests, ExecError(r) PROVE RedisTypes'
  BY <1>0, <1>8 DEF ExecError, Return
<1>9. ASSUME NEW r \in Requests, UndoError(r) PROVE RedisTypes'
  BY <1>0, <1>9 DEF UndoError, Return
<1>12. ASSUME NEW r \in Requests, Resend(r) PROVE RedisTypes'
  BY <1>0, <1>12 DEF Resend
<1>13. ASSUME NEW r \in Requests, UndoAgain(r) PROVE RedisTypes'
  BY <1>0, <1>13 DEF UndoAgain
<1>10. CASE RedisTick
  BY <1>0, <1>10, MaxTimeAssumption DEF RedisTick, Tick
<1>11. CASE UNCHANGED redisVars
  BY <1>0, <1>11 DEF redisVars
<1> QED
  BY <1>1, <1>2, <1>3, <1>4, <1>5, <1>6, <1>7, <1>8, <1>9, <1>10, <1>11, <1>12, <1>13
  DEF RedisNext, Step

\* What no step of the limiter undoes: requests keep their key, their time once they
\* have arrived, and their place behind the steps taken; a request that returns does
\* so now.
Onward ==
    /\ key' = key /\ now' >= now /\ resent \subseteq resent'
    /\ \A q \in Requests :
          /\ pc[q] # "new" => at'[q] = at[q] /\ pc'[q] # "new"
          /\ pc[q] = "done" => pc'[q] = "done" /\ left'[q] = left[q] /\ outcome'[q] = outcome[q]
          /\ pc[q] # "done" /\ pc'[q] = "done" => left'[q] = now
          /\ q \in Written => q \in Written'
          /\ q \in resent' /\ q \notin resent => pc[q] # "new" /\ pc'[q] # "new"

LEMMA StepOnward == LoadInv /\ [RedisNext]_redisVars => Onward
<1> SUFFICES ASSUME LoadInv, [RedisNext]_redisVars PROVE Onward
  OBVIOUS
<1> USE DEF Onward, Written, vars
<1>0. RedisTypes /\ now \in Nat
  BY MaxTimeAssumption DEF LoadInv, RedisTypes, TypeOK
<1>1. ASSUME NEW r \in Requests, Arrive(r) PROVE Onward
  BY <1>0, <1>1 DEF Arrive, RedisTypes, TypeOK
<1>2. ASSUME NEW r \in Requests, ZRemRangeByScore(r) PROVE Onward
  BY <1>0, <1>2 DEF ZRemRangeByScore, Goto, RedisTypes
<1>3. ASSUME NEW r \in Requests, ZCard(r) PROVE Onward
  BY <1>0, <1>3 DEF ZCard, Goto, RedisTypes
<1>4. ASSUME NEW r \in Requests, ZAdd(r) PROVE Onward
  BY <1>0, <1>4 DEF ZAdd, Goto, RedisTypes
<1>5. ASSUME NEW r \in Requests, ReplyAdmits(r) PROVE Onward
  BY <1>0, <1>5 DEF ReplyAdmits, Return, RedisTypes, TypeOK
<1>6. ASSUME NEW r \in Requests, ReplyOverLimit(r) PROVE Onward
  BY <1>0, <1>6 DEF ReplyOverLimit, Goto, RedisTypes
<1>7. ASSUME NEW r \in Requests, ZRemRangeByRank(r) PROVE Onward
  BY <1>0, <1>7 DEF ZRemRangeByRank, Return, RedisTypes, TypeOK
<1>8. ASSUME NEW r \in Requests, ExecError(r) PROVE Onward
  BY <1>0, <1>8 DEF ExecError, Return, RedisTypes, TypeOK
<1>9. ASSUME NEW r \in Requests, UndoError(r) PROVE Onward
  BY <1>0, <1>9 DEF UndoError, Return, RedisTypes, TypeOK
<1>12. ASSUME NEW r \in Requests, Resend(r) PROVE Onward
  BY <1>0, <1>12 DEF Resend, RedisTypes, TypeOK
<1>13. ASSUME NEW r \in Requests, UndoAgain(r) PROVE Onward
  BY <1>0, <1>13 DEF UndoAgain, RedisTypes, TypeOK
<1>10. CASE RedisTick
  BY <1>0, <1>10 DEF RedisTick, Tick
<1>11. CASE UNCHANGED redisVars
  BY <1>0, <1>11 DEF redisVars
<1> QED
  BY <1>1, <1>2, <1>3, <1>4, <1>5, <1>6, <1>7, <1>8, <1>9, <1>10, <1>11, <1>12, <1>13
  DEF RedisNext, Step

\* Who has competed with a request goes on doing so.
LEMMA CompetesKept ==
    ASSUME RedisTypes, Onward, NEW q \in Requests, NEW r \in Requests,
           pc[r] # "new", Competes(q, r)
    PROVE  Competes(q, r)'
<1>1. /\ now \in Nat /\ at[q] \in Nat /\ at[r] \in Nat /\ at[r] <= now /\ left[q] \in Nat
      /\ Window \in Nat
  BY MaxTimeAssumption, WindowAssumption DEF RedisTypes, TypeOK
<1>2. pc[q] # "new" /\ at'[q] = at[q] /\ at'[r] = at[r] /\ key' = key /\ pc'[q] # "new"
  BY DEF Competes, Onward
<1>3. key[q] = key[r]
  BY DEF Competes
<1>4. CASE at[q] > at[r] - Window
  BY <1>2, <1>3, <1>4 DEF Competes
<1>5. CASE pc[q] # "done"
  BY <1>1, <1>2, <1>3, <1>5 DEF Competes, Onward
<1>6. CASE pc[q] = "done" /\ left[q] >= at[r]
  BY <1>1, <1>2, <1>3, <1>6 DEF Competes, Onward
<1> QED
  BY <1>4, <1>5, <1>6 DEF Competes

\* What a step does to sorted sets, counts and verdicts.
Effect ==
    /\ \A k \in Keys : \A m \in entries'[k] :
          m \in entries[k]
          \/ \E q \in Requests : pc[q] = "add" /\ pc'[q] = "reply" /\ key[q] = k /\ at[q] = m
    /\ \A r \in Requests : pc'[r] = "card" /\ pc[r] # "card" =>
          /\ pc[r] = "trim"
          /\ \A m \in entries'[key[r]] : m \in entries[key[r]] /\ m > at[r] - Window
    /\ \A r \in Counted' :
          \/ r \in Counted /\ count'[r] = count[r]
          \/ pc[r] = "card" /\ count'[r] = Cardinality(entries[key[r]])
    /\ \A r \in Requests : pc'[r] = "undo" \/ outcome'[r] = "refused" =>
          /\ count'[r] = count[r]
          /\ pc[r] = "undo" \/ outcome[r] = "refused" \/ count[r] >= Limit

LEMMA StepEffect == LoadInv /\ [RedisNext]_redisVars => Effect
<1> SUFFICES ASSUME LoadInv, [RedisNext]_redisVars PROVE Effect
  OBVIOUS
<1> USE DEF Effect, Counted, vars
<1>0. RedisTypes
  BY DEF LoadInv
<1>1. ASSUME NEW r \in Requests, Arrive(r) PROVE Effect
  BY <1>0, <1>1 DEF Arrive, RedisTypes, TypeOK
<1>2. ASSUME NEW r \in Requests, ZRemRangeByScore(r) PROVE Effect
  BY <1>0, <1>2 DEF ZRemRangeByScore, Goto, RedisTypes, TypeOK
<1>3. ASSUME NEW r \in Requests, ZCard(r) PROVE Effect
  BY <1>0, <1>3 DEF ZCard, Goto, RedisTypes, TypeOK
<1>4. ASSUME NEW r \in Requests, ZAdd(r) PROVE Effect
  BY <1>0, <1>4 DEF ZAdd, Goto, RedisTypes, TypeOK
<1>5. ASSUME NEW r \in Requests, ReplyAdmits(r) PROVE Effect
  BY <1>0, <1>5 DEF ReplyAdmits, Return, RedisTypes, TypeOK
<1>6. ASSUME NEW r \in Requests, ReplyOverLimit(r) PROVE Effect
  BY <1>0, <1>6 DEF ReplyOverLimit, Goto, RedisTypes, TypeOK
<1>7. ASSUME NEW r \in Requests, ZRemRangeByRank(r) PROVE Effect
  BY <1>0, <1>7 DEF ZRemRangeByRank, Return, RedisTypes, TypeOK
<1>8. ASSUME NEW r \in Requests, ExecError(r) PROVE Effect
  BY <1>0, <1>8 DEF ExecError, Return, RedisTypes, TypeOK
<1>9. ASSUME NEW r \in Requests, UndoError(r) PROVE Effect
  BY <1>0, <1>9 DEF UndoError, Return, RedisTypes, TypeOK
<1>12. ASSUME NEW r \in Requests, Resend(r) PROVE Effect
  BY <1>0, <1>12 DEF Resend, RedisTypes, TypeOK
<1>13. ASSUME NEW r \in Requests, UndoAgain(r) PROVE Effect
  BY <1>0, <1>13 DEF UndoAgain, RedisTypes, TypeOK
<1>10. CASE RedisTick
  BY <1>0, <1>10 DEF RedisTick, Tick
<1>11. CASE UNCHANGED redisVars
  BY <1>0, <1>11 DEF redisVars
<1> QED
  BY <1>1, <1>2, <1>3, <1>4, <1>5, <1>6, <1>7, <1>8, <1>9, <1>10, <1>11, <1>12, <1>13
  DEF RedisNext, Step

LEMMA LoadGrows ==
    ASSUME RedisTypes, Onward, NEW r \in Requests, pc[r] # "new"
    PROVE  Cardinality(Load(r)) <= Cardinality(Load(r)')
<1>1. Load(r) \subseteq Load(r)'
  BY CompetesKept DEF Load, Onward
<1>2. Load(r)' \in SUBSET Requests
  BY DEF Load
<1>3. IsFiniteSet(Load(r)')
  BY <1>2, FS_Subset, RequestsAssumption
<1> QED
  BY <1>1, <1>3, FS_Subset

LEMMA LoadKept == LoadInv /\ [RedisNext]_redisVars => LoadInv'
<1> SUFFICES ASSUME LoadInv, [RedisNext]_redisVars PROVE LoadInv'
  OBVIOUS
<1>1. RedisTypes /\ RedisTypes' /\ Onward /\ Effect
  BY RedisTypesKept, StepOnward, StepEffect DEF LoadInv
<1>6. \A q \in Written : q \in Requests /\ pc[q] # "new"
  BY <1>1 DEF Written, LoadInv, ResentArrived
<1>2. MembersTraced'
  <2> SUFFICES ASSUME NEW k \in Keys, NEW m \in entries'[k]
               PROVE  \E q \in Written' : key'[q] = k /\ at'[q] = m
    BY DEF MembersTraced
  <2>1. CASE m \in entries[k]
    <3>1. PICK q \in Written : key[q] = k /\ at[q] = m
      BY <2>1 DEF LoadInv, MembersTraced
    <3> QED
      BY <1>1, <1>6, <3>1 DEF Onward
  <2>2. ASSUME NEW q \in Requests, pc[q] = "add", pc'[q] = "reply", key[q] = k, at[q] = m
        PROVE  \E p \in Written' : key'[p] = k /\ at'[p] = m
    BY <1>1, <2>2 DEF Onward, Written
  <2> QED
    BY <1>1, <2>1, <2>2 DEF Effect
<1>3. MembersCompete'
  <2> SUFFICES ASSUME NEW r \in Requests, pc'[r] = "card", NEW m \in entries'[key'[r]]
               PROVE  \E q \in Written' : Competes(q, r)' /\ at'[q] = m
    BY DEF MembersCompete
  <2>1. pc[r] # "new" /\ key'[r] = key[r] /\ key[r] \in Keys /\ at'[r] = at[r]
    BY <1>1 DEF Effect, Onward, RedisTypes, TypeOK
  <2>2. CASE pc[r] = "card" /\ m \in entries[key[r]]
    <3>1. PICK q \in Written : Competes(q, r) /\ at[q] = m
      BY <2>2 DEF LoadInv, MembersCompete
    <3>2. q \in Written' /\ at'[q] = m /\ Competes(q, r)'
      BY <1>1, <1>6, <2>1, <3>1, CompetesKept DEF Onward
    <3> QED
      BY <3>2
  <2>3. CASE pc[r] # "card"
    <3>1. m \in entries[key[r]] /\ m > at[r] - Window
      BY <1>1, <2>1, <2>3 DEF Effect
    <3>2. PICK q \in Written : key[q] = key[r] /\ at[q] = m
      BY <2>1, <3>1 DEF LoadInv, MembersTraced
    <3>3. q \in Written' /\ at'[q] = m /\ key'[q] = key'[r] /\ pc'[q] # "new"
      BY <1>1, <1>6, <2>1, <3>2 DEF Onward
    <3> QED
      BY <2>1, <3>1, <3>3 DEF Competes
  <2>4. ASSUME NEW q \in Requests, pc[q] = "add", pc'[q] = "reply", key[q] = key[r], at[q] = m
        PROVE  \E p \in Written' : Competes(p, r)' /\ at'[p] = m
    <3>1. q \in Written' /\ at'[q] = m /\ key'[q] = key'[r]
      BY <1>1, <2>1, <2>4 DEF Onward, Written
    <3> QED
      BY <2>4, <3>1 DEF Competes
  <2> QED
    BY <1>1, <2>1, <2>2, <2>3, <2>4 DEF Effect
<1>4. CountHasLoad'
  <2> SUFFICES ASSUME NEW r \in Counted' PROVE count'[r] <= Cardinality(Load(r)')
    BY DEF CountHasLoad
  <2>1. r \in Requests /\ count[r] \in Nat
    BY <1>1 DEF Counted, RedisTypes
  <2>2. Cardinality(Load(r)) \in Nat /\ Cardinality(Load(r)') \in Nat
    <3>1. Load(r)' \in SUBSET Requests
      BY DEF Load
    <3>2. IsFiniteSet(Load(r)')
      BY <3>1, FS_Subset, RequestsAssumption
    <3> QED
      BY <3>2, LoadFinite, FS_CardinalityType
  <2>3. CASE r \in Counted /\ count'[r] = count[r]
    <3>1. pc[r] # "new"
      BY <1>1, <2>3 DEF Counted, RedisTypes
    <3>2. count[r] <= Cardinality(Load(r)) /\ Cardinality(Load(r)) <= Cardinality(Load(r)')
      BY <1>1, <2>1, <2>3, <3>1, LoadGrows DEF LoadInv, CountHasLoad
    <3> QED
      BY <2>1, <2>2, <2>3, <3>2
  <2>4. CASE pc[r] = "card" /\ count'[r] = Cardinality(entries[key[r]])
    <3>1. Cardinality(Load(r)) <= Cardinality(Load(r)')
      BY <1>1, <2>1, <2>4, LoadGrows
    <3>2. count'[r] \in Nat /\ count'[r] <= Cardinality(Load(r))
      BY <2>1, <2>4, CardOfMembers
    <3> QED
      BY <2>2, <3>1, <3>2
  <2> QED
    BY <1>1, <2>3, <2>4 DEF Effect
<1>5. RefusedOverLimit'
  BY <1>1 DEF Effect, LoadInv, RefusedOverLimit
<1>7. ResentArrived'
  BY <1>1 DEF LoadInv, ResentArrived, Onward, RedisTypes
<1> QED
  BY <1>1, <1>2, <1>3, <1>4, <1>5, <1>7 DEF LoadInv

\* RedisRateLimiter.Allow refuses a request only if Limit others of its key arrived in
\* its window or overlapped with it, or Limit - 1 and its own pipeline was sent again,
\* whatever interleaves and whatever fails.
THEOREM RefusalsNeedLoad == RedisSpec => []RefusedOnlyUnderLoad
<1>1. LoadInv => RefusedOnlyUnderLoad
  <2> SUFFICES ASSUME LoadInv, NEW r \in Requests, outcome[r] = "refused"
               PROVE  Cardinality(Load(r)) >= Limit
    BY DEF RefusedOnlyUnderLoad
  <2>1. count[r] \in Nat /\ count[r] >= Limit /\ count[r] <= Cardinality(Load(r))
    BY DEF LoadInv, RedisTypes, RefusedOverLimit, CountHasLoad, Counted
  <2> QED
    BY <2>1, LoadFinite, LimitAssumption
<1> QED
  BY <1>1, RedisInitLoad, LoadKept, PTL DEF RedisSpec

-----------------------------------------------------------------------------
(* Keys whose requests did not overlap and met no failure.                 *)

Arrived(k) == {q \in Requests : key[q] = k /\ pc[q] # "new"}

\* The requests of a key whose members belong in the sorted set.
Holders(k) ==
    {q \in Requests : key[q] = k /\ (outcome[q] = "admitted" \/ pc[q] \in {"reply", "undo"})}

\* The requests of an undisturbed key came one after the other.
OneByOne(k) ==
    /\ \A p, q \in Arrived(k) : p # q => at[p] # at[q]
    /\ \A r \in Arrived(k) : pc[r] # "done" =>
          \A p \in Arrived(k) \ {r} : pc[p] = "done" /\ at[p] < at[r]
    /\ \A p \in Arrived(k) : pc[p] \in {"undo", "done"} => at[p] < now

\* The sorted set holds the holders, but those that fell out of a window.
SetExact(k) ==
    /\ \A m \in entries[k] : \E q \in Holders(k) : at[q] = m
    /\ \A q \in Holders(k) :
          \/ at[q] \in entries[k]
          \/ \E p \in Arrived(k) \ {q} : pc[p] # "trim" /\ at[q] <= at[p] - Window
    /\ \A r \in Arrived(k) : pc[r] = "card" => \A m \in entries[k] : m > at[r] - Window

\* The admitted requests in the window that ends at the arrival of request r.
Seen(r) == Admitted(key[r], at[r])

\* What a request counted is what its window holds.
CountExact(k) ==
    \A r \in Arrived(k) : pc[r] \in {"add", "reply", "undo"} =>
        /\ count[r] = Cardinality(Seen(r))
        /\ pc[r] = "undo" => count[r] >= Limit

\* The two halves of ExactWhenUndisturbed, for windows at any time.
VerdictsExact(k) ==
    /\ \A t \in Int : Cardinality(Admitted(k, t)) <= Limit
    /\ \A r \in Arrived(k) : outcome[r] = "refused" => Cardinality(Seen(r)) >= Limit

Calm(k) == OneByOne(k) /\ SetExact(k) /\ CountExact(k) /\ VerdictsExact(k)

CalmInv == \A k \in Keys \ disturbed : Calm(k)

\* A step that leaves alone all that key k has.
Quiet(k) ==
    /\ key' = key /\ now' >= now /\ entries'[k] = entries[k]
    /\ \A q \in Requests : key[q] = k =>
          pc'[q] = pc[q] /\ at'[q] = at[q] /\ outcome'[q] = outcome[q] /\ count'[q] = count[q]

LEMMA QuietKeeps ==
    ASSUME RedisTypes, RedisTypes', NEW k \in Keys, Calm(k), Quiet(k)
    PROVE  Calm(k)'
<1>1. Arrived(k)' = Arrived(k) /\ Holders(k)' = Holders(k)
  BY DEF Quiet, Arrived, Holders
<1>2. \A q \in Requests : key[q] = k => Seen(q)' = Seen(q)
  BY DEF Quiet, Seen, Admitted
<1>3. \A t \in Int : Admitted(k, t)' = Admitted(k, t)
  BY DEF Quiet, Admitted
<1>4. now \in Int /\ now' \in Int /\ now' >= now /\ \A q \in Requests : at[q] \in Int
  BY MaxTimeAssumption DEF Quiet, RedisTypes, TypeOK
<1>5. \A q \in Requests : q \in Arrived(k) \/ q \in Holders(k) => key[q] = k
  BY DEF Arrived, Holders
<1>6. OneByOne(k)'
  BY <1>1, <1>4, <1>5 DEF Calm, OneByOne, Quiet, Arrived
<1>7. SetExact(k)'
  BY <1>1, <1>5 DEF Calm, SetExact, Quiet, Arrived, Holders
<1>8. CountExact(k)'
  BY <1>1, <1>2, <1>5 DEF Calm, CountExact, Quiet, Arrived
<1>9. VerdictsExact(k)'
  BY <1>1, <1>2, <1>3, <1>5 DEF Calm, VerdictsExact, Quiet, Arrived
<1> QED
  BY <1>6, <1>7, <1>8, <1>9 DEF Calm

\* Numbers of a state, and what an arrived request knows of the others of its key.
LEMMA Numbers ==
    ASSUME RedisTypes
    PROVE  /\ now \in Int /\ Window \in Int /\ Window >= 0 /\ Limit \in Int /\ Limit >= 0
           /\ \A q \in Requests : at[q] \in Int /\ at[q] <= now /\ count[q] \in Int
           /\ \A k \in Keys : \A m \in entries[k] : m \in Int
  BY WindowAssumption, LimitAssumption, MaxTimeAssumption DEF RedisTypes, TypeOK

LEMMA OthersDone ==
    ASSUME RedisTypes, NEW r \in Requests, Calm(key[r]), pc[r] \notin {"new", "done"}
    PROVE  /\ r \in Arrived(key[r]) /\ outcome[r] = "none"
           /\ \A p \in Arrived(key[r]) \ {r} : pc[p] = "done" /\ at[p] < at[r]
           /\ \A p \in Holders(key[r]) \ {r} : p \in Arrived(key[r])
  BY DEF RedisTypes, TypeOK, Outcomes, Steps, Calm, OneByOne, Arrived, Holders

LEMMA ArriveCalm ==
    ASSUME RedisTypes, RedisTypes', NEW r \in Requests, Arrive(r),
           key[r] \in Keys \ disturbed', Calm(key[r])
    PROVE  Calm(key[r])'
<1> DEFINE k == key[r]
<1>0. k \in Keys /\ k \notin disturbed' /\ k \notin disturbed
  BY DEF Arrive
<1>1. /\ pc[r] = "new" /\ key' = key /\ now' = now /\ outcome' = outcome
      /\ entries' = entries /\ count' = count
      /\ at'[r] = now /\ pc'[r] = "trim" /\ outcome[r] = "none"
      /\ \A q \in Requests \ {r} : at'[q] = at[q] /\ pc'[q] = pc[q]
  BY DEF Arrive, vars, RedisTypes, TypeOK, Outcomes
<1>2. \A q \in Arrived(k) : pc[q] = "done"
  <2>1. \A q \in Requests : key[q] = k => q \notin InAllow
    BY <1>0 DEF Arrive
  <2> QED
    BY <2>1 DEF InAllow, Arrived
<1>3. Arrived(k)' = Arrived(k) \cup {r} /\ r \notin Arrived(k)
  BY <1>1 DEF Arrived
<1>4. \A q \in Arrived(k) : at[q] < now /\ at[q] \in Int /\ q \in Requests /\ q # r
  BY <1>2, <1>3, Numbers DEF Calm, OneByOne, Arrived
<1>5. Holders(k)' = Holders(k) /\ r \notin Holders(k) /\ Holders(k) \subseteq Requests
  BY <1>1 DEF Holders
<1>6. \A q \in Requests \ {r} : Seen(q)' = Seen(q)
  BY <1>1 DEF Seen, Admitted
<1>7. \A t \in Int : Admitted(k, t)' = Admitted(k, t)
  BY <1>1 DEF Admitted
<1>8. OneByOne(k)'
  <2>1. \A p, q \in Arrived(k)' : p # q => at'[p] # at'[q]
    BY <1>1, <1>3, <1>4, Numbers DEF Calm, OneByOne
  <2>2. \A p \in Arrived(k)' \ {r} : pc'[p] = "done" /\ at'[p] < at'[r]
    BY <1>1, <1>2, <1>3, <1>4
  <2> QED
    BY <1>1, <1>3, <2>1, <2>2 DEF OneByOne
<1>9. SetExact(k)'
  BY <1>1, <1>2, <1>3, <1>4, <1>5 DEF Calm, SetExact
<1>10. CountExact(k)'
  BY <1>1, <1>2, <1>3, <1>4, <1>6 DEF Calm, CountExact
<1>11. VerdictsExact(k)'
  BY <1>1, <1>3, <1>4, <1>6, <1>7 DEF Calm, VerdictsExact
<1> QED
  BY <1>1, <1>8, <1>9, <1>10, <1>11 DEF Calm

\* A step inside Allow that decides nothing leaves these alone.
Inside(r) ==
    /\ key' = key /\ now' = now /\ outcome' = outcome /\ at' = at
    /\ pc[r] \notin {"new", "done"} /\ pc'[r] \notin {"new", "done"}
    /\ \A q \in Requests \ {r} : pc'[q] = pc[q] /\ count'[q] = count[q]

LEMMA InsideKeeps ==
    ASSUME RedisTypes, NEW r \in Requests, NEW k \in Keys, key[r] = k, Inside(r), Calm(k),
           pc'[r] = "undo" => at[r] < now
    PROVE  /\ Arrived(k)' = Arrived(k)
           /\ \A q \in Requests : Seen(q)' = Seen(q)
           /\ OneByOne(k)' /\ VerdictsExact(k)'
<1>1. Arrived(k)' = Arrived(k) /\ Arrived(k) \subseteq Requests /\ r \in Arrived(k)
  BY DEF Arrived, Inside
<1>2. \A q \in Requests : Seen(q)' = Seen(q)
  BY DEF Seen, Admitted, Inside
<1>3. \A t \in Int : Admitted(k, t)' = Admitted(k, t)
  BY DEF Admitted, Inside
<1>4. OneByOne(k)'
  BY <1>1 DEF Calm, OneByOne, Inside
<1>5. VerdictsExact(k)'
  BY <1>1, <1>2, <1>3 DEF Calm, VerdictsExact, Inside
<1> QED
  BY <1>1, <1>2, <1>4, <1>5

LEMMA TrimCalm ==
    ASSUME RedisTypes, RedisTypes', NEW r \in Requests, ZRemRangeByScore(r),
           NEW k \in Keys, key[r] = k, Calm(k)
    PROVE  Calm(k)'
<1>1. /\ Inside(r) /\ pc[r] = "trim" /\ pc'[r] = "card" /\ count' = count
      /\ entries'[k] = {m \in entries[k] : m > at[r] - Window}
  BY DEF ZRemRangeByScore, Goto, vars, Inside, RedisTypes, TypeOK
<1>2. Arrived(k)' = Arrived(k) /\ (\A q \in Requests : Seen(q)' = Seen(q)) /\ OneByOne(k)' /\ VerdictsExact(k)'
  BY <1>1, InsideKeeps
<1>3. Holders(k)' = Holders(k) /\ Holders(k) \subseteq Requests /\ r \in Arrived(k)
  BY <1>1 DEF Holders, Inside, Arrived
<1>4. \A p \in Arrived(k) \ {r} : pc[p] = "done"
  BY <1>1, OthersDone
<1>5. SetExact(k)'
  <2>1. \A m \in entries'[k] : \E q \in Holders(k) : at'[q] = m
    BY <1>1 DEF Calm, SetExact, Inside
  <2>2. ASSUME NEW q \in Holders(k)
        PROVE  at'[q] \in entries'[k] \/ \E p \in Arrived(k) \ {q} : pc'[p] # "trim" /\ at'[q] <= at'[p] - Window
    <3>1. CASE at[q] \in entries[k]
      <4>1. q \in Requests /\ q # r
        BY <1>1, <1>3 DEF Holders, Inside, RedisTypes
      <4>2. CASE at[q] > at[r] - Window
        BY <1>1, <3>1, <4>2 DEF Inside
      <4>3. CASE at[q] <= at[r] - Window
        BY <1>1, <1>3, <4>1, <4>3 DEF Inside
      <4> QED
        BY <4>1, <4>2, <4>3, Numbers
    <3>2. CASE \E p \in Arrived(k) \ {q} : pc[p] # "trim" /\ at[q] <= at[p] - Window
      BY <1>1, <3>2 DEF Inside, Arrived
    <3> QED
      BY <3>1, <3>2 DEF Calm, SetExact
  <2>3. \A p \in Arrived(k) : pc'[p] = "card" => \A m \in entries'[k] : m > at'[p] - Window
    BY <1>1, <1>4 DEF Inside, Arrived
  <2> QED
    BY <1>2, <1>3, <2>1, <2>2, <2>3 DEF SetExact
<1>6. CountExact(k)'
  BY <1>1, <1>2 DEF Calm, CountExact, Inside, Arrived
<1> QED
  BY <1>2, <1>5, <1>6 DEF Calm

\* ZCARD counts the admitted requests in the window of an undisturbed request.
LEMMA CardIsSeen ==
    ASSUME RedisTypes, NEW r \in Requests, pc[r] = "card", NEW k \in Keys, key[r] = k, Calm(k)
    PROVE  Cardinality(entries[k]) = Cardinality(Seen(r))
<1>1. /\ r \in Arrived(k) /\ outcome[r] = "none"
      /\ \A p \in Arrived(k) \ {r} : pc[p] = "done" /\ at[p] < at[r]
      /\ Holders(k) \ {r} \subseteq Arrived(k)
  BY OthersDone
<1>2. r \notin Holders(k)
  BY <1>1 DEF Holders
<1>3. \A m \in entries[k] : \E q \in Seen(r) : at[q] = m
  <2> SUFFICES ASSUME NEW m \in entries[k] PROVE \E q \in Seen(r) : at[q] = m
    OBVIOUS
  <2>1. PICK q \in Holders(k) : at[q] = m
    BY DEF Calm, SetExact
  <2>2. m > at[r] - Window
    BY <1>1 DEF Calm, SetExact
  <2>3. q \in Requests /\ key[q] = k /\ pc[q] = "done" /\ at[q] < at[r] /\ outcome[q] = "admitted"
    BY <1>1, <1>2, <2>1 DEF Holders
  <2> QED
    BY <2>1, <2>2, <2>3, Numbers DEF Seen, Admitted
<1>4. \A q \in Seen(r) : at[q] \in entries[k]
  <2> SUFFICES ASSUME NEW q \in Seen(r) PROVE at[q] \in entries[k]
    OBVIOUS
  <2>1. q \in Holders(k) /\ at[q] > at[r] - Window /\ q \in Requests
    BY Numbers DEF Seen, Admitted, Holders
  <2>2. \A p \in Arrived(k) : at[p] \in Int /\ at[p] <= at[r]
    BY <1>1, Numbers DEF Arrived
  <2>3. ~ \E p \in Arrived(k) : at[q] <= at[p] - Window
    BY <2>1, <2>2, Numbers
  <2> QED
    BY <2>1, <2>3 DEF Calm, SetExact
<1>5. \A p, q \in Seen(r) : at[p] = at[q] => p = q
  BY DEF Seen, Admitted, Calm, OneByOne, Arrived, RedisTypes
<1>6. Seen(r) \in SUBSET Requests
  BY DEF Seen, Admitted
<1>7. /\ IsFiniteSet(entries[k]) /\ Cardinality(entries[k]) \in Nat /\ Cardinality(Seen(r)) \in Nat
      /\ Cardinality(entries[k]) <= Cardinality(Seen(r))
  BY <1>3, <1>6, TimesOfRequests
<1>8. Cardinality(Seen(r)) <= Cardinality(entries[k])
  <2> DEFINE g == [q \in Seen(r) |-> at[q]]
  <2>1. g \in Injection(Seen(r), entries[k])
    BY <1>4, <1>5 DEF Injection, IsInjective
  <2> QED
    BY <1>7, <2>1, FS_Injection
<1> QED
  BY <1>7, <1>8

LEMMA CardCalm ==
    ASSUME RedisTypes, RedisTypes', NEW r \in Requests, ZCard(r),
           NEW k \in Keys, key[r] = k, Calm(k)
    PROVE  Calm(k)'
<1>1. /\ Inside(r) /\ pc[r] = "card" /\ pc'[r] = "add" /\ entries' = entries
      /\ count'[r] = Cardinality(entries[k])
  BY DEF ZCard, Goto, vars, Inside, RedisTypes, TypeOK
<1>2. Arrived(k)' = Arrived(k) /\ (\A q \in Requests : Seen(q)' = Seen(q)) /\ OneByOne(k)' /\ VerdictsExact(k)'
  BY <1>1, InsideKeeps
<1>3. Holders(k)' = Holders(k)
  BY <1>1 DEF Holders, Inside
<1>4. SetExact(k)'
  BY <1>1, <1>2, <1>3 DEF Calm, SetExact, Inside, Arrived, Holders
<1>5. CountExact(k)'
  <2>1. count'[r] = Cardinality(Seen(r)')
    BY <1>1, <1>2, CardIsSeen
  <2> QED
    BY <1>1, <1>2, <2>1 DEF Calm, CountExact, Inside, Arrived
<1> QED
  BY <1>2, <1>4, <1>5 DEF Calm

LEMMA AddCalm ==
    ASSUME RedisTypes, RedisTypes', NEW r \in Requests, ZAdd(r),
           NEW k \in Keys, key[r] = k, Calm(k)
    PROVE  Calm(k)'
<1>1. /\ Inside(r) /\ pc[r] = "add" /\ pc'[r] = "reply" /\ count' = count
      /\ entries'[k] = entries[k] \cup {at[r]}
  BY DEF ZAdd, Goto, vars, Inside, RedisTypes, TypeOK
<1>2. Arrived(k)' = Arrived(k) /\ (\A q \in Requests : Seen(q)' = Seen(q)) /\ OneByOne(k)' /\ VerdictsExact(k)'
  BY <1>1, InsideKeeps
<1>3. Holders(k)' = Holders(k) \cup {r} /\ Arrived(k) \subseteq Requests
  BY <1>1 DEF Holders, Inside, Arrived
<1>4. \A p \in Arrived(k) \ {r} : pc[p] = "done"
  BY <1>1, OthersDone
<1>5. SetExact(k)'
  BY <1>1, <1>2, <1>3, <1>4 DEF Calm, SetExact, Inside, Holders
<1>6. CountExact(k)'
  BY <1>1, <1>2, <1>3 DEF Calm, CountExact, Inside
<1> QED
  BY <1>2, <1>5, <1>6 DEF Calm

LEMMA OverLimitCalm ==
    ASSUME RedisTypes, RedisTypes', NEW r \in Requests, ReplyOverLimit(r),
           NEW k \in Keys, key[r] = k, Calm(k)
    PROVE  Calm(k)'
<1>1. /\ Inside(r) /\ pc[r] = "reply" /\ pc'[r] = "undo" /\ count' = count /\ entries' = entries
      /\ at[r] < now /\ count[r] >= Limit
  BY DEF ReplyOverLimit, Goto, vars, Inside, RedisTypes, TypeOK
<1>2. Arrived(k)' = Arrived(k) /\ (\A q \in Requests : Seen(q)' = Seen(q)) /\ OneByOne(k)' /\ VerdictsExact(k)'
  BY <1>1, InsideKeeps
<1>3. Holders(k)' = Holders(k) /\ Arrived(k) \subseteq Requests
  BY <1>1 DEF Holders, Inside, Arrived
<1>4. SetExact(k)'
  BY <1>1, <1>2, <1>3 DEF Calm, SetExact, Inside, Holders
<1>5. CountExact(k)'
  BY <1>1, <1>2, <1>3 DEF Calm, CountExact, Inside
<1> QED
  BY <1>2, <1>4, <1>5 DEF Calm

\* A request that returns leaves these alone, but for its own outcome.
Returns(r) ==
    /\ key' = key /\ now' = now /\ at' = at /\ count' = count
    /\ pc'[r] = "done" /\ outcome[r] = "none" /\ outcome'[r] # "none"
    /\ \A q \in Requests \ {r} : pc'[q] = pc[q] /\ outcome'[q] = outcome[q]

LEMMA ReturnsOneByOne ==
    ASSUME RedisTypes, NEW r \in Requests, NEW k \in Keys, key[r] = k, Returns(r), Calm(k),
           pc[r] \in {"reply", "undo"}, at[r] < now
    PROVE  /\ Arrived(k)' = Arrived(k) /\ Arrived(k) \subseteq Requests /\ r \in Arrived(k)
           /\ \A p \in Arrived(k) \ {r} : pc[p] = "done" /\ at[p] < at[r]
           /\ OneByOne(k)'
<1>1. Arrived(k)' = Arrived(k) /\ Arrived(k) \subseteq Requests /\ r \in Arrived(k)
  BY DEF Arrived, Returns
<1>2. \A p \in Arrived(k) \ {r} : pc[p] = "done" /\ at[p] < at[r]
  BY OthersDone
<1>3. OneByOne(k)'
  BY <1>1, <1>2 DEF Calm, OneByOne, Returns
<1> QED
  BY <1>1, <1>2, <1>3

LEMMA AdmitsCalm ==
    ASSUME RedisTypes, RedisTypes', NEW r \in Requests, ReplyAdmits(r),
           NEW k \in Keys, key[r] = k, Calm(k)
    PROVE  Calm(k)'
<1>1. /\ Returns(r) /\ pc[r] = "reply" /\ entries' = entries /\ at[r] < now
      /\ outcome'[r] = "admitted" /\ count[r] < Limit
  BY DEF ReplyAdmits, Return, Returns, RedisTypes, TypeOK, Outcomes
<1>2. /\ Arrived(k)' = Arrived(k) /\ Arrived(k) \subseteq Requests /\ r \in Arrived(k)
      /\ \A p \in Arrived(k) \ {r} : pc[p] = "done" /\ at[p] < at[r]
      /\ OneByOne(k)'
  BY <1>1, ReturnsOneByOne
<1>3. Holders(k)' = Holders(k)
  BY <1>1 DEF Holders, Returns
<1>4. SetExact(k)'
  BY <1>1, <1>2, <1>3 DEF Calm, SetExact, Returns, Holders
<1>5. CountExact(k)'
  BY <1>1, <1>2 DEF CountExact, Returns
<1>6. \A q \in Arrived(k) \ {r} : Seen(q)' = Seen(q)
  <2> SUFFICES ASSUME NEW q \in Arrived(k) \ {r} PROVE Seen(q)' = Seen(q)
    OBVIOUS
  <2>1. q \in Requests /\ at[q] < at[r]
    BY <1>2
  <2> QED
    BY <1>1, <2>1, Numbers DEF Seen, Admitted, Returns
<1>7. IsFiniteSet(Seen(r)) /\ Cardinality(Seen(r)) \in Nat /\ Cardinality(Seen(r)) < Limit
  <2>1. Cardinality(Seen(r)) < Limit
    BY <1>1, <1>2 DEF Calm, CountExact
  <2> QED
    BY <2>1, AdmittedFinite DEF Seen
<1>8. ASSUME NEW t \in Int PROVE Cardinality(Admitted(k, t)') <= Limit
  <2>1. CASE t - Window < at[r] /\ at[r] <= t
    <3>1. Admitted(k, t)' \subseteq Seen(r) \cup {r}
      <4> SUFFICES ASSUME NEW q \in Admitted(k, t)', q # r PROVE q \in Seen(r)
        OBVIOUS
      <4>1. q \in Requests /\ key[q] = k /\ outcome[q] = "admitted" /\ t - Window < at[q]
        BY <1>1 DEF Admitted, Returns
      <4>2. at[q] < at[r]
        BY <1>2, <4>1 DEF Arrived, RedisTypes
      <4> QED
        BY <2>1, <4>1, <4>2, Numbers DEF Seen, Admitted
    <3>2. IsFiniteSet(Seen(r) \cup {r}) /\ Cardinality(Seen(r) \cup {r}) <= Cardinality(Seen(r)) + 1
      BY <1>7, FS_AddElement
    <3>3. Cardinality(Seen(r) \cup {r}) \in Nat
      BY <3>2, FS_CardinalityType
    <3>4. /\ Cardinality(Admitted(k, t)') \in Nat
          /\ Cardinality(Admitted(k, t)') <= Cardinality(Seen(r) \cup {r})
      BY <3>1, <3>2, FS_Subset, FS_CardinalityType
    <3> QED
      BY <1>7, <3>2, <3>3, <3>4, LimitAssumption
  <2>2. CASE ~(t - Window < at[r] /\ at[r] <= t)
    <3>1. Admitted(k, t)' = Admitted(k, t)
      BY <1>1, <2>2 DEF Admitted, Returns
    <3> QED
      BY <3>1 DEF Calm, VerdictsExact
  <2> QED
    BY <2>1, <2>2
<1>9. VerdictsExact(k)'
  BY <1>1, <1>2, <1>6, <1>8 DEF Calm, VerdictsExact, Returns
<1> QED
  BY <1>2, <1>4, <1>5, <1>9 DEF Calm

\* The member with the highest score is the one of the undisturbed request that undoes.
LEMMA RankCalm ==
    ASSUME RedisTypes, RedisTypes', NEW r \in Requests, ZRemRangeByRank(r),
           NEW k \in Keys, key[r] = k, Calm(k)
    PROVE  Calm(k)'
<1>0. pc[r] = "undo" /\ r \in Arrived(k) /\ r \in Holders(k)
  BY DEF ZRemRangeByRank, Arrived, Holders
<1>1. /\ Returns(r) /\ at[r] < now /\ outcome'[r] = "refused"
      /\ entries'[k] = entries[k] \ Highest(k)
  BY <1>0 DEF ZRemRangeByRank, Return, Returns, RedisTypes, TypeOK, Outcomes, Calm, OneByOne
<1>2. /\ Arrived(k)' = Arrived(k) /\ Arrived(k) \subseteq Requests
      /\ \A p \in Arrived(k) \ {r} : pc[p] = "done" /\ at[p] < at[r]
      /\ OneByOne(k)'
  BY <1>0, <1>1, ReturnsOneByOne
<1>3. Holders(k)' = Holders(k) \ {r} /\ \A q \in Holders(k) \ {r} : q \in Arrived(k)
  BY <1>0, <1>1, <1>2 DEF Holders, Returns, Arrived, RedisTypes, TypeOK
<1>4. \A p \in Arrived(k) : at[p] \in Int /\ at[p] <= at[r]
  BY <1>2, Numbers
<1>5. at[r] \in entries[k]
  <2>1. ~ \E p \in Arrived(k) \ {r} : at[r] <= at[p] - Window
    BY <1>2, <1>4, Numbers
  <2> QED
    BY <1>0, <2>1 DEF Calm, SetExact
<1>6. Highest(k) = {at[r]}
  <2>1. \A m \in entries[k] : m \in Int /\ m <= at[r]
    BY <1>3, <1>4, Numbers DEF Calm, SetExact
  <2> QED
    BY <1>5, <2>1 DEF Highest
<1>7. SetExact(k)'
  <2>1. \A m \in entries'[k] : \E q \in Holders(k) \ {r} : at'[q] = m
    BY <1>1, <1>6 DEF Calm, SetExact, Returns
  <2>2. ASSUME NEW q \in Holders(k) \ {r}
        PROVE  at'[q] \in entries'[k] \/ \E p \in Arrived(k) \ {q} : pc'[p] # "trim" /\ at'[q] <= at'[p] - Window
    <3>1. CASE at[q] \in entries[k]
      BY <1>1, <1>2, <1>3, <1>6, <3>1, Numbers DEF Returns
    <3>2. CASE \E p \in Arrived(k) \ {q} : pc[p] # "trim" /\ at[q] <= at[p] - Window
      BY <1>1, <1>2, <3>2 DEF Returns
    <3> QED
      BY <3>1, <3>2 DEF Calm, SetExact
  <2>3. \A p \in Arrived(k) : pc'[p] # "card"
    BY <1>1, <1>2 DEF Returns
  <2> QED
    BY <1>2, <1>3, <2>1, <2>2, <2>3 DEF SetExact
<1>8. CountExact(k)'
  BY <1>1, <1>2 DEF CountExact, Returns
<1>9. \A q \in Arrived(k) : Seen(q)' = Seen(q)
  BY <1>1, <1>2 DEF Seen, Admitted, Returns
<1>10. \A t \in Int : Admitted(k, t)' = Admitted(k, t)
  BY <1>1 DEF Admitted, Returns
<1>11. Cardinality(Seen(r)) >= Limit
  BY <1>0 DEF Calm, CountExact
<1>12. VerdictsExact(k)'
  BY <1>0, <1>1, <1>2, <1>9, <1>10, <1>11 DEF Calm, VerdictsExact, Returns
<1> QED
  BY <1>2, <1>7, <1>8, <1>12 DEF Calm

LEMMA CalmInit == RedisInit => CalmInv
<1> SUFFICES ASSUME RedisInit, NEW k \in Keys PROVE Calm(k)
  BY DEF CalmInv
<1>1. \A q \in Requests : pc[q] = "new" /\ outcome[q] = "none"
  BY DEF RedisInit, Init
<1>2. Arrived(k) = {} /\ Holders(k) = {} /\ entries[k] = {}
  BY <1>1 DEF Arrived, Holders, RedisInit
<1>3. \A t \in Int : Admitted(k, t) = {}
  BY <1>1 DEF Admitted
<1>4. \A t \in Int : Cardinality(Admitted(k, t)) <= Limit
  BY <1>3, FS_EmptySet, LimitAssumption
<1> QED
  BY <1>2, <1>4 DEF Calm, OneByOne, SetExact, CountExact, VerdictsExact

LEMMA CalmKept == LoadInv /\ CalmInv /\ [RedisNext]_redisVars => CalmInv'
<1> SUFFICES ASSUME LoadInv, CalmInv, [RedisNext]_redisVars, NEW k \in Keys, k \notin disturbed'
             PROVE  Calm(k)'
  BY DEF CalmInv
<1>0. RedisTypes /\ RedisTypes'
  BY LoadKept DEF LoadInv
<1>1. Calm(k)
  <2>1. disturbed \subseteq disturbed'
    BY DEF RedisNext, Step, Arrive, ZRemRangeByScore, ZCard, ZAdd, ReplyAdmits, ReplyOverLimit,
           ZRemRangeByRank, ExecError, UndoError, Resend, UndoAgain, Goto, Return, RedisTick,
           redisVars
  <2> QED
    BY <2>1 DEF CalmInv
<1>2. ASSUME NEW r \in Requests, Step(r), key[r] = k PROVE Calm(k)'
  <2>1. CASE Arrive(r)
    <3>1. Calm(key[r])'
      BY <1>0, <1>1, <1>2, <2>1, ArriveCalm
    <3>2. key' = key
      BY <2>1 DEF Arrive
    <3> QED
      BY <1>2, <3>1, <3>2
  <2>2. CASE ExecError(r) \/ UndoError(r) \/ Resend(r) \/ UndoAgain(r)
    BY <1>2, <2>2 DEF ExecError, UndoError, Resend, UndoAgain
  <2> QED
    BY <1>0, <1>1, <1>2, <2>1, <2>2, TrimCalm, CardCalm, AddCalm, AdmitsCalm, OverLimitCalm,
       RankCalm DEF Step
<1>3. ASSUME NEW r \in Requests, Step(r), key[r] # k PROVE Quiet(k)
  <2> USE <1>0, <1>3 DEF Quiet, RedisTypes, TypeOK, vars
  <2>1. now <= now
    BY Numbers
  <2>2. CASE Arrive(r)
    BY <2>1, <2>2 DEF Arrive
  <2>3. CASE ZRemRangeByScore(r) \/ ZCard(r) \/ ZAdd(r) \/ ReplyOverLimit(r)
    BY <2>1, <2>3 DEF ZRemRangeByScore, ZCard, ZAdd, ReplyOverLimit, Goto
  <2>4. CASE ReplyAdmits(r) \/ ZRemRangeByRank(r) \/ ExecError(r) \/ UndoError(r)
    BY <2>1, <2>4 DEF ReplyAdmits, ZRemRangeByRank, ExecError, UndoError, Return
  <2>5. CASE Resend(r) \/ UndoAgain(r)
    BY <2>1, <2>5 DEF Resend, UndoAgain
  <2> QED
    BY <1>3, <2>2, <2>3, <2>4, <2>5 DEF Step
<1>4. ASSUME RedisTick \/ UNCHANGED redisVars PROVE Quiet(k)
  <2>1. now \in Int
    BY <1>0, Numbers
  <2> QED
    BY <1>4, <2>1 DEF RedisTick, Tick, redisVars, vars, Quiet
<1> QED
  BY <1>0, <1>1, <1>2, <1>3, <1>4, QuietKeeps DEF RedisNext

\* For a key whose requests did not overlap and met no Redis failure the sorted set
\* decides exactly as the sliding window does, whatever other keys' requests do.
THEOREM UndisturbedExact == RedisSpec => []ExactWhenUndisturbed
<1>1. LoadInv /\ CalmInv => ExactWhenUndisturbed
  <2> SUFFICES ASSUME LoadInv, CalmInv, NEW k \in Keys \ disturbed
               PROVE  /\ \A t \in 0 .. now + Window : Cardinality(Admitted(k, t)) <= Limit
                      /\ \A r \in Requests : outcome[r] = "refused" /\ key[r] = k
                            => Cardinality(Admitted(k, at[r])) >= Limit
    BY DEF ExactWhenUndisturbed
  <2>1. VerdictsExact(k) /\ RedisTypes
    BY DEF CalmInv, Calm, LoadInv
  <2>2. \A t \in 0 .. now + Window : Cardinality(Admitted(k, t)) <= Limit
    BY <2>1 DEF VerdictsExact
  <2>3. ASSUME NEW r \in Requests, outcome[r] = "refused", key[r] = k
        PROVE  Cardinality(Admitted(k, at[r])) >= Limit
    BY <2>1, <2>3 DEF VerdictsExact, Arrived, Seen, RedisTypes
  <2> QED
    BY <2>2, <2>3
<1> QED
  BY <1>1, RedisInitLoad, LoadKept, CalmInit, CalmKept, PTL DEF RedisSpec

-----------------------------------------------------------------------------
(* An undisturbed key as an implementation of the sliding window.         *)

\* What Allow will decide on a request of key k is settled when the request arrives,
\* by whether its window is full then: the steps after that only carry it out.
Foreseen(k) ==
    [r \in Requests |->
        IF key[r] # k THEN "none"
        ELSE IF pc[r] \in {"new", "done"} THEN outcome[r]
        ELSE IF Cardinality(Admitted(k, at[r])) < Limit THEN "admitted" ELSE "refused"]

\* The arrival times of the requests of key k.
Times(k) == [r \in Requests |-> IF key[r] = k THEN at[r] ELSE 0]

\* The sliding window of key k alone: the requests of other keys are left undecided.
OfKey(k) == INSTANCE SlidingWindow WITH outcome <- Foreseen(k), at <- Times(k)

LEMMA InitOfKey ==
    ASSUME NEW k \in Keys, RedisInit
    PROVE  OfKey(k)!Init
<1>1. Foreseen(k) = [r \in Requests |-> "none"]
  BY DEF RedisInit, Init, Foreseen
<1>2. Times(k) = [r \in Requests |-> 0]
  BY DEF RedisInit, Init, Times
<1> QED
  BY <1>1, <1>2 DEF OfKey!Init, RedisInit, Init

\* What is foreseen for a request depends on what its key has and nothing else.
LEMMA ForeseenDepends ==
    ASSUME NEW k \in Keys, key' = key,
           \A q \in Requests : key[q] = k =>
               pc'[q] = pc[q] /\ at'[q] = at[q] /\ outcome'[q] = outcome[q]
    PROVE  Foreseen(k)' = Foreseen(k) /\ Times(k)' = Times(k)
<1>1. \A q \in Requests : key[q] = k => Admitted(k, at[q])' = Admitted(k, at[q])
  BY DEF Admitted
<1>2. Times(k)' = Times(k)
  BY DEF Times
<1>3. Foreseen(k)' = Foreseen(k)
  BY <1>1 DEF Foreseen
<1> QED
  BY <1>2, <1>3

\* The commands of the pipeline and the reply over the limit decide nothing new.
LEMMA InsideForeseen ==
    ASSUME NEW r \in Requests, NEW k \in Keys, Inside(r)
    PROVE  Foreseen(k)' = Foreseen(k) /\ Times(k)' = Times(k)
<1>1. \A q \in Requests : Admitted(k, at[q])' = Admitted(k, at[q])
  BY DEF Admitted, Inside
<1>2. \A q \in Requests : pc'[q] \in {"new", "done"} <=> pc[q] \in {"new", "done"}
  BY DEF Inside
<1>3. Times(k)' = Times(k)
  BY DEF Times, Inside
<1>4. Foreseen(k)' = Foreseen(k)
  BY <1>1, <1>2 DEF Foreseen, Inside
<1> QED
  BY <1>3, <1>4

\* A request that returns with what was foreseen shows nothing new either: the others
\* of its key are not in Allow, so no window they wait for changes.
LEMMA ReturnsForeseen ==
    ASSUME RedisTypes, NEW r \in Requests, NEW k \in Keys, key[r] = k, Calm(k), Returns(r),
           pc[r] \in {"reply", "undo"}, outcome'[r] = Foreseen(k)[r]
    PROVE  Foreseen(k)' = Foreseen(k) /\ Times(k)' = Times(k)
<1>1. Times(k)' = Times(k)
  BY DEF Times, Returns
<1>2. \A q \in Requests \ {r} : key[q] = k => pc[q] \in {"new", "done"}
  BY OthersDone DEF Arrived
<1>3. ASSUME NEW q \in Requests PROVE Foreseen(k)'[q] = Foreseen(k)[q]
  <2>1. CASE q = r
    BY <2>1 DEF Foreseen, Returns
  <2>2. CASE q # r
    BY <1>2, <2>2 DEF Foreseen, Returns
  <2> QED
    BY <2>1, <2>2
<1>4. Foreseen(k)' = Foreseen(k)
  BY <1>3 DEF Foreseen
<1> QED
  BY <1>1, <1>4

\* The arrival is the step that decides: nobody else of the key is in Allow, so what
\* is foreseen of the others is what they got.
LEMMA ArriveDecides ==
    ASSUME RedisTypes, NEW r \in Requests, Arrive(r), NEW k \in Keys, key[r] = k,
           k \notin disturbed'
    PROVE  OfKey(k)!Decide(r)
<1>1. /\ pc[r] = "new" /\ key' = key /\ now' = now /\ outcome' = outcome
      /\ at'[r] = now /\ pc'[r] = "trim" /\ outcome[r] = "none"
      /\ \A q \in Requests \ {r} : at'[q] = at[q] /\ pc'[q] = pc[q]
  BY DEF Arrive, vars, RedisTypes, TypeOK, Outcomes
<1>2. \A q \in Requests : key[q] = k => pc[q] \in {"new", "done"}
  BY DEF Arrive, InAllow
<1>3. \A q \in Requests : key[q] = k => Foreseen(k)[q] = outcome[q] /\ Times(k)[q] = at[q]
  BY <1>2 DEF Foreseen, Times
<1>4. OfKey(k)!Admitted(key[r], now) = Admitted(k, now)
  BY <1>3 DEF Admitted, OfKey!Admitted
<1>5. Admitted(k, at[r])' = Admitted(k, now)
  BY <1>1 DEF Admitted
<1>6. Times(k)' = [Times(k) EXCEPT ![r] = now]
  BY <1>1 DEF Times
<1>7. Foreseen(k)'[r] = IF Cardinality(Admitted(k, now)) < Limit THEN "admitted" ELSE "refused"
  BY <1>1, <1>5 DEF Foreseen
<1>8. ASSUME NEW q \in Requests \ {r} PROVE Foreseen(k)'[q] = Foreseen(k)[q]
  BY <1>1, <1>2 DEF Foreseen
<1>9. Foreseen(k)' = [Foreseen(k) EXCEPT ![r] =
          IF Cardinality(Admitted(k, now)) < Limit THEN "admitted" ELSE "refused"]
  BY <1>7, <1>8 DEF Foreseen
<1>10. Foreseen(k)[r] = "none"
  BY <1>1, <1>3
<1>11. OfKey(k)!Cardinality(Admitted(k, now)) = Cardinality(Admitted(k, now))
  BY Zenon DEF OfKey!Cardinality, Cardinality
<1> QED
  BY <1>1, <1>4, <1>6, <1>9, <1>10, <1>11 DEF OfKey!Decide

\* Every other step, of this key and of others, leaves the mapped state alone.
LEMMA StepOfKey ==
    ASSUME LoadInv, CalmInv, [RedisNext]_redisVars, NEW k \in Keys,
           k \notin disturbed, k \notin disturbed'
    PROVE  [OfKey(k)!Next]_(OfKey(k)!vars)
<1>0. RedisTypes /\ Calm(k)
  BY DEF LoadInv, CalmInv
<1> DEFINE Same == /\ now' = now /\ key' = key
                   /\ Foreseen(k)' = Foreseen(k) /\ Times(k)' = Times(k)
<1>1. Same => UNCHANGED OfKey(k)!vars
  BY DEF OfKey!vars
<1>2. ASSUME NEW r \in Requests, Step(r), key[r] = k
      PROVE  OfKey(k)!Decide(r) \/ Same
  <2>1. CASE Arrive(r)
    BY <1>0, <1>2, <2>1, ArriveDecides
  <2>2. CASE ExecError(r) \/ UndoError(r) \/ Resend(r) \/ UndoAgain(r)
    BY <1>2, <2>2 DEF ExecError, UndoError, Resend, UndoAgain
  <2>3. CASE ZRemRangeByScore(r) \/ ZCard(r) \/ ZAdd(r) \/ ReplyOverLimit(r)
    <3>1. Inside(r)
      BY <1>0, <2>3 DEF ZRemRangeByScore, ZCard, ZAdd, ReplyOverLimit, Goto, Inside, vars,
                        RedisTypes
    <3> QED
      BY <3>1, InsideForeseen DEF Inside
  <2>4. CASE ReplyAdmits(r)
    <3>1. Returns(r) /\ pc[r] = "reply" /\ outcome'[r] = "admitted" /\ count[r] < Limit
      BY <1>0, <2>4 DEF ReplyAdmits, Return, Returns, RedisTypes, TypeOK, Outcomes
    <3>2. count[r] = Cardinality(Admitted(k, at[r]))
      BY <1>0, <1>2, <3>1 DEF Calm, CountExact, Arrived, Seen
    <3>3. outcome'[r] = Foreseen(k)[r]
      BY <1>2, <3>1, <3>2 DEF Foreseen
    <3> QED
      BY <1>0, <1>2, <3>1, <3>3, ReturnsForeseen DEF Returns
  <2>5. CASE ZRemRangeByRank(r)
    <3>1. Returns(r) /\ pc[r] = "undo" /\ outcome'[r] = "refused"
      BY <1>0, <2>5 DEF ZRemRangeByRank, Return, Returns, RedisTypes, TypeOK, Outcomes
    <3>2. count[r] = Cardinality(Admitted(k, at[r])) /\ count[r] >= Limit /\ count[r] \in Int
      BY <1>0, <1>2, <3>1, Numbers DEF Calm, CountExact, Arrived, Seen
    <3>3. outcome'[r] = Foreseen(k)[r]
      BY <1>2, <3>1, <3>2, LimitAssumption DEF Foreseen
    <3> QED
      BY <1>0, <1>2, <3>1, <3>3, ReturnsForeseen DEF Returns
  <2> QED
    BY <1>2, <2>1, <2>2, <2>3, <2>4, <2>5 DEF Step
<1>3. ASSUME NEW r \in Requests, Step(r), key[r] # k PROVE Same
  <2> USE <1>0, <1>3 DEF RedisTypes, TypeOK, vars
  <2>1. /\ now' = now /\ key' = key
        /\ \A q \in Requests : key[q] = k =>
              pc'[q] = pc[q] /\ at'[q] = at[q] /\ outcome'[q] = outcome[q]
    <3>1. CASE Arrive(r)
      BY <3>1 DEF Arrive
    <3>2. CASE ZRemRangeByScore(r) \/ ZCard(r) \/ ZAdd(r) \/ ReplyOverLimit(r)
      BY <3>2 DEF ZRemRangeByScore, ZCard, ZAdd, ReplyOverLimit, Goto
    <3>3. CASE ReplyAdmits(r) \/ ZRemRangeByRank(r) \/ ExecError(r) \/ UndoError(r)
      BY <3>3 DEF ReplyAdmits, ZRemRangeByRank, ExecError, UndoError, Return
    <3>4. CASE Resend(r) \/ UndoAgain(r)
      BY <3>4 DEF Resend, UndoAgain
    <3> QED
      BY <1>3, <3>1, <3>2, <3>3, <3>4 DEF Step
  <2> QED
    BY <2>1, ForeseenDepends
<1>4. CASE RedisTick
  <2>1. Foreseen(k)' = Foreseen(k) /\ Times(k)' = Times(k)
    BY <1>4, ForeseenDepends DEF RedisTick, Tick
  <2> QED
    BY <1>4, <2>1 DEF RedisTick, Tick, OfKey!Tick, OfKey!Next
<1>5. CASE UNCHANGED redisVars
  <2>1. Foreseen(k)' = Foreseen(k) /\ Times(k)' = Times(k)
    BY <1>5, ForeseenDepends DEF redisVars, vars
  <2> QED
    BY <1>1, <1>5, <2>1 DEF redisVars, vars
<1>6. ASSUME NEW r \in Requests, OfKey(k)!Decide(r) PROVE OfKey(k)!Next
  BY <1>6 DEF OfKey!Next
<1> QED
  BY <1>1, <1>2, <1>3, <1>4, <1>5, <1>6 DEF RedisNext

\* RedisRateLimiter implements the sliding window for every key that stays undisturbed:
\* the commands of its pipeline, the reply and the removal of the own member amount to
\* one decision at the time of arrival, whatever the requests of other keys do in
\* between and whether or not Redis fails them.
THEOREM RedisImplements ==
    ASSUME NEW k \in Keys
    PROVE  RedisSpec /\ [](k \notin disturbed) => OfKey(k)!Spec
<1>1. LoadInv /\ CalmInv /\ [RedisNext]_redisVars /\ k \notin disturbed /\ (k \notin disturbed)'
          => [OfKey(k)!Next]_(OfKey(k)!vars)
  BY StepOfKey
<1>2. RedisInit => OfKey(k)!Init
  BY InitOfKey
<1> QED
  BY <1>1, <1>2, RedisInitLoad, LoadKept, CalmInit, CalmKept, PTL DEF RedisSpec, OfKey!Spec

=============================================================================
