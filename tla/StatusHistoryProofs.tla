------------------------- MODULE StatusHistoryProofs -------------------------
(***************************************************************************)
(* Proofs about StatusHistory, for any number of providers and any size of *)
(* the ring buffer.  RingExact is inductive together with TypeOK: the slot *)
(* that is overwritten is the one of the record that falls out of the      *)
(* window, because the numbers of the records in the window differ by less *)
(* than the size of the buffer (ModDistinct).  CacheIsLast ties the cache  *)
(* to the log, RoundSoFar the log to the round of checks in progress, and  *)
(* Dense the number of records since any record to the rounds since then.  *)
(***************************************************************************)
EXTENDS StatusHistory, FiniteSetTheorems, TLAPS

-----------------------------------------------------------------------------
(* The remainders that number the slots of the ring buffer. *)

\* Quotient and remainder of a natural number.
LEMMA DivMod ==
  ASSUME NEW k \in Nat, NEW n \in Nat \ {0}
  PROVE  k = n * (k \div n) + (k % n) /\ k \div n \in Nat /\ k % n \in 0 .. (n - 1)
  BY SMTT(30)

\* The remainder is the only one that fits.
LEMMA ModUnique ==
  ASSUME NEW k \in Nat, NEW n \in Nat \ {0}, NEW q \in Nat, NEW r \in 0 .. (n - 1),
         k = n * q + r
  PROVE  k % n = r
  BY SMTT(30)

\* A counter below the divisor is its own remainder.
LEMMA ModSmall ==
  ASSUME NEW n \in Nat \ {0}, NEW k \in 0 .. (n - 1)
  PROVE  k % n = k
<1>1. k \in Nat /\ k = n * 0 + k
  OBVIOUS
<1> QED
  BY <1>1, ModUnique

\* Two counters less than the divisor apart have different remainders.
LEMMA ModDistinct ==
  ASSUME NEW a \in Nat, NEW b \in Nat, NEW n \in Nat \ {0}, a < b, b < a + n
  PROVE  a % n # b % n
<1> DEFINE p == a \div n
           q == b \div n
           r == a % n
<1> SUFFICES ASSUME b % n = r PROVE FALSE
  OBVIOUS
<1>1. a = n * p + r /\ p \in Nat /\ r \in 0 .. (n - 1)
  BY DivMod
<1>2. b = n * q + r /\ q \in Nat
  BY DivMod
<1> HIDE DEF p, q, r
<1>3. n * p < n * q /\ n * q < n * p + n
  BY <1>1, <1>2
<1>4. CASE q <= p
  <2>1. PICK d \in Nat : p = q + d
    BY <1>1, <1>2, <1>4
  <2>2. n * p = n * q + n * d /\ n * d >= 0
    BY <1>2, <2>1
  <2> QED
    BY <1>1, <1>2, <1>3, <2>2
<1>5. CASE q > p
  <2>1. PICK d \in Nat : q = (p + 1) + d
    BY <1>1, <1>2, <1>5
  <2>2. n * q = (n * p + n) + n * d /\ n * d >= 0
    BY <1>1, <2>1
  <2> QED
    BY <1>1, <1>2, <1>3, <2>2
<1> QED
  BY <1>1, <1>2, <1>4, <1>5

-----------------------------------------------------------------------------

IInv == TypeOK /\ RingExact

\* The record that a finished probe stores.
Result(ok) == [provider |-> probing, status |-> StatusOf(ok, circuit), round |-> round]

LEMMA ResultType ==
  ASSUME TypeOK, NEW ok \in BOOLEAN, probing # None
  PROVE  Result(ok) \in Records
<1>1. StatusOf(ok, circuit) \in Statuses
  BY DEF StatusOf, Statuses
<1> QED
  BY <1>1 DEF TypeOK, Records, Result

\* A write position of the ring buffer is one of its slots.
LEMMA SlotInRange ==
  ASSUME NEW k \in Nat
  PROVE  k % maxHistoryRecords \in 0 .. (maxHistoryRecords - 1)
  BY DivMod, HistoryAssumption

LEMMA InitIInv == Init => IInv
<1> SUFFICES ASSUME Init PROVE IInv
  OBVIOUS
<1>1. <<>> \in Seq(Records) /\ Len(<<>>) = 0 /\ DOMAIN <<>> = {}
  OBVIOUS
<1>2. TypeOK
  BY <1>1, HistoryAssumption, RoundsAssumption DEF Init, TypeOK, Circuits
<1>3. RingExact
  BY <1>1, HistoryAssumption DEF Init, RingExact
<1> QED
  BY <1>2, <1>3 DEF IInv

\* Storing a record keeps buffer and log sequences of records.
LEMMA StoreTypes ==
  ASSUME TypeOK, NEW ok \in BOOLEAN, FinishProbe(ok)
  PROVE  /\ history' \in Seq(Records) /\ Len(history') <= maxHistoryRecords
         /\ historyIdx' = historyIdx + 1
         /\ log' = Append(log, Result(ok)) /\ log' \in Seq(Records)
         /\ history' = IF Len(history) < maxHistoryRecords
                         THEN Append(history, Result(ok))
                         ELSE [history EXCEPT ![(historyIdx % maxHistoryRecords) + 1] = Result(ok)]
<1>1. Result(ok) \in Records
  BY ResultType DEF FinishProbe
<1>2. /\ historyIdx' = historyIdx + 1
      /\ log' = Append(log, Result(ok))
      /\ history' = IF Len(history) < maxHistoryRecords
                      THEN Append(history, Result(ok))
                      ELSE [history EXCEPT ![(historyIdx % maxHistoryRecords) + 1] = Result(ok)]
  BY DEF FinishProbe, appendHistory, Result
<1>3. log' \in Seq(Records)
  BY <1>1, <1>2 DEF TypeOK
<1>4. history' \in Seq(Records) /\ Len(history') <= maxHistoryRecords
  <2>1. CASE Len(history) < maxHistoryRecords
    BY <1>1, <1>2, <2>1, HistoryAssumption DEF TypeOK
  <2>2. CASE ~(Len(history) < maxHistoryRecords)
    <3> DEFINE slot == (historyIdx % maxHistoryRecords) + 1
               r == Result(ok)
    <3>1. history' = [history EXCEPT ![slot] = r] /\ r \in Records
      BY <1>1, <1>2, <2>2
    <3> HIDE DEF slot, r
    <3>2. DOMAIN history = 1 .. Len(history) /\ Len(history) \in Nat
      BY DEF TypeOK
    <3>3. history' \in [1 .. Len(history) -> Records]
      <4>1. history \in [1 .. Len(history) -> Records]
        BY <3>2 DEF TypeOK
      <4> QED
        BY <3>1, <4>1
    <3>4. history' \in Seq(Records) /\ Len(history') = Len(history)
      BY <3>2, <3>3
    <3> QED
      BY <3>4 DEF TypeOK
  <2> QED
    BY <2>1, <2>2
<1> QED
  BY <1>2, <1>3, <1>4

LEMMA TypeKept ==
  ASSUME TypeOK, [Next]_vars
  PROVE  TypeOK'
<1>1. CASE ListActiveProviders
  BY <1>1, RoundsAssumption DEF TypeOK, ListActiveProviders, env, store
<1>2. CASE ListActiveProvidersError
  BY <1>2, RoundsAssumption DEF TypeOK, ListActiveProvidersError, env, store
<1>3. ASSUME NEW p \in Providers, SkipProvider(p) PROVE TypeOK'
  BY <1>3 DEF TypeOK, SkipProvider, env, store
<1>4. ASSUME NEW p \in Providers, StartProbe(p) PROVE TypeOK'
  BY <1>4 DEF TypeOK, StartProbe, env, store
<1>5. ASSUME NEW p \in Providers, ToggleProvider(p) PROVE TypeOK'
  BY <1>5 DEF TypeOK, ToggleProvider, store
<1>6. ASSUME NEW ok \in BOOLEAN, FinishProbe(ok) PROVE TypeOK'
  <2>1. healthCache' \in [Providers -> Statuses \cup {None}]
    BY <1>6 DEF TypeOK, FinishProbe, StatusOf, Statuses
  <2>2. historyIdx' \in Nat /\ history' \in Seq(Records) /\ Len(history') <= maxHistoryRecords
        /\ log' \in Seq(Records)
    BY <1>6, StoreTypes DEF TypeOK
  <2>3. probing' = None /\ UNCHANGED <<env, round, listed, todo, circuit>>
    BY <1>6 DEF FinishProbe
  <2> QED
    BY <2>1, <2>2, <2>3 DEF TypeOK, env
<1>7. ASSUME NEW p \in Registered \ Chained, NEW c \in Circuits, BreakerChanges(p, c)
      PROVE  TypeOK'
  BY <1>7 DEF TypeOK, BreakerChanges, store
<1>8. CASE UNCHANGED vars
  BY <1>8 DEF TypeOK, vars, env, store
<1> QED
  BY <1>1, <1>2, <1>3, <1>4, <1>5, <1>6, <1>7, <1>8 DEF Next

\* A finished probe writes the one slot that is no longer needed.
LEMMA RingStep ==
  ASSUME TypeOK, RingExact, NEW ok \in BOOLEAN, FinishProbe(ok)
  PROVE  RingExact'
<1> DEFINE N == maxHistoryRecords
           n == Len(log)
           r == Result(ok)
<1>1. N \in Nat \ {0} /\ n \in Nat /\ historyIdx = n
      /\ Len(history) = IF n < N THEN n ELSE N
  BY HistoryAssumption DEF TypeOK, RingExact
<1>2. /\ DOMAIN log = 1 .. n
      /\ log' = Append(log, r) /\ Len(log') = n + 1 /\ DOMAIN log' = 1 .. (n + 1)
      /\ log'[n + 1] = r /\ \A t \in 1 .. n : log'[t] = log[t]
  <2>1. log' = Append(log, r) /\ log \in Seq(Records) /\ r \in Records
    BY StoreTypes, ResultType DEF TypeOK, FinishProbe
  <2> HIDE DEF r
  <2> QED
    BY <2>1
<1>3. historyIdx' = n + 1
  BY <1>1, StoreTypes
<1>4. history \in Seq(Records) /\ history' = IF Len(history) < N THEN Append(history, r)
                                             ELSE [history EXCEPT ![(n % N) + 1] = r]
  BY <1>1, StoreTypes DEF TypeOK
<1>5. \A t \in 1 .. n : t + N > n => history[((t - 1) % N) + 1] = log[t]
  BY <1>2 DEF RingExact
<1> HIDE DEF N, n, r
<1>6. CASE n < N
  <2>1. /\ Len(history') = n + 1 /\ history'[n + 1] = r
        /\ \A i \in 1 .. n : history'[i] = history[i]
    BY <1>1, <1>4, <1>6
  <2>2. ASSUME NEW t \in 1 .. (n + 1) PROVE ((t - 1) % N) + 1 = t
    <3>1. t - 1 \in 0 .. (N - 1)
      BY <1>1, <1>6
    <3>2. (t - 1) % N = t - 1
      BY <1>1, <3>1, ModSmall
    <3> QED
      BY <1>1, <3>2
  <2>3. ASSUME NEW t \in 1 .. (n + 1) PROVE history'[((t - 1) % N) + 1] = log'[t]
    <3>1. CASE t = n + 1
      <4>1. ((t - 1) % N) + 1 = n + 1
        BY <2>2, <3>1
      <4> QED
        BY <1>2, <2>1, <3>1, <4>1
    <3>2. CASE t # n + 1
      <4>1. t \in 1 .. n /\ t + N > n
        BY <1>1, <1>6, <3>2
      <4>2. ((t - 1) % N) + 1 = t
        BY <2>2
      <4>3. history[t] = log[t]
        BY <1>5, <4>1, <4>2
      <4> QED
        BY <1>2, <2>1, <4>1, <4>2, <4>3
    <3> QED
      BY <3>1, <3>2
  <2>4. Len(history') = IF n + 1 < N THEN n + 1 ELSE N
    BY <1>1, <1>6, <2>1
  <2> QED
    BY <1>2, <1>3, <2>3, <2>4 DEF RingExact, N
<1>7. CASE ~(n < N)
  <2>1. n % N \in 0 .. (N - 1)
    BY <1>1, DivMod
  <2>2. /\ Len(history') = N /\ history'[(n % N) + 1] = r
        /\ \A i \in 1 .. N : i # (n % N) + 1 => history'[i] = history[i]
    <3>1. history' = [history EXCEPT ![(n % N) + 1] = r] /\ Len(history) = N
      BY <1>1, <1>4, <1>7
    <3>2. DOMAIN history = 1 .. N
      BY <1>4, <3>1
    <3>3. (n % N) + 1 \in 1 .. N
      BY <1>1, <2>1
    <3>4. DOMAIN history' = 1 .. N /\ Len(history') = N
      BY <1>1, <1>4, <3>1, <3>2
    <3> QED
      BY <3>1, <3>2, <3>3, <3>4
  <2>3. ASSUME NEW t \in 1 .. (n + 1), t + N > n + 1
        PROVE  history'[((t - 1) % N) + 1] = log'[t]
    <3>1. CASE t = n + 1
      <4>1. t - 1 = n
        BY <1>1, <3>1
      <4> QED
        BY <1>2, <2>2, <3>1, <4>1
    <3>2. CASE t # n + 1
      <4>1. t \in 1 .. n /\ t + N > n /\ t - 1 \in Nat /\ t - 1 < n /\ n < (t - 1) + N
        BY <1>1, <2>3, <3>2
      <4>2. (t - 1) % N # n % N
        BY <1>1, <4>1, ModDistinct
      <4>3. (t - 1) % N \in 0 .. (N - 1)
        BY <1>1, <4>1, DivMod
      <4>4. ((t - 1) % N) + 1 \in 1 .. N /\ ((t - 1) % N) + 1 # (n % N) + 1
        BY <1>1, <2>1, <4>2, <4>3
      <4>5. history'[((t - 1) % N) + 1] = history[((t - 1) % N) + 1]
        BY <2>2, <4>4
      <4> QED
        BY <1>2, <1>5, <4>1, <4>5
    <3> QED
      BY <3>1, <3>2
  <2>4. Len(history') = IF n + 1 < N THEN n + 1 ELSE N
    BY <1>1, <1>7, <2>2
  <2> QED
    BY <1>2, <1>3, <2>3, <2>4 DEF RingExact, N
<1> QED
  BY <1>6, <1>7

-----------------------------------------------------------------------------
\* The inductive invariant holds in every reachable state.
THEOREM InvariantHolds == Spec => []IInv
<1>1. IInv /\ [Next]_vars => IInv'
  <2> SUFFICES ASSUME IInv, [Next]_vars PROVE IInv'
    OBVIOUS
  <2>1. TypeOK /\ RingExact
    BY DEF IInv
  <2>2. (\E ok \in BOOLEAN : FinishProbe(ok)) \/ UNCHANGED store
    BY DEF Next, vars, ListActiveProviders, ListActiveProvidersError, SkipProvider,
           StartProbe, ToggleProvider, BreakerChanges
  <2>3. UNCHANGED store => RingExact'
    BY <2>1 DEF store, RingExact
  <2>4. RingExact'
    BY <2>1, <2>2, <2>3, RingStep
  <2> QED
    BY <2>1, <2>4, TypeKept DEF IInv
<1> QED
  BY <1>1, InitIInv, PTL DEF Spec

\* Cache, ring buffer and log keep their types, and the buffer its bound.
THEOREM TypeCorrect == Spec => []TypeOK
<1>1. IInv => TypeOK
  BY DEF IInv
<1> QED
  BY <1>1, InvariantHolds, PTL

\* The ring buffer behind /status/history is exactly the last
\* maxHistoryRecords records, for every size of the buffer.
THEOREM RingHoldsLast == Spec => []RingExact
<1>1. IInv => RingExact
  BY DEF IInv
<1> QED
  BY <1>1, InvariantHolds, PTL

-----------------------------------------------------------------------------
(* The verdict.  The cache holds the status of the last record of each     *)
(* provider, and there is a last one whenever there is one.                *)

CacheIsLast ==
    \A p \in Providers :
        IF healthCache[p] = None THEN \A t \in DOMAIN log : log[t].provider # p
        ELSE \E t \in DOMAIN log : LastOf(p, t) /\ log[t].status = healthCache[p]

\* A finished probe adds its record at the end of the log and changes no other.
LEMMA LogStep ==
  ASSUME TypeOK, NEW ok \in BOOLEAN, FinishProbe(ok)
  PROVE  /\ Len(log) \in Nat /\ DOMAIN log = 1 .. Len(log)
         /\ Len(log') = Len(log) + 1 /\ DOMAIN log' = 1 .. (Len(log) + 1)
         /\ log'[Len(log) + 1] = Result(ok)
         /\ \A t \in 1 .. Len(log) : log'[t] = log[t]
<1> DEFINE r == Result(ok)
<1>1. log' = Append(log, r) /\ log \in Seq(Records) /\ r \in Records
  BY StoreTypes, ResultType DEF TypeOK, FinishProbe
<1> HIDE DEF r
<1>2. /\ Len(log) \in Nat /\ DOMAIN log = 1 .. Len(log)
      /\ Len(log') = Len(log) + 1 /\ DOMAIN log' = 1 .. (Len(log) + 1)
      /\ log'[Len(log) + 1] = r
      /\ \A t \in 1 .. Len(log) : log'[t] = log[t]
  BY <1>1
<1> QED
  BY <1>2 DEF r

LEMMA CacheStep ==
  ASSUME TypeOK, CacheIsLast, NEW ok \in BOOLEAN, FinishProbe(ok)
  PROVE  CacheIsLast'
<1> DEFINE n == Len(log)
           r == Result(ok)
<1>1. /\ n \in Nat /\ DOMAIN log = 1 .. n /\ DOMAIN log' = 1 .. (n + 1)
      /\ log'[n + 1] = r /\ \A t \in 1 .. n : log'[t] = log[t]
  BY LogStep
<1>2. /\ probing \in Providers /\ r.provider = probing /\ r.status \in Statuses
      /\ healthCache' = [healthCache EXCEPT ![probing] = r.status]
  <2>1. probing \in Providers
    BY DEF TypeOK, FinishProbe
  <2>2. r.provider = probing /\ r.status = StatusOf(ok, circuit)
    BY DEF Result
  <2> QED
    BY <2>1, <2>2 DEF StatusOf, Statuses, FinishProbe
<1> HIDE DEF n, r
<1>3. \A s \in Statuses : s # None
  BY DEF Statuses, None
<1> SUFFICES ASSUME NEW p \in Providers
             PROVE  IF healthCache'[p] = None THEN \A t \in DOMAIN log' : log'[t].provider # p
                    ELSE \E t \in DOMAIN log' : LastOf(p, t)' /\ log'[t].status = healthCache'[p]
  BY DEF CacheIsLast
<1>4. CASE p = probing
  <2>1. healthCache'[p] = r.status
    BY <1>2, <1>4 DEF TypeOK
  <2>2. PICK m \in Nat : m = n + 1
    BY <1>1
  <2>3. m \in DOMAIN log' /\ log'[m] = r
    BY <1>1, <2>2
  <2>4. \A u \in DOMAIN log' : u <= m
    BY <1>1, <2>2
  <2>5. LastOf(p, m)'
    BY <1>2, <1>4, <2>3, <2>4 DEF LastOf
  <2>6. log'[m].status = healthCache'[p]
    BY <2>1, <2>3
  <2> QED
    BY <1>2, <1>3, <2>1, <2>3, <2>5, <2>6
<1>5. CASE p # probing
  <2>1. healthCache'[p] = healthCache[p]
    BY <1>2, <1>5 DEF TypeOK
  <2>2. \A t \in DOMAIN log' : log'[t].provider = p => t \in DOMAIN log /\ log'[t] = log[t]
    BY <1>1, <1>2, <1>5
  <2>3. CASE healthCache[p] = None
    BY <2>1, <2>2, <2>3 DEF CacheIsLast
  <2>4. CASE healthCache[p] # None
    <3>1. PICK t \in DOMAIN log : LastOf(p, t) /\ log[t].status = healthCache[p]
      BY <2>4 DEF CacheIsLast
    <3>2. t \in DOMAIN log' /\ log'[t] = log[t]
      BY <1>1, <3>1
    <3>3. LastOf(p, t)'
      BY <2>2, <3>1, <3>2 DEF LastOf
    <3> QED
      BY <2>1, <2>4, <3>1, <3>2, <3>3
  <2> QED
    BY <2>3, <2>4
<1> QED
  BY <1>4, <1>5

\* Only a finished probe touches the cache, the buffer and the log.
LEMMA StoreChanges ==
  ASSUME [Next]_vars
  PROVE  (\E ok \in BOOLEAN : FinishProbe(ok)) \/ UNCHANGED store
  BY DEF Next, vars, ListActiveProviders, ListActiveProvidersError, SkipProvider,
         StartProbe, ToggleProvider, BreakerChanges

\* The verdict of /status agrees with the records /status/history was given, for
\* any number of providers and rounds.
THEOREM VerdictAgrees == Spec => []OverallAgrees
<1>1. Init => CacheIsLast
  <2> SUFFICES ASSUME Init PROVE CacheIsLast
    OBVIOUS
  <2>1. DOMAIN log = {}
    BY DEF Init
  <2> QED
    BY <2>1 DEF Init, CacheIsLast
<1>2. IInv /\ CacheIsLast /\ [Next]_vars => CacheIsLast'
  <2> SUFFICES ASSUME IInv, CacheIsLast, [Next]_vars PROVE CacheIsLast'
    OBVIOUS
  <2>1. UNCHANGED store => CacheIsLast'
    BY DEF store, CacheIsLast, LastOf
  <2> QED
    BY <2>1, StoreChanges, CacheStep DEF IInv
<1>3. IInv /\ CacheIsLast => OverallAgrees
  <2> SUFFICES ASSUME IInv, CacheIsLast PROVE OverallAgrees
    OBVIOUS
  <2> DEFINE Known == {p \in Providers : healthCache[p] # None}
             Ups == \A p \in Providers, t \in DOMAIN log : LastOf(p, t) => log[t].status = "up"
  <2>0. /\ log \in Seq(Records) /\ healthCache \in [Providers -> Statuses \cup {None}]
        /\ DOMAIN log = 1 .. Len(log) /\ Len(log) \in Nat
        /\ \A t \in DOMAIN log : log[t].provider \in Providers
    <3>1. log \in Seq(Records) /\ healthCache \in [Providers -> Statuses \cup {None}]
      BY DEF IInv, TypeOK
    <3>2. /\ DOMAIN log = 1 .. Len(log) /\ Len(log) \in Nat
          /\ \A t \in DOMAIN log : log[t] \in Records
      BY <3>1
    <3> QED
      BY <3>1, <3>2 DEF Records
  <2>1. Known = {} <=> log = <<>>
    <3>1. ASSUME Known = {} PROVE log = <<>>
      <4>1. \A t \in DOMAIN log : log[t].provider \notin Providers
        BY <3>1 DEF CacheIsLast
      <4>2. Len(log) = 0
        BY <2>0, <4>1
      <4> QED
        BY <2>0, <4>2
    <3>2. ASSUME log = <<>> PROVE Known = {}
      <4>1. DOMAIN log = {}
        BY <3>2
      <4> QED
        BY <4>1 DEF CacheIsLast
    <3> QED
      BY <3>1, <3>2
  <2>2. ASSUME NEW p \in Providers, NEW t \in DOMAIN log, LastOf(p, t)
        PROVE  p \in Known /\ healthCache[p] = log[t].status
    <3>1. healthCache[p] # None
      BY <2>2 DEF CacheIsLast, LastOf
    <3>2. PICK u \in DOMAIN log : LastOf(p, u) /\ log[u].status = healthCache[p]
      BY <3>1 DEF CacheIsLast
    <3>3. t <= u /\ u <= t /\ t \in Nat /\ u \in Nat
      BY <2>0, <2>2, <3>2 DEF LastOf
    <3>4. t = u
      BY <3>3
    <3> QED
      BY <3>1, <3>2, <3>4
  <2>3. ASSUME NEW p \in Known
        PROVE  \E t \in DOMAIN log : LastOf(p, t) /\ log[t].status = healthCache[p]
    BY DEF CacheIsLast
  <2>4. (\A p \in Known : healthCache[p] = "up") <=> Ups
    BY <2>2, <2>3
  <2>5. Overall = "operational" <=> Known # {} /\ \A p \in Known : healthCache[p] = "up"
    BY DEF Overall
  <2> QED
    BY <2>1, <2>4, <2>5 DEF OverallAgrees
<1> QED
  BY <1>1, <1>2, <1>3, InvariantHolds, PTL DEF Spec

-----------------------------------------------------------------------------
(* A round.  Each provider that has been checked in it has one record of   *)
(* it, the others have none.                                               *)

Checked == (listed \cap Registered) \ (todo \cup {probing})

OfRound(p) == {t \in DOMAIN log : log[t].provider = p /\ log[t].round = round}

RoundSoFar ==
    /\ todo \subseteq listed
    /\ probing # None => probing \in listed \cap Registered /\ probing \notin todo
    /\ \A t \in DOMAIN log : log[t].round <= round
    /\ \A p \in Providers :
          IF p \in Checked THEN \E t \in DOMAIN log : OfRound(p) = {t} ELSE OfRound(p) = {}

\* A new round begins without records.
LEMMA RoundBegins ==
  ASSUME TypeOK, RoundSoFar, ListActiveProviders \/ ListActiveProvidersError
  PROVE  RoundSoFar'
<1>1. /\ round' = round + 1 /\ round \in Nat /\ log' = log
      /\ todo' \subseteq listed' /\ probing' = None
  BY RoundsAssumption DEF TypeOK, ListActiveProviders, ListActiveProvidersError, Waiting, store
<1>2. listed' = todo' \/ listed' = {}
  BY DEF ListActiveProviders, ListActiveProvidersError
<1>3. Checked' = {}
  BY <1>2 DEF Checked
<1>4. \A t \in DOMAIN log : log[t].round \in Nat /\ log[t].round <= round
  <2>1. \A t \in DOMAIN log : log[t] \in Records
    BY DEF TypeOK
  <2> QED
    BY <2>1, RoundsAssumption DEF RoundSoFar, Records
<1>5. \A t \in DOMAIN log : log[t].round # round + 1 /\ log[t].round <= round + 1
  BY <1>1, <1>4
<1>6. \A p \in Providers : OfRound(p)' = {}
  BY <1>1, <1>5 DEF OfRound
<1> QED
  BY <1>1, <1>3, <1>5, <1>6 DEF RoundSoFar

\* A finished probe is the first record of its provider in the round.
LEMMA RoundGoesOn ==
  ASSUME TypeOK, RoundSoFar, NEW ok \in BOOLEAN, FinishProbe(ok)
  PROVE  RoundSoFar'
<1> DEFINE n == Len(log)
           r == Result(ok)
<1>1. /\ n \in Nat /\ DOMAIN log = 1 .. n /\ DOMAIN log' = 1 .. (n + 1)
      /\ log'[n + 1] = r /\ \A t \in 1 .. n : log'[t] = log[t]
  BY LogStep
<1>2. r.provider = probing /\ r.round = round
  BY DEF Result
<1>3. /\ probing \in listed \cap Registered /\ probing \notin todo /\ probing \in Providers
      /\ probing' = None /\ round' = round /\ listed' = listed /\ todo' = todo
      /\ round \in Nat
  BY RoundsAssumption DEF FinishProbe, RoundSoFar, TypeOK
<1> HIDE DEF n, r
<1>4. \A t \in DOMAIN log' : log'[t].round <= round
  BY <1>1, <1>2, <1>3 DEF RoundSoFar
<1>5. Checked' = Checked \cup {probing} /\ probing \notin Checked
  <2>1. None \notin listed
    BY NoneAssumption DEF TypeOK
  <2> QED
    BY <1>3, <2>1 DEF Checked
<1>6. ASSUME NEW p \in Providers
      PROVE  IF p \in Checked' THEN \E t \in DOMAIN log' : OfRound(p)' = {t} ELSE OfRound(p)' = {}
  <2>1. CASE p = probing
    <3>1. OfRound(p) = {}
      BY <1>5, <2>1 DEF RoundSoFar
    <3>2. OfRound(p)' = {n + 1}
      BY <1>1, <1>2, <1>3, <2>1, <3>1 DEF OfRound
    <3> QED
      BY <1>1, <1>5, <2>1, <3>2
  <2>2. CASE p # probing
    <3>1. OfRound(p)' = OfRound(p)
      BY <1>1, <1>2, <1>3, <2>2 DEF OfRound
    <3>2. DOMAIN log \subseteq DOMAIN log'
      BY <1>1
    <3>3. p \in Checked' <=> p \in Checked
      BY <1>5, <2>2
    <3> QED
      BY <3>1, <3>2, <3>3 DEF RoundSoFar
  <2> QED
    BY <2>1, <2>2
<1> QED
  BY <1>3, <1>4, <1>6 DEF RoundSoFar

LEMMA RoundKept ==
  ASSUME TypeOK, RoundSoFar, [Next]_vars
  PROVE  RoundSoFar'
<1>0. None \notin listed /\ todo \subseteq listed /\ None \notin Providers
  BY NoneAssumption DEF TypeOK, RoundSoFar
<1>1. ASSUME NEW p \in Providers, SkipProvider(p) PROVE RoundSoFar'
  <2>1. /\ todo' = todo \ {p} /\ p \notin Registered
        /\ UNCHANGED <<round, listed, probing, log>>
    BY <1>1 DEF SkipProvider, store
  <2>2. Checked' = Checked /\ \A q : OfRound(q)' = OfRound(q)
    BY <2>1 DEF Checked, OfRound
  <2> QED
    BY <2>1, <2>2 DEF RoundSoFar
<1>2. ASSUME NEW p \in Providers, StartProbe(p) PROVE RoundSoFar'
  <2>1. /\ todo' = todo \ {p} /\ p \in todo \cap Registered /\ probing = None /\ probing' = p
        /\ UNCHANGED <<round, listed, log>>
    BY <1>2 DEF StartProbe, store
  <2>2. Checked' = Checked /\ \A q : OfRound(q)' = OfRound(q)
    BY <1>0, <2>1 DEF Checked, OfRound
  <2> QED
    BY <1>0, <2>1, <2>2 DEF RoundSoFar
<1>3. ASSUME UNCHANGED <<round, listed, todo, probing, log>> PROVE RoundSoFar'
  <2>1. Checked' = Checked /\ \A q : OfRound(q)' = OfRound(q)
    BY <1>3 DEF Checked, OfRound
  <2> QED
    BY <1>3, <2>1 DEF RoundSoFar
<1>4. ASSUME NEW p \in Providers, ToggleProvider(p) PROVE RoundSoFar'
  BY <1>3, <1>4 DEF ToggleProvider, store
<1>5. ASSUME NEW p \in Registered \ Chained, NEW c \in Circuits, BreakerChanges(p, c)
      PROVE  RoundSoFar'
  BY <1>3, <1>5 DEF BreakerChanges, store
<1>6. CASE UNCHANGED vars
  BY <1>3, <1>6 DEF vars, store
<1> QED
  BY <1>1, <1>2, <1>4, <1>5, <1>6, RoundBegins, RoundGoesOn DEF Next

LEMMA InitRound == Init => RoundSoFar
<1> SUFFICES ASSUME Init PROVE RoundSoFar
  OBVIOUS
<1>1. DOMAIN log = {} /\ todo = {} /\ listed = {} /\ probing = None
  BY DEF Init
<1> QED
  BY <1>1 DEF RoundSoFar, Checked, OfRound

\* checkAll leaves one record per listed provider that has a client and none for
\* any other, however many providers there are and whoever toggles them meanwhile.
THEOREM RoundsComplete == Spec => []RoundComplete
<1>1. IInv /\ RoundSoFar /\ [Next]_vars => RoundSoFar'
  BY RoundKept DEF IInv
<1>2. IInv /\ RoundSoFar => RoundComplete
  <2> SUFFICES ASSUME IInv, RoundSoFar, Waiting, NEW p \in Providers
               PROVE  Cardinality(OfRound(p)) = IF p \in listed \cap Registered THEN 1 ELSE 0
    BY DEF RoundComplete, OfRound
  <2>1. Checked = listed \cap Registered
    BY NoneAssumption DEF Waiting, Checked, IInv, TypeOK
  <2>2. IF p \in listed \cap Registered THEN \E t \in DOMAIN log : OfRound(p) = {t}
                                         ELSE OfRound(p) = {}
    BY <2>1 DEF RoundSoFar
  <2> QED
    BY <2>2, FS_EmptySet, FS_Singleton
<1> QED
  BY <1>1, <1>2, InitRound, InvariantHolds, PTL DEF Spec

-----------------------------------------------------------------------------
(* What the buffer covers.  From any record to the end of the log there    *)
(* are, with those the round has still to write, at most as many records   *)
(* as the rounds from its own on have providers.                           *)

Pending == Registered \cap (todo \cup {probing})

Dense ==
    \A t \in DOMAIN log :
        (Len(log) - t) + 1 + Cardinality(Pending)
            <= ((round - log[t].round) + 1) * Cardinality(Registered)

DenseInv == IInv /\ RoundSoFar /\ Dense

\* A step that leaves alone what Dense depends on.
LEMMA DenseSame ==
  ASSUME Dense, Pending' = Pending, UNCHANGED <<log, round>>
  PROVE  Dense'
<1>1. Cardinality(Pending)' = Cardinality(Pending)
  OBVIOUS
<1> QED
  BY <1>1 DEF Dense

LEMMA PendingFinite ==
  ASSUME TRUE
  PROVE  /\ IsFiniteSet(Registered) /\ Cardinality(Registered) \in Nat
         /\ IsFiniteSet(Pending) /\ Cardinality(Pending) \in Nat
         /\ Cardinality(Pending) <= Cardinality(Registered)
<1>1. IsFiniteSet(Registered)
  BY ProvidersAssumption, RegisteredAssumption, FS_Subset
<1>2. Pending \in SUBSET Registered
  BY DEF Pending
<1> QED
  BY <1>1, <1>2, FS_Subset, FS_CardinalityType

LEMMA LogRounds ==
  ASSUME TypeOK, RoundSoFar
  PROVE  /\ round \in Nat /\ Len(log) \in Nat /\ DOMAIN log = 1 .. Len(log)
         /\ \A t \in DOMAIN log : log[t].round \in Nat /\ log[t].round <= round
<1>1. \A t \in DOMAIN log : log[t] \in Records
  BY DEF TypeOK
<1>2. round \in Nat /\ Len(log) \in Nat /\ DOMAIN log = 1 .. Len(log)
  BY RoundsAssumption DEF TypeOK
<1> QED
  BY <1>1, <1>2, RoundsAssumption DEF RoundSoFar, Records

\* A new round may write one more record per provider.
LEMMA DenseBegins ==
  ASSUME TypeOK, RoundSoFar, Dense, ListActiveProviders \/ ListActiveProvidersError
  PROVE  Dense'
<1> DEFINE c == Cardinality(Registered)
<1>1. round' = round + 1 /\ log' = log
  BY DEF ListActiveProviders, ListActiveProvidersError, store
<1>2. c \in Nat /\ Cardinality(Pending') \in Nat /\ Cardinality(Pending') <= c
  <2>1. Pending' \in SUBSET Registered
    BY DEF Pending
  <2> QED
    BY <2>1, PendingFinite, FS_Subset, FS_CardinalityType
<1>3. Pending = {} /\ Cardinality(Pending) = 0
  <2>1. None \notin Registered
    BY RegisteredAssumption, NoneAssumption
  <2>2. Pending = {}
    BY <2>1 DEF ListActiveProviders, ListActiveProvidersError, Waiting, Pending
  <2> QED
    BY <2>2, FS_EmptySet
<1> HIDE DEF c
<1>4. ASSUME NEW t \in DOMAIN log
      PROVE  (Len(log) - t) + 1 + Cardinality(Pending') <= (((round + 1) - log[t].round) + 1) * c
  <2> DEFINE k == (round - log[t].round) + 1
  <2>1. k \in Nat /\ t \in Nat /\ Len(log) \in Nat /\ ((round + 1) - log[t].round) + 1 = k + 1
    BY LogRounds
  <2>2. (Len(log) - t) + 1 + 0 <= k * c
    BY <1>3 DEF Dense, c
  <2> HIDE DEF k
  <2>3. (k + 1) * c = k * c + c /\ k * c \in Nat
    BY <1>2, <2>1
  <2>4. (Len(log) - t) + 1 + Cardinality(Pending') <= k * c + c
    BY <1>2, <2>1, <2>2, <2>3
  <2> QED
    BY <2>1, <2>3, <2>4
<1> QED
  BY <1>1, <1>4 DEF Dense, c

\* A finished probe turns one record to be written into one that is written.
LEMMA DenseGoesOn ==
  ASSUME TypeOK, RoundSoFar, Dense, NEW ok \in BOOLEAN, FinishProbe(ok)
  PROVE  Dense'
<1> DEFINE n == Len(log)
           r == Result(ok)
           c == Cardinality(Registered)
           d == Cardinality(Pending)
<1>1. /\ n \in Nat /\ DOMAIN log = 1 .. n /\ DOMAIN log' = 1 .. (n + 1)
      /\ log'[n + 1] = r /\ \A t \in 1 .. n : log'[t] = log[t]
      /\ Len(log') = n + 1
  BY LogStep
<1>2. r.round = round /\ round' = round /\ round \in Nat
  BY RoundsAssumption DEF Result, FinishProbe, TypeOK
<1>3. c \in Nat /\ d \in Nat /\ d <= c
  BY PendingFinite
<1>4. Cardinality(Pending') = d - 1
  <2>1. /\ probing \in Registered /\ probing \notin todo /\ probing' = None /\ todo' = todo
        /\ None \notin Registered
    BY RegisteredAssumption, NoneAssumption DEF FinishProbe, RoundSoFar
  <2>2. Pending' = Pending \ {probing} /\ probing \in Pending
    BY <2>1 DEF Pending
  <2> QED
    BY <2>2, PendingFinite, FS_RemoveElement
<1>5. \A t \in 1 .. n : log[t].round \in Nat /\ (n - t) + 1 + d <= ((round - log[t].round) + 1) * c
  BY <1>1, LogRounds DEF Dense
<1> HIDE DEF n, r, c, d
<1>6. ASSUME NEW t \in 1 .. (n + 1)
      PROVE  ((n + 1) - t) + 1 + (d - 1) <= ((round - log'[t].round) + 1) * c
  <2>1. CASE t = n + 1
    <3>1. (round - log'[t].round) + 1 = 1
      BY <1>1, <1>2, <2>1
    <3> QED
      BY <1>1, <1>3, <2>1, <3>1
  <2>2. CASE t # n + 1
    <3>1. t \in 1 .. n /\ log'[t] = log[t]
      BY <1>1, <2>2
    <3> DEFINE b == ((round - log[t].round) + 1) * c
    <3>2. (n - t) + 1 + d <= b /\ b \in Int
      BY <1>2, <1>3, <1>5, <3>1
    <3> HIDE DEF b
    <3>3. ((n + 1) - t) + 1 + (d - 1) <= b
      BY <1>1, <1>3, <3>1, <3>2
    <3> QED
      BY <3>1, <3>3 DEF b
  <2> QED
    BY <2>1, <2>2
<1> QED
  BY <1>1, <1>2, <1>4, <1>6 DEF Dense, c

LEMMA DenseKept ==
  ASSUME DenseInv, [Next]_vars
  PROVE  Dense'
<1> USE DEF DenseInv, IInv
<1>1. ASSUME NEW p \in Providers, SkipProvider(p) PROVE Dense'
  <2>1. Pending' = Pending
    BY <1>1 DEF SkipProvider, Pending
  <2> QED
    BY <1>1, <2>1, DenseSame DEF SkipProvider, store
<1>2. ASSUME NEW p \in Providers, StartProbe(p) PROVE Dense'
  <2>1. Pending' = Pending
    BY <1>2, RegisteredAssumption, NoneAssumption DEF StartProbe, Pending
  <2> QED
    BY <1>2, <2>1, DenseSame DEF StartProbe, store
<1>3. ASSUME UNCHANGED <<round, todo, probing, log>> PROVE Dense'
  <2>1. Pending' = Pending
    BY <1>3 DEF Pending
  <2> QED
    BY <1>3, <2>1, DenseSame
<1>4. ASSUME NEW p \in Providers, ToggleProvider(p) PROVE Dense'
  BY <1>3, <1>4 DEF ToggleProvider, store
<1>5. ASSUME NEW p \in Registered \ Chained, NEW c \in Circuits, BreakerChanges(p, c)
      PROVE  Dense'
  BY <1>3, <1>5 DEF BreakerChanges, store
<1>6. CASE UNCHANGED vars
  BY <1>3, <1>6 DEF vars, store
<1> QED
  BY <1>1, <1>2, <1>4, <1>5, <1>6, DenseBegins, DenseGoesOn DEF Next

\* The rounds the buffer has room for fit into it.
LEMMA RoomForRounds ==
  ASSUME NEW c \in Nat \ {0}, NEW k \in Nat, NEW m \in Nat, k <= m \div c
  PROVE  k * c <= m
<1> DEFINE q == m \div c
<1>1. m = c * q + (m % c) /\ q \in Nat /\ m % c \in Nat
  BY DivMod
<1>2. k * c <= q * c
  BY <1>1, SMTT(30)
<1> QED
  BY <1>1, <1>2

\* Records that fill at most the k rounds the buffer has room for are in its window.
LEMMA WindowReaches ==
  ASSUME NEW n \in Nat, NEW t \in 1 .. n, NEW d \in Nat, NEW m \in Nat \ {0},
         NEW c \in Nat \ {0}, NEW k \in Nat, (n - t) + 1 + d <= k * c, k <= m \div c
  PROVE  t + m > n
<1> DEFINE b == k * c
<1>1. b <= m /\ b \in Nat
  <2>1. k * c <= m
    BY RoomForRounds
  <2> QED
    BY <2>1
<1>2. (n - t) + 1 + d <= b
  OBVIOUS
<1> HIDE DEF b
<1> QED
  BY <1>1, <1>2

\* The slot of record t is in use once t records have been stored.
LEMMA SlotOfRecord ==
  ASSUME NEW n \in Nat, NEW t \in 1 .. n, NEW m \in Nat \ {0}
  PROVE  ((t - 1) % m) + 1 \in 1 .. (IF n < m THEN n ELSE m)
<1>1. t - 1 \in Nat
  OBVIOUS
<1>2. (t - 1) % m \in 0 .. (m - 1)
  BY <1>1, DivMod
<1>3. CASE n < m
  <2>1. (t - 1) % m = t - 1
    BY <1>1, <1>3, ModSmall
  <2> QED
    BY <1>3, <2>1
<1>4. CASE ~(n < m)
  BY <1>2, <1>4
<1> QED
  BY <1>3, <1>4

\* No record of the last maxHistoryRecords \div n rounds, with n providers that have
\* a client, is forgotten, for every size of the buffer and number of providers.
THEOREM HistoryCovered == Spec => []HistoryCovers
<1>1. Init => RoundSoFar /\ Dense
  <2> SUFFICES ASSUME Init PROVE RoundSoFar /\ Dense
    OBVIOUS
  <2>1. DOMAIN log = {}
    BY DEF Init
  <2> QED
    BY <2>1, InitRound DEF Dense
<1>2. IInv /\ RoundSoFar /\ Dense /\ [Next]_vars => RoundSoFar' /\ Dense'
  BY RoundKept, DenseKept DEF IInv, DenseInv
<1>3. IInv /\ RoundSoFar /\ Dense => HistoryCovers
  <2> SUFFICES ASSUME IInv, RoundSoFar, Dense, NEW t \in DOMAIN log,
                      log[t].round + RoundsCovered > round
               PROVE  \E i \in DOMAIN history : history[i] = log[t]
    BY DEF HistoryCovers
  <2> DEFINE N == maxHistoryRecords
             n == Len(log)
             c == Cardinality(Registered)
             k == (round - log[t].round) + 1
             d == Cardinality(Pending)
  <2>1. /\ n \in Nat /\ t \in 1 .. n /\ k \in Nat \ {0} /\ log[t].round \in Nat /\ round \in Nat
        /\ N \in Nat \ {0} /\ c \in Nat /\ d \in Nat
    BY LogRounds, PendingFinite, HistoryAssumption DEF IInv
  <2>2. (n - t) + 1 + d <= k * c
    BY DEF Dense
  <2>3. c # 0
    <3> SUFFICES ASSUME c = 0 PROVE FALSE
      BY <2>1
    <3>1. k * c = 0
      BY <2>1
    <3> HIDE DEF c, k, n, d
    <3> QED
      BY <2>1, <2>2, <3>1
  <2>4. N \div c \in Nat /\ k <= N \div c
    <3>1. N \div c \in Nat
      BY <2>1, <2>3, DivMod
    <3> QED
      BY <2>1, <3>1 DEF RoundsCovered
  <2>5. t + N > n
    <3> HIDE DEF N, n, c, k, d
    <3> QED
      BY <2>1, <2>2, <2>3, <2>4, WindowReaches
  <2>6. history[((t - 1) % N) + 1] = log[t]
    BY <2>5 DEF IInv, RingExact
  <2>7. DOMAIN history = 1 .. (IF n < N THEN n ELSE N)
    BY DEF IInv, TypeOK, RingExact
  <2>8. ((t - 1) % N) + 1 \in 1 .. (IF n < N THEN n ELSE N)
    <3> HIDE DEF N, n
    <3> QED
      BY <2>1, SlotOfRecord
  <2> QED
    BY <2>6, <2>7, <2>8
<1> QED
  BY <1>1, <1>2, <1>3, InvariantHolds, PTL DEF Spec
=============================================================================
