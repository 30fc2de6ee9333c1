---------------------------- MODULE CatalogProofs ----------------------------
(***************************************************************************)
(* Proofs about Catalog, for any number of providers, keys, administrators *)
(* and requests, overlapping and failing Reloads included.                 *)
(*                                                                         *)
(* PoolFromTable is not inductive: SwapPool installs a list that was read  *)
(* earlier.  The invariant also says it of the lists of Reloads that are   *)
(* in progress; it survives because rows are never deleted.  EvenRotation  *)
(* needs to know how far the round-robin counter is in its current round.  *)
(* PoolUpToDate needs the same of the lists that a Reload has read so far. *)
(***************************************************************************)
EXTENDS Catalog, FiniteSetTheorems, TLAPS

-----------------------------------------------------------------------------
(* The remainder of a counter that is advanced by one. *)

\* Quotient and remainder of a natural number.
LEMMA DivMod ==
  ASSUME NEW k \in Nat, NEW n \in Nat \ {0}
  PROVE  k = n * (k \div n) + (k % n) /\ k \div n \in Nat /\ k % n \in 0 .. (n - 1)
  BY SMTT(30)

\* The remainder is the only one that fits.
LEMMA ModUnique ==
  ASSUME NEW k \in Nat, NEW n \in Nat \ {0}, NEW q \in Nat, NEW r \in 0 .. (n - 1),
         k = n * q + r
  PROVE  k % n = r
  BY SMTT(30)

\* Advancing a counter by one advances its remainder cyclically.
LEMMA ModStep ==
  ASSUME NEW k \in Nat, NEW n \in Nat \ {0}
  PROVE  (k + 1) % n = IF (k % n) + 1 = n THEN 0 ELSE (k % n) + 1
<1> DEFINE q == k \div n
           r == k % n
<1>1. k = n * q + r /\ q \in Nat /\ r \in 0 .. (n - 1)
  BY DivMod
<1> HIDE DEF q, r
<1>2. CASE r + 1 = n
  <2>1. k + 1 = n * (q + 1) + 0
    BY <1>1, <1>2
  <2>2. q + 1 \in Nat /\ 0 \in 0 .. (n - 1) /\ k + 1 \in Nat
    BY <1>1
  <2>3. (k + 1) % n = 0
    BY <2>1, <2>2, ModUnique
  <2> QED
    BY <2>3, <1>2 DEF r
<1>3. CASE r + 1 # n
  <2>1. k + 1 = n * q + (r + 1) /\ r + 1 \in 0 .. (n - 1) /\ k + 1 \in Nat
    BY <1>1, <1>3
  <2>2. (k + 1) % n = r + 1
    BY <2>1, <1>1, ModUnique
  <2> QED
    BY <2>2, <1>3 DEF r
<1> QED
  BY <1>2, <1>3

-----------------------------------------------------------------------------

\* The list was read from S: entries of S, none twice.
ReadFrom(list, S) ==
    /\ list \in Seq(S)
    /\ \A i, j \in DOMAIN list : i # j => list[i] # list[j]

\* Pool and lists being read hold stored keys of their provider.
ListsFromTable ==
    \A p \in Providers :
        /\ ReadFrom(providerKeys[p], rows[p])
        /\ \A a \in Admins : ReadFrom(reload[a].keys[p], rows[p])

\* Every key was used q times, and once more if its turn was in this round.
Rotation(p, q) ==
    \A i \in DOMAIN uses[p] :
        uses[p][i] = IF i <= keyIndex[p] % Len(providerKeys[p]) THEN q + 1 ELSE q

Rotating == \A p \in Providers : \E q \in Nat : Rotation(p, q)

\* A Reload still has to read a provider's keys, or has them as they were.
ReloadsUpToDate ==
    \A a \in Admins : reload[a].pc = "keys" =>
        \A p \in Providers \ reload[a].missed :
            \/ p \in reload[a].todo /\ p \in active
            \/ p \notin reload[a].todo /\ Snapshot(p, reload[a].keys[p], reload[a].unread)

IInv == TypeOK /\ ListsFromTable /\ Rotating /\ ReloadsUpToDate /\ PoolUpToDate

-----------------------------------------------------------------------------
\* A query returns the rows it was asked for, each once.
LEMMA ListingsReadFrom ==
  ASSUME NEW S, IsFiniteSet(S), NEW list \in Listings(S)
  PROVE  ReadFrom(list, S)
<1>1. Cardinality(S) \in Nat
  BY FS_CardinalityType
<1>2. list \in [1 .. Cardinality(S) -> S]
  BY DEF Listings
<1>3. list \in Seq(S)
  BY <1>1, <1>2
<1> QED
  BY <1>2, <1>3 DEF Listings, ReadFrom

\* ... and it returns all of them: an injection between sets of the same size.
LEMMA ListingsComplete ==
  ASSUME NEW S, IsFiniteSet(S), NEW list \in Listings(S)
  PROVE  Entries(list) = S
<1> DEFINE n == Cardinality(S)
<1>1. n \in Nat
  BY FS_CardinalityType
<1>2. list \in [1 .. n -> S] /\ \A i, j \in 1 .. n : i # j => list[i] # list[j]
  BY DEF Listings
<1>3. list \in Injection(1 .. n, S)
  BY <1>2 DEF Injection, IsInjective
<1>4. Cardinality(1 .. n) = n
  <2>1. \A k \in Nat : Cardinality(1 .. k) = k
    BY FS_Interval
  <2> HIDE DEF n
  <2> QED
    BY <1>1, <2>1
<1>5. list \in Surjection(1 .. n, S)
  BY <1>3, <1>4, FS_Injection
<1>6. \A x \in S : \E i \in 1 .. n : list[i] = x
  BY <1>5 DEF Surjection
<1> HIDE DEF n
<1> QED
  BY <1>2, <1>6 DEF Entries

LEMMA EmptyReadFrom ==
  ASSUME NEW S
  PROVE  ReadFrom(<<>>, S)
  BY DEF ReadFrom

LEMMA ReadFromGrows ==
  ASSUME NEW S, NEW T, S \subseteq T, NEW list, ReadFrom(list, S)
  PROVE  ReadFrom(list, T)
  BY DEF ReadFrom

\* A fresh pool has no uses, so it is at the start of a round.
LEMMA ZeroRotation ==
  ASSUME NEW keys \in [Providers -> Seq(ProviderKeys)],
         NEW p \in Providers, NEW i \in DOMAIN ZeroUses(keys)[p]
  PROVE  /\ ZeroUses(keys)[p][i] = 0
         /\ 0 % Len(keys[p]) = 0
         /\ i \in Nat /\ i > 0
<1>1. DOMAIN ZeroUses(keys)[p] = 1 .. Len(keys[p]) /\ Len(keys[p]) \in Nat
  BY DEF ZeroUses
<1>2. Len(keys[p]) \in Nat \ {0} /\ i \in Nat /\ i > 0
  BY <1>1
<1>3. 0 % Len(keys[p]) = 0
  <2>1. 0 = Len(keys[p]) * 0 + 0 /\ 0 \in 0 .. (Len(keys[p]) - 1)
    BY <1>2
  <2> QED
    BY <2>1, <1>2, ModUnique
<1> QED
  BY <1>2, <1>3 DEF ZeroUses

-----------------------------------------------------------------------------
LEMMA InitIInv == Init => IInv
<1> SUFFICES ASSUME Init PROVE IInv
  OBVIOUS
<1>1. \A p \in Providers : rows[p] \subseteq ProviderKeys /\ IsFiniteSet(rows[p])
  BY KeysAssumption, FS_Subset DEF Init
<1>2. \A p \in Providers : ReadFrom(providerKeys[p], rows[p])
  BY <1>1, ListingsReadFrom, EmptyReadFrom DEF Init
<1>3. providerKeys \in [Providers -> Seq(ProviderKeys)]
  <2>1. DOMAIN providerKeys = Providers /\ providerKeys = [p \in Providers |-> providerKeys[p]]
    BY DEF Init
  <2>2. \A p \in Providers : providerKeys[p] \in Seq(ProviderKeys)
    BY <1>1, <1>2, ReadFromGrows DEF ReadFrom
  <2> QED
    BY <2>1, <2>2
<1>4. reload \in [Admins -> Reloads]
  BY DEF Init, Idle, Reloads
<1>5. uses = ZeroUses(providerKeys)
  BY DEF Init
<1>6. DOMAIN uses = Providers /\ \A p \in Providers : uses[p] \in [DOMAIN providerKeys[p] -> Nat]
  BY <1>5 DEF ZeroUses
<1>7. call \in [Callers -> {NoCall}]
  BY DEF Init
<1>8. TypeOK
  BY <1>3, <1>4, <1>6, <1>7, MaxIssuedAssumption DEF Init, TypeOK, NoCall, TablesOK, PoolOK, CallOK, Requests
<1>9. ListsFromTable
  BY <1>2, EmptyReadFrom DEF Init, Idle, ListsFromTable
<1>10. Rotating
  <2> SUFFICES ASSUME NEW p \in Providers PROVE Rotation(p, 0)
    BY DEF Rotating
  <2>1. keyIndex[p] = 0
    BY DEF Init
  <2> SUFFICES ASSUME NEW i \in DOMAIN uses[p]
               PROVE  uses[p][i] = IF i <= keyIndex[p] % Len(providerKeys[p]) THEN 0 + 1 ELSE 0
    BY DEF Rotation
  <2>2. uses[p][i] = 0 /\ 0 % Len(providerKeys[p]) = 0 /\ i \in Nat /\ i > 0
    BY <1>3, <1>5, ZeroRotation
  <2>3. keyIndex[p] % Len(providerKeys[p]) = 0
    BY <2>1, <2>2, Zenon
  <2> HIDE DEF Init
  <2> QED
    BY <2>2, <2>3
<1>11. ReloadsUpToDate
  BY DEF Init, Idle, ReloadsUpToDate
<1>12. PoolUpToDate
  <2> SUFFICES ASSUME NEW p \in Providers \ changed
               PROVE  Snapshot(p, providerKeys[p], unread)
    BY DEF PoolUpToDate
  <2>1. p \in active => Entries(providerKeys[p]) = rows[p]
    BY <1>1, ListingsComplete DEF Init
  <2>2. p \notin active => providerKeys[p] = <<>>
    BY DEF Init
  <2> QED
    BY <2>1, <2>2 DEF Snapshot
<1> QED
  BY <1>8, <1>9, <1>10, <1>11, <1>12 DEF IInv

-----------------------------------------------------------------------------
\* An action that leaves pool, counters and history alone keeps the rotation.
LEMMA RotationKept ==
  ASSUME Rotating, UNCHANGED <<pool, uses>>
  PROVE  Rotating'
  BY DEF Rotating, Rotation, pool

\* The tables grow, but for the flags.
LEMMA TablesKept ==
  ASSUME TablesOK, [Next]_vars
  PROVE  TablesOK' /\ created \subseteq created' /\ \A p \in Providers : rows[p] \subseteq rows'[p]
<1> USE DEF TablesOK
<1>1. ASSUME NEW p \in Providers, CreateProvider(p)
      PROVE  created' \subseteq Providers /\ created \subseteq created' /\ active' \subseteq created'
             /\ UNCHANGED <<rows, owner, enabled, registry>>
  BY <1>1 DEF CreateProvider
<1>2. ASSUME NEW p \in Providers, NEW on \in BOOLEAN, ToggleProvider(p, on)
      PROVE  active' \subseteq created /\ UNCHANGED <<created, rows, owner, enabled, registry>>
  BY <1>2 DEF ToggleProvider
<1>3. ASSUME NEW m \in Models, NEW p \in Providers, CreateModel(m, p)
      PROVE  /\ owner' \in [Models -> created \cup {None}]
             /\ enabled' \subseteq {n \in Models : owner'[n] # None}
             /\ UNCHANGED <<created, active, rows, registry>>
  BY <1>3, NoneAssumption DEF CreateModel
<1>4. ASSUME NEW m \in Models, NEW on \in BOOLEAN, UpdateModel(m, on)
      PROVE  /\ enabled' \subseteq {n \in Models : owner[n] # None}
             /\ UNCHANGED <<created, active, rows, owner, registry>>
  BY <1>4 DEF UpdateModel
<1>5. ASSUME NEW a \in Admins, NEW p \in Providers, NEW k \in ProviderKeys,
             AddProviderKey(a, p, k)
      PROVE  /\ rows' \in [Providers -> SUBSET ProviderKeys]
             /\ \A q \in Providers : rows[q] \subseteq rows'[q]
             /\ \A q \in Providers \ created : rows'[q] = {}
             /\ UNCHANGED <<created, active, owner, enabled, registry>>
  BY <1>5 DEF AddProviderKey
<1>6. CASE \E p \in Providers : CreateProvider(p)
  BY <1>1, <1>6
<1>7. CASE \E p \in Providers, on \in BOOLEAN : ToggleProvider(p, on)
  BY <1>2, <1>7
<1>8. CASE \E m \in Models, p \in Providers : CreateModel(m, p)
  BY <1>3, <1>8
<1>9. CASE \E m \in Models, on \in BOOLEAN : UpdateModel(m, on)
  BY <1>4, <1>9
<1>10. CASE \E a \in Admins, p \in Providers, k \in ProviderKeys : AddProviderKey(a, p, k)
  BY <1>5, <1>10
<1>11. CASE UNCHANGED tables
  BY <1>11 DEF tables
<1>12. \/ \E p \in Providers : CreateProvider(p)
       \/ \E p \in Providers, on \in BOOLEAN : ToggleProvider(p, on)
       \/ \E m \in Models, p \in Providers : CreateModel(m, p)
       \/ \E m \in Models, on \in BOOLEAN : UpdateModel(m, on)
       \/ \E a \in Admins, p \in Providers, k \in ProviderKeys : AddProviderKey(a, p, k)
       \/ UNCHANGED tables
  <2>1. ASSUME NEW a \in Admins, Admin(a)
        PROVE  \/ UNCHANGED tables
               \/ \E p \in Providers, k \in ProviderKeys : AddProviderKey(a, p, k)
    BY <2>1 DEF Admin, ListActiveProviders, ListActiveProvidersError,
                ListActiveKeys, ListActiveKeysError, SwapPool
  <2>2. ASSUME NEW c \in Callers, Request(c) PROVE UNCHANGED tables
    BY <2>2 DEF Request, FindModel, FindProvider, NextKey, FirstKey, NoKey, Answer
  <2>3. UNCHANGED vars => UNCHANGED tables
    BY DEF vars
  <2> QED
    BY <2>1, <2>2, <2>3 DEF Next, Tables
<1> QED
  BY <1>6, <1>7, <1>8, <1>9, <1>10, <1>11, <1>12

\* Only AddProviderKey, Reload and, for its history, ToggleProvider touch the
\* reloads in progress.
LEMMA ReloadKept ==
  ASSUME TypeOK, [Next]_vars
  PROVE  reload' \in [Admins -> Reloads]
<1> DEFINE Typed == reload' \in [Admins -> Reloads]
<1>0. reload \in [Admins -> Reloads] /\ Idle \in Reloads
  BY DEF TypeOK, Idle, Reloads
<1>1. ASSUME NEW p \in Providers, NEW on \in BOOLEAN, ToggleProvider(p, on) PROVE Typed
  <2>1. \A b \in Admins : [reload[b] EXCEPT !.missed = @ \cup {p}] \in Reloads
    BY <1>0 DEF Reloads
  <2> QED
    BY <1>0, <1>1, <2>1 DEF ToggleProvider
<1>2. ASSUME NEW a \in Admins, Admin(a) PROVE Typed
  <2>1. ASSUME NEW p \in Providers, NEW k \in ProviderKeys, AddProviderKey(a, p, k) PROVE Typed
    <3>1. \A b \in Admins : /\ [reload[b] EXCEPT !.pc = "list"] \in Reloads
                            /\ [reload[b] EXCEPT !.unread = @ \cup {k}] \in Reloads
      BY <1>0 DEF Reloads
    <3> QED
      BY <1>0, <2>1, <3>1 DEF AddProviderKey
  <2>2. CASE ListActiveProviders(a)
    <3>1. [Idle EXCEPT !.pc = "keys", !.todo = active] \in Reloads
      BY <1>0 DEF Reloads, TypeOK, TablesOK
    <3> QED
      BY <1>0, <2>2, <3>1 DEF ListActiveProviders
  <2>3. CASE ListActiveProvidersError(a)
    BY <1>0, <2>3 DEF ListActiveProvidersError
  <2>4. ASSUME NEW p \in Providers, ListActiveKeys(a, p) PROVE Typed
    <3>1. PICK list \in Listings(rows[p]) :
             reload' = [reload EXCEPT ![a].todo = @ \ {p}, ![a].keys[p] = list]
      BY <2>4 DEF ListActiveKeys
    <3>2. rows[p] \subseteq ProviderKeys /\ IsFiniteSet(rows[p])
      BY KeysAssumption, FS_Subset DEF TypeOK, TablesOK
    <3>3. list \in Seq(ProviderKeys)
      BY <3>2, ListingsReadFrom, ReadFromGrows DEF ReadFrom
    <3>4. [reload[a] EXCEPT !.todo = @ \ {p}, !.keys[p] = list] \in Reloads
      BY <1>0, <3>3 DEF Reloads
    <3>5. reload' = [reload EXCEPT ![a] = [reload[a] EXCEPT !.todo = @ \ {p}, !.keys[p] = list]]
      BY <1>0, <3>1
    <3> QED
      BY <1>0, <3>4, <3>5
  <2>5. ASSUME NEW p \in Providers, ListActiveKeysError(a, p) PROVE Typed
    <3>1. [reload[a] EXCEPT !.todo = @ \ {p}, !.missed = @ \cup {p}] \in Reloads
      BY <1>0 DEF Reloads
    <3>2. reload' = [reload EXCEPT ![a] = [reload[a] EXCEPT !.todo = @ \ {p}, !.missed = @ \cup {p}]]
      BY <1>0, <2>5 DEF ListActiveKeysError
    <3> QED
      BY <1>0, <3>1, <3>2
  <2>6. CASE SwapPool(a)
    BY <1>0, <2>6 DEF SwapPool
  <2> HIDE DEF Typed
  <2> QED
    BY <1>2, <2>1, <2>2, <2>3, <2>4, <2>5, <2>6 DEF Admin
<1>3. ASSUME NEW c \in Callers, Request(c) PROVE UNCHANGED reload
  BY <1>3 DEF Request, FindModel, FindProvider, NextKey, FirstKey, NoKey, Answer
<1>4. ASSUME Tables PROVE Typed
  BY <1>0, <1>1, <1>4 DEF Tables, CreateProvider, CreateModel, UpdateModel
<1>5. UNCHANGED vars => UNCHANGED reload
  BY DEF vars
<1> QED
  BY <1>0, <1>2, <1>3, <1>4, <1>5 DEF Next

LEMMA CallKept ==
  ASSUME TypeOK, [Next]_vars
  PROVE  CallOK'
<1>1. created \subseteq created'
  BY TablesKept DEF TypeOK
<1>2. ASSUME NEW c \in Callers, Request(c) PROVE CallOK'
  <2> USE <1>1 DEF TypeOK, CallOK, Requests, Answer, NoCall
  <2>1. ASSUME NEW m \in Models, NEW kind \in {"chat", "embedding"}, FindModel(c, m, kind)
        PROVE  CallOK'
    <3>1. m \in enabled => owner[m] \in created /\ owner[m] \in Providers
      BY DEF TablesOK
    <3> QED
      BY <2>1, <3>1 DEF FindModel
  <2>2. CASE FindProvider(c)
    BY <2>2 DEF FindProvider
  <2>3. CASE NextKey(c)
    BY <2>3 DEF NextKey
  <2>4. CASE FirstKey(c)
    BY <2>4 DEF FirstKey
  <2>5. CASE NoKey(c)
    BY <2>5 DEF NoKey
  <2> QED
    BY <1>2, <2>1, <2>2, <2>3, <2>4, <2>5 DEF Request
<1>3. CASE UNCHANGED call
  BY <1>1, <1>3 DEF TypeOK, CallOK
<1>4. ASSUME NEW a \in Admins, Admin(a) PROVE UNCHANGED call
  BY <1>4 DEF Admin, AddProviderKey, ListActiveProviders, ListActiveProvidersError,
              ListActiveKeys, ListActiveKeysError, SwapPool
<1>5. ASSUME Tables PROVE UNCHANGED call
  BY <1>5 DEF Tables, CreateProvider, ToggleProvider, CreateModel, UpdateModel
<1>6. UNCHANGED vars => UNCHANGED call
  BY DEF vars
<1> QED
  BY <1>2, <1>3, <1>4, <1>5, <1>6 DEF Next

\* Pool, counters and uses change in SwapPool and NextKey only.
LEMMA PoolSteps ==
  ASSUME [Next]_vars
  PROVE  \/ \E a \in Admins : SwapPool(a)
         \/ \E c \in Callers : NextKey(c)
         \/ UNCHANGED <<pool, uses>>
<1>1. ASSUME NEW a \in Admins, Admin(a) PROVE SwapPool(a) \/ UNCHANGED <<pool, uses>>
  BY <1>1 DEF Admin, AddProviderKey, ListActiveProviders, ListActiveProvidersError,
              ListActiveKeys, ListActiveKeysError
<1>2. ASSUME NEW c \in Callers, Request(c) PROVE NextKey(c) \/ UNCHANGED <<pool, uses>>
  BY <1>2 DEF Request, FindModel, FindProvider, FirstKey, NoKey, Answer
<1>3. ASSUME Tables PROVE UNCHANGED <<pool, uses>>
  BY <1>3 DEF Tables, CreateProvider, ToggleProvider, CreateModel, UpdateModel
<1>4. UNCHANGED vars => UNCHANGED <<pool, uses>>
  BY DEF vars
<1> QED
  BY <1>1, <1>2, <1>3, <1>4 DEF Next

\* What NextKey does to the entry whose turn it is.
LEMMA NextKeyTurn ==
  ASSUME TypeOK, NEW c \in Callers, NextKey(c)
  PROVE  LET p == call[c].provider
             n == Len(providerKeys[p])
             k == keyIndex[p]
         IN  /\ p \in Providers /\ n \in Nat \ {0} /\ k \in Nat
             /\ DOMAIN uses[p] = 1 .. n
             /\ k % n \in 0 .. (n - 1)
             /\ keyIndex' = [keyIndex EXCEPT ![p] = k + 1]
             /\ uses' = [uses EXCEPT ![p][(k % n) + 1] = @ + 1]
             /\ providerKeys' = providerKeys
<1> DEFINE p == call[c].provider
           n == Len(providerKeys[p])
           k == keyIndex[p]
<1>1. p \in Providers
  BY DEF NextKey, TypeOK, CallOK, TablesOK
<1>2. n \in Nat \ {0} /\ k \in Nat /\ DOMAIN uses[p] = 1 .. n
  BY <1>1, MaxIssuedAssumption DEF TypeOK, PoolOK, NextKey
<1>3. k % n \in 0 .. (n - 1)
  BY <1>2, DivMod
<1>4. /\ keyIndex' = [keyIndex EXCEPT ![p] = k + 1]
      /\ uses' = [uses EXCEPT ![p][(k % n) + 1] = @ + 1]
      /\ providerKeys' = providerKeys
  BY DEF NextKey
<1> QED
  BY <1>1, <1>2, <1>3, <1>4

LEMMA PoolKept ==
  ASSUME TypeOK, [Next]_vars
  PROVE  PoolOK'
<1>1. changed' \subseteq Providers /\ unread' \subseteq ProviderKeys
  <2> DEFINE Typed == changed' \subseteq Providers /\ unread' \subseteq ProviderKeys
  <2>1. changed \subseteq Providers /\ unread \subseteq ProviderKeys
    BY DEF TypeOK, PoolOK
  <2>2. ASSUME NEW a \in Admins, SwapPool(a) PROVE Typed
    BY <2>2 DEF SwapPool, TypeOK, Reloads
  <2>3. ASSUME NEW a \in Admins, NEW p \in Providers, NEW k \in ProviderKeys,
               AddProviderKey(a, p, k)
        PROVE  Typed
    BY <2>1, <2>3 DEF AddProviderKey
  <2>4. ASSUME NEW a \in Admins, Admin(a)
        PROVE  \/ SwapPool(a) \/ UNCHANGED <<changed, unread>>
               \/ \E p \in Providers, k \in ProviderKeys : AddProviderKey(a, p, k)
    BY <2>4 DEF Admin, ListActiveProviders, ListActiveProvidersError,
                ListActiveKeys, ListActiveKeysError
  <2>5. ASSUME NEW c \in Callers, Request(c) PROVE UNCHANGED <<changed, unread>>
    BY <2>5 DEF Request, FindModel, FindProvider, NextKey, FirstKey, NoKey, Answer
  <2>6. ASSUME Tables PROVE Typed
    BY <2>1, <2>6 DEF Tables, CreateProvider, ToggleProvider, CreateModel, UpdateModel
  <2>7. UNCHANGED vars => UNCHANGED <<changed, unread>>
    BY DEF vars
  <2> QED
    BY <2>1, <2>2, <2>3, <2>4, <2>5, <2>6, <2>7 DEF Next
<1>2. ASSUME NEW a \in Admins, SwapPool(a) PROVE PoolOK'
  <2>1. providerKeys' \in [Providers -> Seq(ProviderKeys)] /\ uses' = ZeroUses(providerKeys')
    BY <1>2 DEF SwapPool, TypeOK, Reloads
  <2>2. keyIndex' \in [Providers -> 0 .. MaxIssued]
    BY <1>2, MaxIssuedAssumption DEF SwapPool
  <2>3. DOMAIN uses' = Providers
        /\ \A p \in Providers : uses'[p] \in [DOMAIN providerKeys'[p] -> Nat]
    BY <2>1 DEF ZeroUses
  <2> QED
    BY <1>1, <2>1, <2>2, <2>3 DEF PoolOK
<1>3. ASSUME NEW c \in Callers, NextKey(c) PROVE PoolOK'
  <2> DEFINE p == call[c].provider
             n == Len(providerKeys[p])
             k == keyIndex[p]
  <2>1. /\ p \in Providers /\ n \in Nat \ {0} /\ k \in Nat
        /\ DOMAIN uses[p] = 1 .. n /\ k % n \in 0 .. (n - 1)
        /\ keyIndex' = [keyIndex EXCEPT ![p] = k + 1]
        /\ uses' = [uses EXCEPT ![p][(k % n) + 1] = @ + 1]
        /\ providerKeys' = providerKeys
    BY <1>3, NextKeyTurn
  <2>2. k < MaxIssued
    BY <1>3 DEF NextKey
  <2>3. keyIndex' \in [Providers -> 0 .. MaxIssued]
    <3>1. keyIndex \in [Providers -> 0 .. MaxIssued]
      BY DEF TypeOK, PoolOK
    <3> HIDE DEF k, n
    <3> QED
      BY <2>1, <2>2, <3>1, MaxIssuedAssumption
  <2>4. DOMAIN uses' = Providers
        /\ \A q \in Providers : uses'[q] \in [DOMAIN providerKeys[q] -> Nat]
    <3>1. DOMAIN uses = Providers
          /\ \A q \in Providers : uses[q] \in [DOMAIN providerKeys[q] -> Nat]
      BY DEF TypeOK, PoolOK
    <3> HIDE DEF k, n
    <3> QED
      BY <2>1, <3>1
  <2> QED
    BY <1>1, <2>1, <2>3, <2>4 DEF TypeOK, PoolOK
<1>4. CASE UNCHANGED <<pool, uses>>
  BY <1>1, <1>4 DEF TypeOK, PoolOK, pool
<1> QED
  BY <1>2, <1>3, <1>4, PoolSteps

LEMMA TypeKept ==
  ASSUME TypeOK, [Next]_vars
  PROVE  TypeOK'
<1>1. TablesOK'
  BY TablesKept DEF TypeOK
<1> QED
  BY <1>1, PoolKept, ReloadKept, CallKept DEF TypeOK

\* Lists survive the growth of the tables, and Reload reads only table rows.
LEMMA ListsKept ==
  ASSUME TypeOK, ListsFromTable, [Next]_vars
  PROVE  ListsFromTable'
<1>1. ASSUME NEW p \in Providers, NEW list, ReadFrom(list, rows[p])
      PROVE  ReadFrom(list, rows'[p])
  BY <1>1, TablesKept, ReadFromGrows DEF TypeOK
<1>2. ASSUME NEW p \in Providers PROVE ReadFrom(providerKeys'[p], rows'[p])
  <2>1. ASSUME NEW a \in Admins, SwapPool(a) PROVE providerKeys'[p] = reload[a].keys[p]
    BY <2>1 DEF SwapPool
  <2>2. ASSUME NEW c \in Callers, NextKey(c) PROVE UNCHANGED providerKeys
    BY <2>2 DEF NextKey
  <2>3. UNCHANGED <<pool, uses>> => UNCHANGED providerKeys
    BY DEF pool
  <2> QED
    BY <1>1, <2>1, <2>2, <2>3, PoolSteps DEF ListsFromTable
<1>3. ASSUME NEW p \in Providers, NEW b \in Admins
      PROVE  ReadFrom(reload'[b].keys[p], rows'[p])
  <2> DEFINE Old == reload'[b].keys[p] = reload[b].keys[p]
             Empty == reload'[b].keys[p] = <<>>
  <2>1. ASSUME NEW a \in Admins, Admin(a)
        PROVE  Old \/ Empty \/ \E list \in Listings(rows[p]) : reload'[b].keys[p] = list
    <3> USE DEF TypeOK, Reloads
    <3>1. ASSUME NEW q \in Providers, NEW k \in ProviderKeys, AddProviderKey(a, q, k) PROVE Old
      BY <3>1 DEF AddProviderKey
    <3>2. CASE ListActiveProviders(a)
      BY <3>2 DEF ListActiveProviders, Idle
    <3>3. CASE ListActiveProvidersError(a)
      BY <3>3 DEF ListActiveProvidersError, Idle
    <3>4. ASSUME NEW q \in Providers, ListActiveKeys(a, q)
          PROVE  Old \/ \E list \in Listings(rows[p]) : reload'[b].keys[p] = list
      <4>1. PICK list \in Listings(rows[q]) :
               reload' = [reload EXCEPT ![a].todo = @ \ {q}, ![a].keys[q] = list]
        BY <3>4 DEF ListActiveKeys
      <4>2. CASE b = a /\ p = q
        <5>1. reload'[b].keys[p] = list
          BY <4>1, <4>2
        <5> QED
          BY <4>2, <5>1
      <4>3. CASE ~(b = a /\ p = q)
        <5>1. Old
          BY <4>1, <4>3
        <5> QED
          BY <5>1
      <4> QED
        BY <4>2, <4>3
    <3>5. ASSUME NEW q \in Providers, ListActiveKeysError(a, q) PROVE Old
      BY <3>5 DEF ListActiveKeysError
    <3>6. CASE SwapPool(a)
      BY <3>6 DEF SwapPool, Idle
    <3> HIDE DEF Old, Empty
    <3> QED
      BY <2>1, <3>1, <3>2, <3>3, <3>4, <3>5, <3>6 DEF Admin
  <2>2. ASSUME NEW c \in Callers, Request(c) PROVE Old
    BY <2>2 DEF Request, FindModel, FindProvider, NextKey, FirstKey, NoKey, Answer
  <2>3. ASSUME Tables PROVE Old
    <3>1. ASSUME NEW q \in Providers, NEW on \in BOOLEAN, ToggleProvider(q, on) PROVE Old
      BY <3>1 DEF ToggleProvider, TypeOK, Reloads
    <3>2. UNCHANGED reload => Old
      OBVIOUS
    <3> HIDE DEF Old
    <3> QED
      BY <2>3, <3>1, <3>2 DEF Tables, CreateProvider, CreateModel, UpdateModel
  <2>4. UNCHANGED vars => Old
    BY DEF vars
  <2>5. Old => ReadFrom(reload'[b].keys[p], rows'[p])
    BY <1>1 DEF ListsFromTable
  <2>6. Empty => ReadFrom(reload'[b].keys[p], rows'[p])
    BY EmptyReadFrom
  <2>7. (\E list \in Listings(rows[p]) : reload'[b].keys[p] = list)
          => ReadFrom(reload'[b].keys[p], rows'[p])
    <3>1. IsFiniteSet(rows[p])
      BY KeysAssumption, FS_Subset DEF TypeOK, TablesOK
    <3> QED
      BY <1>1, <3>1, ListingsReadFrom
  <2> HIDE DEF Old, Empty
  <2> QED
    BY <2>1, <2>2, <2>3, <2>4, <2>5, <2>6, <2>7 DEF Next
<1> QED
  BY <1>2, <1>3 DEF ListsFromTable

-----------------------------------------------------------------------------
\* The round-robin counter is at its place in the round after every step.
LEMMA RotatingKept ==
  ASSUME TypeOK, Rotating, [Next]_vars
  PROVE  Rotating'
<1>1. ASSUME NEW a \in Admins, SwapPool(a) PROVE Rotating'
  <2>1. reload[a].keys \in [Providers -> Seq(ProviderKeys)]
    BY DEF TypeOK, Reloads
  <2> SUFFICES ASSUME NEW p \in Providers, NEW i \in DOMAIN uses'[p]
               PROVE  uses'[p][i] = IF i <= keyIndex'[p] % Len(providerKeys'[p])
                                      THEN 0 + 1 ELSE 0
    BY DEF Rotating, Rotation
  <2>2. /\ uses' = ZeroUses(reload[a].keys) /\ keyIndex'[p] = 0
        /\ providerKeys' = reload[a].keys
    BY <1>1 DEF SwapPool
  <2>3. uses'[p][i] = 0 /\ 0 % Len(providerKeys'[p]) = 0 /\ i \in Nat /\ i > 0
    BY <2>1, <2>2, ZeroRotation
  <2>4. keyIndex'[p] % Len(providerKeys'[p]) = 0
    BY <2>2, <2>3, Zenon
  <2> QED
    BY <2>3, <2>4
<1>2. ASSUME NEW c \in Callers, NextKey(c) PROVE Rotating'
  <2>0. PICK p \in Providers : p = call[c].provider
    BY <1>2, NextKeyTurn
  <2> DEFINE n == Len(providerKeys[p])
             k == keyIndex[p]
             r == k % n
  <2>1. /\ p \in Providers /\ n \in Nat \ {0} /\ k \in Nat
        /\ DOMAIN uses[p] = 1 .. n /\ r \in 0 .. (n - 1)
        /\ keyIndex' = [keyIndex EXCEPT ![p] = k + 1]
        /\ uses' = [uses EXCEPT ![p][r + 1] = @ + 1]
        /\ providerKeys' = providerKeys
    BY <1>2, <2>0, NextKeyTurn
  <2>2. DOMAIN uses = Providers /\ keyIndex \in [Providers -> 0 .. MaxIssued]
        /\ \A q \in Providers : uses[q] \in [DOMAIN providerKeys[q] -> Nat]
    BY DEF TypeOK, PoolOK
  <2>3. ASSUME NEW q \in Providers, q # p PROVE \E s \in Nat : Rotation(q, s)'
    <3>1. PICK s \in Nat : Rotation(q, s)
      BY DEF Rotating
    <3>2. uses'[q] = uses[q] /\ keyIndex'[q] = keyIndex[q] /\ providerKeys'[q] = providerKeys[q]
      BY <2>1, <2>2, <2>3
    <3> QED
      BY <3>1, <3>2 DEF Rotation
  <2>4. \E s \in Nat : Rotation(p, s)'
    <3>1. PICK s \in Nat : Rotation(p, s)
      BY <2>1 DEF Rotating
    <3>2. keyIndex'[p] = k + 1 /\ Len(providerKeys'[p]) = n
      BY <2>1, <2>2
    <3>3. keyIndex'[p] % Len(providerKeys'[p]) = IF r + 1 = n THEN 0 ELSE r + 1
      BY <2>1, <3>2, ModStep
    <3>4. /\ DOMAIN uses'[p] = 1 .. n
          /\ \A i \in 1 .. n : uses'[p][i] = IF i = r + 1 THEN uses[p][i] + 1 ELSE uses[p][i]
      BY <2>1, <2>2
    <3>5. \A i \in 1 .. n : uses[p][i] = IF i <= r THEN s + 1 ELSE s
      BY <2>1, <3>1 DEF Rotation
    <3> HIDE DEF n, k, r
    <3>6. \A i \in 1 .. n : uses'[p][i] = IF i <= r + 1 THEN s + 1 ELSE s
      BY <2>1, <3>4, <3>5
    <3>7. CASE r + 1 = n
      <4>1. \A i \in 1 .. n : uses'[p][i] = IF i <= 0 THEN (s + 1) + 1 ELSE s + 1
        BY <2>1, <3>6, <3>7
      <4>2. keyIndex'[p] % Len(providerKeys'[p]) = 0
        BY <3>3, <3>7
      <4>3. Rotation(p, s + 1)'
        BY <3>4, <4>1, <4>2 DEF Rotation
      <4> QED
        BY <4>3
    <3>8. CASE r + 1 # n
      <4>1. keyIndex'[p] % Len(providerKeys'[p]) = r + 1
        BY <3>3, <3>8
      <4>2. Rotation(p, s)'
        BY <3>4, <3>6, <4>1 DEF Rotation
      <4> QED
        BY <4>2
    <3> QED
      BY <3>7, <3>8
  <2>5. \A q \in Providers : \E s \in Nat : Rotation(q, s)'
    BY <2>3, <2>4
  <2> QED
    BY <2>5 DEF Rotating
<1> QED
  BY <1>1, <1>2, RotationKept, PoolSteps

-----------------------------------------------------------------------------
\* The actions that leave the reloads, the flags and the rows alone.
LEMMA UpToDateQuiet ==
  ASSUME ReloadsUpToDate, PoolUpToDate,
         UNCHANGED <<active, rows, reload, providerKeys, changed, unread>>
  PROVE  ReloadsUpToDate' /\ PoolUpToDate'
  BY DEF ReloadsUpToDate, PoolUpToDate, Snapshot

\* What the handlers that change flags and rows note as changed or late.
LEMMA UpToDateTables ==
  ASSUME TypeOK, ReloadsUpToDate, PoolUpToDate, Tables
  PROVE  ReloadsUpToDate' /\ PoolUpToDate'
<1>1. ASSUME NEW q \in Providers, CreateProvider(q) PROVE ReloadsUpToDate' /\ PoolUpToDate'
  <2>1. /\ rows' = rows /\ reload' = reload /\ providerKeys' = providerKeys
        /\ changed' = changed /\ unread' = unread /\ active' = active \cup {q}
        /\ rows[q] = {}
    BY <1>1 DEF CreateProvider, pool, TypeOK, TablesOK
  <2>2. ASSUME NEW p \in Providers, NEW list, NEW late, Snapshot(p, list, late)
        PROVE  IF p \in active' THEN rows'[p] \ late \subseteq Entries(list) ELSE list = <<>>
    BY <2>1, <2>2 DEF Snapshot
  <2>3. ReloadsUpToDate'
    BY <2>1, <2>2 DEF ReloadsUpToDate, Snapshot
  <2>4. PoolUpToDate'
    BY <2>1, <2>2 DEF PoolUpToDate, Snapshot
  <2> QED
    BY <2>3, <2>4
<1>2. ASSUME NEW q \in Providers, NEW on \in BOOLEAN, ToggleProvider(q, on)
      PROVE  ReloadsUpToDate' /\ PoolUpToDate'
  <2>1. CASE active' = active
    <3>1. changed' = changed
      BY <1>2, <2>1 DEF ToggleProvider
    <3>2. reload' = reload
      <4>1. \A a \in Admins : reload'[a] = reload[a]
        BY <1>2, <2>1 DEF ToggleProvider
      <4> QED
        BY <1>2, <4>1 DEF ToggleProvider, TypeOK
    <3> QED
      BY <1>2, <2>1, <3>1, <3>2, UpToDateQuiet DEF ToggleProvider, pool
  <2>2. CASE active' # active
    <3>1. /\ rows' = rows /\ providerKeys' = providerKeys /\ unread' = unread
          /\ changed' = changed \cup {q}
          /\ \A p \in Providers \ {q} : p \in active' <=> p \in active
      BY <1>2, <2>2 DEF ToggleProvider, pool
    <3>2. ASSUME NEW a \in Admins, reload'[a].pc = "keys"
          PROVE  /\ reload[a].pc = "keys" /\ reload'[a].missed = reload[a].missed \cup {q}
                 /\ reload'[a].todo = reload[a].todo /\ reload'[a].keys = reload[a].keys
                 /\ reload'[a].unread = reload[a].unread
      <4>1. reload[a] \in Reloads
        BY DEF TypeOK
      <4>2. reload'[a] = IF reload[a].pc = "keys"
                           THEN [reload[a] EXCEPT !.missed = @ \cup {q}] ELSE reload[a]
        BY <1>2, <2>2 DEF ToggleProvider
      <4> QED
        BY <3>2, <4>1, <4>2 DEF Reloads
    <3>3. ReloadsUpToDate'
      BY <3>1, <3>2 DEF ReloadsUpToDate, Snapshot
    <3>4. PoolUpToDate'
      BY <3>1 DEF PoolUpToDate, Snapshot
    <3> QED
      BY <3>3, <3>4
  <2> QED
    BY <2>1, <2>2
<1>3. ASSUME NEW m \in Models, NEW q \in Providers, CreateModel(m, q)
      PROVE  UNCHANGED <<active, rows, reload, providerKeys, changed, unread>>
  BY <1>3 DEF CreateModel, pool
<1>4. ASSUME NEW m \in Models, NEW on \in BOOLEAN, UpdateModel(m, on)
      PROVE  UNCHANGED <<active, rows, reload, providerKeys, changed, unread>>
  BY <1>4 DEF UpdateModel, pool
<1> QED
  BY <1>1, <1>2, <1>3, <1>4, UpToDateQuiet DEF Tables

\* AddProviderKey notes its key as late everywhere.
LEMMA UpToDateAddKey ==
  ASSUME TypeOK, ReloadsUpToDate, PoolUpToDate,
         NEW a \in Admins, NEW q \in Providers, NEW k \in ProviderKeys, AddProviderKey(a, q, k)
  PROVE  ReloadsUpToDate' /\ PoolUpToDate'
<1>1. /\ active' = active /\ providerKeys' = providerKeys /\ changed' = changed
      /\ unread' = unread \cup {k}
      /\ \A p \in Providers : rows'[p] \subseteq rows[p] \cup {k}
  BY DEF AddProviderKey, pool, TypeOK, TablesOK
<1>2. ASSUME NEW b \in Admins, reload'[b].pc = "keys"
      PROVE  /\ reload[b].pc = "keys" /\ reload'[b].missed = reload[b].missed
             /\ reload'[b].todo = reload[b].todo /\ reload'[b].keys = reload[b].keys
             /\ reload'[b].unread = reload[b].unread \cup {k}
  <2>1. reload[b] \in Reloads
    BY DEF TypeOK
  <2>2. reload'[b] = IF b = a THEN [reload[b] EXCEPT !.pc = "list"]
                     ELSE IF reload[b].pc = "keys" THEN [reload[b] EXCEPT !.unread = @ \cup {k}]
                     ELSE reload[b]
    BY DEF AddProviderKey
  <2> QED
    BY <1>2, <2>1, <2>2 DEF Reloads
<1>3. ReloadsUpToDate'
  BY <1>1, <1>2 DEF ReloadsUpToDate, Snapshot
<1>4. PoolUpToDate'
  BY <1>1 DEF PoolUpToDate, Snapshot
<1> QED
  BY <1>3, <1>4

\* The steps of a Reload: it starts with everything to read, reads or misses
\* one provider after the other, and installs what it has read.
LEMMA UpToDateReload ==
  ASSUME TypeOK, ReloadsUpToDate, PoolUpToDate, NEW a \in Admins,
         \/ ListActiveProviders(a) \/ ListActiveProvidersError(a) \/ SwapPool(a)
         \/ \E p \in Providers : ListActiveKeys(a, p) \/ ListActiveKeysError(a, p)
  PROVE  ReloadsUpToDate' /\ PoolUpToDate'
<1>0. active' = active /\ rows' = rows /\ reload \in [Admins -> Reloads]
  BY DEF ListActiveProviders, ListActiveProvidersError, SwapPool, ListActiveKeys,
         ListActiveKeysError, tables, TypeOK
<1> DEFINE Good(x) == x.pc = "keys" =>
             \A p \in Providers \ x.missed :
                \/ p \in x.todo /\ p \in active
                \/ p \notin x.todo /\ Snapshot(p, x.keys[p], x.unread)
<1>1. \A b \in Admins : Good(reload[b])
  BY DEF ReloadsUpToDate
<1>2. Good(Idle)
  BY DEF Idle
<1>3. ASSUME NEW x, Good(x), reload' = [reload EXCEPT ![a] = x] PROVE ReloadsUpToDate'
  <2>1. \A b \in Admins : reload'[b] = IF b = a THEN x ELSE reload[b]
    BY <1>0, <1>3
  <2>2. \A b \in Admins : Good(reload'[b])
    BY <1>1, <1>3, <2>1
  <2> QED
    BY <1>0, <2>2 DEF ReloadsUpToDate, Snapshot
<1>4. UNCHANGED <<providerKeys, changed, unread>> => PoolUpToDate'
  BY <1>0 DEF PoolUpToDate, Snapshot
<1>5. CASE ListActiveProviders(a)
  <2>1. Good([Idle EXCEPT !.pc = "keys", !.todo = active])
    BY DEF Idle, Snapshot
  <2> HIDE DEF Good
  <2> QED
    BY <1>3, <1>4, <1>5, <2>1 DEF ListActiveProviders, pool
<1>6. CASE ListActiveProvidersError(a)
  <2> HIDE DEF Good
  <2> QED
    BY <1>2, <1>3, <1>4, <1>6 DEF ListActiveProvidersError, pool
<1>7. ASSUME NEW q \in Providers, ListActiveKeys(a, q) PROVE ReloadsUpToDate' /\ PoolUpToDate'
  <2>1. PICK list \in Listings(rows[q]) :
           reload' = [reload EXCEPT ![a].todo = @ \ {q}, ![a].keys[q] = list]
    BY <1>7 DEF ListActiveKeys
  <2> DEFINE x == [reload[a] EXCEPT !.todo = @ \ {q}, !.keys[q] = list]
  <2>2. reload' = [reload EXCEPT ![a] = x] /\ reload[a] \in Reloads
    BY <1>0, <2>1
  <2>3. IsFiniteSet(rows[q])
    BY KeysAssumption, FS_Subset DEF TypeOK, TablesOK
  <2>4. Entries(list) = rows[q]
    BY <2>3, ListingsComplete
  <2>5. /\ x.missed = reload[a].missed /\ x.unread = reload[a].unread /\ x.pc = reload[a].pc
        /\ x.todo = reload[a].todo \ {q} /\ x.keys[q] = list
        /\ \A p \in Providers \ {q} : x.keys[p] = reload[a].keys[p]
    BY <2>2 DEF Reloads
  <2>6. reload[a].pc = "keys" /\ q \in reload[a].todo
    BY <1>7 DEF ListActiveKeys
  <2> HIDE DEF x
  <2>7. Good(x)
    BY <1>1, <2>4, <2>5, <2>6 DEF Snapshot
  <2> HIDE DEF Good
  <2> QED
    BY <1>3, <1>4, <1>7, <2>2, <2>7 DEF ListActiveKeys, pool
<1>8. ASSUME NEW q \in Providers, ListActiveKeysError(a, q) PROVE ReloadsUpToDate' /\ PoolUpToDate'
  <2> DEFINE x == [reload[a] EXCEPT !.todo = @ \ {q}, !.missed = @ \cup {q}]
  <2>1. reload' = [reload EXCEPT ![a] = x] /\ reload[a] \in Reloads
    BY <1>0, <1>8 DEF ListActiveKeysError
  <2>2. /\ x.missed = reload[a].missed \cup {q} /\ x.unread = reload[a].unread
        /\ x.pc = reload[a].pc /\ x.todo = reload[a].todo \ {q} /\ x.keys = reload[a].keys
    BY <2>1 DEF Reloads
  <2> HIDE DEF x
  <2>3. Good(x)
    BY <1>1, <2>2
  <2> HIDE DEF Good
  <2> QED
    BY <1>3, <1>4, <1>8, <2>1, <2>3 DEF ListActiveKeysError, pool
<1>9. CASE SwapPool(a)
  <2>1. /\ providerKeys' = reload[a].keys /\ changed' = reload[a].missed
        /\ unread' = reload[a].unread /\ reload[a].pc = "keys" /\ reload[a].todo = {}
        /\ reload' = [reload EXCEPT ![a] = Idle]
    BY <1>9 DEF SwapPool
  <2>2. PoolUpToDate'
    BY <1>0, <1>1, <2>1 DEF PoolUpToDate, Snapshot
  <2> HIDE DEF Good
  <2> QED
    BY <1>2, <1>3, <2>1, <2>2
<1> QED
  BY <1>5, <1>6, <1>7, <1>8, <1>9

LEMMA UpToDateKept ==
  ASSUME TypeOK, ReloadsUpToDate, PoolUpToDate, [Next]_vars
  PROVE  ReloadsUpToDate' /\ PoolUpToDate'
<1>1. ASSUME NEW a \in Admins, Admin(a) PROVE ReloadsUpToDate' /\ PoolUpToDate'
  BY <1>1, UpToDateAddKey, UpToDateReload DEF Admin
<1>2. ASSUME NEW c \in Callers, Request(c)
      PROVE  UNCHANGED <<active, rows, reload, providerKeys, changed, unread>>
  BY <1>2 DEF Request, FindModel, FindProvider, NextKey, FirstKey, NoKey, Answer, tables, pool
<1>3. UNCHANGED vars => UNCHANGED <<active, rows, reload, providerKeys, changed, unread>>
  BY DEF vars, tables, pool
<1> QED
  BY <1>1, <1>2, <1>3, UpToDateTables, UpToDateQuiet DEF Next

-----------------------------------------------------------------------------
\* The inductive invariant holds in every reachable state.
THEOREM InvariantHolds == Spec => []IInv
<1>1. IInv /\ [Next]_vars => IInv'
  BY TypeKept, ListsKept, RotatingKept, UpToDateKept DEF IInv
<1> QED
  BY <1>1, InitIInv, PTL DEF Spec

\* Tables, pool, reloads and requests keep their types.
THEOREM TypeCorrect == Spec => []TypeOK
<1>1. IInv => TypeOK
  BY DEF IInv
<1> QED
  BY <1>1, InvariantHolds, PTL

\* The pool never holds a key that is not a stored key of its provider,
\* however many Reloads overlap and whichever of their queries fail.
THEOREM PoolStored == Spec => []PoolFromTable
<1>1. IInv => PoolFromTable
  <2> SUFFICES ASSUME IInv, NEW p \in Providers
               PROVE  /\ Entries(providerKeys[p]) \subseteq rows[p]
                      /\ \A i, j \in DOMAIN providerKeys[p] :
                           i # j => providerKeys[p][i] # providerKeys[p][j]
    BY DEF PoolFromTable
  <2>1. ReadFrom(providerKeys[p], rows[p])
    BY DEF IInv, ListsFromTable
  <2>2. \A i \in DOMAIN providerKeys[p] : providerKeys[p][i] \in rows[p]
    BY <2>1 DEF ReadFrom
  <2> QED
    BY <2>1, <2>2 DEF ReadFrom, Entries
<1> QED
  BY <1>1, InvariantHolds, PTL

\* The pool is a snapshot of the tables as they were when the Reload that
\* filled it began, for any number of overlapping and failing Reloads.
THEOREM PoolSnapshot == Spec => []PoolUpToDate
<1>1. IInv => PoolUpToDate
  BY DEF IInv
<1> QED
  BY <1>1, InvariantHolds, PTL

\* NextKey spreads the requests of a provider evenly over its keys.
THEOREM RotationEven == Spec => []EvenRotation
<1>1. IInv => EvenRotation
  <2> SUFFICES ASSUME IInv, NEW p \in Providers, NEW i \in DOMAIN uses[p], NEW j \in DOMAIN uses[p]
               PROVE  uses[p][i] <= uses[p][j] + 1 /\ (i <= j => uses[p][j] <= uses[p][i])
    BY DEF EvenRotation
  <2>1. PICK q \in Nat : Rotation(p, q)
    BY DEF IInv, Rotating
  <2> DEFINE r == keyIndex[p] % Len(providerKeys[p])
  <2>2. Len(providerKeys[p]) \in Nat \ {0} /\ i \in Nat /\ j \in Nat /\ keyIndex[p] \in Nat
    BY MaxIssuedAssumption DEF IInv, TypeOK, PoolOK
  <2>3. r \in 0 .. (Len(providerKeys[p]) - 1)
    BY <2>2, DivMod
  <2>4. /\ uses[p][i] = IF i <= r THEN q + 1 ELSE q
        /\ uses[p][j] = IF j <= r THEN q + 1 ELSE q
    BY <2>1 DEF Rotation
  <2> HIDE DEF r
  <2> QED
    BY <2>2, <2>3, <2>4
<1> QED
  BY <1>1, InvariantHolds, PTL
=============================================================================
