------------------------------- MODULE Catalog -------------------------------
(***************************************************************************)
(* The model catalog and the pool of upstream keys: the tables providers,  *)
(* provider_keys and model_configs, the in-memory pool that Reload fills   *)
(* from them, and the registry of provider clients that is filled once at  *)
(* start-up.                                                               *)
(*                                                                         *)
(* Reload reads the tables with one query per provider, outside the mutex, *)
(* and swaps the result in under it.  It runs at start-up and at the end   *)
(* of AddProviderKey; the other admin handlers do not call it.  A request  *)
(* reads its model row, then its provider row, then takes a key.           *)
(*                                                                         *)
(* A provider's id and its unique name are one value.  A key is the row it *)
(* was stored in; encryption at rest is left out (Encrypt and Decrypt      *)
(* cancel out).  Rows are never deleted and no handler deactivates a key.  *)
(***************************************************************************)
EXTENDS Naturals, Sequences, FiniteSets

CONSTANTS
    Providers,    \* providers an administrator may create
    ProviderKeys, \* upstream API keys
    Models,       \* public model names
    Admins,       \* admin requests in progress at the same time
    Callers,      \* inference requests in progress at the same time
    DbFails,      \* whether a query of Reload may fail
    MaxIssued     \* bound of the model: keys issued per provider and pool

ASSUME DbFailsAssumption == DbFails \in BOOLEAN
ASSUME MaxIssuedAssumption == MaxIssued \in Nat
ASSUME KeysAssumption == IsFiniteSet(ProviderKeys)

None == "none"

ASSUME NoneAssumption == None \notin Providers

VARIABLES
    created,      \* table providers: the rows
    active,       \*   those with is_active
    rows,         \* table provider_keys: the rows of each provider
    owner,        \* table model_configs: provider_id, None if there is no row
    enabled,      \*   the rows with is_active
    registry,     \* providers with a client, registered at start-up
    providerKeys, \* the pool
    keyIndex,     \* the round-robin counters
    reload,       \* the Reload each admin request is in
    call,         \* the inference request of each caller
    uses,         \* history: how often NextKey returned each pool entry
    changed,      \* history: providers that were toggled since the Reload of
                  \*   the pool began, or whose query failed in it
    unread        \* history: keys stored since that Reload began

tables == <<created, active, rows, owner, enabled, registry>>
pool == <<providerKeys, keyIndex>>
vars == <<tables, pool, reload, call, uses, changed, unread>>

Idle == [pc |-> "idle", todo |-> {}, keys |-> [p \in Providers |-> <<>>],
         missed |-> {}, unread |-> {}]
NoCall == [pc |-> "idle", provider |-> None, kind |-> "chat"]

\* Every order in which a query without ORDER BY may return the rows S.
Listings(S) ==
    {f \in [1 .. Cardinality(S) -> S] :
        \A i, j \in 1 .. Cardinality(S) : i # j => f[i] # f[j]}

ZeroUses(keys) == [p \in Providers |-> [i \in DOMAIN keys[p] |-> 0]]

\* The server as it starts: the registry holds the active providers and the
\* pool their keys, unless the first Reload failed.
Init ==
    /\ created \in SUBSET Providers
    /\ active \in SUBSET created
    /\ rows \in [Providers -> SUBSET ProviderKeys]
    /\ \A p, q \in Providers : p # q => rows[p] \cap rows[q] = {}
    /\ \A p \in Providers \ created : rows[p] = {}
    /\ owner \in [Models -> created \cup {None}]
    /\ enabled = {m \in Models : owner[m] # None}
    /\ registry = active
    /\ \E skipped \in SUBSET active :
        /\ skipped # {} => DbFails
        /\ providerKeys \in [Providers -> UNION {Listings(rows[p]) : p \in Providers} \cup {<<>>}]
        /\ \A p \in Providers :
            IF p \in active \ skipped THEN providerKeys[p] \in Listings(rows[p])
                                      ELSE providerKeys[p] = <<>>
        /\ changed = skipped
    /\ keyIndex = [p \in Providers |-> 0]
    /\ reload = [a \in Admins |-> Idle]
    /\ call = [c \in Callers |-> NoCall]
    /\ uses = ZeroUses(providerKeys)
    /\ unread = {}

-----------------------------------------------------------------------------
(* Admin handlers.                                                         *)

CreateProvider(p) ==
    /\ p \notin created
    /\ created' = created \cup {p}
    /\ active' = active \cup {p}
    /\ UNCHANGED <<rows, owner, enabled, registry, pool, reload, call, uses, changed, unread>>

\* SetActive only updates the row: neither the pool nor the registry follows.
ToggleProvider(p, on) ==
    /\ p \in created
    /\ active' = IF on THEN active \cup {p} ELSE active \ {p}
    /\ changed' = IF active' = active THEN changed ELSE changed \cup {p}
    /\ reload' = [a \in Admins |->
          IF reload[a].pc = "keys" /\ active' # active
            THEN [reload[a] EXCEPT !.missed = @ \cup {p}] ELSE reload[a]]
    /\ UNCHANGED <<created, rows, owner, enabled, registry, pool, call, uses, unread>>

CreateModel(m, p) ==
    /\ owner[m] = None
    /\ p \in created
    /\ owner' = [owner EXCEPT ![m] = p]
    /\ enabled' = enabled \cup {m}
    /\ UNCHANGED <<created, active, rows, registry, pool, reload, call, uses, changed, unread>>

\* The is_active field; prices and limits are not part of the model.
UpdateModel(m, on) ==
    /\ owner[m] # None
    /\ enabled' = IF on THEN enabled \cup {m} ELSE enabled \ {m}
    /\ UNCHANGED <<created, active, rows, owner, registry, pool, reload, call, uses, changed, unread>>

\* AddProviderKey stores the row, then calls Reload.
AddProviderKey(a, p, k) ==
    /\ reload[a].pc = "idle"
    /\ p \in created
    /\ \A q \in Providers : k \notin rows[q]
    /\ rows' = [rows EXCEPT ![p] = @ \cup {k}]
    /\ unread' = unread \cup {k}
    /\ reload' = [b \in Admins |->
          IF b = a THEN [reload[b] EXCEPT !.pc = "list"]
          ELSE IF reload[b].pc = "keys" THEN [reload[b] EXCEPT !.unread = @ \cup {k}]
          ELSE reload[b]]
    /\ UNCHANGED <<created, active, owner, enabled, registry, pool, call, uses, changed>>

-----------------------------------------------------------------------------
(* Reload.                                                                 *)

ListActiveProviders(a) ==
    /\ reload[a].pc = "list"
    /\ reload' = [reload EXCEPT ![a] =
          [Idle EXCEPT !.pc = "keys", !.todo = active]]
    /\ UNCHANGED <<tables, pool, call, uses, changed, unread>>

\* The query fails: Reload returns and AddProviderKey ignores the error.
ListActiveProvidersError(a) ==
    /\ DbFails
    /\ reload[a].pc = "list"
    /\ reload' = [reload EXCEPT ![a] = Idle]
    /\ UNCHANGED <<tables, pool, call, uses, changed, unread>>

\* Mutant of ListActiveKeys: the query does not filter on the provider.
ListActiveKeysUnfiltered(a, p) ==
    /\ reload[a].pc = "keys"
    /\ p \in reload[a].todo
    /\ \E list \in Listings(UNION {rows[q] : q \in Providers}) :
        reload' = [reload EXCEPT ![a].todo = @ \ {p}, ![a].keys[p] = list]
    /\ UNCHANGED <<tables, pool, call, uses, changed, unread>>

ListActiveKeys(a, p) ==
    /\ reload[a].pc = "keys"
    /\ p \in reload[a].todo
    /\ \E list \in Listings(rows[p]) :
        reload' = [reload EXCEPT ![a].todo = @ \ {p}, ![a].keys[p] = list]
    /\ UNCHANGED <<tables, pool, call, uses, changed, unread>>

\* The query for one provider fails: the loop goes on without its keys.
ListActiveKeysError(a, p) ==
    /\ DbFails
    /\ reload[a].pc = "keys"
    /\ p \in reload[a].todo
    /\ reload' = [reload EXCEPT ![a].todo = @ \ {p}, ![a].missed = @ \cup {p}]
    /\ UNCHANGED <<tables, pool, call, uses, changed, unread>>

\* Mutant of SwapPool: the old lists are kept where the new one is empty.
SwapPoolMerges(a) ==
    /\ reload[a].pc = "keys"
    /\ reload[a].todo = {}
    /\ providerKeys' = [p \in Providers |->
          IF reload[a].keys[p] = <<>> THEN providerKeys[p] ELSE reload[a].keys[p]]
    /\ keyIndex' = [p \in Providers |-> 0]
    /\ uses' = ZeroUses(providerKeys')
    /\ changed' = reload[a].missed
    /\ unread' = reload[a].unread
    /\ reload' = [reload EXCEPT ![a] = Idle]
    /\ UNCHANGED <<tables, call>>

\* The loop is done: pool and counters are replaced under the mutex.
SwapPool(a) ==
    /\ reload[a].pc = "keys"
    /\ reload[a].todo = {}
    /\ providerKeys' = reload[a].keys
    /\ keyIndex' = [p \in Providers |-> 0]
    /\ uses' = ZeroUses(reload[a].keys)
    /\ changed' = reload[a].missed
    /\ unread' = reload[a].unread
    /\ reload' = [reload EXCEPT ![a] = Idle]
    /\ UNCHANGED <<tables, call>>

-----------------------------------------------------------------------------
(* Inference requests and health probes.                                   *)

\* The request is answered: with the upstream's response or with an error.
Answer(c) == call' = [call EXCEPT ![c] = NoCall]

\* FindModelByPublicName filters on is_active; no row, no route.
FindModel(c, m, kind) ==
    /\ call[c].pc = "idle"
    /\ IF m \in enabled
         THEN call' = [call EXCEPT ![c] =
                 [pc |-> "provider", provider |-> owner[m], kind |-> kind]]
         ELSE Answer(c)
    /\ UNCHANGED <<tables, pool, reload, uses, changed, unread>>

\* FindProviderByID does not look at is_active.  A chat request then needs a
\* registered client; an embedding request is forwarded to the base URL.
FindProvider(c) ==
    /\ call[c].pc = "provider"
    /\ IF call[c].kind = "embedding" \/ call[c].provider \in registry
         THEN call' = [call EXCEPT ![c].pc = "key"]
         ELSE Answer(c)
    /\ UNCHANGED <<tables, pool, reload, uses, changed, unread>>

\* Mutant of NextKey: the counter is not advanced.
NextKeyStuck(c) ==
    LET p == call[c].provider
        idx == (keyIndex[p] % Len(providerKeys[p])) + 1
    IN  /\ call[c].pc = "key" /\ call[c].kind = "chat"
        /\ providerKeys[p] # <<>>
        /\ uses[p][idx] < MaxIssued
        /\ uses' = [uses EXCEPT ![p][idx] = @ + 1]
        /\ Answer(c)
        /\ UNCHANGED <<tables, pool, reload, changed, unread>>

\* NextKey returns the entry the counter points at and advances the counter.
NextKey(c) ==
    LET p == call[c].provider
        idx == (keyIndex[p] % Len(providerKeys[p])) + 1
    IN  /\ call[c].pc = "key" /\ call[c].kind = "chat"
        /\ providerKeys[p] # <<>>
        /\ keyIndex[p] < MaxIssued
        /\ keyIndex' = [keyIndex EXCEPT ![p] = @ + 1]
        /\ uses' = [uses EXCEPT ![p][idx] = @ + 1]
        /\ Answer(c)
        /\ UNCHANGED <<tables, providerKeys, reload, changed, unread>>

\* FirstKey, for embeddings, leaves the counter alone.
FirstKey(c) ==
    /\ call[c].pc = "key" /\ call[c].kind = "embedding"
    /\ providerKeys[call[c].provider] # <<>>
    /\ Answer(c)
    /\ UNCHANGED <<tables, pool, reload, uses, changed, unread>>

\* "no API keys configured for provider"
NoKey(c) ==
    /\ call[c].pc = "key"
    /\ providerKeys[call[c].provider] = <<>>
    /\ Answer(c)
    /\ UNCHANGED <<tables, pool, reload, uses, changed, unread>>

Admin(a) ==
    \/ \E p \in Providers, k \in ProviderKeys : AddProviderKey(a, p, k)
    \/ ListActiveProviders(a) \/ ListActiveProvidersError(a)
    \/ \E p \in Providers : ListActiveKeys(a, p) \/ ListActiveKeysError(a, p)
    \/ SwapPool(a)

Tables ==
    \/ \E p \in Providers : CreateProvider(p)
    \/ \E p \in Providers, on \in BOOLEAN : ToggleProvider(p, on)
    \/ \E m \in Models, p \in Providers : CreateModel(m, p)
    \/ \E m \in Models, on \in BOOLEAN : UpdateModel(m, on)

Request(c) ==
    \/ \E m \in Models, kind \in {"chat", "embedding"} : FindModel(c, m, kind)
    \/ FindProvider(c) \/ NextKey(c) \/ FirstKey(c) \/ NoKey(c)

Next == (\E a \in Admins : Admin(a)) \/ Tables \/ (\E c \in Callers : Request(c))

Spec == Init /\ [][Next]_vars

-----------------------------------------------------------------------------
Reloads == [pc : {"idle", "list", "keys"}, todo : SUBSET Providers,
            keys : [Providers -> Seq(ProviderKeys)],
            missed : SUBSET Providers, unread : SUBSET ProviderKeys]

Requests == [pc : {"idle", "provider", "key"},
             provider : Providers \cup {None}, kind : {"chat", "embedding"}]

TablesOK ==
    /\ created \subseteq Providers /\ active \subseteq created
    /\ rows \in [Providers -> SUBSET ProviderKeys]
    /\ owner \in [Models -> created \cup {None}]
    /\ enabled \subseteq {m \in Models : owner[m] # None}
    /\ registry \subseteq created
    /\ \A p \in Providers \ created : rows[p] = {}

PoolOK ==
    /\ providerKeys \in [Providers -> Seq(ProviderKeys)]
    /\ keyIndex \in [Providers -> 0 .. MaxIssued]
    /\ changed \subseteq Providers /\ unread \subseteq ProviderKeys
    /\ DOMAIN uses = Providers
    /\ \A p \in Providers : uses[p] \in [DOMAIN providerKeys[p] -> Nat]

\* Rows are never deleted, so the provider of a route exists.
CallOK ==
    /\ call \in [Callers -> Requests]
    /\ \A c \in Callers : call[c].pc \in {"provider", "key"} => call[c].provider \in created

\* Types, including those of the history.
TypeOK == TablesOK /\ PoolOK /\ reload \in [Admins -> Reloads] /\ CallOK

Entries(list) == {list[i] : i \in DOMAIN list}

(***************************************************************************)
(* Every key of the pool is a stored key of that very provider and is      *)
(* there once, whatever Reloads overlapped and failed: a request is never  *)
(* sent upstream with a key that belongs to another provider.              *)
(***************************************************************************)
PoolFromTable ==
    \A p \in Providers :
        /\ Entries(providerKeys[p]) \subseteq rows[p]
        /\ \A i, j \in DOMAIN providerKeys[p] :
             i # j => providerKeys[p][i] # providerKeys[p][j]

(***************************************************************************)
(* "Round-robin key pool: Multiple upstream keys per provider for load     *)
(* distribution": between two Reloads no key of a provider is used twice   *)
(* more often than another, and earlier keys are used first.               *)
(***************************************************************************)
EvenRotation ==
    \A p \in Providers : \A i, j \in DOMAIN uses[p] :
        /\ uses[p][i] <= uses[p][j] + 1
        /\ i <= j => uses[p][j] <= uses[p][i]

\* The list is what Reload is to load for p, but for the keys that came too late.
Snapshot(p, list, late) ==
    IF p \in active THEN rows[p] \ late \subseteq Entries(list) ELSE list = <<>>

(***************************************************************************)
(* The pool is a snapshot of the tables, whatever Reloads overlapped and   *)
(* whichever of their queries failed: but for the providers toggled, and   *)
(* the keys stored, since the Reload that filled it began, and for those   *)
(* whose query failed in it, the pool holds all the stored keys of every   *)
(* active provider and no key of an inactive one.                          *)
(***************************************************************************)
PoolUpToDate ==
    \A p \in Providers \ changed : Snapshot(p, providerKeys[p], unread)

=============================================================================
