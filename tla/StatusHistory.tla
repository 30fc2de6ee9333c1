---------------------------- MODULE StatusHistory ----------------------------
(***************************************************************************)
(* The provider health checks behind the status page.  One goroutine runs  *)
(* checkAll once a minute: for every active provider it reads the state of *)
(* the circuit breaker, probes the upstream, and stores the result, under  *)
(* the mutex, in the cache and in a ring buffer.  The status endpoints     *)
(* read cache and buffer under the same mutex.                             *)
(*                                                                         *)
(* A record holds the round of checks it belongs to in place of its time.  *)
(* Other requests drive the breakers at any moment, administrators toggle  *)
(* providers at any moment.                                                *)
(***************************************************************************)
EXTENDS Naturals, Sequences, FiniteSets

CONSTANTS
    Providers,          \* providers of the catalog
    Registered,         \* providers with a client in the registry
    Chained,            \*   those whose client is a fallback chain
    maxHistoryRecords,  \* size of the ring buffer (10080)
    MaxRounds           \* bound of the model: rounds of checks

ASSUME HistoryAssumption == maxHistoryRecords \in Nat \ {0}
ASSUME RoundsAssumption == MaxRounds \in Nat
ASSUME ProvidersAssumption == IsFiniteSet(Providers)
ASSUME RegisteredAssumption == Registered \subseteq Providers /\ Chained \subseteq Registered

None == "none"
Circuits == {"closed", "open", "half-open"}
Statuses == {"up", "down", "degraded"}

ASSUME NoneAssumption == None \notin Providers

VARIABLES
    active,       \* catalog: the active providers
    breaker,      \* state of each circuit breaker
    round,        \* rounds of checks started
    listed,       \* history of the model: the providers this round listed
    todo,         \* providers checkAll still has to check in this round
    probing,      \* the provider being probed, or None
    circuit,      \* health.Circuit of that provider, read before the probe
    healthCache,  \* last result per provider, None before the first
    history,      \* the ring buffer
    historyIdx,   \* its write counter
    log           \* history of the model: every record ever appended

env == <<active, breaker>>
store == <<healthCache, history, historyIdx, log>>
vars == <<env, round, listed, todo, probing, circuit, store>>

Init ==
    /\ active \in SUBSET Providers
    /\ breaker = [p \in Providers |-> "closed"]
    /\ round = 0
    /\ listed = {}
    /\ todo = {}
    /\ probing = None
    /\ circuit = "closed"
    /\ healthCache = [p \in Providers |-> None]
    /\ history = <<>>
    /\ historyIdx = 0
    /\ log = <<>>

\* The loop of checkAll has ended and the ticker is waited for.
Waiting == todo = {} /\ probing = None

\* checkAll starts and lists the active providers.
ListActiveProviders ==
    /\ Waiting
    /\ round < MaxRounds
    /\ round' = round + 1
    /\ listed' = active
    /\ todo' = active
    /\ UNCHANGED <<env, probing, circuit, store>>

\* The query fails: this round checks nothing.
ListActiveProvidersError ==
    /\ Waiting
    /\ round < MaxRounds
    /\ round' = round + 1
    /\ listed' = {}
    /\ UNCHANGED <<env, todo, probing, circuit, store>>

\* Mutant of SkipProvider: `return` in place of `continue`.
SkipProviderReturns(p) ==
    /\ probing = None
    /\ p \in todo \ Registered
    /\ todo' = {}
    /\ UNCHANGED <<env, round, listed, probing, circuit, store>>

\* A provider without a client is skipped.
SkipProvider(p) ==
    /\ probing = None
    /\ p \in todo \ Registered
    /\ todo' = todo \ {p}
    /\ UNCHANGED <<env, round, listed, probing, circuit, store>>

\* The breaker's state is read (a chain has none of its own), then the probe is sent.
StartProbe(p) ==
    /\ probing = None
    /\ p \in todo \cap Registered
    /\ todo' = todo \ {p}
    /\ probing' = p
    /\ circuit' = IF p \in Chained THEN "none" ELSE breaker[p]
    /\ UNCHANGED <<env, round, listed, store>>

\* The status of a probe, from its result and the circuit read before it.
StatusOf(ok, c) ==
    IF ok THEN "up" ELSE IF c = "open" THEN "down" ELSE "degraded"

\* Mutant of appendHistory: the counter does not move once the buffer is full.
appendHistoryStuck(r) ==
    IF Len(history) < maxHistoryRecords
      THEN history' = Append(history, r) /\ historyIdx' = historyIdx + 1
      ELSE /\ history' = [history EXCEPT ![(historyIdx % maxHistoryRecords) + 1] = r]
           /\ historyIdx' = historyIdx

appendHistory(r) ==
    /\ history' = IF Len(history) < maxHistoryRecords
                    THEN Append(history, r)
                    ELSE [history EXCEPT ![(historyIdx % maxHistoryRecords) + 1] = r]
    /\ historyIdx' = historyIdx + 1

\* Mutant of FinishProbe: a failed probe is kept out of the cache.
FinishProbeKeepsUp(ok) ==
    LET r == [provider |-> probing, status |-> StatusOf(ok, circuit), round |-> round]
    IN  /\ probing # None
        /\ healthCache' = IF ok THEN [healthCache EXCEPT ![probing] = r.status] ELSE healthCache
        /\ appendHistory(r)
        /\ log' = Append(log, r)
        /\ probing' = None
        /\ UNCHANGED <<env, round, listed, todo, circuit>>

\* The probe answers or fails (an error, a timeout, no key, an open circuit);
\* its result is stored under the mutex.
FinishProbe(ok) ==
    LET r == [provider |-> probing, status |-> StatusOf(ok, circuit), round |-> round]
    IN  /\ probing # None
        /\ healthCache' = [healthCache EXCEPT ![probing] = r.status]
        /\ appendHistory(r)
        /\ log' = Append(log, r)
        /\ probing' = None
        /\ UNCHANGED <<env, round, listed, todo, circuit>>

\* Environment: other requests move the breaker.
BreakerChanges(p, c) ==
    /\ breaker' = [breaker EXCEPT ![p] = c]
    /\ UNCHANGED <<active, round, listed, todo, probing, circuit, store>>

\* Environment: an administrator toggles a provider.
ToggleProvider(p) ==
    /\ active' = IF p \in active THEN active \ {p} ELSE active \cup {p}
    /\ UNCHANGED <<breaker, round, listed, todo, probing, circuit, store>>

Next ==
    \/ ListActiveProviders \/ ListActiveProvidersError
    \/ \E p \in Providers : SkipProvider(p) \/ StartProbe(p) \/ ToggleProvider(p)
    \/ \E ok \in BOOLEAN : FinishProbe(ok)
    \/ \E p \in Registered \ Chained, c \in Circuits : BreakerChanges(p, c)

Spec == Init /\ [][Next]_vars

-----------------------------------------------------------------------------
(* The status endpoints.                                                   *)

\* Status: the overall verdict over the cache.
Overall ==
    LET known == {p \in Providers : healthCache[p] # None}
    IN  IF known = {} THEN "unknown"
        ELSE IF \A p \in known : healthCache[p] = "up" THEN "operational" ELSE "degraded"

-----------------------------------------------------------------------------
Records == [provider : Providers, status : Statuses, round : 0 .. MaxRounds]

\* Types, including those of the history of the model.
TypeOK ==
    /\ active \subseteq Providers
    /\ breaker \in [Providers -> Circuits]
    /\ round \in 0 .. MaxRounds
    /\ listed \subseteq Providers /\ todo \subseteq Providers
    /\ probing \in Providers \cup {None}
    /\ circuit \in Circuits \cup {"none"}
    /\ healthCache \in [Providers -> Statuses \cup {None}]
    /\ history \in Seq(Records) /\ Len(history) <= maxHistoryRecords
    /\ historyIdx \in Nat
    /\ log \in Seq(Records)

(***************************************************************************)
(* The ring buffer holds exactly the last maxHistoryRecords records, each  *)
(* in the slot its number gives, so /status/history counts every recent    *)
(* check once: filling, wrapping around and overwriting lose and duplicate *)
(* nothing.                                                                *)
(***************************************************************************)
RingExact ==
    /\ historyIdx = Len(log)
    /\ Len(history) = IF Len(log) < maxHistoryRecords THEN Len(log) ELSE maxHistoryRecords
    /\ \A t \in DOMAIN log :
         t + maxHistoryRecords > Len(log) => history[((t - 1) % maxHistoryRecords) + 1] = log[t]

\* The number of the last record of provider p is t.
LastOf(p, t) ==
    /\ t \in DOMAIN log /\ log[t].provider = p
    /\ \A u \in DOMAIN log : log[u].provider = p => u <= t

(***************************************************************************)
(* The verdict of /status agrees with what /status/history was told: it is *)
(* "operational" exactly when there are records and the last one of every  *)
(* provider says "up".                                                     *)
(***************************************************************************)
OverallAgrees ==
    Overall = "operational" <=>
        /\ log # <<>>
        /\ \A p \in Providers, t \in DOMAIN log : LastOf(p, t) => log[t].status = "up"

(***************************************************************************)
(* A round of checks is complete when checkAll waits for the ticker again: *)
(* it has stored exactly one record for every provider it listed that has  *)
(* a client, and none for any other, however providers were toggled, and   *)
(* whatever probes failed, meanwhile.                                      *)
(***************************************************************************)
RoundComplete ==
    Waiting => \A p \in Providers :
        Cardinality({t \in DOMAIN log : log[t].provider = p /\ log[t].round = round})
            = IF p \in listed \cap Registered THEN 1 ELSE 0

\* How many rounds of checks of all providers the buffer has room for.
RoundsCovered == maxHistoryRecords \div Cardinality(Registered)

(***************************************************************************)
(* What the comment "ring buffer of last 10080 records (7 days @ 1/min)"   *)
(* comes to with more than one provider: no record of the last             *)
(* RoundsCovered rounds is forgotten, that is, with n providers, of the    *)
(* last 7/n days.                                                          *)
(***************************************************************************)
HistoryCovers ==
    \A t \in DOMAIN log :
        log[t].round + RoundsCovered > round => \E i \in DOMAIN history : history[i] = log[t]
=============================================================================
