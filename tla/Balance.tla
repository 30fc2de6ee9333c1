------------------------------- MODULE Balance -------------------------------
(***************************************************************************)
(* Prepaid balance: admission of a request by BalanceCheck/CheckBalance    *)
(* and its later charge by RecordUsage.                                    *)
(*                                                                         *)
(* PostgreSQL holds users.balance, which only the administrator changes;   *)
(* Redis holds balance_used:<user>, which only RecordUsage increments.     *)
(* CheckBalance reads the first, then the second, in two round trips, and  *)
(* the request is charged by a goroutine that runs after the response has  *)
(* been sent.  Nothing reserves the cost in between, so several requests   *)
(* of one user can be admitted on the same remaining balance.              *)
(*                                                                         *)
(* The Redis client sends a pipeline again whose answer is lost (go-redis, *)
(* three retries by default), so a cost may be charged more than once.     *)
(*                                                                         *)
(* A slot is one request from its balance check to the end of its          *)
(* recording goroutine; it is reused by later requests.  Amounts are       *)
(* natural numbers of some smallest price unit.                            *)
(***************************************************************************)
EXTENDS Integers, FiniteSets

CONSTANTS
    Users,          \* user ids
    Slots,          \* requests that can be in progress at the same time
    MaxCost,        \* the most one request can cost
    Sends,          \* how often a pipeline is sent (1 + MaxRetries, 4 in main)
    SignupBalance,  \* balance given to a new user (Register)
    Deltas,         \* amounts the administrator adds or removes
    BalanceBound,   \* bound of the model: |balance| never exceeds it
    ForgivenBound   \* bound of the model: what evictions may forget of a user

ASSUME SlotsAssumption == IsFiniteSet(Slots)
ASSUME MaxCostAssumption == MaxCost \in Nat
ASSUME SendsAssumption == Sends \in Nat \ {0}
ASSUME SignupAssumption == SignupBalance \in Nat
ASSUME DeltasAssumption == Deltas \subseteq Int /\ 0 \notin Deltas
ASSUME BoundAssumption == BalanceBound \in Nat /\ ForgivenBound \in Nat

VARIABLES
    balance,   \* users.balance in PostgreSQL
    used,      \* balance_used:<user> in Redis; a missing key reads as 0
    pc,        \* where the request of each slot is
    owner,     \* the user the slot's request belongs to
    seen,      \* the balance read by GetUserBalance, 0 when not in use
    cost,      \* the cost the recording goroutine holds, 0 when not in use
    tries,     \* how often its pipeline was executed and the answer lost
    spent,     \* history: everything RecordUsage ever charged to the user
    forgiven,  \* history: what evictions of the counter have forgotten
    peak,      \* history: the highest balance the user ever had
    broke      \* history: the user had nothing left when this slot's check
               \*   began, and has been given nothing since, by a top-up or by
               \*   an eviction

vars == <<balance, used, pc, owner, seen, cost, tries, spent, forgiven, peak, broke>>

Steps == {"idle", "check", "serving", "record"}

(***************************************************************************)
(* CheckBalance is always called with an estimated cost of 0.              *)
(***************************************************************************)
EstimatedCost == 0

\* Mutant: the early return on remaining <= 0 is missing.
SufficientOrZero(remaining) == remaining >= EstimatedCost

Sufficient(remaining) == remaining > 0 /\ remaining >= EstimatedCost


Init ==
    /\ balance = [u \in Users |-> SignupBalance]
    /\ used = [u \in Users |-> 0]
    /\ pc = [s \in Slots |-> "idle"]
    /\ owner \in [Slots -> Users]
    /\ seen = [s \in Slots |-> 0]
    /\ cost = [s \in Slots |-> 0]
    /\ tries = [s \in Slots |-> 0]
    /\ spent = [u \in Users |-> 0]
    /\ forgiven = [u \in Users |-> 0]
    /\ peak = balance
    /\ broke = [s \in Slots |-> FALSE]

(***************************************************************************)
(* First half of CheckBalance.  A failed read answers 500 and leaves       *)
(* nothing behind.                                                         *)
(***************************************************************************)
GetUserBalance(s, u) ==
    /\ pc[s] = "idle"
    /\ owner' = [owner EXCEPT ![s] = u]
    /\ seen' = [seen EXCEPT ![s] = balance[u]]
    /\ broke' = [broke EXCEPT ![s] = used[u] >= balance[u]]
    /\ pc' = [pc EXCEPT ![s] = "check"]
    /\ UNCHANGED <<balance, used, cost, tries, spent, forgiven, peak>>

(***************************************************************************)
(* Second half: the balance may have changed since it was read.  402 when  *)
(* nothing remains, otherwise the handler runs.                            *)
(***************************************************************************)
GetUsedAmount(s) ==
    /\ pc[s] = "check"
    /\ pc' = [pc EXCEPT ![s] = IF Sufficient(seen[s] - used[owner[s]])
                               THEN "serving" ELSE "idle"]
    /\ seen' = [seen EXCEPT ![s] = 0]
    /\ UNCHANGED <<balance, used, owner, cost, tries, spent, forgiven, peak, broke>>

\* Redis does not answer: 500, the request is refused.
GetUsedAmountError(s) ==
    /\ pc[s] = "check"
    /\ pc' = [pc EXCEPT ![s] = "idle"]
    /\ seen' = [seen EXCEPT ![s] = 0]
    /\ UNCHANGED <<balance, used, owner, cost, tries, spent, forgiven, peak, broke>>

(***************************************************************************)
(* The upstream call returns; `go func() { RecordUsage(...) }` is started  *)
(* with the computed cost, 0 for a failed chat completion.                 *)
(***************************************************************************)
Serve(s, c) ==
    /\ pc[s] = "serving"
    /\ cost' = [cost EXCEPT ![s] = c]
    /\ pc' = [pc EXCEPT ![s] = "record"]
    /\ UNCHANGED <<balance, used, owner, seen, tries, spent, forgiven, peak, broke>>

\* An unknown model, a missing provider or key, a failed embedding call: no
\* usage record at all.
ServeUnrecorded(s) ==
    /\ pc[s] = "serving"
    /\ pc' = [pc EXCEPT ![s] = "idle"]
    /\ UNCHANGED <<balance, used, owner, seen, cost, tries, spent, forgiven, peak, broke>>

\* IncrByFloat(balance_used:<user>, cost) is executed; the log entry is module
\* UsageLog.
Charge(s, c) ==
    /\ used' = [used EXCEPT ![owner[s]] = @ + c]
    /\ spent' = [spent EXCEPT ![owner[s]] = @ + c]

\* The recording goroutine ends.
Recorded(s) ==
    /\ pc' = [pc EXCEPT ![s] = "idle"]
    /\ cost' = [cost EXCEPT ![s] = 0]
    /\ tries' = [tries EXCEPT ![s] = 0]

\* Mutant of RecordUsage: the goroutine charges the cost twice.
RecordUsageTwice(s) ==
    /\ pc[s] = "record"
    /\ Charge(s, 2 * cost[s])
    /\ Recorded(s)
    /\ UNCHANGED <<balance, owner, seen, forgiven, peak, broke>>

RecordUsage(s) ==
    /\ pc[s] = "record"
    /\ Charge(s, cost[s])
    /\ Recorded(s)
    /\ UNCHANGED <<balance, owner, seen, forgiven, peak, broke>>

\* The pipeline is executed, its answer lost, and the client sends it again.
RecordUsageAgain(s) ==
    /\ pc[s] = "record"
    /\ tries[s] + 1 < Sends
    /\ Charge(s, cost[s])
    /\ tries' = [tries EXCEPT ![s] = @ + 1]
    /\ UNCHANGED <<balance, pc, owner, seen, cost, forgiven, peak, broke>>

\* The pipeline fails for the last time; recordUsage ignores the error and
\* charges nothing (more).
RecordUsageError(s) ==
    /\ pc[s] = "record"
    /\ Recorded(s)
    /\ UNCHANGED <<balance, used, owner, seen, spent, forgiven, peak, broke>>

(***************************************************************************)
(* Admin top-up or debit: `balance = balance + delta` in one UPDATE.       *)
(***************************************************************************)
UpdateBalance(u, d) ==
    /\ balance[u] + d \in -BalanceBound .. BalanceBound
    /\ balance' = [balance EXCEPT ![u] = @ + d]
    /\ peak' = [peak EXCEPT ![u] = IF balance[u] + d > @ THEN balance[u] + d ELSE @]
    /\ broke' = [s \in Slots |-> broke[s] /\ (owner[s] # u \/ d < 0)]
    /\ UNCHANGED <<used, pc, owner, seen, cost, tries, spent, forgiven>>

\* Redis is at maxmemory (policy allkeys-lru) and evicts the user's counter:
\* from now on GetUsedAmount answers 0, and what was spent is forgotten.
Evict(u) ==
    /\ used[u] > 0
    /\ forgiven[u] + used[u] <= ForgivenBound
    /\ used' = [used EXCEPT ![u] = 0]
    /\ forgiven' = [forgiven EXCEPT ![u] = @ + used[u]]
    /\ broke' = [s \in Slots |-> broke[s] /\ owner[s] # u]
    /\ UNCHANGED <<balance, pc, owner, seen, cost, tries, spent, peak>>

Request(s) ==
    \/ \E u \in Users : GetUserBalance(s, u)
    \/ GetUsedAmount(s)
    \/ GetUsedAmountError(s)
    \/ \E c \in 0 .. MaxCost : Serve(s, c)
    \/ ServeUnrecorded(s)
    \/ RecordUsage(s)
    \/ RecordUsageAgain(s)
    \/ RecordUsageError(s)

Next ==
    \/ \E s \in Slots : Request(s)
    \/ \E u \in Users, d \in Deltas : UpdateBalance(u, d)
    \/ \E u \in Users : Evict(u)

Spec == Init /\ [][Next]_vars

-----------------------------------------------------------------------------
(***************************************************************************)
(* Types of the state; balances may become negative by a debit, while the  *)
(* used amount and the recorded history never do.                          *)
(***************************************************************************)
TypeOK ==
    /\ balance \in [Users -> Int]
    /\ used \in [Users -> Nat]
    /\ pc \in [Slots -> Steps]
    /\ owner \in [Slots -> Users]
    /\ seen \in [Slots -> Int]
    /\ cost \in [Slots -> 0 .. MaxCost]
    /\ tries \in [Slots -> 0 .. Sends - 1]
    /\ spent \in [Users -> Nat]
    /\ forgiven \in [Users -> Nat]
    /\ peak \in [Users -> Int]
    /\ broke \in [Slots -> BOOLEAN]

\* Every execution of a pipeline there can be at the same time.
Executions == Slots \X (1 .. Sends)

(***************************************************************************)
(* The overdraft is bounded: whatever the interleaving of checks, charges, *)
(* resends, top-ups, debits and evictions, a user is never charged more    *)
(* than the highest balance ever held plus what evictions have forgotten   *)
(* plus one maximal cost for each execution of each pipeline in progress.  *)
(* It is the strongest bound the check-then-charge protocol gives: with k  *)
(* concurrent requests the excess really reaches k * Sends * MaxCost - 1.  *)
(***************************************************************************)
BoundedOverdraft ==
    \A u \in Users :
        spent[u] > 0 =>
            spent[u] < peak[u] + forgiven[u] + MaxCost * Cardinality(Executions)

(***************************************************************************)
(* Insufficient balance is never overlooked: a request whose user had      *)
(* nothing left when CheckBalance began is not served, unless the user was *)
(* topped up or the counter evicted meanwhile, whatever is charged or      *)
(* debited between the two reads.                                          *)
(***************************************************************************)
ExhaustedNotServed ==
    \A s \in Slots : broke[s] => pc[s] \notin {"serving", "record"}

-----------------------------------------------------------------------------
\* The executions that may still charge user u: those of requests that passed the
\* check, without the ones already counted in tries.
Unsettled(u) ==
    {x \in Executions :
        /\ owner[x[1]] = u
        /\ pc[x[1]] \in {"serving", "record"}
        /\ tries[x[1]] < x[2]}

(***************************************************************************)
(* The inductive strengthening of BoundedOverdraft: what the unsettled     *)
(* executions may still charge is part of the bound already.               *)
(***************************************************************************)
Reserved ==
    \A u \in Users :
        (spent[u] > 0 \/ Unsettled(u) # {}) =>
            spent[u] + MaxCost * Cardinality(Unsettled(u))
                < peak[u] + forgiven[u] + MaxCost * Cardinality(Executions)

\* Only a recording goroutine has tries behind it.
TriesWhileRecording == \A s \in Slots : pc[s] # "record" => tries[s] = 0

\* A balance once read by a check was held at that time.
SeenAtMostPeak == \A s \in Slots : pc[s] = "check" => seen[s] <= peak[owner[s]]

BalanceAtMostPeak == \A u \in Users : balance[u] <= peak[u]

\* A check that began with nothing left still sees nothing left.
BrokeCheck ==
    \A s \in Slots :
        broke[s] /\ pc[s] = "check" => seen[s] <= used[owner[s]]

\* The Redis counter is the whole truth, but for what was evicted.
CounterExact == \A u \in Users : used[u] + forgiven[u] = spent[u]

Inv ==
    /\ TypeOK
    /\ Reserved
    /\ TriesWhileRecording
    /\ SeenAtMostPeak
    /\ BalanceAtMostPeak
    /\ BrokeCheck
    /\ ExhaustedNotServed
    /\ CounterExact
=============================================================================
