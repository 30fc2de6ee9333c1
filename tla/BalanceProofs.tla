---------------------------- MODULE BalanceProofs ----------------------------
(***************************************************************************)
(* The overdraft bound and the soundness of a refusal, for any number of   *)
(* users and of concurrent requests, any costs and any top-ups.            *)
(***************************************************************************)
EXTENDS Balance, FiniteSetTheorems, TLAPS

LEMMA ExecutionsFinite == IsFiniteSet(Executions)
<1>1. IsFiniteSet(1 .. Sends)
  BY FS_Interval, SendsAssumption
<1> QED
  BY <1>1, FS_Product, SlotsAssumption DEF Executions

\* Executions in progress are finitely many, at most as many as there can be.
LEMMA UnsettledFinite ==
    ASSUME NEW u
    PROVE  /\ IsFiniteSet(Unsettled(u))
           /\ Cardinality(Unsettled(u)) \in Nat
           /\ Cardinality(Unsettled(u)) <= Cardinality(Executions)
           /\ Cardinality(Executions) \in Nat
<1>1. Unsettled(u) \in SUBSET Executions
  BY DEF Unsettled
<1> QED
  BY <1>1, FS_Subset, FS_CardinalityType, ExecutionsFinite

\* The same in the next state (FS_Subset is not a statement about actions).
LEMMA UnsettledFiniteNext ==
    ASSUME NEW u
    PROVE  /\ IsFiniteSet(Unsettled(u)')
           /\ Cardinality(Unsettled(u)') \in Nat
           /\ Cardinality(Unsettled(u)') <= Cardinality(Executions)
<1>1. Unsettled(u)' \in SUBSET Executions
  BY DEF Unsettled
<1> QED
  BY <1>1, FS_Subset, FS_CardinalityType, ExecutionsFinite

\* Multiplication by the maximal cost is monotone and distributes; stated once,
\* so that no later leaf mixes products with sets.
LEMMA CostMonotone ==
    ASSUME NEW m \in Nat, NEW n \in Nat, m <= n
    PROVE  /\ MaxCost * m \in Nat
           /\ MaxCost * m <= MaxCost * n
           /\ m + 1 <= n => MaxCost * m + MaxCost <= MaxCost * n
  BY MaxCostAssumption

-----------------------------------------------------------------------------
LEMMA InitInv == Init => Inv
<1> SUFFICES ASSUME Init PROVE Inv
  OBVIOUS
<1>1. TypeOK
  BY MaxCostAssumption, SendsAssumption, SignupAssumption DEF Init, TypeOK, Steps
<1>2. \A u : Unsettled(u) = {}
  BY DEF Init, Unsettled, Executions
<1>3. Reserved
  BY <1>2 DEF Init, Reserved
<1> QED
  BY <1>1, <1>3, SignupAssumption
  DEF Init, Inv, TriesWhileRecording, SeenAtMostPeak, BalanceAtMostPeak, BrokeCheck, ExhaustedNotServed,
      CounterExact, TypeOK

\* Every step keeps the types.
LEMMA NextTypeOK == TypeOK /\ [Next]_vars => TypeOK'
<1> SUFFICES ASSUME TypeOK, [Next]_vars PROVE TypeOK'
  OBVIOUS
<1> USE MaxCostAssumption, SendsAssumption DEF TypeOK, Steps, Charge, Recorded
<1>1. ASSUME NEW s \in Slots, Request(s) PROVE TypeOK'
  <2>1. CASE \E u \in Users : GetUserBalance(s, u)
    BY <2>1 DEF GetUserBalance
  <2>2. CASE GetUsedAmount(s)
    BY <2>2 DEF GetUsedAmount
  <2>3. CASE GetUsedAmountError(s)
    BY <2>3 DEF GetUsedAmountError
  <2>4. CASE \E c \in 0 .. MaxCost : Serve(s, c)
    BY <2>4 DEF Serve
  <2>5. CASE ServeUnrecorded(s)
    BY <2>5 DEF ServeUnrecorded
  <2>6. CASE RecordUsage(s)
    BY <2>6 DEF RecordUsage
  <2>7. CASE RecordUsageError(s)
    BY <2>7 DEF RecordUsageError
  <2>8. CASE RecordUsageAgain(s)
    BY <2>8 DEF RecordUsageAgain
  <2> QED
    BY <1>1, <2>1, <2>2, <2>3, <2>4, <2>5, <2>6, <2>7, <2>8 DEF Request
<1>2. ASSUME NEW u \in Users, NEW d \in Deltas, UpdateBalance(u, d) PROVE TypeOK'
  BY <1>2, DeltasAssumption DEF UpdateBalance
<1>3. ASSUME NEW u \in Users, Evict(u) PROVE TypeOK'
  BY <1>3 DEF Evict
<1>4. CASE UNCHANGED vars
  BY <1>4 DEF vars
<1> QED
  BY <1>1, <1>2, <1>3, <1>4 DEF Next

\* The bound survives a step that neither admits nor charges: what is still
\* owed for does not grow, and the peak does not fall.
LEMMA ReservedShrinks ==
    ASSUME TypeOK, TypeOK', Reserved, spent' = spent,
           \A u \in Users : peak[u] <= peak'[u] /\ forgiven[u] <= forgiven'[u],
           \A u \in Users : Unsettled(u)' \subseteq Unsettled(u)
    PROVE  Reserved'
<1> SUFFICES ASSUME NEW u \in Users, spent[u] > 0 \/ Unsettled(u)' # {}
             PROVE  spent[u] + MaxCost * Cardinality(Unsettled(u)')
                        < peak'[u] + forgiven'[u] + MaxCost * Cardinality(Executions)
  BY DEF Reserved
<1>1. /\ Cardinality(Unsettled(u)') \in Nat
      /\ Cardinality(Unsettled(u)) \in Nat
      /\ Cardinality(Executions) \in Nat
      /\ Cardinality(Unsettled(u)') <= Cardinality(Unsettled(u))
  BY UnsettledFinite, UnsettledFiniteNext, FS_Subset
<1>2. MaxCost * Cardinality(Unsettled(u)') <= MaxCost * Cardinality(Unsettled(u))
  BY <1>1, CostMonotone
<1>3. spent[u] + MaxCost * Cardinality(Unsettled(u))
          < peak[u] + forgiven[u] + MaxCost * Cardinality(Executions)
  BY DEF Reserved
<1>4. /\ MaxCost * Cardinality(Unsettled(u)') \in Nat
      /\ MaxCost * Cardinality(Unsettled(u)) \in Nat
      /\ MaxCost * Cardinality(Executions) \in Nat
      /\ peak[u] \in Int /\ peak'[u] \in Int /\ spent[u] \in Nat
      /\ forgiven[u] \in Nat /\ forgiven'[u] \in Nat
  BY <1>1, CostMonotone DEF TypeOK
<1> QED
  BY <1>2, <1>3, <1>4

\* The two reads of CheckBalance: an admitted request had used < seen <= peak,
\* and at most all slots are then unsettled.
LEMMA ReservedAdmit ==
    ASSUME TypeOK, TypeOK', Reserved, SeenAtMostPeak, CounterExact,
           NEW s \in Slots, GetUsedAmount(s)
    PROVE  Reserved'
<1> SUFFICES ASSUME NEW u \in Users, spent[u] > 0 \/ Unsettled(u)' # {}
             PROVE  spent[u] + MaxCost * Cardinality(Unsettled(u)')
                        < peak[u] + forgiven[u] + MaxCost * Cardinality(Executions)
  BY DEF Reserved, GetUsedAmount
<1>1. /\ Cardinality(Unsettled(u)') \in Nat
      /\ Cardinality(Executions) \in Nat
      /\ Cardinality(Unsettled(u)') <= Cardinality(Executions)
  BY UnsettledFinite, UnsettledFiniteNext
<1>2. /\ MaxCost * Cardinality(Unsettled(u)') \in Nat
      /\ MaxCost * Cardinality(Executions) \in Nat
      /\ MaxCost * Cardinality(Unsettled(u)') <= MaxCost * Cardinality(Executions)
      /\ peak[u] \in Int /\ forgiven[u] \in Nat /\ spent[u] \in Nat
  BY <1>1, CostMonotone DEF TypeOK
<1>3. CASE owner[s] = u /\ Sufficient(seen[s] - used[u])
  <2>1. seen[s] <= peak[u] /\ spent[u] < seen[s] + forgiven[u] /\ seen[s] \in Int
    BY <1>3 DEF GetUsedAmount, SeenAtMostPeak, CounterExact, Sufficient, TypeOK
  <2> QED
    BY <1>2, <2>1
<1>4. CASE ~(owner[s] = u /\ Sufficient(seen[s] - used[u]))
  <2>1. Unsettled(u)' = Unsettled(u)
    BY <1>4 DEF GetUsedAmount, Unsettled, Executions, TypeOK
  <2> QED
    BY <2>1 DEF Reserved
<1> QED
  BY <1>3, <1>4

\* A charge moves at most MaxCost from the unsettled part to the spent part, and
\* the execution that charged is not unsettled any more.
LEMMA ReservedCharge ==
    ASSUME TypeOK, TypeOK', Reserved, NEW s \in Slots,
           RecordUsage(s) \/ RecordUsageAgain(s)
    PROVE  Reserved'
<1> USE DEF RecordUsage, RecordUsageAgain, Charge, Recorded
<1> SUFFICES ASSUME NEW u \in Users, spent'[u] > 0 \/ Unsettled(u)' # {}
             PROVE  spent'[u] + MaxCost * Cardinality(Unsettled(u)')
                        < peak[u] + forgiven[u] + MaxCost * Cardinality(Executions)
  BY DEF Reserved
<1>0. tries[s] \in 0 .. Sends - 1
  BY DEF TypeOK
<1>1. CASE owner[s] = u
  <2> DEFINE x == <<s, tries[s] + 1>>
  <2>1. x \in Unsettled(u)
    BY <1>0, <1>1, SendsAssumption DEF Unsettled, Executions
  <2>2. ASSUME NEW y \in Unsettled(u)' PROVE y \in Unsettled(u) /\ y # x
    <3>1. y \in Executions /\ y[1] \in Slots /\ y[2] \in 1 .. Sends
      BY DEF Unsettled, Executions
    <3>2. /\ owner'[y[1]] = u /\ pc'[y[1]] \in {"serving", "record"}
          /\ tries'[y[1]] < y[2]
      BY DEF Unsettled
    <3>3. CASE y[1] = s
      <4>1. tries'[s] = tries[s] + 1 /\ pc[s] = "record" /\ owner' = owner
        BY <3>2, <3>3 DEF TypeOK
      <4> QED
        BY <1>0, <3>1, <3>2, <3>3, <4>1, SendsAssumption DEF Unsettled
    <3>4. CASE y[1] # s
      <4>1. /\ tries'[y[1]] = tries[y[1]] /\ pc'[y[1]] = pc[y[1]]
            /\ owner'[y[1]] = owner[y[1]]
        BY <3>1, <3>4 DEF TypeOK
      <4> QED
        BY <3>1, <3>2, <3>4, <4>1 DEF Unsettled
    <3> QED BY <3>3, <3>4
  <2> HIDE DEF x
  <2>3. Unsettled(u)' \subseteq Unsettled(u) \ {x}
    BY <2>2
  <2>4. /\ IsFiniteSet(Unsettled(u)) /\ Cardinality(Unsettled(u)) \in Nat
        /\ Cardinality(Unsettled(u)') \in Nat
        /\ Cardinality(Executions) \in Nat
    BY UnsettledFinite, UnsettledFiniteNext
  <2>5. /\ IsFiniteSet(Unsettled(u) \ {x})
        /\ Cardinality(Unsettled(u) \ {x}) = Cardinality(Unsettled(u)) - 1
    BY <2>1, <2>4, FS_RemoveElement
  <2>6. Cardinality(Unsettled(u)') <= Cardinality(Unsettled(u)) - 1
    BY <2>3, <2>5, FS_Subset
  <2>7. MaxCost * Cardinality(Unsettled(u)') + MaxCost
          <= MaxCost * Cardinality(Unsettled(u))
    BY <2>4, <2>6, CostMonotone
  <2>8. spent[u] + MaxCost * Cardinality(Unsettled(u))
          < peak[u] + forgiven[u] + MaxCost * Cardinality(Executions)
    BY <2>1 DEF Reserved
  <2>9. spent'[u] = spent[u] + cost[s] /\ cost[s] \in 0 .. MaxCost
    BY <1>1 DEF TypeOK
  <2>10. /\ MaxCost * Cardinality(Unsettled(u)') \in Nat
         /\ MaxCost * Cardinality(Unsettled(u)) \in Nat
         /\ MaxCost * Cardinality(Executions) \in Nat
         /\ peak[u] \in Int /\ forgiven[u] \in Nat /\ spent[u] \in Nat
    BY <2>4, CostMonotone DEF TypeOK
  <2> QED
    BY <2>7, <2>8, <2>9, <2>10, MaxCostAssumption
<1>2. CASE owner[s] # u
  <2>1. Unsettled(u)' = Unsettled(u) /\ spent'[u] = spent[u]
    BY <1>2 DEF Unsettled, Executions, TypeOK
  <2> QED
    BY <2>1 DEF Reserved
<1> QED
  BY <1>1, <1>2

-----------------------------------------------------------------------------
\* Every step keeps the inductive invariant: one step per action.
LEMMA NextInv == Inv /\ [Next]_vars => Inv'
<1> SUFFICES ASSUME Inv, [Next]_vars PROVE Inv'
  OBVIOUS
<1>t. TypeOK /\ TypeOK'
  BY NextTypeOK DEF Inv
<1> DEFINE Rest == TriesWhileRecording /\ SeenAtMostPeak /\ BalanceAtMostPeak /\ BrokeCheck
                     /\ ExhaustedNotServed /\ CounterExact
<1>1. ASSUME NEW s \in Slots, NEW u \in Users, GetUserBalance(s, u)
      PROVE  Reserved' /\ Rest'
  <2>1. \A v \in Users : Unsettled(v)' \subseteq Unsettled(v)
    BY <1>1, <1>t DEF GetUserBalance, Unsettled, Executions, TypeOK
  <2>2. Reserved'
    BY <1>1, <1>t, <2>1, ReservedShrinks DEF GetUserBalance, Inv, TypeOK
  <2>3. Rest'
    BY <1>1, <1>t DEF Inv, GetUserBalance, TriesWhileRecording, SeenAtMostPeak, BalanceAtMostPeak,
       BrokeCheck, ExhaustedNotServed, CounterExact, TypeOK
  <2> QED BY <2>2, <2>3
<1>2. ASSUME NEW s \in Slots, GetUsedAmount(s) PROVE Reserved' /\ Rest'
  <2>1. Reserved'
    BY <1>2, <1>t, ReservedAdmit DEF Inv
  <2>2. Rest'
    BY <1>2, <1>t DEF Inv, GetUsedAmount, Sufficient, TriesWhileRecording, SeenAtMostPeak,
       BalanceAtMostPeak, BrokeCheck, ExhaustedNotServed, CounterExact, TypeOK
  <2> QED BY <2>1, <2>2
<1>3. ASSUME NEW s \in Slots,
             GetUsedAmountError(s) \/ ServeUnrecorded(s) \/ RecordUsageError(s)
      PROVE  Reserved' /\ Rest'
  <2> USE DEF GetUsedAmountError, ServeUnrecorded, RecordUsageError, Recorded
  <2>1. \A v \in Users : Unsettled(v)' \subseteq Unsettled(v)
    BY <1>3, <1>t DEF Unsettled, Executions, TypeOK
  <2>2. Reserved'
    BY <1>3, <1>t, <2>1, ReservedShrinks DEF Inv, TypeOK
  <2>3. Rest'
    BY <1>3, <1>t DEF Inv, TriesWhileRecording, SeenAtMostPeak, BalanceAtMostPeak, BrokeCheck,
       ExhaustedNotServed, CounterExact, TypeOK
  <2> QED BY <2>2, <2>3
<1>4. ASSUME NEW s \in Slots, NEW c \in 0 .. MaxCost, Serve(s, c)
      PROVE  Reserved' /\ Rest'
  <2>1. \A v \in Users : Unsettled(v)' \subseteq Unsettled(v)
    BY <1>4, <1>t DEF Serve, Unsettled, Executions, TypeOK
  <2>2. Reserved'
    BY <1>4, <1>t, <2>1, ReservedShrinks DEF Serve, Inv, TypeOK
  <2>3. Rest'
    BY <1>4, <1>t DEF Inv, Serve, TriesWhileRecording, SeenAtMostPeak, BalanceAtMostPeak, BrokeCheck,
       ExhaustedNotServed, CounterExact, TypeOK
  <2> QED BY <2>2, <2>3
<1>5. ASSUME NEW s \in Slots, RecordUsage(s) \/ RecordUsageAgain(s)
      PROVE  Reserved' /\ Rest'
  <2> USE DEF RecordUsage, RecordUsageAgain, Charge, Recorded
  <2>1. Reserved'
    BY <1>5, <1>t, ReservedCharge DEF Inv
  <2>2. CounterExact' /\ BalanceAtMostPeak' /\ SeenAtMostPeak' /\ TriesWhileRecording'
         /\ ExhaustedNotServed'
    BY <1>5, <1>t DEF Inv, TriesWhileRecording, SeenAtMostPeak, BalanceAtMostPeak,
       ExhaustedNotServed, CounterExact, TypeOK
  <2>3. \A v \in Users : used[v] <= used'[v]
    BY <1>5, <1>t, MaxCostAssumption DEF TypeOK
  <2>4. BrokeCheck'
    BY <1>5, <1>t, <2>3 DEF Inv, BrokeCheck, TypeOK
  <2> QED BY <2>1, <2>2, <2>4
<1>6. ASSUME NEW u \in Users, NEW d \in Deltas, UpdateBalance(u, d)
      PROVE  Reserved' /\ Rest'
  <2>1. \A v \in Users : Unsettled(v)' \subseteq Unsettled(v)
    BY <1>6 DEF UpdateBalance, Unsettled
  <2>2. \A v \in Users : peak[v] <= peak'[v] /\ forgiven[v] <= forgiven'[v]
    BY <1>6, <1>t, DeltasAssumption DEF UpdateBalance, TypeOK
  <2>3. Reserved'
    BY <1>6, <1>t, <2>1, <2>2, ReservedShrinks DEF UpdateBalance, Inv
  <2>4. SeenAtMostPeak' /\ TriesWhileRecording'
    BY <1>6, <1>t, <2>2 DEF Inv, UpdateBalance, SeenAtMostPeak, TriesWhileRecording, TypeOK
  <2>5. BalanceAtMostPeak'
    BY <1>6, <1>t, DeltasAssumption DEF Inv, UpdateBalance, BalanceAtMostPeak, TypeOK
  <2>6. BrokeCheck' /\ ExhaustedNotServed' /\ CounterExact'
    BY <1>6, <1>t DEF Inv, UpdateBalance, BrokeCheck, ExhaustedNotServed,
       CounterExact, TypeOK
  <2> QED BY <2>3, <2>4, <2>5, <2>6
<1>7. ASSUME NEW u \in Users, Evict(u) PROVE Reserved' /\ Rest'
  <2>1. \A v \in Users : Unsettled(v)' \subseteq Unsettled(v)
    BY <1>7 DEF Evict, Unsettled
  <2>2. \A v \in Users : peak[v] <= peak'[v] /\ forgiven[v] <= forgiven'[v]
    BY <1>7, <1>t DEF Evict, TypeOK
  <2>3. Reserved'
    BY <1>7, <1>t, <2>1, <2>2, ReservedShrinks DEF Evict, Inv
  <2>4. SeenAtMostPeak' /\ BalanceAtMostPeak' /\ ExhaustedNotServed' /\ TriesWhileRecording'
    BY <1>7, <1>t DEF Inv, Evict, TriesWhileRecording, SeenAtMostPeak, BalanceAtMostPeak,
       ExhaustedNotServed, TypeOK
  <2>5. CounterExact'
    <3> SUFFICES ASSUME NEW v \in Users PROVE used'[v] + forgiven'[v] = spent[v]
      BY <1>7 DEF Evict, CounterExact
    <3>1. used[v] + forgiven[v] = spent[v] /\ used[v] \in Nat /\ forgiven[v] \in Nat
      BY <1>t DEF Inv, CounterExact, TypeOK
    <3>2. CASE v = u
      BY <1>7, <1>t, <3>1, <3>2 DEF Evict, TypeOK
    <3>3. CASE v # u
      BY <1>7, <1>t, <3>1, <3>3 DEF Evict, TypeOK
    <3> QED BY <3>2, <3>3
  <2>6. BrokeCheck'
    BY <1>7, <1>t DEF Inv, Evict, BrokeCheck, TypeOK
  <2> QED BY <2>3, <2>4, <2>5, <2>6
<1>8. CASE UNCHANGED vars
  BY <1>8, <1>t DEF vars, Inv, Reserved, Unsettled, TriesWhileRecording, SeenAtMostPeak, BalanceAtMostPeak,
     BrokeCheck, ExhaustedNotServed, CounterExact
<1> QED
  BY <1>t, <1>1, <1>2, <1>3, <1>4, <1>5, <1>6, <1>7, <1>8 DEF Next, Request, Inv

\* The bound with the unsettled part dropped.
LEMMA InvBounds == Inv => BoundedOverdraft
<1> SUFFICES ASSUME Inv, NEW u \in Users, spent[u] > 0
             PROVE  spent[u] < peak[u] + forgiven[u] + MaxCost * Cardinality(Executions)
  BY DEF BoundedOverdraft
<1>1. spent[u] + MaxCost * Cardinality(Unsettled(u))
          < peak[u] + forgiven[u] + MaxCost * Cardinality(Executions)
  BY DEF Inv, Reserved
<1>2. /\ MaxCost * Cardinality(Unsettled(u)) \in Nat
      /\ MaxCost * Cardinality(Executions) \in Nat
      /\ peak[u] \in Int /\ forgiven[u] \in Nat /\ spent[u] \in Nat
  BY UnsettledFinite, CostMonotone DEF Inv, TypeOK
<1> QED
  BY <1>1, <1>2

\* The whole inductive invariant always holds.
THEOREM InvariantHolds == Spec => []Inv
  BY InitInv, NextInv, PTL DEF Spec

\* The state keeps its types: the used amount never becomes negative.
THEOREM TypeCorrect == Spec => []TypeOK
<1>1. Inv => TypeOK
  BY DEF Inv
<1> QED
  BY <1>1, InvariantHolds, PTL

\* However many requests run at once, a user is never charged more than the
\* highest balance ever held plus what evictions of the counter have forgotten
\* plus one maximal cost for each execution of each concurrent pipeline.
THEOREM OverdraftBounded == Spec => []BoundedOverdraft
  BY InvBounds, InvariantHolds, PTL

\* CheckBalance never serves a request whose user had nothing left when the
\* check began and was given nothing since.
THEOREM ExhaustedRefused == Spec => []ExhaustedNotServed
<1>1. Inv => ExhaustedNotServed
  BY DEF Inv
<1> QED
  BY <1>1, InvariantHolds, PTL
=============================================================================
