----------------------------- MODULE UsageLedger -----------------------------
(***************************************************************************)
(* What RecordUsage, FlushWorker and FlushAll promise together: the fate   *)
(* of each usage record.  A record is charged and then logged, and stays   *)
(* so; before it is charged it can be dropped for free, after it is        *)
(* charged it can be gone for good, with every copy of its log entry.      *)
(* Records are logged one by one; what the end of a process or an eviction *)
(* takes, it takes at once.  How many rows a logged record has is not the  *)
(* ledger's concern.                                                       *)
(***************************************************************************)
CONSTANT Records
VARIABLE fate  \* open, charged, logged, free or gone

Init == fate = [r \in Records |-> "open"]

Charge(r) ==
    /\ fate[r] = "open"
    /\ fate' = [fate EXCEPT ![r] = "charged"]

Log(r) ==
    /\ fate[r] = "charged"
    /\ fate' = [fate EXCEPT ![r] = "logged"]

Lose(S) ==
    /\ \A r \in S : fate[r] \in {"open", "charged"}
    /\ fate' = [r \in Records |->
                   IF r \in S THEN (IF fate[r] = "open" THEN "free" ELSE "gone") ELSE fate[r]]

Next ==
    \/ \E r \in Records : Charge(r) \/ Log(r)
    \/ \E S \in SUBSET Records : Lose(S)

Spec == Init /\ [][Next]_fate
=============================================================================
