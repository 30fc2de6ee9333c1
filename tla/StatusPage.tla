----------------------------- MODULE StatusPage ------------------------------
(***************************************************************************)
(* The status page polls GET /status every 30 seconds, whether or not the  *)
(* poll before has been answered, and shows the answer that came last.     *)
(***************************************************************************)
EXTENDS Tab

NoData == "none"

StatusView == [page |-> "status", data |-> NoData, error |-> FALSE]

\* The mount effect and setInterval: fetchStatus.
Poll ==
    /\ On("status")
    /\ Len(calls) < MaxCalls
    /\ calls' = Append(calls, Ask("status", <<>>))
    /\ UNCHANGED <<view, backend>>

\* Mutant of Refreshed: the error of an earlier poll stays.
RefreshedOnly(body) == [view EXCEPT !.data = body]

\* A good answer replaces the data and takes the error away.
Refreshed(body) == [view EXCEPT !.data = body, !.error = FALSE]

\* A bad answer shows an error and leaves the data.
StatusArrives(i) ==
    /\ calls[i].op = "status"
    /\ Answered(calls[i])
    /\ view' = IF calls[i].status = "ok" THEN Refreshed(calls[i].body)
               ELSE [view EXCEPT !.error = TRUE]
    /\ calls' = RemoveAt(calls, i)
    /\ UNCHANGED backend

\* What the page says: everything that is not "operational" is called degraded;
\* before the first answer the page says that it is loading.
Verdict ==
    IF view.data = NoData THEN (IF view.error THEN "error" ELSE "loading")
    ELSE IF view.data = "operational" THEN "operational" ELSE "degraded"
=============================================================================
