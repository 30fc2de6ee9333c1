--------------------------------- MODULE Tab ---------------------------------
(***************************************************************************)
(* A browser tab that shows one of the pages anybody can open: home,       *)
(* models, calculator, documentation, status and the playground.  view is  *)
(* the page with its component state, calls are the fetch calls it waits   *)
(* for.  A request is served, which fixes its answer, and the answer       *)
(* arrives later: answers overtake each other.  Links are full page loads; *)
(* they drop the calls of the tab.                                         *)
(***************************************************************************)
EXTENDS Integers, Sequences, SequencesExt

CONSTANTS
    Catalogues,   \* what the table of active models can hold: sequences of rows
                  \* [id, input, output], each id once
    Health,       \* what the status page's backend can report
    ValidKeys,    \* API keys the gateway accepts
    MaxCalls,     \* bound of the model: calls a tab waits for
    MaxMishaps    \* bound of the model: requests that fail and changes of the table

ASSUME CataloguesAssumption ==
    \A c \in Catalogues : /\ c \in Seq([id : STRING, input : Int, output : Int])
                          /\ IsInjective([i \in DOMAIN c |-> c[i].id])
ASSUME TabBoundsAssumption == {MaxCalls, MaxMishaps} \subseteq Nat

VARIABLES
    view,      \* the page and its component state
    calls,     \* the calls in flight, the oldest first
    loggedIn,  \* is there a token in local storage
    catalog,   \* the table of active models
    health,    \* what GET /status would answer now
    mishaps    \* how many requests failed and how often the table changed so far

backend == <<loggedIn, catalog, health, mishaps>>

On(page) == view.page = page

\* A request that waits for its answer, and what an answer can be.
Ask(op, arg) == [op |-> op, arg |-> arg, status |-> "sent", body |-> <<>>]
Answered(c) == c.status \notin {"sent", "open", "ended"}

\* Ids of the models in a catalogue.
Ids(models) == [i \in DOMAIN models |-> models[i].id]

-----------------------------------------------------------------------------
(* The server, as the pages use it. *)

\* GET /v1/models needs an API key; the catalogue and the status are public.
Body(c) ==
    IF c.op = "ids" THEN Ids(catalog)
    ELSE IF c.op = "catalog" THEN catalog
    ELSE health

\* The answer to a call: a refused key is answered with a JSON body without data,
\* a stream is opened and stays open until its upstream ends it.
Answer(c) ==
    IF c.op \in {"ids", "chat"} /\ c.arg.key \notin ValidKeys THEN [c EXCEPT !.status = "error"]
    ELSE IF c.op = "chat" THEN [c EXCEPT !.status = "open"]
    ELSE [c EXCEPT !.status = "ok", !.body = Body(c)]

Serve(i) ==
    /\ calls[i].status = "sent"
    /\ calls' = [calls EXCEPT ![i] = Answer(calls[i])]
    /\ UNCHANGED <<view, backend>>

\* The handler fails with a JSON error, or there is no answer that parses.
Fail(i) ==
    /\ calls[i].status = "sent"
    /\ mishaps < MaxMishaps
    /\ mishaps' = mishaps + 1
    /\ \E s \in {"error", "broken"} : calls' = [calls EXCEPT ![i].status = s]
    /\ UNCHANGED <<view, loggedIn, catalog, health>>

\* An administrator changes the models or their prices.
ChangeCatalog ==
    /\ mishaps < MaxMishaps
    /\ mishaps' = mishaps + 1
    /\ catalog' \in Catalogues \ {catalog}
    /\ UNCHANGED <<view, calls, loggedIn, health>>

\* The health checks come to another verdict.
ChangeHealth ==
    /\ health' \in Health \ {health}
    /\ UNCHANGED <<view, calls, loggedIn, catalog, mishaps>>
=============================================================================
