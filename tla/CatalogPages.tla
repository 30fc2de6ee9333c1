---------------------------- MODULE CatalogPages -----------------------------
(***************************************************************************)
(* The pages that show the public catalogue: home, the list of models, and *)
(* the cost calculator.  Each loads the catalogue once.                    *)
(* Prices are integers: the cost of a request in millionths.               *)
(***************************************************************************)
EXTENDS Tab, FiniteSets

CONSTANTS
    Tokens,   \* token counts that are typed
    NoModel   \* nothing is selected

ASSUME TokensAssumption == Tokens \subseteq Nat

CatalogPage == {"home", "models", "calculator"}

\* Home and the list of models show what they loaded; how the list is filtered is
\* left out.
CatalogView(page) ==
    IF page = "calculator"
    THEN [page |-> page, loading |-> TRUE, models |-> <<>>,
          selected |-> NoModel, input |-> 500, output |-> 200]
    ELSE [page |-> page, loading |-> TRUE, models |-> <<>>]

\* The finally block.
Loaded == [view EXCEPT !.loading = FALSE]

\* The calculator selects the first model.
FirstSelected(models) == IF models = <<>> THEN NoModel ELSE models[1].id

\* loadModels, on each of the three pages.  An answer without models is an empty list.
CatalogArrives(i) ==
    /\ calls[i].op = "catalog"
    /\ Answered(calls[i])
    /\ LET ok == calls[i].status = "ok"
           models == calls[i].body
           shown == [Loaded EXCEPT !.models = models]
       IN  view' = IF ~ok THEN Loaded
                   ELSE IF On("calculator") THEN [shown EXCEPT !.selected = FirstSelected(models)]
                   ELSE shown
    /\ calls' = RemoveAt(calls, i)
    /\ UNCHANGED backend

-----------------------------------------------------------------------------
(* CalculatorPage. *)

IsSelected(m) == m.id = view.selected
SelectedModel == CHOOSE m \in Range(view.models) : IsSelected(m)

\* Mutant of CalcCostPerRequest: the prices are swapped.
CalcCostSwapped(m, input, output) == input * m.output + output * m.input

CalcCostPerRequest(m, input, output) == input * m.input + output * m.output

CostPerRequest ==
    IF \E m \in Range(view.models) : IsSelected(m)
    THEN CalcCostPerRequest(SelectedModel, view.input, view.output)
    ELSE 0

\* The comparison table, the cheapest model first; sort is stable, so models of the
\* same cost keep their order.
CostOf(i) == CalcCostPerRequest(view.models[i], view.input, view.output)
Above(i) ==
    {j \in DOMAIN view.models : CostOf(j) < CostOf(i) \/ (CostOf(j) = CostOf(i) /\ j < i)}
SortedModels ==
    [k \in DOMAIN view.models |->
        view.models[CHOOSE i \in DOMAIN view.models : Cardinality(Above(i)) = k - 1]]

\* What the gateway charges for such a request: calculateTokenCost.
Billed(m, input, output) == input * m.input + output * m.output

\* The select element and a click on a row of the comparison.
SelectRow(id) == id # view.selected /\ view' = [view EXCEPT !.selected = id]

Calculate ==
    /\ On("calculator")
    /\ ~view.loading
    /\ \/ \E id \in Range(Ids(view.models)) : SelectRow(id)
       \/ \E n \in Tokens : view' = [view EXCEPT !.input = n]
       \/ \E n \in Tokens : view' = [view EXCEPT !.output = n]
    /\ UNCHANGED <<calls, backend>>
=============================================================================
