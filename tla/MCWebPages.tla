----------------------------- MODULE MCWebPages ------------------------------
(***************************************************************************)
(* WebPages for TLC: three states of the table of models (empty, one row,  *)
(* two rows of which the dearer one comes first), one valid key and one    *)
(* that is refused, answers of two lines, sections of up to four lines.    *)
(***************************************************************************)
EXTENDS WebPages

Sonnet == [id |-> "sonnet", input |-> 3, output |-> 15]
Flash == [id |-> "flash", input |-> 4, output |-> 1]

MCCatalogues == {<<>>, <<Sonnet>>, <<Sonnet, Flash>>}
=============================================================================
