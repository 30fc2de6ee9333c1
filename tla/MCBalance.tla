------------------------------ MODULE MCBalance ------------------------------
(***************************************************************************)
(* Balance for TLC.  Slots are interchangeable and so are users: every     *)
(* user starts with the same balance and no property names one.            *)
(***************************************************************************)
EXTENDS Balance, TLC

DeltasUpDown == {-1, 1}

Symmetry == Permutations(Slots) \cup Permutations(Users)
=============================================================================
