--------------------------- MODULE MCStatusHistory ---------------------------
(* StatusHistory for TLC. *)
EXTENDS StatusHistory
=============================================================================
