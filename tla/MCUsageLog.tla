----------------------------- MODULE MCUsageLog -----------------------------
(***************************************************************************)
(* UsageLog for TLC.  Liveness is checked in the same run, so the records  *)
(* are not declared symmetric.                                             *)
(***************************************************************************)
EXTENDS UsageLog
=============================================================================
