---------------------------- MODULE MCResilience ----------------------------
(***************************************************************************)
(* Resilience for TLC: the constants' values are in the configuration.  No *)
(* symmetry, because the run checks a liveness property.                   *)
(***************************************************************************)
EXTENDS Resilience
=============================================================================
