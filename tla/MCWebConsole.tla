---------------------------- MODULE MCWebConsole ----------------------------
(***************************************************************************)
(* WebConsole for TLC: one administrator with an account, another user     *)
(* who has yet to register, and two calls in flight.                       *)
(***************************************************************************)
EXTENDS WebConsole
=============================================================================
