-------------------------- MODULE MCMemoryRateLimit --------------------------
(* MemoryRateLimit for TLC; requests are interchangeable. *)
EXTENDS MemoryRateLimit, TLC

Symmetry == Permutations(Requests)
=============================================================================
