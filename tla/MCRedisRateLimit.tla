-------------------------- MODULE MCRedisRateLimit --------------------------
(* RedisRateLimit for TLC; requests and keys are interchangeable. *)
EXTENDS RedisRateLimit, TLC

Symmetry == Permutations(Requests) \cup Permutations(Keys)
=============================================================================
