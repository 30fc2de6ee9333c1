------------------------------ MODULE MCCatalog ------------------------------
(* Catalog for TLC; providers, keys and admin requests are interchangeable. *)
EXTENDS Catalog, TLC

Symmetry ==
    Permutations(Providers) \cup Permutations(ProviderKeys) \cup Permutations(Admins)
=============================================================================
