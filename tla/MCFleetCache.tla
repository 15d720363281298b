---------------------------- MODULE MCFleetCache ----------------------------
(* Small instances of FleetCache.                                          *)
EXTENDS FleetCache, TLC

Symmetry == Permutations(Readers) \cup Permutations(Keys)
=============================================================================
