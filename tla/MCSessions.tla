----------------------------- MODULE MCSessions -----------------------------
(* Small instances of Sessions.                                            *)
EXTENDS Sessions, TLC

Symmetry == Permutations(Threads) \cup Permutations(Tokens)
=============================================================================
