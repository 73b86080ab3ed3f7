---------------------------- MODULE MC_FetchCache ----------------------------
(* Constants for the model checker's instances of FetchCache.               *)
EXTENDS FetchCache, TLC

CONSTANTS c1, c2, c3

ThreeCallers == {c1, c2, c3}
Symmetric == Permutations(Callers)
=============================================================================
