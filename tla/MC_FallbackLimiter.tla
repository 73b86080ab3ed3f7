------------------------- MODULE MC_FallbackLimiter -------------------------
(* Constants for the model checker's instances of FallbackLimiter.          *)
EXTENDS FallbackLimiter

CONSTANTS c1, c2, c3

TwoCallers == {c1, c2}
ThreeCallers == {c1, c2, c3}
=============================================================================
