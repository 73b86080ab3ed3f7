-------------------------- MODULE MC_DomainLimiter --------------------------
(* Constants for the model checker's instances of DomainLimiter.            *)
EXTENDS DomainLimiter, TLC

CONSTANTS c1, c2, c3, c4

ThreeCallers == {c1, c2, c3}
FourCallers == {c1, c2, c3, c4}
TwoCallers == {c1, c2}
AnyBudget == {NoDeadline, 1}
Symmetric == Permutations(Callers)
Unhurried == {NoDeadline}
=============================================================================
