--------------------------- MODULE MC_RedditChain ---------------------------
(* Constants for the model checker's instances of RedditChain.              *)
EXTENDS RedditChain, TLC

CONSTANTS c1, c2, c3, p1, p2, session, browser

TwoCallers == {c1, c2}
ThreeCallers == {c1, c2, c3}
OnePod == {p1}
TwoPods == {p1, p2}
Together == [c \in Callers |-> p1]
Split == [c \in Callers |-> IF c = c2 THEN p2 ELSE p1]
Symmetric == Permutations(Callers)
TwoMethods == <<session, browser>>
=============================================================================
