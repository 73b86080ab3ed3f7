--------------------------- MODULE MC_RedisLimiter ---------------------------
(* Constants for the model checker's instance of RedisLimiter.              *)
EXTENDS RedisLimiter

CONSTANTS c1, c2, p1, p2

TwoCallers == {c1, c2}
TwoPods == {p1, p2}
Split == [c \in Callers |-> IF c = c2 THEN p2 ELSE p1]
AnyBudget == {NoDeadline, 2}
=============================================================================
