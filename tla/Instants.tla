------------------------------ MODULE Instants ------------------------------
(***************************************************************************)
(* Instants of a clock and windows of them: a window is a sequence of      *)
(* instants, oldest first, as both limiters keep their admissions.         *)
(***************************************************************************)
EXTENDS Integers, Sequences, FiniteSetsExt

Later(a, b) == IF a >= b THEN a ELSE b

\* evict drops the leading instants at or before the cutoff, and stops at the
\* first one after it.
Evict(window, cutoff) ==
    LET live == {i \in DOMAIN window : window[i] > cutoff}
    IN  IF live = {} THEN <<>> ELSE SubSeq(window, Min(live), Len(window))
=============================================================================
