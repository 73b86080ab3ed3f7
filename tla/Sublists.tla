------------------------------ MODULE Sublists ------------------------------
(* What is left of a list when some of its elements are taken out.         *)
EXTENDS Integers, Sequences

\* The elements of s that are in T, in order.
Filter(s, T) ==
    LET among[i \in 0..Len(s)] ==
            IF i = 0 THEN <<>>
            ELSE IF s[i] \in T THEN Append(among[i - 1], s[i]) ELSE among[i - 1]
    IN  among[Len(s)]
=============================================================================
