----------------------------- MODULE SeqLemmas -----------------------------
(***************************************************************************)
(* Facts about the operators the models are built from.  Of the windows of *)
(* the limiters: the least element of a set of indices, the suffix of a    *)
(* sequence, a sequence without one of its elements, and what each leaves  *)
(* of its order.  Of the lists of the engines: what is left of a list when *)
(* some of its elements are taken out, and in which order.  Of trees: that *)
(* a function may be defined, and a fact shown, from above to below.       *)
(***************************************************************************)
EXTENDS Instants, Sublists, SequencesExt, SequenceTheorems, WellFoundedInduction, FiniteSetTheorems, TLAPS

\* The instants of s never go back.
Ascending(s) == \A i, j \in 1..Len(s) : i <= j => s[i] <= s[j]

\* A non-empty set of naturals has a least element, which Min returns.
LEMMA MinIsLeast ==
    ASSUME NEW S \in SUBSET Nat, S # {}
    PROVE  /\ Min(S) \in S
           /\ \A y \in S : Min(S) <= y
<1> DEFINE R == OpToRel(<, Nat)
<1>1. \E x \in S : \A y \in S : ~ (<<y, x>> \in R)
    BY NatLessThanWellFounded, WFMin
<1>2. \A x, y \in Nat : <<y, x>> \in R <=> y < x
    BY DEF OpToRel
<1> HIDE DEF R
<1>3. \E x \in S : \A y \in S : x <= y
    <2>1. PICK x \in S : \A y \in S : ~ (<<y, x>> \in R)
        BY <1>1
    <2>2. \A y \in S : x <= y
        <3> TAKE y \in S
        <3>1. x \in Nat /\ y \in Nat /\ ~ (<<y, x>> \in R)
            BY <2>1
        <3>2. ~ (y < x)
            BY <1>2, <3>1
        <3>3. QED BY <3>1, <3>2
    <2>3. QED BY <2>2
<1>4. QED BY <1>3 DEF Min

\* A set of naturals with 0 and the successor of each of its elements is all of them.
LEMMA NaturalsFromZero ==
    ASSUME NEW T \in SUBSET Nat, 0 \in T, \A n \in T : n + 1 \in T
    PROVE  \A n \in Nat : n \in T
<1> DEFINE out == Nat \ T
<1> SUFFICES ASSUME out # {} PROVE FALSE
    OBVIOUS
<1>1. PICK m \in out : \A n \in out : m <= n
    BY MinIsLeast
<1>2. m - 1 \in T
    BY <1>1
<1>3. QED BY <1>1, <1>2

\* N steps, each from any of D to one of D, and what they come to, one after the other.
Steps(D, N) == [1..N -> [D -> D]]
Results(D, N, first, step) ==
    {g \in [0..N -> D] : g[0] = first /\ \A i \in 1..N : g[i] = step[i][g[i - 1]]}

\* They come to something.
LEMMA StepsHaveResults ==
    ASSUME NEW D, NEW N \in Nat, NEW first \in D, NEW step \in Steps(D, N)
    PROVE  \E g : g \in Results(D, N, first, step)
<1> DEFINE T == {n \in Nat : n <= N => \E g : g \in Results(D, n, first, step)}
<1>1. 0 \in T
    <2>1. [i \in 0..0 |-> first] \in Results(D, 0, first, step)
        BY DEF Results
    <2>2. QED BY <2>1
<1>2. ASSUME NEW n \in T PROVE n + 1 \in T
    <2>1. ASSUME n + 1 <= N, NEW g \in Results(D, n, first, step)
          PROVE  \E h : h \in Results(D, n + 1, first, step)
        <3> DEFINE h == [i \in 0..(n + 1) |-> IF i <= n THEN g[i] ELSE step[n + 1][g[n]]]
        <3>1. n + 1 \in 1..N /\ n \in 0..n /\ n \in Nat
            BY <1>2, <2>1
        <3>2. step[n + 1] \in [D -> D] /\ g[n] \in D
            BY <2>1, <3>1 DEF Steps, Results
        <3>3. h \in [0..(n + 1) -> D]
            BY <2>1, <3>1, <3>2 DEF Results
        <3>4. ASSUME NEW i \in 1..(n + 1) PROVE h[i] = step[i][h[i - 1]]
            <4>1. i - 1 \in 0..n /\ h[i - 1] = g[i - 1]
                BY <3>1
            <4>2. CASE i <= n
                BY <2>1, <3>1, <4>1, <4>2 DEF Results
            <4>3. CASE i = n + 1
                BY <3>1, <4>1, <4>3
            <4>4. QED BY <3>1, <4>2, <4>3
        <3>5. h[0] = first
            BY <2>1, <3>1 DEF Results
        <3> HIDE DEF h
        <3>6. h \in Results(D, n + 1, first, step)
            BY <3>3, <3>4, <3>5 DEF Results
        <3>7. QED BY <3>6
    <2>2. QED BY <1>2, <2>1
<1> HIDE DEF T
<1>3. N \in T
    BY <1>1, <1>2, NaturalsFromZero DEF T
<1>4. QED BY <1>3 DEF T

\* The greater of two is one of them, and no less than either.
LEMMA MaxOfTwo ==
    ASSUME NEW a \in Int, NEW b \in Int
    PROVE  Max({a, b}) = IF a >= b THEN a ELSE b
<1>1. \E x \in {a, b} : \A y \in {a, b} : x >= y
    OBVIOUS
<1>2. QED BY <1>1 DEF Max

\* The greatest of three.
LEMMA MaxOfThree ==
    ASSUME NEW a \in Int, NEW b \in Int, NEW c \in Int
    PROVE  Max({a, b, c}) = Max({Max({a, b}), c})
<1>1. Max({a, b}) = IF a >= b THEN a ELSE b
    BY MaxOfTwo
<1>2. Max({Max({a, b}), c}) = IF Max({a, b}) >= c THEN Max({a, b}) ELSE c
    BY <1>1, MaxOfTwo
<1>3. \E x \in {a, b, c} : \A y \in {a, b, c} : x >= y
    OBVIOUS
<1>4. Max({a, b, c}) \in {a, b, c} /\ \A y \in {a, b, c} : Max({a, b, c}) >= y
    BY <1>3 DEF Max
<1>5. QED BY <1>1, <1>2, <1>4

\* The lesser of two.
LEMMA MinOfTwo ==
    ASSUME NEW a \in Int, NEW b \in Int
    PROVE  Min({a, b}) = IF a <= b THEN a ELSE b
<1>1. \E x \in {a, b} : \A y \in {a, b} : x <= y
    OBVIOUS
<1>2. QED BY <1>1 DEF Min

\* A suffix of an integer sequence is one, and an ascending one stays so.
LEMMA SuffixOfSeq ==
    ASSUME NEW s \in Seq(Int), NEW m \in 1..Len(s)
    PROVE  /\ SubSeq(s, m, Len(s)) \in Seq(Int)
           /\ Len(SubSeq(s, m, Len(s))) = Len(s) - m + 1
           /\ \A i \in 1..(Len(s) - m + 1) : SubSeq(s, m, Len(s))[i] = s[m + i - 1]
           /\ Ascending(s) => Ascending(SubSeq(s, m, Len(s)))
<1>1. Len(s) \in Nat /\ \A i \in 1..Len(s) : s[i] \in Int
    BY ElementOfSeq, LenProperties
<1>2. \A i \in m..Len(s) : s[i] \in Int
    BY <1>1
<1>3. /\ SubSeq(s, m, Len(s)) \in Seq(Int)
      /\ Len(SubSeq(s, m, Len(s))) = Len(s) - m + 1
      /\ \A i \in 1..(Len(s) - m + 1) : SubSeq(s, m, Len(s))[i] = s[m + i - 1]
    BY <1>1, <1>2, SubSeqProperties, SMTT(30)
<1>4. Ascending(s) => Ascending(SubSeq(s, m, Len(s)))
    BY <1>1, <1>3, SMTT(30) DEF Ascending
<1>5. QED BY <1>3, <1>4

\* Appending an instant no earlier than the last keeps a sequence ascending.
LEMMA AppendAscending ==
    ASSUME NEW s \in Seq(Int), NEW v \in Int,
           Ascending(s), s # <<>> => Last(s) <= v
    PROVE  Append(s, v) \in Seq(Int) /\ Ascending(Append(s, v))
<1> DEFINE t == Append(s, v)
<1>1. /\ t \in Seq(Int) /\ Len(t) = Len(s) + 1 /\ Len(s) \in Nat
      /\ \A i \in 1..Len(s) : t[i] = s[i] /\ s[i] \in Int
      /\ t[Len(s) + 1] = v
    BY AppendProperties, ElementOfSeq, LenProperties
<1>2. \A i \in 1..Len(s) : s[i] <= v
    <2> SUFFICES ASSUME NEW i \in 1..Len(s) PROVE s[i] <= v
        OBVIOUS
    <2>1. s # <<>> /\ Len(s) \in 1..Len(s)
        BY <1>1, EmptySeq
    <2>2. s[i] <= s[Len(s)] /\ s[Len(s)] \in Int
        BY <1>1, <2>1 DEF Ascending
    <2>3. QED BY <1>1, <2>1, <2>2 DEF Last
<1>3. ASSUME NEW i \in 1..Len(t), NEW j \in 1..Len(t), i <= j
      PROVE  t[i] <= t[j]
    <2>1. CASE j \in 1..Len(s)
        BY <1>1, <1>3, <2>1 DEF Ascending
    <2>2. CASE j = Len(s) + 1
        BY <1>1, <1>2, <1>3, <2>2
    <2>3. QED BY <1>1, <2>1, <2>2
<1>4. QED BY <1>1, <1>3 DEF Ascending

\* RemoveFirst takes one element out, the first there is, and moves those behind it
\* one place up.
LEMMA RemoveFirstIs ==
    ASSUME NEW s \in Seq(Int), NEW v
    PROVE  \/ RemoveFirst(s, v) = s /\ ~ \E i \in 1..Len(s) : s[i] = v
           \/ \E k \in 1..Len(s) :
                /\ s[k] = v
                /\ RemoveFirst(s, v) \in Seq(Int) /\ Len(RemoveFirst(s, v)) = Len(s) - 1
                /\ \A i \in 1..(Len(s) - 1) :
                      RemoveFirst(s, v)[i] = IF i < k THEN s[i] ELSE s[i + 1]
<1>1. Len(s) \in Nat /\ \A i \in 1..Len(s) : s[i] \in Int
    BY ElementOfSeq, LenProperties
<1>2. CASE ~ \E i \in 1..Len(s) : s[i] = v
    BY <1>2 DEF RemoveFirst
<1>3. CASE \E i \in 1..Len(s) : s[i] = v
    <2> DEFINE k == SelectInSeq(s, LAMBDA w : w = v)
               a == SubSeq(s, 1, k - 1)
               b == SubSeq(s, k + 1, Len(s))
    <2>1. k \in 1..Len(s) /\ s[k] = v
        <3> DEFINE I == {i \in 1..Len(s) : s[i] = v}
        <3>1. I # {} /\ I \in SUBSET Nat
            BY <1>3
        <3>2. Min(I) \in I
            BY <3>1, MinIsLeast
        <3>3. k = Min(I)
            BY <3>1 DEF SelectInSeq
        <3>4. QED BY <3>2, <3>3
    <2>2. RemoveFirst(s, v) = a \o b
        BY <1>3 DEF RemoveFirst, RemoveAt
    <2> HIDE DEF k
    <2>3. /\ a \in Seq(Int) /\ Len(a) = k - 1
          /\ \A i \in 1..(k - 1) : a[i] = s[i]
        <3>1. \A i \in 1..(k - 1) : s[i] \in Int
            BY <1>1, <2>1
        <3>2. QED BY <1>1, <2>1, <3>1, SubSeqProperties
    <2>4. /\ b \in Seq(Int) /\ Len(b) = Len(s) - k
          /\ \A i \in 1..(Len(s) - k) : b[i] = s[k + i]
        <3>1. \A i \in (k + 1)..Len(s) : s[i] \in Int
            BY <1>1, <2>1
        <3>2. QED BY <1>1, <2>1, <3>1, SubSeqProperties, SMTT(30)
    <2> HIDE DEF a, b
    <2>5. /\ a \o b \in Seq(Int) /\ Len(a \o b) = Len(s) - 1
          /\ \A i \in 1..(Len(s) - 1) : (a \o b)[i] = IF i < k THEN s[i] ELSE s[i + 1]
        <3>1. /\ a \o b \in Seq(Int) /\ Len(a \o b) = Len(a) + Len(b)
              /\ \A i \in 1..(Len(a) + Len(b)) :
                    (a \o b)[i] = IF i <= Len(a) THEN a[i] ELSE b[i - Len(a)]
            BY <2>3, <2>4, ConcatProperties
        <3>2. Len(a) + Len(b) = Len(s) - 1 /\ Len(a) = k - 1 /\ k \in Nat
            BY <1>1, <2>1, <2>3, <2>4
        <3>3. ASSUME NEW i \in 1..(Len(s) - 1)
              PROVE  (a \o b)[i] = IF i < k THEN s[i] ELSE s[i + 1]
            <4>1. (a \o b)[i] = IF i <= k - 1 THEN a[i] ELSE b[i - (k - 1)]
                BY <3>1, <3>2
            <4>2. CASE i < k
                <5>1. i \in 1..(k - 1)
                    BY <3>2, <4>2
                <5>2. QED BY <2>3, <4>1, <4>2, <5>1
            <4>3. CASE ~(i < k)
                <5>1. /\ i - (k - 1) \in 1..(Len(s) - k) /\ k + (i - (k - 1)) = i + 1
                      /\ ~(i <= k - 1)
                    BY <1>1, <3>2, <4>3
                <5>2. b[i - (k - 1)] = s[k + (i - (k - 1))]
                    BY <2>4, <5>1
                <5>3. QED BY <4>1, <4>3, <5>1, <5>2
            <4>4. QED BY <4>2, <4>3
        <3>4. QED BY <3>1, <3>2, <3>3
    <2>6. QED BY <2>1, <2>2, <2>5
<1>4. QED BY <1>2, <1>3

\* Taking one element out of an ascending integer sequence leaves one.
LEMMA RemoveFirstOfSeq ==
    ASSUME NEW s \in Seq(Int), NEW v
    PROVE  /\ RemoveFirst(s, v) \in Seq(Int)
           /\ Ascending(s) => Ascending(RemoveFirst(s, v))
<1> DEFINE r == RemoveFirst(s, v)
<1>1. Len(s) \in Nat /\ \A i \in 1..Len(s) : s[i] \in Int
    BY ElementOfSeq, LenProperties
<1> HIDE DEF r
<1>2. CASE r = s
    BY <1>2 DEF r
<1>3. ASSUME NEW k \in 1..Len(s), r \in Seq(Int), Len(r) = Len(s) - 1,
             \A i \in 1..(Len(s) - 1) : r[i] = IF i < k THEN s[i] ELSE s[i + 1]
      PROVE  r \in Seq(Int) /\ (Ascending(s) => Ascending(r))
    <2> SUFFICES ASSUME Ascending(s), NEW i \in 1..Len(r), NEW j \in 1..Len(r), i <= j
                 PROVE  r[i] <= r[j]
        BY <1>3 DEF Ascending
    <2> DEFINE x == IF i < k THEN i ELSE i + 1
               y == IF j < k THEN j ELSE j + 1
    <2>1. x \in 1..Len(s) /\ y \in 1..Len(s) /\ x <= y
        BY <1>1, <1>3, SMTT(30)
    <2>2. r[i] = s[x] /\ r[j] = s[y]
        BY <1>3
    <2> HIDE DEF x, y
    <2>3. QED BY <2>1, <2>2 DEF Ascending
<1>4. r \in Seq(Int) /\ (Ascending(s) => Ascending(r))
    BY <1>2, <1>3, RemoveFirstIs DEF r
<1>5. QED BY <1>4 DEF r

\* Later is an upper bound of both.
LEMMA LaterIsLater ==
    ASSUME NEW a \in Int, NEW b \in Int
    PROVE  Later(a, b) \in Int /\ Later(a, b) >= a /\ Later(a, b) >= b
BY DEF Later

\* Eviction keeps a window's order, and leaves nothing up to the cutoff at the
\* end of a window in order.
LEMMA EvictOfSeq ==
    ASSUME NEW s \in Seq(Int), NEW cutoff \in Int
    PROVE  /\ Evict(s, cutoff) \in Seq(Int)
           /\ Ascending(s) => /\ Ascending(Evict(s, cutoff))
                              /\ Evict(s, cutoff) # <<>> => Last(Evict(s, cutoff)) > cutoff
<1> DEFINE live == {i \in DOMAIN s : s[i] > cutoff}
<1>1. /\ Len(s) \in Nat /\ DOMAIN s = 1..Len(s)
      /\ \A i \in 1..Len(s) : s[i] \in Int
    BY ElementOfSeq, LenProperties
<1>2. CASE live = {}
    <2>1. Evict(s, cutoff) = <<>>
        BY <1>2 DEF Evict
    <2>2. <<>> \in Seq(Int) /\ Ascending(<<>>)
        <3>1. <<>> \in Seq(Int) /\ 1..Len(<<>>) = {}
            BY EmptySeq
        <3>2. QED BY <3>1 DEF Ascending
    <2>3. QED BY <2>1, <2>2
<1>3. CASE live # {}
    <2> DEFINE m == Min(live)
               t == SubSeq(s, m, Len(s))
    <2>1. m \in live
        <3>1. live \in SUBSET Nat
            BY <1>1
        <3> HIDE DEF live
        <3>2. QED BY <1>3, <3>1, MinIsLeast
    <2>2. Evict(s, cutoff) = t
        BY <1>3 DEF Evict
    <2>3. m \in 1..Len(s) /\ s[m] > cutoff
        BY <1>1, <2>1
    <2> HIDE DEF m
    <2>4. /\ t \in Seq(Int) /\ Len(t) = Len(s) - m + 1
          /\ \A i \in 1..(Len(s) - m + 1) : t[i] = s[m + i - 1]
          /\ Ascending(s) => Ascending(t)
        BY <2>3, SuffixOfSeq
    <2> HIDE DEF t
    <2>5. Ascending(s) => Last(t) > cutoff
        <3>1. Last(t) = s[Len(s)]
            <4>1. Len(s) - m + 1 \in 1..(Len(s) - m + 1) /\ m + (Len(s) - m + 1) - 1 = Len(s)
                BY <1>1, <2>3
            <4>2. t[Len(s) - m + 1] = s[m + (Len(s) - m + 1) - 1]
                BY <2>4, <4>1
            <4>3. QED BY <2>4, <4>1, <4>2 DEF Last
        <3>2. QED BY <1>1, <2>3, <3>1 DEF Ascending
    <2>6. QED BY <2>2, <2>4, <2>5
<1>4. QED BY <1>2, <1>3

\* Eviction keeps the end of a window of natural instants, drops nothing after the
\* cutoff, and stops at the first instant that is.
LEMMA EvictKeepsEnd ==
    ASSUME NEW s \in Seq(Nat), NEW cutoff \in Int
    PROVE  /\ Evict(s, cutoff) \in Seq(Nat) /\ Len(Evict(s, cutoff)) \in 0..Len(s)
           /\ \A i \in 1..Len(Evict(s, cutoff)) :
                 Evict(s, cutoff)[i] = s[Len(s) - Len(Evict(s, cutoff)) + i]
           /\ \A i \in 1..(Len(s) - Len(Evict(s, cutoff))) : s[i] <= cutoff
           /\ Len(Evict(s, cutoff)) > 0 => Evict(s, cutoff)[1] > cutoff
<1> DEFINE live == {i \in DOMAIN s : s[i] > cutoff}
<1>1. Len(s) \in Nat /\ DOMAIN s = 1..Len(s) /\ \A i \in 1..Len(s) : s[i] \in Nat
    BY ElementOfSeq, LenProperties
<1>2. CASE live = {}
    <2>1. Evict(s, cutoff) = <<>>
        BY <1>2 DEF Evict
    <2>2. <<>> \in Seq(Nat) /\ Len(<<>>) = 0
        BY EmptySeq
    <2>3. \A i \in 1..Len(s) : s[i] <= cutoff
        BY <1>1, <1>2
    <2>4. QED BY <1>1, <2>1, <2>2, <2>3
<1>3. CASE live # {}
    <2> DEFINE m == Min(live)
               t == SubSeq(s, m, Len(s))
    <2>1. m \in live /\ \A i \in live : m <= i
        <3>1. live \in SUBSET Nat
            BY <1>1
        <3> HIDE DEF live
        <3>2. QED BY <1>3, <3>1, MinIsLeast
    <2>2. Evict(s, cutoff) = t
        BY <1>3 DEF Evict
    <2>3. m \in 1..Len(s) /\ s[m] > cutoff
        BY <1>1, <2>1
    <2> HIDE DEF m
    <2>4. \A i \in 1..(m - 1) : s[i] <= cutoff
        <3> SUFFICES ASSUME NEW i \in 1..(m - 1) PROVE s[i] <= cutoff
            OBVIOUS
        <3>1. i \in 1..Len(s) /\ s[i] \in Nat /\ ~(m <= i)
            BY <1>1, <2>3
        <3>2. i \notin live
            BY <2>1, <3>1
        <3>3. QED BY <1>1, <3>1, <3>2
    <2> HIDE DEF live
    <2>5. /\ t \in Seq(Nat) /\ Len(t) = Len(s) - m + 1
          /\ \A i \in 1..(Len(s) - m + 1) : t[i] = s[m + i - 1]
        BY <1>1, <2>3, SubSeqProperties, SMTT(30)
    <2> HIDE DEF t
    <2>6. \A i \in 1..Len(t) : t[i] = s[Len(s) - Len(t) + i]
        BY <1>1, <2>3, <2>5
    <2>7. Len(s) - Len(t) = m - 1 /\ Len(t) \in 0..Len(s)
        BY <1>1, <2>3, <2>5
    <2>8. t[1] > cutoff
        <3>1. 1 \in 1..(Len(s) - m + 1) /\ m + 1 - 1 = m
            BY <1>1, <2>3
        <3>2. t[1] = s[m + 1 - 1]
            BY <2>5, <3>1
        <3>3. QED BY <2>3, <3>1, <3>2
    <2>9. QED BY <2>2, <2>4, <2>5, <2>6, <2>7, <2>8
<1>4. QED BY <1>2, <1>3

-----------------------------------------------------------------------------
(* How often the values of a set occur in a sequence.                      *)

\* The places at which s has a value of V.
Hits(s, V) == {i \in DOMAIN s : s[i] \in V}

\* They are finitely many, at most as many as s is long.
LEMMA HitsFinite ==
    ASSUME NEW s \in Seq(Int), NEW V
    PROVE  /\ Hits(s, V) \in SUBSET (1..Len(s)) /\ IsFiniteSet(Hits(s, V))
           /\ Cardinality(Hits(s, V)) \in Nat /\ Cardinality(Hits(s, V)) <= Len(s)
<1>1. Hits(s, V) \in SUBSET (1..Len(s)) /\ Len(s) \in Nat
    BY LenProperties DEF Hits
<1>2. IsFiniteSet(1..Len(s)) /\ Cardinality(1..Len(s)) = Len(s)
    <2> DEFINE n == Len(s)
    <2>1. n \in Nat
        BY <1>1
    <2> HIDE DEF n
    <2>2. IsFiniteSet(1..n) /\ Cardinality(1..n) = IF 1 > n THEN 0 ELSE n - 1 + 1
        BY <2>1, FS_Interval
    <2>3. (IF 1 > n THEN 0 ELSE n - 1 + 1) = n
        BY <2>1
    <2>4. QED BY <2>2, <2>3 DEF n
<1>3. IsFiniteSet(Hits(s, V)) /\ Cardinality(Hits(s, V)) <= Len(s)
    BY <1>1, <1>2, FS_Subset
<1>4. QED BY <1>1, <1>3, FS_CardinalityType

\* What V has more often than W it has in more places.
LEMMA HitsMonotone ==
    ASSUME NEW s \in Seq(Int), NEW V, NEW W, \A i \in 1..Len(s) : s[i] \in V => s[i] \in W
    PROVE  Cardinality(Hits(s, V)) <= Cardinality(Hits(s, W))
<1>1. Hits(s, V) \in SUBSET Hits(s, W)
    BY LenProperties DEF Hits
<1>2. QED BY <1>1, HitsFinite, FS_Subset

\* An element that is appended is one occurrence more.
LEMMA HitsOfAppend ==
    ASSUME NEW s \in Seq(Int), NEW v \in Int, NEW V
    PROVE  Cardinality(Hits(Append(s, v), V)) =
             Cardinality(Hits(s, V)) + IF v \in V THEN 1 ELSE 0
<1> DEFINE n == Len(s)
<1>1. /\ n \in Nat /\ DOMAIN s = 1..n /\ DOMAIN Append(s, v) = 1..(n + 1)
      /\ \A i \in 1..n : Append(s, v)[i] = s[i]
      /\ Append(s, v)[n + 1] = v
    BY AppendProperties, LenProperties
<1>2. n + 1 \notin Hits(s, V)
    BY <1>1 DEF Hits
<1>3. CASE v \in V
    <2>1. Hits(Append(s, v), V) = Hits(s, V) \cup {n + 1}
        BY <1>1, <1>3 DEF Hits
    <2>2. QED BY <1>2, <1>3, <2>1, HitsFinite, FS_AddElement
<1>4. CASE v \notin V
    <2>1. Hits(Append(s, v), V) = Hits(s, V)
        BY <1>1, <1>4 DEF Hits
    <2>2. QED BY <1>4, <2>1, HitsFinite
<1>5. QED BY <1>3, <1>4

\* Without its leading elements a sequence has no more occurrences, and as many of
\* the values they do not have.
LEMMA HitsOfSuffix ==
    ASSUME NEW s \in Seq(Int), NEW m \in 1..Len(s), NEW V
    PROVE  /\ Cardinality(Hits(SubSeq(s, m, Len(s)), V)) <= Cardinality(Hits(s, V))
           /\ (\A i \in 1..(m - 1) : s[i] \notin V) =>
                Cardinality(Hits(SubSeq(s, m, Len(s)), V)) = Cardinality(Hits(s, V))
<1> DEFINE t == SubSeq(s, m, Len(s))
           f == [i \in Hits(t, V) |-> m + i - 1]
<1>1. /\ Len(s) \in Nat /\ DOMAIN s = 1..Len(s)
      /\ t \in Seq(Int) /\ DOMAIN t = 1..(Len(s) - m + 1)
      /\ \A i \in 1..(Len(s) - m + 1) : t[i] = s[m + i - 1]
    BY SuffixOfSeq, LenProperties
<1> HIDE DEF t
<1>2. \A i \in Hits(t, V) : i \in Nat /\ m + i - 1 \in Hits(s, V)
    <2> SUFFICES ASSUME NEW i \in Hits(t, V) PROVE i \in Nat /\ m + i - 1 \in Hits(s, V)
        OBVIOUS
    <2>1. i \in 1..(Len(s) - m + 1) /\ t[i] \in V
        BY <1>1 DEF Hits
    <2>2. i \in Nat /\ m + i - 1 \in 1..Len(s)
        BY <1>1, <2>1
    <2>3. s[m + i - 1] \in V
        BY <1>1, <2>1
    <2>4. QED BY <1>1, <2>2, <2>3 DEF Hits
<1>3. f \in Injection(Hits(t, V), Hits(s, V))
    BY <1>2 DEF Injection, IsInjective
<1>4. ASSUME \A i \in 1..(m - 1) : s[i] \notin V
      PROVE  f \in Surjection(Hits(t, V), Hits(s, V))
    <2>1. ASSUME NEW k \in Hits(s, V) PROVE \E i \in Hits(t, V) : f[i] = k
        <3>1. k \in m..Len(s)
            BY <1>1, <1>4 DEF Hits
        <3>2. k - m + 1 \in 1..(Len(s) - m + 1) /\ m + (k - m + 1) - 1 = k
            BY <1>1, <3>1
        <3>3. k - m + 1 \in Hits(t, V)
            BY <1>1, <3>2 DEF Hits
        <3>4. QED BY <3>2, <3>3
    <2>2. QED BY <1>3, <2>1 DEF Surjection, Injection
<1> HIDE DEF f
<1>5. IsFiniteSet(Hits(s, V))
    BY HitsFinite
<1>6. QED BY <1>3, <1>4, <1>5, FS_Injection DEF t

\* Eviction adds no occurrence, and takes none of a value after the cutoff.
LEMMA HitsOfEvict ==
    ASSUME NEW s \in Seq(Int), NEW cutoff \in Int, NEW V
    PROVE  /\ Cardinality(Hits(Evict(s, cutoff), V)) <= Cardinality(Hits(s, V))
           /\ (\A v \in V : v \in Int /\ v > cutoff) =>
                Cardinality(Hits(Evict(s, cutoff), V)) = Cardinality(Hits(s, V))
<1> DEFINE live == {i \in DOMAIN s : s[i] > cutoff}
<1>1. Len(s) \in Nat /\ DOMAIN s = 1..Len(s) /\ \A i \in 1..Len(s) : s[i] \in Int
    BY ElementOfSeq, LenProperties
<1>2. CASE live = {}
    <2>1. Evict(s, cutoff) = <<>> /\ DOMAIN <<>> = {}
        BY <1>2, EmptySeq, LenProperties DEF Evict
    <2>2. Hits(Evict(s, cutoff), V) = {}
        BY <2>1 DEF Hits
    <2>3. (\A v \in V : v \in Int /\ v > cutoff) => Hits(s, V) = {}
        BY <1>1, <1>2 DEF Hits
    <2>4. QED BY <2>2, <2>3, HitsFinite, FS_EmptySet
<1>3. CASE live # {}
    <2> DEFINE m == Min(live)
    <2>1. m \in live /\ \A i \in live : m <= i
        <3>1. live \in SUBSET Nat
            BY <1>1
        <3> HIDE DEF live
        <3>2. QED BY <1>3, <3>1, MinIsLeast
    <2>2. Evict(s, cutoff) = SubSeq(s, m, Len(s))
        BY <1>3 DEF Evict
    <2> HIDE DEF m
    <2>3. m \in 1..Len(s)
        BY <1>1, <2>1
    <2>4. ASSUME \A v \in V : v \in Int /\ v > cutoff
          PROVE  \A i \in 1..(m - 1) : s[i] \notin V
        <3> SUFFICES ASSUME NEW i \in 1..(m - 1) PROVE s[i] \notin V
            OBVIOUS
        <3>1. i \in 1..Len(s) /\ ~(m <= i)
            BY <1>1, <2>3
        <3>2. i \notin live
            BY <2>1, <3>1
        <3>3. QED BY <1>1, <2>4, <3>1, <3>2
    <2>5. QED BY <2>2, <2>3, <2>4, HitsOfSuffix
<1>4. QED BY <1>2, <1>3

\* RemoveFirst takes one occurrence of its value, if there is one.
LEMMA HitsOfRemove ==
    ASSUME NEW s \in Seq(Int), NEW v, NEW V
    PROVE  Cardinality(Hits(RemoveFirst(s, v), V)) =
             Cardinality(Hits(s, V)) - IF v \in V /\ Hits(s, {v}) # {} THEN 1 ELSE 0
<1> DEFINE r == RemoveFirst(s, v)
<1>1. Len(s) \in Nat /\ DOMAIN s = 1..Len(s) /\ \A i \in 1..Len(s) : s[i] \in Int
    BY ElementOfSeq, LenProperties
<1> HIDE DEF r
<1>2. CASE r = s /\ ~ \E i \in 1..Len(s) : s[i] = v
    <2>1. Hits(s, {v}) = {}
        BY <1>1, <1>2 DEF Hits
    <2>2. Cardinality(Hits(s, V)) \in Nat
        BY HitsFinite
    <2>3. RemoveFirst(s, v) = s
        BY <1>2 DEF r
    <2>4. (IF v \in V /\ Hits(s, {v}) # {} THEN 1 ELSE 0) = 0
        BY <2>1
    <2>5. Cardinality(Hits(s, V)) - 0 = Cardinality(Hits(s, V))
        BY <2>2
    <2>6. QED BY <2>3, <2>4, <2>5
<1>3. ASSUME NEW k \in 1..Len(s), s[k] = v, r \in Seq(Int), Len(r) = Len(s) - 1,
             \A i \in 1..(Len(s) - 1) : r[i] = IF i < k THEN s[i] ELSE s[i + 1]
      PROVE  Cardinality(Hits(r, V)) =
               Cardinality(Hits(s, V)) - IF v \in V /\ Hits(s, {v}) # {} THEN 1 ELSE 0
    <2> DEFINE f == [i \in Hits(r, V) |-> IF i < k THEN i ELSE i + 1]
               T == Hits(s, V) \ {k}
    <2>1. DOMAIN r = 1..(Len(s) - 1)
        BY <1>3, LenProperties
    <2>2. \A i \in Hits(r, V) : i \in Nat /\ (IF i < k THEN i ELSE i + 1) \in T
        <3> SUFFICES ASSUME NEW i \in Hits(r, V)
                     PROVE  i \in Nat /\ (IF i < k THEN i ELSE i + 1) \in T
            OBVIOUS
        <3>1. i \in 1..(Len(s) - 1) /\ r[i] \in V
            BY <2>1 DEF Hits
        <3> DEFINE x == IF i < k THEN i ELSE i + 1
        <3>2. i \in Nat /\ x \in 1..Len(s) /\ x # k
            BY <1>1, <3>1
        <3>3. s[x] \in V
            BY <1>3, <3>1
        <3> HIDE DEF x
        <3>4. i \in Nat /\ x \in T
            BY <1>1, <3>2, <3>3 DEF Hits
        <3>5. QED BY <3>4 DEF x
    <2>3. f \in Injection(Hits(r, V), T)
        <3> HIDE DEF T
        <3>1. f \in [Hits(r, V) -> T]
            BY <2>2
        <3>2. \A a, b \in Hits(r, V) : f[a] = f[b] => a = b
            BY <1>1, <2>2
        <3>3. QED BY <3>1, <3>2 DEF Injection, IsInjective
    <2>4. ASSUME NEW j \in T PROVE \E i \in Hits(r, V) : f[i] = j
        <3>1. j \in 1..Len(s) /\ j # k /\ s[j] \in V
            BY <1>1 DEF Hits
        <3>2. CASE j < k
            <4>1. j \in 1..(Len(s) - 1)
                BY <1>1, <3>1, <3>2
            <4>2. j \in Hits(r, V)
                BY <1>3, <2>1, <3>1, <3>2, <4>1 DEF Hits
            <4>3. QED BY <3>2, <4>2
        <3>3. CASE ~(j < k)
            <4>1. j - 1 \in 1..(Len(s) - 1) /\ ~(j - 1 < k) /\ j - 1 + 1 = j
                BY <1>1, <3>1, <3>3
            <4>2. j - 1 \in Hits(r, V)
                BY <1>3, <2>1, <3>1, <4>1 DEF Hits
            <4>3. QED BY <4>1, <4>2
        <3>4. QED BY <3>2, <3>3
    <2>5. f \in Surjection(Hits(r, V), T)
        <3> HIDE DEF T
        <3>1. QED BY <2>3, <2>4 DEF Injection, Surjection
    <2> HIDE DEF f
    <2>6. IsFiniteSet(Hits(s, V)) /\ IsFiniteSet(T)
          /\ Cardinality(T) = Cardinality(Hits(s, V)) - IF k \in Hits(s, V) THEN 1 ELSE 0
        BY HitsFinite, FS_RemoveElement
    <2> HIDE DEF T
    <2>7. Cardinality(Hits(r, V)) = Cardinality(T)
        BY <2>3, <2>5, <2>6, FS_Injection
    <2>8. k \in Hits(s, {v}) /\ (k \in Hits(s, V) <=> v \in V)
        BY <1>1, <1>3 DEF Hits
    <2>9. QED BY <2>6, <2>7, <2>8
<1>4. QED BY <1>2, <1>3, RemoveFirstIs DEF r

\* In an ascending sequence fewer than q of the values after the one q places back
\* occur, and at least q of those from it on.
LEMMA HitsOfAscending ==
    ASSUME NEW s \in Seq(Int), Ascending(s), NEW q \in 1..Len(s), NEW V
    PROVE  /\ (\A v \in V : v \in Int /\ v > s[Len(s) - q + 1]) => Cardinality(Hits(s, V)) <= q - 1
           /\ (\A v \in Int : v >= s[Len(s) - q + 1] => v \in V) => Cardinality(Hits(s, V)) >= q
<1> DEFINE n == Len(s)
           k == n - q + 1
<1>1. /\ n \in Nat /\ DOMAIN s = 1..n /\ q \in Nat /\ q >= 1 /\ k \in 1..n
      /\ \A i \in 1..n : s[i] \in Int
    BY ElementOfSeq, LenProperties
<1>2. \A i \in 1..n : /\ i <= k => s[i] <= s[k]
                      /\ i >= k => s[i] >= s[k]
    BY <1>1 DEF Ascending
<1>3. /\ IsFiniteSet((k + 1)..n) /\ Cardinality((k + 1)..n) = q - 1
      /\ IsFiniteSet(k..n) /\ Cardinality(k..n) = q
    <2>1. k \in Int /\ k + 1 \in Int /\ n \in Int
        BY <1>1
    <2>2. /\ (IF k + 1 > n THEN 0 ELSE n - (k + 1) + 1) = q - 1
          /\ (IF k > n THEN 0 ELSE n - k + 1) = q
        BY <1>1
    <2> HIDE DEF k, n
    <2>3. QED BY <2>1, <2>2, FS_Interval
<1> HIDE DEF k
<1>4. ASSUME \A v \in V : v \in Int /\ v > s[k]
      PROVE  Cardinality(Hits(s, V)) <= q - 1
    <2>1. Hits(s, V) \in SUBSET ((k + 1)..n)
        <3> SUFFICES ASSUME NEW i \in Hits(s, V) PROVE i \in (k + 1)..n
            OBVIOUS
        <3>1. i \in 1..n /\ s[i] \in V
            BY <1>1 DEF Hits
        <3>2. ~(i <= k)
            BY <1>1, <1>2, <1>4, <3>1
        <3>3. QED BY <1>1, <3>1, <3>2
    <2> DEFINE above == (k + 1)..n
    <2>2. IsFiniteSet(above) /\ Cardinality(above) = q - 1 /\ Hits(s, V) \in SUBSET above
        BY <1>3, <2>1
    <2> HIDE DEF above
    <2>3. Cardinality(Hits(s, V)) <= Cardinality(above)
        BY <2>2, FS_Subset
    <2>4. QED BY <2>2, <2>3
<1>5. ASSUME \A v \in Int : v >= s[k] => v \in V
      PROVE  Cardinality(Hits(s, V)) >= q
    <2>1. k..n \in SUBSET Hits(s, V)
        BY <1>1, <1>2, <1>5 DEF Hits
    <2>2. Cardinality(k..n) <= Cardinality(Hits(s, V))
        BY <2>1, HitsFinite, FS_Subset
    <2>3. QED BY <1>1, <1>3, <2>2, HitsFinite
<1>6. QED BY <1>4, <1>5 DEF k, n

-----------------------------------------------------------------------------
(* Lists and what is left of them.                                         *)

\* What Filter goes through, place by place.
Sifted(s, T, D) ==
    {f \in [0..Len(s) -> Seq(D)] :
        /\ f[0] = <<>>
        /\ \A i \in 1..Len(s) : f[i] = IF s[i] \in T THEN Append(f[i - 1], s[i]) ELSE f[i - 1]}

LEMMA FilterSifts ==
    ASSUME NEW D, NEW s \in Seq(D), NEW T
    PROVE  \E f \in Sifted(s, T, D) : Filter(s, T) = f[Len(s)]
<1> DEFINE N == Len(s)
           step == [i \in 1..N |-> [q \in Seq(D) |-> IF s[i] \in T THEN Append(q, s[i]) ELSE q]]
<1>1. N \in Nat /\ \A i \in 1..N : s[i] \in D
    BY ElementOfSeq, LenProperties
<1>2. step \in Steps(Seq(D), N)
    <2>1. ASSUME NEW i \in 1..N, NEW q \in Seq(D) PROVE Append(q, s[i]) \in Seq(D)
        BY <1>1, AppendProperties
    <2>2. QED BY <2>1 DEF Steps
<1>3. <<>> \in Seq(D)
    OBVIOUS
<1> DEFINE body(h) == [i \in 0..Len(s) |-> IF i = 0 THEN <<>>
                       ELSE IF s[i] \in T THEN Append(h[i - 1], s[i]) ELSE h[i - 1]]
           f == CHOOSE h : h = body(h)
<1>5. Filter(s, T) = f[Len(s)]
    BY DEF Filter
<1>6. \E g \in Sifted(s, T, D) : g = body(g)
    <2>1. PICK g : g \in Results(Seq(D), N, <<>>, step)
        <3> HIDE DEF step, N
        <3>1. QED BY <1>1, <1>2, <1>3, StepsHaveResults
    <2>2. g \in [0..N -> Seq(D)] /\ g[0] = <<>>
        BY <2>1 DEF Results
    <2>3. ASSUME NEW i \in 1..N
          PROVE  g[i] = IF s[i] \in T THEN Append(g[i - 1], s[i]) ELSE g[i - 1]
        <3>1. i - 1 \in 0..N
            BY <1>1
        <3>4. g[i] = step[i][g[i - 1]]
            <4> HIDE DEF step
            <4>1. QED BY <2>1 DEF Results
        <3>2. g[i - 1] \in Seq(D)
            BY <2>2, <3>1
        <3>3. QED BY <3>2, <3>4
    <2>4. g = body(g)
        <3>1. ASSUME NEW i \in 0..N PROVE g[i] = body(g)[i]
            <4>1. CASE i = 0
                BY <1>1, <2>2, <4>1
            <4>2. CASE i # 0
                <5>1. i \in 1..N
                    BY <1>1, <4>2
                <5>2. body(g)[i] = IF s[i] \in T THEN Append(g[i - 1], s[i]) ELSE g[i - 1]
                    BY <4>2
                <5>3. QED BY <2>3, <5>1, <5>2
            <4>3. QED BY <4>1, <4>2
        <3>2. QED BY <2>2, <3>1
    <2>5. QED BY <2>2, <2>3, <2>4 DEF Sifted
<1>7. f = body(f)
    <2> HIDE DEF body
    <2>1. QED BY <1>6
<1> HIDE DEF f
<1>8. f \in [0..N -> Seq(D)]
    <2> DEFINE T0 == {n \in Nat : n <= N => f[n] \in Seq(D)}
    <2>1. \A n \in 0..N : f[n] = IF n = 0 THEN <<>>
                       ELSE IF s[n] \in T THEN Append(f[n - 1], s[n]) ELSE f[n - 1]
        BY <1>7
    <2>2. 0 \in T0
        <3>1. 0 \in 0..N /\ f[0] = <<>>
            BY <1>1, <2>1
        <3>2. QED BY <1>3, <3>1
    <2>3. ASSUME NEW n \in T0 PROVE n + 1 \in T0
        <3>1. ASSUME n + 1 <= N PROVE f[n + 1] \in Seq(D)
            <4>1. f[n] \in Seq(D) /\ n + 1 \in 1..N /\ n \in Nat
                BY <1>1, <2>3, <3>1
            <4>2. f[n + 1] = IF s[n + 1] \in T THEN Append(f[n], s[n + 1]) ELSE f[n]
                BY <2>1, <4>1
            <4>3. QED BY <1>1, <4>1, <4>2, AppendProperties
        <3>2. QED BY <2>3, <3>1
    <2> HIDE DEF T0
    <2>4. \A n \in Nat : n \in T0
        BY <2>2, <2>3, NaturalsFromZero DEF T0
    <2>5. QED BY <1>7, <2>4 DEF T0
<1>9. f \in Sifted(s, T, D)
    <2>1. ASSUME NEW i \in 1..N
          PROVE  f[i] = IF s[i] \in T THEN Append(f[i - 1], s[i]) ELSE f[i - 1]
        <3>1. i \in 0..N /\ i # 0
            BY <1>1
        <3>2. f[i] = body(f)[i]
            BY <1>7
        <3>3. QED BY <3>1, <3>2
    <2>2. f[0] = <<>>
        BY <1>1, <1>7
    <2>3. QED BY <1>8, <2>1, <2>2 DEF Sifted
<1>10. QED BY <1>5, <1>9

\* What has been kept of the places up to n.
Sofar(s, T, D, q, n) ==
    /\ q \in Seq(D) /\ Range(q) = {s[i] : i \in 1..n} \cap T
    /\ IsInjective(s) => IsInjective(q)

LEMMA RangeIs == ASSUME NEW D, NEW s \in Seq(D) PROVE Range(s) = {s[i] : i \in 1..Len(s)} /\ Range(s) \subseteq D
<1>1. DOMAIN s = 1..Len(s) /\ \A i \in 1..Len(s) : s[i] \in D
    BY ElementOfSeq, LenProperties
<1>2. QED BY <1>1 DEF Range

LEMMA AppendRange ==
    ASSUME NEW D, NEW s \in Seq(D), NEW e \in D
    PROVE  /\ Append(s, e) \in Seq(D) /\ Range(Append(s, e)) = Range(s) \cup {e}
           /\ (IsInjective(s) /\ e \notin Range(s)) => IsInjective(Append(s, e))
<1> DEFINE n == Len(s)
           t == Append(s, e)
<1>1. /\ n \in Nat /\ DOMAIN s = 1..n /\ t \in Seq(D) /\ DOMAIN t = 1..(n + 1)
      /\ \A i \in 1..n : t[i] = s[i]
      /\ t[n + 1] = e
    BY AppendProperties, LenProperties
<1> HIDE DEF t
<1>2. 1..(n + 1) = (1..n) \cup {n + 1}
    BY <1>1
<1>3. Range(t) = Range(s) \cup {e}
    BY <1>1, <1>2 DEF Range
<1>4. ASSUME IsInjective(s), e \notin Range(s), NEW i \in DOMAIN t, NEW j \in DOMAIN t, t[i] = t[j]
      PROVE  i = j
    BY <1>1, <1>2, <1>4 DEF Range, IsInjective
<1>5. QED BY <1>1, <1>3, <1>4 DEF t, IsInjective

\* Filter returns what is in T, an element twice only if it was there twice.
LEMMA FilterIs ==
    ASSUME NEW D, NEW s \in Seq(D), NEW T
    PROVE  /\ Filter(s, T) \in Seq(D) /\ Range(Filter(s, T)) = Range(s) \cap T
           /\ IsInjective(s) => IsInjective(Filter(s, T))
<1>1. PICK f \in Sifted(s, T, D) : Filter(s, T) = f[Len(s)]
    BY FilterSifts
<1> DEFINE N == Len(s)
           S == {n \in Nat : n <= N => Sofar(s, T, D, f[n], n)}
<1>2. N \in Nat /\ DOMAIN s = 1..N /\ \A i \in 1..N : s[i] \in D
    BY ElementOfSeq, LenProperties
<1>3. 0 \in S
    <2>1. f[0] = <<>>
        BY DEF Sifted
    <2>2. Sofar(s, T, D, <<>>, 0)
        BY DEF Sofar, Range, IsInjective
    <2>3. QED BY <2>1, <2>2
<1>4. ASSUME NEW n \in S PROVE n + 1 \in S
    <2>1. ASSUME n + 1 <= N PROVE Sofar(s, T, D, f[n + 1], n + 1)
        <3> DEFINE q == f[n]
                   e == s[n + 1]
        <3>1. n \in Nat /\ n + 1 \in 1..N /\ n + 1 - 1 = n /\ Sofar(s, T, D, q, n)
            BY <1>2, <1>4, <2>1
        <3>2. f[n + 1] = IF e \in T THEN Append(q, e) ELSE q
            BY <3>1 DEF Sifted
        <3>3. 1..(n + 1) = (1..n) \cup {n + 1}
            BY <3>1
        <3>4. {s[i] : i \in 1..(n + 1)} = {s[i] : i \in 1..n} \cup {e}
            BY <3>3
        <3>5. e \in D
            BY <1>2, <3>1
        <3> HIDE DEF q
        <3>6. CASE e \in T
            <4>1. IsInjective(s) => e \notin Range(q)
                <5>1. IsInjective(s) => e \notin {s[i] : i \in 1..n}
                    <6> SUFFICES ASSUME IsInjective(s), NEW i \in 1..n, s[i] = e PROVE FALSE
                        OBVIOUS
                    <6>1. i \in 1..N /\ n + 1 \in 1..N /\ i # n + 1
                        BY <1>2, <3>1
                    <6>2. QED BY <1>2, <6>1 DEF IsInjective
                <5>2. QED BY <3>1, <5>1 DEF Sofar
            <4> HIDE DEF e
            <4>2. Append(q, e) \in Seq(D) /\ Range(Append(q, e)) = Range(q) \cup {e}
                  /\ ((IsInjective(q) /\ e \notin Range(q)) => IsInjective(Append(q, e)))
                BY <3>1, <3>5, AppendRange DEF Sofar
            <4>3. Range(Append(q, e)) = {s[i] : i \in 1..(n + 1)} \cap T
                BY <3>1, <3>4, <3>6, <4>2 DEF Sofar
            <4>4. QED BY <3>1, <3>2, <3>6, <4>1, <4>2, <4>3 DEF Sofar
        <3>7. CASE e \notin T
            <4>1. {s[i] : i \in 1..(n + 1)} \cap T = {s[i] : i \in 1..n} \cap T
                BY <3>4, <3>7
            <4>2. QED BY <3>1, <3>2, <3>7, <4>1 DEF Sofar
        <3>8. QED BY <3>6, <3>7
    <2>2. QED BY <1>4, <2>1
<1> HIDE DEF S
<1>5. \A n \in Nat : n \in S
    BY <1>3, <1>4, NaturalsFromZero DEF S
<1>6. Sofar(s, T, D, f[N], N)
    BY <1>2, <1>5 DEF S
<1>7. QED BY <1>1, <1>6, RangeIs DEF Sofar

\* A sequence after another.
LEMMA ConcatIs ==
    ASSUME NEW D, NEW s \in Seq(D), NEW t \in Seq(D)
    PROVE  /\ s \o t \in Seq(D) /\ Range(s \o t) = Range(s) \cup Range(t)
           /\ Len(s \o t) = Len(s) + Len(t)
           /\ (IsInjective(s) /\ IsInjective(t) /\ Range(s) \cap Range(t) = {}) => IsInjective(s \o t)
<1> DEFINE u == s \o t
           m == Len(s)
           n == Len(t)
<1>1. m \in Nat /\ n \in Nat /\ DOMAIN s = 1..m /\ DOMAIN t = 1..n
    BY LenProperties
<1>2. u \in Seq(D) /\ Len(u) = m + n
      /\ \A i \in 1..(m + n) : u[i] = IF i <= m THEN s[i] ELSE t[i - m]
    BY ConcatProperties
<1>3. DOMAIN u = 1..(m + n)
    BY <1>1, <1>2, LenProperties
<1> HIDE DEF u, m, n
<1>4. ASSUME NEW i \in 1..(m + n)
      PROVE  (i <= m => i \in 1..m) /\ (~(i <= m) => i - m \in 1..n)
    BY <1>1
<1>5. Range(u) \subseteq Range(s) \cup Range(t)
    BY <1>1, <1>2, <1>3, <1>4 DEF Range
<1>6. Range(s) \subseteq Range(u)
    <2> SUFFICES ASSUME NEW i \in 1..m PROVE s[i] \in Range(u)
        BY <1>1 DEF Range
    <2>1. i \in 1..(m + n) /\ i <= m
        BY <1>1
    <2>2. QED BY <1>2, <1>3, <2>1 DEF Range
<1>7. Range(t) \subseteq Range(u)
    <2> SUFFICES ASSUME NEW i \in 1..n PROVE t[i] \in Range(u)
        BY <1>1 DEF Range
    <2>1. PICK k \in 1..(m + n) : ~(k <= m) /\ k - m = i
        <3> DEFINE place == i + m
        <3>1. place \in 1..(m + n) /\ ~(place <= m) /\ place - m = i
            BY <1>1
        <3> HIDE DEF place
        <3>2. QED BY <3>1
    <2>2. u[k] = t[i]
        BY <1>2, <2>1
    <2>3. QED BY <1>3, <2>2 DEF Range
<1>8. ASSUME IsInjective(s), IsInjective(t), Range(s) \cap Range(t) = {},
             NEW i \in 1..(m + n), NEW j \in 1..(m + n), u[i] = u[j]
      PROVE  i = j
    <2>1. CASE i <= m /\ j <= m
        BY <1>1, <1>2, <1>4, <1>8, <2>1 DEF IsInjective
    <2>2. CASE i <= m /\ ~(j <= m)
        <3>1. u[i] \in Range(s) /\ u[j] \in Range(t)
            BY <1>1, <1>2, <1>4, <2>2 DEF Range
        <3>2. QED BY <1>8, <3>1
    <2>3. CASE ~(i <= m) /\ j <= m
        <3>1. u[i] \in Range(t) /\ u[j] \in Range(s)
            BY <1>1, <1>2, <1>4, <2>3 DEF Range
        <3>2. QED BY <1>8, <3>1
    <2>4. CASE ~(i <= m) /\ ~(j <= m)
        <3>1. i - m \in DOMAIN t /\ j - m \in DOMAIN t /\ t[i - m] = t[j - m]
            BY <1>1, <1>2, <1>4, <1>8, <2>4
        <3>2. i - m = j - m
            BY <1>8, <3>1 DEF IsInjective
        <3>3. QED BY <1>1, <3>2
    <2>5. QED BY <2>1, <2>2, <2>3, <2>4
<1>9. QED BY <1>2, <1>3, <1>5, <1>6, <1>7, <1>8 DEF u, m, n, IsInjective

\* The places of s that a sequence q was taken from, in order.
TakenFrom(s, q) ==
    {e \in [1..Len(q) -> 1..Len(s)] :
        /\ \A k, l \in 1..Len(q) : k < l => e[k] < e[l]
        /\ \A k \in 1..Len(q) : q[k] = s[e[k]]}

\* The elements are kept in their order.
LEMMA FilterPicks ==
    ASSUME NEW D, NEW s \in Seq(D), NEW T
    PROVE  \E e : e \in TakenFrom(s, Filter(s, T))
<1>1. PICK f \in Sifted(s, T, D) : Filter(s, T) = f[Len(s)]
    BY FilterSifts
<1> DEFINE N == Len(s)
           S == {n \in Nat : n <= N => \E e \in TakenFrom(s, f[n]) : \A k \in 1..Len(f[n]) : e[k] <= n}
<1>2. N \in Nat /\ \A n \in 0..N : f[n] \in Seq(D)
    BY LenProperties DEF Sifted
<1>3. 0 \in S
    <2>1. f[0] = <<>> /\ Len(<<>>) = 0
        BY DEF Sifted
    <2>2. [k \in 1..0 |-> 1] \in TakenFrom(s, <<>>)
        BY DEF TakenFrom
    <2>3. QED BY <2>1, <2>2
<1>4. ASSUME NEW n \in S PROVE n + 1 \in S
    <2>1. ASSUME n + 1 <= N PROVE \E e \in TakenFrom(s, f[n + 1]) : \A k \in 1..Len(f[n + 1]) : e[k] <= n + 1
        <3> DEFINE q == f[n]
                   x == s[n + 1]
                   L == Len(q)
        <3>1. n \in Nat /\ n + 1 \in 1..N /\ n + 1 - 1 = n /\ q \in Seq(D) /\ L \in Nat
            BY <1>2, <1>4, <2>1, LenProperties
        <3>2. f[n + 1] = IF x \in T THEN Append(q, x) ELSE q
            BY <3>1 DEF Sifted
        <3>3. x \in D
            BY <3>1, ElementOfSeq
        <3>4. PICK e \in TakenFrom(s, q) : \A k \in 1..L : e[k] <= n
            BY <1>4, <2>1
        <3>5. /\ e \in [1..L -> 1..N]
              /\ \A k, l \in 1..L : k < l => e[k] < e[l]
              /\ \A k \in 1..L : q[k] = s[e[k]]
            BY <3>4 DEF TakenFrom
        <3> HIDE DEF q
        <3>6. CASE x \in T
            <4> DEFINE h == [k \in 1..(L + 1) |-> IF k <= L THEN e[k] ELSE n + 1]
                       p == Append(q, x)
            <4>1. Len(p) = L + 1 /\ p[L + 1] = x /\ \A k \in 1..L : p[k] = q[k]
                BY <3>1, <3>3, AppendProperties
            <4> HIDE DEF p, L, x, N
            <4>2. \A k \in 1..(L + 1) : (k <= L => k \in 1..L) /\ (~(k <= L) => k = L + 1)
                BY <3>1
            <4>3. h \in [1..(L + 1) -> 1..N]
                BY <3>1, <3>5, <4>2
            <4>4. ASSUME NEW k \in 1..(L + 1), NEW l \in 1..(L + 1), k < l PROVE h[k] < h[l]
                <5>1. k \in 1..L /\ h[k] = e[k]
                    BY <3>1, <4>4
                <5>2. CASE l <= L
                    BY <3>5, <4>2, <4>4, <5>1, <5>2
                <5>3. CASE l = L + 1
                    <6>1. h[l] = n + 1 /\ e[k] <= n /\ e[k] \in 1..N
                        BY <3>1, <3>4, <3>5, <5>1, <5>3
                    <6>2. QED BY <1>2, <3>1, <5>1, <6>1
                <5>4. QED BY <4>2, <5>2, <5>3
            <4>5. ASSUME NEW k \in 1..(L + 1) PROVE p[k] = s[h[k]] /\ h[k] <= n + 1
                <5>1. CASE k <= L
                    <6>1. k \in 1..L /\ h[k] = e[k] /\ e[k] <= n /\ e[k] \in 1..N
                        BY <3>4, <3>5, <4>2, <5>1
                    <6>2. QED BY <1>2, <3>1, <3>5, <4>1, <6>1
                <5>2. CASE k = L + 1
                    BY <3>1, <4>1, <5>2 DEF x
                <5>3. QED BY <4>2, <5>1, <5>2
            <4> HIDE DEF h
            <4>6. h \in TakenFrom(s, p) /\ \A k \in 1..Len(p) : h[k] <= n + 1
                BY <4>1, <4>3, <4>4, <4>5 DEF TakenFrom, N
            <4>7. QED BY <3>2, <3>6, <4>6 DEF p
        <3>7. CASE x \notin T
            <4>1. ASSUME NEW k \in 1..L PROVE e[k] <= n + 1
                <5>1. e[k] <= n /\ e[k] \in 1..N
                    BY <3>4, <3>5
                <5> HIDE DEF N
                <5>2. QED BY <1>2, <3>1, <5>1
            <4>2. QED BY <3>2, <3>4, <3>7, <4>1
        <3>8. QED BY <3>6, <3>7
    <2>2. QED BY <1>4, <2>1
<1> HIDE DEF S
<1>5. \A n \in Nat : n \in S
    BY <1>3, <1>4, NaturalsFromZero DEF S
<1>6. \E e : e \in TakenFrom(s, f[N])
    BY <1>2, <1>5 DEF S
<1>7. QED BY <1>1, <1>6

\* A list without repetitions is as long as it has elements.
LEMMA RangeSize ==
    ASSUME NEW D, NEW s \in Seq(D)
    PROVE  IsFiniteSet(Range(s)) /\ (IsInjective(s) => Cardinality(Range(s)) = Len(s))
<1>1. DOMAIN s = 1..Len(s) /\ Len(s) \in Nat /\ s \in [1..Len(s) -> D]
    BY LenProperties
<1>2. IsFiniteSet(1..Len(s)) /\ Cardinality(1..Len(s)) = Len(s)
    BY <1>1, FS_Interval
<1>3. s \in Surjection(1..Len(s), Range(s))
    BY <1>1 DEF Surjection, Range
<1>4. IsInjective(s) => s \in Injection(1..Len(s), Range(s))
    BY <1>1, <1>3 DEF Injection, Surjection, IsInjective
<1>5. QED BY <1>2, <1>3, <1>4, FS_Surjection

\* A list has no fewer elements than what is left of it.
LEMMA FilterShorter ==
    ASSUME NEW D, NEW s \in Seq(D), IsInjective(s), NEW T
    PROVE  Len(Filter(s, T)) \in Nat /\ Len(Filter(s, T)) <= Len(s)
<1> DEFINE q == Filter(s, T)
<1>1. q \in Seq(D) /\ Range(q) = Range(s) \cap T /\ IsInjective(q)
    BY FilterIs
<1> HIDE DEF q
<1>2. /\ IsFiniteSet(Range(s)) /\ Cardinality(Range(s)) = Len(s) /\ Cardinality(Range(q)) = Len(q)
    BY <1>1, RangeSize
<1>3. Cardinality(Range(q)) <= Cardinality(Range(s))
    BY <1>1, <1>2, FS_Subset
<1>4. Len(q) \in Nat /\ Len(q) <= Len(s)
    BY <1>1, <1>2, <1>3, LenProperties
<1>5. QED BY <1>4 DEF q

\* Two ascending lists of the same numbers are the same.
LEMMA SameNumbers ==
    ASSUME NEW n \in Nat, NEW e \in [1..n -> Nat], NEW f \in [1..n -> Nat],
           \A k, l \in 1..n : k < l => e[k] < e[l],
           \A k, l \in 1..n : k < l => f[k] < f[l],
           \A k \in 1..n : \E l \in 1..n : e[k] = f[l],
           \A k \in 1..n : \E l \in 1..n : f[k] = e[l]
    PROVE  \A k \in 1..n : e[k] = f[k]
<1> DEFINE P == {k \in 1..n : e[k] # f[k]}
<1> SUFFICES ASSUME P # {} PROVE FALSE
    OBVIOUS
<1>1. PICK m \in P : \A k \in P : m <= k
    <2>1. P \in SUBSET Nat
        OBVIOUS
    <2> HIDE DEF P
    <2>2. QED BY <2>1, MinIsLeast
<1>2. m \in 1..n /\ e[m] \in Nat /\ f[m] \in Nat /\ e[m] # f[m]
    BY <1>1
<1>3. \A k \in 1..n : k < m => e[k] = f[k]
    BY <1>1
<1> HIDE DEF P
<1>4. CASE e[m] < f[m]
    <2>1. PICK l \in 1..n : e[m] = f[l]
        BY <1>2
    <2>2. ~(l < m)
        BY <1>2, <1>3, <2>1
    <2>3. l = m \/ m < l
        BY <1>2, <2>2
    <2>4. CASE l = m
        BY <1>2, <2>1, <2>4
    <2>5. CASE m < l
        <3>1. f[m] < f[l] /\ f[l] = e[m]
            BY <1>2, <2>1, <2>5
        <3>2. QED BY <1>2, <1>4, <3>1
    <2>6. QED BY <2>3, <2>4, <2>5
<1>5. CASE f[m] < e[m]
    <2>1. PICK l \in 1..n : f[m] = e[l]
        BY <1>2
    <2>2. ~(l < m)
        BY <1>2, <1>3, <2>1
    <2>3. l = m \/ m < l
        BY <1>2, <2>2
    <2>4. CASE l = m
        BY <1>2, <2>1, <2>4
    <2>5. CASE m < l
        <3>1. e[m] < e[l] /\ e[l] = f[m]
            BY <1>2, <2>1, <2>5
        <3>2. QED BY <1>2, <1>5, <3>1
    <2>6. QED BY <2>3, <2>4, <2>5
<1>6. QED BY <1>2, <1>4, <1>5

\* What was taken from a list in its order is what the list has of it.
LEMMA OrderKept ==
    ASSUME NEW D, NEW s \in Seq(D), IsInjective(s), NEW q \in Seq(D), NEW e \in TakenFrom(s, q)
    PROVE  q = Filter(s, Range(q)) /\ IsInjective(q) /\ Range(q) \subseteq Range(s)
<1> DEFINE p == Filter(s, Range(q))
           n == Len(q)
<1>1. /\ n \in Nat /\ Len(s) \in Nat /\ DOMAIN q = 1..n /\ DOMAIN s = 1..Len(s)
      /\ e \in [1..n -> 1..Len(s)]
      /\ \A k, l \in 1..n : k < l => e[k] < e[l]
      /\ \A k \in 1..n : q[k] = s[e[k]]
    BY LenProperties DEF TakenFrom
<1>2. Range(q) \subseteq Range(s)
    BY <1>1 DEF Range
<1>3. IsInjective(q)
    <2> SUFFICES ASSUME NEW k \in 1..n, NEW l \in 1..n, q[k] = q[l], k # l PROVE FALSE
        BY <1>1 DEF IsInjective
    <2>1. e[k] # e[l] /\ e[k] \in DOMAIN s /\ e[l] \in DOMAIN s
        BY <1>1
    <2>2. QED BY <1>1, <2>1 DEF IsInjective
<1>4. p \in Seq(D) /\ Range(p) = Range(q) /\ IsInjective(p)
    <2>1. p \in Seq(D) /\ Range(p) = Range(s) \cap Range(q) /\ IsInjective(p)
        BY FilterIs
    <2> HIDE DEF p
    <2>2. QED BY <1>2, <2>1
<1>5. Len(p) = n
    BY <1>3, <1>4, RangeSize
<1>6. PICK f : f \in TakenFrom(s, p)
    BY FilterPicks
<1> HIDE DEF p
<1>7. /\ DOMAIN p = 1..n /\ f \in [1..n -> 1..Len(s)]
      /\ \A k, l \in 1..n : k < l => f[k] < f[l]
      /\ \A k \in 1..n : p[k] = s[f[k]]
    BY <1>4, <1>5, <1>6, LenProperties DEF TakenFrom
<1>8. \A k \in 1..n : \E l \in 1..n : e[k] = f[l]
    <2> TAKE k \in 1..n
    <2>0. q[k] \in Range(p)
        BY <1>1, <1>4 DEF Range
    <2>1. PICK l \in 1..n : q[k] = p[l]
        BY <1>7, <2>0 DEF Range
    <2>2. s[e[k]] = s[f[l]] /\ e[k] \in DOMAIN s /\ f[l] \in DOMAIN s
        BY <1>1, <1>7, <2>1
    <2>3. QED BY <2>2 DEF IsInjective
<1>9. \A k \in 1..n : \E l \in 1..n : f[k] = e[l]
    <2> TAKE k \in 1..n
    <2>0. p[k] \in Range(q)
        BY <1>4, <1>7 DEF Range
    <2>1. PICK l \in 1..n : p[k] = q[l]
        BY <1>1, <2>0 DEF Range
    <2>2. s[e[l]] = s[f[k]] /\ e[l] \in DOMAIN s /\ f[k] \in DOMAIN s
        BY <1>1, <1>7, <2>1
    <2>3. QED BY <2>2 DEF IsInjective
<1>10. e \in [1..n -> Nat] /\ f \in [1..n -> Nat]
    BY <1>1, <1>7
<1> HIDE DEF n
<1>11. \A k \in 1..n : e[k] = f[k]
    BY <1>1, <1>7, <1>8, <1>9, <1>10, SameNumbers
<1>12. \A k \in 1..n : p[k] = q[k]
    BY <1>1, <1>7, <1>11
<1>13. p = q
    BY <1>1, <1>4, <1>5, <1>12, SeqEqual DEF n
<1>14. QED BY <1>2, <1>3, <1>13 DEF p

\* Of what was taken from a list in its order, some again.
LEMMA TakenOfTaken ==
    ASSUME NEW D, NEW s \in Seq(D), NEW q \in Seq(D), NEW r \in Seq(D),
           NEW e \in TakenFrom(s, q), NEW f \in TakenFrom(q, r)
    PROVE  [k \in 1..Len(r) |-> e[f[k]]] \in TakenFrom(s, r)
<1>1. Len(s) \in Nat /\ Len(q) \in Nat /\ Len(r) \in Nat
    BY LenProperties
<1>2. /\ e \in [1..Len(q) -> 1..Len(s)] /\ f \in [1..Len(r) -> 1..Len(q)]
      /\ \A k, l \in 1..Len(q) : k < l => e[k] < e[l]
      /\ \A k \in 1..Len(q) : q[k] = s[e[k]]
      /\ \A k, l \in 1..Len(r) : k < l => f[k] < f[l]
      /\ \A k \in 1..Len(r) : r[k] = q[f[k]]
    BY DEF TakenFrom
<1>3. QED BY <1>1, <1>2 DEF TakenFrom

-----------------------------------------------------------------------------
(* Recursion along the elements of a set from the one above to those below.*)

\* Every element of I comes, by place, after the one above it; N bounds the places.
Ranked(I, above, place, N) ==
    /\ N \in Nat
    /\ \A i \in I : place[i] \in 0..N
    /\ \A i \in I : above[i] \in I => place[above[i]] < place[i]

\* What holds of an element when it holds of the one above holds of all.
LEMMA RankedInduction ==
    ASSUME NEW I, NEW above, NEW N, \E place : Ranked(I, above, place, N), NEW S \in SUBSET I,
           \A i \in I : (above[i] \in I => above[i] \in S) => i \in S
    PROVE  S = I
<1>0. PICK place : Ranked(I, above, place, N)
    OBVIOUS
<1> DEFINE P == {place[i] : i \in I \ S}
<1> SUFFICES ASSUME I \ S # {} PROVE FALSE
    OBVIOUS
<1>1. P \in SUBSET Nat /\ P # {}
    BY <1>0 DEF Ranked
<1>2. PICK m \in P : \A k \in P : m <= k
    <2> HIDE DEF P
    <2>1. QED BY <1>1, MinIsLeast
<1>3. PICK i \in I \ S : m = place[i]
    BY <1>2
<1>4. above[i] \in I => above[i] \in S
    <2> SUFFICES ASSUME above[i] \in I, above[i] \notin S PROVE FALSE
        OBVIOUS
    <2>1. place[above[i]] \in P
        OBVIOUS
    <2>2. place[above[i]] \in 0..N /\ place[i] \in 0..N /\ place[above[i]] < place[i] /\ N \in Nat
        BY <1>0 DEF Ranked
    <2>3. QED BY <1>2, <1>3, <2>1, <2>2
<1>5. QED BY <1>3, <1>4

\* What is said of an element from what is said of the one above it, if that is in R.
FromAbove(h, I, above, R, base, step) ==
    \A i \in I : h[i] = IF above[i] \in R THEN step[i][h[above[i]]] ELSE base[i]

LEMMA RankedRecursion ==
    ASSUME NEW I, NEW above, NEW N, \E place : Ranked(I, above, place, N),
           NEW V, NEW R \in SUBSET I, NEW base \in [I -> V], NEW step \in [I -> [V -> V]]
    PROVE  \E h \in [I -> V] : FromAbove(h, I, above, R, base, step)
<1>0. PICK place : Ranked(I, above, place, N)
    OBVIOUS
<1> DEFINE next(h, i) == IF above[i] \in R THEN step[i][h[above[i]]] ELSE base[i]
           S == {k \in Nat : \E h \in [I -> V] : \A i \in I : place[i] < k => h[i] = next(h, i)}
<1>1. N \in Nat /\ \A i \in I : place[i] \in 0..N /\ (above[i] \in R => above[i] \in I /\ place[above[i]] < place[i])
    BY <1>0 DEF Ranked
<1>2. 0 \in S
    <2>1. \A i \in I : ~(place[i] < 0)
        BY <1>1
    <2>2. QED BY <2>1
<1>3. ASSUME NEW k \in S PROVE k + 1 \in S
    <2>1. PICK h \in [I -> V] : \A i \in I : place[i] < k => h[i] = next(h, i)
        BY <1>3
    <2> DEFINE g == [i \in I |-> IF place[i] < k THEN h[i] ELSE next(h, i)]
    <2>2. \A i \in I : next(h, i) \in V
        BY <1>1, <2>1
    <2>3. g \in [I -> V]
        BY <2>1, <2>2
    <2>4. ASSUME NEW i \in I, place[i] < k + 1 PROVE g[i] = next(g, i)
        <3>1. above[i] \in R => above[i] \in I /\ place[above[i]] < k
            <4>1. k \in Nat
                BY <1>3
            <4>2. place[i] \in Nat /\ (above[i] \in R => place[above[i]] \in Nat)
                BY <1>1
            <4>3. QED BY <1>1, <2>4, <4>1, <4>2
        <3>2. above[i] \in R => g[above[i]] = h[above[i]]
            BY <3>1
        <3>3. next(g, i) = next(h, i)
            BY <3>2
        <3>4. g[i] = next(h, i)
            BY <2>1
        <3>5. QED BY <3>3, <3>4
    <2>5. k + 1 \in Nat
        BY <1>3
    <2> HIDE DEF g, next
    <2>6. QED BY <2>3, <2>4, <2>5
<1> HIDE DEF S
<1>4. \A k \in Nat : k \in S
    BY <1>2, <1>3, NaturalsFromZero DEF S
<1>5. \A i \in I : place[i] < N + 1
    BY <1>1
<1>6. N + 1 \in S
    BY <1>1, <1>4
<1>7. PICK h \in [I -> V] : \A i \in I : place[i] < N + 1 => h[i] = next(h, i)
    BY <1>6 DEF S
<1>8. QED BY <1>5, <1>7 DEF FromAbove
=============================================================================
