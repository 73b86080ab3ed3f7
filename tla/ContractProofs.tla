---------------------------- MODULE ContractProofs ----------------------------
(***************************************************************************)
(* That searchers and site engines keep their contracts, for any           *)
(* upstreams, sites, limits and answers.                                   *)
(*                                                                         *)
(* A search: a failure is never passed off as an empty success, a top-up   *)
(* keeps both rankings, and a chain of searchers keeps the promises of     *)
(* one.  A crawl by a site engine: no request outlives the slot, and a     *)
(* document that is cut says so.                                           *)
(***************************************************************************)
EXTENDS Search, SiteEngines, SeqLemmas

-----------------------------------------------------------------------------
(* The merge of two rankings.                                              *)

\* No page twice.
OncePerPage(s) == \A i, j \in 1..Len(s) : UrlKey(s[i]) = UrlKey(s[j]) => i = j

\* The page of u is among the first n.
Within(u, s, n) == \E j \in 1..Len(s) : j <= n /\ UrlKey(s[j]) = UrlKey(u)

\* take adds at most one result and takes none away; the page asked for is there then,
\* and no page is twice.
LEMMA TakeIs ==
    ASSUME NEW U, NEW merged \in Seq(U), NEW u \in U, OncePerPage(merged)
    PROVE  LET t == Take(merged, u) IN
           /\ t \in Seq(U) /\ Len(t) \in Len(merged)..(Len(merged) + 1)
           /\ \A j \in 1..Len(merged) : t[j] = merged[j]
           /\ \A j \in 1..Len(t) : j > Len(merged) => t[j] = u
           /\ OncePerPage(t) /\ Within(u, t, Len(merged) + 1)
<1> DEFINE a == Append(merged, u)
<1>1. /\ Len(merged) \in Nat /\ DOMAIN merged = 1..Len(merged)
      /\ a \in Seq(U) /\ Len(a) = Len(merged) + 1
      /\ \A j \in 1..Len(merged) : a[j] = merged[j]
      /\ a[Len(merged) + 1] = u
    BY LenProperties, AppendProperties
<1> HIDE DEF a
<1>2. CASE \E i \in DOMAIN merged : UrlKey(merged[i]) = UrlKey(u)
    <2>1. Take(merged, u) = merged
        BY <1>2 DEF Take
    <2>2. QED BY <1>1, <1>2, <2>1 DEF Within
<1>3. CASE ~ \E i \in DOMAIN merged : UrlKey(merged[i]) = UrlKey(u)
    <2>1. Take(merged, u) = a
        BY <1>3 DEF Take, a
    <2>2. \A j \in 1..Len(a) : j > Len(merged) => a[j] = u
        BY <1>1
    <2>3. OncePerPage(a)
        <3> SUFFICES ASSUME NEW i \in 1..Len(a), NEW j \in 1..Len(a), UrlKey(a[i]) = UrlKey(a[j])
                     PROVE  i = j
            BY DEF OncePerPage
        <3>1. CASE i \in 1..Len(merged) /\ j \in 1..Len(merged)
            BY <1>1, <3>1 DEF OncePerPage
        <3>2. CASE i = Len(merged) + 1 /\ j = Len(merged) + 1
            BY <3>2
        <3>3. CASE i \in 1..Len(merged) /\ j = Len(merged) + 1
            BY <1>1, <1>3, <3>3
        <3>4. CASE i = Len(merged) + 1 /\ j \in 1..Len(merged)
            BY <1>1, <1>3, <3>4
        <3>5. QED BY <1>1, <3>1, <3>2, <3>3, <3>4
    <2>4. Within(u, a, Len(merged) + 1)
        BY <1>1 DEF Within
    <2>5. QED BY <1>1, <2>1, <2>2, <2>3, <2>4
<1>4. QED BY <1>2, <1>3

\* What the merge holds after the first n ranks of p and the first k of q.
Merged(m, p, q, n, k) ==
    /\ Len(m) <= n + k /\ OncePerPage(m)
    /\ \A j \in 1..Len(m) : (\E i \in 1..Len(p) : m[j] = p[i]) \/ (\E i \in 1..Len(q) : m[j] = q[i])
    /\ \A i \in 1..Len(p) : i <= n => Within(p[i], m, 2 * i - 1)
    /\ \A i \in 1..Len(q) : i <= k => Within(q[i], m, 2 * i)

\* One more rank of the primary, one more of the backup.
LEMMA RankIsTaken ==
    ASSUME NEW U, NEW p \in Seq(U), NEW q \in Seq(U), NEW n \in Nat, NEW m \in Seq(U),
           Merged(m, p, q, n, n)
    PROVE  LET one == TakeRank(m, p, n + 1)
               two == TakeRank(one, q, n + 1)
           IN  two \in Seq(U) /\ Merged(two, p, q, n + 1, n + 1)
<1> DEFINE one == TakeRank(m, p, n + 1)
           two == TakeRank(one, q, n + 1)
<1>1. /\ Len(p) \in Nat /\ Len(q) \in Nat /\ Len(m) \in Nat
      /\ \A i \in 1..Len(p) : p[i] \in U
      /\ \A i \in 1..Len(q) : q[i] \in U
    BY LenProperties, ElementOfSeq
<1>2. /\ one \in Seq(U) /\ Len(one) \in Len(m)..(Len(m) + 1)
      /\ \A j \in 1..Len(m) : one[j] = m[j]
      /\ Merged(one, p, q, n + 1, n)
    <2>1. CASE n + 1 <= Len(p)
        <3>1. n + 1 \in 1..Len(p) /\ p[n + 1] \in U /\ one = Take(m, p[n + 1])
            BY <1>1, <2>1 DEF TakeRank
        <3> HIDE DEF one
        <3>2. /\ one \in Seq(U) /\ Len(one) \in Len(m)..(Len(m) + 1)
              /\ \A j \in 1..Len(m) : one[j] = m[j]
              /\ \A j \in 1..Len(one) : j > Len(m) => one[j] = p[n + 1]
              /\ OncePerPage(one) /\ Within(p[n + 1], one, Len(m) + 1)
            BY <3>1, TakeIs DEF Merged
        <3>3. \A j \in 1..Len(one) : (\E i \in 1..Len(p) : one[j] = p[i]) \/ (\E i \in 1..Len(q) : one[j] = q[i])
            <4> TAKE j \in 1..Len(one)
            <4>1. CASE j \in 1..Len(m)
                BY <3>2, <4>1 DEF Merged
            <4>2. CASE j > Len(m)
                BY <3>1, <3>2, <4>2
            <4>3. QED BY <1>1, <3>2, <4>1, <4>2
        <3>4. \A i \in 1..Len(p) : i <= n + 1 => Within(p[i], one, 2 * i - 1)
            <4> SUFFICES ASSUME NEW i \in 1..Len(p), i <= n + 1 PROVE Within(p[i], one, 2 * i - 1)
                OBVIOUS
            <4>1. CASE i <= n
                BY <1>1, <3>2, <4>1 DEF Merged, Within
            <4>2. CASE i = n + 1
                <5>1. Len(m) + 1 <= 2 * i - 1
                    BY <1>1, <4>2 DEF Merged
                <5>2. QED BY <1>1, <3>2, <4>2, <5>1 DEF Within
            <4>3. QED BY <4>1, <4>2
        <3>5. \A i \in 1..Len(q) : i <= n => Within(q[i], one, 2 * i)
            BY <1>1, <3>2 DEF Merged, Within
        <3>6. Len(one) <= (n + 1) + n
            BY <1>1, <3>2 DEF Merged
        <3>7. QED BY <3>2, <3>3, <3>4, <3>5, <3>6 DEF Merged
    <2>2. CASE ~(n + 1 <= Len(p))
        <3>1. one = m
            BY <2>2 DEF TakeRank
        <3>2. \A i \in 1..Len(p) : i <= n
            BY <1>1, <2>2
        <3>3. QED BY <1>1, <3>1, <3>2 DEF Merged
    <2>3. QED BY <2>1, <2>2
<1> HIDE DEF one
<1>3. two \in Seq(U) /\ Merged(two, p, q, n + 1, n + 1)
    <2>0. Len(one) \in Nat
        BY <1>2, LenProperties
    <2>1. CASE n + 1 <= Len(q)
        <3>1. n + 1 \in 1..Len(q) /\ q[n + 1] \in U /\ two = Take(one, q[n + 1])
            BY <1>1, <2>1 DEF TakeRank
        <3> HIDE DEF two
        <3>2. /\ two \in Seq(U) /\ Len(two) \in Len(one)..(Len(one) + 1)
              /\ \A j \in 1..Len(one) : two[j] = one[j]
              /\ \A j \in 1..Len(two) : j > Len(one) => two[j] = q[n + 1]
              /\ OncePerPage(two) /\ Within(q[n + 1], two, Len(one) + 1)
            BY <1>2, <3>1, TakeIs DEF Merged
        <3>3. \A j \in 1..Len(two) : (\E i \in 1..Len(p) : two[j] = p[i]) \/ (\E i \in 1..Len(q) : two[j] = q[i])
            <4> TAKE j \in 1..Len(two)
            <4>1. CASE j \in 1..Len(one)
                BY <1>2, <3>2, <4>1 DEF Merged
            <4>2. CASE j > Len(one)
                BY <3>1, <3>2, <4>2
            <4>3. QED BY <2>0, <3>2, <4>1, <4>2
        <3>4. \A i \in 1..Len(q) : i <= n + 1 => Within(q[i], two, 2 * i)
            <4> SUFFICES ASSUME NEW i \in 1..Len(q), i <= n + 1 PROVE Within(q[i], two, 2 * i)
                OBVIOUS
            <4>1. CASE i <= n
                BY <2>0, <1>2, <3>2, <4>1 DEF Merged, Within
            <4>2. CASE i = n + 1
                <5>1. Len(one) + 1 <= 2 * i
                    BY <2>0, <1>2, <4>2 DEF Merged
                <5>2. QED BY <2>0, <3>2, <4>2, <5>1 DEF Within
            <4>3. QED BY <4>1, <4>2
        <3>5. \A i \in 1..Len(p) : i <= n + 1 => Within(p[i], two, 2 * i - 1)
            BY <2>0, <1>2, <3>2 DEF Merged, Within
        <3>6. Len(two) <= (n + 1) + (n + 1)
            BY <2>0, <1>2, <3>2 DEF Merged
        <3>7. QED BY <3>2, <3>3, <3>4, <3>5, <3>6 DEF Merged
    <2>2. CASE ~(n + 1 <= Len(q))
        <3>1. two = one
            BY <2>2 DEF TakeRank
        <3>2. \A i \in 1..Len(q) : i <= n
            BY <1>1, <2>2
        <3>3. Len(one) <= (n + 1) + (n + 1)
            BY <1>2, <2>0 DEF Merged
        <3>4. \A i \in 1..Len(q) : i <= n + 1 => Within(q[i], one, 2 * i)
            BY <1>2, <3>2 DEF Merged
        <3>5. QED BY <1>2, <3>1, <3>3, <3>4 DEF Merged
    <2>3. QED BY <2>1, <2>2
<1>4. QED BY <1>3 DEF one

LEMMA TakeRankOfSeq ==
    ASSUME NEW U, NEW r \in Seq(U), NEW m \in Seq(U), NEW i \in Nat \ {0}
    PROVE  TakeRank(m, r, i) \in Seq(U)
<1>1. i <= Len(r) => r[i] \in U
    BY LenProperties, ElementOfSeq
<1>2. QED BY <1>1, AppendProperties DEF TakeRank, Take

\* The merge ends with every rank of both.
LEMMA InterleavedIs ==
    ASSUME NEW U, NEW p \in Seq(U), NEW q \in Seq(U)
    PROVE  /\ Interleaved(p, q) \in Seq(U)
           /\ Merged(Interleaved(p, q), p, q, Max({Len(p), Len(q)}), Max({Len(p), Len(q)}))
<1> DEFINE N == Max({Len(p), Len(q)})
           Ranks(m, i) == TakeRank(TakeRank(m, p, i), q, i)
           body(g) == [i \in 0..N |-> IF i = 0 THEN <<>> ELSE Ranks(g[i - 1], i)]
           f == CHOOSE g : g = body(g)
           step == [i \in 1..N |-> [m \in Seq(U) |-> Ranks(m, i)]]
<1>1. N \in Nat
    BY LenProperties, MaxOfTwo
<1>2. Interleaved(p, q) = f[N]
    BY DEF Interleaved
<1> HIDE DEF N
<1>3. f = body(f)
    <2>1. step \in [1..N -> [Seq(U) -> Seq(U)]]
        <3>1. ASSUME NEW i \in 1..N, NEW m \in Seq(U) PROVE Ranks(m, i) \in Seq(U)
            <4>1. i \in Nat \ {0}
                BY <1>1
            <4>2. TakeRank(m, p, i) \in Seq(U)
                BY <4>1, TakeRankOfSeq
            <4>3. QED BY <4>1, <4>2, TakeRankOfSeq
        <3> HIDE DEF Ranks
        <3>2. QED BY <3>1
    <2> DEFINE D == Seq(U)
               none == <<>>
    <2>2. none \in D /\ step \in Steps(D, N)
        BY <2>1 DEF Steps
    <2> HIDE DEF step, D, none
    <2>a. \E g : g \in Results(D, N, none, step)
        BY <1>1, <2>2, StepsHaveResults
    <2>3. PICK g \in [0..N -> Seq(U)] : g[0] = <<>> /\ \A i \in 1..N : g[i] = step[i][g[i - 1]]
        BY <2>a DEF D, none, Results
    <2>4. ASSUME NEW i \in 0..N PROVE g[i] = IF i = 0 THEN <<>> ELSE Ranks(g[i - 1], i)
        <3>1. CASE i = 0
            BY <2>3, <3>1
        <3>2. CASE i # 0
            <4>1. i \in 1..N /\ i - 1 \in 0..N /\ g[i - 1] \in Seq(U)
                BY <1>1, <2>3, <3>2
            <4>2. step[i][g[i - 1]] = Ranks(g[i - 1], i)
                BY <4>1 DEF step
            <4>3. QED BY <2>3, <3>2, <4>1, <4>2
        <3>3. QED BY <3>1, <3>2
    <2> HIDE DEF Ranks
    <2>5. g = body(g)
        BY <2>3, <2>4
    <2>6. QED BY <2>5
<1> HIDE DEF f
<1> DEFINE T == {n \in Nat : n <= N => f[n] \in Seq(U) /\ Merged(f[n], p, q, n, n)}
<1>4. 0 \in T
    <2>1. f[0] = <<>>
        BY <1>1, <1>3
    <2>2. <<>> \in Seq(U) /\ Len(<<>>) = 0
        OBVIOUS
    <2>3. Merged(<<>>, p, q, 0, 0)
        BY <2>2 DEF Merged, OncePerPage
    <2>4. QED BY <2>1, <2>2, <2>3
<1>5. ASSUME NEW n \in T PROVE n + 1 \in T
    <2> SUFFICES ASSUME n + 1 <= N PROVE f[n + 1] \in Seq(U) /\ Merged(f[n + 1], p, q, n + 1, n + 1)
        OBVIOUS
    <2>1. n \in Nat /\ n + 1 \in 0..N /\ f[n] \in Seq(U) /\ Merged(f[n], p, q, n, n)
        BY <1>1, <1>5
    <2>2. f[n + 1] = body(f)[n + 1]
        BY <1>3
    <2>3. f[n + 1] = Ranks(f[n], n + 1)
        BY <2>1, <2>2
    <2>4. QED BY <2>1, <2>3, RankIsTaken
<1> HIDE DEF T
<1>6. N \in T
    BY <1>1, <1>4, <1>5, NaturalsFromZero DEF T
<1>7. QED BY <1>1, <1>2, <1>6 DEF T, N

\* A cut list is the beginning of the list.
LEMMA CutIs ==
    ASSUME NEW U, NEW s \in Seq(U), NEW n \in Nat
    PROVE  /\ Cut(s, n) \in Seq(U)
           /\ Len(Cut(s, n)) = Min({n, Len(s)}) /\ Len(Cut(s, n)) <= n /\ Len(Cut(s, n)) <= Len(s)
           /\ \A i \in 1..Len(Cut(s, n)) : Cut(s, n)[i] = s[i]
<1>1. /\ Len(s) \in Nat /\ Min({n, Len(s)}) \in Nat
      /\ Min({n, Len(s)}) <= n /\ Min({n, Len(s)}) <= Len(s)
    BY LenProperties, MinOfTwo
<1>2. \A i \in 1..Min({n, Len(s)}) : s[i] \in U
    BY <1>1, ElementOfSeq
<1> DEFINE k == Min({n, Len(s)})
<1>3. k \in Nat /\ k <= n /\ k <= Len(s) /\ Cut(s, n) = SubSeq(s, 1, k) /\ \A i \in 1..k : s[i] \in U
    BY <1>1, <1>2 DEF Cut
<1> HIDE DEF k
<1>4. /\ SubSeq(s, 1, k) \in Seq(U) /\ Len(SubSeq(s, 1, k)) = k
      /\ \A i \in 1..k : SubSeq(s, 1, k)[i] = s[i]
    BY <1>3, SubSeqProperties
<1>5. QED BY <1>3, <1>4 DEF k

\* The pages of two rankings are as many as their merge is long, before the cut.
LEMMA PagesCounted ==
    ASSUME NEW U, NEW p \in Seq(U), NEW q \in Seq(U)
    PROVE  Cardinality({UrlKey(u) : u \in Range(p) \cup Range(q)}) = Len(Interleaved(p, q))
<1> DEFINE m == Interleaved(p, q)
           N == Max({Len(p), Len(q)})
           pages == {UrlKey(u) : u \in Range(p) \cup Range(q)}
           f == [j \in 1..Len(m) |-> UrlKey(m[j])]
<1>1. /\ m \in Seq(U) /\ Merged(m, p, q, N, N) /\ Len(m) \in Nat
      /\ N \in Nat /\ Len(p) <= N /\ Len(q) <= N /\ Len(p) \in Nat /\ Len(q) \in Nat
    BY InterleavedIs, LenProperties, MaxOfTwo
<1>2. /\ Range(p) = {p[i] : i \in 1..Len(p)}
      /\ Range(q) = {q[i] : i \in 1..Len(q)}
    BY RangeEquality
<1> HIDE DEF m, N
<1>3. \A j \in 1..Len(m) : UrlKey(m[j]) \in pages
    BY <1>1, <1>2 DEF Merged
<1>4. \A k \in pages : \E j \in 1..Len(m) : UrlKey(m[j]) = k
    <2> SUFFICES ASSUME NEW u \in Range(p) \cup Range(q)
                 PROVE  \E j \in 1..Len(m) : UrlKey(m[j]) = UrlKey(u)
        OBVIOUS
    <2>1. CASE u \in Range(p)
        <3>1. PICK i \in 1..Len(p) : u = p[i]
            BY <1>2, <2>1
        <3>2. i <= N /\ Within(p[i], m, 2 * i - 1)
            BY <1>1, <3>1 DEF Merged
        <3>3. QED BY <3>1, <3>2 DEF Within
    <2>2. CASE u \in Range(q)
        <3>1. PICK i \in 1..Len(q) : u = q[i]
            BY <1>2, <2>2
        <3>2. i <= N /\ Within(q[i], m, 2 * i)
            BY <1>1, <3>1 DEF Merged
        <3>3. QED BY <3>1, <3>2 DEF Within
    <2>3. QED BY <2>1, <2>2
<1>5. \A i, j \in 1..Len(m) : UrlKey(m[i]) = UrlKey(m[j]) => i = j
    BY <1>1 DEF Merged, OncePerPage
<1> HIDE DEF pages
<1>6. f \in Bijection(1..Len(m), pages)
    BY <1>3, <1>4, <1>5 DEF Bijection, Injection, Surjection, IsInjective
<1>7. ExistsBijection(1..Len(m), pages)
    BY <1>6 DEF ExistsBijection
<1>8. QED BY <1>1, <1>7, FS_CountingElements DEF m, pages

\* What merge answers with.
LEMMA MergeIs ==
    ASSUME NEW U, NEW p \in Seq(U), NEW q \in Seq(U), NEW limit \in Nat \ {0}
    PROVE  LET out == Merge(p, q, limit) IN
           /\ out \in Seq(U) /\ Len(out) <= limit
           /\ p # <<>> => out # <<>>
           /\ \A i \in 1..Len(p) : 2 * i - 1 <= limit => Within(p[i], out, 2 * i - 1)
           /\ \A i \in 1..Len(q) : 2 * i <= limit => Within(q[i], out, 2 * i)
           /\ OncePerPage(out)
           /\ Len(out) = Min({limit, Cardinality({UrlKey(u) : u \in Range(p) \cup Range(q)})})
<1> DEFINE m == Interleaved(p, q)
           N == Max({Len(p), Len(q)})
           out == Merge(p, q, limit)
           pages == {UrlKey(u) : u \in Range(p) \cup Range(q)}
<1>0. /\ m \in Seq(U) /\ Merged(m, p, q, N, N) /\ Cardinality(pages) = Len(m)
      /\ out = Cut(m, limit)
    BY InterleavedIs, PagesCounted DEF Merge
<1>a. N \in Nat /\ Len(p) <= N /\ Len(q) <= N /\ Len(p) \in Nat /\ Len(q) \in Nat
    BY LenProperties, MaxOfTwo
<1> HIDE DEF N, m, out, pages
<1>1. /\ m \in Seq(U) /\ Merged(m, p, q, N, N) /\ Len(m) \in Nat
      /\ N \in Nat /\ Len(p) <= N /\ Len(q) <= N /\ Len(p) \in Nat /\ Len(q) \in Nat
    BY <1>0, <1>a, LenProperties
<1>2. Len(out) = Min({limit, Cardinality(pages)})
    BY <1>0, CutIs
<1>3. /\ out \in Seq(U) /\ Len(out) \in Nat /\ Len(out) <= limit /\ Len(out) <= Len(m)
      /\ Len(out) = IF limit <= Len(m) THEN limit ELSE Len(m)
      /\ \A i \in 1..Len(out) : out[i] = m[i]
    <2>1. /\ out \in Seq(U) /\ Len(out) = Min({limit, Len(m)})
          /\ Len(out) <= limit /\ Len(out) <= Len(m)
          /\ \A i \in 1..Len(out) : out[i] = m[i]
        BY <1>0, <1>1, CutIs
    <2>2. Len(out) \in Nat
        BY <2>1, LenProperties
    <2>3. Min({limit, Len(m)}) = IF limit <= Len(m) THEN limit ELSE Len(m)
        BY <1>1, MinOfTwo
    <2>4. QED BY <2>1, <2>2, <2>3
<1>4. ASSUME NEW u, NEW n \in Nat, n <= limit, Within(u, m, n) PROVE Within(u, out, n)
    BY <1>1, <1>3, <1>4 DEF Within
<1>5. \A i \in 1..Len(p) : 2 * i - 1 <= limit => Within(p[i], out, 2 * i - 1)
    <2> SUFFICES ASSUME NEW i \in 1..Len(p), 2 * i - 1 <= limit PROVE Within(p[i], out, 2 * i - 1)
        OBVIOUS
    <2>1. Within(p[i], m, 2 * i - 1) /\ 2 * i - 1 \in Nat
        BY <1>1 DEF Merged
    <2>2. QED BY <1>4, <2>1
<1>6. \A i \in 1..Len(q) : 2 * i <= limit => Within(q[i], out, 2 * i)
    <2> SUFFICES ASSUME NEW i \in 1..Len(q), 2 * i <= limit PROVE Within(q[i], out, 2 * i)
        OBVIOUS
    <2>1. Within(q[i], m, 2 * i) /\ 2 * i \in Nat
        BY <1>1 DEF Merged
    <2>2. QED BY <1>4, <2>1
<1>7. OncePerPage(out)
    BY <1>1, <1>3 DEF Merged, OncePerPage
<1>8. ASSUME p # <<>> PROVE out # <<>>
    <2>1. 1 \in 1..Len(p)
        BY <1>1, <1>8, EmptySeq
    <2>2. Within(p[1], out, 1)
        BY <1>5, <2>1
    <2>3. Len(out) # 0
        BY <2>2 DEF Within
    <2>4. QED BY <2>3
<1>9. QED BY <1>2, <1>3, <1>5, <1>6, <1>7, <1>8 DEF out, pages

-----------------------------------------------------------------------------
(* The invariant.                                                          *)

Working == {"refusing", "queued", "send", "flight"}

Types ==
    /\ config \in [chain : Chains, min : MinCounts, budget : BOOLEAN, paced : BOOLEAN]
    /\ request \in [valid : BOOLEAN, query : {"empty", "blank", "text"}, site : BOOLEAN, limit : Nat]
    /\ request.limit \in 0..MaxResults \cup Limits
    /\ pc \in {"idle", "done"} \cup Working
    /\ level \in 0..Len(config.chain) /\ tries \in 0..MaxAttempts
    /\ held \subseteq Searchers /\ busy \subseteq Searchers
    /\ answers \in Seq(Reports) /\ reply \in [status : {0, 200, 400, 502}, result : Reports]

\* An answer is within the limit, and an error comes without results.
Honest(a, limit) == Len(a.results) <= limit /\ (a.err # "none" => a.results = <<>>)

\* The first answer of a chain called for its backup.
BackupCalled == Decide(answers[1], request.limit) # "keep"

\* Nothing is asked yet.
Untouched == answers = <<>> /\ held = {} /\ level = 0

\* While a searcher is asked, those before it have answered; no slot but its own is
\* held, and that only behind its queue.
AtWork ==
    /\ level >= 1 /\ Len(answers) = level - 1
    /\ request.limit \in 1..MaxResults
    /\ level = 2 => BackupCalled
    /\ held \subseteq {Current}
    /\ pc \in {"refusing", "queued"} => held = {}
    /\ pc # "flight" => tries < MaxAttempts

\* A reply is what the policy makes of the answers.
Replied ==
    /\ held = {}
    /\ reply.result = IF answers = <<>> THEN Failure("none") ELSE Outcome(answers)
    /\ answers = <<>> => reply.status = 400
    /\ answers # <<>> =>
          /\ Len(answers) <= 2 /\ request.limit \in 1..MaxResults
          /\ Len(answers) = 2 => BackupCalled
          /\ reply.status = IF reply.result.err = "none" THEN 200 ELSE 502

IInv ==
    /\ Types
    /\ \A i \in 1..Len(answers) : Honest(answers[i], request.limit)
    /\ pc = "idle" => Untouched
    /\ pc \in Working => AtWork
    /\ pc = "done" => Replied

LEMMA ChainIs ==
    ASSUME Types
    PROVE  /\ Len(config.chain) \in 1..2 /\ level \in Nat
           /\ \A i \in 1..Len(config.chain) : config.chain[i] \in Searchers
<1>1. config.chain \in Chains
    BY DEF Types
<1>2. PICK n \in 1..2 : config.chain \in [1..n -> Searchers]
    BY <1>1 DEF Chains
<1>3. config.chain \in Seq(Searchers)
    BY <1>2
<1>4. Len(config.chain) = n
    BY <1>2, <1>3, LenProperties
<1>5. QED BY <1>2, <1>3, <1>4 DEF Types

LEMMA FailureIs ==
    ASSUME NEW e \in Errors \cup {"none"}, NEW limit \in Nat
    PROVE  Failure(e) \in Reports /\ Honest(Failure(e), limit)
<1>1. <<>> \in Seq(Urls) /\ Len(<<>>) = 0
    OBVIOUS
<1>2. QED BY <1>1 DEF Failure, Reports, Honest

LEMMA ReportIs ==
    ASSUME NEW r \in Seq(Urls), NEW d \in BOOLEAN, NEW limit \in Nat, Len(r) <= limit
    PROVE  Report(r, d) \in Reports /\ Honest(Report(r, d), limit)
BY DEF Report, Reports, Honest

\* An upstream's answer, cut to the limit.
LEMMA CutReportIs ==
    ASSUME NEW hits \in HitLists, NEW d \in BOOLEAN, NEW limit \in Nat
    PROVE  Report(Cut(hits, limit), d) \in Reports /\ Honest(Report(Cut(hits, limit), d), limit)
<1>0. PICK S \in {[1..n -> Urls] : n \in 0..MaxHits} : hits \in S
    BY DEF HitLists
<1>1. PICK n \in 0..MaxHits : hits \in [1..n -> Urls]
    BY <1>0
<1>a. hits \in Seq(Urls)
    BY <1>1, SearchAssumption
<1>2. Cut(hits, limit) \in Seq(Urls) /\ Len(Cut(hits, limit)) <= limit
    BY <1>a, CutIs
<1>3. QED BY <1>2, ReportIs

\* What the chain makes of two answers is an answer; an error is the first one's, and
\* an empty success means that the first did succeed with nothing.
LEMMA CombineIs ==
    ASSUME NEW a \in Reports, NEW b \in Reports, request.limit \in Nat \ {0},
           Honest(a, request.limit), Honest(b, request.limit),
           Decide(a, request.limit) # "keep"
    PROVE  /\ Combine(a, b) \in Reports /\ Honest(Combine(a, b), request.limit)
           /\ Combine(a, b).err # "none" => Combine(a, b).err = a.err
           /\ (Combine(a, b).err = "none" /\ Combine(a, b).results = <<>>) =>
                 a.err = "none" /\ a.results = <<>>
           /\ (a.results # <<>> /\ b.results # <<>>) =>
                 Combine(a, b).results = Merge(a.results, b.results, request.limit)
<1> DEFINE m == Merge(a.results, b.results, request.limit)
           r == Report(m, b.degraded)
<1>1. /\ a.results \in Seq(Urls) /\ b.results \in Seq(Urls) /\ b.degraded \in BOOLEAN
    BY DEF Reports
<1>2. m \in Seq(Urls) /\ Len(m) <= request.limit /\ (a.results # <<>> => m # <<>>)
    BY <1>1, MergeIs
<1> HIDE DEF m
<1>3. r \in Reports /\ Honest(r, request.limit) /\ r.err = "none" /\ r.results = m
    BY <1>1, <1>2, ReportIs DEF Report
<1> HIDE DEF r
<1>4. Combine(a, b) = IF b.err # "none" \/ (a.err # "none" /\ b.results = <<>>) THEN a
                      ELSE IF Decide(a, request.limit) = "replace" THEN b ELSE r
    BY DEF Combine, r, m
<1>5. /\ Decide(a, request.limit) = "replace" => a.err # "none" \/ a.results = <<>>
      /\ Decide(a, request.limit) # "replace" => a.err = "none" /\ a.results # <<>>
    BY DEF Decide
<1>6. a.err # "none" => a.results = <<>>
    BY DEF Honest
<1>7. b.err # "none" => b.results = <<>>
    BY DEF Honest
<1>8. CASE b.err # "none" \/ (a.err # "none" /\ b.results = <<>>)
    BY <1>4, <1>6, <1>7, <1>8
<1>9. CASE ~(b.err # "none" \/ (a.err # "none" /\ b.results = <<>>)) /\ Decide(a, request.limit) = "replace"
    BY <1>4, <1>5, <1>6, <1>7, <1>9
<1>10. CASE ~(b.err # "none" \/ (a.err # "none" /\ b.results = <<>>)) /\ Decide(a, request.limit) # "replace"
    BY <1>2, <1>3, <1>4, <1>5, <1>10 DEF m
<1>11. QED BY <1>8, <1>9, <1>10

-----------------------------------------------------------------------------
(* Every action keeps the invariant.                                       *)

LEMMA InitSafe == Init => IInv
<1> SUFFICES ASSUME Init PROVE IInv
    OBVIOUS
<1>1. Failure("none") \in Reports
    BY FailureIs
<1>2. config.chain \in Chains
    BY DEF Init
<1>3. Len(config.chain) \in Nat
    <2>1. PICK n \in 1..2 : config.chain \in [1..n -> Searchers]
        BY <1>2 DEF Chains
    <2>2. config.chain \in Seq(Searchers)
        BY <2>1
    <2>3. QED BY <2>2, LenProperties
<1>4. request \in [valid : BOOLEAN, query : {"empty", "blank", "text"}, site : BOOLEAN, limit : Nat]
      /\ request.limit \in Limits
    BY SearchAssumption DEF Init, Requests
<1>5. answers \in Seq(Reports) /\ Len(answers) = 0
    BY DEF Init
<1>6. reply \in [status : {0, 200, 400, 502}, result : Reports]
    BY <1>1 DEF Init, NoReply
<1>7. Types
    BY <1>3, <1>4, <1>5, <1>6, SearchAssumption DEF Init, Types
<1>8. QED BY <1>5, <1>7 DEF Init, IInv, Untouched, Working

\* A searcher returns: its backup begins, or the reply is made.
LEMMA ReturnSafe ==
    ASSUME IInv, pc \in Working, NEW a \in Reports, Honest(a, request.limit), Return(a)
    PROVE  IInv'
<1>1. /\ Types /\ AtWork /\ pc # "idle" /\ pc # "done"
      /\ \A i \in 1..Len(answers) : Honest(answers[i], request.limit)
    BY DEF IInv, Working
<1>2. /\ answers' = Append(answers, a) /\ held' = held \ {Current}
      /\ config' = config /\ request' = request /\ live' = live /\ busy' = busy /\ spent' = spent
    BY DEF Return
<1>3. /\ answers \in Seq(Reports) /\ Len(answers) \in Nat /\ Len(answers) = level - 1
      /\ level \in 1..2 /\ Len(config.chain) \in 1..2 /\ level <= Len(config.chain)
      /\ request.limit \in Nat \ {0}
    BY <1>1, ChainIs, SearchAssumption, LenProperties DEF Types, AtWork
<1>4. /\ answers' \in Seq(Reports) /\ Len(answers') = level
      /\ \A i \in 1..Len(answers) : answers'[i] = answers[i]
      /\ answers'[level] = a
    BY <1>2, <1>3, AppendProperties
<1>5. \A i \in 1..Len(answers') : Honest(answers'[i], request.limit)
    BY <1>1, <1>3, <1>4
<1>6. held' = {}
    BY <1>1, <1>2 DEF AtWork
<1>7. level = 2 => /\ answers'[1] = answers[1] /\ BackupCalled /\ answers[1] \in Reports
                   /\ Honest(answers[1], request.limit)
    BY <1>1, <1>3, <1>4, ElementOfSeq DEF AtWork
<1>8. CASE level < Len(config.chain) /\ live /\ Decide(a, request.limit) # "keep"
    <2>1. Begin(level + 1) /\ reply' = reply
        BY <1>8 DEF Return
    <2>2. /\ level' = 2 /\ level = 1 /\ tries' = 0 /\ pc' \in {"refusing", "queued", "send"}
        <3>0. level < Len(config.chain)
            BY <1>8
        <3>a. level \in 1..2 /\ Len(config.chain) \in 1..2
            BY <1>3
        <3>1. level = 1
            <4>1. \A x, y \in 1..2 : x < y => x = 1
                OBVIOUS
            <4>2. QED BY <3>a, <3>0, <4>1
        <3>2. pc' \in {"refusing", "queued", "send"}
            BY <2>1 DEF Begin
        <3>3. QED BY <2>1, <3>1, <3>2 DEF Begin
    <2>3. Types'
        BY <1>1, <1>2, <1>3, <1>4, <1>6, <1>8, <2>1, <2>2, SearchAssumption DEF Types, Working
    <2>4. BackupCalled'
        BY <1>2, <1>4, <1>8, <2>2 DEF BackupCalled, Decide, ThinBelow
    <2>5. AtWork'
        BY <1>1, <1>2, <1>4, <1>6, <2>2, <2>4, SearchAssumption DEF AtWork
    <2>6. QED BY <1>2, <1>5, <2>2, <2>3, <2>5 DEF IInv, Working
<1>9. CASE ~(level < Len(config.chain) /\ live /\ Decide(a, request.limit) # "keep")
    <2> DEFINE r == Outcome(answers')
    <2>1. /\ pc' = "done" /\ level' = level /\ tries' = tries
          /\ reply' = [status |-> IF r.err = "none" THEN 200 ELSE 502, result |-> r]
        BY <1>9 DEF Return
    <2>2. r = IF level = 1 THEN a ELSE Combine(answers[1], a)
        BY <1>3, <1>4, <1>7 DEF Outcome
    <2>3. r \in Reports
        BY <1>3, <1>7, <2>2, CombineIs DEF BackupCalled
    <2> HIDE DEF r
    <2>4. Types'
        BY <1>1, <1>2, <1>4, <1>6, <2>1, <2>3 DEF Types
    <2>5. level = 2 => BackupCalled'
        BY <1>2, <1>7 DEF BackupCalled, Decide, ThinBelow
    <2>6. answers' # <<>>
        BY <1>3, <1>4
    <2>7. Outcome(answers)' = r
        BY <1>2 DEF r, Outcome, Combine, Decide, ThinBelow
    <2>8. Replied'
        BY <1>1, <1>2, <1>3, <1>4, <1>6, <2>1, <2>5, <2>6, <2>7 DEF Replied, AtWork
    <2>9. QED BY <1>2, <1>5, <2>1, <2>4, <2>8 DEF IInv, Working
<1>10. QED BY <1>8, <1>9

\* A searcher that ends with an error.
LEMMA FailureSafe ==
    ASSUME IInv, pc \in Working, NEW e \in Errors, Return(Failure(e))
    PROVE  IInv'
<1>1. request.limit \in Nat
    BY DEF IInv, Types
<1>2. Failure(e) \in Reports /\ Honest(Failure(e), request.limit)
    BY <1>1, FailureIs
<1>3. QED BY <1>2, ReturnSafe

LEMMA RefuseSafe == IInv /\ Refuse => IInv'
<1> SUFFICES ASSUME IInv, Refuse PROVE IInv'
    OBVIOUS
<1>1. Failure("none") \in Reports
    BY FailureIs DEF IInv, Types
<1>2. Types'
    BY <1>1 DEF IInv, Types, Refuse
<1>3. Replied'
    BY DEF IInv, Refuse, Replied, Untouched
<1>4. QED BY <1>2, <1>3 DEF IInv, Refuse, Working

LEMMA AcceptSafe == IInv /\ Accept => IInv'
<1> SUFFICES ASSUME IInv, Accept PROVE IInv'
    OBVIOUS
<1>1. request.limit \in Nat /\ Len(config.chain) \in 1..2 /\ Types
    BY ChainIs DEF IInv, Types
<1>2. ClampLimit(request.limit) \in 1..MaxResults
    <2>1. (IF request.limit >= 1 THEN request.limit ELSE DefaultLimit) \in Nat \ {0}
        BY <1>1, SearchAssumption
    <2>2. QED BY <2>1, SearchAssumption, MinOfTwo DEF ClampLimit
<1>3. /\ request' = [request EXCEPT !.limit = ClampLimit(request.limit)]
      /\ config' = config /\ live' = live /\ held' = held /\ busy' = busy
      /\ answers' = answers /\ spent' = spent /\ reply' = reply
      /\ level' = 1 /\ tries' = 0 /\ pc' \in {"refusing", "queued", "send"}
    BY DEF Accept, Begin
<1>4. /\ request' \in [valid : BOOLEAN, query : {"empty", "blank", "text"}, site : BOOLEAN, limit : Nat]
      /\ request'.limit \in 1..MaxResults
    BY <1>1, <1>2, <1>3, SearchAssumption DEF Types
<1>a. level' \in 0..Len(config'.chain) /\ tries' \in 0..MaxAttempts
    <2>1. \A n \in 1..2 : 1 \in 0..n
        OBVIOUS
    <2>2. 1 \in 0..Len(config.chain)
        BY <1>1, <2>1
    <2>3. QED BY <1>3, <2>2, SearchAssumption
<1>5. Types'
    BY <1>1, <1>3, <1>4, <1>a DEF Types, Working
<1>6. answers = <<>> /\ held = {} /\ Len(answers) = 0
    BY DEF IInv, Accept, Untouched
<1>7. AtWork'
    BY <1>3, <1>4, <1>6, SearchAssumption DEF AtWork
<1>8. QED BY <1>3, <1>5, <1>6, <1>7 DEF IInv, Working

LEMMA AdmittedSafe == IInv /\ Admitted => IInv'
<1> SUFFICES ASSUME IInv, Admitted PROVE IInv'
    OBVIOUS
<1>1. /\ config' = config /\ request' = request /\ answers' = answers /\ reply' = reply
      /\ level' = level /\ tries' = tries /\ busy' = busy
      /\ pc = "queued" /\ pc' = "send" /\ held' = held \cup {Current}
    BY DEF Admitted
<1>2. Types /\ AtWork
    BY <1>1 DEF IInv, Working
<1>3. level \in 1..Len(config.chain)
    BY <1>2, ChainIs DEF Types, AtWork
<1>4. Current \in Searchers
    BY <1>2, <1>3, ChainIs DEF Current
<1>5. Types'
    BY <1>1, <1>2, <1>4 DEF Types, Working
<1>6. Current' = Current /\ (BackupCalled' <=> BackupCalled)
    BY <1>1 DEF Current, BackupCalled, Decide, ThinBelow
<1>7. AtWork'
    BY <1>1, <1>2, <1>6 DEF AtWork
<1>8. QED BY <1>1, <1>5, <1>7 DEF IInv, Working

LEMMA SendSafe == IInv /\ Send => IInv'
<1> SUFFICES ASSUME IInv, Send PROVE IInv'
    OBVIOUS
<1>1. CASE ~live
    BY <1>1, FailureSafe DEF Send, Working, Errors
<1>2. CASE live
    <2>1. /\ config' = config /\ request' = request /\ answers' = answers /\ reply' = reply
          /\ level' = level /\ held' = held /\ busy' = busy
          /\ pc = "send" /\ pc' = "flight" /\ tries' = tries + 1
        BY <1>2 DEF Send
    <2>2. Types /\ AtWork
        BY <2>1 DEF IInv, Working
    <2>3. tries' \in 0..MaxAttempts
        BY <2>1, <2>2, SearchAssumption DEF Types, AtWork
    <2>4. Types'
        BY <2>1, <2>2, <2>3 DEF Types, Working
    <2>5. Current' = Current /\ (BackupCalled' <=> BackupCalled)
        BY <2>1 DEF Current, BackupCalled, Decide, ThinBelow
    <2>6. AtWork'
        BY <2>1, <2>2, <2>5 DEF AtWork
    <2>7. QED BY <2>1, <2>4, <2>6 DEF IInv, Working
<1>3. QED BY <1>1, <1>2

LEMMA AnswersSafe == IInv /\ (SearXNGAnswers \/ TinyFishAnswers) => IInv'
<1> SUFFICES ASSUME IInv, SearXNGAnswers \/ TinyFishAnswers PROVE IInv'
    OBVIOUS
<1>1. request.limit \in Nat
    BY DEF IInv, Types
<1>2. CASE SearXNGAnswers
    <2>1. PICK hits \in HitLists, rows, unresponsive \in SUBSET Engines :
              Return(Report(Cut(hits, request.limit), Degraded(request.site, rows, unresponsive)))
        BY <1>2 DEF SearXNGAnswers
    <2>2. Degraded(request.site, rows, unresponsive) \in BOOLEAN
        BY DEF Degraded
    <2>3. pc \in Working
        BY <1>2 DEF SearXNGAnswers, Working
    <2>4. QED BY <1>1, <2>1, <2>2, <2>3, CutReportIs, ReturnSafe
<1>3. CASE TinyFishAnswers
    <2>1. PICK hits \in HitLists : Return(Report(Cut(hits, request.limit), FALSE))
        BY <1>3 DEF TinyFishAnswers
    <2>2. pc \in Working
        BY <1>3 DEF TinyFishAnswers, Working
    <2>3. QED BY <1>1, <2>1, <2>2, CutReportIs, ReturnSafe
<1>4. QED BY <1>2, <1>3

LEMMA RetrySafe == IInv /\ RetryableFault => IInv'
<1> SUFFICES ASSUME IInv, RetryableFault PROVE IInv'
    OBVIOUS
<1>1. PICK e \in {"rate", "fault"} :
         IF Retried(e) /\ AttemptLeft
         THEN /\ pc' = "send"
              /\ UNCHANGED <<config, request, live, level, tries, held, busy, answers, spent, reply>>
         ELSE Return(Failure(e))
    BY DEF RetryableFault
<1>2. pc = "flight" /\ pc \in Working /\ e \in Errors
    BY DEF RetryableFault, Working, Errors
<1>3. CASE ~(Retried(e) /\ AttemptLeft)
    BY <1>1, <1>2, <1>3, FailureSafe
<1>4. CASE Retried(e) /\ AttemptLeft
    <2>1. /\ config' = config /\ request' = request /\ answers' = answers /\ reply' = reply
          /\ level' = level /\ tries' = tries /\ held' = held /\ busy' = busy
          /\ pc' = "send" /\ tries < MaxAttempts
        BY <1>1, <1>4 DEF AttemptLeft
    <2>2. Types /\ AtWork
        BY <1>2 DEF IInv
    <2>3. Types'
        BY <2>1, <2>2 DEF Types, Working
    <2>4. Current' = Current /\ (BackupCalled' <=> BackupCalled)
        BY <2>1 DEF Current, BackupCalled, Decide, ThinBelow
    <2>5. AtWork'
        BY <2>1, <2>2, <2>4 DEF AtWork
    <2>6. QED BY <1>2, <2>1, <2>3, <2>5 DEF IInv, Working
<1>5. QED BY <1>3, <1>4

\* The searchers' other ends.
LEMMA EndsSafe ==
    IInv /\ (RefuseBlank \/ QueueOver \/ Fails \/ Canceled \/ PrimaryBudget) => IInv'
<1> SUFFICES ASSUME IInv, RefuseBlank \/ QueueOver \/ Fails \/ Canceled \/ PrimaryBudget PROVE IInv'
    OBVIOUS
<1>1. pc \in Working
    BY DEF RefuseBlank, QueueOver, Fails, Canceled, PrimaryBudget, Working
<1>2. \E e \in Errors : Return(Failure(e))
    <2>1. CASE RefuseBlank BY <2>1 DEF RefuseBlank, Errors
    <2>2. CASE QueueOver BY <2>2 DEF QueueOver, Errors
    <2>3. CASE Fails
        <3>1. PICK e \in {"status", "unreadable", "timeout"}
                    \cup (IF Current = "tinyfish" THEN {"quota"} ELSE {}) : Return(Failure(e))
            BY <2>3 DEF Fails
        <3>2. e \in Errors
            BY DEF Errors
        <3>3. QED BY <3>1, <3>2
    <2>4. CASE Canceled BY <2>4 DEF Canceled, Errors
    <2>5. CASE PrimaryBudget BY <2>5 DEF PrimaryBudget, Errors
    <2>6. QED BY <2>1, <2>2, <2>3, <2>4, <2>5
<1>3. QED BY <1>1, <1>2, FailureSafe

\* The caller, the other searches, and steps of others altogether.
LEMMA OthersSafe == IInv /\ (HangUp \/ Compete \/ UNCHANGED vars) => IInv'
<1> SUFFICES ASSUME IInv, HangUp \/ Compete \/ UNCHANGED vars PROVE IInv'
    OBVIOUS
<1>1. /\ config' = config /\ request' = request /\ answers' = answers /\ reply' = reply
      /\ level' = level /\ tries' = tries /\ held' = held /\ pc' = pc
    BY DEF HangUp, Compete, vars
<1>2. busy' \subseteq Searchers
    <2>1. CASE Compete
        <3>1. Types /\ AtWork
            BY <2>1 DEF IInv, Compete, Working
        <3>2. level \in 1..Len(config.chain)
            BY <3>1, ChainIs DEF Types, AtWork
        <3>3. Current \in Searchers
            BY <3>1, <3>2, ChainIs DEF Current
        <3>4. QED BY <2>1, <3>1, <3>3 DEF Compete, Types
    <2>2. CASE HangUp \/ UNCHANGED vars
        BY <2>2 DEF HangUp, vars, IInv, Types
    <2>3. QED BY <2>1, <2>2
<1>3. Types'
    BY <1>1, <1>2 DEF IInv, Types
<1>4. Current' = Current /\ (BackupCalled' <=> BackupCalled) /\ (answers # <<>> => Outcome(answers)' = Outcome(answers))
    BY <1>1 DEF Current, BackupCalled, Decide, ThinBelow, Outcome, Combine
<1>5. AtWork => AtWork'
    BY <1>1, <1>4 DEF AtWork
<1>6. Replied => Replied'
    BY <1>1, <1>4 DEF Replied
<1>7. QED BY <1>1, <1>3, <1>5, <1>6 DEF IInv, Untouched

LEMMA StepSafe == IInv /\ [Next]_vars => IInv'
<1> SUFFICES ASSUME IInv, [Next]_vars PROVE IInv'
    OBVIOUS
<1>1. CASE Searching
    BY <1>1, EndsSafe, AdmittedSafe, SendSafe, AnswersSafe, RetrySafe DEF Searching
<1>2. CASE Refuse \/ Accept
    BY <1>2, RefuseSafe, AcceptSafe
<1>3. CASE HangUp \/ Compete \/ UNCHANGED vars
    BY <1>3, OthersSafe
<1>4. QED BY <1>1, <1>2, <1>3 DEF Next, Handling

LEMMA Invariant == Spec => []IInv
<1>1. QED BY InitSafe, StepSafe, PTL DEF Spec

-----------------------------------------------------------------------------
(* What follows.                                                           *)

LEMMA TypesHold == IInv => TypeOK
BY DEF IInv, Types, TypeOK, AtWork, Working

\* The first two answers, and what the reply makes of them.
LEMMA RepliedIs ==
    ASSUME IInv, pc = "done"
    PROVE  /\ reply.result \in Reports /\ Honest(reply.result, request.limit)
           /\ answers # <<>> =>
                /\ request.limit \in Nat \ {0}
                /\ answers[1] \in Reports /\ Honest(answers[1], request.limit)
                /\ reply.status = IF reply.result.err = "none" THEN 200 ELSE 502
                /\ \/ Len(answers) = 1 /\ reply.result = answers[1]
                   \/ /\ Len(answers) = 2 /\ BackupCalled
                      /\ answers[2] \in Reports /\ Honest(answers[2], request.limit)
                      /\ reply.result = Combine(answers[1], answers[2])
<1>1. /\ Types /\ Replied /\ request.limit \in Nat
      /\ \A i \in 1..Len(answers) : Honest(answers[i], request.limit)
    BY DEF IInv, Types
<1>2. answers \in Seq(Reports) /\ Len(answers) \in Nat /\ (answers # <<>> => Len(answers) \in 1..2)
    <2>1. answers \in Seq(Reports)
        BY <1>1 DEF Types
    <2>2. Len(answers) \in Nat /\ (answers # <<>> => Len(answers) # 0)
        BY <2>1, LenProperties, EmptySeq
    <2>3. answers # <<>> => Len(answers) <= 2
        BY <1>1 DEF Replied
    <2>4. \A n \in Nat : n # 0 /\ n <= 2 => n \in 1..2
        OBVIOUS
    <2>5. answers # <<>> => Len(answers) \in 1..2
        BY <2>2, <2>3, <2>4
    <2>6. QED BY <2>1, <2>2, <2>5
<1>3. \A i \in 1..Len(answers) : answers[i] \in Reports
    BY <1>2, ElementOfSeq
<1>4. CASE answers = <<>>
    BY <1>1, <1>4, FailureIs DEF Replied
<1>5. CASE answers # <<>> /\ Len(answers) = 1
    BY <1>1, <1>3, <1>5, SearchAssumption DEF Replied, Outcome
<1>6. CASE answers # <<>> /\ Len(answers) = 2
    <2>1. /\ answers[1] \in Reports /\ answers[2] \in Reports /\ request.limit \in Nat \ {0}
          /\ Honest(answers[1], request.limit) /\ Honest(answers[2], request.limit)
          /\ BackupCalled /\ reply.result = Combine(answers[1], answers[2])
          /\ reply.status = IF reply.result.err = "none" THEN 200 ELSE 502
        BY <1>1, <1>3, <1>6, SearchAssumption DEF Replied, Outcome
    <2>2. reply.result \in Reports /\ Honest(reply.result, request.limit)
        BY <2>1, CombineIs DEF BackupCalled
    <2>3. QED BY <1>6, <2>1, <2>2
<1>7. QED BY <1>2, <1>4, <1>5, <1>6

LEMMA FailureIsKept == IInv => FailureKept
<1> SUFFICES ASSUME IInv, pc = "done", answers # <<>>
             PROVE  /\ reply.status = 502 => reply.result.err = answers[1].err
                    /\ reply.status = 200 /\ reply.result.results = <<>> =>
                           answers[1].err = "none" /\ answers[1].results = <<>>
    BY TypesHold DEF FailureKept
<1>1. CASE reply.result = answers[1]
    BY <1>1, RepliedIs
<1>2. CASE /\ Len(answers) = 2 /\ BackupCalled
           /\ answers[2] \in Reports /\ Honest(answers[2], request.limit)
           /\ reply.result = Combine(answers[1], answers[2])
    <2>1. /\ request.limit \in Nat \ {0} /\ answers[1] \in Reports /\ Honest(answers[1], request.limit)
          /\ reply.status = IF reply.result.err = "none" THEN 200 ELSE 502
        BY RepliedIs
    <2>2. QED BY <1>2, <2>1, CombineIs DEF BackupCalled
<1>3. QED BY <1>1, <1>2, RepliedIs

LEMMA TopUpIsFair == IInv => TopUpKeepsRanks
<1> DEFINE out == reply.result.results
           p == answers[1].results
           q == answers[2].results
           pages == {UrlKey(u) : u \in Range(p) \cup Range(q)}
           Among(u, n) == n <= request.limit => \E j \in 1..Min({n, Len(out)}) : UrlKey(out[j]) = UrlKey(u)
<1> SUFFICES ASSUME IInv, pc = "done", Len(answers) = 2, \A i \in 1..2 : answers[i].results # <<>>
             PROVE  /\ \A i \in DOMAIN p : Among(p[i], 2 * i - 1)
                    /\ \A i \in DOMAIN q : Among(q[i], 2 * i)
                    /\ \A i, j \in DOMAIN out : UrlKey(out[i]) = UrlKey(out[j]) => i = j
                    /\ Len(out) = Min({request.limit, Cardinality(pages)})
    BY DEF TopUpKeepsRanks
<1>1. answers # <<>> /\ p # <<>> /\ q # <<>>
    OBVIOUS
<1>2. /\ request.limit \in Nat \ {0} /\ BackupCalled
      /\ answers[1] \in Reports /\ Honest(answers[1], request.limit)
      /\ answers[2] \in Reports /\ Honest(answers[2], request.limit)
      /\ reply.result = Combine(answers[1], answers[2])
    BY <1>1, RepliedIs
<1>3. p \in Seq(Urls) /\ q \in Seq(Urls) /\ out = Merge(p, q, request.limit)
    BY <1>1, <1>2, CombineIs DEF BackupCalled, Reports
<1> HIDE DEF p, q, out
<1>4. /\ out \in Seq(Urls)
      /\ \A i \in 1..Len(p) : 2 * i - 1 <= request.limit => Within(p[i], out, 2 * i - 1)
      /\ \A i \in 1..Len(q) : 2 * i <= request.limit => Within(q[i], out, 2 * i)
      /\ OncePerPage(out)
      /\ Len(out) = Min({request.limit, Cardinality(pages)})
    <2> DEFINE limit == request.limit
    <2>1. limit \in Nat \ {0} /\ p \in Seq(Urls) /\ q \in Seq(Urls) /\ out = Merge(p, q, limit)
        BY <1>2, <1>3
    <2> HIDE DEF limit
    <2>2. /\ out \in Seq(Urls)
          /\ \A i \in 1..Len(p) : 2 * i - 1 <= limit => Within(p[i], out, 2 * i - 1)
          /\ \A i \in 1..Len(q) : 2 * i <= limit => Within(q[i], out, 2 * i)
          /\ OncePerPage(out)
          /\ Len(out) = Min({limit, Cardinality(pages)})
        BY <2>1, MergeIs
    <2>3. QED BY <2>2 DEF limit
<1>5. /\ Len(out) \in Nat /\ DOMAIN out = 1..Len(out)
      /\ Len(p) \in Nat /\ DOMAIN p = 1..Len(p)
      /\ Len(q) \in Nat /\ DOMAIN q = 1..Len(q)
    BY <1>3, <1>4, LenProperties
<1> HIDE DEF pages
<1>6. ASSUME NEW u, NEW n \in Nat, n <= request.limit => Within(u, out, n) PROVE Among(u, n)
    <2>1. Min({n, Len(out)}) = IF n <= Len(out) THEN n ELSE Len(out)
        BY <1>5, MinOfTwo
    <2>2. QED BY <1>5, <1>6, <2>1 DEF Within
<1> HIDE DEF Among
<1>7. \A i \in DOMAIN p : Among(p[i], 2 * i - 1)
    <2> TAKE i \in DOMAIN p
    <2>1. i \in 1..Len(p) /\ 2 * i - 1 \in Nat
        BY <1>5
    <2>2. QED BY <1>4, <1>6, <2>1
<1>8. \A i \in DOMAIN q : Among(q[i], 2 * i)
    <2> TAKE i \in DOMAIN q
    <2>1. i \in 1..Len(q) /\ 2 * i \in Nat
        BY <1>5
    <2>2. QED BY <1>4, <1>6, <2>1
<1>9. QED BY <1>4, <1>5, <1>7, <1>8 DEF OncePerPage

\* An error is the first searcher's, with its reason, and an empty success means that
\* the first searcher did succeed with nothing (failover.Search), whatever the upstreams
\* answer and whenever the caller leaves.
THEOREM FailureStands == Spec => []FailureKept
BY Invariant, FailureIsKept, PTL

\* A top-up buries neither ranking, repeats no page and leaves none out that the limit
\* allows (merge), for rankings of any length.
THEOREM TopUpFair == Spec => []TopUpKeepsRanks
BY Invariant, TopUpIsFair, PTL

-----------------------------------------------------------------------------
(* The chain is a searcher.                                                *)

\* What the contract sees of a search.
Phase == IF pc \in {"idle", "done"} THEN pc ELSE "asked"
Surplus == IF pc = "done" THEN Max({0, Len(reply.result.results) - request.limit}) ELSE 0
WithinLimit == Surplus = 0

LEMMA NoSurplus == IInv => Surplus = 0
<1> SUFFICES ASSUME IInv, pc = "done" PROVE Max({0, Len(reply.result.results) - request.limit}) = 0
    BY DEF Surplus
<1>1. request.limit \in Nat /\ reply.result \in Reports /\ Honest(reply.result, request.limit)
    BY RepliedIs DEF IInv, Types
<1>2. /\ Len(reply.result.results) \in Nat
      /\ Len(reply.result.results) <= request.limit
    BY <1>1, LenProperties DEF Reports, Honest
<1>3. QED BY <1>1, <1>2, MaxOfTwo

LEMMA NoSurplusNext == IInv' => WithinLimit'
<1>1. IInv => WithinLimit
    BY NoSurplus DEF WithinLimit
<1>2. QED BY <1>1, PTL

\* Nothing, or the one slot of the searcher asked.
LEMMA SlotsAre ==
    ASSUME IInv
    PROVE  /\ Cardinality(held) \in {0, 1} /\ (held = {} => Cardinality(held) = 0)
           /\ pc \notin Working => held = {}
<1>1. pc \notin Working => held = {}
    BY DEF IInv, Types, Untouched, Replied
<1>2. pc \in Working => held = {} \/ held = {Current}
    BY DEF IInv, AtWork
<1>3. QED BY <1>1, <1>2, FS_EmptySet, FS_Singleton

\* A searcher that returns either ends the search or gives its slot back.
LEMMA ReturnMaps ==
    ASSUME IInv, IInv', pc \in Working, NEW a, Return(a)
    PROVE  Searcher!Next \/ UNCHANGED Searcher!vars
<1>1. Surplus = 0 /\ Surplus' = 0 /\ Phase = "asked"
    BY NoSurplus, NoSurplusNext DEF WithinLimit, Phase, Working
<1>2. live' = live /\ spent' = spent /\ held' = {}
    BY DEF Return, IInv, AtWork
<1>3. Cardinality(held) \in {0, 1} /\ Cardinality(held)' = 0
    BY <1>2, SlotsAre, FS_EmptySet
<1>4. pc' \in {"refusing", "queued", "send", "done"}
    BY DEF Return, Begin
<1>5. CASE pc' = "done"
    BY <1>1, <1>2, <1>3, <1>5 DEF Phase, Surplus, Searcher!Next, Searcher!Answer
<1>6. CASE pc' # "done"
    <2>1. Phase' = "asked"
        BY <1>4, <1>6 DEF Phase
    <2>2. QED BY <1>1, <1>2, <1>3, <2>1
                 DEF Phase, Surplus, Searcher!Next, Searcher!GiveSlot, Searcher!vars
<1>7. QED BY <1>5, <1>6

LEMMA StepMaps ==
    ASSUME IInv, IInv', [Next]_vars
    PROVE  Searcher!Next \/ UNCHANGED Searcher!vars
<1>1. Surplus = 0 /\ Surplus' = 0
    BY NoSurplus, NoSurplusNext DEF WithinLimit
<1>2. CASE \E a : pc \in Working /\ Return(a)
    BY <1>2, ReturnMaps
<1>3. CASE Refuse
    <2>1. held = {} /\ held' = {} /\ pc = "idle" /\ pc' = "done" /\ live' = live /\ spent' = spent
        BY <1>3, SlotsAre DEF Refuse, Working
    <2>2. Cardinality(held)' = 0
        BY <2>1, SlotsAre
    <2>3. QED BY <1>1, <2>1, <2>2 DEF Surplus, Searcher!Next, Searcher!Answer
<1>4. CASE Accept
    <2>1. /\ held' = held /\ pc = "idle" /\ pc' \in {"refusing", "queued", "send"}
          /\ live' = live /\ spent' = spent
        BY <1>4 DEF Accept, Begin
    <2>2. QED BY <1>1, <2>1 DEF Surplus, Searcher!Next, Searcher!Ask
<1>5. CASE Admitted
    <2>1. /\ pc = "queued" /\ pc' = "send" /\ live' = live /\ spent' = spent
          /\ held = {} /\ held' = {Current}
        BY <1>5 DEF Admitted, IInv, AtWork, Working
    <2>2. Cardinality(held) = 0 /\ Cardinality(held)' = 1
        BY <2>1, FS_EmptySet, FS_Singleton
    <2>3. QED BY <1>1, <2>1, <2>2 DEF Surplus, Searcher!Next, Searcher!TakeSlot
<1>6. CASE Send /\ live
    <2>1. /\ pc = "send" /\ pc' = "flight" /\ live' = live /\ spent' = spent + 1 /\ held' = held
        BY <1>6 DEF Send
    <2>2. QED BY <1>1, <1>6, <2>1 DEF Surplus, Searcher!Next, Searcher!Query
<1>7. CASE RetryableFault /\ pc' = "send" /\ UNCHANGED <<live, held, spent>>
    BY <1>1, <1>7 DEF RetryableFault, Surplus, Searcher!vars
<1>8. CASE HangUp
    BY <1>1, <1>8 DEF HangUp, Surplus, Searcher!Next, Searcher!HangUp
<1>9. CASE Compete
    BY <1>1, <1>9 DEF Compete, Surplus, Searcher!vars
<1>10. CASE UNCHANGED vars
    BY <1>10 DEF vars, Searcher!vars
<1>11. Searching => \/ \E a : pc \in Working /\ Return(a)
                    \/ Admitted \/ (Send /\ live)
                    \/ RetryableFault /\ pc' = "send" /\ UNCHANGED <<live, held, spent>>
    <2> SUFFICES ASSUME Searching, ~Admitted, ~(Send /\ live),
                        ~(RetryableFault /\ pc' = "send" /\ UNCHANGED <<live, held, spent>>)
                 PROVE  \E a : pc \in Working /\ Return(a)
        OBVIOUS
    <2>1. CASE RefuseBlank BY <2>1 DEF RefuseBlank, Working
    <2>2. CASE QueueOver BY <2>2 DEF QueueOver, Working
    <2>3. CASE Send BY <2>3 DEF Send, Working
    <2>4. CASE SearXNGAnswers BY <2>4 DEF SearXNGAnswers, Working
    <2>5. CASE TinyFishAnswers
        <3>1. PICK hits \in HitLists : Return(Report(Cut(hits, request.limit), FALSE))
            BY <2>5 DEF TinyFishAnswers
        <3>2. pc \in Working /\ \E a : Return(a)
            BY <2>5, <3>1 DEF TinyFishAnswers, Working
        <3>3. QED BY <3>2
    <2>6. CASE Fails BY <2>6 DEF Fails, Working
    <2>7. CASE RetryableFault BY <2>7 DEF RetryableFault, Working
    <2>8. CASE Canceled BY <2>8 DEF Canceled, Working
    <2>9. CASE PrimaryBudget BY <2>9 DEF PrimaryBudget, Working
    <2>10. QED BY <2>1, <2>2, <2>3, <2>4, <2>5, <2>6, <2>7, <2>8, <2>9 DEF Searching
<1>12. QED BY <1>2, <1>3, <1>4, <1>5, <1>6, <1>7, <1>8, <1>9, <1>10, <1>11 DEF Next, Handling

\* A chain of searchers keeps the promises of a searcher (domain.Searcher): one answer
\* within the limit, at most one slot at a time and none once it has answered, and no
\* query for a caller that has gone.
THEOREM ChainIsSearcher == Spec => SearcherSpec
<1>1. Init => Searcher!Init
    BY FS_EmptySet DEF Init, Searcher!Init
<1>2. IInv /\ IInv' /\ [Next]_vars => [Searcher!Next]_(Searcher!vars)
    BY StepMaps
<1>3. QED BY <1>1, <1>2, Invariant, PTL DEF Spec, SearcherSpec, Searcher!Spec

-----------------------------------------------------------------------------
(* A crawl by a site engine.                                               *)

\* How a read may end.
Endings == {"ok", "timeout", "http_404", "fault", "http_429", "thin_content"}

\* What a crawl of a kind may begin a round of reads with.
Heads(k) ==
    CASE k = "issue" -> {"issue", "comments"}
      [] k = "topic" -> {"print", "topic", "posts"}
      [] k = "question" -> {"question", "answers"}
      [] k = "answer" -> {"answer", "question", "answers"}
      [] k = "feed" -> {"hits", "rank"}
      [] OTHER -> {Plan[k][1]}

\* What is read beside another.
Besides == {"comments", "inline", "reviews", "files", "readme", "latest"}

\* The reads there are, and one of them under way or over.
Names == Besides \cup UNION {Heads(k) : k \in DOMAIN Plan}
Reading == [name : Names, st : Endings \cup {"flight"}]

\* The reads are those of the kind, and what came of one that went well is kept.
ReadsKept ==
    /\ reads \in Seq(Reading)
    /\ reads # <<>> => reads[1].name \in Heads(kind)
    /\ (reads # <<>> /\ kind = "pull") =>
          {"comments", "files"} \subseteq {reads[i].name : i \in DOMAIN reads}
    /\ \A i \in DOMAIN reads : i = 1 \/ reads[i].name \in Besides
    /\ \A i \in DOMAIN reads :
          (reads[i].name = "comments" \/ (reads[i].st = "ok" /\ reads[i].name \notin Optional))
             => reads[i].name \in DOMAIN got

\* What was read before these.
ReadBefore ==
    /\ stage = "pace" => tried = 1 /\ DOMAIN got = {}
    /\ reads # <<>> =>
        /\ Over("posts") => "topic" \in DOMAIN got
        /\ Over("print") => "topic" \notin DOMAIN got
        /\ Over("answers") => "question" \in DOMAIN got /\ got["question"] # <<>>
        /\ reads[1].name \in {"issue", "hits", "print", "answer"} => tried = 1
        /\ Over("question") => tried <= 2

\* An answer, once it is there, is one.
GotTyped ==
    /\ \A r \in DOMAIN got : r \notin {"posts", "comments"} => got[r] \in Answers(r)
    /\ "comments" \in DOMAIN got => got["comments"].collected \in Nat

Underway == ReadsKept /\ ReadBefore /\ GotTyped

\* The inductive invariant.
EngineIInv == EngineTypeOK /\ Underway /\ DocumentHonest

\* The first of a list.
LEMMA FirstIs ==
    ASSUME NEW D, NEW s \in Seq(D), NEW n \in Nat
    PROVE  /\ First(n, s) \in Seq(D) /\ Len(First(n, s)) = (IF n <= Len(s) THEN n ELSE Len(s))
           /\ \A i \in 1..Len(First(n, s)) : First(n, s)[i] = s[i]
           /\ \E e : e \in TakenFrom(s, First(n, s))
<1> DEFINE m == IF n <= Len(s) THEN n ELSE Len(s)
           q == SubSeq(s, 1, m)
<1>1. Len(s) \in Nat /\ \A i \in 1..Len(s) : s[i] \in D
    BY LenProperties, ElementOfSeq
<1>2. Min({n, Len(s)}) = m
    BY <1>1, MinOfTwo
<1>3. m \in Nat /\ m <= Len(s)
    BY <1>1
<1> HIDE DEF m
<1>4. q \in Seq(D) /\ Len(q) = m /\ \A i \in 1..m : q[i] = s[i]
    <2>1. \A i \in 1..m : s[i] \in D
        BY <1>1, <1>3
    <2> HIDE DEF q
    <2>2. /\ SubSeq(s, 1, m) \in Seq(D)
          /\ Len(SubSeq(s, 1, m)) = IF 1 <= m THEN m - 1 + 1 ELSE 0
          /\ \A i \in 1..(m - 1 + 1) : SubSeq(s, 1, m)[i] = s[1 + i - 1]
        BY <1>3, <2>1, SubSeqProperties, 1 \in Int, m \in Int
    <2>3. m - 1 + 1 = m /\ \A i \in 1..m : 1 + i - 1 = i
        BY <1>3
    <2>4. QED BY <1>3, <2>2, <2>3 DEF q
<1>5. q = First(n, s)
    BY <1>2 DEF First
<1> HIDE DEF q
<1>6. [k \in 1..m |-> k] \in TakenFrom(s, q)
    BY <1>1, <1>3, <1>4 DEF TakenFrom
<1>7. QED BY <1>4, <1>5, <1>6 DEF m

-----------------------------------------------------------------------------
(* The caps on a thread.                                                   *)

\* A comment comes after the one it answers.
LEMMA RepliesFollow ==
    /\ "post" \notin Ids /\ \A i \in Ids : Parent[i] \in {"post"} \cup Ids
    /\ \A i, j \in DOMAIN Order : Order[j] = Parent[Order[i]] => j < i
    /\ \E place : Ranked(Ids, Parent, place, Len(Order))
<1> DEFINE place == [i \in Ids |-> CHOOSE k \in DOMAIN Order : Order[k] = i]
<1>1. /\ DOMAIN Order = 1..Len(Order) /\ Len(Order) \in Nat /\ "post" \notin Ids
      /\ \A k, l \in DOMAIN Order : Order[k] = Order[l] => k = l
    BY EngineAssumption, LenProperties DEF IsInjective
<1>2. \A i \in Ids : place[i] \in DOMAIN Order /\ Order[place[i]] = i
    BY DEF Ids, Range
<1>3. ASSUME NEW i \in DOMAIN Order
      PROVE  \/ Parent[Order[i]] = "post"
             \/ \E j \in DOMAIN Order : Parent[Order[i]] = Order[j] /\ j < i
    <2>1. Parent[Order[i]] \in {"post"} \cup {Order[j] : j \in 1..(i - 1)}
        BY EngineAssumption
    <2>2. ASSUME NEW j \in 1..(i - 1) PROVE j \in DOMAIN Order /\ j < i
        BY <1>1
    <2>3. QED BY <2>1, <2>2
<1>4. \A i \in DOMAIN Order : Order[i] \in Ids
    BY DEF Ids, Range
<1>5. \A i, j \in DOMAIN Order : Order[j] = Parent[Order[i]] => j < i
    <2> SUFFICES ASSUME NEW i \in DOMAIN Order, NEW j \in DOMAIN Order, Order[j] = Parent[Order[i]]
                 PROVE  j < i
        OBVIOUS
    <2>1. Parent[Order[i]] # "post"
        BY <1>1, <1>4
    <2>2. PICK k \in DOMAIN Order : Parent[Order[i]] = Order[k] /\ k < i
        BY <1>3, <2>1
    <2>3. j = k
        BY <1>1, <2>2
    <2>4. QED BY <2>2, <2>3
<1>6. \A i \in Ids : Parent[i] \in {"post"} \cup Ids
    BY <1>2, <1>3, <1>4
<1>7. \A i \in Ids : Parent[i] \in Ids => place[Parent[i]] < place[i]
    BY <1>2, <1>5
<1>8. \A i \in Ids : place[i] \in 0..Len(Order)
    BY <1>1, <1>2
<1> HIDE DEF place
<1>9. Ranked(Ids, Parent, place, Len(Order))
    BY <1>1, <1>7, <1>8 DEF Ranked
<1>10. QED BY <1>1, <1>5, <1>6, <1>9

LEMMA DepthIs ==
    ASSUME NEW read \in SUBSET Ids
    PROVE  \A i \in Ids : /\ Depth[read][i] \in Nat
                          /\ Parent[i] \in read => Depth[read][i] = Depth[read][Parent[i]] + 1
<1> DEFINE body(h) == [c \in Ids |-> IF Parent[c] \in read THEN h[Parent[c]] + 1 ELSE 0]
           f == CHOOSE h : h = body(h)
           base == [c \in Ids |-> 0]
           step == [c \in Ids |-> [v \in Nat |-> v + 1]]
<1>1. Depth[read] = f
    BY DEF Depth
<1>2. \E g : g = body(g)
    <2>1. base \in [Ids -> Nat] /\ step \in [Ids -> [Nat -> Nat]]
        OBVIOUS
    <2>2. PICK g \in [Ids -> Nat] : FromAbove(g, Ids, Parent, read, base, step)
        <3> HIDE DEF base, step
        <3>1. QED BY <2>1, RepliesFollow, RankedRecursion
    <2>3. ASSUME NEW c \in Ids PROVE g[c] = body(g)[c]
        <3>1. Parent[c] \in read => g[Parent[c]] \in Nat
            BY <2>2
        <3>2. QED BY <2>2, <3>1 DEF FromAbove
    <2>4. g = body(g)
        BY <2>2, <2>3
    <2>5. QED BY <2>4
<1>3. f = body(f)
    <2> HIDE DEF body
    <2>1. QED BY <1>2
<1> HIDE DEF f
<1>4. \A i \in Ids : f[i] = IF Parent[i] \in read THEN f[Parent[i]] + 1 ELSE 0
    BY <1>3
<1> DEFINE S == {i \in Ids : f[i] \in Nat}
<1>5. S = Ids
    <2>1. \A i \in Ids : (Parent[i] \in Ids => Parent[i] \in S) => i \in S
        BY <1>4
    <2>2. S \in SUBSET Ids
        OBVIOUS
    <2> HIDE DEF S
    <2>3. QED BY <2>1, <2>2, RepliesFollow, RankedInduction
<1>6. QED BY <1>1, <1>4, <1>5

LEMMA RootIs ==
    ASSUME NEW read \in SUBSET Ids
    PROVE  \A i \in Ids : Parent[i] \in read => Root[read][i] = Root[read][Parent[i]]
<1> DEFINE body(h) == [c \in Ids |-> IF Parent[c] \in read THEN h[Parent[c]] ELSE c]
           f == CHOOSE h : h = body(h)
           base == [c \in Ids |-> c]
           step == [c \in Ids |-> [v \in Ids |-> v]]
<1>1. Root[read] = f
    BY DEF Root
<1>2. \E g : g = body(g)
    <2>1. base \in [Ids -> Ids] /\ step \in [Ids -> [Ids -> Ids]]
        OBVIOUS
    <2>2. PICK g \in [Ids -> Ids] : FromAbove(g, Ids, Parent, read, base, step)
        <3> HIDE DEF base, step
        <3>1. QED BY <2>1, RepliesFollow, RankedRecursion
    <2>3. ASSUME NEW c \in Ids PROVE g[c] = body(g)[c]
        <3>1. Parent[c] \in read => g[Parent[c]] \in Ids
            BY <2>2
        <3>2. QED BY <2>2, <3>1 DEF FromAbove
    <2>4. g = body(g)
        BY <2>2, <2>3
    <2>5. QED BY <2>4
<1>3. f = body(f)
    <2> HIDE DEF body
    <2>1. QED BY <1>2
<1> HIDE DEF f
<1>4. QED BY <1>1, <1>3

\* What is kept of the comments read, each with the one it answers.
KeptWith(kept, read) ==
    /\ kept \in SUBSET read
    /\ \A c \in kept : Parent[c] \in read => Parent[c] \in kept

LEMMA IdsFinite == IsFiniteSet(Ids)
BY EngineAssumption, RangeSize DEF Ids

\* A comment comes after the one it answers, breadth first.
LEMMA RankIs ==
    ASSUME NEW read \in SUBSET Ids, NEW group \in SUBSET read, NEW c \in read, Parent[c] \in read
    PROVE  Rank(read, group, c) \in Nat /\ Rank(read, group, Parent[c]) <= Rank(read, group, c)
<1> DEFINE at(d) == CHOOSE i \in DOMAIN Order : Order[i] = d
           ahead(a) == {d \in group : \/ Depth[read][d] < Depth[read][a]
                                      \/ Depth[read][d] = Depth[read][a] /\ at(d) < at(a)}
           p == Parent[c]
<1>1. \A a : Rank(read, group, a) = Cardinality(ahead(a))
    BY DEF Rank
<1>2. ahead(p) \subseteq ahead(c)
    <2> SUFFICES ASSUME NEW d \in ahead(p) PROVE d \in ahead(c)
        OBVIOUS
    <2>1. d \in group /\ (Depth[read][d] < Depth[read][p] \/ Depth[read][d] = Depth[read][p])
        OBVIOUS
    <2>2. d \in Ids /\ c \in Ids /\ p \in Ids
        BY <2>1
    <2>3. Depth[read][c] = Depth[read][p] + 1
        BY <2>2, DepthIs
    <2>4. Depth[read][d] \in Nat /\ Depth[read][p] \in Nat
        BY <2>2, DepthIs
    <2>5. Depth[read][d] < Depth[read][c]
        BY <2>1, <2>3, <2>4
    <2>6. QED BY <2>1, <2>5
<1>3. IsFiniteSet(ahead(c))
    <2>1. ahead(c) \in SUBSET Ids
        OBVIOUS
    <2> HIDE DEF ahead
    <2>2. QED BY <2>1, IdsFinite, FS_Subset
<1> HIDE DEF ahead
<1>4. Cardinality(ahead(p)) <= Cardinality(ahead(c)) /\ Cardinality(ahead(c)) \in Nat
    BY <1>2, <1>3, FS_Subset, FS_CardinalityType
<1>5. QED BY <1>1, <1>4

LEMMA RankType ==
    ASSUME NEW read \in SUBSET Ids, NEW group \in SUBSET read, NEW c
    PROVE  Rank(read, group, c) \in Nat
<1> DEFINE at(d) == CHOOSE i \in DOMAIN Order : Order[i] = d
           ahead(a) == {d \in group : \/ Depth[read][d] < Depth[read][a]
                                      \/ Depth[read][d] = Depth[read][a] /\ at(d) < at(a)}
<1>1. Rank(read, group, c) = Cardinality(ahead(c))
    BY DEF Rank
<1>2. ahead(c) \in SUBSET Ids
    OBVIOUS
<1> HIDE DEF ahead
<1>3. QED BY <1>1, <1>2, IdsFinite, FS_Subset, FS_CardinalityType

LEMMA TopLevelKeeps ==
    ASSUME NEW read \in SUBSET Ids, NEW n
    PROVE  KeptWith(CapTopLevel(n)[read], read)
<1> DEFINE firsts == Range(First(n, Filter(Order, {c \in read : Root[read][c] = c})))
           kept == {c \in read : n = 0 \/ Root[read][c] \in firsts}
<1>1. CapTopLevel(n)[read] = kept
    BY DEF CapTopLevel
<1> HIDE DEF firsts
<1>2. \A c \in read : Parent[c] \in read => Root[read][c] = Root[read][Parent[c]]
    BY RootIs
<1>3. QED BY <1>1, <1>2 DEF KeptWith

LEMMA PerSubtreeKeeps ==
    ASSUME NEW read \in SUBSET Ids, NEW n \in Nat
    PROVE  KeptWith(CapPerSubtree(n)[read], read)
<1> DEFINE group(c) == {d \in read : Root[read][d] = Root[read][c]}
           kept == {c \in read : n = 0 \/ Rank(read, group(c), c) < n}
<1>1. CapPerSubtree(n)[read] = kept
    BY DEF CapPerSubtree
<1>2. ASSUME NEW c \in kept, Parent[c] \in read PROVE Parent[c] \in kept
    <2>1. c \in read /\ group(Parent[c]) = group(c)
        BY <1>2, RootIs
    <2>2. group(c) \in SUBSET read
        OBVIOUS
    <2> HIDE DEF group
    <2>3. /\ Rank(read, group(c), c) \in Nat /\ Rank(read, group(c), Parent[c]) \in Nat
          /\ Rank(read, group(c), Parent[c]) <= Rank(read, group(c), c)
        BY <1>2, <2>1, <2>2, RankIs, RankType
    <2>4. n = 0 \/ Rank(read, group(Parent[c]), Parent[c]) < n
        BY <2>1, <2>3
    <2>5. QED BY <1>2, <2>4
<1>3. QED BY <1>1, <1>2 DEF KeptWith

LEMMA CommentsKeep ==
    ASSUME NEW read \in SUBSET Ids, NEW n \in Nat
    PROVE  KeptWith(CapComments(n)[read], read)
<1> DEFINE kept == {c \in read : n = 0 \/ Rank(read, read, c) < n}
<1>1. CapComments(n)[read] = kept
    BY DEF CapComments
<1>2. ASSUME NEW c \in kept, Parent[c] \in read PROVE Parent[c] \in kept
    <2>1. c \in read
        OBVIOUS
    <2>2. /\ Rank(read, read, c) \in Nat /\ Rank(read, read, Parent[c]) \in Nat
          /\ Rank(read, read, Parent[c]) <= Rank(read, read, c)
        BY <1>2, <2>1, RankIs, RankType
    <2>3. QED BY <1>2, <2>2
<1>3. QED BY <1>1, <1>2 DEF KeptWith

\* The three caps together.
LEMMA CapsKeep ==
    ASSUME NEW read \in SUBSET Ids, NEW c \in Caps
    PROVE  KeptWith(CapComments(c.max)[CapPerSubtree(c.per)[CapTopLevel(c.top)[read]]], read)
<1> DEFINE one == CapTopLevel(c.top)[read]
           two == CapPerSubtree(c.per)[one]
           three == CapComments(c.max)[two]
<1>1. c.top \in Nat /\ c.per \in Nat /\ c.max \in Nat
    BY EngineAssumption
<1>2. KeptWith(one, read)
    BY TopLevelKeeps
<1> HIDE DEF one
<1>3. one \in SUBSET Ids
    BY <1>2 DEF KeptWith
<1>4. KeptWith(two, one)
    BY <1>1, <1>3, PerSubtreeKeeps
<1> HIDE DEF two
<1>5. two \in SUBSET Ids
    BY <1>3, <1>4 DEF KeptWith
<1>6. KeptWith(three, two)
    BY <1>1, <1>5, CommentsKeep
<1> HIDE DEF three
<1>7. KeptWith(three, read)
    BY <1>2, <1>4, <1>6 DEF KeptWith
<1>8. QED BY <1>7 DEF one, two, three

-----------------------------------------------------------------------------
(* The reads of a crawl.                                                   *)

\* No round has a greater number.
Tries == Max({Splits, TopicSize, 3})

LEMMA TriesIs == Tries \in Nat /\ Splits <= Tries /\ TopicSize <= Tries /\ 3 <= Tries
<1>1. Splits \in Nat /\ TopicSize \in Nat
    BY EngineAssumption
<1>2. \E x \in {Splits, TopicSize, 3} : \A y \in {Splits, TopicSize, 3} : x >= y
    BY <1>1
<1>3. QED BY <1>1, <1>2 DEF Tries, Max

LEMMA OneReadIs ==
    ASSUME NEW S, NEW r \in S
    PROVE  <<r>> \in Seq(S) /\ <<r>> # <<>> /\ DOMAIN <<r>> = {1} /\ <<r>>[1] = r
<1>1. <<r>> \in Seq(S)
    OBVIOUS
<1>2. QED OBVIOUS

\* The first reads of a kind.
PlanOf(k) ==
    /\ Plan[k] \in Seq(Names) /\ Plan[k] # <<>> /\ Plan[k][1] \in Heads(k)
    /\ \A i \in DOMAIN Plan[k] : i = 1 \/ Plan[k][i] \in Besides
    /\ k = "pull" => {"comments", "files"} \subseteq {Plan[k][i] : i \in DOMAIN Plan[k]}
    /\ \A i \in DOMAIN Plan[k] : Plan[k][i] = "comments" => k = "pull"
    /\ Plan[k][1] \notin {"posts", "answers", "topic"}

LEMMA PlanIs ==
    ASSUME NEW k \in DOMAIN Plan
    PROVE  PlanOf(k)
<1>1. CASE k = "pull"
    <2>1. Plan[k] = <<"pull", "comments", "inline", "reviews", "files">> /\ Heads(k) = {Plan[k][1]}
        BY <1>1 DEF Plan, Heads
    <2>2. DOMAIN Plan[k] = 1..5
        BY <2>1
    <2>3. Plan[k][2] = "comments" /\ Plan[k][5] = "files" /\ 2 \in DOMAIN Plan[k] /\ 5 \in DOMAIN Plan[k]
        BY <2>1, <2>2
    <2>4. {"comments", "files"} \subseteq {Plan[k][i] : i \in DOMAIN Plan[k]}
        BY <2>3
    <2>5. \A i \in 1..5 : i = 1 \/ Plan[k][i] \in Besides
        BY <2>1 DEF Besides
    <2>6. Plan[k][1] = "pull" /\ Plan[k] # <<>> /\ Len(Plan[k]) = 5
        BY <2>1
    <2>7. \A i \in 1..5 : Plan[k][i] \in Names
        BY <2>1, <2>5 DEF Names
    <2>8. Plan[k] \in Seq(Names)
        BY <2>1, <2>2, <2>6, <2>7
    <2>9. QED BY <1>1, <2>1, <2>2, <2>4, <2>5, <2>6, <2>8 DEF PlanOf
<1>2. CASE k = "repo"
    <2>1. Plan[k] = <<"repository", "readme", "latest">> /\ Heads(k) = {Plan[k][1]}
        BY <1>2 DEF Plan, Heads
    <2>2. QED BY <1>2, <2>1 DEF PlanOf, Besides, Names
<1>3. CASE k = "tree"
    <2>1. Plan[k] = <<"directory", "readme">> /\ Heads(k) = {Plan[k][1]}
        BY <1>3 DEF Plan, Heads
    <2>2. QED BY <1>3, <2>1 DEF PlanOf, Besides, Names
<1>4. ASSUME NEW name, Plan[k] = <<name>>, name \in Heads(k),
             k # "pull", name \notin {"comments", "posts", "answers", "topic"}
      PROVE  PlanOf(k)
    <2>0. name \in Names
        BY <1>4 DEF Names
    <2>1. Plan[k] \in Seq(Names) /\ Plan[k] # <<>> /\ DOMAIN Plan[k] = {1} /\ Plan[k][1] = name
        BY <1>4, <2>0, OneReadIs
    <2>2. QED BY <1>4, <2>1 DEF PlanOf
<1>6. CASE k = "issue"
    <2>1. Plan[k] = <<"issue">>
        BY <1>6 DEF Plan
    <2>2. "issue" \in Heads(k)
        BY <1>6, <2>1 DEF Heads
    <2>3. k # "pull" /\ "issue" \notin {"comments", "posts", "answers", "topic"}
        BY <1>6
    <2>4. QED BY <1>4, <2>1, <2>2, <2>3
<1>7. CASE k = "blob"
    <2>1. Plan[k] = <<"file">>
        BY <1>7 DEF Plan
    <2>2. "file" \in Heads(k)
        BY <1>7, <2>1 DEF Heads
    <2>3. k # "pull" /\ "file" \notin {"comments", "posts", "answers", "topic"}
        BY <1>7
    <2>4. QED BY <1>4, <2>1, <2>2, <2>3
<1>8. CASE k = "discussion"
    <2>1. Plan[k] = <<"discussion">>
        BY <1>8 DEF Plan
    <2>2. "discussion" \in Heads(k)
        BY <1>8, <2>1 DEF Heads
    <2>3. k # "pull" /\ "discussion" \notin {"comments", "posts", "answers", "topic"}
        BY <1>8
    <2>4. QED BY <1>4, <2>1, <2>2, <2>3
<1>9. CASE k = "topic"
    <2>1. Plan[k] = <<"print">>
        BY <1>9 DEF Plan
    <2>2. "print" \in Heads(k)
        BY <1>9, <2>1 DEF Heads
    <2>3. k # "pull" /\ "print" \notin {"comments", "posts", "answers", "topic"}
        BY <1>9
    <2>4. QED BY <1>4, <2>1, <2>2, <2>3
<1>10. CASE k = "question"
    <2>1. Plan[k] = <<"question">>
        BY <1>10 DEF Plan
    <2>2. "question" \in Heads(k)
        BY <1>10, <2>1 DEF Heads
    <2>3. k # "pull" /\ "question" \notin {"comments", "posts", "answers", "topic"}
        BY <1>10
    <2>4. QED BY <1>4, <2>1, <2>2, <2>3
<1>11. CASE k = "answer"
    <2>1. Plan[k] = <<"answer">>
        BY <1>11 DEF Plan
    <2>2. "answer" \in Heads(k)
        BY <1>11, <2>1 DEF Heads
    <2>3. k # "pull" /\ "answer" \notin {"comments", "posts", "answers", "topic"}
        BY <1>11
    <2>4. QED BY <1>4, <2>1, <2>2, <2>3
<1>12. CASE k = "item"
    <2>1. Plan[k] = <<"item">>
        BY <1>12 DEF Plan
    <2>2. "item" \in Heads(k)
        BY <1>12, <2>1 DEF Heads
    <2>3. k # "pull" /\ "item" \notin {"comments", "posts", "answers", "topic"}
        BY <1>12
    <2>4. QED BY <1>4, <2>1, <2>2, <2>3
<1>13. CASE k = "commit"
    <2>1. Plan[k] = <<"commit">>
        BY <1>13 DEF Plan
    <2>2. "commit" \in Heads(k)
        BY <1>13, <2>1 DEF Heads
    <2>3. k # "pull" /\ "commit" \notin {"comments", "posts", "answers", "topic"}
        BY <1>13
    <2>4. QED BY <1>4, <2>1, <2>2, <2>3
<1>14. CASE k = "release"
    <2>1. Plan[k] = <<"release">>
        BY <1>14 DEF Plan
    <2>2. "release" \in Heads(k)
        BY <1>14, <2>1 DEF Heads
    <2>3. k # "pull" /\ "release" \notin {"comments", "posts", "answers", "topic"}
        BY <1>14
    <2>4. QED BY <1>4, <2>1, <2>2, <2>3
<1>15. CASE k = "feed"
    <2>1. Plan[k] = <<"hits">>
        BY <1>15 DEF Plan
    <2>2. "hits" \in Heads(k)
        BY <1>15, <2>1 DEF Heads
    <2>3. k # "pull" /\ "hits" \notin {"comments", "posts", "answers", "topic"}
        BY <1>15
    <2>4. QED BY <1>4, <2>1, <2>2, <2>3
<1>16. CASE k = "thread"
    <2>1. Plan[k] = <<"thread">>
        BY <1>16 DEF Plan
    <2>2. "thread" \in Heads(k)
        BY <1>16, <2>1 DEF Heads
    <2>3. k # "pull" /\ "thread" \notin {"comments", "posts", "answers", "topic"}
        BY <1>16
    <2>4. QED BY <1>4, <2>1, <2>2, <2>3
<1>17. CASE k = "page"
    <2>1. Plan[k] = <<"page">>
        BY <1>17 DEF Plan
    <2>2. "page" \in Heads(k)
        BY <1>17, <2>1 DEF Heads
    <2>3. k # "pull" /\ "page" \notin {"comments", "posts", "answers", "topic"}
        BY <1>17
    <2>4. QED BY <1>4, <2>1, <2>2, <2>3
<1>20. k \in {"pull", "repo", "tree", "issue", "blob", "discussion", "topic", "question", "answer",
             "item", "commit", "release", "feed", "thread", "page"}
    BY DEF Plan
<1>21. QED BY <1>1, <1>2, <1>3, <1>6, <1>7, <1>8, <1>9, <1>10, <1>11, <1>12, <1>13, <1>14, <1>15,
              <1>16, <1>17, <1>20

\* The reads that begin have their names, in order.
LEMMA StartIs ==
    ASSUME NEW names \in Seq(Names), names # <<>>, Start(names)
    PROVE  /\ reads' \in Seq(Reading) /\ reads' # <<>> /\ DOMAIN reads' = DOMAIN names
           /\ 1 \in DOMAIN names /\ IsFiniteSet(DOMAIN names)
           /\ \A i \in DOMAIN names : /\ reads'[i].name = names[i]
                                      /\ reads'[i].st \in {"flight", "timeout"}
                                      /\ reads'[i].st = "flight" => present
<1>1. Len(names) \in Nat /\ DOMAIN names = 1..Len(names) /\ Len(names) # 0
    BY LenProperties, EmptySeq
<1>2. reads' = [i \in 1..Len(names) |-> Read(names[i])]
    BY <1>1 DEF Start
<1>3. \A i \in 1..Len(names) : names[i] \in Names
    BY <1>1
<1>4. \A i \in 1..Len(names) : Read(names[i]) \in Reading
    BY <1>3 DEF Read, Reading, Endings
<1>5. reads' \in Seq(Reading)
    <2> DEFINE n == Len(names)
    <2> HIDE DEF n
    <2>1. [i \in 1..n |-> Read(names[i])] \in [1..n -> Reading] /\ n \in Nat
        BY <1>1, <1>4 DEF n
    <2>2. QED BY <1>2, <2>1 DEF n
<1>6. 1 \in DOMAIN names /\ IsFiniteSet(DOMAIN names) /\ DOMAIN reads' = DOMAIN names
    BY <1>1, <1>2, FS_Interval
<1>7. reads' # <<>>
    BY <1>6
<1>8. ASSUME NEW i \in DOMAIN names
      PROVE  /\ reads'[i].name = names[i] /\ reads'[i].st \in {"flight", "timeout"}
             /\ reads'[i].st = "flight" => present
    BY <1>1, <1>2 DEF Read
<1>9. QED BY <1>5, <1>6, <1>7, <1>8

\* One read is settled, the others go on.
LEMMA SettleIs ==
    ASSUME reads \in Seq(Reading), NEW i \in DOMAIN reads, NEW st \in Endings \cup {"flight"}, Settle(i, st)
    PROVE  /\ reads' \in Seq(Reading) /\ reads' # <<>> /\ DOMAIN reads' = DOMAIN reads
           /\ \A j \in DOMAIN reads : /\ reads'[j].name = reads[j].name
                                      /\ reads'[j].st = IF j = i THEN st ELSE reads[j].st
<1>1. DOMAIN reads = 1..Len(reads) /\ Len(reads) \in Nat /\ \A j \in DOMAIN reads : reads[j] \in Reading
    BY LenProperties, ElementOfSeq
<1>2. reads' = [reads EXCEPT ![i] = [reads[i] EXCEPT !.st = st]]
    BY DEF Settle
<1>3. [reads[i] EXCEPT !.st = st] \in Reading /\ [reads[i] EXCEPT !.st = st].st = st
      /\ [reads[i] EXCEPT !.st = st].name = reads[i].name
    BY <1>1 DEF Reading
<1>4. reads' \in Seq(Reading) /\ DOMAIN reads' = DOMAIN reads
    BY <1>2, <1>3, ExceptSeq
<1>5. reads' # <<>>
    BY <1>4
<1>6. QED BY <1>2, <1>3, <1>4, <1>5

LEMMA ErrorIs ==
    ASSUME reads \in Seq(Reading), Joined
    PROVE  /\ Error \in Endings
           /\ Error = "ok" <=> \A i \in DOMAIN reads : reads[i].st = "ok"
<1> DEFINE failed == {i \in DOMAIN reads : reads[i].st # "ok"}
<1>1. DOMAIN reads = 1..Len(reads) /\ Len(reads) \in Nat /\ \A j \in DOMAIN reads : reads[j] \in Reading
    BY LenProperties, ElementOfSeq
<1>2. \A j \in DOMAIN reads : reads[j].st \in Endings
    BY <1>1 DEF Joined, Sent, Reading
<1>3. Error = IF failed = {} THEN "ok" ELSE reads[Min(failed)].st
    BY DEF Error
<1>4. failed # {} => Min(failed) \in failed
    <2>1. failed \in SUBSET Nat
        BY <1>1
    <2> HIDE DEF failed
    <2>2. QED BY <2>1, MinIsLeast
<1>5. QED BY <1>2, <1>3, <1>4 DEF Endings

LEMMA KindPlanned == ASSUME EngineTypeOK PROVE kind \in DOMAIN Plan
<1>1. "tree" \in DOMAIN Plan
    BY DEF Plan
<1>2. QED BY <1>1, KindsPlanned DEF EngineTypeOK

\* What may follow a round of reads.
NextRound ==
    \/ kind \in {"blob", "tree"} /\ FollowUp = Plan[kind] /\ tried < Splits
    \/ kind = "blob" /\ FollowUp = Plan["tree"]
    \/ kind = "topic" /\ Over("print") /\ FollowUp = <<"topic">>
    \/ kind = "topic" /\ Over("topic") /\ Error = "ok" /\ FollowUp = <<"posts">>
    \/ kind = "topic" /\ Over("posts") /\ Batch(tried + 1) # {} /\ FollowUp = <<"posts">>
    \/ kind = "answer" /\ Over("answer") /\ FollowUp = <<"question">>
    \/ /\ kind \in {"question", "answer"} /\ Over("question") /\ Error = "ok"
       /\ got["question"] # <<>> /\ FollowUp = <<"answers">>
    \/ kind = "issue" /\ Over("issue") /\ FollowUp = <<"comments">>
    \/ kind = "feed" /\ Over("hits") /\ FollowUp = <<"rank">>

LEMMA FollowUpIs ==
    ASSUME EngineTypeOK, Underway, stage = "reading", FollowUp # <<>>
    PROVE  NextRound
<1>1. reads # <<>> /\ kind \in DOMAIN Plan /\ reads[1].name \in Heads(kind)
    BY KindPlanned DEF EngineTypeOK, Underway, ReadsKept
<1>3. CASE kind \in {"blob", "tree"}
    <2>1. FollowUp = NextSplit
        BY <1>3 DEF FollowUp
    <2>2. CASE Error = "http_404"
        BY <1>3, <2>1, <2>2 DEF NextSplit, NextRound
    <2>3. CASE Error # "http_404" /\ Error = "ok" /\ Over("file") /\ got["file"] = "dir"
        <3>1. FollowUp = Plan["tree"]
            BY <2>1, <2>3 DEF NextSplit
        <3>2. kind # "tree"
            <4> SUFFICES ASSUME kind = "tree" PROVE FALSE
                OBVIOUS
            <4>1. Heads("tree") = {"directory"}
                BY DEF Heads, Plan
            <4>2. QED BY <1>1, <2>3, <4>1 DEF Over
        <3>3. QED BY <1>3, <3>1, <3>2 DEF NextRound
    <2>4. QED BY <2>1, <2>2, <2>3 DEF NextSplit
<1>4. CASE kind = "topic"
    <2>1. FollowUp = NextPosts
        BY <1>4 DEF FollowUp
    <2>2. QED BY <1>4, <2>1 DEF NextPosts, NextRound
<1>5. CASE kind \in {"question", "answer"}
    <2>1. FollowUp = NextCall
        BY <1>5 DEF FollowUp
    <2>2. Over("answer") => kind = "answer"
        BY <1>1, <1>5 DEF Heads, Over
    <2>3. QED BY <1>5, <2>1, <2>2 DEF NextCall, NextRound
<1>6. CASE kind \notin {"blob", "tree", "topic", "question", "answer"}
    BY <1>6 DEF FollowUp, NextRound
<1>7. QED BY <1>3, <1>4, <1>5, <1>6

\* A round of reads that begins.
LEMMA RoundBegins ==
    ASSUME NEW names \in Seq(Names), names # <<>>, Start(names),
           names[1] \in Heads(kind'),
           \A i \in DOMAIN names : i = 1 \/ names[i] \in Besides,
           kind' = "pull" => {"comments", "files"} \subseteq {names[i] : i \in DOMAIN names},
           \A i \in DOMAIN names : names[i] = "comments" => "comments" \in DOMAIN got'
    PROVE  /\ ReadsKept' /\ reads' # <<>> /\ reads'[1].name = names[1]
           /\ \A read : Over(read)' <=> names[1] = read
<1>1. /\ reads' \in Seq(Reading) /\ reads' # <<>> /\ DOMAIN reads' = DOMAIN names /\ 1 \in DOMAIN names
      /\ \A i \in DOMAIN names : reads'[i].name = names[i] /\ reads'[i].st \in {"flight", "timeout"}
    BY StartIs
<1>2. \A i \in DOMAIN names : reads'[i].st # "ok"
    BY <1>1
<1>3. ReadsKept'
    BY <1>1, <1>2 DEF ReadsKept
<1>4. QED BY <1>1, <1>3 DEF Over

LEMMA AnswersSame == ASSUME NEW r, r # "posts" PROVE Answers(r)' = Answers(r)
BY DEF Answers, Counts, Lists

LEMMA CountedIs ==
    ASSUME NEW n \in Nat
    PROVE  /\ Counted(n) \in Seq(Nat) /\ Len(Counted(n)) = n /\ IsInjective(Counted(n))
           /\ \A i \in 1..n : Counted(n)[i] = i
           /\ Range(Counted(n)) = 1..n
<1>1. Counted(n) \in [1..n -> Nat]
    BY DEF Counted
<1>2. Counted(n) \in Seq(Nat) /\ DOMAIN Counted(n) = 1..n
    BY <1>1
<1>3. QED BY <1>2, LenProperties DEF Counted, IsInjective, Range

\* The stream of a topic.
LEMMA StreamIs ==
    ASSUME GotTyped, "topic" \in DOMAIN got
    PROVE  \E m \in 0..TopicSize : /\ got["topic"].stream = Counted(m)
                                   /\ got["topic"].posts \in SUBSET (1..TopicSize)
                                   /\ got["topic"].count \in Nat
                                   /\ m = 0 \/ got["topic"].posts \subseteq 1..m
<1> DEFINE t == got["topic"]
<1>1. t \in Answers("topic")
    BY DEF GotTyped
<1> HIDE DEF t
<1>2. t \in [count : 0..(TopicSize + 1), stream : {Counted(n) : n \in 0..TopicSize}, posts : SUBSET (1..TopicSize)]
      /\ (t.stream = <<>> \/ t.posts \subseteq Range(t.stream))
    BY <1>1 DEF Answers
<1>3. t.count \in Nat /\ t.posts \in SUBSET (1..TopicSize)
    BY <1>2, EngineAssumption
<1>4. PICK m \in 0..TopicSize : t.stream = Counted(m)
    BY <1>2
<1>5. m \in Nat
    BY <1>4, EngineAssumption
<1>6. Range(t.stream) = 1..m /\ Len(t.stream) = m
    BY <1>4, <1>5, CountedIs
<1>7. t.stream = <<>> => m = 0
    BY <1>6
<1>8. QED BY <1>2, <1>3, <1>4, <1>6, <1>7 DEF t

\* The posts wanted, and those not read yet.
LEMMA WantedIs ==
    ASSUME GotTyped, "topic" \in DOMAIN got
    PROVE  \E n \in 0..TopicSize : /\ Wanted = Counted(n)
                                   /\ Wanted = <<>> <=> got["topic"].stream = <<>>
                                   /\ Len(Missing) \in Nat /\ Len(Missing) <= TopicSize
<1>1. PICK m \in 0..TopicSize : got["topic"].stream = Counted(m)
    BY StreamIs
<1>2. m \in Nat /\ MaxPosts \in Nat \ {0} /\ TopicSize \in Nat
    BY <1>1, EngineAssumption
<1> DEFINE n == IF MaxPosts <= m THEN MaxPosts ELSE m
           stream == Counted(m)
<1>3. stream \in Seq(Nat) /\ Len(stream) = m /\ \A i \in 1..m : stream[i] = i
    BY <1>2, CountedIs
<1>4. n \in Nat /\ n <= m /\ n <= TopicSize /\ (n = 0 <=> m = 0)
    BY <1>1, <1>2
<1> HIDE DEF n
<1>5. Wanted = First(MaxPosts, stream)
    BY <1>1 DEF Wanted, First
<1> HIDE DEF stream
<1>6. Wanted \in Seq(Nat) /\ Len(Wanted) = n /\ \A i \in 1..n : Wanted[i] = i
    <2>1. First(MaxPosts, stream) \in Seq(Nat)
          /\ Len(First(MaxPosts, stream)) = (IF MaxPosts <= Len(stream) THEN MaxPosts ELSE Len(stream))
          /\ \A i \in 1..Len(First(MaxPosts, stream)) : First(MaxPosts, stream)[i] = stream[i]
        BY <1>2, <1>3, FirstIs
    <2>2. QED BY <1>3, <1>4, <1>5, <2>1 DEF n
<1>7. Wanted = Counted(n)
    <2>1. Counted(n) \in Seq(Nat) /\ Len(Counted(n)) = n /\ \A i \in 1..n : Counted(n)[i] = i
        BY <1>4, CountedIs
    <2>2. QED BY <1>6, <2>1, SeqEqual
<1>8. Wanted = <<>> <=> got["topic"].stream = <<>>
    <2>1. Wanted = <<>> <=> n = 0
        BY <1>6, EmptySeq
    <2>2. stream = <<>> <=> m = 0
        BY <1>3, EmptySeq
    <2>3. QED BY <1>1, <1>4, <2>1, <2>2 DEF stream
<1>9. IsInjective(Wanted)
    BY <1>4, <1>7, CountedIs
<1>10. Len(Missing) \in Nat /\ Len(Missing) <= n
    BY <1>6, <1>9, FilterShorter DEF Missing
<1>11. QED BY <1>2, <1>4, <1>7, <1>8, <1>10

\* There are no more batches than posts.
LEMMA BatchBound ==
    ASSUME GotTyped, "topic" \in DOMAIN got, NEW n \in Nat \ {0}, Batch(n) # {}
    PROVE  n <= TopicSize
<1> DEFINE N == Len(Missing)
           low == (n - 1) * MaxBatch + 1
           high == Min({n * MaxBatch, N})
<1>1. N \in Nat /\ N <= TopicSize
    BY WantedIs
<1>2. MaxBatch \in Nat \ {0} /\ TopicSize \in Nat
    BY EngineAssumption
<1>3. n * MaxBatch \in Nat /\ low \in Nat /\ low >= n
    <2>1. n * MaxBatch \in Nat /\ (n - 1) * MaxBatch \in Nat
        BY <1>2
    <2>2. (n - 1) * MaxBatch >= n - 1
        BY <1>2
    <2>3. QED BY <2>1, <2>2
<1>4. high = IF n * MaxBatch <= N THEN n * MaxBatch ELSE N
    BY <1>1, <1>3, MinOfTwo
<1>5. high <= N /\ high \in Nat
    BY <1>1, <1>3, <1>4
<1>6. Batch(n) = Range(SubSeq(Missing, low, high))
    BY DEF Batch
<1> HIDE DEF N, low, high
<1>7. CASE low > high
    <2>1. SubSeq(Missing, low, high) = <<>>
        BY <1>3, <1>5, <1>7, SubSeqEmpty
    <2>2. Range(<<>>) = {}
        BY DEF Range
    <2>3. QED BY <1>6, <2>1, <2>2
<1>8. QED BY <1>1, <1>2, <1>3, <1>5, <1>7

LEMMA GotSame ==
    ASSUME GotTyped, got' = got
    PROVE  GotTyped'
<1>1. \A r : r \notin {"posts", "comments"} => Answers(r)' = Answers(r)
    BY AnswersSame
<1>2. QED BY <1>1 DEF GotTyped

LEMMA NotedIs ==
    ASSUME NEW read, NEW answer
    PROVE  /\ DOMAIN Noted(read, answer) = {read} \cup DOMAIN got
           /\ Noted(read, answer)[read] = answer
           /\ \A r \in DOMAIN got : r # read => Noted(read, answer)[r] = got[r]
BY DEF Noted

LEMMA CommentsNoted ==
    ASSUME GotTyped, got' = Noted("comments", Comments)
    PROVE  GotTyped' /\ DOMAIN got' = {"comments"} \cup DOMAIN got
           /\ \A r \in DOMAIN got : r # "comments" => got'[r] = got[r]
<1>1. \A r : r \notin {"posts", "comments"} => Answers(r)' = Answers(r)
    BY AnswersSame
<1>2. /\ DOMAIN got' = {"comments"} \cup DOMAIN got /\ got'["comments"] = Comments
      /\ \A r \in DOMAIN got : r # "comments" => got'[r] = got[r]
    BY DEF Noted
<1>3. Comments.collected = 0
    BY DEF Comments
<1>4. QED BY <1>1, <1>2, <1>3 DEF GotTyped

LEMMA NothingRead == <<>> \in Seq(Reading) /\ DOMAIN <<>> = {}
OBVIOUS

LEMMA StartsOK == ASSUME EngineInit PROVE EngineTypeOK /\ Underway
<1>1. 1 \in 1..Tries
    BY TriesIs
<1>2. EngineTypeOK
    BY <1>1 DEF EngineInit, EngineTypeOK, Tries
<1>3. <<>> \in Seq(Reading) /\ DOMAIN <<>> = {}
    BY NothingRead
<1>4. QED BY <1>2, <1>3 DEF EngineInit, Underway, ReadsKept, ReadBefore, GotTyped

\* A crawl that ends reads nothing more.
LEMMA FinishKeeps ==
    ASSUME EngineTypeOK, Underway, NEW o, o # "", Finish(o), UNCHANGED <<crawl, present, got, tried>>
    PROVE  EngineTypeOK' /\ Underway'
<1>1. UNCHANGED <<kind, caps>> /\ UNCHANGED <<present, got, tried>>
    BY DEF crawl
<1>2. EngineTypeOK'
    BY <1>1 DEF Finish, EngineTypeOK
<1>3. <<>> \in Seq(Reading) /\ DOMAIN <<>> = {}
    BY NothingRead
<1>6. reads' = <<>> /\ stage' = "done"
    BY DEF Finish
<1>4. GotTyped'
    BY <1>1, GotSame DEF Underway
<1>5. QED BY <1>2, <1>3, <1>4, <1>6 DEF Underway, ReadsKept, ReadBefore

LEMMA PaceKeeps ==
    ASSUME EngineTypeOK, Underway, Pace
    PROVE  EngineTypeOK' /\ Underway'
<1>1. UNCHANGED <<kind, caps>> /\ UNCHANGED <<present, tried>> /\ UNCHANGED <<doc, notes>> /\ stage = "pace"
    BY DEF Pace, crawl
<1>2. CASE /\ slot' = TRUE /\ stage' = "reading" /\ Start(Plan[kind]) /\ UNCHANGED outcome
           /\ got' = IF kind = "pull" THEN Noted("comments", Comments) ELSE got
    <2>1. PlanOf(kind)
        BY KindPlanned, PlanIs
    <2>2. GotTyped' /\ (kind = "pull" => "comments" \in DOMAIN got')
        BY <1>2, GotSame, CommentsNoted DEF Underway
    <2>3. /\ ReadsKept' /\ reads' # <<>> /\ reads'[1].name = Plan[kind][1]
          /\ \A read : Over(read)' <=> Plan[kind][1] = read
        <3>1. /\ Plan[kind] \in Seq(Names) /\ Plan[kind] # <<>> /\ Plan[kind][1] \in Heads(kind')
              /\ \A i \in DOMAIN Plan[kind] : i = 1 \/ Plan[kind][i] \in Besides
              /\ kind' = "pull" => {"comments", "files"} \subseteq {Plan[kind][i] : i \in DOMAIN Plan[kind]}
              /\ \A i \in DOMAIN Plan[kind] : Plan[kind][i] = "comments" => "comments" \in DOMAIN got'
            BY <1>1, <2>1, <2>2 DEF PlanOf
        <3> DEFINE names == Plan[kind]
        <3>2. Start(names)
            BY <1>2
        <3> HIDE DEF names
        <3>3. QED BY <3>1, <3>2, RoundBegins DEF names
    <2>4. tried' = 1 /\ DOMAIN got' \subseteq {"comments"}
        <3>1. tried = 1 /\ DOMAIN got = {}
            BY <1>1 DEF Underway, ReadBefore
        <3>2. CASE kind = "pull"
            BY <1>1, <1>2, <3>1, <3>2, CommentsNoted DEF Underway
        <3>3. CASE kind # "pull"
            BY <1>1, <1>2, <3>1, <3>3
        <3>4. QED BY <3>2, <3>3
    <2>5. ReadBefore'
        <3>1. Plan[kind][1] \notin {"posts", "answers", "topic"}
            BY <2>1 DEF PlanOf
        <3>2. QED BY <1>2, <2>3, <2>4, <3>1 DEF ReadBefore
    <2>6. EngineTypeOK'
        BY <1>1, <1>2, <2>3 DEF EngineTypeOK
    <2>7. QED BY <2>2, <2>3, <2>5, <2>6 DEF Underway
<1>3. CASE Finish(IF present THEN "quota_exhausted" ELSE "timeout") /\ UNCHANGED got
    BY <1>1, <1>3, FinishKeeps DEF crawl
<1>4. QED BY <1>2, <1>3 DEF Pace

\* A read that goes on, or ends: what it was is still there.
LEMMA SettleKeeps ==
    ASSUME EngineTypeOK, Underway, stage = "reading", NEW i \in Sent, NEW st \in Endings \cup {"flight"},
           Settle(i, st), UNCHANGED <<crawl, stage, present, slot, tried, document>>,
           DOMAIN got \subseteq DOMAIN got',
           st = "ok" => reads[i].name \in DOMAIN got' \/ reads[i].name \in Optional
    PROVE  /\ EngineTypeOK' /\ ReadsKept'
           /\ 1 \in DOMAIN reads /\ reads'[1].name = reads[1].name /\ \A read : Over(read)' <=> Over(read)
<1>1. UNCHANGED <<kind, caps>> /\ UNCHANGED <<stage, present, slot, tried>> /\ UNCHANGED <<doc, notes, outcome>>
    BY DEF crawl, document
<1>2. reads \in Seq(Reading) /\ i \in DOMAIN reads /\ reads # <<>>
    BY DEF Underway, ReadsKept, Sent, EngineTypeOK
<1>3. /\ reads' \in Seq(Reading) /\ reads' # <<>> /\ DOMAIN reads' = DOMAIN reads
      /\ \A j \in DOMAIN reads : /\ reads'[j].name = reads[j].name
                                 /\ reads'[j].st = IF j = i THEN st ELSE reads[j].st
    BY <1>2, SettleIs
<1>4. 1 \in DOMAIN reads
    BY <1>2, EmptySeq, LenProperties
<1>5. EngineTypeOK'
    <2>1. kind' = kind /\ caps' = caps /\ stage' = stage /\ present' = present /\ slot' = slot
          /\ tried' = tried /\ outcome' = outcome
        BY <1>1
    <2>2. stage' = "reading" <=> reads' # <<>>
        BY <1>3, <2>1
    <2>3. stage' \in {"pace", "reading", "done"} /\ present' \in BOOLEAN /\ slot' \in BOOLEAN
        BY <2>1 DEF EngineTypeOK
    <2>4. kind' \in Kinds \cup {"tree"} /\ caps' \in Caps /\ tried' \in 1..Max({Splits, TopicSize, 3})
        BY <2>1 DEF EngineTypeOK
    <2>5. slot' <=> stage' = "reading"
        <3>1. slot <=> stage = "reading"
            BY DEF EngineTypeOK
        <3>2. QED BY <2>1, <3>1
    <2>6. stage' = "done" <=> outcome' # ""
        <3>1. stage = "done" <=> outcome # ""
            BY DEF EngineTypeOK
        <3>2. QED BY <2>1, <3>1
    <2>7. QED BY <2>2, <2>3, <2>4, <2>5, <2>6 DEF EngineTypeOK
<1>6. ReadsKept'
    <2>1. ASSUME NEW j \in DOMAIN reads',
                 reads'[j].name = "comments" \/ (reads'[j].st = "ok" /\ reads'[j].name \notin Optional)
          PROVE  reads'[j].name \in DOMAIN got'
        <3>1. CASE reads[j].name = "comments"
            BY <1>3, <3>1 DEF Underway, ReadsKept
        <3>2. CASE j = i /\ reads[j].name # "comments"
            BY <1>3, <2>1, <3>2
        <3>3. CASE j # i /\ reads[j].name # "comments"
            BY <1>3, <2>1, <3>3 DEF Underway, ReadsKept
        <3>4. QED BY <3>1, <3>2, <3>3
    <2>2. {reads'[j].name : j \in DOMAIN reads'} = {reads[j].name : j \in DOMAIN reads}
        BY <1>3
    <2>3. QED BY <1>1, <1>2, <1>3, <1>4, <2>1, <2>2 DEF Underway, ReadsKept
<1>7. QED BY <1>3, <1>4, <1>5, <1>6 DEF Over

LEMMA FailsKeeps ==
    ASSUME EngineTypeOK, Underway, stage = "reading", NEW i \in Sent, ReadFails(i)
    PROVE  EngineTypeOK' /\ Underway'
<1>1. UNCHANGED <<crawl, stage, present, slot, tried, document>> /\ UNCHANGED <<stage, tried, got>>
    BY DEF ReadFails
<1>2. PICK st \in Failures(reads[i].name) \cup (IF present THEN {} ELSE {"timeout"}) :
          Settle(i, IF st = "http_404" /\ reads[i].name \in Optional THEN "ok" ELSE st)
    BY DEF ReadFails
<1>3. st \in Endings \ {"ok"}
    BY DEF Failures, Endings
<1> DEFINE to == IF st = "http_404" /\ reads[i].name \in Optional THEN "ok" ELSE st
<1>4. to \in Endings \cup {"flight"} /\ (to = "ok" => reads[i].name \in Optional)
    BY <1>3 DEF Endings
<1>5. Settle(i, to)
    BY <1>2
<1> HIDE DEF to
<1>6. EngineTypeOK' /\ ReadsKept' /\ reads'[1].name = reads[1].name /\ \A read : Over(read)' <=> Over(read)
    BY <1>1, <1>4, <1>5, SettleKeeps
<1>7. reads # <<>>
    BY DEF EngineTypeOK
<1>8. ReadBefore'
    BY <1>1, <1>6, <1>7 DEF ReadBefore, Underway
<1>9. QED BY <1>1, <1>6, <1>8, GotSame DEF Underway

LEMMA ArrivesKeeps ==
    ASSUME EngineTypeOK, Underway, stage = "reading", NEW i \in Sent, Arrives(i)
    PROVE  EngineTypeOK' /\ Underway'
<1> DEFINE name == reads[i].name
<1>1. /\ UNCHANGED <<crawl, stage, present, slot, tried, document>> /\ UNCHANGED <<stage, tried>>
      /\ name # "comments" /\ Settle(i, "ok")
    BY DEF Arrives
<1>2. PICK a \in Answers(name) :
          got' = Noted(name, IF name = "posts" /\ "posts" \in DOMAIN got THEN got["posts"] \cup a ELSE a)
    BY DEF Arrives
<1>3. /\ DOMAIN got' = {name} \cup DOMAIN got
      /\ name # "posts" => got'[name] = a
      /\ \A r \in DOMAIN got : r # name => got'[r] = got[r]
    BY <1>2 DEF Noted
<1>4. i = 1 \/ name \in Besides
    BY DEF Underway, ReadsKept, Sent
<1> HIDE DEF name
<1>5. GotTyped'
    <2>1. \A r : r \notin {"posts", "comments"} => Answers(r)' = Answers(r)
        BY AnswersSame
    <2>2. QED BY <1>1, <1>2, <1>3, <2>1 DEF GotTyped, Underway
<1>6. /\ EngineTypeOK' /\ ReadsKept' /\ reads'[1].name = reads[1].name
      /\ \A read : Over(read)' <=> Over(read)
    <2>1. "ok" \in Endings /\ DOMAIN got \subseteq DOMAIN got' /\ reads[i].name \in DOMAIN got'
        BY <1>3 DEF Endings, name
    <2>2. QED BY <1>1, <2>1, SettleKeeps
<1>7. reads # <<>>
    BY DEF EngineTypeOK
<1>8. (Over("print") => name # "topic") /\ (Over("answers") => name # "question")
    BY <1>4 DEF Over, name, Besides
<1>9. ReadBefore'
    BY <1>1, <1>3, <1>6, <1>7, <1>8 DEF ReadBefore, Underway
<1>10. QED BY <1>5, <1>6, <1>9 DEF Underway

LEMMA PageKeeps ==
    ASSUME EngineTypeOK, Underway, stage = "reading", NEW i \in Sent, PageArrives(i)
    PROVE  EngineTypeOK' /\ Underway'
<1>1. /\ UNCHANGED <<crawl, stage, present, slot, tried, document>> /\ UNCHANGED <<stage, tried>>
      /\ reads[i].name = "comments"
    BY DEF PageArrives
<1>2. "comments" \in DOMAIN got /\ got["comments"].collected \in Nat
    BY <1>1 DEF Underway, ReadsKept, GotTyped, Sent
<1>3. \E n \in PageSizes : \E pages, end :
         /\ got' = [got EXCEPT !["comments"] =
                      [pages |-> pages, collected |-> got["comments"].collected + n, left |-> end]]
         /\ Settle(i, IF end # "more" THEN "ok" ELSE IF present THEN "flight" ELSE "timeout")
    BY DEF PageArrives
<1>4. PICK n, pages, end :
         /\ n \in PageSizes
         /\ got' = [got EXCEPT !["comments"] =
                      [pages |-> pages, collected |-> got["comments"].collected + n, left |-> end]]
         /\ Settle(i, IF end # "more" THEN "ok" ELSE IF present THEN "flight" ELSE "timeout")
    BY <1>3
<1>5. /\ DOMAIN got' = DOMAIN got
      /\ got'["comments"].collected = got["comments"].collected + n
      /\ \A r \in DOMAIN got : r # "comments" => got'[r] = got[r]
    BY <1>2, <1>4
<1>6. got'["comments"].collected \in Nat
    <2>1. n \in Nat
        BY <1>4, EngineAssumption
    <2>2. QED BY <1>2, <1>5, <2>1
<1>7. GotTyped'
    <2>1. \A r : r \notin {"posts", "comments"} => Answers(r)' = Answers(r)
        BY AnswersSame
    <2>2. QED BY <1>5, <1>6, <2>1 DEF GotTyped, Underway
<1> DEFINE to == IF end # "more" THEN "ok" ELSE IF present THEN "flight" ELSE "timeout"
<1>8. to \in Endings \cup {"flight"} /\ Settle(i, to) /\ reads[i].name \in DOMAIN got'
    BY <1>1, <1>2, <1>4, <1>5 DEF Endings
<1> HIDE DEF to
<1>9. /\ EngineTypeOK' /\ ReadsKept' /\ reads'[1].name = reads[1].name
      /\ \A read : Over(read)' <=> Over(read)
    BY <1>1, <1>5, <1>8, SettleKeeps
<1>10. reads # <<>>
    BY DEF EngineTypeOK
<1>11. ReadBefore'
    BY <1>1, <1>5, <1>9, <1>10 DEF ReadBefore, Underway
<1>12. QED BY <1>7, <1>9, <1>11 DEF Underway

LEMMA LeaveKeeps ==
    ASSUME EngineTypeOK, Underway, Leave
    PROVE  EngineTypeOK' /\ Underway'
<1>1. UNCHANGED <<kind, caps>> /\ UNCHANGED <<stage, slot, reads, got, tried>> /\ UNCHANGED outcome
      /\ present' = FALSE
    BY DEF Leave, crawl, document
<1>2. EngineTypeOK'
    BY <1>1 DEF EngineTypeOK
<1>3. QED BY <1>1, <1>2, GotSame DEF Underway, ReadsKept, ReadBefore, Over

\* What Continue leaves alone, and how it counts.
LEMMA ContinueIs ==
    ASSUME EngineTypeOK, Underway, Continue
    PROVE  /\ UNCHANGED <<caps, stage, present, slot, outcome>> /\ stage = "reading" /\ FollowUp # <<>>
           /\ GotTyped' /\ DOMAIN got \subseteq DOMAIN got'
           /\ DOMAIN got' \subseteq {"comments"} \cup DOMAIN got
           /\ \A r \in DOMAIN got : r # "comments" => got'[r] = got[r]
           /\ FollowUp = <<"comments">> => "comments" \in DOMAIN got'
           /\ kind' = IF kind = "blob" /\ FollowUp = Plan["tree"] THEN "tree" ELSE kind
           /\ tried' = IF Over("topic") \/ (kind = "blob" /\ FollowUp = Plan["tree"]) THEN 1 ELSE tried + 1
<1>1. /\ UNCHANGED <<caps, stage, present, slot, outcome>> /\ stage = "reading" /\ FollowUp # <<>>
      /\ kind' = IF kind = "blob" /\ FollowUp = Plan["tree"] THEN "tree" ELSE kind
      /\ tried' = IF Over("topic") \/ (kind = "blob" /\ FollowUp = Plan["tree"]) THEN 1 ELSE tried + 1
      /\ got' = IF FollowUp = <<"comments">> THEN Noted("comments", Comments) ELSE got
    BY DEF Continue, document
<1>2. CASE FollowUp = <<"comments">>
    BY <1>1, <1>2, CommentsNoted DEF Underway
<1>3. CASE FollowUp # <<"comments">>
    BY <1>1, <1>3, GotSame DEF Underway
<1>4. QED BY <1>1, <1>2, <1>3

\* The kind's first reads begin once more, or those of a directory.
LEMMA PlannedRound ==
    ASSUME EngineTypeOK, Underway, Continue, kind' \in {"blob", "tree"}, FollowUp = Plan[kind'],
           tried' \in 1..Tries
    PROVE  EngineTypeOK' /\ Underway'
<1>1. /\ UNCHANGED <<caps, stage, present, slot, outcome>> /\ stage = "reading" /\ GotTyped'
    BY ContinueIs
<1>2. kind' \in DOMAIN Plan /\ kind' # "pull"
    BY DEF Plan
<1>3. PlanOf(kind')
    BY <1>2, PlanIs
<1> DEFINE names == Plan[kind']
<1>4. Start(names)
    BY DEF Continue
<1>5. /\ names \in Seq(Names) /\ names # <<>> /\ names[1] \in Heads(kind')
      /\ \A i \in DOMAIN names : i = 1 \/ names[i] \in Besides
      /\ \A i \in DOMAIN names : names[i] # "comments"
    BY <1>2, <1>3 DEF PlanOf
<1>6. names[1] \in {"file", "directory"}
    BY DEF Plan
<1> HIDE DEF names
<1>7. /\ ReadsKept' /\ reads' # <<>> /\ reads'[1].name = names[1]
      /\ \A read : Over(read)' <=> names[1] = read
    BY <1>2, <1>4, <1>5, RoundBegins
<1>8. ReadBefore'
    BY <1>1, <1>6, <1>7 DEF ReadBefore
<1>9. kind' \in Kinds \cup {"tree"}
    BY ContinueIs DEF EngineTypeOK
<1>10. EngineTypeOK'
    BY <1>1, <1>7, <1>9 DEF EngineTypeOK, Tries
<1>11. QED BY <1>1, <1>7, <1>8, <1>10 DEF Underway

\* One read follows.
LEMMA LoneRound ==
    ASSUME EngineTypeOK, Underway, Continue, NEW name, FollowUp = <<name>>,
           name \in Heads(kind), kind \notin {"pull", "blob"}, tried' \in 1..Tries
    PROVE  /\ EngineTypeOK' /\ GotTyped' /\ ReadsKept' /\ stage' # "pace"
           /\ reads'[1].name = name /\ \A read : Over(read)' <=> name = read
<1>1. /\ UNCHANGED <<caps, stage, present, slot, outcome>> /\ stage = "reading" /\ GotTyped' /\ kind' = kind
      /\ FollowUp = <<"comments">> => "comments" \in DOMAIN got'
    BY ContinueIs
<1> DEFINE names == <<name>>
<1>2. Start(names)
    BY DEF Continue
<1>3. name \in Names
    BY KindPlanned DEF Names
<1>4. names \in Seq(Names) /\ names # <<>> /\ DOMAIN names = {1} /\ names[1] = name
    BY <1>3, OneReadIs
<1>5. \A i \in DOMAIN names : names[i] = "comments" => "comments" \in DOMAIN got'
    BY <1>1, <1>4
<1> HIDE DEF names
<1>6. /\ ReadsKept' /\ reads' # <<>> /\ reads'[1].name = names[1]
      /\ \A read : Over(read)' <=> names[1] = read
    BY <1>1, <1>2, <1>4, <1>5, RoundBegins
<1>7. EngineTypeOK'
    BY <1>1, <1>6 DEF EngineTypeOK, Tries
<1>8. QED BY <1>1, <1>4, <1>6, <1>7

LEMMA ContinueKeeps ==
    ASSUME EngineTypeOK, Underway, Continue
    PROVE  EngineTypeOK' /\ Underway'
<1>1. /\ stage = "reading" /\ FollowUp # <<>> /\ DOMAIN got \subseteq DOMAIN got' /\ GotTyped'
      /\ DOMAIN got' \subseteq {"comments"} \cup DOMAIN got
      /\ \A r \in DOMAIN got : r # "comments" => got'[r] = got[r]
      /\ kind' = IF kind = "blob" /\ FollowUp = Plan["tree"] THEN "tree" ELSE kind
      /\ tried' = IF Over("topic") \/ (kind = "blob" /\ FollowUp = Plan["tree"]) THEN 1 ELSE tried + 1
    BY ContinueIs
<1>2. NextRound
    BY <1>1, FollowUpIs
<1>3. /\ reads # <<>> /\ reads[1].name \in Heads(kind) /\ tried \in 1..Tries
      /\ tried \in Nat /\ tried >= 1 /\ Tries \in Nat
    <2>1. reads # <<>> /\ reads[1].name \in Heads(kind)
        BY <1>1 DEF Underway, ReadsKept, EngineTypeOK
    <2>2. tried \in 1..Tries
        BY DEF EngineTypeOK, Tries
    <2>3. QED BY <2>1, <2>2, TriesIs
<1>4. /\ Over("posts") => "topic" \in DOMAIN got
      /\ Over("print") => "topic" \notin DOMAIN got
      /\ reads[1].name \in {"issue", "hits", "print", "answer"} => tried = 1
      /\ Over("question") => tried <= 2
    BY <1>3 DEF Underway, ReadBefore
<1>5. CASE kind \in {"blob", "tree"} /\ FollowUp = Plan[kind] /\ tried < Splits
    <2>1. ~Over("topic")
        BY <1>3, <1>5 DEF Heads, Plan, Over
    <2>2. ~(kind = "blob" /\ FollowUp = Plan["tree"])
        BY <1>5 DEF Plan
    <2>3. kind' = kind /\ tried' = tried + 1
        BY <1>1, <2>1, <2>2
    <2>4. tried' \in 1..Tries
        BY <1>3, <1>5, <2>3, TriesIs, EngineAssumption
    <2>5. QED BY <1>5, <2>3, <2>4, PlannedRound
<1>6. CASE kind = "blob" /\ FollowUp = Plan["tree"]
    <2>1. kind' = "tree" /\ tried' = 1 /\ 1 \in 1..Tries
        BY <1>1, <1>6, TriesIs
    <2>2. QED BY <1>6, <2>1, PlannedRound
<1>7. CASE kind = "topic" /\ Over("print") /\ FollowUp = <<"topic">>
    <2>1. tried' = 2 /\ 2 \in 1..Tries
        BY <1>1, <1>4, <1>7, TriesIs DEF Over
    <2>2. "topic" \in Heads(kind)
        BY <1>7 DEF Heads
    <2>3. /\ EngineTypeOK' /\ GotTyped' /\ ReadsKept' /\ stage' # "pace"
          /\ reads'[1].name = "topic" /\ \A read : Over(read)' <=> "topic" = read
        BY <1>7, <2>1, <2>2, LoneRound
    <2>4. QED BY <2>3 DEF Underway, ReadBefore
<1>8. CASE kind = "topic" /\ Over("topic") /\ Error = "ok" /\ FollowUp = <<"posts">>
    <2>1. tried' = 1 /\ 1 \in 1..Tries
        BY <1>1, <1>8, TriesIs
    <2>2. "posts" \in Heads(kind)
        BY <1>8 DEF Heads
    <2>3. /\ EngineTypeOK' /\ GotTyped' /\ ReadsKept' /\ stage' # "pace"
          /\ reads'[1].name = "posts" /\ \A read : Over(read)' <=> "posts" = read
        BY <1>8, <2>1, <2>2, LoneRound
    <2>4. "topic" \in DOMAIN got
        <3>1. reads \in Seq(Reading) /\ Joined
            BY DEF Underway, ReadsKept, Continue
        <3>2. 1 \in DOMAIN reads
            BY <1>3, <3>1, LenProperties, EmptySeq
        <3>3. reads[1].st = "ok"
            BY <1>8, <3>1, <3>2, ErrorIs
        <3>4. QED BY <1>8, <3>2, <3>3 DEF Over, Underway, ReadsKept, Optional
    <2>5. QED BY <1>1, <2>1, <2>3, <2>4 DEF Underway, ReadBefore
<1>9. CASE kind = "topic" /\ Over("posts") /\ Batch(tried + 1) # {} /\ FollowUp = <<"posts">>
    <2>1. "topic" \in DOMAIN got
        BY <1>4, <1>9
    <2>2. tried + 1 <= TopicSize
        BY <1>3, <1>9, <2>1, BatchBound DEF Underway
    <2>3. ~Over("topic")
        BY <1>9 DEF Over
    <2>4. tried' = tried + 1 /\ tried' \in 1..Tries
        BY <1>1, <1>3, <1>9, <2>2, <2>3, TriesIs, EngineAssumption
    <2>5. "posts" \in Heads(kind)
        BY <1>9 DEF Heads
    <2>6. /\ EngineTypeOK' /\ GotTyped' /\ ReadsKept' /\ stage' # "pace"
          /\ reads'[1].name = "posts" /\ \A read : Over(read)' <=> "posts" = read
        BY <1>9, <2>4, <2>5, LoneRound
    <2>7. QED BY <1>1, <2>1, <2>6 DEF Underway, ReadBefore
<1>10. CASE kind = "answer" /\ Over("answer") /\ FollowUp = <<"question">>
    <2>1. tried' = 2 /\ 2 \in 1..Tries
        BY <1>1, <1>4, <1>10, TriesIs DEF Over
    <2>2. "question" \in Heads(kind)
        BY <1>10 DEF Heads
    <2>3. /\ EngineTypeOK' /\ GotTyped' /\ ReadsKept' /\ stage' # "pace"
          /\ reads'[1].name = "question" /\ \A read : Over(read)' <=> "question" = read
        BY <1>10, <2>1, <2>2, LoneRound
    <2>4. QED BY <2>1, <2>3 DEF Underway, ReadBefore
<1>11. CASE /\ kind \in {"question", "answer"} /\ Over("question") /\ Error = "ok"
            /\ got["question"] # <<>> /\ FollowUp = <<"answers">>
    <2>1. tried' = tried + 1 /\ tried' \in 1..Tries
        <3>1. ~Over("topic")
            BY <1>11 DEF Over
        <3>2. QED BY <1>1, <1>3, <1>4, <1>11, <3>1, TriesIs
    <2>2. "answers" \in Heads(kind)
        BY <1>11 DEF Heads
    <2>3. /\ EngineTypeOK' /\ GotTyped' /\ ReadsKept' /\ stage' # "pace"
          /\ reads'[1].name = "answers" /\ \A read : Over(read)' <=> "answers" = read
        BY <1>11, <2>1, <2>2, LoneRound
    <2>4. "question" \in DOMAIN got
        <3>1. reads \in Seq(Reading) /\ Joined
            BY DEF Underway, ReadsKept, Continue
        <3>2. 1 \in DOMAIN reads
            BY <1>3, <3>1, LenProperties, EmptySeq
        <3>3. reads[1].st = "ok"
            BY <1>11, <3>1, <3>2, ErrorIs
        <3>4. QED BY <1>11, <3>2, <3>3 DEF Over, Underway, ReadsKept, Optional
    <2>5. QED BY <1>1, <1>11, <2>3, <2>4 DEF Underway, ReadBefore
<1>12. CASE kind = "issue" /\ Over("issue") /\ FollowUp = <<"comments">>
    <2>1. tried' = 2 /\ 2 \in 1..Tries
        BY <1>1, <1>4, <1>12, TriesIs DEF Over
    <2>2. "comments" \in Heads(kind)
        BY <1>12 DEF Heads
    <2>3. /\ EngineTypeOK' /\ GotTyped' /\ ReadsKept' /\ stage' # "pace"
          /\ reads'[1].name = "comments" /\ \A read : Over(read)' <=> "comments" = read
        BY <1>12, <2>1, <2>2, LoneRound
    <2>4. QED BY <2>3 DEF Underway, ReadBefore
<1>13. CASE kind = "feed" /\ Over("hits") /\ FollowUp = <<"rank">>
    <2>1. tried' = 2 /\ 2 \in 1..Tries
        BY <1>1, <1>4, <1>13, TriesIs DEF Over
    <2>2. "rank" \in Heads(kind)
        BY <1>13 DEF Heads
    <2>3. /\ EngineTypeOK' /\ GotTyped' /\ ReadsKept' /\ stage' # "pace"
          /\ reads'[1].name = "rank" /\ \A read : Over(read)' <=> "rank" = read
        BY <1>13, <2>1, <2>2, LoneRound
    <2>4. QED BY <2>3 DEF Underway, ReadBefore
<1>14. QED BY <1>2, <1>5, <1>6, <1>7, <1>8, <1>9, <1>10, <1>11, <1>12, <1>13 DEF NextRound

\* How a round of reads went is known when it is over.
LEMMA ErrorKnown ==
    ASSUME Underway, Joined
    PROVE  Error \in Endings
BY ErrorIs DEF Underway, ReadsKept

LEMMA EndKeeps ==
    ASSUME EngineTypeOK, Underway, ReturnDocument \/ GiveUp
    PROVE  EngineTypeOK' /\ Underway'
<1>1. CASE ReturnDocument
    BY <1>1, FinishKeeps DEF ReturnDocument
<1>2. CASE GiveUp
    <2>1. Error # ""
        BY <1>2, ErrorKnown DEF GiveUp, Endings
    <2>2. QED BY <1>2, <2>1, FinishKeeps DEF GiveUp
<1>3. QED BY <1>1, <1>2

LEMMA StepKeeps ==
    ASSUME EngineTypeOK, Underway, [EngineNext]_engineVars
    PROVE  EngineTypeOK' /\ Underway'
<1>1. CASE Settles
    <2>1. stage = "reading"
        <3>1. PICK i \in DOMAIN reads : TRUE
            BY <1>1 DEF Settles, Sent
        <3>2. reads # <<>>
            BY <3>1
        <3>3. QED BY <3>2 DEF EngineTypeOK
    <2>2. QED BY <1>1, <2>1, FailsKeeps, ArrivesKeeps, PageKeeps DEF Settles
<1>2. CASE UNCHANGED engineVars
    <2>1. UNCHANGED <<kind, caps>> /\ UNCHANGED <<stage, present, slot, reads, got, tried>> /\ UNCHANGED outcome
        BY <1>2 DEF engineVars, crawl, document
    <2>2. EngineTypeOK'
        BY <2>1 DEF EngineTypeOK
    <2>3. QED BY <2>1, <2>2, GotSame DEF Underway, ReadsKept, ReadBefore, Over
<1>3. QED BY <1>1, <1>2, PaceKeeps, ContinueKeeps, EndKeeps, LeaveKeeps DEF EngineNext, Engine

-----------------------------------------------------------------------------
(* A site engine is an engine.                                             *)

LEMMA SentFinite ==
    ASSUME ReadsKept
    PROVE  IsFiniteSet(Sent) /\ Cardinality(Sent) \in Nat
<1>1. Sent \subseteq 1..Len(reads) /\ Len(reads) \in Nat
    BY LenProperties DEF ReadsKept, Sent
<1>2. IsFiniteSet(1..Len(reads))
    BY <1>1, FS_Interval
<1>3. QED BY <1>1, <1>2, FS_Subset, FS_CardinalityType

LEMMA NoneSent ==
    ASSUME reads = <<>>
    PROVE  Sent = {}
BY NothingRead DEF Sent

\* A site engine, whatever its reads bring and in whatever order they end, is an
\* engine: one slot around all it sends, nothing sent for a caller who has left, no
\* request left behind by its answer (runAll; the engines' fetch functions).
THEOREM EngineKeepsContract == CrawlSpec => EngineSpec
<1> DEFINE I == EngineTypeOK /\ Underway
<1>1. EngineInit => I
    BY StartsOK
<1>2. I /\ [EngineNext]_engineVars => I'
    BY StepKeeps
<1>3. EngineInit => Contract!Init
    <2> SUFFICES ASSUME EngineInit PROVE Contract!Init
        OBVIOUS
    <2>1. Cardinality(Sent) = 0
        BY NoneSent, FS_EmptySet DEF EngineInit
    <2>2. QED BY <2>1 DEF EngineInit, Contract!Init
<1>4. I /\ I' /\ [EngineNext]_engineVars => [Contract!Next]_Contract!vars
    <2> SUFFICES ASSUME EngineTypeOK, Underway, Underway', [EngineNext]_engineVars
                 PROVE  [Contract!Next]_Contract!vars
        OBVIOUS
    <2> DEFINE phase == CASE stage = "pace" -> "idle" [] stage = "reading" -> "crawling" [] OTHER -> "done"
               flight == Cardinality(Sent)
    <2>1. IsFiniteSet(Sent) /\ flight \in Nat /\ IsFiniteSet(Sent') /\ flight' \in Nat
        <3>1. ReadsKept /\ ReadsKept'
            BY DEF Underway
        <3>2. (IsFiniteSet(Sent) /\ Cardinality(Sent) \in Nat)'
            BY <3>1, SentFinite, PTL
        <3>3. QED BY <3>1, <3>2, SentFinite
    <2>2. CASE Pace
        <3>1. stage = "pace" /\ phase = "idle" /\ present' = present
            BY <2>2 DEF Pace
        <3>2. CASE slot' = TRUE /\ stage' = "reading" /\ present
            <4>1. phase' = "crawling"
                BY <3>2
            <4>2. Contract!Take
                BY <2>1, <3>1, <3>2, <4>1 DEF Contract!Take, Contract!Requests
            <4>3. QED BY <4>2 DEF Contract!Next
        <3>3. CASE Finish(IF present THEN "quota_exhausted" ELSE "timeout")
            <4>1. stage' = "done" /\ slot' = FALSE /\ reads' = <<>> /\ phase' = "done"
                BY <3>3 DEF Finish
            <4>2. slot = FALSE /\ reads = <<>>
                BY <3>1 DEF EngineTypeOK
            <4>3. Sent = {} /\ Sent' = {}
                BY <4>1, <4>2, NothingRead DEF Sent
            <4>4. Contract!Refuse
                BY <3>1, <4>1, <4>2, <4>3 DEF Contract!Refuse
            <4>5. QED BY <4>4 DEF Contract!Next
        <3>4. QED BY <2>2, <3>2, <3>3 DEF Pace
    <2>3. CASE Settles
        <3>1. PICK i \in Sent : ReadFails(i) \/ Arrives(i) \/ PageArrives(i)
            BY <2>3 DEF Settles
        <3>2. UNCHANGED <<stage, present, slot>> /\ stage = "reading"
            <4>1. reads # <<>>
                BY <3>1, NoneSent
            <4>2. QED BY <3>1, <4>1 DEF ReadFails, Arrives, PageArrives, EngineTypeOK
        <3>3. \E st : Settle(i, st)
            BY <3>1 DEF ReadFails, Arrives, PageArrives
        <3>4. Sent' \subseteq Sent
            BY <3>3 DEF Settle, Sent
        <3>5. flight' <= flight
            BY <2>1, <3>4, FS_Subset
        <3>6. phase = "crawling" /\ phase' = phase
            BY <3>2
        <3>7. Contract!Read
            BY <2>1, <3>2, <3>5, <3>6 DEF Contract!Read, Contract!Requests
        <3>8. QED BY <3>7 DEF Contract!Next
    <2>4. CASE Continue
        <3>1. UNCHANGED <<stage, present, slot>> /\ stage = "reading" /\ Sent = {} /\ Start(FollowUp)
            BY <2>4 DEF Continue, Joined
        <3>2. phase = "crawling" /\ phase' = phase
            BY <3>1
        <3>3. flight = 0
            BY <3>1, FS_EmptySet
        <3>4. ~present => Sent' = {}
            BY <3>1 DEF Start, Read, Sent
        <3>5. flight' > flight => present
            BY <3>3, <3>4, FS_EmptySet
        <3>6. Contract!Read
            BY <2>1, <3>1, <3>2, <3>5 DEF Contract!Read, Contract!Requests
        <3>7. QED BY <3>6 DEF Contract!Next
    <2>5. CASE ReturnDocument \/ GiveUp
        <3>1. stage = "reading" /\ Sent = {} /\ present' = present /\ \E o : Finish(o)
            BY <2>5 DEF ReturnDocument, GiveUp, Joined
        <3>2. stage' = "done" /\ slot' = FALSE /\ reads' = <<>>
            BY <3>1 DEF Finish
        <3>3. Sent' = {} /\ flight = 0
            BY <3>1, <3>2, NothingRead, FS_EmptySet DEF Sent
        <3>4. phase = "crawling" /\ phase' = "done"
            BY <3>1, <3>2
        <3>5. Contract!Answer
            BY <3>1, <3>2, <3>3, <3>4 DEF Contract!Answer
        <3>6. QED BY <3>5 DEF Contract!Next
    <2>6. CASE Leave
        <3>1. UNCHANGED <<stage, slot, reads>> /\ present' = FALSE
            BY <2>6 DEF Leave
        <3>2. Sent' = Sent /\ phase' = phase
            BY <3>1 DEF Sent
        <3>3. Contract!HangUp
            BY <3>1, <3>2 DEF Contract!HangUp
        <3>4. QED BY <3>3 DEF Contract!Next
    <2>7. CASE UNCHANGED engineVars
        <3>1. UNCHANGED <<stage, present, slot, reads>>
            BY <2>7 DEF engineVars
        <3>2. Sent' = Sent /\ phase' = phase
            BY <3>1 DEF Sent
        <3>3. QED BY <3>1, <3>2 DEF Contract!vars
    <2>8. QED BY <2>2, <2>3, <2>4, <2>5, <2>6, <2>7 DEF EngineNext, Engine
<1>5. QED BY <1>1, <1>2, <1>3, <1>4, PTL DEF CrawlSpec, EngineSpec, Contract!Spec

-----------------------------------------------------------------------------
(* What the documents say of themselves.                                   *)

\* The document is about to be returned.
Ready == EngineTypeOK /\ Underway /\ stage = "reading" /\ Joined /\ FollowUp = <<>> /\ Served

\* DocumentHonest of the items that are about to be shown.
ItemsHonest ==
    /\ "items" \in Said \/ StoppedShort <=> Len(Items) < Cardinality(There)
    /\ Items = Filter(SiteOrder, Range(Items))
    /\ kind \in {"item", "thread"} =>
          \A c \in Range(Items) : Parent[c] \in There => Parent[c] \in Range(Items)

\* What was asked for has been read.
LEMMA AllRead ==
    ASSUME Ready, Error = "ok"
    PROVE  /\ 1 \in DOMAIN reads /\ reads[1].name \in Heads(kind)
           /\ \A i \in DOMAIN reads : reads[i].name \notin Optional => reads[i].name \in DOMAIN got
           /\ kind = "pull" => "comments" \in DOMAIN got /\ "files" \in DOMAIN got
<1>1. reads \in Seq(Reading) /\ Joined /\ ReadsKept /\ reads # <<>>
    BY DEF Ready, Underway, ReadsKept, EngineTypeOK
<1>2. \A i \in DOMAIN reads : reads[i].st = "ok"
    BY <1>1, ErrorIs
<1>3. 1 \in DOMAIN reads
    BY <1>1, LenProperties, EmptySeq
<1>4. \A i \in DOMAIN reads : reads[i].name \notin Optional => reads[i].name \in DOMAIN got
    BY <1>1, <1>2 DEF ReadsKept
<1>5. ASSUME kind = "pull" PROVE "comments" \in DOMAIN got /\ "files" \in DOMAIN got
    <2>1. {"comments", "files"} \subseteq {reads[i].name : i \in DOMAIN reads}
        BY <1>1, <1>5 DEF ReadsKept
    <2>2. PICK i \in DOMAIN reads : reads[i].name = "comments"
        BY <2>1
    <2>3. PICK j \in DOMAIN reads : reads[j].name = "files"
        BY <2>1
    <2>4. QED BY <1>4, <2>2, <2>3 DEF Optional
<1>6. reads[1].name \in Heads(kind)
    BY <1>1 DEF ReadsKept
<1>7. QED BY <1>3, <1>4, <1>5, <1>6

LEMMA UpTo == ASSUME NEW n \in Nat PROVE IsFiniteSet(1..n) /\ Cardinality(1..n) = n
BY FS_Interval

\* The beginning of a count is in its order.
LEMMA CountedKept ==
    ASSUME NEW m \in Nat, NEW n \in 0..m
    PROVE  Counted(n) = Filter(Counted(m), Range(Counted(n)))
<1>1. n \in Nat /\ n <= m
    OBVIOUS
<1>2. /\ Counted(m) \in Seq(Nat) /\ Len(Counted(m)) = m /\ IsInjective(Counted(m))
      /\ \A i \in 1..m : Counted(m)[i] = i
    BY CountedIs
<1>3. Counted(n) \in Seq(Nat) /\ Len(Counted(n)) = n /\ \A i \in 1..n : Counted(n)[i] = i
    BY <1>1, CountedIs
<1>4. [k \in 1..n |-> k] \in TakenFrom(Counted(m), Counted(n))
    BY <1>1, <1>2, <1>3 DEF TakenFrom
<1>5. QED BY <1>2, <1>3, <1>4, OrderKept

\* Items that nothing tells apart but their number.
LEMMA NumberedHonest ==
    ASSUME kind \notin {"item", "thread", "topic"}, NEW m \in Nat, NEW n \in 0..m,
           Items = Counted(n), There = 1..m, "items" \in Said \/ StoppedShort <=> n < m
    PROVE  ItemsHonest
<1>1. Cardinality(There) = m
    BY UpTo
<1>2. SiteOrder = Counted(m)
    BY <1>1 DEF SiteOrder
<1>3. n \in Nat
    OBVIOUS
<1>4. Len(Items) = n
    BY <1>3, CountedIs
<1>5. Items = Filter(SiteOrder, Range(Items))
    BY <1>2, CountedKept
<1>6. QED BY <1>1, <1>4, <1>5 DEF ItemsHonest

LEMMA CommentsHonest ==
    ASSUME Ready, kind \in {"pull", "issue"}
    PROVE  ItemsHonest
<1>1. Error = "ok" /\ "comments" \in DOMAIN got
    <2>1. reads[1].name \in Heads(kind)
        BY DEF Ready, Underway, ReadsKept, EngineTypeOK
    <2>2. Heads(kind) = IF kind = "pull" THEN {"pull"} ELSE {"issue", "comments"}
        BY DEF Heads, Plan
    <2>3. Error = "ok"
        BY <2>1, <2>2 DEF Ready, Served, Over
    <2>4. CASE kind = "pull"
        BY <2>3, <2>4, AllRead
    <2>5. CASE kind = "issue"
        <3>1. ~Over("issue")
            BY <2>3, <2>5 DEF Ready, FollowUp
        <3>2. reads[1].name = "comments"
            BY <2>1, <2>2, <2>5, <3>1 DEF Over
        <3>3. QED BY <2>3, <3>2, AllRead DEF Optional
    <2>6. QED BY <2>3, <2>4, <2>5
<1> DEFINE c == got["comments"]
           n == IF c.collected <= MaxComments THEN c.collected ELSE MaxComments
           m == c.collected + (IF c.left \in {"capped", "bound", "elsewhere"} THEN 1 ELSE 0)
<1>2. c.collected \in Nat /\ MaxComments \in Nat
    BY <1>1, EngineAssumption DEF Ready, Underway, GotTyped
<1>3. m \in Nat /\ n \in 0..m
    BY <1>2
<1>4. Items = Counted(n)
    <2>1. Min({c.collected, MaxComments}) = n
        BY <1>2, MinOfTwo
    <2>2. QED BY <2>1 DEF Items
<1>5. There = 1..m
    BY DEF There
<1>6. "items" \in Said <=> CommentsCut(c)
    BY DEF Said
<1>7. CommentsCut(c) \/ StoppedShort <=> n < m
    <2>1. StoppedShort <=> c.left \in {"bound", "elsewhere"}
        BY DEF StoppedShort
    <2>2. QED BY <1>2, <2>1 DEF CommentsCut
<1> HIDE DEF n, m
<1>8. QED BY <1>3, <1>4, <1>5, <1>6, <1>7, NumberedHonest

LEMMA OneReadHonest ==
    ASSUME Ready, kind \in {"discussion", "release"}
    PROVE  ItemsHonest
<1>1. Error = "ok" /\ got[kind] \in Answers(kind)
    <2>0. reads[1].name \in Heads(kind)
        BY DEF Ready, Underway, ReadsKept, EngineTypeOK
    <2>1. reads[1].name \in Heads(kind) /\ Heads(kind) = {kind}
        <3>1. CASE kind = "discussion"
            BY <2>0, <3>1 DEF Heads, Plan
        <3>2. CASE kind = "release"
            BY <2>0, <3>2 DEF Heads, Plan
        <3>3. QED BY <3>1, <3>2
    <2>2. Error = "ok"
        BY <2>1 DEF Ready, Served, Over
    <2>3. kind \in DOMAIN got
        BY <2>1, <2>2, AllRead DEF Optional
    <2>4. QED BY <2>2, <2>3 DEF Ready, Underway, GotTyped
<1>2. CASE kind = "discussion"
    <2> DEFINE d == got["discussion"]
    <2>1. d \in Counts /\ d.shown <= d.total
        BY <1>1, <1>2 DEF Answers
    <2>2. d.total \in Nat /\ d.shown \in Nat
        BY <2>1, EngineAssumption DEF Counts
    <2>3. Items = Counted(d.shown) /\ There = 1..d.total
        BY <1>2 DEF Items, There
    <2>4. Len(Items) = d.shown
        BY <2>2, <2>3, CountedIs
    <2>5. "items" \in Said <=> d.total > d.shown
        BY <1>2, <2>4 DEF Said
    <2>6. d.shown \in 0..d.total
        BY <2>1, <2>2
    <2>7. QED BY <1>2, <2>2, <2>3, <2>5, <2>6, NumberedHonest DEF StoppedShort
<1>3. CASE kind = "release"
    <2> DEFINE r == got["release"]
               n == IF r <= MaxAssets THEN r ELSE MaxAssets
    <2>1. r \in Nat /\ MaxAssets \in Nat
        BY <1>1, <1>3, EngineAssumption DEF Answers
    <2>2. Assets = n
        BY <2>1, MinOfTwo DEF Assets
    <2>3. Items = Counted(n) /\ There = 1..r
        BY <1>3, <2>2 DEF Items, There
    <2>4. "items" \in Said <=> r > MaxAssets
        BY <1>3 DEF Said
    <2>5. n \in 0..r /\ (r > MaxAssets <=> n < r)
        BY <2>1
    <2> HIDE DEF n
    <2>6. QED BY <1>3, <2>1, <2>3, <2>4, <2>5, NumberedHonest DEF StoppedShort
<1>4. QED BY <1>2, <1>3

LEMMA AnswersHonest ==
    ASSUME Ready, kind \in {"question", "answer"}
    PROVE  ItemsHonest
<1>1. Error = "ok" /\ reads[1].name \in {"question", "answer", "answers"}
    <2>1. reads[1].name \in Heads(kind) /\ Heads(kind) \subseteq {"question", "answer", "answers"}
        BY DEF Ready, Underway, ReadsKept, EngineTypeOK, Heads
    <2>2. QED BY <2>1 DEF Ready, Served, Over
<1>2. ~Over("answer")
    <2>1. FollowUp = NextCall
        BY DEF FollowUp
    <2>2. Over("answer") => got["answer"] = "found"
        BY DEF Ready, Served
    <2>3. <<"question">> # <<>> /\ FollowUp = <<>>
        BY DEF Ready
    <2>4. QED BY <1>1, <2>1, <2>2, <2>3 DEF NextCall, Over
<1>3. "question" \in DOMAIN got /\ got["question"] # <<>>
    <2>1. CASE Over("question")
        <3>1. "question" \in DOMAIN got
            BY <1>1, <2>1, AllRead DEF Over, Optional
        <3>2. QED BY <2>1, <3>1 DEF Ready, Served
    <2>2. CASE Over("answers")
        BY <2>2 DEF Ready, Underway, ReadBefore, EngineTypeOK
    <2>3. QED BY <1>1, <1>2, <2>1, <2>2 DEF Over
<1> DEFINE q == got["question"][1]
           a == got["answers"]
           listed == "answers" \in DOMAIN got
           n == IF listed THEN a.shown ELSE 0
           k == IF listed THEN a.shown + (IF a.more THEN 1 ELSE 0) ELSE 0
           m == IF q >= k THEN q ELSE k
<1>4. q \in Nat
    <2>1. got["question"] \in Answers("question")
        BY <1>3 DEF Ready, Underway, GotTyped
    <2>2. got["question"] \in {<<i>> : i \in 0..(MaxAnswers + 1)}
        BY <1>3, <2>1 DEF Answers
    <2>3. PICK i \in 0..(MaxAnswers + 1) : got["question"] = <<i>>
        BY <2>2
    <2>4. QED BY <2>3, EngineAssumption
<1>5. listed => a.shown \in Nat /\ a.more \in BOOLEAN
    <2>1. listed => a \in Answers("answers")
        BY DEF Ready, Underway, GotTyped
    <2>2. QED BY <2>1, EngineAssumption DEF Answers, Counts
<1>6. n \in Nat /\ k \in Nat /\ n <= k /\ m \in Nat /\ n \in 0..m
    BY <1>4, <1>5
<1>7. Items = Counted(n)
    BY DEF Items, TopAnswers
<1>8. There = 1..m
    <2>1. Max({q, k}) = m
        BY <1>4, <1>6, MaxOfTwo
    <2>2. k = IF "answers" \notin DOMAIN got THEN 0 ELSE a.shown + (IF a.more THEN 1 ELSE 0)
        OBVIOUS
    <2> HIDE DEF m, k
    <2>3. There = 1..Max({q, k})
        BY <2>2 DEF There
    <2>4. QED BY <2>1, <2>3
<1>9. Len(Items) = n
    BY <1>6, <1>7, CountedIs
<1>10. "items" \in Said <=> (listed /\ a.more) \/ q > n
    BY <1>9 DEF Said
<1>11. ((listed /\ a.more) \/ q > n) <=> n < m
    BY <1>4, <1>5
<1> HIDE DEF n, m, k, q
<1>12. QED BY <1>6, <1>7, <1>8, <1>10, <1>11, NumberedHonest DEF StoppedShort

LEMMA NothingHonest ==
    ASSUME Ready, kind \notin {"pull", "issue", "discussion", "release", "topic", "question", "answer", "item", "thread"}
    PROVE  ItemsHonest
<1>1. Items = Counted(0) /\ There = 1..0
    <2>1. Items = <<>> /\ There = {}
        BY DEF Items, There
    <2>2. Counted(0) \in Seq(Nat) /\ Len(Counted(0)) = 0
        BY CountedIs
    <2>3. QED BY <2>1, <2>2, EmptySeq
<1>2. "items" \notin Said
    BY DEF Said
<1>3. QED BY <1>1, <1>2, NumberedHonest DEF StoppedShort

\* Posts of a topic, in the order of the topic.
LEMMA PostsHonest ==
    ASSUME kind = "topic", NEW N \in Nat, There = 1..N, Total = N, Items \in Seq(Nat),
           \E e : e \in TakenFrom(Counted(TopicSize), Items)
    PROVE  ItemsHonest
<1>1. SiteOrder = Counted(TopicSize) /\ TopicSize \in Nat
    BY EngineAssumption DEF SiteOrder
<1>2. Counted(TopicSize) \in Seq(Nat) /\ IsInjective(Counted(TopicSize))
    BY <1>1, CountedIs
<1>3. Items = Filter(SiteOrder, Range(Items))
    BY <1>1, <1>2, OrderKept
<1>4. "items" \in Said <=> Total > Len(Items)
    BY DEF Said
<1>5. Cardinality(There) = N /\ Len(Items) \in Nat
    BY UpTo, LenProperties
<1>6. QED BY <1>3, <1>4, <1>5 DEF ItemsHonest, StoppedShort

\* The first of a part of the topic.
LEMMA FirstOfCount ==
    ASSUME NEW s \in Seq(Nat), \E e : e \in TakenFrom(Counted(TopicSize), s)
    PROVE  First(MaxPosts, s) \in Seq(Nat) /\ \E e : e \in TakenFrom(Counted(TopicSize), First(MaxPosts, s))
<1>1. MaxPosts \in Nat /\ Counted(TopicSize) \in Seq(Nat)
    BY CountedIs, EngineAssumption
<1>2. First(MaxPosts, s) \in Seq(Nat) /\ \E e : e \in TakenFrom(s, First(MaxPosts, s))
    BY <1>1, FirstIs
<1>3. PICK e : e \in TakenFrom(Counted(TopicSize), s)
    OBVIOUS
<1>4. PICK f : f \in TakenFrom(s, First(MaxPosts, s))
    BY <1>2
<1>5. QED BY <1>1, <1>2, <1>3, <1>4, TakenOfTaken

LEMMA CountOfCount ==
    ASSUME NEW n \in 0..TopicSize
    PROVE  Counted(n) \in Seq(Nat) /\ \E e : e \in TakenFrom(Counted(TopicSize), Counted(n))
<1>1. n \in Nat /\ TopicSize \in Nat /\ n <= TopicSize
    BY EngineAssumption
<1>2. Counted(TopicSize) \in Seq(Nat) /\ Len(Counted(TopicSize)) = TopicSize
      /\ \A i \in 1..TopicSize : Counted(TopicSize)[i] = i
    BY <1>1, CountedIs
<1>3. Counted(n) \in Seq(Nat) /\ Len(Counted(n)) = n /\ \A i \in 1..n : Counted(n)[i] = i
    BY <1>1, CountedIs
<1>4. [k \in 1..n |-> k] \in TakenFrom(Counted(TopicSize), Counted(n))
    BY <1>1, <1>2, <1>3 DEF TakenFrom
<1>5. QED BY <1>3, <1>4

LEMMA TopicHonest ==
    ASSUME Ready, kind = "topic"
    PROVE  ItemsHonest
<1>1. Error = "ok" /\ reads[1].name \in {"print", "topic", "posts"}
    <2>1. reads[1].name \in Heads(kind) /\ Heads(kind) = {"print", "topic", "posts"}
        BY DEF Ready, Underway, ReadsKept, EngineTypeOK, Heads
    <2>2. QED BY <2>1 DEF Ready, Served, Over
<1>2. reads[1].name \in DOMAIN got /\ (Over("posts") => "topic" \in DOMAIN got)
    BY <1>1, AllRead DEF Optional, Ready, Underway, ReadBefore, EngineTypeOK
<1>3. Items = Posts
    BY DEF Items
<1>4. CASE "topic" \notin DOMAIN got
    <2> DEFINE p == got["print"]
    <2>1. p \in Answers("print")
        BY <1>1, <1>2, <1>4 DEF Over, Ready, Underway, GotTyped
    <2>2. p \in [count : 0..(TopicSize + 1), posts : {Counted(n) : n \in 0..TopicSize}]
        BY <2>1 DEF Answers
    <2>3. PICK n \in 0..TopicSize : p.posts = Counted(n)
        BY <2>2
    <2>4. p.count \in Nat /\ n \in Nat
        BY <2>2, <2>3, EngineAssumption
    <2> HIDE DEF p
    <2>5. p.posts \in Seq(Nat) /\ Len(p.posts) = n
        BY <2>3, <2>4, CountedIs
    <2>6. First(MaxPosts, p.posts) \in Seq(Nat)
          /\ \E e : e \in TakenFrom(Counted(TopicSize), First(MaxPosts, p.posts))
        BY <2>3, FirstOfCount, CountOfCount
    <2>7. Items = First(MaxPosts, p.posts)
        BY <1>3, <1>4 DEF Posts, p
    <2>8. Total = Max({p.count, Len(p.posts)}) /\ There = 1..Max({p.count, Len(p.posts)})
        <3>1. Total = Max({p.count, Len(p.posts)})
            BY <1>4 DEF Total, p
        <3>2. There = 1..Max({p.count, Len(p.posts)})
            BY <1>4 DEF There, p
        <3>3. QED BY <3>1, <3>2
    <2>9. Max({p.count, Len(p.posts)}) \in Nat
        BY <2>4, <2>5, MaxOfTwo
    <2>10. QED BY <2>6, <2>7, <2>8, <2>9, PostsHonest
<1>5. CASE "topic" \in DOMAIN got
    <2> DEFINE t == got["topic"]
    <2>0. GotTyped /\ TopicSize \in Nat
        BY EngineAssumption DEF Ready, Underway
    <2>1. PICK m \in 0..TopicSize : /\ t.stream = Counted(m) /\ t.posts \in SUBSET (1..TopicSize)
                                    /\ t.count \in Nat /\ (m = 0 \/ t.posts \subseteq 1..m)
        BY <1>5, <2>0, StreamIs
    <2>2. PICK n \in 0..TopicSize : Wanted = Counted(n) /\ (Wanted = <<>> <=> t.stream = <<>>)
        BY <1>5, <2>0, WantedIs
    <2> DEFINE size == Cardinality(t.posts)
               N == Max({t.count, Len(t.stream), size})
    <2>3. m \in Nat /\ Len(t.stream) = m /\ (t.stream = <<>> <=> m = 0)
        <3>1. m \in Nat
            BY <2>0, <2>1
        <3>2. Counted(m) \in Seq(Nat) /\ Len(Counted(m)) = m
            BY <3>1, CountedIs
        <3>3. Counted(m) = <<>> <=> m = 0
            BY <3>2, EmptySeq
        <3>4. QED BY <2>1, <3>1, <3>2, <3>3
    <2>4. size \in Nat /\ (m # 0 => size <= m)
        <3>1. IsFiniteSet(1..TopicSize) /\ IsFiniteSet(1..m) /\ Cardinality(1..m) = m
            BY <2>0, <2>3, UpTo
        <3>2. QED BY <2>1, <3>1, FS_Subset, FS_CardinalityType
    <2>5. There = 1..N
        BY <1>5 DEF There
    <2>6. Total = Max({t.count, IF Wanted = <<>> THEN size ELSE Len(t.stream)})
        BY <1>5 DEF Total
    <2>7. Items = IF Wanted = <<>> THEN First(MaxPosts, Filter(Counted(TopicSize), t.posts))
                  ELSE Filter(Wanted, t.posts \cup (IF "posts" \in DOMAIN got THEN got["posts"] ELSE {}))
        BY <1>3, <1>5 DEF Posts
    <2>8. t.count \in Nat
        BY <2>1
    <2> HIDE DEF t, size
    <2>9. N \in Nat /\ Total = N
        <3>1. N = Max({Max({t.count, Len(t.stream)}), size})
            BY <2>3, <2>4, <2>8, MaxOfThree
        <3>2. Max({t.count, Len(t.stream)}) = IF t.count >= m THEN t.count ELSE m
            BY <2>3, <2>8, MaxOfTwo
        <3>3. N = IF Max({t.count, Len(t.stream)}) >= size THEN Max({t.count, Len(t.stream)}) ELSE size
            BY <2>3, <2>4, <2>8, <3>1, <3>2, MaxOfTwo
        <3>4. Total = IF Wanted = <<>> THEN (IF t.count >= size THEN t.count ELSE size)
                      ELSE (IF t.count >= m THEN t.count ELSE m)
            BY <2>3, <2>4, <2>6, <2>8, MaxOfTwo
        <3> HIDE DEF N
        <3>5. QED BY <2>2, <2>3, <2>4, <2>8, <3>2, <3>3, <3>4
    <2> HIDE DEF N
    <2>10. Items \in Seq(Nat) /\ \E e : e \in TakenFrom(Counted(TopicSize), Items)
        <3>1. Counted(TopicSize) \in Seq(Nat)
            BY <2>0, CountedIs
        <3>2. CASE Wanted = <<>>
            <4> DEFINE s == Filter(Counted(TopicSize), t.posts)
            <4>1. s \in Seq(Nat) /\ \E e : e \in TakenFrom(Counted(TopicSize), s)
                BY <3>1, FilterIs, FilterPicks
            <4>2. Items = First(MaxPosts, s)
                BY <2>7, <3>2
            <4> HIDE DEF s
            <4>3. QED BY <4>1, <4>2, FirstOfCount
        <3>3. CASE Wanted # <<>>
            <4> DEFINE T == t.posts \cup (IF "posts" \in DOMAIN got THEN got["posts"] ELSE {})
                       s == Filter(Wanted, T)
            <4>1. Wanted \in Seq(Nat) /\ \E e : e \in TakenFrom(Counted(TopicSize), Wanted)
                BY <2>2, CountOfCount
            <4>2. Items = s
                BY <2>7, <3>3
            <4> HIDE DEF T
            <4>3. s \in Seq(Nat) /\ \E e : e \in TakenFrom(Wanted, s)
                BY <4>1, FilterIs, FilterPicks
            <4> HIDE DEF s
            <4>4. PICK e : e \in TakenFrom(Counted(TopicSize), Wanted)
                BY <4>1
            <4>5. PICK f : f \in TakenFrom(Wanted, s)
                BY <4>3
            <4>6. QED BY <3>1, <4>1, <4>2, <4>3, <4>4, <4>5, TakenOfTaken
        <3>4. QED BY <3>2, <3>3
    <2>11. QED BY <2>5, <2>9, <2>10, PostsHonest
<1>6. QED BY <1>4, <1>5

LEMMA OrderIs == Order \in Seq(Ids) /\ IsInjective(Order) /\ Range(Order) = Ids
BY EngineAssumption DEF Ids

\* All that are there, in order.
LEMMA FlatIs ==
    ASSUME NEW gone \in SUBSET Ids
    PROVE  /\ Flat(gone) \in Seq(Ids) /\ Range(Flat(gone)) = Ids \ gone
           /\ Len(Flat(gone)) = Cardinality(Ids \ gone) /\ Len(Flat(gone)) \in Nat
           /\ \E e : e \in TakenFrom(Order, Flat(gone))
<1> DEFINE T == Ids \ gone
           q == Filter(Order, T)
<1>1. q \in Seq(Ids) /\ Range(q) = Range(Order) \cap T /\ IsInjective(q) /\ \E e : e \in TakenFrom(Order, q)
    BY OrderIs, FilterIs, FilterPicks
<1>2. Range(Order) \cap T = T /\ Flat(gone) = q
    BY OrderIs DEF Flat
<1> HIDE DEF q, T
<1>3. Cardinality(Range(q)) = Len(q) /\ Len(q) \in Nat
    BY <1>1, RangeSize, LenProperties
<1>4. QED BY <1>1, <1>2, <1>3 DEF T

LEMMA TreeRead ==
    ASSUME Ready, kind \in {"item", "thread"}
    PROVE  got[kind] \in SUBSET Ids
<1>1. reads[1].name \in Heads(kind)
    BY DEF Ready, Underway, ReadsKept, EngineTypeOK
<1>2. Heads(kind) = {kind}
    <2>1. CASE kind = "item"
        BY <2>1 DEF Heads, Plan
    <2>2. CASE kind = "thread"
        BY <2>2 DEF Heads, Plan
    <2>3. QED BY <2>1, <2>2
<1>3. Error = "ok"
    BY <1>1, <1>2 DEF Ready, Served, Over
<1>4. kind \in DOMAIN got
    BY <1>1, <1>2, <1>3, AllRead DEF Optional
<1>5. got[kind] \in Answers(kind)
    BY <1>4 DEF Ready, Underway, GotTyped
<1>6. QED BY <1>5 DEF Answers

LEMMA ItemHonest ==
    ASSUME Ready, kind = "item"
    PROVE  ItemsHonest
<1> DEFINE gone == got["item"]
           read == Ids \ gone
           kept == CapComments(caps.max)[CapPerSubtree(caps.per)[CapTopLevel(caps.top)[read]]]
<1>1. gone \in SUBSET Ids /\ read \in SUBSET Ids /\ caps \in Caps
    BY TreeRead DEF Ready, EngineTypeOK
<1>2. Items = Filter(Order, kept) /\ There = read /\ SiteOrder = Order
    BY DEF Items, ThreadComments, There, SiteOrder
<1>3. "items" \in Said <=> Len(Flat(gone)) > Len(Items)
    BY DEF Said
<1>4. KeptWith(kept, read)
    BY <1>1, CapsKeep
<1> HIDE DEF kept
<1>5. Items \in Seq(Ids) /\ Range(Items) = kept /\ \E e : e \in TakenFrom(Order, Items)
    <2>1. /\ Filter(Order, kept) \in Seq(Ids) /\ Range(Filter(Order, kept)) = Range(Order) \cap kept
          /\ \E e : e \in TakenFrom(Order, Filter(Order, kept))
        BY OrderIs, FilterIs, FilterPicks
    <2>2. Range(Order) \cap kept = kept
        BY <1>1, <1>4, OrderIs DEF KeptWith
    <2>3. QED BY <1>2, <2>1, <2>2
<1>6. Items = Filter(SiteOrder, Range(Items))
    BY <1>2, <1>5, OrderIs, OrderKept
<1>7. Len(Flat(gone)) = Cardinality(There) /\ Cardinality(There) \in Nat /\ Len(Items) \in Nat
    BY <1>1, <1>2, <1>5, FlatIs, LenProperties
<1>8. \A c \in Range(Items) : Parent[c] \in There => Parent[c] \in Range(Items)
    BY <1>2, <1>4, <1>5 DEF KeptWith
<1> HIDE DEF read, gone
<1>9. QED BY <1>3, <1>6, <1>7, <1>8 DEF ItemsHonest, StoppedShort

LEMMA ThreadHonest ==
    ASSUME Ready, kind = "thread"
    PROVE  ItemsHonest
<1> DEFINE gone == got["thread"]
           flat == Flat(gone)
           n == Len(flat)
<1>1. gone \in SUBSET Ids /\ MaxReplies \in Nat
    BY TreeRead, EngineAssumption
<1>2. Items = First(MaxReplies, flat) /\ There = Ids \ gone /\ SiteOrder = Order
    BY DEF Items, Replies, There, SiteOrder
<1>3. "items" \in Said <=> n > MaxReplies
    BY DEF Said
<1>4. flat \in Seq(Ids) /\ Range(flat) = There /\ n = Cardinality(There) /\ n \in Nat
    BY <1>1, <1>2, FlatIs
<1>5. PICK e : e \in TakenFrom(Order, flat)
    BY <1>1, FlatIs
<1> HIDE DEF gone, flat
<1>6. /\ Items \in Seq(Ids) /\ Len(Items) = (IF MaxReplies <= n THEN MaxReplies ELSE n)
      /\ \A i \in 1..Len(Items) : Items[i] = flat[i]
    BY <1>1, <1>2, <1>4, FirstIs
<1>7. PICK f : f \in TakenFrom(flat, Items)
    BY <1>1, <1>2, <1>4, FirstIs
<1>8. \E g : g \in TakenFrom(Order, Items)
    BY <1>4, <1>5, <1>6, <1>7, OrderIs, TakenOfTaken
<1>9. Items = Filter(SiteOrder, Range(Items))
    BY <1>2, <1>6, <1>8, OrderIs, OrderKept
<1>10. ASSUME NEW c \in Range(Items), Parent[c] \in There PROVE Parent[c] \in Range(Items)
    <2>1. /\ e \in [1..n -> 1..Len(Order)] /\ \A k, l \in 1..n : k < l => e[k] < e[l]
          /\ \A k \in 1..n : flat[k] = Order[e[k]]
        BY <1>5 DEF TakenFrom
    <2>2. DOMAIN Items = 1..Len(Items) /\ DOMAIN flat = 1..n /\ DOMAIN Order = 1..Len(Order) /\ Len(Order) \in Nat
        BY <1>4, <1>6, OrderIs, LenProperties
    <2>3. PICK i \in 1..Len(Items) : c = Items[i]
        BY <2>2 DEF Range
    <2>4. Parent[c] \in Range(flat)
        BY <1>4, <1>10
    <2>5. PICK j \in 1..n : Parent[c] = flat[j]
        BY <2>2, <2>4 DEF Range
    <2>6. i \in 1..n /\ c = flat[i]
        BY <1>1, <1>4, <1>6, <2>3
    <2>7. e[i] \in DOMAIN Order /\ e[j] \in DOMAIN Order /\ Order[e[j]] = Parent[Order[e[i]]]
        BY <2>1, <2>2, <2>5, <2>6
    <2>8. e[j] < e[i]
        BY <2>7, RepliesFollow
    <2>9. ~(i < j) /\ ~(i = j)
        BY <2>1, <2>2, <2>6, <2>7, <2>8
    <2>10. j \in 1..Len(Items)
        BY <1>4, <1>6, <2>3, <2>6, <2>9
    <2>11. QED BY <1>6, <2>2, <2>5, <2>10 DEF Range
<1>11. QED BY <1>1, <1>3, <1>4, <1>6, <1>9, <1>10 DEF ItemsHonest, StoppedShort

LEMMA ItemsAreHonest ==
    ASSUME Ready
    PROVE  ItemsHonest
BY CommentsHonest, OneReadHonest, AnswersHonest, NothingHonest, TopicHonest, ItemHonest, ThreadHonest

\* What is left and what is spent make up the whole.
LEMMA FittingFits ==
    ASSUME NEW s \in Seq(Nat)
    PROVE  PatchesFit(s, Fitting(s))
<1> DEFINE N == Len(s)
           bodyL(h) == [i \in 0..N |-> IF i = 0 THEN MaxDiff
                                       ELSE h[i - 1] - (IF s[i] <= h[i - 1] THEN s[i] ELSE 0)]
           left == CHOOSE h : h = bodyL(h)
           P == {i \in DOMAIN s : s[i] <= left[i - 1]}
           bodyS(h) == [n \in 0..N |-> IF n = 0 THEN 0 ELSE h[n - 1] + (IF n \in P THEN s[n] ELSE 0)]
           used == CHOOSE h : h = bodyS(h)
<1>1. N \in Nat /\ DOMAIN s = 1..N /\ \A i \in 1..N : s[i] \in Nat
    BY LenProperties
<1>2. MaxDiff \in Nat
    BY EngineAssumption
<1>3. Fitting(s) = P
    BY DEF Fitting
<1>4. PatchesFit(s, P) <=> \A i \in DOMAIN s : i \in P <=> used[i - 1] + s[i] <= MaxDiff
    BY DEF PatchesFit
<1>5. \E h : h = bodyL(h)
    <2> DEFINE step == [i \in 1..N |-> [v \in Int |-> v - (IF s[i] <= v THEN s[i] ELSE 0)]]
    <2>1. step \in Steps(Int, N)
        BY <1>1 DEF Steps
    <2>2. PICK g : g \in Results(Int, N, MaxDiff, step)
        <3> HIDE DEF step
        <3>1. MaxDiff \in Int
            BY <1>2
        <3> HIDE DEF N
        <3>2. QED BY <1>1, <2>1, <3>1, StepsHaveResults
    <2>3. g \in [0..N -> Int] /\ g[0] = MaxDiff /\ \A i \in 1..N : g[i] = step[i][g[i - 1]]
        BY <2>2 DEF Results
    <2>4. \A i \in 1..N : g[i - 1] \in Int
        BY <1>1, <2>3
    <2>5. g = bodyL(g)
        <3> HIDE DEF N
        <3>1. ASSUME NEW i \in 0..N PROVE g[i] = bodyL(g)[i]
            <4>1. CASE i = 0
                BY <2>3, <4>1
            <4>2. CASE i # 0
                <5>1. i \in 1..N
                    BY <1>1, <4>2
                <5>2. g[i] = step[i][g[i - 1]] /\ g[i - 1] \in Int
                    BY <2>3, <2>4, <5>1
                <5>3. QED BY <4>2, <5>1, <5>2
            <4>3. QED BY <4>1, <4>2
        <3>2. QED BY <2>3, <3>1
    <2>6. QED BY <2>5
<1>6. left = bodyL(left)
    <2> HIDE DEF bodyL
    <2>1. QED BY <1>5
<1> HIDE DEF left
<1> HIDE DEF P
<1>7. \E h : h = bodyS(h)
    <2> DEFINE step == [n \in 1..N |-> [v \in Int |-> v + (IF n \in P THEN s[n] ELSE 0)]]
    <2>1. step \in Steps(Int, N)
        BY <1>1 DEF Steps
    <2>2. PICK g : g \in Results(Int, N, 0, step)
        <3> HIDE DEF step
        <3>1. 0 \in Int
            OBVIOUS
        <3> HIDE DEF N
        <3>2. QED BY <1>1, <2>1, <3>1, StepsHaveResults
    <2>3. g \in [0..N -> Int] /\ g[0] = 0 /\ \A i \in 1..N : g[i] = step[i][g[i - 1]]
        BY <2>2 DEF Results
    <2>4. \A i \in 1..N : g[i - 1] \in Int
        BY <1>1, <2>3
    <2>5. g = bodyS(g)
        <3> HIDE DEF N
        <3>1. ASSUME NEW i \in 0..N PROVE g[i] = bodyS(g)[i]
            <4>1. CASE i = 0
                BY <2>3, <4>1
            <4>2. CASE i # 0
                <5>1. i \in 1..N
                    BY <1>1, <4>2
                <5>2. g[i] = step[i][g[i - 1]] /\ g[i - 1] \in Int
                    BY <2>3, <2>4, <5>1
                <5>3. QED BY <4>2, <5>1, <5>2
            <4>3. QED BY <4>1, <4>2
        <3>2. QED BY <2>3, <3>1
    <2>6. QED BY <2>5
<1>8. used = bodyS(used)
    <2> HIDE DEF bodyS
    <2>1. QED BY <1>7
<1> HIDE DEF used
<1>9. /\ left[0] = MaxDiff /\ used[0] = 0
      /\ \A i \in 1..N : left[i] = left[i - 1] - (IF s[i] <= left[i - 1] THEN s[i] ELSE 0)
      /\ \A i \in 1..N : used[i] = used[i - 1] + (IF i \in P THEN s[i] ELSE 0)
    <2> HIDE DEF N
    <2>1. left[0] = MaxDiff /\ used[0] = 0
        BY <1>1, <1>6, <1>8
    <2>2. ASSUME NEW i \in 1..N
          PROVE  /\ left[i] = left[i - 1] - (IF s[i] <= left[i - 1] THEN s[i] ELSE 0)
                 /\ used[i] = used[i - 1] + (IF i \in P THEN s[i] ELSE 0)
        <3>1. i \in 0..N /\ i # 0
            BY <1>1
        <3>2. left[i] = bodyL(left)[i] /\ used[i] = bodyS(used)[i]
            <4> HIDE DEF bodyL, bodyS
            <4>1. QED BY <1>6, <1>8
        <3>3. QED BY <3>1, <3>2
    <2>3. QED BY <2>1, <2>2
<1>10. \A i \in 1..N : i \in P <=> s[i] <= left[i - 1]
    BY <1>1 DEF P
<1> HIDE DEF N, bodyL, bodyS
<1> DEFINE T == {n \in Nat : n <= N => left[n] \in Int /\ used[n] \in Int /\ left[n] + used[n] = MaxDiff}
<1>11. 0 \in T
    BY <1>2, <1>9
<1>12. ASSUME NEW n \in T PROVE n + 1 \in T
    <2> SUFFICES ASSUME n + 1 <= N PROVE n + 1 \in T
        OBVIOUS
    <2>1. n \in Nat /\ n + 1 \in 1..N /\ (n + 1) - 1 = n
        BY <1>1
    <2>2. left[n] \in Int /\ used[n] \in Int /\ left[n] + used[n] = MaxDiff
        BY <1>1, <2>1
    <2>3. left[n + 1] = left[n] - (IF s[n + 1] <= left[n] THEN s[n + 1] ELSE 0)
        BY <1>9, <2>1
    <2>4. used[n + 1] = used[n] + (IF s[n + 1] <= left[n] THEN s[n + 1] ELSE 0)
        BY <1>9, <1>10, <2>1
    <2>5. s[n + 1] \in Nat
        BY <1>1, <2>1
    <2>6. QED BY <1>2, <2>1, <2>2, <2>3, <2>4, <2>5
<1>13. \A n \in Nat : n \in T
    <2>1. T \in SUBSET Nat
        OBVIOUS
    <2> HIDE DEF T
    <2>2. QED BY <1>11, <1>12, <2>1, NaturalsFromZero
<1>14. ASSUME NEW i \in 1..N PROVE i \in P <=> used[i - 1] + s[i] <= MaxDiff
    <2>1. i - 1 \in Nat /\ i - 1 <= N
        BY <1>1
    <2>2. left[i - 1] \in Int /\ used[i - 1] \in Int /\ left[i - 1] + used[i - 1] = MaxDiff
        BY <1>13, <2>1
    <2>3. s[i] \in Nat
        BY <1>1
    <2>4. s[i] <= left[i - 1] <=> used[i - 1] + s[i] <= MaxDiff
        BY <1>2, <2>2, <2>3
    <2>5. QED BY <1>10, <2>4
<1>15. QED BY <1>1, <1>3, <1>4, <1>14

LEMMA SizesAre ==
    ASSUME Ready
    PROVE  Sizes \in Seq(Nat)
<1>1. Patches \subseteq Seq(Nat) /\ GotTyped
    BY EngineAssumption DEF Ready, Underway
<1>2. reads[1].name \in Heads(kind)
    BY DEF Ready, Underway, ReadsKept, EngineTypeOK
<1>3. CASE kind = "pull"
    <2>1. Heads(kind) = {"pull"}
        BY <1>3 DEF Heads, Plan
    <2>2. "files" \in DOMAIN got
        BY <1>2, <1>3, <2>1, AllRead DEF Ready, Served, Over
    <2>3. got["files"] \in Answers("files")
        BY <1>1, <2>2 DEF GotTyped
    <2>4. QED BY <1>1, <1>3, <2>3 DEF Answers, Sizes
<1>4. CASE kind = "commit"
    <2>1. Heads(kind) = {"commit"}
        BY <1>4 DEF Heads, Plan
    <2>2. "commit" \in DOMAIN got
        BY <1>2, <2>1, AllRead DEF Ready, Served, Over, Optional
    <2>3. got["commit"] \in Answers("commit")
        BY <1>1, <2>2 DEF GotTyped
    <2>4. QED BY <1>1, <1>4, <2>3 DEF Answers, Sizes
<1>5. CASE kind \notin {"pull", "commit"}
    <2>1. Sizes = <<>>
        BY <1>5 DEF Sizes
    <2>2. QED BY <2>1
<1>6. QED BY <1>3, <1>4, <1>5

\* A document is honest when it is returned, and stays what it is.
LEMMA ReturnsHonest ==
    ASSUME EngineTypeOK, Underway, ReturnDocument, EngineTypeOK'
    PROVE  DocumentHonest'
<1>1. Ready
    BY DEF Ready, ReturnDocument
<1>2. /\ UNCHANGED <<kind, got, tried>> /\ notes' = Said
      /\ doc' = [items |-> Items, patches |-> Fitting(Sizes)]
    BY DEF ReturnDocument, crawl
<1>3. doc'.items = Items /\ doc'.patches = Fitting(Sizes)
    BY <1>2
<1>4. There' = There /\ StoppedShort' = StoppedShort
    BY <1>2 DEF There, StoppedShort
<1>5. SiteOrder' = SiteOrder
    BY <1>2, <1>4 DEF SiteOrder
<1>6. Sizes' = Sizes
    BY <1>2 DEF Sizes
<1>7. ItemsHonest
    BY <1>1, ItemsAreHonest
<1>8. PatchesFit(Sizes, Fitting(Sizes))
    BY <1>1, SizesAre, FittingFits
<1>9. "diff" \in Said <=> Fitting(Sizes) # DOMAIN Sizes
    BY DEF Said
<1>10. QED BY <1>2, <1>3, <1>4, <1>5, <1>6, <1>7, <1>8, <1>9 DEF DocumentHonest, ItemsHonest

\* Nothing changes once a document is out, and none is out before.
LEMMA HonestyStays ==
    ASSUME EngineTypeOK, Underway, DocumentHonest, EngineTypeOK', [EngineNext]_engineVars
    PROVE  DocumentHonest'
<1>1. CASE UNCHANGED engineVars
    <2>1. UNCHANGED <<kind, caps>> /\ UNCHANGED <<got, tried>> /\ UNCHANGED <<doc, notes, outcome>>
        BY <1>1 DEF engineVars, crawl, document
    <2>2. There' = There /\ Sizes' = Sizes /\ StoppedShort' = StoppedShort
        BY <2>1 DEF There, Sizes, StoppedShort
    <2>3. SiteOrder' = SiteOrder
        BY <2>1, <2>2 DEF SiteOrder
    <2>4. QED BY <2>1, <2>2, <2>3 DEF DocumentHonest
<1>2. CASE ReturnDocument
    BY <1>2, ReturnsHonest
<1>3. CASE Pace \/ Settles \/ Continue \/ Leave \/ GiveUp
    <2>1. outcome' # "ok"
        <3>1. CASE Pace
            <4>1. stage = "pace" => outcome = ""
                BY DEF EngineTypeOK
            <4>2. QED BY <3>1, <4>1 DEF Pace, Finish
        <3>2. CASE Settles
            <4>1. reads # <<>> /\ outcome' = outcome
                BY <3>2, NoneSent DEF Settles, ReadFails, Arrives, PageArrives, document
            <4>2. QED BY <4>1 DEF EngineTypeOK
        <3>3. CASE Continue
            BY <3>3 DEF Continue, document, EngineTypeOK
        <3>4. CASE Leave
            BY <3>4 DEF Leave, document, EngineTypeOK
        <3>5. CASE GiveUp
            BY <3>5 DEF GiveUp, Finish
        <3>6. QED BY <1>3, <3>1, <3>2, <3>3, <3>4, <3>5
    <2>2. QED BY <2>1 DEF DocumentHonest
<1>4. QED BY <1>1, <1>2, <1>3 DEF EngineNext, Engine

\* For sites, trees, topics and caps of any size, a document that is cut says so and
\* only that one, but for GitHub's comments that stopped short; in the site's order, replies with what they answer, and no patch
\* left out that would have fitted (truncated_from and the notes of every engine).
THEOREM DocumentsAreHonest == CrawlSpec => []DocumentHonest
<1>1. EngineInit => EngineIInv
    <2> SUFFICES ASSUME EngineInit PROVE EngineIInv
        OBVIOUS
    <2>1. EngineTypeOK /\ Underway
        BY StartsOK
    <2>2. QED BY <2>1 DEF EngineInit, DocumentHonest, EngineIInv
<1>2. EngineIInv /\ [EngineNext]_engineVars => EngineIInv'
    <2> SUFFICES ASSUME EngineTypeOK, Underway, DocumentHonest, [EngineNext]_engineVars
                 PROVE  EngineIInv'
        BY DEF EngineIInv
    <2>1. EngineTypeOK' /\ Underway'
        BY StepKeeps
    <2>2. QED BY <2>1, HonestyStays DEF EngineIInv
<1>3. EngineIInv => DocumentHonest
    BY DEF EngineIInv
<1>4. QED BY <1>1, <1>2, <1>3, PTL DEF CrawlSpec
=============================================================================
