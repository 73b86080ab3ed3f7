------------------------- MODULE RedisLimiterProofs -------------------------
(***************************************************************************)
(* What holds of the shared limiter for any number of pods and callers,    *)
(* every configuration, and any loss of calls and crash of pods: the       *)
(* rolling quota, the cap on requests in flight, and that it is the        *)
(* limiter PacedAdmissions describes.                                      *)
(***************************************************************************)
EXTENDS RedisLimiter, SeqLemmas, FiniteSetTheorems

-----------------------------------------------------------------------------
(* The inductive invariant.                                                *)

\* The window s ends as the admissions did, and what it lacks of them is over.
Remembers(s) ==
    /\ Len(s) <= Len(admits)
    /\ \A i \in 1..Len(s) : s[i] = admits[Len(admits) - Len(s) + i]
    /\ \A i \in 1..(Len(admits) - Len(s)) : admits[i] <= now - Window

\* So does the window in Redis, and its key outlives what it holds.
WindowKnown ==
    Quota > 0 =>
      /\ Remembers(win.times)
      /\ \A i \in 1..Len(win.times) : win.times[i] + Window <= win.expires

\* The key of the next opening knows of the longest hold, unless that is over,
\* and outlives it.
HoldKnown == earliest <= now \/ (earliest <= next.at /\ next.at < next.expires)

\* The leases in Redis are finitely many and end before their key does, and none
\* is longer than a lease may be.
LeasesKept ==
    /\ IsFiniteSet(inflight.leases)
    /\ \A l \in inflight.leases : l.until <= inflight.expires /\ l.until <= now + LeaseTTL

\* No admission is of the future.
AdmitsPast == \A i \in 1..Len(admits) : admits[i] <= now

IInv == WindowKept /\ AdmitsPast /\ WindowKnown /\ HoldKnown /\ LeasesKept

-----------------------------------------------------------------------------
(* What the scripts read.                                                  *)

\* A script never reads an instant of the past, nor a cap it cannot count.
LEMMA ReadTypes ==
    ASSUME IInv
    PROVE  /\ NextAllowed \in Nat /\ NextAllowed >= now
           /\ Exists(next) => NextAllowed >= next.at
           /\ Leased \subseteq inflight.leases /\ IsFiniteSet(Leased)
           /\ Cardinality(Leased) \in Nat /\ Cardinality(inflight.leases) \in Nat
           /\ Cardinality(Leased) <= Cardinality(inflight.leases)
           /\ Poll \in Nat /\ Poll >= 1
<1>1. now \in Nat /\ next.at \in Nat /\ LeasesKept
    BY DEF IInv, WindowKept, TypeOK
<1>2. NextAllowed \in Nat /\ NextAllowed >= now /\ (Exists(next) => NextAllowed >= next.at)
    BY <1>1 DEF NextAllowed, Later
<1>3. Leased \subseteq inflight.leases
    BY DEF Leased
<1>4. /\ IsFiniteSet(Leased) /\ Cardinality(Leased) \in Nat /\ Cardinality(inflight.leases) \in Nat
      /\ Cardinality(Leased) <= Cardinality(inflight.leases)
    BY <1>1, <1>3, FS_Subset, FS_CardinalityType DEF LeasesKept
<1> DEFINE waits == {ConcurrencyRetry} \cup {l.until - now : l \in Leased}
<1>5. waits \in SUBSET Nat /\ waits # {}
    <2>1. \A l \in Leased : l.until \in Nat /\ l.until > now
        BY DEF Leased, IInv, WindowKept, TypeOK
    <2>2. \A l \in Leased : l.until - now \in Nat
        BY <1>1, <2>1
    <2>3. QED BY <2>2, ConfigAssumption
<1>6. Min(waits) \in Nat
    <2> HIDE DEF waits
    <2>1. QED BY <1>5, MinIsLeast
<1>7. Poll \in Nat /\ Poll >= 1
    <2> HIDE DEF waits
    <2>1. Poll = Later(1, Min(waits))
        BY DEF Poll, waits
    <2>2. QED BY <2>1, <1>6 DEF Later
<1>8. QED BY <1>2, <1>3, <1>4, <1>7

\* The purged window remembers as well as the stored one, and a full one gives
\* an opening still to come: an expired key held nothing that mattered.
LEMMA PurgedKnown ==
    ASSUME IInv, Quota > 0
    PROVE  /\ Purged \in Seq(Nat) /\ Len(Purged) \in Nat /\ Len(Purged) <= Quota
           /\ Remembers(Purged)
           /\ \A i \in 1..Len(Purged) : Purged[i] <= now /\ Purged[i] + Window <= win.expires
           /\ Len(Purged) >= Quota => Purged[1] > now - Window
<1> DEFINE w == win.times
<1>1. /\ now \in Nat /\ w \in Seq(Nat) /\ admits \in Seq(Nat) /\ Len(w) <= Quota
      /\ win.expires \in Nat /\ Remembers(w)
      /\ \A i \in 1..Len(w) : w[i] + Window <= win.expires
      /\ AdmitsPast
    BY DEF IInv, WindowKept, TypeOK, WindowKnown
<1>2. /\ Len(w) \in Nat /\ Len(admits) \in Nat
      /\ \A i \in 1..Len(w) : w[i] \in Nat
      /\ \A i \in 1..Len(admits) : admits[i] \in Nat
      /\ Len(w) <= Len(admits)
    BY <1>1, ElementOfSeq, LenProperties DEF Remembers
<1>3. Quota \in Nat /\ Window \in Nat
    BY ConfigAssumption
<1>4. CASE ~Exists(win)
    <2>1. Purged = <<>> /\ <<>> \in Seq(Nat) /\ Len(<<>>) = 0
        BY <1>4, EmptySeq DEF Purged
    <2>2. win.expires <= now
        BY <1>1, <1>4 DEF Exists
    <2>3. ASSUME NEW i \in 1..Len(admits) PROVE admits[i] <= now - Window
        <3>1. CASE i <= Len(admits) - Len(w)
            BY <1>1, <1>2, <3>1 DEF Remembers
        <3>2. CASE ~(i <= Len(admits) - Len(w))
            <4> DEFINE j == i - (Len(admits) - Len(w))
            <4>1. j \in 1..Len(w) /\ Len(admits) - Len(w) + j = i
                <5> HIDE DEF w
                <5>1. QED BY <1>2, <3>2
            <4> HIDE DEF j
            <4>2. w[j] = admits[i] /\ w[j] + Window <= win.expires /\ w[j] \in Nat
                BY <1>1, <1>2, <4>1 DEF Remembers
            <4> HIDE DEF w
            <4>3. now \in Nat /\ win.expires \in Nat
                BY <1>1
            <4>4. QED BY <1>3, <2>2, <4>2, <4>3
        <3>3. QED BY <3>1, <3>2
    <2>4. Remembers(<<>>)
        BY <1>2, <2>1, <2>3 DEF Remembers
    <2>5. QED BY <1>3, <2>1, <2>4
<1>5. CASE Exists(win)
    <2> DEFINE p == Evict(w, now - Window)
    <2>1. Purged = p
        BY <1>5 DEF Purged
    <2>2. /\ p \in Seq(Nat) /\ Len(p) \in 0..Len(w)
          /\ \A i \in 1..Len(p) : p[i] = w[Len(w) - Len(p) + i]
          /\ \A i \in 1..(Len(w) - Len(p)) : w[i] <= now - Window
          /\ Len(p) > 0 => p[1] > now - Window
        <3>1. now - Window \in Int
            BY <1>1, <1>3
        <3> HIDE DEF w
        <3>2. QED BY <1>1, <3>1, EvictKeepsEnd
    <2> HIDE DEF p, w
    <2>3. \A i \in 1..Len(p) : p[i] = admits[Len(admits) - Len(p) + i]
        <3> SUFFICES ASSUME NEW i \in 1..Len(p) PROVE p[i] = admits[Len(admits) - Len(p) + i]
            OBVIOUS
        <3> DEFINE j == Len(w) - Len(p) + i
        <3>1. /\ j \in 1..Len(w) /\ p[i] = w[j]
              /\ Len(admits) - Len(w) + j = Len(admits) - Len(p) + i
            BY <1>2, <2>2
        <3> HIDE DEF j
        <3>2. QED BY <1>1, <3>1 DEF Remembers
    <2>4. \A i \in 1..(Len(admits) - Len(p)) : admits[i] <= now - Window
        <3> SUFFICES ASSUME NEW i \in 1..(Len(admits) - Len(p)) PROVE admits[i] <= now - Window
            OBVIOUS
        <3>1. CASE i <= Len(admits) - Len(w)
            BY <1>1, <1>2, <3>1 DEF Remembers
        <3>2. CASE ~(i <= Len(admits) - Len(w))
            <4> DEFINE j == i - (Len(admits) - Len(w))
            <4>1. /\ j \in 1..(Len(w) - Len(p)) /\ j \in 1..Len(w)
                  /\ Len(admits) - Len(w) + j = i
                BY <1>2, <2>2, <3>2
            <4> HIDE DEF j
            <4>2. w[j] = admits[i] /\ w[j] <= now - Window
                BY <1>1, <2>2, <4>1 DEF Remembers
            <4>3. QED BY <4>2
        <3>3. QED BY <3>1, <3>2
    <2>5. Len(p) <= Len(admits)
        BY <1>1, <1>2, <2>2 DEF Remembers
    <2>6. \A i \in 1..Len(p) : p[i] <= now /\ p[i] + Window <= win.expires
        <3> SUFFICES ASSUME NEW i \in 1..Len(p)
                     PROVE  p[i] <= now /\ p[i] + Window <= win.expires
            OBVIOUS
        <3>1. /\ Len(w) - Len(p) + i \in 1..Len(w)
              /\ Len(admits) - Len(p) + i \in 1..Len(admits)
            BY <1>2, <2>2, <2>5
        <3>2. p[i] = w[Len(w) - Len(p) + i] /\ p[i] = admits[Len(admits) - Len(p) + i]
            BY <2>2, <2>3
        <3>3. QED BY <1>1, <3>1, <3>2 DEF AdmitsPast
    <2>7. QED BY <1>1, <1>2, <1>3, <2>1, <2>2, <2>3, <2>4, <2>5, <2>6 DEF Remembers
<1>6. QED BY <1>4, <1>5

\* What the keys answer is an instant, no earlier than any of them allows.
LEMMA AdmitAtType ==
    ASSUME IInv
    PROVE  /\ Opening \in Nat /\ AdmitAt \in Nat
           /\ AdmitAt >= NextAllowed /\ AdmitAt >= Opening /\ AdmitAt >= now
           /\ Quota > 0 /\ Opening <= now => Len(Purged) < Quota
<1>1. now \in Nat /\ Quota \in Nat /\ Window \in Nat
    BY ConfigAssumption DEF IInv, WindowKept, TypeOK
<1>2. CASE Quota > 0 /\ Len(Purged) >= Quota
    <2>1. Len(Purged) = Quota /\ 1 \in 1..Len(Purged) /\ Purged[1] \in Nat /\ Purged[1] > now - Window
        <3>1. Len(Purged) = Quota /\ Purged \in Seq(Nat) /\ Purged[1] > now - Window
            BY <1>1, <1>2, PurgedKnown
        <3>2. 1 \in 1..Len(Purged)
            BY <1>1, <1>2, <3>1
        <3>3. QED BY <3>1, <3>2, ElementOfSeq
    <2>2. Len(Purged) - Quota + 1 = 1
        BY <1>1, <2>1
    <2>3. Opening = Purged[1] + Window
        BY <1>2, <2>2 DEF Opening
    <2>4. Opening \in Nat /\ Opening > now
        BY <1>1, <2>1, <2>3
    <2>5. QED BY <1>1, <2>4, ReadTypes DEF AdmitAt, Later
<1>3. CASE ~(Quota > 0 /\ Len(Purged) >= Quota)
    <2>1. Opening = now
        BY <1>3 DEF Opening
    <2>2. Quota > 0 => Len(Purged) < Quota
        BY <1>1, <1>3, PurgedKnown
    <2>3. QED BY <1>1, <2>1, <2>2, ReadTypes DEF AdmitAt, Later
<1>4. QED BY <1>2, <1>3

-----------------------------------------------------------------------------
(* What a step may do to the keys.                                         *)

\* The script frees the lease of one nonce.
FreeLease(n) ==
    /\ inflight' = [inflight EXCEPT !.leases = {l \in @ : l.nonce # n}]
    /\ UNCHANGED <<win, next, admits, earliest>>

\* Time passes, or a script runs, or no key is touched.
KeyStep ==
    \/ now' = now + 1 /\ UNCHANGED <<redisVars, admits, earliest>>
    \/ UNCHANGED <<now, redisVars, admits, earliest>>
    \/ UNCHANGED now /\ PurgeOnly
    \/ UNCHANGED now /\ AdmitAt <= now /\ ~Full /\ BookAdmission
    \/ \E d \in Nat : UNCHANGED <<now, win, inflight, admits>> /\ Bump(d)
    \/ \E n \in Nat : UNCHANGED now /\ FreeLease(n)

\* Every step of the limiter is one of these, whoever takes it.
LEMMA EveryKeyStep ==
    ASSUME TypeOK, [Next]_vars
    PROVE  KeyStep /\ UNCHANGED ClusterConcurrency
<1> USE DEF redisVars, history
<1>1. UNCHANGED ClusterConcurrency
    BY DEF Next, vars
<1>2. ASSUME NEW c \in Callers, CallerStep(c) PROVE KeyStep
    <2>1. CASE Ask(c)
        BY <2>1 DEF Ask, KeyStep
    <2>2. CASE Release(c)
        <3>1. CASE ClusterConcurrency > 0
            <4>1. call[c].nonce \in Nat
                BY DEF TypeOK
            <4>2. UNCHANGED now /\ FreeLease(call[c].nonce)
                BY <2>2, <3>1 DEF Release, FreeLease
            <4>3. QED BY <4>1, <4>2 DEF KeyStep
        <3>2. CASE ~(ClusterConcurrency > 0)
            BY <2>2, <3>2, ConfigAssumption DEF Release, KeyStep
        <3>3. QED BY <3>1, <3>2
    <2>3. CASE ~Ask(c) /\ ~Release(c)
        <3>1. UNCHANGED <<now, redisVars, admits, earliest>>
            BY <1>2, <2>3
            DEF CallerStep, Arrive, EnterSem, Cancel, AskFails, Admitted, Refused, Sleep,
                AskAgain, Finish, ReleaseFails
        <3>2. QED BY <3>1 DEF KeyStep
    <2>4. QED BY <2>1, <2>2, <2>3
<1>3. ASSUME NEW h \in Holds, Penalize(h) PROVE KeyStep
    <2>1. h \in Nat
        BY ConfigAssumption
    <2>2. QED BY <1>3, <2>1 DEF Penalize, KeyStep
<1>4. ASSUME NEW pod \in Pods, Crash(pod) PROVE KeyStep
    BY <1>4 DEF Crash, KeyStep
<1>5. ASSUME Tick PROVE KeyStep
    BY <1>5 DEF Tick, KeyStep
<1>6. ASSUME Finished PROVE KeyStep
    BY <1>6 DEF Finished, KeyStep
<1>7. ASSUME UNCHANGED vars PROVE KeyStep
    BY <1>7 DEF vars, KeyStep
<1>8. QED BY <1>1, <1>2, <1>3, <1>4, <1>5, <1>6, <1>7 DEF Next, Step

\* A window is remembered for as long as nothing is admitted.
LEMMA StillRemembered ==
    ASSUME IInv, NEW s \in Seq(Nat), Remembers(s),
           now' \in Nat, now' >= now, UNCHANGED admits, UNCHANGED s
    PROVE  Remembers(s)'
<1>1. /\ now \in Nat /\ Window \in Nat /\ Len(s) \in Nat /\ Len(admits) \in Nat
      /\ \A i \in 1..Len(admits) : admits[i] \in Nat
    BY ConfigAssumption, ElementOfSeq, LenProperties DEF IInv, WindowKept, TypeOK
<1>2. ASSUME NEW i \in 1..(Len(admits) - Len(s)) PROVE admits[i] <= now' - Window
    <2>1. admits[i] <= now - Window /\ admits[i] \in Nat
        BY <1>1 DEF Remembers
    <2>2. QED BY <1>1, <2>1
<1>3. QED BY <1>1, <1>2 DEF Remembers

\* The end of the window moves on with an admission, which the script makes only
\* where the one Quota places back is over.
LEMMA AdmissionRemembered ==
    ASSUME IInv, Quota > 0, AdmitAt <= now,
           now' = now, admits' = Append(admits, now)
    PROVE  /\ Append(Purged, now) \in Seq(Nat) /\ Len(Append(Purged, now)) <= Quota
           /\ Len(Append(Purged, now)) <= Len(admits')
           /\ \A i \in 1..Len(Append(Purged, now)) :
                /\ Append(Purged, now)[i] = admits'[Len(admits') - Len(Append(Purged, now)) + i]
                /\ Append(Purged, now)[i] <= now
           /\ \A i \in 1..(Len(admits') - Len(Append(Purged, now))) : admits'[i] <= now' - Window
           /\ Len(admits) >= Quota => admits[Len(admits) - Quota + 1] <= now - Window
<1> DEFINE p == Purged
           q == Append(p, now)
           k == Len(admits)
<1>1. /\ now \in Nat /\ admits \in Seq(Nat) /\ k \in Nat /\ Quota \in Nat /\ Window \in Nat
    BY ConfigAssumption, LenProperties DEF IInv, WindowKept, TypeOK
<1>2. /\ p \in Seq(Nat) /\ Len(p) \in Nat /\ Remembers(p)
      /\ \A i \in 1..Len(p) : p[i] <= now
      /\ Len(p) < Quota /\ Len(p) <= k
    <2>1. Opening <= now
        BY <1>1, AdmitAtType
    <2>2. QED BY <2>1, PurgedKnown, AdmitAtType DEF Remembers
<1>3. /\ q \in Seq(Nat) /\ Len(q) = Len(p) + 1 /\ q[Len(p) + 1] = now
      /\ \A i \in 1..Len(p) : q[i] = p[i]
    BY <1>1, <1>2, AppendProperties
<1>4. /\ Len(admits') = k + 1 /\ admits'[k + 1] = now
      /\ \A i \in 1..k : admits'[i] = admits[i]
    BY <1>1, AppendProperties
<1>5. /\ \A i \in 1..Len(p) : p[i] = admits[k - Len(p) + i]
      /\ \A i \in 1..(k - Len(p)) : admits[i] <= now - Window
    BY <1>2 DEF Remembers
<1> HIDE DEF p, q, k
<1>6. ASSUME NEW i \in 1..Len(q)
      PROVE  q[i] = admits'[Len(admits') - Len(q) + i] /\ q[i] <= now
    <2> DEFINE j == Len(admits') - Len(q) + i
    <2>1. CASE i <= Len(p)
        <3>1. i \in 1..Len(p) /\ j = k - Len(p) + i /\ j \in 1..k
            BY <1>1, <1>2, <1>3, <1>4, <2>1
        <3> HIDE DEF j
        <3>2. q[i] = p[i] /\ p[i] = admits[j] /\ admits'[j] = admits[j] /\ p[i] <= now
            BY <1>2, <1>3, <1>4, <1>5, <3>1
        <3>3. QED BY <3>2 DEF j
    <2>2. CASE ~(i <= Len(p))
        <3>1. i = Len(p) + 1
            BY <1>2, <1>3, <2>2
        <3>2. Len(admits') - Len(q) + (Len(p) + 1) = k + 1
            BY <1>1, <1>2, <1>3, <1>4
        <3>3. j = k + 1
            BY <3>1, <3>2
        <3> HIDE DEF j
        <3>4. q[i] = now /\ admits'[j] = now /\ now <= now
            BY <1>1, <1>3, <1>4, <3>1, <3>3
        <3>5. QED BY <3>4 DEF j
    <2>3. QED BY <2>1, <2>2
<1>7. ASSUME NEW i \in 1..(Len(admits') - Len(q)) PROVE admits'[i] <= now' - Window
    <2>1. i \in 1..(k - Len(p)) /\ i \in 1..k
        BY <1>1, <1>2, <1>3, <1>4
    <2>2. QED BY <1>4, <1>5, <2>1
<1>8. k >= Quota => admits[k - Quota + 1] <= now - Window
    <2> SUFFICES ASSUME k >= Quota PROVE admits[k - Quota + 1] <= now - Window
        OBVIOUS
    <2>1. k - Quota + 1 \in 1..(k - Len(p))
        BY <1>1, <1>2
    <2>2. QED BY <1>5, <2>1
<1>9. Len(q) <= Quota /\ Len(q) <= Len(admits')
    BY <1>1, <1>2, <1>3, <1>4
<1>10. QED BY <1>3, <1>6, <1>7, <1>8, <1>9 DEF p, q, k

\* The spacing that WindowKept states.
Spaced ==
    Quota > 0 =>
      \A i \in 1..Len(admits) - Quota : admits[i + Quota] - admits[i] >= Window

\* A script that makes the caller wait leaves of the window what still counts.
LEMMA PurgeKeepsWindow ==
    ASSUME IInv, UNCHANGED now, PurgeOnly
    PROVE  /\ win' \in [times : Seq(Nat), expires : Nat]
           /\ Quota > 0 => Len(win'.times) <= Quota
           /\ WindowKnown'
<1>1. win \in [times : Seq(Nat), expires : Nat] /\ win' = [win EXCEPT !.times = Purged]
    BY DEF PurgeOnly, IInv, WindowKept, TypeOK
<1>2. win'.times = Purged /\ win'.expires = win.expires
    BY <1>1
<1>3. CASE Quota > 0
    <2>1. /\ Purged \in Seq(Nat) /\ Len(Purged) <= Quota /\ Remembers(Purged)
          /\ \A i \in 1..Len(Purged) : Purged[i] + Window <= win.expires
        BY <1>3, PurgedKnown
    <2>2. UNCHANGED admits
        BY DEF PurgeOnly
    <2>3. Remembers(win.times)'
        BY <1>2, <2>1, <2>2 DEF Remembers
    <2>4. QED BY <1>1, <1>2, <2>1, <2>3 DEF WindowKnown
<1>4. CASE ~(Quota > 0)
    <2>1. Purged = <<>> /\ <<>> \in Seq(Nat)
        BY <1>4, EmptySeq DEF Purged
    <2>2. QED BY <1>1, <1>4, <2>1 DEF WindowKnown
<1>5. QED BY <1>3, <1>4

\* The admissions after one more.
LEMMA AdmissionSpaced ==
    ASSUME IInv, UNCHANGED now, AdmitAt <= now, BookAdmission
    PROVE  admits' \in Seq(Nat) /\ AdmitsPast' /\ Spaced'
<1>1. /\ now \in Nat /\ admits \in Seq(Nat) /\ Quota \in Nat /\ Window \in Nat
      /\ admits' = Append(admits, now)
    BY ConfigAssumption DEF IInv, WindowKept, TypeOK, BookAdmission
<1> DEFINE k == Len(admits)
           b == admits'
<1>2. /\ k \in Nat /\ b \in Seq(Nat) /\ Len(b) = k + 1 /\ b[k + 1] = now
      /\ \A i \in 1..k : b[i] = admits[i] /\ admits[i] \in Nat
    BY <1>1, AppendProperties, ElementOfSeq, LenProperties
<1>3. \A i \in 1..k : admits[i] <= now
    BY DEF IInv, AdmitsPast
<1>4. Quota > 0 /\ k >= Quota => admits[k - Quota + 1] <= now - Window
    BY <1>1, AdmissionRemembered
<1>5. Quota > 0 => \A i \in 1..(k - Quota) : admits[i + Quota] - admits[i] >= Window
    BY DEF IInv, WindowKept
<1> HIDE DEF k, b
<1>6. ASSUME NEW i \in 1..Len(b) PROVE b[i] <= now
    <2>1. i \in 1..k \/ i = k + 1
        BY <1>2
    <2>2. QED BY <1>1, <1>2, <1>3, <2>1
<1>7. ASSUME Quota > 0, NEW i \in 1..(Len(b) - Quota)
      PROVE  b[i + Quota] - b[i] >= Window
    <2>1. CASE i + Quota <= k
        <3>1. i \in 1..(k - Quota) /\ i \in 1..k /\ i + Quota \in 1..k
            BY <1>1, <1>2, <1>7, <2>1
        <3>2. QED BY <1>2, <1>5, <1>7, <3>1
    <2>2. CASE ~(i + Quota <= k)
        <3>1. i = k - Quota + 1 /\ i + Quota = k + 1 /\ i \in 1..k /\ k >= Quota
            BY <1>1, <1>2, <1>7, <2>2
        <3>2. admits[i] <= now - Window /\ b[i] = admits[i] /\ b[i + Quota] = now
            BY <1>2, <1>4, <1>7, <3>1
        <3>3. admits[i] \in Nat
            BY <1>2, <3>1
        <3>4. QED BY <1>1, <3>2, <3>3
    <2>3. QED BY <2>1, <2>2
<1>8. QED BY <1>1, <1>2, <1>6, <1>7 DEF b, AdmitsPast, Spaced

\* The window after one more.
LEMMA AdmissionKeepsWindow ==
    ASSUME IInv, UNCHANGED now, AdmitAt <= now, BookAdmission
    PROVE  /\ win' \in [times : Seq(Nat), expires : Nat]
           /\ Quota > 0 => Len(win'.times) <= Quota
           /\ WindowKnown'
<1>1. /\ win \in [times : Seq(Nat), expires : Nat] /\ now \in Nat
      /\ Window \in Nat /\ KeyTTLSlack \in Nat /\ admits' = Append(admits, now)
    BY ConfigAssumption DEF BookAdmission, IInv, WindowKept, TypeOK
<1>2. CASE Quota > 0
    <2>1. win'.times = Append(Purged, now) /\ win'.expires = now + Window + KeyTTLSlack
          /\ win' = [times |-> Append(Purged, now), expires |-> now + Window + KeyTTLSlack]
        BY <1>2 DEF BookAdmission
    <2> DEFINE q == Append(Purged, now)
    <2>2. /\ q \in Seq(Nat) /\ Len(q) <= Quota /\ Len(q) <= Len(admits')
          /\ \A i \in 1..Len(q) : q[i] = admits'[Len(admits') - Len(q) + i] /\ q[i] <= now
          /\ \A i \in 1..(Len(admits') - Len(q)) : admits'[i] <= now' - Window
        BY <1>1, <1>2, AdmissionRemembered
    <2> HIDE DEF q
    <2>3. Remembers(win.times)'
        BY <2>1, <2>2 DEF Remembers, q
    <2>4. \A i \in 1..Len(q) : q[i] + Window <= now + Window + KeyTTLSlack
        <3>1. \A i \in 1..Len(q) : q[i] \in Nat /\ q[i] <= now
            BY <2>2, ElementOfSeq
        <3>2. QED BY <1>1, <3>1
    <2>5. win'.times = q /\ win'.expires = now + Window + KeyTTLSlack
        BY <2>1 DEF q
    <2>6. win' \in [times : Seq(Nat), expires : Nat]
        <3>1. now + Window + KeyTTLSlack \in Nat
            BY <1>1
        <3>2. QED BY <2>1, <2>2, <3>1 DEF q
    <2>7. WindowKnown'
        BY <2>3, <2>4, <2>5 DEF WindowKnown
    <2>8. QED BY <2>2, <2>5, <2>6, <2>7
<1>3. CASE ~(Quota > 0)
    BY <1>1, <1>3 DEF BookAdmission, WindowKnown
<1>4. QED BY <1>2, <1>3

\* The window under every step.
LEMMA WindowStep ==
    ASSUME IInv, KeyStep
    PROVE  /\ now' \in Nat /\ now' >= now
           /\ win' \in [times : Seq(Nat), expires : Nat]
           /\ Quota > 0 => Len(win'.times) <= Quota
           /\ admits' \in Seq(Nat)
           /\ WindowKnown' /\ AdmitsPast' /\ Spaced'
<1> USE DEF redisVars
<1>1. /\ now \in Nat /\ win \in [times : Seq(Nat), expires : Nat] /\ admits \in Seq(Nat)
      /\ Quota > 0 => Len(win.times) <= Quota
      /\ WindowKnown /\ AdmitsPast /\ Spaced
    BY DEF IInv, WindowKept, TypeOK, Spaced
<1>2. ASSUME UNCHANGED <<win, admits>>, now' = now \/ now' = now + 1
      PROVE  now' \in Nat /\ now' >= now /\ WindowKnown' /\ AdmitsPast' /\ Spaced'
    <2>1. now' \in Nat /\ now' >= now
        BY <1>1, <1>2
    <2>2. AdmitsPast'
        <3> SUFFICES ASSUME NEW i \in 1..Len(admits) PROVE admits[i] <= now'
            BY <1>2 DEF AdmitsPast
        <3>1. admits[i] <= now /\ admits[i] \in Nat
            BY <1>1, ElementOfSeq DEF AdmitsPast
        <3>2. QED BY <1>1, <2>1, <3>1
    <2>3. WindowKnown'
        <3>1. Quota > 0 => Remembers(win.times)'
            BY <1>1, <1>2, <2>1, StillRemembered DEF WindowKnown
        <3>2. QED BY <1>1, <1>2, <3>1 DEF WindowKnown
    <2>4. Spaced'
        BY <1>1, <1>2 DEF Spaced
    <2>5. QED BY <2>1, <2>2, <2>3, <2>4
<1>3. CASE UNCHANGED <<win, admits>> /\ (now' = now \/ now' = now + 1)
    BY <1>1, <1>2, <1>3
<1>4. CASE UNCHANGED now /\ PurgeOnly
    <2>1. UNCHANGED admits
        BY <1>4 DEF PurgeOnly
    <2>2. AdmitsPast' /\ Spaced'
        BY <1>1, <1>4, <2>1 DEF AdmitsPast, Spaced
    <2>3. QED BY <1>1, <1>4, <2>1, <2>2, PurgeKeepsWindow
<1>5. CASE UNCHANGED now /\ AdmitAt <= now /\ ~Full /\ BookAdmission
    BY <1>1, <1>5, AdmissionSpaced, AdmissionKeepsWindow
<1>6. QED BY <1>3, <1>4, <1>5 DEF KeyStep, FreeLease

\* No hold is forgotten: a key that ran out held back nothing, and the next one
\* written holds for as long as any before it.
LEMMA HoldStep ==
    ASSUME IInv, KeyStep
    PROVE  next' \in [at : Nat, expires : Nat] /\ earliest' \in Nat /\ HoldKnown'
<1> USE DEF redisVars
<1>1. /\ now \in Nat /\ next \in [at : Nat, expires : Nat] /\ earliest \in Nat /\ HoldKnown
      /\ MinDelay \in Nat /\ KeyTTLSlack \in Nat \ {0}
    BY ConfigAssumption DEF IInv, WindowKept, TypeOK
<1>2. CASE UNCHANGED <<next, earliest>> /\ (now' = now \/ now' = now + 1)
    BY <1>1, <1>2 DEF HoldKnown
<1>3. CASE UNCHANGED now /\ BookAdmission
    <2>1. CASE MinDelay > 0
        BY <1>1, <1>3, <2>1 DEF BookAdmission, HoldKnown
    <2>2. CASE ~(MinDelay > 0)
        BY <1>1, <1>3, <2>2 DEF BookAdmission, HoldKnown
    <2>3. QED BY <2>1, <2>2
<1>4. ASSUME NEW d \in Nat, UNCHANGED now, Bump(d)
      PROVE  next' \in [at : Nat, expires : Nat] /\ earliest' \in Nat /\ HoldKnown'
    <2> DEFINE target == Later(now + d, NextAllowed)
    <2>1. /\ next' = [at |-> target, expires |-> target + KeyTTLSlack]
          /\ earliest' = Later(earliest, now + d)
        BY <1>4 DEF Bump
    <2>2. target \in Nat /\ target >= now + d /\ target >= NextAllowed
        <3>1. now + d \in Nat /\ NextAllowed \in Nat
            BY <1>1, <1>4, ReadTypes
        <3> HIDE DEF target
        <3>2. target = Later(now + d, NextAllowed)
            BY DEF target
        <3>3. QED BY <3>1, <3>2 DEF Later
    <2> HIDE DEF target
    <2>3. earliest' \in Nat /\ (earliest' = earliest \/ earliest' = now + d)
        BY <1>1, <1>4, <2>1 DEF Later
    <2>4. earliest > now => earliest <= NextAllowed
        BY <1>1, ReadTypes DEF HoldKnown, Exists
    <2>5. earliest <= now \/ earliest <= target
        BY <1>1, <2>2, <2>4, ReadTypes
    <2>6. earliest' <= target
        BY <1>1, <1>4, <2>2, <2>3, <2>5
    <2>7. next'.at = target /\ target < next'.expires
        BY <1>1, <2>1, <2>2
    <2>8. next' \in [at : Nat, expires : Nat]
        BY <1>1, <2>1, <2>2
    <2>9. HoldKnown'
        BY <2>6, <2>7 DEF HoldKnown
    <2>10. QED BY <2>3, <2>8, <2>9
<1>5. QED BY <1>2, <1>3, <1>4 DEF KeyStep, FreeLease, PurgeOnly

\* The types of the in-flight key, and that it counts to the cap.
LeaseTypes ==
    /\ inflight \in [leases : SUBSET [nonce : Nat, until : Nat], expires : Nat]
    /\ ClusterConcurrency > 0 => Cardinality(inflight.leases) <= ClusterConcurrency

\* Purging or freeing leases leaves some of them under the same key.
LEMMA FewerLeases ==
    ASSUME IInv, UNCHANGED <<ClusterConcurrency, now>>, NEW L \in SUBSET inflight.leases,
           inflight' = [inflight EXCEPT !.leases = L]
    PROVE  LeaseTypes' /\ LeasesKept'
<1>1. /\ inflight \in [leases : SUBSET [nonce : Nat, until : Nat], expires : Nat]
      /\ LeaseTypes /\ LeasesKept /\ ClusterConcurrency \in Nat
    BY ConfigAssumption DEF IInv, WindowKept, TypeOK, LeaseTypes
<1>2. /\ inflight'.leases = L /\ inflight'.expires = inflight.expires
      /\ inflight' \in [leases : SUBSET [nonce : Nat, until : Nat], expires : Nat]
    BY <1>1
<1>3. /\ IsFiniteSet(L) /\ Cardinality(L) <= Cardinality(inflight.leases)
      /\ Cardinality(L) \in Nat /\ Cardinality(inflight.leases) \in Nat
    BY <1>1, FS_Subset, FS_CardinalityType DEF LeasesKept
<1>4. LeaseTypes'
    BY <1>1, <1>2, <1>3 DEF LeaseTypes
<1>5. LeasesKept'
    BY <1>1, <1>2, <1>3 DEF LeasesKept
<1>6. QED BY <1>4, <1>5

\* A lease more, where the cap has room for it.
LEMMA OneMoreLease ==
    ASSUME IInv, UNCHANGED <<ClusterConcurrency, now>>, ClusterConcurrency > 0,
           AdmitAt <= now, ~Full, BookAdmission
    PROVE  LeaseTypes' /\ LeasesKept'
<1> DEFINE mine == [nonce |-> Nonce, until |-> now + LeaseTTL]
           ends == now + LeaseTTL + KeyTTLSlack
<1>1. inflight' = [leases |-> Leased \cup {mine}, expires |-> ends]
    BY DEF BookAdmission
<1>2. /\ now \in Nat /\ LeaseTTL \in Nat /\ KeyTTLSlack \in Nat \ {0}
      /\ ClusterConcurrency \in Nat /\ LeasesKept
      /\ inflight.leases \in SUBSET [nonce : Nat, until : Nat] /\ inflight.expires \in Nat
    BY ConfigAssumption DEF IInv, WindowKept, TypeOK
<1>3. mine \in [nonce : Nat, until : Nat] /\ ends \in Nat
    <2>1. Nonce \in Nat
        BY LenProperties DEF Nonce, IInv, WindowKept, TypeOK
    <2>2. QED BY <1>2, <2>1
<1> HIDE DEF mine
<1>4. /\ IsFiniteSet(Leased \cup {mine})
      /\ Cardinality(Leased \cup {mine}) <= ClusterConcurrency
    <2>1. IsFiniteSet(Leased) /\ Cardinality(Leased) \in Nat
        BY ReadTypes
    <2>2. Cardinality(Leased) < ClusterConcurrency
        BY <1>2, <2>1 DEF Full
    <2>3. /\ IsFiniteSet(Leased \cup {mine})
          /\ Cardinality(Leased \cup {mine}) =
                IF mine \in Leased THEN Cardinality(Leased) ELSE Cardinality(Leased) + 1
        BY <2>1, FS_AddElement
    <2>4. QED BY <1>2, <2>1, <2>2, <2>3
<1>5. Leased \cup {mine} \subseteq [nonce : Nat, until : Nat]
    BY <1>2, <1>3, ReadTypes
<1>6. \A l \in Leased \cup {mine} : l.until <= ends /\ l.until <= now + LeaseTTL
    <2>1. ASSUME NEW l \in Leased PROVE l.until <= ends /\ l.until <= now + LeaseTTL
        <3>1. l \in inflight.leases
            BY ReadTypes
        <3>2. l.until <= now + LeaseTTL /\ l.until \in Nat
            BY <1>2, <3>1 DEF LeasesKept
        <3>3. QED BY <1>2, <3>2
    <2>2. mine.until <= ends /\ mine.until <= now + LeaseTTL
        BY <1>2 DEF mine
    <2>3. QED BY <2>1, <2>2
<1> HIDE DEF ends
<1>7. LeaseTypes' /\ LeasesKept'
    <2>1. inflight'.leases = Leased \cup {mine} /\ inflight'.expires = ends
        BY <1>1
    <2>2. inflight' \in [leases : SUBSET [nonce : Nat, until : Nat], expires : Nat]
        BY <1>1, <1>3, <1>5
    <2>3. QED BY <1>4, <1>6, <2>1, <2>2 DEF LeaseTypes, LeasesKept
<1>8. QED BY <1>7

\* The leases under every step.
LEMMA LeaseStep ==
    ASSUME IInv, KeyStep, UNCHANGED ClusterConcurrency
    PROVE  LeaseTypes' /\ LeasesKept'
<1> USE DEF redisVars
<1>1. LeaseTypes /\ LeasesKept
    BY DEF IInv, WindowKept, TypeOK, LeaseTypes
<1>2. ASSUME UNCHANGED inflight PROVE LeaseTypes' /\ LeasesKept'
    <2>1. LeaseTypes'
        BY <1>1, <1>2 DEF LeaseTypes
    <2>2. ASSUME NEW l \in inflight.leases PROVE l.until <= now' + LeaseTTL
        <3>1. l.until \in Nat /\ l.until <= now + LeaseTTL
            BY <1>1 DEF LeaseTypes, LeasesKept
        <3>2. now \in Nat /\ now' \in Nat /\ now' >= now /\ LeaseTTL \in Nat
            BY WindowStep, ConfigAssumption DEF IInv, WindowKept, TypeOK
        <3>3. QED BY <3>1, <3>2
    <2>3. QED BY <1>1, <1>2, <2>1, <2>2 DEF LeasesKept
<1>3. CASE UNCHANGED now /\ PurgeOnly
    <2>1. CASE ClusterConcurrency > 0 /\ AdmitAt <= now
        <3>1. inflight' = [inflight EXCEPT !.leases = Leased] /\ Leased \in SUBSET inflight.leases
            BY <1>3, <2>1, ReadTypes DEF PurgeOnly
        <3>2. QED BY <1>3, <3>1, FewerLeases
    <2>2. CASE ~(ClusterConcurrency > 0 /\ AdmitAt <= now)
        BY <1>2, <1>3, <2>2 DEF PurgeOnly
    <2>3. QED BY <2>1, <2>2
<1>4. CASE UNCHANGED now /\ AdmitAt <= now /\ ~Full /\ BookAdmission
    <2>1. CASE ClusterConcurrency > 0
        BY <1>4, <2>1, OneMoreLease
    <2>2. CASE ~(ClusterConcurrency > 0)
        BY <1>2, <1>4, <2>2 DEF BookAdmission
    <2>3. QED BY <2>1, <2>2
<1>5. ASSUME NEW n \in Nat, UNCHANGED now, FreeLease(n) PROVE LeaseTypes' /\ LeasesKept'
    <2> DEFINE L == {l \in inflight.leases : l.nonce # n}
    <2>1. inflight' = [inflight EXCEPT !.leases = L] /\ L \in SUBSET inflight.leases
        BY <1>5 DEF FreeLease
    <2> HIDE DEF L
    <2>2. QED BY <1>5, <2>1, FewerLeases
<1>6. QED BY <1>2, <1>3, <1>4, <1>5 DEF KeyStep

-----------------------------------------------------------------------------
(* The callers.                                                            *)

Calls == [deadline : Nat \cup {NoDeadline}, reply : Nat, nonce : Nat, since : Nat]

\* Setting one field of a caller's locals keeps their type.
LEMMA SetLocal ==
    ASSUME NEW x \in Calls, NEW n \in Nat
    PROVE  /\ [x EXCEPT !.reply = n] \in Calls /\ [x EXCEPT !.nonce = n] \in Calls
           /\ [x EXCEPT !.since = n] \in Calls /\ [x EXCEPT !.deadline = n] \in Calls
BY DEF Calls

\* The locals of a caller keep their types, whatever it does.
LEMMA CallerTypes ==
    ASSUME IInv, [Next]_vars
    PROVE  /\ pc' \in [Callers -> States] /\ call' \in [Callers -> Calls]
           /\ calls' \in Nat /\ faults' \in Nat
<1> USE DEF callerVars, history, Goto
<1>1. /\ pc \in [Callers -> States] /\ call \in [Callers -> Calls]
      /\ calls \in Nat /\ faults \in Nat /\ now \in Nat
    BY DEF IInv, WindowKept, TypeOK, Calls
<1>2. NoCall \in Calls /\ "idle" \in States
    BY DEF NoCall, Calls, States
<1>3. calls' \in Nat /\ faults' \in Nat
    <2>1. ASSUME NEW c \in Callers, CallerStep(c) PROVE calls' \in Nat /\ faults' \in Nat
        BY <1>1, <2>1
        DEF CallerStep, Arrive, EnterSem, Cancel, Ask, AskFails, Admitted, Refused, Sleep,
            AskAgain, Finish, Release, ReleaseFails, Fault
    <2>2. ASSUME NEW pod \in Pods, Crash(pod) PROVE calls' \in Nat /\ faults' \in Nat
        BY <1>1, <2>2 DEF Crash, Fault
    <2>3. ASSUME NEW h \in Holds, Penalize(h) PROVE calls' \in Nat /\ faults' \in Nat
        BY <1>1, <2>3 DEF Penalize
    <2>4. ASSUME Tick \/ Finished \/ UNCHANGED vars PROVE calls' \in Nat /\ faults' \in Nat
        BY <1>1, <2>4 DEF Tick, Finished, vars
    <2>5. QED BY <2>1, <2>2, <2>3, <2>4 DEF Next, Step
<1>4. ASSUME NEW c \in Callers, CallerStep(c) PROVE pc' \in [Callers -> States]
    BY <1>1, <1>4
    DEF CallerStep, Arrive, EnterSem, Cancel, Ask, AskFails, Admitted, Refused, Sleep, AskAgain,
        Finish, Release, ReleaseFails, Return, States, HoldsSem
<1>5. ASSUME NEW c \in Callers, CallerStep(c) PROVE call' \in [Callers -> Calls]
    <2> SUFFICES \E x \in Calls : call' = [call EXCEPT ![c] = x]
        BY <1>1
    <2>1. call[c] \in Calls
        BY <1>1
    <2>2. CASE Arrive(c)
        <3>1. PICK b \in Budgets :
                call' = [call EXCEPT ![c].deadline = IF b = NoDeadline THEN b ELSE now + b]
            BY <2>2 DEF Arrive
        <3>2. [call[c] EXCEPT !.deadline = IF b = NoDeadline THEN b ELSE now + b] \in Calls
            <4>1. (IF b = NoDeadline THEN b ELSE now + b) \in Nat \cup {NoDeadline}
                BY <1>1, ConfigAssumption
            <4>2. QED BY <2>1, <4>1 DEF Calls
        <3>3. QED BY <3>1, <3>2
    <2>3. CASE Ask(c)
        <3>1. ASSUME AdmitAt > now, call' = [call EXCEPT ![c].reply = AdmitAt - now]
              PROVE  \E x \in Calls : call' = [call EXCEPT ![c] = x]
            <4>1. AdmitAt - now \in Nat
                BY <1>1, <3>1, AdmitAtType
            <4>2. [call[c] EXCEPT !.reply = AdmitAt - now] \in Calls
                BY <2>1, <4>1, SetLocal
            <4>3. QED BY <3>1, <4>2
        <3>2. ASSUME call' = [call EXCEPT ![c].reply = Poll]
              PROVE  \E x \in Calls : call' = [call EXCEPT ![c] = x]
            <4>1. [call[c] EXCEPT !.reply = Poll] \in Calls
                BY <2>1, ReadTypes, SetLocal
            <4>2. QED BY <3>2, <4>1
        <3>3. ASSUME call' = [call EXCEPT ![c].reply = 0, ![c].nonce = Nonce]
              PROVE  \E x \in Calls : call' = [call EXCEPT ![c] = x]
            <4>1. Nonce \in Nat
                BY LenProperties DEF Nonce, IInv, WindowKept, TypeOK
            <4>2. [[call[c] EXCEPT !.reply = 0] EXCEPT !.nonce = Nonce] \in Calls
                BY <2>1, <4>1, SetLocal
            <4>3. call' = [call EXCEPT ![c] = [[call[c] EXCEPT !.reply = 0] EXCEPT !.nonce = Nonce]]
                BY <1>1, <3>3
            <4>4. QED BY <4>2, <4>3
        <3>4. QED BY <2>3, <3>1, <3>2, <3>3 DEF Ask
    <2>4. CASE EnterSem(c) \/ Admitted(c) \/ Finish(c)
        <3>1. call' = [call EXCEPT ![c].since = now]
            BY <2>4 DEF EnterSem, Admitted, Finish
        <3>2. [call[c] EXCEPT !.since = now] \in Calls
            BY <1>1, <2>1, SetLocal
        <3>3. QED BY <3>1, <3>2
    <2>5. CASE Sleep(c)
        <3>1. PICK j \in Jitters : call' = [call EXCEPT ![c].since = now + call[c].reply + j]
            BY <2>5 DEF Sleep
        <3>2. now + call[c].reply + j \in Nat
            BY <1>1, <2>1, ConfigAssumption DEF Calls
        <3>3. [call[c] EXCEPT !.since = now + call[c].reply + j] \in Calls
            BY <2>1, <3>2, SetLocal
        <3>4. QED BY <3>1, <3>3
    <2>6. CASE AskAgain(c)
        <3>1. [[call[c] EXCEPT !.since = now] EXCEPT !.reply = 0] \in Calls
            BY <1>1, <2>1, SetLocal
        <3>2. call' = [call EXCEPT ![c] = [[call[c] EXCEPT !.since = now] EXCEPT !.reply = 0]]
            BY <1>1, <2>6 DEF AskAgain
        <3>3. QED BY <3>1, <3>2
    <2>7. CASE Cancel(c) \/ AskFails(c) \/ Refused(c) \/ Release(c) \/ ReleaseFails(c)
        BY <1>2, <2>7 DEF Cancel, AskFails, Refused, Release, ReleaseFails, Return
    <2>8. QED BY <1>5, <2>2, <2>3, <2>4, <2>5, <2>6, <2>7 DEF CallerStep
<1>6. ASSUME NEW pod \in Pods, Crash(pod)
      PROVE  pc' \in [Callers -> States] /\ call' \in [Callers -> Calls]
    BY <1>1, <1>2, <1>6 DEF Crash
<1>7. ASSUME UNCHANGED callerVars
      PROVE  pc' \in [Callers -> States] /\ call' \in [Callers -> Calls]
    BY <1>1, <1>7
<1>8. QED
    BY <1>3, <1>4, <1>5, <1>6, <1>7 DEF Next, Step, vars, Penalize, Tick, Finished

-----------------------------------------------------------------------------
(* The theorems.                                                           *)

\* The keys start empty.
LEMMA InitIInv == Init => IInv
<1> SUFFICES ASSUME Init PROVE IInv
    OBVIOUS
<1>1. /\ admits = <<>> /\ win = [times |-> <<>>, expires |-> 0]
      /\ <<>> \in Seq(Nat) /\ Len(<<>>) = 0
      /\ now = 0 /\ earliest = 0 /\ Quota \in Nat /\ Caps \subseteq Nat
      /\ ClusterConcurrency \in Caps
    BY EmptySeq, ConfigAssumption DEF Init
<1>2. inflight.leases = {} /\ IsFiniteSet({}) /\ Cardinality({}) = 0
    BY FS_EmptySet DEF Init
<1>3. TypeOK
    <2>1. call \in [Callers -> [deadline : Nat \cup {NoDeadline}, reply : Nat, nonce : Nat,
                                since : Nat]]
        BY DEF Init, NoCall
    <2>2. pc \in [Callers -> States] /\ calls \in Nat /\ faults \in Nat
        BY DEF Init, States
    <2>3. /\ win \in [times : Seq(Nat), expires : Nat] /\ next \in [at : Nat, expires : Nat]
          /\ inflight \in [leases : SUBSET [nonce : Nat, until : Nat], expires : Nat]
        BY <1>1 DEF Init
    <2>4. /\ Quota > 0 => Len(win.times) <= Quota
          /\ ClusterConcurrency > 0 => Cardinality(inflight.leases) <= ClusterConcurrency
        BY <1>1, <1>2
    <2>5. QED BY <1>1, <2>1, <2>2, <2>3, <2>4 DEF TypeOK
<1>4. WindowKept
    BY <1>1, <1>3 DEF WindowKept
<1>5. AdmitsPast /\ HoldKnown
    BY <1>1 DEF AdmitsPast, HoldKnown
<1>6. WindowKnown
    BY <1>1 DEF WindowKnown, Remembers
<1>7. LeasesKept
    BY <1>2 DEF LeasesKept
<1>8. QED BY <1>4, <1>5, <1>6, <1>7 DEF IInv

\* Every step keeps it.
LEMMA NextIInv == IInv /\ [Next]_vars => IInv'
<1> SUFFICES ASSUME IInv, [Next]_vars PROVE IInv'
    OBVIOUS
<1>1. KeyStep /\ UNCHANGED ClusterConcurrency
    BY EveryKeyStep DEF IInv, WindowKept
<1>2. TypeOK'
    <2>1. ClusterConcurrency' \in Caps
        BY <1>1 DEF IInv, WindowKept, TypeOK
    <2>2. LeaseTypes'
        BY <1>1, LeaseStep
    <2>3. QED BY <1>1, <2>1, <2>2, CallerTypes, WindowStep, HoldStep
              DEF TypeOK, LeaseTypes, Calls
<1>3. WindowKept'
    BY <1>1, <1>2, WindowStep DEF WindowKept, Spaced
<1>4. QED BY <1>1, <1>3, WindowStep, HoldStep, LeaseStep DEF IInv

\* The rolling quota (redislimit's acquireScript): of any Quota + 1 admissions in
\* a row, on whichever pods, the last comes a whole Window after the first, and
\* every variable keeps its type, whatever calls are lost and pods crash.
THEOREM WindowAlways == Spec => []WindowKept
<1>1. IInv => WindowKept
    BY DEF IInv
<1>2. QED BY <1>1, InitIInv, NextIInv, PTL DEF Spec

\* Where the keys let a caller through, so does every hold there has been.
LEMMA HoldsOver == ASSUME IInv, AdmitAt <= now PROVE earliest <= now
<1>1. /\ now \in Nat /\ earliest \in Nat /\ next.at \in Nat /\ next.expires \in Nat
      /\ HoldKnown
    BY DEF IInv, WindowKept, TypeOK
<1>2. NextAllowed <= now
    BY <1>1, ReadTypes, AdmitAtType
<1>3. Exists(next) => next.at <= now
    BY <1>1, <1>2, ReadTypes
<1>4. QED BY <1>1, <1>3 DEF HoldKnown, Exists

\* Every step of the shared limiter is a step of the abstract one, or none.
LEMMA StepIsPaced == IInv /\ [Next]_vars => [Paced!Next]_(Paced!vars)
<1> SUFFICES ASSUME IInv, [Next]_vars PROVE Paced!Next \/ UNCHANGED Paced!vars
    OBVIOUS
<1> USE DEF redisVars, Paced!Next, Paced!vars
<1>1. /\ now \in Nat /\ earliest \in Nat /\ admits \in Seq(Nat) /\ Len(admits) \in Nat
      /\ Quota \in Nat /\ Window \in Nat
    BY ConfigAssumption, LenProperties DEF IInv, WindowKept, TypeOK
<1>2. KeyStep
    BY EveryKeyStep DEF IInv, WindowKept
<1>3. ASSUME now' = now + 1, UNCHANGED <<redisVars, admits, earliest>>
      PROVE  Paced!Tick
    BY <1>1, <1>3 DEF Paced!Tick
<1>4. ASSUME UNCHANGED now, AdmitAt <= now, BookAdmission
      PROVE  Paced!Admit
    <2>1. now >= earliest
        BY <1>1, <1>4, HoldsOver
    <2>2. Paced!Room
        <3> SUFFICES ASSUME Quota > 0, Len(admits) >= Quota
                     PROVE  now - admits[Len(admits) - Quota + 1] >= Window
            BY DEF Paced!Room
        <3>1. admits[Len(admits) - Quota + 1] <= now - Window
            BY <1>4, AdmissionRemembered DEF BookAdmission
        <3>2. Len(admits) - Quota + 1 \in 1..Len(admits)
            BY <1>1
        <3>3. admits[Len(admits) - Quota + 1] \in Nat
            BY <1>1, <3>2, ElementOfSeq
        <3>4. QED BY <1>1, <3>1, <3>3
    <2>3. QED BY <1>4, <2>1, <2>2 DEF Paced!Admit, BookAdmission
<1>5. ASSUME NEW d \in Nat, UNCHANGED <<now, admits>>, Bump(d)
      PROVE  Paced!Hold
    BY <1>1, <1>5 DEF Bump, Later, Paced!Hold
<1>6. QED BY <1>2, <1>3, <1>4, <1>5 DEF KeyStep, PurgeOnly, FreeLease

\* The shared limiter implements PacedAdmissions: for every configuration and any
\* number of pods, admissions are spaced, held back for as long as anyone asked,
\* and at most Quota in any Window, although the keys it reads them from expire.
THEOREM ImplementsPaced == Spec => PacedSpec
<1>1. Init => Paced!Init
    BY DEF Init, Paced!Init
<1>2. QED BY <1>1, InitIInv, NextIInv, StepIsPaced, PTL DEF Spec, PacedSpec, Paced!Spec

-----------------------------------------------------------------------------
(* The cap on requests in flight.                                          *)

\* A caller whom the script has admitted, from then to its release.
Booked(c) ==
    pc[c] \in {"sending", "releasing"} \/ (pc[c] = "answered" /\ call[c].reply = 0)

\* The nonces of these callers are theirs alone.
NoncesApart ==
    /\ \A c \in Callers : Booked(c) => call[c].nonce <= Len(admits)
    /\ \A c, d \in Callers : Booked(c) /\ Booked(d) /\ c # d => call[c].nonce # call[d].nonce

\* A script and its reply take a caller no longer than Lag, its request no longer
\* than MaxHold.
Timely(c) ==
    /\ pc[c] \in {"asking", "answered", "releasing"} =>
          call[c].since <= now /\ now <= call[c].since + Lag
    /\ pc[c] = "sending" => call[c].since <= now /\ now <= call[c].since + MaxHold

\* A lease of the caller's lasts until then.
LeaseHeld(c, until) == \E l \in inflight.leases : l.nonce = call[c].nonce /\ l.until >= until

\* A caller not yet at its release has a lease that outlasts its request.
Covered(c) ==
    ClusterConcurrency > 0 =>
      /\ pc[c] = "answered" /\ call[c].reply = 0 => LeaseHeld(c, call[c].since + LeaseTTL)
      /\ pc[c] = "sending" => LeaseHeld(c, call[c].since + LeaseTTL - Lag)

LInv == NoncesApart /\ \A c \in Callers : Timely(c) /\ Covered(c)

\* A lease lasts longer than the call that booked it and the request under it
\* together: how limiter.go asks its caller to set LeaseTTL.
LeaseOutlives == Lag + MaxHold < LeaseTTL

\* The locals of a caller are instants.
LEMMA CallTypes ==
    ASSUME IInv, NEW c \in Callers
    PROVE  /\ now \in Nat /\ call[c].since \in Nat /\ call[c].nonce \in Nat /\ call[c].reply \in Nat
           /\ LeaseTTL \in Nat /\ Lag \in Nat /\ MaxHold \in Nat /\ Len(admits) \in Nat
           /\ call \in [Callers -> Calls] /\ pc \in [Callers -> States]
<1>1. call \in [Callers -> Calls] /\ pc \in [Callers -> States] /\ now \in Nat /\ admits \in Seq(Nat)
    BY DEF IInv, WindowKept, TypeOK, Calls
<1>2. call[c].since \in Nat /\ call[c].nonce \in Nat /\ call[c].reply \in Nat
    <2>1. call[c] \in Calls
        BY <1>1
    <2>2. QED BY <2>1 DEF Calls
<1>3. QED BY <1>1, <1>2, LenProperties, ConfigAssumption

\* Nonces stay apart while nobody is booked.
LEMMA NoncesStay ==
    ASSUME LInv, UNCHANGED admits,
           \A d \in Callers : Booked(d)' => Booked(d) /\ call'[d].nonce = call[d].nonce
    PROVE  NoncesApart'
BY DEF LInv, NoncesApart

\* A caller a step does not move keeps its lease, if the leases still running
\* under its nonce stay in Redis.
LEMMA UnmovedHeld ==
    ASSUME LeaseOutlives, IInv, LInv, NEW d \in Callers,
           UNCHANGED <<now, ClusterConcurrency>>,
           pc'[d] = pc[d], call'[d] = call[d],
           Booked(d) => \A l \in inflight.leases :
                          l.nonce = call[d].nonce /\ l.until > now => l \in inflight'.leases
    PROVE  Timely(d)' /\ Covered(d)'
<1>1. Timely(d) /\ Covered(d)
    BY DEF LInv
<1>2. Timely(d)'
    BY <1>1 DEF Timely
<1>3. /\ now \in Nat /\ call[d].since \in Nat /\ LeaseTTL \in Nat /\ Lag \in Nat /\ MaxHold \in Nat
      /\ \A l \in inflight.leases : l.until \in Nat
    <2>1. \A l \in inflight.leases : l.until \in Nat
        BY DEF IInv, WindowKept, TypeOK
    <2>2. QED BY <2>1, CallTypes
<1>4. ASSUME Booked(d), NEW until \in Int, until > now, LeaseHeld(d, until)
      PROVE  \E l \in inflight'.leases : l.nonce = call'[d].nonce /\ l.until >= until
    <2>1. PICK l \in inflight.leases : l.nonce = call[d].nonce /\ l.until >= until
        BY <1>4 DEF LeaseHeld
    <2>2. l.until > now
        BY <1>3, <1>4, <2>1
    <2>3. QED BY <1>4, <2>1, <2>2
<1>5. ASSUME ClusterConcurrency > 0, pc[d] = "answered", call[d].reply = 0
      PROVE  LeaseHeld(d, call[d].since + LeaseTTL)'
    <2>1. LeaseHeld(d, call[d].since + LeaseTTL) /\ Booked(d)
        BY <1>1, <1>5 DEF Covered, Booked
    <2>2. call[d].since + LeaseTTL > now /\ call[d].since + LeaseTTL \in Int
        BY <1>1, <1>3, <1>5 DEF Timely, LeaseOutlives
    <2>3. QED BY <1>4, <2>1, <2>2 DEF LeaseHeld
<1>6. ASSUME ClusterConcurrency > 0, pc[d] = "sending"
      PROVE  LeaseHeld(d, call[d].since + LeaseTTL - Lag)'
    <2>1. LeaseHeld(d, call[d].since + LeaseTTL - Lag) /\ Booked(d)
        BY <1>1, <1>6 DEF Covered, Booked
    <2>2. call[d].since + LeaseTTL - Lag > now /\ call[d].since + LeaseTTL - Lag \in Int
        BY <1>1, <1>3, <1>6 DEF Timely, LeaseOutlives
    <2>3. QED BY <1>4, <2>1, <2>2 DEF LeaseHeld
<1>7. Covered(d)'
    BY <1>5, <1>6 DEF Covered
<1>8. QED BY <1>2, <1>7

\* The acquire script keeps every lease that still runs.
LEMMA RunningLeasesStay ==
    ASSUME IInv, UNCHANGED inflight \/ PurgeOnly \/ BookAdmission,
           NEW l \in inflight.leases, l.until > now
    PROVE  l \in inflight'.leases
<1>1. l \in Leased
    BY DEF IInv, WindowKept, TypeOK, LeasesKept, Leased, Exists
<1>2. inflight \in [leases : SUBSET [nonce : Nat, until : Nat], expires : Nat]
    BY DEF IInv, WindowKept, TypeOK
<1>3. QED BY <1>1, <1>2 DEF PurgeOnly, BookAdmission

\* What a caller at rest, queueing or asleep has needs no lease.
LEMMA AtRest ==
    ASSUME NEW d \in Callers, pc'[d] \in {"idle", "queued", "asleep"}
    PROVE  Timely(d)' /\ Covered(d)' /\ ~(Booked(d)')
BY DEF Timely, Covered, Booked

\* The acquire script gives the caller it admits a nonce and a lease of its own.
LEMMA AskHeld ==
    ASSUME LeaseOutlives, IInv, LInv, NEW c \in Callers, Ask(c), UNCHANGED ClusterConcurrency
    PROVE  LInv'
<1>1. /\ now' = now /\ pc' = [pc EXCEPT ![c] = "answered"] /\ pc[c] = "asking"
      /\ PurgeOnly \/ BookAdmission
    BY DEF Ask, Goto
<1>2. /\ call \in [Callers -> Calls] /\ pc \in [Callers -> States] /\ now \in Nat
      /\ call[c].since \in Nat /\ LeaseTTL \in Nat /\ Lag \in Nat /\ Len(admits) \in Nat
    BY CallTypes
<1>3. /\ pc'[c] = "answered" /\ call'[c].since = call[c].since
      /\ \A d \in Callers \ {c} : pc'[d] = pc[d] /\ call'[d] = call[d]
    <2>1. \A d \in Callers \ {c} : pc'[d] = pc[d] /\ call'[d] = call[d]
        BY <1>1, <1>2 DEF Ask
    <2>2. call'[c].since = call[c].since
        BY <1>2 DEF Ask, Calls
    <2>3. QED BY <1>1, <1>2, <2>1, <2>2
<1>4. ~Booked(c) /\ Timely(c)
    BY <1>1 DEF Booked, LInv
<1>5. ASSUME NEW d \in Callers \ {c} PROVE Timely(d)' /\ Covered(d)'
    BY <1>1, <1>3, LeaseOutlives, RunningLeasesStay, UnmovedHeld
<1>6. Timely(c)'
    BY <1>1, <1>3, <1>4 DEF Timely
<1>7. CASE ~(call'[c].reply = 0)
    <2>1. Covered(c)' /\ ~(Booked(c)')
        BY <1>3, <1>7 DEF Covered, Booked
    <2>2. \A d \in Callers : Booked(d)' => Booked(d) /\ call'[d].nonce = call[d].nonce
        BY <1>3, <2>1 DEF Booked
    <2>3. UNCHANGED admits
        <3>1. CASE PurgeOnly
            BY <3>1 DEF PurgeOnly
        <3>2. CASE call' = [call EXCEPT ![c].reply = 0, ![c].nonce = Nonce]
            BY <1>2, <1>7, <3>2 DEF Calls
        <3>3. QED BY <3>1, <3>2 DEF Ask
    <2>4. NoncesApart'
        BY <2>2, <2>3, NoncesStay
    <2>5. QED BY <1>5, <1>6, <2>1, <2>4 DEF LInv
<1>8. CASE call'[c].reply = 0
    <2>1. /\ BookAdmission
          /\ call'[c].nonce = Nonce
        <3>1. ASSUME AdmitAt > now, call' = [call EXCEPT ![c].reply = AdmitAt - now] PROVE FALSE
            <4>1. call'[c].reply = AdmitAt - now
                BY <1>2, <3>1 DEF Calls
            <4>2. QED BY <1>2, <1>8, <3>1, <4>1, AdmitAtType
        <3>2. ASSUME call' = [call EXCEPT ![c].reply = Poll] PROVE FALSE
            <4>1. call'[c].reply = Poll
                BY <1>2, <3>2 DEF Calls
            <4>2. QED BY <1>8, <4>1, ReadTypes
        <3>3. ASSUME call' = [call EXCEPT ![c].reply = 0, ![c].nonce = Nonce]
              PROVE  call'[c].nonce = Nonce
            BY <1>2, <3>3 DEF Calls
        <3>4. QED BY <3>1, <3>2, <3>3 DEF Ask
    <2>2. /\ admits' = Append(admits, now) /\ Len(admits') = Len(admits) + 1
          /\ Nonce = Len(admits) + 1
        <3>1. admits \in Seq(Nat) /\ admits' = Append(admits, now)
            BY <2>1 DEF BookAdmission, IInv, WindowKept, TypeOK
        <3>2. QED BY <1>2, <3>1, AppendProperties DEF Nonce
    <2>3. NoncesApart'
        <3>1. \A d \in Callers \ {c} :
                (Booked(d)' <=> Booked(d)) /\ call'[d].nonce = call[d].nonce
            BY <1>3 DEF Booked
        <3>2. \A d \in Callers : call[d].nonce \in Nat
            BY CallTypes
        <3>3. /\ \A d \in Callers : Booked(d) => call[d].nonce <= Len(admits)
              /\ \A d, e \in Callers : Booked(d) /\ Booked(e) /\ d # e =>
                   call[d].nonce # call[e].nonce
            BY DEF LInv, NoncesApart
        <3>4. \A d \in Callers : Booked(d)' => call'[d].nonce <= Len(admits')
            BY <1>2, <2>1, <2>2, <3>1, <3>2, <3>3
        <3>5. ASSUME NEW d \in Callers, NEW e \in Callers, Booked(d)', Booked(e)', d # e
              PROVE  call'[d].nonce # call'[e].nonce
            <4>1. CASE d # c /\ e # c
                BY <3>1, <3>3, <3>5, <4>1
            <4>2. CASE d = c
                BY <1>2, <2>1, <2>2, <3>1, <3>2, <3>3, <3>5, <4>2
            <4>3. CASE e = c
                BY <1>2, <2>1, <2>2, <3>1, <3>2, <3>3, <3>5, <4>3
            <4>4. QED BY <4>1, <4>2, <4>3
        <3>6. QED BY <3>4, <3>5 DEF NoncesApart
    <2>4. Covered(c)'
        <3> SUFFICES ASSUME ClusterConcurrency > 0 PROVE LeaseHeld(c, call[c].since + LeaseTTL)'
            BY <1>3 DEF Covered
        <3> DEFINE mine == [nonce |-> Nonce, until |-> now + LeaseTTL]
        <3>1. mine \in inflight'.leases
            BY <2>1 DEF BookAdmission
        <3>2. mine.nonce = call'[c].nonce /\ mine.until >= call'[c].since + LeaseTTL
            <4>1. call[c].since <= now
                BY <1>1, <1>4 DEF Timely
            <4>2. QED BY <1>2, <1>3, <2>1, <4>1
        <3>3. QED BY <1>3, <3>1, <3>2 DEF LeaseHeld
    <2>5. QED BY <1>5, <1>6, <2>3, <2>4 DEF LInv
<1>9. QED BY <1>7, <1>8

\* A release frees the caller's own lease and no one else's.
LEMMA ReleaseHeld ==
    ASSUME LeaseOutlives, IInv, LInv, NEW c \in Callers, Release(c), UNCHANGED ClusterConcurrency
    PROVE  LInv'
<1>1. /\ now' = now /\ admits' = admits /\ pc[c] = "releasing"
      /\ pc' = [pc EXCEPT ![c] = "idle"] /\ call' = [call EXCEPT ![c] = NoCall]
    BY DEF Release, Return, Goto
<1>2. call \in [Callers -> Calls] /\ pc \in [Callers -> States]
    BY CallTypes
<1>3. /\ pc'[c] = "idle"
      /\ \A d \in Callers \ {c} : pc'[d] = pc[d] /\ call'[d] = call[d]
    BY <1>1, <1>2
<1>4. Timely(c)' /\ Covered(c)' /\ ~(Booked(c)')
    BY <1>3, AtRest
<1>5. Booked(c)
    BY <1>1 DEF Booked
<1>6. ASSUME NEW d \in Callers \ {c} PROVE Timely(d)' /\ Covered(d)'
    <2>1. ASSUME Booked(d), NEW l \in inflight.leases, l.nonce = call[d].nonce
          PROVE  l \in inflight'.leases
        <3>1. call[d].nonce # call[c].nonce
            BY <1>5, <1>6, <2>1 DEF LInv, NoncesApart
        <3>2. inflight \in [leases : SUBSET [nonce : Nat, until : Nat], expires : Nat]
            BY DEF IInv, WindowKept, TypeOK
        <3>3. CASE inflight' = [inflight EXCEPT !.leases = {k \in @ : k.nonce # call[c].nonce}]
            BY <2>1, <3>1, <3>2, <3>3
        <3>4. CASE UNCHANGED inflight
            BY <2>1, <3>4
        <3>5. QED BY <3>3, <3>4 DEF Release
    <2>2. QED BY <1>1, <1>3, <2>1, LeaseOutlives, UnmovedHeld
<1>7. NoncesApart'
    <2>1. \A d \in Callers : Booked(d)' => Booked(d) /\ call'[d].nonce = call[d].nonce
        BY <1>3, <1>4 DEF Booked
    <2>2. QED BY <1>1, <2>1, NoncesStay
<1>8. QED BY <1>4, <1>6, <1>7 DEF LInv

\* A caller that touches no key, and is not newly booked by what it does.
LEMMA QuietHeld ==
    ASSUME LeaseOutlives, IInv, LInv, NEW c \in Callers, CallerStep(c), ~Ask(c), ~Release(c),
           UNCHANGED ClusterConcurrency
    PROVE  LInv'
<1> USE DEF redisVars, history, Goto
<1>1. now' = now /\ admits' = admits /\ inflight' = inflight
    BY DEF CallerStep, Arrive, EnterSem, Cancel, AskFails, Admitted, Refused, Sleep, AskAgain,
           Finish, ReleaseFails
<1>2. /\ call \in [Callers -> Calls] /\ pc \in [Callers -> States] /\ now \in Nat
      /\ call[c].since \in Nat /\ Lag \in Nat /\ LeaseTTL \in Nat /\ MaxHold \in Nat
    BY CallTypes
<1>3. \A d \in Callers \ {c} : pc'[d] = pc[d] /\ call'[d] = call[d]
    BY <1>2 DEF CallerStep, Arrive, EnterSem, Cancel, AskFails, Admitted, Refused, Sleep,
                AskAgain, Finish, ReleaseFails, Return
<1>4. \A d \in Callers \ {c} : Timely(d)' /\ Covered(d)'
    BY <1>1, <1>3, LeaseOutlives, UnmovedHeld
<1>5. Timely(c) /\ Covered(c)
    BY DEF LInv
<1>6. Timely(c)' /\ Covered(c)' /\ (Booked(c)' => Booked(c) /\ call'[c].nonce = call[c].nonce)
    <2>1. CASE Arrive(c) \/ Cancel(c) \/ AskFails(c) \/ Refused(c) \/ Sleep(c) \/ ReleaseFails(c)
        <3>1. pc'[c] \in {"idle", "queued", "asleep"}
            BY <1>2, <2>1 DEF Arrive, Cancel, AskFails, Refused, Sleep, ReleaseFails, Return
        <3>2. QED BY <3>1, AtRest
    <2>2. CASE EnterSem(c) \/ AskAgain(c)
        <3>1. pc'[c] = "asking" /\ call'[c].since = now
            BY <1>2, <2>2 DEF EnterSem, AskAgain, Calls
        <3>2. QED BY <1>1, <1>2, <3>1 DEF Timely, Covered, Booked
    <2>3. CASE Admitted(c)
        <3>1. /\ pc[c] = "answered" /\ call[c].reply = 0 /\ pc'[c] = "sending"
              /\ call'[c].since = now /\ call'[c].nonce = call[c].nonce
            BY <1>2, <2>3 DEF Admitted, Calls
        <3>2. Timely(c)'
            BY <1>1, <1>2, <3>1 DEF Timely
        <3>3. Covered(c)'
            <4> SUFFICES ASSUME ClusterConcurrency > 0 PROVE LeaseHeld(c, now + LeaseTTL - Lag)'
                BY <1>1, <3>1 DEF Covered
            <4>1. PICK l \in inflight.leases :
                    l.nonce = call[c].nonce /\ l.until >= call[c].since + LeaseTTL
                BY <1>5, <3>1 DEF Covered, LeaseHeld
            <4>2. now <= call[c].since + Lag /\ l.until \in Nat
                BY <1>5, <3>1 DEF Timely, IInv, WindowKept, TypeOK
            <4>3. l.until >= now + LeaseTTL - Lag
                BY <1>2, <4>1, <4>2
            <4>4. QED BY <1>1, <3>1, <4>1, <4>3 DEF LeaseHeld
        <3>4. Booked(c) /\ call'[c].nonce = call[c].nonce
            BY <3>1 DEF Booked
        <3>5. QED BY <3>2, <3>3, <3>4
    <2>4. CASE Finish(c)
        <3>1. /\ pc[c] = "sending" /\ pc'[c] = "releasing"
              /\ call'[c].since = now /\ call'[c].nonce = call[c].nonce
            BY <1>2, <2>4 DEF Finish, Calls
        <3>2. QED BY <1>1, <1>2, <3>1 DEF Timely, Covered, Booked
    <2>5. QED BY <2>1, <2>2, <2>3, <2>4 DEF CallerStep
<1>7. \A d \in Callers : Booked(d)' => Booked(d) /\ call'[d].nonce = call[d].nonce
    BY <1>3, <1>6 DEF Booked
<1>8. NoncesApart'
    BY <1>1, <1>7, NoncesStay
<1>9. QED BY <1>4, <1>6, <1>8 DEF LInv

\* Time passes only while every caller is within what its step may take.
LEMMA TickHeld ==
    ASSUME IInv, LInv, Tick, UNCHANGED ClusterConcurrency
    PROVE  LInv'
<1>1. /\ now' = now + 1
      /\ UNCHANGED <<pc, call, admits, inflight>>
      /\ \A d \in In({"asking", "answered", "releasing"}) : now - call[d].since < Lag
      /\ \A d \in In({"sending"}) : now - call[d].since < MaxHold
    BY DEF Tick, redisVars, callerVars, history
<1>2. ASSUME NEW d \in Callers PROVE Timely(d)' /\ Covered(d)'
    <2>1. Timely(d) /\ Covered(d)
        BY DEF LInv
    <2>2. now \in Nat /\ call[d].since \in Nat /\ Lag \in Nat /\ MaxHold \in Nat
        BY CallTypes
    <2>3. ASSUME pc[d] \in {"asking", "answered", "releasing"}
          PROVE  call[d].since <= now + 1 /\ now + 1 <= call[d].since + Lag
        <3>1. now - call[d].since < Lag /\ call[d].since <= now
            BY <1>1, <2>1, <2>3 DEF In, Timely
        <3>2. QED BY <2>2, <3>1
    <2>4. ASSUME pc[d] = "sending"
          PROVE  call[d].since <= now + 1 /\ now + 1 <= call[d].since + MaxHold
        <3>1. now - call[d].since < MaxHold /\ call[d].since <= now
            BY <1>1, <2>1, <2>4 DEF In, Timely
        <3>2. QED BY <2>2, <3>1
    <2>5. Timely(d)'
        BY <1>1, <2>3, <2>4 DEF Timely
    <2>6. Covered(d)'
        BY <1>1, <2>1 DEF Covered, LeaseHeld
    <2>7. QED BY <2>5, <2>6
<1>3. NoncesApart'
    BY <1>1, NoncesStay DEF Booked
<1>4. QED BY <1>2, <1>3 DEF LInv

\* A crash empties a pod's callers and leaves the others where they stood.
LEMMA CrashHeld ==
    ASSUME LeaseOutlives, IInv, LInv, NEW pod \in Pods, Crash(pod), UNCHANGED ClusterConcurrency
    PROVE  LInv'
<1>1. /\ UNCHANGED <<now, admits, inflight>>
      /\ pc' = [c \in Callers |-> IF PodOf[c] = pod THEN "idle" ELSE pc[c]]
      /\ call' = [c \in Callers |-> IF PodOf[c] = pod THEN NoCall ELSE call[c]]
    BY DEF Crash, redisVars
<1>2. ASSUME NEW d \in Callers
      PROVE  /\ Timely(d)' /\ Covered(d)'
             /\ Booked(d)' => Booked(d) /\ call'[d].nonce = call[d].nonce
    <2>1. CASE PodOf[d] = pod
        <3>1. pc'[d] = "idle"
            BY <1>1, <2>1
        <3>2. QED BY <3>1, AtRest
    <2>2. CASE PodOf[d] # pod
        <3>1. pc'[d] = pc[d] /\ call'[d] = call[d]
            BY <1>1, <2>2
        <3>2. Timely(d)' /\ Covered(d)'
            BY <1>1, <3>1, LeaseOutlives, UnmovedHeld
        <3>3. QED BY <3>1, <3>2 DEF Booked
    <2>3. QED BY <2>1, <2>2
<1>3. NoncesApart'
    BY <1>1, <1>2, NoncesStay
<1>4. QED BY <1>2, <1>3 DEF LInv

\* Every step keeps the nonces apart and the leases held.
LEMMA NextLInv == LeaseOutlives => (IInv /\ LInv /\ [Next]_vars => LInv')
<1> SUFFICES ASSUME LeaseOutlives, IInv, LInv, [Next]_vars PROVE LInv'
    OBVIOUS
<1>1. UNCHANGED ClusterConcurrency
    BY DEF Next, vars
<1>2. ASSUME NEW c \in Callers, CallerStep(c) PROVE LInv'
    BY <1>1, <1>2, LeaseOutlives, AskHeld, ReleaseHeld, QuietHeld
<1>3. ASSUME NEW pod \in Pods, Crash(pod) PROVE LInv'
    BY <1>1, <1>3, LeaseOutlives, CrashHeld
<1>4. ASSUME Tick PROVE LInv'
    BY <1>1, <1>4, TickHeld
<1>5. ASSUME UNCHANGED <<now, inflight, pc, call, admits>> PROVE LInv'
    BY <1>1, <1>5 DEF LInv, NoncesApart, Timely, Covered, LeaseHeld, Booked
<1>6. ASSUME NEW h \in Holds, Penalize(h) PROVE LInv'
    BY <1>5, <1>6 DEF Penalize, callerVars
<1>7. ASSUME Finished \/ UNCHANGED vars PROVE LInv'
    BY <1>5, <1>7 DEF Finished, vars, redisVars, callerVars, history
<1>8. QED BY <1>2, <1>3, <1>4, <1>6, <1>7 DEF Next, Step

\* Nobody has been admitted at first.
LEMMA InitLInv == Init => LInv
<1> SUFFICES ASSUME Init, NEW c \in Callers PROVE pc[c] = "idle"
    BY DEF LInv, NoncesApart, Timely, Covered, Booked
<1>1. QED BY DEF Init

\* Requests in flight each have a lease of their own.
LEMMA CapHolds == IInv /\ LInv => ClusterCap
<1> SUFFICES ASSUME IInv, LInv, ClusterConcurrency > 0
             PROVE  Cardinality(In({"sending"})) <= ClusterConcurrency
    BY DEF ClusterCap
<1> DEFINE S == In({"sending"})
           T == inflight.leases
           f == [c \in S |-> CHOOSE l \in T : l.nonce = call[c].nonce]
<1>1. \A c \in S : f[c] \in T /\ f[c].nonce = call[c].nonce
    <2> SUFFICES ASSUME NEW c \in S PROVE f[c] \in T /\ f[c].nonce = call[c].nonce
        OBVIOUS
    <2>1. \E l \in T : l.nonce = call[c].nonce
        BY DEF LInv, Covered, LeaseHeld, In
    <2>2. QED BY <2>1
<1>2. \A c, d \in S : c # d => call[c].nonce # call[d].nonce
    BY DEF LInv, NoncesApart, Booked, In
<1> HIDE DEF T
<1>3. f \in [S -> T] /\ \A c, d \in S : f[c] = f[d] => c = d
    <2>1. f \in [S -> T]
        BY <1>1
    <2>2. \A c, d \in S : f[c] = f[d] => c = d
        BY <1>1, <1>2
    <2>3. QED BY <2>1, <2>2
<1> HIDE DEF f, S
<1>4. f \in Injection(S, T)
    BY <1>3 DEF Injection, IsInjective
<1>5. IsFiniteSet(T) /\ Cardinality(T) <= ClusterConcurrency /\ ClusterConcurrency \in Nat
    BY ConfigAssumption DEF T, IInv, WindowKept, TypeOK, LeasesKept
<1>6. IsFiniteSet(S) /\ Cardinality(S) <= Cardinality(T)
    BY <1>4, <1>5, FS_Injection
<1>7. Cardinality(S) \in Nat /\ Cardinality(T) \in Nat
    BY <1>5, <1>6, FS_CardinalityType
<1>8. Cardinality(S) <= ClusterConcurrency
    BY <1>5, <1>6, <1>7
<1>9. QED BY <1>8 DEF S

\* The cap across pods (redislimit's in-flight ZSET): where a lease outlasts the
\* call and the request it is for, there are never more requests in flight to the
\* host than ClusterConcurrency, whatever replies and releases are lost and
\* whichever pods crash.
THEOREM ClusterCapped ==
    ASSUME LeaseOutlives
    PROVE  Spec => []ClusterCap
<1>1. IInv /\ LInv /\ [Next]_vars => IInv' /\ LInv'
    BY LeaseOutlives, NextIInv, NextLInv
<1>2. Init => IInv /\ LInv
    BY InitIInv, InitLInv
<1>3. QED BY <1>1, <1>2, CapHolds, PTL DEF Spec
=============================================================================
