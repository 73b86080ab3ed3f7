---------------------------- MODULE RedisLimiter ----------------------------
(***************************************************************************)
(* The shared pacing limiter (internal/httpx/redislimit), seen from one    *)
(* host: three expiring Redis keys that Lua scripts read and write, the    *)
(* callers of several pods that run those scripts, and everything that can *)
(* go wrong between a pod and Redis.  A script is one atomic step on       *)
(* Redis' own clock; sending it, running it and hearing its reply are      *)
(* three steps of the caller, and other callers run in between.            *)
(***************************************************************************)
EXTENDS Instants, FiniteSets, TLC

CONSTANTS
    Callers,        \* goroutines that call Acquire for this host
    Pods, PodOf,    \* replicas, and the one each caller runs in
    MaxConcurrent,  \* per-pod semaphore, before ClusterConcurrency raises it
    MinDelay, Quota, Window, LeaseTTL, ConcurrencyRetry,
    Caps,           \* the cluster-wide caps it may be configured with, 0 for none
    KeyTTLSlack,    \* keyTTLSlack
    Jitters,        \* what jitter() may add to a wait
    Budgets,        \* what may be left of a caller's deadline when it arrives
    Holds,          \* Retry-After values an upstream may answer with
    NoDeadline,     \* the deadline of a context that has none
    Lag,            \* bound: a script and its reply take at most this long
    MaxHold,        \* bound: a request lasts at most this long
    LastStart,      \* bound: no caller arrives after this instant
    HoldTimes,      \* bound: instants at which an upstream may answer so
    MaxFaults,      \* bound: failed calls to Redis and crashes of a pod
    MaxCalls,       \* bound: calls of Acquire in one behaviour
    MaxTime         \* bound: the clock stops here

ASSUME ConfigAssumption ==
    /\ IsFiniteSet(Callers)
    /\ PodOf \in [Callers -> Pods]
    /\ MaxConcurrent \in Nat /\ MinDelay \in Nat /\ Quota \in Nat /\ Window \in Nat
    /\ Caps \subseteq Nat
    /\ LeaseTTL \in Nat \ {0} /\ ConcurrencyRetry \in Nat \ {0} /\ KeyTTLSlack \in Nat \ {0}
    /\ Jitters \subseteq Nat
    /\ Budgets \subseteq Nat \cup {NoDeadline}
    /\ NoDeadline \notin Int
    /\ Holds \subseteq Nat \ {0} /\ HoldTimes \subseteq Nat
    /\ Lag \in Nat /\ MaxHold \in Nat /\ LastStart \in Nat
    /\ MaxFaults \in Nat /\ MaxCalls \in Nat /\ MaxTime \in Nat

VARIABLES
    ClusterConcurrency,  \* the cap of this deployment: set once, by its operator
    now,        \* Redis' clock, the only one the limiter reads an instant from
    win,        \* the rolling-window key: admission instants and an expiry
    next,       \* the next-allowed-at key: an instant and an expiry
    inflight,   \* the in-flight key: leases and an expiry
    pc,         \* where each caller stands
    call,       \* the locals of each caller's Acquire
    calls,      \* history: calls of Acquire so far
    faults,     \* history: faults so far
    admits,     \* history: the instants of admission
    earliest    \* history: the latest instant a script was told to hold until

redisVars == <<win, next, inflight>>
callerVars == <<pc, call>>
history == <<calls, faults, admits, earliest>>
vars == <<ClusterConcurrency, now, redisVars, callerVars, history>>

-----------------------------------------------------------------------------
(* The scripts.                                                            *)

\* Redis drops a key when its TTL has run out: a reader finds nothing.
Exists(key) == now < key.expires

\* GET next-allowed-at.
NextAllowed == IF Exists(next) THEN Later(now, next.at) ELSE now

\* What is left of the window once the script has purged it.
Purged == IF Exists(win) /\ Quota > 0 THEN Evict(win.times, now - Window) ELSE <<>>

\* Faulty: lets the window hold one admission too many.
OpeningOneOver ==
    IF Quota > 0 /\ Len(Purged) > Quota
    THEN Purged[Len(Purged) - Quota + 1] + Window
    ELSE now

\* The opening is the one Quota places back: everything newer holds a slot of
\* its own.
Opening ==
    IF Quota > 0 /\ Len(Purged) >= Quota
    THEN Purged[Len(Purged) - Quota + 1] + Window
    ELSE now

\* The instant delay and quota allow.
AdmitAt == Later(NextAllowed, Opening)

\* The leases whose deadline has not passed.
Leased == IF Exists(inflight) THEN {l \in inflight.leases : l.until > now} ELSE {}

\* Faulty: lets in one request too many.
FullOneOver ==
    /\ ClusterConcurrency > 0
    /\ AdmitAt <= now
    /\ Cardinality(Leased) > ClusterConcurrency

\* The in-flight cap refuses the caller; it is looked at last, and only when
\* nothing else owes a wait.
Full ==
    /\ ClusterConcurrency > 0
    /\ AdmitAt <= now
    /\ Cardinality(Leased) >= ClusterConcurrency

\* The short poll a full cap answers: never past the earliest lease's deadline.
Poll == Later(1, Min({ConcurrencyRetry} \cup {l.until - now : l \in Leased}))

\* A waiting caller books nothing; the script has purged what it looked at.
PurgeOnly ==
    /\ win' = [win EXCEPT !.times = Purged]
    /\ inflight' = IF ClusterConcurrency > 0 /\ AdmitAt <= now
                   THEN [inflight EXCEPT !.leases = Leased]
                   ELSE inflight
    /\ UNCHANGED <<next, admits, earliest>>

\* Every nonce is new; counting admissions numbers those that are booked.
Nonce == Len(admits) + 1

\* The script admits the caller and books it under the nonce.
BookAdmission ==
    /\ win' = IF Quota > 0
              THEN [times |-> Append(Purged, now), expires |-> now + Window + KeyTTLSlack]
              ELSE win
    /\ next' = IF MinDelay > 0
               THEN [at |-> now + MinDelay, expires |-> now + MinDelay + KeyTTLSlack]
               ELSE next
    /\ inflight' = IF ClusterConcurrency > 0
                   THEN [leases |-> Leased \cup {[nonce |-> Nonce, until |-> now + LeaseTTL]},
                         expires |-> now + LeaseTTL + KeyTTLSlack]
                   ELSE inflight
    /\ admits' = Append(admits, now)
    /\ earliest' = now + MinDelay

\* Faulty: keeps the key for the delay it was asked for, not for what it holds.
BumpShortTTL(d) ==
    LET target == Later(now + d, NextAllowed)
    IN  /\ next' = [at |-> target, expires |-> now + d]
        /\ earliest' = Later(earliest, now + d)

\* releaseScript with a delay of d: never shortens a hold, and keeps the key for
\* as long as it holds.
Bump(d) ==
    LET target == Later(now + d, NextAllowed)
    IN  /\ next' = [at |-> target, expires |-> target + KeyTTLSlack]
        /\ earliest' = Later(earliest, now + d)

-----------------------------------------------------------------------------
(* Callers.                                                                *)

\* asking: the acquire script is on its way; answered: it has run and the
\* caller has not heard; asleep: waiting to ask again; sending: admitted;
\* releasing: the release script is on its way.
HoldsSem == {"asking", "answered", "asleep", "sending", "releasing"}
States == {"idle", "queued"} \cup HoldsSem

In(states) == {c \in Callers : pc[c] \in states}

\* Faulty: an unbuffered channel when the local bound is unset.
SemSizeLocal == MaxConcurrent

\* semFor: a pod must be willing to admit what the cluster allows.
SemSize == Later(1, Later(ClusterConcurrency, MaxConcurrent))

SemFree(pod) == Cardinality({c \in In(HoldsSem) : PodOf[c] = pod}) < SemSize

Goto(c, state) == pc' = [pc EXCEPT ![c] = state]

NoCall == [deadline |-> NoDeadline, reply |-> 0, nonce |-> 0, since |-> 0]

\* The call ends: its locals go and its place in the semaphore is free.
Return(c) ==
    /\ Goto(c, "idle")
    /\ call' = [call EXCEPT ![c] = NoCall]

Fits(deadline, wait) == IF deadline = NoDeadline THEN TRUE ELSE now + wait <= deadline

Expired(c) == IF call[c].deadline = NoDeadline THEN FALSE ELSE call[c].deadline <= now

Fault == faults < MaxFaults /\ faults' = faults + 1

Init ==
    /\ ClusterConcurrency \in Caps
    /\ now = 0
    /\ win = [times |-> <<>>, expires |-> 0]
    /\ next = [at |-> 0, expires |-> 0]
    /\ inflight = [leases |-> {}, expires |-> 0]
    /\ pc = [c \in Callers |-> "idle"]
    /\ call = [c \in Callers |-> NoCall]
    /\ calls = 0 /\ faults = 0
    /\ admits = <<>> /\ earliest = 0

Arrive(c) ==
    /\ pc[c] = "idle"
    /\ now <= LastStart
    /\ calls < MaxCalls
    /\ calls' = calls + 1
    /\ \E b \in Budgets :
         call' = [call EXCEPT ![c].deadline = IF b = NoDeadline THEN b ELSE now + b]
    /\ Goto(c, "queued")
    /\ UNCHANGED <<now, redisVars, faults, admits, earliest>>

\* The pod's semaphore lets the caller through, and it sends the script.
EnterSem(c) ==
    /\ pc[c] = "queued"
    /\ SemFree(PodOf[c])
    /\ call' = [call EXCEPT ![c].since = now]
    /\ Goto(c, "asking")
    /\ UNCHANGED <<now, redisVars, history>>

\* The context dies while the caller queues or sleeps; it has booked nothing.
Cancel(c) ==
    /\ pc[c] \in {"queued", "asleep"}
    /\ Return(c)
    /\ UNCHANGED <<now, redisVars, history>>

\* acquireScript runs.
Ask(c) ==
    /\ pc[c] = "asking"
    /\ \/ /\ AdmitAt > now
          /\ PurgeOnly
          /\ call' = [call EXCEPT ![c].reply = AdmitAt - now]
       \/ /\ Full
          /\ PurgeOnly
          /\ call' = [call EXCEPT ![c].reply = Poll]
       \/ /\ AdmitAt <= now /\ ~Full
          /\ BookAdmission
          /\ call' = [call EXCEPT ![c].reply = 0, ![c].nonce = Nonce]
    /\ Goto(c, "answered")
    /\ UNCHANGED <<now, calls, faults>>

\* The call fails: before the script ran, or after it did and the reply is lost.
\* Acquire frees the semaphore and returns ErrLimiterUnavailable (or the context's
\* error, if that is what it was); what the script booked stays booked.
AskFails(c) ==
    /\ pc[c] \in {"asking", "answered"}
    /\ Fault
    /\ Return(c)
    /\ UNCHANGED <<now, redisVars, calls, admits, earliest>>

\* The reply admits the caller: its request goes out.
Admitted(c) ==
    /\ pc[c] = "answered"
    /\ call[c].reply = 0
    /\ call' = [call EXCEPT ![c].since = now]
    /\ Goto(c, "sending")
    /\ UNCHANGED <<now, redisVars, history>>

\* The reply is a wait longer than what is left of the deadline: WaitBudgetError.
Refused(c) ==
    /\ pc[c] = "answered"
    /\ call[c].reply > 0
    /\ ~Fits(call[c].deadline, call[c].reply)
    /\ Return(c)
    /\ UNCHANGED <<now, redisVars, history>>

\* The reply is a wait that fits: the caller sleeps it out, and some jitter.
Sleep(c) ==
    /\ pc[c] = "answered"
    /\ call[c].reply > 0
    /\ Fits(call[c].deadline, call[c].reply)
    /\ \E j \in Jitters : call' = [call EXCEPT ![c].since = now + call[c].reply + j]
    /\ Goto(c, "asleep")
    /\ UNCHANGED <<now, redisVars, history>>

\* The timer fires: the caller asks again, and another may have taken the opening.
AskAgain(c) ==
    /\ pc[c] = "asleep"
    /\ now >= call[c].since
    /\ call' = [call EXCEPT ![c].since = now, ![c].reply = 0]
    /\ Goto(c, "asking")
    /\ UNCHANGED <<now, redisVars, history>>

\* The request is over and the caller calls release.
Finish(c) ==
    /\ pc[c] = "sending"
    /\ call' = [call EXCEPT ![c].since = now]
    /\ Goto(c, "releasing")
    /\ UNCHANGED <<now, redisVars, history>>

\* release: with a cluster cap it frees the caller's lease by name, without one
\* it starts the minimum delay from this instant.
Release(c) ==
    /\ pc[c] = "releasing"
    /\ \/ /\ ClusterConcurrency > 0
          /\ inflight' = [inflight EXCEPT !.leases = {l \in @ : l.nonce # call[c].nonce}]
          /\ UNCHANGED <<win, next, earliest>>
       \/ /\ ClusterConcurrency = 0
          /\ IF MinDelay > 0 THEN Bump(MinDelay) ELSE UNCHANGED <<next, earliest>>
          /\ UNCHANGED <<win, inflight>>
    /\ Return(c)
    /\ UNCHANGED <<now, calls, faults, admits>>

\* The release script fails; only the error hook hears of it.
ReleaseFails(c) ==
    /\ pc[c] = "releasing"
    /\ Fault
    /\ Return(c)
    /\ UNCHANGED <<now, redisVars, calls, admits, earliest>>

\* An upstream answers with a Retry-After of h.
Penalize(h) ==
    /\ now \in HoldTimes
    /\ Bump(h)
    /\ UNCHANGED <<now, win, inflight, callerVars, calls, faults, admits>>

\* A pod dies, with its callers, its semaphore and the requests they have out.
Crash(pod) ==
    /\ \E c \in Callers : PodOf[c] = pod /\ pc[c] # "idle"
    /\ Fault
    /\ pc' = [c \in Callers |-> IF PodOf[c] = pod THEN "idle" ELSE pc[c]]
    /\ call' = [c \in Callers |-> IF PodOf[c] = pod THEN NoCall ELSE call[c]]
    /\ UNCHANGED <<now, redisVars, calls, admits, earliest>>

\* Time passes once nothing that is due is left to do.
Tick ==
    /\ now < MaxTime
    /\ \A c \in In({"queued"}) : ~SemFree(PodOf[c]) /\ ~Expired(c)
    /\ \A c \in In({"asking", "answered", "releasing"}) : now - call[c].since < Lag
    /\ \A c \in In({"asleep"}) : now < call[c].since /\ ~Expired(c)
    /\ \A c \in In({"sending"}) : now - call[c].since < MaxHold
    /\ now' = now + 1
    /\ UNCHANGED <<redisVars, callerVars, history>>

\* Everyone has been answered and the clock has reached its bound.
Finished ==
    /\ now = MaxTime
    /\ In({"idle"}) = Callers
    /\ UNCHANGED <<now, redisVars, callerVars, history>>

CallerStep(c) ==
    \/ Arrive(c) \/ EnterSem(c) \/ Cancel(c) \/ Ask(c) \/ AskFails(c)
    \/ Admitted(c) \/ Refused(c) \/ Sleep(c) \/ AskAgain(c)
    \/ Finish(c) \/ Release(c) \/ ReleaseFails(c)

Step ==
    \/ \E c \in Callers : CallerStep(c)
    \/ \E h \in Holds : Penalize(h)
    \/ \E pod \in Pods : Crash(pod)
    \/ Tick
    \/ Finished

Next == Step /\ UNCHANGED ClusterConcurrency

Spec == Init /\ [][Next]_vars

\* The steps that wait for nobody's decision and need no fault.
Progress ==
    /\ \/ Tick
       \/ \E c \in Callers :
            \/ EnterSem(c) \/ Ask(c) \/ Admitted(c) \/ Refused(c) \/ Sleep(c) \/ AskAgain(c)
            \/ Finish(c) \/ Release(c)
            \/ Cancel(c) /\ Expired(c)
    /\ UNCHANGED ClusterConcurrency

\* Callers and the clock do not stop while something is left to do.
Fairness == WF_vars(Progress)

FairSpec == Spec /\ Fairness

-----------------------------------------------------------------------------
(* Properties.                                                             *)

\* Every variable has its type, and neither sorted set outgrows what it rations.
TypeOK ==
    /\ ClusterConcurrency \in Caps
    /\ now \in Nat
    /\ win \in [times : Seq(Nat), expires : Nat]
    /\ next \in [at : Nat, expires : Nat]
    /\ inflight \in [leases : SUBSET [nonce : Nat, until : Nat], expires : Nat]
    /\ pc \in [Callers -> States]
    /\ call \in [Callers -> [deadline : Nat \cup {NoDeadline}, reply : Nat, nonce : Nat,
                             since : Nat]]
    /\ Quota > 0 => Len(win.times) <= Quota
    /\ ClusterConcurrency > 0 => Cardinality(inflight.leases) <= ClusterConcurrency
    /\ calls \in Nat /\ faults \in Nat
    /\ admits \in Seq(Nat) /\ earliest \in Nat

\* The rolling quota: of any Quota + 1 admissions in a row the last comes a whole
\* Window after the first, on whichever pods they were made and whatever became
\* of their callers.
WindowKept ==
    /\ TypeOK
    /\ Quota > 0 =>
         \A i \in 1..Len(admits) - Quota : admits[i + Quota] - admits[i] >= Window

\* At most ClusterConcurrency requests are in flight to the host across every
\* pod, as long as no request outlives its lease.
ClusterCap ==
    ClusterConcurrency > 0 => Cardinality(In({"sending"})) <= ClusterConcurrency

\* The limiter keeps what PacedAdmissions promises: an expired key never held
\* back anything that still mattered, and no reply, failure or crash makes room.
Paced == INSTANCE PacedAdmissions
    WITH now <- now, admits <- admits, earliest <- earliest,
         MinDelay <- MinDelay, Quota <- Quota, Window <- Window
PacedSpec == Paced!Spec

\* A caller whose pod and calls to Redis do not fail is answered: its request
\* goes out or Acquire returns.  A slot stranded by a crash comes back.
CallersAnswered ==
    \A c \in Callers : pc[c] \in {"queued", "asking", "asleep"} ~> pc[c] \in {"sending", "idle"}
=============================================================================
