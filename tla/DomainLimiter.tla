--------------------------- MODULE DomainLimiter ---------------------------
(***************************************************************************)
(* The in-process pacing limiter (internal/httpx/limiter.go), seen from    *)
(* one host: the slot that holds the host's semaphore, spacing, upstream   *)
(* hold and rolling quota, the callers that go through Acquire and release *)
(* it, and the idle sweep that drops the slot from the map and lets the    *)
(* next caller create a fresh one.                                         *)
(*                                                                         *)
(* Hosts share nothing but the sweep, so one host is modelled and the      *)
(* other hosts appear as OtherHostCall.  A clock tick stands for the unit  *)
(* the durations are given in; the process takes its own steps (taking a   *)
(* lock, running a timer that has fired) within a tick.                    *)
(***************************************************************************)
EXTENDS Instants, FiniteSets, SequencesExt

CONSTANTS
    Callers,        \* goroutines that call Acquire for this host
    MaxConcurrent,  \* capacity of the slot's semaphore
    MinDelay,       \* minimum delay
    Quota,          \* admissions per rolling window, 0 for no quota
    Period,         \* width of that window
    SpaceSends,     \* delay measured from admission (TRUE) or completion (FALSE)
    IdleFloor,      \* slotIdleFloor
    SweepEvery,     \* slotSweepEvery
    Jitters,        \* what rand.Intn may add to a wait
    Budgets,        \* what may be left of a caller's deadline when it arrives
    Holds,          \* Retry-After values an upstream may answer with
    NoDeadline,     \* the deadline of a context that has none
    HoldTimes,      \* bound: instants at which an upstream may answer so
    LastStart,      \* bound: no caller arrives after this instant
    MaxHold,        \* bound: the HTTP client times a request out after this long
    MaxCalls,       \* bound: calls of Acquire in one behaviour
    MaxTime         \* bound: the clock stops here

ASSUME ConfigAssumption ==
    /\ IsFiniteSet(Callers)
    /\ MaxConcurrent \in Nat \ {0}
    /\ MinDelay \in Nat /\ Quota \in Nat /\ Period \in Nat
    /\ SpaceSends \in BOOLEAN
    /\ IdleFloor \in Nat /\ SweepEvery \in Nat
    /\ Jitters \subseteq Nat /\ 0 \in Jitters
    /\ Budgets \subseteq Nat \cup {NoDeadline}
    /\ NoDeadline \notin Int
    /\ Holds \subseteq Nat \ {0} /\ HoldTimes \subseteq Nat
    /\ LastStart \in Nat /\ MaxHold \in Nat
    /\ MaxCalls \in Nat /\ MaxTime \in Nat

VARIABLES
    now,        \* the clock
    lastSweep,  \* instant of the last idle sweep
    mapped,     \* is the slot in d.limits?
    gen,        \* which slot it is: a pointer, numbered in order of creation
    slot,       \* the slot in the map (a dropped one is never read again)
    pc,         \* where each caller stands
    call,       \* the locals of each caller's Acquire
    calls,      \* history: calls of Acquire so far
    sends,      \* history: when every request was sent and was booked for
    holdEnd,    \* history: the latest instant any upstream asked for
    lastDone    \* history: the last completion

slotVars == <<lastSweep, mapped, gen, slot>>
callerVars == <<pc, call>>
history == <<calls, sends, holdEnd, lastDone>>
vars == <<now, slotVars, callerVars, history>>

\* The idle age at which a slot may be dropped.
Idle == Later(IdleFloor, Later(MinDelay, Period))

\* Go's zero time: older than anything the limiter compares it with.
LongAgo == 0 - (Idle + SweepEvery + 1)

-----------------------------------------------------------------------------
(* The rolling window: a sequence of booked instants, oldest first.        *)

\* As a faulty build would have it: one booking too many.
OpeningOneOver(sent, at) ==
    IF Len(sent) > Quota
    THEN Later(at, sent[Len(sent) - Quota + 1] + Period)
    ELSE at

\* The instant book grants a caller that wants `at`, given the evicted window.
Opening(sent, at) ==
    IF Len(sent) >= Quota
    THEN Later(at, sent[Len(sent) - Quota + 1] + Period)
    ELSE at

\* book: the window afterwards and the instant granted.
Book(sent, at) ==
    IF Quota = 0 THEN [sent |-> sent, at |-> at]
    ELSE LET live  == Evict(sent, at - Period)
             grant == Opening(live, at)
         IN  [sent |-> Append(live, grant), at |-> grant]

\* forget withdraws one booking, by value.
Forget(sent, at) == RemoveFirst(sent, at)

-----------------------------------------------------------------------------
(* The slot.                                                               *)

NewSlot ==
    [sem |-> 0, lastSend |-> LongAgo, booked |-> <<>>, notBefore |-> LongAgo,
     sent |-> <<>>, refs |-> 0, lastUsed |-> LongAgo]

\* Faulty: prunes what was sent a moment ago.
ConstrainingFromNow == Evict(slot.booked, now)

\* The bookings that still constrain a new caller's spacing.
Constraining == Evict(slot.booked, now - MinDelay)

\* The earliest instant the minimum delay allows.
Spaced ==
    IF SpaceSends
    THEN IF Constraining = <<>> THEN now ELSE Last(Constraining) + MinDelay
    ELSE Later(now, slot.lastSend + MinDelay)

\* unbook: the slot without the booking made at `at`.
Unbook(s, at) ==
    [s EXCEPT !.sent = Forget(@, at),
              !.booked = IF SpaceSends THEN RemoveFirst(@, at) ELSE @]

\* done drops the reference slotFor took.
Done(s) == [s EXCEPT !.refs = @ - 1, !.lastUsed = now]

\* Faulty: counts on the idle age alone.
DroppableInUse == mapped /\ now - slot.lastUsed > Idle /\ now > slot.notBefore

\* Faulty: forgets that an upstream asked for a longer hold.
DroppableOnHold == mapped /\ slot.refs = 0 /\ now - slot.lastUsed > Idle

\* The sweep may drop the slot: nobody holds it and it can delay nobody.
Droppable ==
    /\ mapped
    /\ slot.refs = 0
    /\ now - slot.lastUsed > Idle
    /\ now > slot.notBefore

SweepDue == now - lastSweep >= SweepEvery

\* maybeSweep, on whichever host it is called for.
MaybeSweep ==
    /\ lastSweep' = IF SweepDue THEN now ELSE lastSweep

\* Is the slot still in the map once maybeSweep has run?
StillMapped == mapped /\ ~(SweepDue /\ Droppable)

\* LoadOrStore: the slot in the map, created when there is none.
LoadOrStore ==
    /\ mapped' = TRUE
    /\ gen' = IF StillMapped THEN gen ELSE gen + 1
    /\ slot' = IF StillMapped THEN slot ELSE NewSlot

-----------------------------------------------------------------------------
(* Callers.                                                                *)

Resting == {"idle"}
HoldsRef == {"queued", "refusing", "waiting", "sending"}
HoldsSem == {"refusing", "waiting", "sending"}
HoldsBooking == {"refusing", "waiting"}
Granted == HoldsBooking \cup {"sending"}
States == Resting \cup {"loaded"} \cup HoldsRef

In(states) == {c \in Callers : pc[c] \in states}

Goto(c, state) == pc' = [pc EXCEPT ![c] = state]

\* The locals of an Acquire that has not begun.
NoCall == [ptr |-> 0, deadline |-> NoDeadline, admitAt |-> 0, wakeAt |-> 0,
           since |-> 0, owed |-> 0]

\* The call ends, and its locals with it.
Return(c) ==
    /\ Goto(c, "idle")
    /\ call' = [call EXCEPT ![c] = NoCall]

Init ==
    /\ now = 0
    /\ lastSweep = LongAgo
    /\ mapped = FALSE /\ gen = 0 /\ slot = NewSlot
    /\ pc = [c \in Callers |-> "idle"]
    /\ call = [c \in Callers |-> NoCall]
    /\ calls = 0 /\ sends = <<>>
    /\ holdEnd = LongAgo
    /\ lastDone = LongAgo

\* Acquire starts: slotFor sweeps if a sweep is due and loads the slot, without
\* its lock.
Arrive(c) ==
    /\ pc[c] = "idle"
    /\ now <= LastStart
    /\ calls < MaxCalls
    /\ calls' = calls + 1
    /\ MaybeSweep
    /\ LoadOrStore
    /\ \E b \in Budgets :
         call' = [call EXCEPT ![c].deadline = IF b = NoDeadline THEN b ELSE now + b,
                              ![c].ptr = gen',
                              ![c].since = now]
    /\ Goto(c, "loaded")
    /\ UNCHANGED <<now, sends, holdEnd, lastDone>>

\* Faulty: does not look whether the slot died between the load and the lock.
EnterSlotUnchecked(c) ==
    /\ pc[c] = "loaded"
    /\ slot' = [slot EXCEPT !.refs = @ + 1]
    /\ Goto(c, "queued")
    /\ UNCHANGED <<now, lastSweep, mapped, gen, call, history>>

\* slotFor, under the slot's lock: the slot is alive and gains a reference.
EnterSlot(c) ==
    /\ pc[c] = "loaded"
    /\ mapped /\ call[c].ptr = gen
    /\ slot' = [slot EXCEPT !.refs = @ + 1]
    /\ Goto(c, "queued")
    /\ UNCHANGED <<now, lastSweep, mapped, gen, call, history>>

\* slotFor, under the slot's lock: a sweep dropped the slot since it was
\* loaded, so the loop loads again.
RetryLoad(c) ==
    /\ pc[c] = "loaded"
    /\ ~(mapped /\ call[c].ptr = gen)
    /\ mapped' = TRUE
    /\ gen' = IF mapped THEN gen ELSE gen + 1
    /\ slot' = IF mapped THEN slot ELSE NewSlot
    /\ call' = [call EXCEPT ![c].ptr = gen']
    /\ UNCHANGED <<now, lastSweep, pc, history>>

\* The context dies while the caller queues on the semaphore.
CancelQueued(c) ==
    /\ pc[c] = "queued"
    /\ slot' = Done(slot)
    /\ Return(c)
    /\ UNCHANGED <<now, lastSweep, mapped, gen, history>>

\* What reserve hands out: the minimum delay and the upstream hold are two
\* lower bounds on the same instant, and the window is asked for that instant.
Booking == Book(slot.sent, Later(Spaced, slot.notBefore))

\* The jitter a wait may get: none in send-spaced mode, none when there is no wait.
JitterFor(at) == IF SpaceSends \/ at = now THEN {0} ELSE Jitters

\* Is there budget left for a wait until `wake`?
Fits(limit, wake) == IF limit = NoDeadline THEN TRUE ELSE wake <= limit

\* The caller's request leaves the process at this instant, booked for `at`.
Record(at) == sends' = Append(sends, [at |-> now, booked |-> at])

\* The semaphore admits the caller, then reserve runs under the slot's lock and
\* the wait it returns is held against the budget: a wait of zero sends at once,
\* one that fits starts the timer.  (Between the two locks the caller changes
\* nothing that anyone else reads but the semaphore, so they are one step.)
Reserve(c) ==
    /\ pc[c] = "queued"
    /\ slot.sem < MaxConcurrent
    /\ slot' = [slot EXCEPT !.sem = @ + 1,
                            !.sent = Booking.sent,
                            !.booked = IF SpaceSends
                                       THEN Append(Constraining, Booking.at)
                                       ELSE @]
    /\ \E j \in JitterFor(Booking.at) :
         LET wake == Booking.at + j
             fits == Fits(call[c].deadline, wake)
         IN  /\ call' = [call EXCEPT
                           ![c].admitAt = Booking.at,
                           ![c].wakeAt = wake,
                           ![c].since = now,
                           ![c].owed = Later(holdEnd, IF SpaceSends THEN now
                                                      ELSE lastDone + MinDelay)]
             /\ \/ ~fits /\ Goto(c, "refusing") /\ UNCHANGED sends
                \/ fits /\ wake > now /\ Goto(c, "waiting") /\ UNCHANGED sends
                \/ fits /\ wake = now /\ Goto(c, "sending") /\ Record(now)
    /\ UNCHANGED <<now, lastSweep, mapped, gen, calls, holdEnd, lastDone>>

\* A caller leaves without sending: unbook, done, and the semaphore back.
Withdraw(c) ==
    /\ slot' = [Done(Unbook(slot, call[c].admitAt)) EXCEPT !.sem = @ - 1]
    /\ Return(c)
    /\ UNCHANGED <<now, lastSweep, mapped, gen, history>>

\* The wait does not fit the caller's remaining budget: WaitBudgetError.
Refuse(c) ==
    /\ pc[c] = "refusing"
    /\ Withdraw(c)

\* The timer fires and the request leaves the process.
Wake(c) ==
    /\ pc[c] = "waiting"
    /\ now >= call[c].wakeAt
    /\ call' = [call EXCEPT ![c].since = now]
    /\ Record(call[c].admitAt)
    /\ Goto(c, "sending")
    /\ UNCHANGED <<now, slotVars, calls, holdEnd, lastDone>>

\* The context dies during the wait.
CancelWaiting(c) ==
    /\ pc[c] = "waiting"
    /\ Withdraw(c)

\* Faulty: the release keeps the semaphore.
ReleaseKeepsSem(c) ==
    /\ pc[c] = "sending"
    /\ slot' = [Done(slot) EXCEPT !.lastSend = IF SpaceSends THEN @ ELSE now]
    /\ lastDone' = now
    /\ Return(c)
    /\ UNCHANGED <<now, lastSweep, mapped, gen, calls, sends, holdEnd>>

\* The release function Acquire returned.
Release(c) ==
    /\ pc[c] = "sending"
    /\ slot' = [Done(slot) EXCEPT !.lastSend = IF SpaceSends THEN @ ELSE now,
                                  !.sem = @ - 1]
    /\ lastDone' = now
    /\ Return(c)
    /\ UNCHANGED <<now, lastSweep, mapped, gen, calls, sends, holdEnd>>

\* An upstream answers with a Retry-After of h.
Penalize(h) ==
    /\ now \in HoldTimes
    /\ MaybeSweep
    /\ mapped' = TRUE
    /\ gen' = IF StillMapped THEN gen ELSE gen + 1
    /\ slot' = [(IF StillMapped THEN slot ELSE NewSlot)
                  EXCEPT !.notBefore = Later(@, now + h), !.lastUsed = now]
    /\ holdEnd' = Later(holdEnd, now + h)
    /\ UNCHANGED <<now, callerVars, calls, sends, lastDone>>

\* A caller of another host runs the sweep.
OtherHostCall ==
    /\ SweepDue
    /\ lastSweep' = now
    /\ mapped' = (mapped /\ ~Droppable)
    /\ slot' = IF mapped' THEN slot ELSE NewSlot
    /\ UNCHANGED <<now, gen, callerVars, history>>

\* Has the caller's deadline come?
Expired(c) == IF call[c].deadline = NoDeadline THEN FALSE ELSE call[c].deadline <= now

\* Time passes once nothing that is due is left to do: a running caller takes
\* its next step (one about to take the slot's lock may lose a tick), a timer or
\* a deadline that has come fires, and a request that has lasted MaxHold is
\* timed out by the HTTP client.
Tick ==
    /\ now < MaxTime
    /\ In({"refusing"}) = {}
    /\ \A c \in In({"loaded"}) : now = call[c].since
    /\ slot.sem < MaxConcurrent => In({"queued"}) = {}
    /\ \A c \in In({"waiting"}) : now < call[c].wakeAt
    /\ \A c \in In({"queued"}) : ~Expired(c)
    /\ \A c \in In({"sending"}) : now - call[c].since < MaxHold
    /\ now' = now + 1
    /\ UNCHANGED <<slotVars, callerVars, history>>

\* Everyone has been answered and the clock has reached its bound.
Finished ==
    /\ now = MaxTime
    /\ In(Resting) = Callers
    /\ UNCHANGED vars

CallerStep(c) ==
    \/ Arrive(c) \/ EnterSlot(c) \/ RetryLoad(c) \/ CancelQueued(c)
    \/ Reserve(c) \/ Refuse(c) \/ Wake(c) \/ CancelWaiting(c) \/ Release(c)

Next ==
    \/ \E c \in Callers : CallerStep(c)
    \/ \E h \in Holds : Penalize(h)
    \/ OtherHostCall
    \/ Tick
    \/ Finished

Spec == Init /\ [][Next]_vars

\* The steps that wait for nobody's decision.
Progress ==
    \/ Tick
    \/ \E c \in Callers :
         \/ EnterSlot(c) \/ RetryLoad(c) \/ Reserve(c) \/ Refuse(c) \/ Wake(c) \/ Release(c)
         \/ CancelQueued(c) /\ Expired(c)

\* The process and the clock do not stop while something is left to do.  Tick
\* waits for what is due, so this is enough for each caller to get its turn.
Fairness == WF_vars(Progress)

FairSpec == Spec /\ Fairness

-----------------------------------------------------------------------------
(* Properties.                                                             *)

\* What a slot holds.
Slots == [sem : 0..MaxConcurrent, lastSend : Int, booked : Seq(Int), notBefore : Int,
          sent : Seq(Int), refs : Nat, lastUsed : Int]

\* What an Acquire keeps of its own.
Locals == [ptr : Nat, deadline : Nat \cup {NoDeadline}, admitAt : Int, wakeAt : Int,
           since : Nat, owed : Int]

\* Every variable has its type, and the semaphore and the reference count stay
\* within their range.
TypeOK ==
    /\ now \in Nat /\ lastSweep \in Int
    /\ mapped \in BOOLEAN /\ gen \in Nat
    /\ slot \in Slots
    /\ pc \in [Callers -> States]
    /\ call \in [Callers -> Locals]
    /\ calls \in Nat /\ sends \in Seq([at : Nat, booked : Int])
    /\ holdEnd \in Int /\ lastDone \in Int

\* At most MaxConcurrent requests are in flight to the host, whichever slots
\* they were admitted by: dropping a slot never hands out a second semaphore
\* while callers of the first still run.
ConcurrencyCap == Cardinality(In({"sending"})) <= MaxConcurrent

\* A caller that holds a reference holds the slot that is in the map: the sweep
\* drops no slot in use and no caller goes on with a slot it found dead.
HeldSlotIsLive == \A c \in In(HoldsRef) : mapped /\ call[c].ptr = gen

\* No caller books an instant earlier than an upstream's Retry-After, or than
\* MinDelay after the last completion, as they stood when it booked -- even
\* when the slot that knew of them has been dropped since.
ObligationsMet == \A c \in In(Granted) : call[c].admitAt >= call[c].owed

Occurrences(s, v) == Cardinality({i \in DOMAIN s : s[i] = v})

\* A booking of a future instant belongs to a caller that is still waiting for
\* it: a caller that was refused or gave up leaves nothing behind, so that no
\* later caller queues behind one that no longer exists.
NoPhantomBooking ==
    \A s \in {slot.sent, slot.booked} :
      \A v \in {s[i] : i \in DOMAIN s} :
        v > now => Occurrences(s, v) <= Cardinality({c \in In(HoldsBooking) : call[c].admitAt = v})

\* Of the requests sent, at most Quota were booked within any window.
BookedWindow ==
    Quota > 0 =>
      \A i \in DOMAIN sends :
        Cardinality({j \in DOMAIN sends : /\ sends[j].booked > sends[i].booked - Period
                                          /\ sends[j].booked <= sends[i].booked}) <= Quota

\* Nothing puts the window's bookings out of order: the instants asked for never
\* go back, since a release measures the delay, and at most one booking is pending
\* when another is made, so that withdrawing it uncovers none.
BookingsInOrder == ~SpaceSends /\ MaxConcurrent <= 2

\* The bookings ration what they should and nothing else: no caller that has gone
\* delays another, and, while they are in order, they keep the window of the
\* requests that go out.
BookingsKept ==
    /\ TypeOK
    /\ NoPhantomBooking
    /\ BookingsInOrder => BookedWindow

\* In send-spaced mode two requests leave at least MinDelay apart, whatever was
\* booked, withdrawn or refused between them, and what was withdrawn or refused
\* leaves no gap that nobody sends in.
SendsSpaced ==
    /\ NoPhantomBooking
    /\ SpaceSends =>
         \A i \in 1..Len(sends) - 1 : sends[i + 1].at - sends[i].at >= MinDelay

\* Every caller that reaches the slot is answered: its request goes out or
\* Acquire returns an error.
CallersAnswered ==
    \A c \in Callers : pc[c] \in {"loaded", "queued"} ~> pc[c] \in {"sending", "idle"}
=============================================================================
