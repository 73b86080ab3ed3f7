--------------------------- MODULE FallbackLimiter ---------------------------
(***************************************************************************)
(* The fail-open limiter (internal/httpx/fallback.go): a circuit between a *)
(* Primary whose backend may be unreachable and a Fallback in process.     *)
(* Its mutex covers one read or one write of downUntil; the calls of the   *)
(* backends and the OnDegraded hook run outside it, so callers, outages    *)
(* and the cooldown interleave between those steps.                        *)
(*                                                                         *)
(* The two backends appear as what this type sees of them: slots taken and *)
(* given back, and how much longer each holds the host back.  Instants are *)
(* kept as the ticks that are left, so behaviours have no end.             *)
(***************************************************************************)
EXTENDS Instants, FiniteSets

CONSTANTS
    Callers,    \* goroutines that call Acquire
    Cooldown,   \* ticks the circuit stays open after a failure
    Holds       \* Retry-After values an upstream may answer with

ASSUME ConfigAssumption ==
    /\ IsFiniteSet(Callers)
    /\ Cooldown \in Nat \ {0}
    /\ Holds \subseteq Nat \ {0}

VARIABLES
    reachable,  \* does Primary's backend answer?
    open,       \* is downUntil nonzero?
    left,       \* ticks until downUntil, 0 once it has come
    gauge,      \* the last value the OnDegraded hook was called with
    slots,      \* what each backend has handed out and not got back
    held,       \* how much longer each backend holds the host back
    pc,         \* where each caller stands
    call,       \* the locals of each caller
    owed,       \* history: how much longer the host is to be held back
    spent       \* history: ticks until a caller may pay another timeout

circuit == <<open, left>>
backends == <<slots, held>>
vars == <<reachable, circuit, gauge, backends, pc, call, owed, spent>>

-----------------------------------------------------------------------------

Backends == {"primary", "fallback"}

States ==
    {"idle", "asking", "granted", "failed", "notifying", "local", "sending",
     "penalizing primary", "penalizing fallback"}

NoCall == [via |-> "primary", hold |-> 0, down |-> FALSE]

Goto(c, state) == pc' = [pc EXCEPT ![c] = state]

Return(c) ==
    /\ Goto(c, "idle")
    /\ call' = [call EXCEPT ![c] = NoCall]

\* Faulty: an open circuit is never probed.
PrimaryReadyClosed == ~open

\* The circuit is closed, or its cooldown is over and Primary is due for a probe.
PrimaryReady == ~open \/ left = 0

Init ==
    /\ reachable = TRUE
    /\ open = FALSE /\ left = 0
    /\ gauge = FALSE
    /\ slots = [b \in Backends |-> 0]
    /\ held = [b \in Backends |-> 0]
    /\ pc = [c \in Callers |-> "idle"]
    /\ call = [c \in Callers |-> NoCall]
    /\ owed = 0
    /\ spent = [c \in Callers |-> 0]

\* Acquire looks at the circuit and picks a backend.
Acquire(c) ==
    /\ pc[c] = "idle"
    /\ Goto(c, IF PrimaryReady THEN "asking" ELSE "local")
    /\ UNCHANGED <<reachable, circuit, gauge, backends, call, owed, spent>>

\* Primary.Acquire returns a slot.
PrimaryAdmits(c) ==
    /\ pc[c] = "asking"
    /\ reachable /\ held["primary"] = 0
    /\ slots' = [slots EXCEPT !["primary"] = @ + 1]
    /\ Goto(c, "granted")
    /\ UNCHANGED <<reachable, circuit, gauge, held, call, owed, spent>>

\* Primary.Acquire returns ErrLimiterUnavailable.
PrimaryFails(c) ==
    /\ pc[c] = "asking"
    /\ ~reachable
    /\ Goto(c, "failed")
    /\ UNCHANGED <<reachable, circuit, gauge, backends, call, owed, spent>>

\* The context dies, or the wait does not fit its budget, in either backend: the
\* caller's business, and no word on the health of Primary.
Refused(c) ==
    /\ pc[c] \in {"asking", "local"}
    /\ Return(c)
    /\ UNCHANGED <<reachable, circuit, gauge, backends, owed, spent>>

\* markUp, and the hook still to be called if that closed the circuit.
MarkUp(c) ==
    /\ pc[c] = "granted"
    /\ open' = FALSE /\ left' = 0
    /\ spent' = [d \in Callers |-> 0]
    /\ call' = [call EXCEPT ![c].via = "primary", ![c].down = FALSE]
    /\ Goto(c, IF open THEN "notifying" ELSE "sending")
    /\ UNCHANGED <<reachable, gauge, backends, owed>>

\* Faulty: only the failure that opens the circuit starts a cooldown.
MarkDownOnce(c) ==
    /\ pc[c] = "failed"
    /\ open' = TRUE
    /\ left' = IF open THEN left ELSE Cooldown
    /\ spent' = [spent EXCEPT ![c] = Cooldown]
    /\ call' = [call EXCEPT ![c].via = "fallback", ![c].down = TRUE]
    /\ Goto(c, IF open THEN "local" ELSE "notifying")
    /\ UNCHANGED <<reachable, gauge, backends, owed>>

\* markDown, and the hook still to be called if that opened the circuit.
MarkDown(c) ==
    /\ pc[c] = "failed"
    /\ open' = TRUE
    /\ left' = Cooldown
    /\ spent' = [spent EXCEPT ![c] = Cooldown]
    /\ call' = [call EXCEPT ![c].via = "fallback", ![c].down = TRUE]
    /\ Goto(c, IF open THEN "local" ELSE "notifying")
    /\ UNCHANGED <<reachable, gauge, backends, owed>>

\* notify, after the lock has been given up; then Acquire goes on.
Notify(c) ==
    /\ pc[c] = "notifying"
    /\ gauge' = call[c].down
    /\ Goto(c, IF call[c].down THEN "local" ELSE "sending")
    /\ UNCHANGED <<reachable, circuit, backends, call, owed, spent>>

\* Fallback.Acquire returns a slot.
FallbackAdmits(c) ==
    /\ pc[c] = "local"
    /\ held["fallback"] = 0
    /\ slots' = [slots EXCEPT !["fallback"] = @ + 1]
    /\ call' = [call EXCEPT ![c].via = "fallback"]
    /\ Goto(c, "sending")
    /\ UNCHANGED <<reachable, circuit, gauge, held, owed, spent>>

\* Faulty: releases through the backend that serves now.
ReleaseServing(c) ==
    /\ pc[c] = "sending"
    /\ slots' = [slots EXCEPT ![IF PrimaryReady THEN "primary" ELSE "fallback"] = @ - 1]
    /\ Return(c)
    /\ UNCHANGED <<reachable, circuit, gauge, held, owed, spent>>

\* The release Acquire returned, the one of the backend that admitted the caller.
Release(c) ==
    /\ pc[c] = "sending"
    /\ slots' = [slots EXCEPT ![call[c].via] = @ - 1]
    /\ Return(c)
    /\ UNCHANGED <<reachable, circuit, gauge, held, owed, spent>>

\* Faulty: penalizes the backend that serves and not the other.
PenalizeServing(c, h) ==
    /\ pc[c] = "sending"
    /\ held' = [held EXCEPT ![IF PrimaryReady THEN "primary" ELSE "fallback"] = Later(@, h)]
    /\ owed' = Later(owed, h)
    /\ UNCHANGED <<reachable, circuit, gauge, slots, pc, call, spent>>

\* The caller's response carries a Retry-After of h: Penalize looks at the circuit.
Penalize(c, h) ==
    /\ pc[c] = "sending"
    /\ call' = [call EXCEPT ![c].hold = h]
    /\ Goto(c, IF PrimaryReady THEN "penalizing primary" ELSE "penalizing fallback")
    /\ UNCHANGED <<reachable, circuit, gauge, backends, owed, spent>>

\* Primary is penalized, if its backend can be reached; nobody hears if not.
PenalizePrimary(c) ==
    /\ pc[c] = "penalizing primary"
    /\ held' = IF reachable
               THEN [held EXCEPT !["primary"] = Later(@, call[c].hold)]
               ELSE held
    /\ Goto(c, "penalizing fallback")
    /\ UNCHANGED <<reachable, circuit, gauge, slots, call, owed, spent>>

\* Fallback is penalized always, and Penalize returns.
PenalizeFallback(c) ==
    /\ pc[c] = "penalizing fallback"
    /\ held' = [held EXCEPT !["fallback"] = Later(@, call[c].hold)]
    /\ owed' = Later(owed, call[c].hold)
    /\ call' = [call EXCEPT ![c].hold = 0]
    /\ Goto(c, "sending")
    /\ UNCHANGED <<reachable, circuit, gauge, slots, spent>>

\* Primary's backend goes away or comes back.
Outage ==
    /\ reachable' = ~reachable
    /\ UNCHANGED <<circuit, gauge, backends, pc, call, owed, spent>>

Less(n) == Later(0, n - 1)

\* Time passes, whatever any caller is doing.
Tick ==
    /\ left' = Less(left)
    /\ held' = [b \in Backends |-> Less(held[b])]
    /\ owed' = Less(owed)
    /\ spent' = [c \in Callers |-> Less(spent[c])]
    /\ UNCHANGED <<reachable, open, gauge, slots, pc, call>>

CallerStep(c) ==
    \/ Acquire(c) \/ PrimaryAdmits(c) \/ PrimaryFails(c) \/ Refused(c)
    \/ MarkUp(c) \/ MarkDown(c) \/ Notify(c) \/ FallbackAdmits(c) \/ Release(c)
    \/ \E h \in Holds : Penalize(c, h)
    \/ PenalizePrimary(c) \/ PenalizeFallback(c)

Next ==
    \/ \E c \in Callers : CallerStep(c)
    \/ Outage
    \/ Tick

Spec == Init /\ [][Next]_vars

\* The steps a running caller takes without waiting for anyone.
Running(c) ==
    \/ Acquire(c) \/ PrimaryFails(c) \/ MarkUp(c) \/ MarkDown(c) \/ Notify(c) \/ Release(c)
    \/ PenalizePrimary(c) \/ PenalizeFallback(c)

\* Time passes, goroutines run, requests keep coming, and a backend that can
\* admit a caller again and again in the end does: not every caller hangs up.
Fairness ==
    /\ WF_vars(Tick)
    /\ \A c \in Callers : WF_vars(Running(c)) /\ SF_vars(PrimaryAdmits(c)) /\ SF_vars(FallbackAdmits(c))

FairSpec == Spec /\ Fairness

-----------------------------------------------------------------------------
(* Properties.                                                             *)

\* Every variable has its type.
TypeOK ==
    /\ reachable \in BOOLEAN /\ open \in BOOLEAN /\ gauge \in BOOLEAN
    /\ left \in 0..Cooldown
    /\ slots \in [Backends -> Nat]
    /\ held \in [Backends -> Nat]
    /\ pc \in [Callers -> States]
    /\ call \in [Callers -> [via : Backends, hold : Nat, down : BOOLEAN]]
    /\ owed \in Nat
    /\ spent \in [Callers -> 0..Cooldown]

\* The callers a backend has admitted and that have not released it.
AdmittedBy(b) ==
    {c \in Callers :
       \/ b = "primary" /\ pc[c] = "granted"
       \/ b = "primary" /\ pc[c] = "notifying" /\ ~call[c].down
       \/ call[c].via = b /\ pc[c] \in {"sending", "penalizing primary", "penalizing fallback"}}

\* A backend has handed out as many slots as it has callers, through every
\* failover in between: a release always goes to the backend that admitted.
SlotsBalanced == \A b \in Backends : slots[b] = Cardinality(AdmittedBy(b))

\* The fallback admits nobody while any Penalize that has returned holds the host
\* back, whichever backend served when the upstream asked for it.
FallbackWarm ==
    [][\A c \in Callers : FallbackAdmits(c) => owed = 0]_vars

\* A dead backend costs a caller at most one timeout per cooldown: having failed,
\* it asks Primary again only when a cooldown has passed or someone has found
\* Primary healthy.
OneTimeoutPerCooldown ==
    [][\A c \in Callers : pc[c] = "idle" /\ pc'[c] = "asking" => spent[c] = 0]_vars

\* Once the backend stays reachable and no upstream holds the host back any more,
\* the circuit closes and stays closed.
Recovers == <>[](reachable /\ held["primary"] = 0) => <>[]~open
=============================================================================
