-------------------------- MODULE PacedAdmissions --------------------------
(***************************************************************************)
(* What a pacing limiter promises the upstream, apart from how it keeps    *)
(* its state (the httpx.Limiter contract, internal/httpx/limiter_iface.go, *)
(* as the two limiters document it): admissions of one host are spaced,    *)
(* are held back for as long as anyone asked, and are at most Quota in any *)
(* rolling window.                                                         *)
(***************************************************************************)
EXTENDS Integers, Sequences

CONSTANTS
    MinDelay,   \* least time from one admission to the next
    Quota,      \* admissions per rolling window, 0 for no quota
    Window      \* width of that window

VARIABLES
    now,        \* the clock
    admits,     \* the instants of admission so far
    earliest    \* no admission before this instant

vars == <<now, admits, earliest>>

Init ==
    /\ now = 0
    /\ admits = <<>>
    /\ earliest = 0

\* The window has room for one more admission at this instant.
Room ==
    Quota > 0 /\ Len(admits) >= Quota =>
        now - admits[Len(admits) - Quota + 1] >= Window

Admit ==
    /\ now >= earliest
    /\ Room
    /\ admits' = Append(admits, now)
    /\ earliest' = now + MinDelay
    /\ UNCHANGED now

\* A completed request or an upstream's Retry-After holds the host back.
Hold ==
    /\ earliest' >= earliest
    /\ UNCHANGED <<now, admits>>

Tick ==
    /\ now' > now
    /\ UNCHANGED <<admits, earliest>>

Next == Admit \/ Hold \/ Tick

Spec == Init /\ [][Next]_vars
=============================================================================
