--------------------------- MODULE EngineContract ---------------------------
(***************************************************************************)
(* What a site engine promises the dispatcher and the limiter of its API   *)
(* (domain.Engine, internal/domain/document.go; httpx.Limiter): one slot   *)
(* for the whole crawl, requests under it only and for a caller that is    *)
(* still there, and no request left behind by the answer.                  *)
(***************************************************************************)
EXTENDS Integers

VARIABLES
    phase,      \* "idle", "crawling" or "done"
    live,       \* the caller is there and the engine's deadline has not passed
    slot,       \* the slot is held
    flight      \* requests in flight

vars == <<phase, live, slot, flight>>

Init ==
    /\ phase = "idle" /\ live = TRUE
    /\ slot = FALSE /\ flight = 0

HangUp ==
    /\ live' = FALSE
    /\ UNCHANGED <<phase, slot, flight>>

\* Requests leave while somebody waits for them; answers come in any number.
Requests ==
    /\ flight' \in Nat
    /\ flight' > flight => live
    /\ UNCHANGED live

Take ==
    /\ phase = "idle" /\ phase' = "crawling"
    /\ slot' = TRUE /\ Requests

Refuse ==
    /\ phase = "idle" /\ phase' = "done"
    /\ UNCHANGED <<live, slot, flight>>

Read == phase = "crawling" /\ Requests /\ UNCHANGED <<phase, slot>>

Answer ==
    /\ phase = "crawling" /\ phase' = "done"
    /\ flight = 0
    /\ slot' = FALSE
    /\ UNCHANGED <<live, flight>>

Next == HangUp \/ Take \/ Refuse \/ Read \/ Answer

Spec == Init /\ [][Next]_vars
=============================================================================
