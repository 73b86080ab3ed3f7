-------------------------- MODULE SearcherContract --------------------------
(***************************************************************************)
(* What any searcher promises whoever asks it, be it one upstream or a     *)
(* chain of them (domain.Searcher, internal/domain/searcher.go): one       *)
(* answer, no more results than asked for, at most one pacing slot held at *)
(* a time and none once answered, and no query sent for a caller that has  *)
(* gone.                                                                   *)
(***************************************************************************)
EXTENDS Naturals

VARIABLES
    phase,      \* "idle", "asked" or "done"
    live,       \* is the caller still there?
    slots,      \* pacing slots held
    spent,      \* queries sent upstream
    surplus     \* results returned beyond the caller's limit

vars == <<phase, live, slots, spent, surplus>>

Init ==
    /\ phase = "idle" /\ live = TRUE
    /\ slots = 0 /\ spent = 0 /\ surplus = 0

HangUp ==
    /\ live' = FALSE
    /\ UNCHANGED <<phase, slots, spent, surplus>>

Ask ==
    /\ phase = "idle" /\ phase' = "asked"
    /\ UNCHANGED <<live, slots, spent, surplus>>

TakeSlot ==
    /\ phase = "asked" /\ slots = 0 /\ slots' = 1
    /\ UNCHANGED <<phase, live, spent, surplus>>

GiveSlot ==
    /\ slots = 1 /\ slots' = 0
    /\ UNCHANGED <<phase, live, spent, surplus>>

Query ==
    /\ phase = "asked" /\ live /\ spent' = spent + 1
    /\ UNCHANGED <<phase, live, slots, surplus>>

Answer ==
    /\ phase # "done" /\ phase' = "done"
    /\ slots' = 0
    /\ UNCHANGED <<live, spent, surplus>>

Next == HangUp \/ Ask \/ TakeSlot \/ GiveSlot \/ Query \/ Answer

Spec == Init /\ [][Next]_vars
=============================================================================
