------------------------ MODULE DomainLimiterProofs ------------------------
(***************************************************************************)
(* What holds of the pacing limiter for every number of callers, every     *)
(* configuration and every length of run.  IInv is the inductive invariant *)
(* the theorems at the end rest on.                                        *)
(***************************************************************************)
EXTENDS DomainLimiter, SeqLemmas, FiniteSetTheorems

-----------------------------------------------------------------------------
(* The inductive invariant.                                                *)

\* The counters of the slot s count the callers that hold them.
Counted(s) ==
    /\ s.refs = Cardinality(In(HoldsRef))
    /\ s.sem = Cardinality(In(HoldsSem))

\* The slot s knows of the longest hold, unless that hold is over.
HoldKnown(s) == holdEnd <= s.notBefore \/ holdEnd < now

\* The slot s knows of the last completion, unless MinDelay has passed since;
\* the instant it was last used tells the sweep so.
DoneKnown(s) ==
    SpaceSends \/ /\ lastDone <= s.lastSend \/ lastDone + MinDelay <= now
                  /\ lastDone <= s.lastUsed \/ lastDone + MinDelay <= now

\* The slot s remembers everything a caller must wait for.
Faithful(s) ==
    /\ s \in Slots
    /\ Counted(s)
    /\ HoldKnown(s)
    /\ DoneKnown(s)
    /\ Ascending(s.booked)

IInv ==
    /\ TypeOK
    /\ Faithful(slot)
    /\ HeldSlotIsLive
    /\ ~mapped => slot = NewSlot
    /\ lastDone <= now
    /\ ObligationsMet

-----------------------------------------------------------------------------
(* The window's operators.                                                 *)

\* The idle age covers the minimum delay, and the zero time is older than anything.
LEMMA IdleType ==
    Idle \in Nat /\ Idle >= MinDelay /\ LongAgo \in Int /\ LongAgo < 0 - MinDelay
BY ConfigAssumption DEF Idle, LongAgo, Later

\* A fresh slot is well formed.
LEMMA NewSlotType == NewSlot \in Slots /\ Ascending(NewSlot.booked)
<1>1. <<>> \in Seq(Int) /\ Len(<<>>) = 0
    BY EmptySeq
<1>2. NewSlot \in Slots
    BY <1>1, IdleType, ConfigAssumption DEF NewSlot, Slots
<1>3. QED BY <1>1, <1>2 DEF NewSlot, Ascending

\* The instant a new caller is spaced to: an integer, not in the past, no less
\* than MinDelay after the last completion the slot knows of.
LEMMA SpacedBound ==
    ASSUME TypeOK, Faithful(slot)
    PROVE  /\ Spaced \in Int
           /\ Spaced >= now
           /\ ~SpaceSends => Spaced >= slot.lastSend + MinDelay
           /\ Constraining \in Seq(Int)
           /\ Ascending(Constraining)
           /\ SpaceSends /\ Constraining # <<>> => Last(Constraining) <= Spaced
<1>1. /\ now \in Nat /\ MinDelay \in Nat /\ slot.booked \in Seq(Int) /\ slot.lastSend \in Int
      /\ Ascending(slot.booked) /\ now - MinDelay \in Int
    BY ConfigAssumption DEF TypeOK, Faithful, Slots
<1>2. /\ Constraining \in Seq(Int) /\ Ascending(Constraining)
      /\ Constraining # <<>> => Last(Constraining) > now - MinDelay
    BY <1>1, EvictOfSeq DEF Constraining
<1>3. Constraining # <<>> => Last(Constraining) \in Int
    <2> SUFFICES ASSUME Constraining # <<>> PROVE Last(Constraining) \in Int
        OBVIOUS
    <2>1. Len(Constraining) \in 1..Len(Constraining)
        BY <1>2, EmptySeq
    <2>2. QED BY <1>2, <2>1, ElementOfSeq DEF Last
<1>4. CASE SpaceSends
    BY <1>1, <1>2, <1>3, <1>4 DEF Spaced
<1>5. CASE ~SpaceSends
    BY <1>1, <1>2, <1>5 DEF Spaced, Later
<1>6. QED BY <1>4, <1>5

\* The window grants no instant earlier than the one it is asked for.
LEMMA BookBound ==
    ASSUME NEW s \in Seq(Int), NEW at \in Int
    PROVE  /\ Book(s, at).sent \in Seq(Int)
           /\ Book(s, at).at \in Int
           /\ Book(s, at).at >= at
<1>1. CASE Quota = 0
    BY <1>1 DEF Book
<1>2. CASE Quota # 0
    <2> DEFINE live == Evict(s, at - Period)
               grant == Opening(live, at)
    <2>0. Quota \in Nat \ {0} /\ Period \in Nat
        BY <1>2, ConfigAssumption
    <2>1. live \in Seq(Int)
        BY <2>0, EvictOfSeq
    <2> HIDE DEF live
    <2>2. grant \in Int /\ grant >= at
        <3>1. CASE Len(live) >= Quota
            <4>1. Len(live) - Quota + 1 \in 1..Len(live)
                BY <2>0, <2>1, <3>1, LenProperties
            <4>2. live[Len(live) - Quota + 1] \in Int
                BY <2>1, <4>1, ElementOfSeq
            <4>3. QED BY <2>0, <3>1, <4>2 DEF Opening, Later
        <3>2. CASE ~(Len(live) >= Quota)
            BY <3>2 DEF Opening
        <3>3. QED BY <3>1, <3>2
    <2> HIDE DEF grant
    <2>3. Append(live, grant) \in Seq(Int)
        BY <2>1, <2>2, AppendProperties
    <2>4. Book(s, at) = [sent |-> Append(live, grant), at |-> grant]
        BY <1>2 DEF Book, live, grant
    <2>5. QED BY <2>2, <2>3, <2>4
<1>3. QED BY <1>1, <1>2

\* What reserve books: never before the spacing allows, the slot's hold ends or
\* the last completion it knows of is MinDelay old; and the bookings stay in order.
LEMMA BookingBound ==
    ASSUME TypeOK, Faithful(slot)
    PROVE  /\ Booking.sent \in Seq(Int)
           /\ Booking.at \in Int
           /\ Booking.at >= now
           /\ Booking.at >= slot.notBefore
           /\ ~SpaceSends => Booking.at >= slot.lastSend + MinDelay
           /\ SpaceSends => /\ Append(Constraining, Booking.at) \in Seq(Int)
                            /\ Ascending(Append(Constraining, Booking.at))
<1> DEFINE at == Later(Spaced, slot.notBefore)
<1>1. slot.sent \in Seq(Int) /\ slot.notBefore \in Int /\ slot.lastSend \in Int
      /\ now \in Nat /\ MinDelay \in Nat
    BY ConfigAssumption DEF TypeOK, Faithful, Slots
<1>2. at \in Int /\ at >= Spaced /\ at >= slot.notBefore
    BY <1>1, SpacedBound, LaterIsLater
<1>3. Booking = Book(slot.sent, at)
    BY DEF Booking
<1> HIDE DEF at
<1>4. Booking.sent \in Seq(Int) /\ Booking.at \in Int /\ Booking.at >= at
    BY <1>1, <1>2, <1>3, BookBound
<1>5. /\ Booking.at >= now /\ Booking.at >= slot.notBefore
      /\ ~SpaceSends => Booking.at >= slot.lastSend + MinDelay
    BY <1>1, <1>2, <1>4, SpacedBound
<1>6. ASSUME SpaceSends
      PROVE  /\ Append(Constraining, Booking.at) \in Seq(Int)
             /\ Ascending(Append(Constraining, Booking.at))
    <2>1. ASSUME Constraining # <<>> PROVE Last(Constraining) <= Booking.at
        <3>1. Len(Constraining) \in 1..Len(Constraining)
            BY <2>1, SpacedBound, EmptySeq
        <3>2. Last(Constraining) \in Int
            BY <3>1, SpacedBound, ElementOfSeq DEF Last
        <3>3. QED BY <1>2, <1>4, <1>6, <2>1, <3>2, SpacedBound
    <2>2. QED BY <1>4, <2>1, SpacedBound, AppendAscending
<1>7. QED BY <1>4, <1>5, <1>6

-----------------------------------------------------------------------------
(* Callers entering and leaving the sets the slot counts.                  *)

\* The callers that stand somewhere are finitely many.
LEMMA InFinite ==
    ASSUME NEW H
    PROVE  IsFiniteSet(In(H)) /\ Cardinality(In(H)) \in Nat
<1>1. In(H) \in SUBSET Callers
    BY DEF In
<1>2. IsFiniteSet(In(H))
    BY <1>1, FS_Subset, ConfigAssumption
<1>3. QED BY <1>2, FS_CardinalityType

\* When one caller moves, each count changes by what that caller holds.
LEMMA InMoved ==
    ASSUME pc \in [Callers -> States], NEW c \in Callers, NEW st,
           pc' = [pc EXCEPT ![c] = st], NEW H
    PROVE  /\ In(H)' = IF st \in H THEN In(H) \cup {c} ELSE In(H) \ {c}
           /\ Cardinality(In(H)) \in Nat /\ Cardinality(In(H))' \in Nat
           /\ Cardinality(In(H))' = CASE st \in H /\ pc[c] \notin H -> Cardinality(In(H)) + 1
                                      [] st \notin H /\ pc[c] \in H -> Cardinality(In(H)) - 1
                                      [] OTHER -> Cardinality(In(H))
<1>1. In(H)' = IF st \in H THEN In(H) \cup {c} ELSE In(H) \ {c}
    BY DEF In
<1>2. c \in In(H) <=> pc[c] \in H
    BY DEF In
<1>3. IsFiniteSet(In(H)) /\ Cardinality(In(H)) \in Nat
    BY InFinite
<1>4. CASE st \in H
    <2>1. /\ IsFiniteSet(In(H) \cup {c})
          /\ Cardinality(In(H) \cup {c}) = IF c \in In(H) THEN Cardinality(In(H))
                                           ELSE Cardinality(In(H)) + 1
        BY <1>3, FS_AddElement
    <2>2. Cardinality(In(H))' = Cardinality(In(H) \cup {c})
        BY <1>1, <1>4
    <2>3. QED BY <1>1, <1>2, <1>3, <1>4, <2>1, <2>2
<1>5. CASE st \notin H
    <2>1. /\ IsFiniteSet(In(H) \ {c})
          /\ Cardinality(In(H) \ {c}) = IF c \in In(H) THEN Cardinality(In(H)) - 1
                                        ELSE Cardinality(In(H))
        BY <1>3, FS_RemoveElement
    <2>2. Cardinality(In(H) \ {c}) \in Nat
        BY <2>1, FS_CardinalityType
    <2>3. Cardinality(In(H))' = Cardinality(In(H) \ {c})
        BY <1>1, <1>5
    <2>4. QED BY <1>1, <1>2, <1>3, <1>5, <2>1, <2>2, <2>3
<1>6. QED BY <1>4, <1>5

\* Nobody is admitted by a slot a sweep may drop.
LEMMA UnusedWhenDropped ==
    ASSUME IInv, ~mapped \/ Droppable
    PROVE  In(HoldsRef) = {} /\ In(HoldsSem) = {}
<1>1. In(HoldsRef) = {}
    <2>1. CASE ~mapped
        BY <2>1 DEF IInv, HeldSlotIsLive
    <2>2. CASE Droppable
        <3>1. Cardinality(In(HoldsRef)) = 0
            BY <2>2 DEF IInv, Faithful, Counted, Droppable
        <3>2. QED BY <3>1, InFinite, FS_EmptySet
    <2>3. QED BY <2>1, <2>2
<1>2. In(HoldsSem) \subseteq In(HoldsRef)
    BY DEF In, HoldsSem, HoldsRef
<1>3. QED BY <1>1, <1>2

\* A fresh slot forgets nothing that still matters: what the dropped one knew
\* is over.
LEMMA NewSlotFaithful ==
    ASSUME IInv, ~mapped \/ Droppable
    PROVE  Faithful(NewSlot)
<1>1. CASE ~mapped
    BY <1>1 DEF IInv
<1>2. CASE Droppable
    <2>1. Counted(NewSlot)
        BY UnusedWhenDropped, FS_EmptySet DEF Counted, NewSlot
    <2>2. /\ now \in Nat /\ holdEnd \in Int /\ lastDone \in Int /\ MinDelay \in Nat
          /\ slot.notBefore \in Int /\ slot.lastUsed \in Int
        BY ConfigAssumption DEF IInv, TypeOK, Slots
    <2>3. now - slot.lastUsed > Idle /\ now > slot.notBefore
        BY <1>2 DEF Droppable
    <2>4. HoldKnown(NewSlot)
        BY <2>2, <2>3 DEF IInv, Faithful, HoldKnown, NewSlot
    <2>5. DoneKnown(NewSlot)
        BY <2>2, <2>3, IdleType DEF IInv, Faithful, DoneKnown
    <2>6. QED BY <2>1, <2>4, <2>5, NewSlotType DEF Faithful
<1>3. QED BY <1>1, <1>2

\* The slot LoadOrStore leaves in the map.
Loaded == IF StillMapped THEN slot ELSE NewSlot

\* The slot LoadOrStore leaves in the map is faithful, kept or fresh.
LEMMA LoadedFaithful ==
    ASSUME IInv
    PROVE  /\ Faithful(Loaded)
           /\ ~StillMapped => In(HoldsRef) = {}
<1>1. CASE StillMapped
    BY <1>1 DEF Loaded, IInv
<1>2. CASE ~StillMapped
    <2>1. ~mapped \/ Droppable
        BY <1>2 DEF StillMapped
    <2>2. QED BY <1>2, <2>1, NewSlotFaithful, UnusedWhenDropped DEF Loaded
<1>3. QED BY <1>1, <1>2

\* The slot that was or is now in the map stays faithful while time passes and
\* the counts, the holds and the completions stay.
LEMMA FaithfulStays ==
    ASSUME IInv, slot' = slot \/ slot' = Loaded, now' \in Nat, now' >= now,
           Cardinality(In(HoldsRef))' = Cardinality(In(HoldsRef)),
           Cardinality(In(HoldsSem))' = Cardinality(In(HoldsSem)),
           UNCHANGED <<holdEnd, lastDone>>
    PROVE  Faithful(slot)'
<1>1. PICK s : s = slot' /\ Faithful(s)
    BY LoadedFaithful DEF IInv
<1>2. now \in Nat /\ holdEnd \in Int /\ lastDone \in Int /\ MinDelay \in Nat
    BY ConfigAssumption DEF IInv, TypeOK
<1>3. slot' \in Slots /\ Ascending(slot'.booked)
    BY <1>1 DEF Faithful
<1>4. Counted(slot)'
    BY <1>1 DEF Faithful, Counted
<1>5. HoldKnown(slot)'
    BY <1>1, <1>2, <1>3 DEF Faithful, HoldKnown, Slots
<1>6. DoneKnown(slot)'
    BY <1>1, <1>2, <1>3 DEF Faithful, DoneKnown, Slots
<1>7. Ascending(slot.booked)'
    BY <1>3 DEF Ascending
<1>8. QED BY <1>3, <1>4, <1>5, <1>6, <1>7 DEF Faithful

\* A step of one caller that keeps what the slot knows of holds and completions
\* keeps it faithful.
LEMMA FaithfulUpdated ==
    ASSUME IInv, slot' \in Slots, Ascending(slot.booked)', Counted(slot)',
           slot'.notBefore = slot.notBefore, slot'.lastSend = slot.lastSend,
           slot'.lastUsed \in {slot.lastUsed, now},
           UNCHANGED <<now, holdEnd, lastDone>>
    PROVE  Faithful(slot)'
<1>1. /\ now \in Nat /\ holdEnd \in Int /\ lastDone \in Int /\ MinDelay \in Nat
      /\ lastDone <= now
    BY ConfigAssumption DEF IInv, TypeOK
<1>2. HoldKnown(slot)'
    BY <1>1 DEF IInv, Faithful, HoldKnown
<1>3. DoneKnown(slot)'
    BY <1>1 DEF IInv, Faithful, DoneKnown
<1>4. QED BY <1>2, <1>3 DEF Faithful

-----------------------------------------------------------------------------
(* Each action preserves the invariant.                                    *)

\* The slot a caller holds is a slot, with callers on it to count.
LEMMA SlotType ==
    ASSUME IInv
    PROVE  /\ slot = [sem |-> slot.sem, lastSend |-> slot.lastSend, booked |-> slot.booked,
                      notBefore |-> slot.notBefore, sent |-> slot.sent, refs |-> slot.refs,
                      lastUsed |-> slot.lastUsed]
           /\ slot.sem \in 0..MaxConcurrent /\ slot.lastSend \in Int
           /\ slot.booked \in Seq(Int) /\ slot.notBefore \in Int /\ slot.sent \in Seq(Int)
           /\ slot.refs \in Nat /\ slot.lastUsed \in Int
           /\ Ascending(slot.booked)
           /\ now \in Nat /\ MinDelay \in Nat /\ MaxConcurrent \in Nat
BY ConfigAssumption DEF IInv, TypeOK, Faithful, Slots

\* Moving a caller changes a count by what the caller holds.
LEMMA CountKept ==
    ASSUME IInv, NEW c \in Callers, NEW st, pc' = [pc EXCEPT ![c] = st],
           NEW H, st \in H <=> pc[c] \in H
    PROVE  Cardinality(In(H))' = Cardinality(In(H))
<1>1. pc \in [Callers -> States]
    BY DEF IInv, TypeOK
<1>2. CASE st \in H
    BY <1>1, <1>2, InMoved
<1>3. CASE st \notin H
    BY <1>1, <1>3, InMoved
<1>4. QED BY <1>2, <1>3

\* A caller that joins a group of states counts one more ...
LEMMA CountUp ==
    ASSUME IInv, NEW c \in Callers, NEW st, pc' = [pc EXCEPT ![c] = st],
           NEW H, st \in H, pc[c] \notin H
    PROVE  Cardinality(In(H))' = Cardinality(In(H)) + 1
BY InMoved DEF IInv, TypeOK

\* ... and one that leaves it one less.
LEMMA CountDown ==
    ASSUME IInv, NEW c \in Callers, NEW st, pc' = [pc EXCEPT ![c] = st],
           NEW H, st \notin H, pc[c] \in H
    PROVE  /\ Cardinality(In(H))' = Cardinality(In(H)) - 1
           /\ Cardinality(In(H)) \in Nat \ {0}
<1>1. /\ Cardinality(In(H))' = Cardinality(In(H)) - 1
      /\ Cardinality(In(H)) \in Nat /\ Cardinality(In(H))' \in Nat
    BY InMoved DEF IInv, TypeOK
<1>2. QED BY <1>1

\* The limiter starts in the invariant.
LEMMA InitIInv == Init => IInv
<1> SUFFICES ASSUME Init PROVE IInv
    OBVIOUS
<1> USE DEF Init
<1>1. NewSlot \in Slots /\ Ascending(NewSlot.booked)
    BY NewSlotType
<1>2. \A H : "idle" \notin H => In(H) = {}
    BY DEF In
<1>3. In(HoldsRef) = {} /\ In(HoldsSem) = {} /\ In(Granted) = {}
    BY <1>2 DEF HoldsRef, HoldsSem, Granted, HoldsBooking
<1>4. TypeOK
    <2>1. calls \in Nat /\ sends \in Seq([at : Nat, booked : Int])
        BY EmptySeq
    <2>2. NoCall \in Locals
        BY DEF NoCall, Locals
    <2>3. QED BY <1>1, <2>1, <2>2, IdleType DEF TypeOK, States, Resting
<1>5. Counted(slot)
    BY <1>3, FS_EmptySet DEF Counted, NewSlot
<1>6. HoldKnown(slot) /\ DoneKnown(slot) /\ lastDone <= now
    BY IdleType, ConfigAssumption DEF HoldKnown, DoneKnown, NewSlot
<1>7. HeldSlotIsLive /\ ObligationsMet
    BY <1>3 DEF HeldSlotIsLive, ObligationsMet
<1>8. QED BY <1>1, <1>4, <1>5, <1>6, <1>7 DEF IInv, Faithful

\* What a caller holds in each state.
LEMMA Holding ==
    /\ "idle" \notin HoldsRef /\ "loaded" \notin HoldsRef /\ "queued" \in HoldsRef
    /\ "refusing" \in HoldsRef /\ "waiting" \in HoldsRef /\ "sending" \in HoldsRef
    /\ "idle" \notin HoldsSem /\ "loaded" \notin HoldsSem /\ "queued" \notin HoldsSem
    /\ "refusing" \in HoldsSem /\ "waiting" \in HoldsSem /\ "sending" \in HoldsSem
    /\ "idle" \notin Granted /\ "loaded" \notin Granted /\ "queued" \notin Granted
    /\ "refusing" \in Granted /\ "waiting" \in Granted /\ "sending" \in Granted
    /\ HoldsSem \subseteq HoldsRef /\ Granted \subseteq HoldsRef
    /\ {"idle", "loaded", "queued", "refusing", "waiting", "sending"} = States
BY DEF States, Resting, HoldsRef, HoldsSem, Granted, HoldsBooking

\* A caller that moves between states in which it holds the slot alike, or not at
\* all, leaves the other callers where they are.
LEMMA OthersStay ==
    ASSUME IInv, NEW c \in Callers, NEW st, pc' = [pc EXCEPT ![c] = st], NEW H
    PROVE  /\ \A d \in In(H)' : d = c \/ d \in In(H)
           /\ st \notin H => c \notin In(H)'
BY DEF In, IInv, TypeOK

\* slotFor's sweep and load drop no slot that is held or still owes a wait.
LEMMA ArriveIInv == ASSUME IInv, NEW c \in Callers, Arrive(c) PROVE IInv'
<1>1. /\ pc[c] = "idle" /\ pc' = [pc EXCEPT ![c] = "loaded"]
      /\ slot' = Loaded /\ mapped' = TRUE /\ gen' = (IF StillMapped THEN gen ELSE gen + 1)
      /\ lastSweep' \in Int /\ calls' \in Nat
      /\ UNCHANGED <<now, sends, holdEnd, lastDone>>
    BY DEF Arrive, Goto, LoadOrStore, Loaded, MaybeSweep, IInv, TypeOK
<1>2. call' \in [Callers -> Locals] /\ \A d \in Callers : d # c => call'[d] = call[d]
    <2>1. PICK b \in Budgets :
            call' = [call EXCEPT ![c].deadline = IF b = NoDeadline THEN b ELSE now + b,
                                 ![c].ptr = gen', ![c].since = now]
        BY DEF Arrive
    <2> DEFINE dl == IF b = NoDeadline THEN b ELSE now + b
    <2>2. dl \in Nat \cup {NoDeadline}
        BY ConfigAssumption DEF IInv, TypeOK
    <2>3. call' = [call EXCEPT ![c].deadline = dl, ![c].ptr = gen', ![c].since = now]
        BY <2>1
    <2> HIDE DEF dl
    <2>4. gen' \in Nat /\ now \in Nat /\ call \in [Callers -> Locals]
        BY <1>1 DEF IInv, TypeOK
    <2> DEFINE mine == [call[c] EXCEPT !.deadline = dl, !.ptr = gen', !.since = now]
    <2>5. mine \in Locals
        <3>1. call[c] \in Locals
            BY <2>4
        <3>2. QED BY <2>2, <2>4, <3>1 DEF Locals
    <2>6. call' = [call EXCEPT ![c] = mine]
        BY <2>3
    <2> HIDE DEF mine
    <2>7. QED BY <2>4, <2>5, <2>6
<1>3. Faithful(slot)'
    <2>1. /\ Cardinality(In(HoldsRef))' = Cardinality(In(HoldsRef))
          /\ Cardinality(In(HoldsSem))' = Cardinality(In(HoldsSem))
        BY <1>1, Holding, CountKept
    <2>2. QED BY <1>1, <2>1, SlotType, FaithfulStays
<1>4. TypeOK'
    <2>1. pc' \in [Callers -> States] /\ gen' \in Nat /\ slot' \in Slots
        BY <1>1, <1>3, Holding DEF IInv, TypeOK, Faithful
    <2>2. QED BY <1>1, <1>2, <2>1 DEF IInv, TypeOK
<1>5. HeldSlotIsLive'
    <2>1. \A d \in In(HoldsRef)' : d \in In(HoldsRef) /\ d # c
        BY <1>1, OthersStay, Holding
    <2>2. QED BY <1>1, <1>2, <2>1, LoadedFaithful DEF IInv, HeldSlotIsLive, In
<1>6. ObligationsMet'
    <2>1. \A d \in In(Granted)' :
            d \in In(Granted) /\ d # c
        BY <1>1, OthersStay, Holding
    <2>2. QED BY <1>2, <2>1 DEF IInv, ObligationsMet, In
<1>7. QED BY <1>1, <1>3, <1>4, <1>5, <1>6 DEF IInv

\* The reference a caller takes is one on the slot in the map.
LEMMA EnterSlotIInv == ASSUME IInv, NEW c \in Callers, EnterSlot(c) PROVE IInv'
<1>1. /\ pc[c] = "loaded" /\ pc' = [pc EXCEPT ![c] = "queued"]
      /\ mapped /\ call[c].ptr = gen
      /\ slot' = [slot EXCEPT !.refs = @ + 1]
      /\ UNCHANGED <<now, lastSweep, mapped, gen, call, calls, sends, holdEnd, lastDone>>
    BY DEF EnterSlot, Goto, history
<1>2. /\ slot' \in Slots /\ slot'.refs = slot.refs + 1 /\ slot'.sem = slot.sem
      /\ slot'.notBefore = slot.notBefore /\ slot'.lastSend = slot.lastSend
      /\ slot'.lastUsed = slot.lastUsed /\ slot'.booked = slot.booked
    <2>1. slot \in Slots
        BY DEF IInv, TypeOK
    <2>2. slot.refs + 1 \in Nat
        BY SlotType
    <2>3. slot' = [slot EXCEPT !.refs = slot.refs + 1]
        BY <1>1
    <2>4. QED BY <2>1, <2>2, <2>3 DEF Slots
<1>3. Counted(slot)'
    <2>1. /\ Cardinality(In(HoldsRef))' = Cardinality(In(HoldsRef)) + 1
          /\ Cardinality(In(HoldsSem))' = Cardinality(In(HoldsSem))
        BY <1>1, Holding, CountUp, CountKept
    <2>2. QED BY <1>2, <2>1 DEF Counted, IInv, Faithful
<1>4. Faithful(slot)'
    BY <1>1, <1>2, <1>3, SlotType, FaithfulUpdated DEF Ascending
<1>5. TypeOK'
    BY <1>1, <1>2, Holding DEF IInv, TypeOK
<1>6. HeldSlotIsLive'
    BY <1>1, OthersStay DEF IInv, HeldSlotIsLive
<1>7. ObligationsMet'
    <2>1. \A d \in In(Granted)' : d \in In(Granted)
        BY <1>1, OthersStay, Holding
    <2>2. QED BY <1>1, <2>1 DEF IInv, ObligationsMet
<1>8. QED BY <1>1, <1>4, <1>5, <1>6, <1>7 DEF IInv

\* A caller whose slot died finds the map with a fresh one, or none.
LEMMA RetryLoadIInv == ASSUME IInv, NEW c \in Callers, RetryLoad(c) PROVE IInv'
<1>1. /\ pc[c] = "loaded" /\ pc' = pc /\ mapped' = TRUE
      /\ gen' = (IF mapped THEN gen ELSE gen + 1)
      /\ slot' = (IF mapped THEN slot ELSE NewSlot)
      /\ call' = [call EXCEPT ![c].ptr = gen']
      /\ UNCHANGED <<now, lastSweep, calls, sends, holdEnd, lastDone>>
    BY DEF RetryLoad, history
<1>2. /\ gen' \in Nat /\ call' \in [Callers -> Locals]
      /\ \A d \in Callers : d # c => call'[d] = call[d]
    <2>1. gen' \in Nat
        BY <1>1 DEF IInv, TypeOK
    <2>2. call \in [Callers -> Locals]
        BY DEF IInv, TypeOK
    <2>3. QED BY <1>1, <2>1, <2>2 DEF Locals
<1>3. \A H : In(H)' = In(H)
    BY <1>1 DEF In
<1>4. Faithful(slot)'
    <2>1. slot' = slot \/ slot' = Loaded
        BY <1>1 DEF Loaded, StillMapped
    <2>2. /\ Cardinality(In(HoldsRef))' = Cardinality(In(HoldsRef))
          /\ Cardinality(In(HoldsSem))' = Cardinality(In(HoldsSem))
        BY <1>3
    <2>3. QED BY <1>1, <2>1, <2>2, SlotType, FaithfulStays
<1>5. TypeOK'
    BY <1>1, <1>2, <1>4 DEF IInv, TypeOK, Faithful
<1>6. c \notin In(HoldsRef) /\ c \notin In(Granted)
    BY <1>1, Holding DEF In
<1>7. HeldSlotIsLive'
    <2>1. ~mapped => In(HoldsRef) = {}
        BY UnusedWhenDropped
    <2>2. In(HoldsRef) \subseteq Callers
        BY DEF In
    <2>3. QED BY <1>1, <1>2, <1>3, <1>6, <2>1, <2>2 DEF IInv, HeldSlotIsLive
<1>8. ObligationsMet'
    <2>1. In(Granted) \subseteq Callers
        BY DEF In
    <2>2. QED BY <1>2, <1>3, <1>6, <2>1 DEF IInv, ObligationsMet
<1>9. QED BY <1>1, <1>4, <1>5, <1>7, <1>8 DEF IInv

\* A caller that returns leaves the other callers, and the slot they hold, alone.
LEMMA ReturnKeeps ==
    ASSUME IInv, NEW c \in Callers, Return(c), UNCHANGED <<mapped, gen>>
    PROVE  /\ pc' = [pc EXCEPT ![c] = "idle"]
           /\ pc' \in [Callers -> States] /\ call' \in [Callers -> Locals]
           /\ HeldSlotIsLive' /\ ObligationsMet'
           /\ pc[c] \in HoldsRef => mapped
<1>1. pc' = [pc EXCEPT ![c] = "idle"] /\ call' = [call EXCEPT ![c] = NoCall]
    BY DEF Return, Goto
<1>2. NoCall \in Locals
    BY DEF NoCall, Locals
<1>3. /\ pc' \in [Callers -> States] /\ call' \in [Callers -> Locals]
      /\ \A d \in Callers : d # c => call'[d] = call[d]
    BY <1>1, <1>2, Holding DEF IInv, TypeOK
<1>4. /\ \A d \in In(HoldsRef)' : d \in In(HoldsRef) /\ d # c /\ d \in Callers
      /\ \A d \in In(Granted)' : d \in In(Granted) /\ d # c /\ d \in Callers
    <2>1. \A H : In(H) \subseteq Callers
        BY DEF In
    <2>2. QED BY <1>1, <2>1, OthersStay, Holding
<1>5. HeldSlotIsLive' /\ ObligationsMet'
    BY <1>3, <1>4 DEF IInv, HeldSlotIsLive, ObligationsMet
<1>6. pc[c] \in HoldsRef => mapped
    BY DEF IInv, HeldSlotIsLive, In
<1>7. QED BY <1>1, <1>3, <1>5, <1>6

\* A caller that gives up in the queue drops its reference and nothing else.
LEMMA CancelQueuedIInv == ASSUME IInv, NEW c \in Callers, CancelQueued(c) PROVE IInv'
<1>1. /\ pc[c] = "queued" /\ Return(c) /\ slot' = Done(slot)
      /\ UNCHANGED <<now, lastSweep, mapped, gen, calls, sends, holdEnd, lastDone>>
    BY DEF CancelQueued, history
<1>2. /\ Cardinality(In(HoldsRef))' = slot.refs - 1 /\ slot.refs \in Nat \ {0}
      /\ Cardinality(In(HoldsSem))' = slot.sem
    BY <1>1, Holding, ReturnKeeps, CountDown, CountKept DEF IInv, Faithful, Counted
<1>3. /\ slot' \in Slots /\ slot'.refs = slot.refs - 1 /\ slot'.sem = slot.sem
      /\ slot'.notBefore = slot.notBefore /\ slot'.lastSend = slot.lastSend
      /\ slot'.lastUsed = now /\ slot'.booked = slot.booked
    <2>1. slot \in Slots /\ now \in Int
        BY DEF IInv, TypeOK
    <2>2. slot.refs - 1 \in Nat
        BY <1>2
    <2>3. slot' = [slot EXCEPT !.refs = slot.refs - 1, !.lastUsed = now]
        BY <1>1 DEF Done
    <2>4. QED BY <2>1, <2>2, <2>3 DEF Slots
<1>4. Faithful(slot)'
    BY <1>1, <1>2, <1>3, SlotType, FaithfulUpdated DEF Ascending, Counted
<1>5. TypeOK'
    BY <1>1, <1>3, ReturnKeeps DEF IInv, TypeOK
<1>6. mapped' /\ lastDone' <= now'
    BY <1>1, Holding, ReturnKeeps DEF IInv
<1>7. QED BY <1>1, <1>4, <1>5, <1>6, ReturnKeeps DEF IInv

\* A caller that leaves its booking hands back what it holds, once.
LEMMA WithdrawIInv ==
    ASSUME IInv, NEW c \in Callers, pc[c] \in HoldsBooking, Withdraw(c) PROVE IInv'
<1>1. /\ pc[c] \in HoldsRef /\ pc[c] \in HoldsSem
      /\ Return(c)
      /\ slot' = [Done(Unbook(slot, call[c].admitAt)) EXCEPT !.sem = @ - 1]
      /\ UNCHANGED <<now, lastSweep, mapped, gen, calls, sends, holdEnd, lastDone>>
    BY Holding DEF Withdraw, HoldsBooking, history
<1>2. /\ Cardinality(In(HoldsRef))' = slot.refs - 1 /\ slot.refs \in Nat \ {0}
      /\ Cardinality(In(HoldsSem))' = slot.sem - 1 /\ slot.sem \in Nat \ {0}
    BY <1>1, Holding, ReturnKeeps, CountDown DEF IInv, Faithful, Counted
<1>3. PICK b \in Seq(Int), s \in Seq(Int) :
        /\ Ascending(b)
        /\ Unbook(slot, call[c].admitAt) = [slot EXCEPT !.sent = s, !.booked = b]
    <2>1. /\ RemoveFirst(slot.sent, call[c].admitAt) \in Seq(Int)
          /\ RemoveFirst(slot.booked, call[c].admitAt) \in Seq(Int)
          /\ Ascending(RemoveFirst(slot.booked, call[c].admitAt))
        BY SlotType, RemoveFirstOfSeq
    <2>2. CASE SpaceSends
        BY <2>1, <2>2, SlotType DEF Unbook, Forget
    <2>3. CASE ~SpaceSends
        BY <2>1, <2>3, SlotType DEF Unbook, Forget
    <2>4. QED BY <2>2, <2>3
<1>4. /\ slot' \in Slots /\ slot'.refs = slot.refs - 1 /\ slot'.sem = slot.sem - 1
      /\ slot'.notBefore = slot.notBefore /\ slot'.lastSend = slot.lastSend
      /\ slot'.lastUsed = now /\ slot'.booked = b
    <2>1. slot \in Slots /\ now \in Int /\ slot.sem - 1 \in 0..MaxConcurrent
        <3>1. slot \in Slots /\ now \in Int
            BY DEF IInv, TypeOK
        <3>2. slot.sem \in 0..MaxConcurrent /\ MaxConcurrent \in Nat
            BY SlotType
        <3>3. QED BY <1>2, <3>1, <3>2
    <2>2. slot' = [slot EXCEPT !.sent = s, !.booked = b, !.refs = slot.refs - 1,
                               !.lastUsed = now, !.sem = slot.sem - 1]
        BY <1>1, <1>3, <2>1 DEF Done, Slots
    <2>3. slot.refs - 1 \in Nat
        BY <1>2
    <2>4. QED BY <1>3, <2>1, <2>2, <2>3 DEF Slots
<1>5. Faithful(slot)'
    BY <1>1, <1>2, <1>3, <1>4, SlotType, FaithfulUpdated DEF Ascending, Counted
<1>6. TypeOK'
    BY <1>1, <1>4, ReturnKeeps DEF IInv, TypeOK
<1>7. mapped' /\ lastDone' <= now'
    BY <1>1, Holding, ReturnKeeps DEF IInv
<1>8. QED BY <1>1, <1>5, <1>6, <1>7, ReturnKeeps DEF IInv

\* A release records the completion in the slot that paces the host.
LEMMA ReleaseIInv == ASSUME IInv, NEW c \in Callers, Release(c) PROVE IInv'
<1>1. /\ pc[c] = "sending" /\ Return(c) /\ lastDone' = now
      /\ slot' = [Done(slot) EXCEPT !.lastSend = IF SpaceSends THEN @ ELSE now, !.sem = @ - 1]
      /\ UNCHANGED <<now, lastSweep, mapped, gen, calls, sends, holdEnd>>
    BY DEF Release
<1>2. /\ Cardinality(In(HoldsRef))' = slot.refs - 1 /\ slot.refs \in Nat \ {0}
      /\ Cardinality(In(HoldsSem))' = slot.sem - 1 /\ slot.sem \in Nat \ {0}
    BY <1>1, Holding, ReturnKeeps, CountDown DEF IInv, Faithful, Counted
<1>3. /\ slot' \in Slots /\ slot'.refs = slot.refs - 1 /\ slot'.sem = slot.sem - 1
      /\ slot'.notBefore = slot.notBefore /\ slot'.booked = slot.booked
      /\ slot'.lastUsed = now
      /\ ~SpaceSends => slot'.lastSend = now
    <2>1. slot \in Slots /\ now \in Int /\ slot.sem - 1 \in 0..MaxConcurrent
        <3>1. slot \in Slots /\ now \in Int
            BY DEF IInv, TypeOK
        <3>2. slot.sem \in 0..MaxConcurrent /\ MaxConcurrent \in Nat
            BY SlotType
        <3>3. QED BY <1>2, <3>1, <3>2
    <2>2. PICK l \in Int :
            /\ ~SpaceSends => l = now
            /\ slot' = [slot EXCEPT !.refs = slot.refs - 1, !.lastUsed = now,
                                    !.lastSend = l, !.sem = slot.sem - 1]
        BY <1>1, <2>1 DEF Done, Slots
    <2>3. slot.refs - 1 \in Nat
        BY <1>2
    <2>4. QED BY <2>1, <2>2, <2>3 DEF Slots
<1>4. Faithful(slot)'
    <2>1. Counted(slot)'
        BY <1>2, <1>3 DEF Counted
    <2>2. HoldKnown(slot)'
        BY <1>1, <1>3 DEF IInv, Faithful, HoldKnown
    <2>3. DoneKnown(slot)'
        BY <1>1, <1>3, SlotType DEF DoneKnown
    <2>4. Ascending(slot.booked)'
        BY <1>3, SlotType DEF Ascending
    <2>5. QED BY <1>3, <2>1, <2>2, <2>3, <2>4 DEF Faithful
<1>5. TypeOK'
    BY <1>1, <1>3, ReturnKeeps DEF IInv, TypeOK
<1>6. mapped' /\ lastDone' <= now'
    BY <1>1, SlotType, Holding, ReturnKeeps
<1>7. QED BY <1>1, <1>4, <1>5, <1>6, ReturnKeeps DEF IInv

\* What a caller books meets what it owes.
LEMMA BookingMeets ==
    ASSUME IInv
    PROVE  LET owed == Later(holdEnd, IF SpaceSends THEN now ELSE lastDone + MinDelay)
           IN  owed \in Int /\ Booking.at >= owed
<1> DEFINE done == IF SpaceSends THEN now ELSE lastDone + MinDelay
<1>1. /\ now \in Nat /\ MinDelay \in Nat /\ holdEnd \in Int /\ lastDone \in Int
      /\ slot.notBefore \in Int /\ slot.lastSend \in Int
    BY SlotType DEF IInv, TypeOK
<1>2. /\ Booking.at \in Int /\ Booking.at >= now /\ Booking.at >= slot.notBefore
      /\ ~SpaceSends => Booking.at >= slot.lastSend + MinDelay
    BY BookingBound DEF IInv
<1>3. Booking.at >= holdEnd
    BY <1>1, <1>2 DEF IInv, Faithful, HoldKnown
<1>4. done \in Int /\ Booking.at >= done
    BY <1>1, <1>2 DEF IInv, Faithful, DoneKnown
<1>5. QED BY <1>1, <1>2, <1>3, <1>4 DEF Later

\* A caller that books meets everything owed when it does.
LEMMA ReserveIInv == ASSUME IInv, NEW c \in Callers, Reserve(c) PROVE IInv'
<1> DEFINE owed == Later(holdEnd, IF SpaceSends THEN now ELSE lastDone + MinDelay)
<1>1. PICK j \in JitterFor(Booking.at), st \in {"refusing", "waiting", "sending"} :
        /\ call' = [call EXCEPT ![c].admitAt = Booking.at, ![c].wakeAt = Booking.at + j,
                                ![c].since = now, ![c].owed = owed]
        /\ pc' = [pc EXCEPT ![c] = st]
        /\ sends' = sends \/ sends' = Append(sends, [at |-> now, booked |-> now])
    BY DEF Reserve, Goto, Record
<1>2. /\ pc[c] = "queued" /\ slot.sem < MaxConcurrent
      /\ slot' = [slot EXCEPT !.sem = @ + 1, !.sent = Booking.sent,
                              !.booked = IF SpaceSends THEN Append(Constraining, Booking.at)
                                         ELSE @]
      /\ UNCHANGED <<now, lastSweep, mapped, gen, calls, holdEnd, lastDone>>
    BY DEF Reserve
<1>3. Booking.at \in Int /\ Booking.sent \in Seq(Int) /\ owed \in Int /\ Booking.at >= owed
    BY BookingBound, BookingMeets DEF IInv
<1>4. PICK b \in Seq(Int) :
        /\ Ascending(b)
        /\ slot' = [slot EXCEPT !.sem = @ + 1, !.sent = Booking.sent, !.booked = b]
    <2>1. CASE SpaceSends
        BY <1>2, <2>1, BookingBound DEF IInv
    <2>2. CASE ~SpaceSends
        BY <1>2, <2>2, SlotType
    <2>3. QED BY <2>1, <2>2
<1> HIDE DEF owed
<1>5. /\ call' \in [Callers -> Locals]
      /\ call'[c].admitAt = Booking.at /\ call'[c].owed = owed
      /\ call'[c].ptr = call[c].ptr
      /\ \A d \in Callers : d # c => call'[d] = call[d]
    <2>1. Booking.at + j \in Int
        BY <1>3, ConfigAssumption DEF JitterFor
    <2>2. call \in [Callers -> Locals] /\ now \in Nat
        BY DEF IInv, TypeOK
    <2> DEFINE mine == [call[c] EXCEPT !.admitAt = Booking.at, !.wakeAt = Booking.at + j,
                                     !.since = now, !.owed = owed]
    <2>3. call' = [call EXCEPT ![c] = mine]
        BY <1>1
    <2>4. call[c] \in Locals
        BY <2>2
    <2>5. mine \in Locals /\ mine.admitAt = Booking.at /\ mine.owed = owed /\ mine.ptr = call[c].ptr
        BY <1>3, <2>1, <2>2, <2>4 DEF Locals
    <2> HIDE DEF mine
    <2>6. call' \in [Callers -> Locals] /\ call'[c] = mine /\ \A d \in Callers : d # c => call'[d] = call[d]
        BY <2>2, <2>3, <2>5
    <2>7. QED BY <2>5, <2>6
<1>6. /\ Cardinality(In(HoldsRef))' = slot.refs
      /\ Cardinality(In(HoldsSem))' = slot.sem + 1
    <2>1. st \in HoldsRef /\ st \in HoldsSem
        BY <1>1, Holding
    <2>2. pc[c] \in HoldsRef /\ pc[c] \notin HoldsSem
        BY <1>2, Holding
    <2>3. Cardinality(In(HoldsRef))' = Cardinality(In(HoldsRef))
        BY <1>1, <2>1, <2>2, CountKept
    <2>4. Cardinality(In(HoldsSem))' = Cardinality(In(HoldsSem)) + 1
        BY <1>1, <2>1, <2>2, CountUp
    <2>5. QED BY <2>3, <2>4 DEF IInv, Faithful, Counted
<1>7. /\ slot' \in Slots /\ slot'.refs = slot.refs /\ slot'.sem = slot.sem + 1
      /\ slot'.notBefore = slot.notBefore /\ slot'.lastSend = slot.lastSend
      /\ slot'.lastUsed = slot.lastUsed /\ slot'.booked = b
    <2>1. slot \in Slots
        BY DEF IInv, TypeOK
    <2>2. slot.sem + 1 \in 0..MaxConcurrent
        BY <1>2, SlotType
    <2>3. QED BY <1>3, <1>4, <2>1, <2>2 DEF Slots
<1>8. Faithful(slot)'
    BY <1>2, <1>4, <1>6, <1>7, SlotType, FaithfulUpdated DEF Ascending, Counted
<1>9. TypeOK'
    <2>1. pc' \in [Callers -> States]
        BY <1>1, Holding DEF IInv, TypeOK
    <2>2. sends' \in Seq([at : Nat, booked : Int])
        <3>1. sends \in Seq([at : Nat, booked : Int])
            BY DEF IInv, TypeOK
        <3>2. [at |-> now, booked |-> now] \in [at : Nat, booked : Int]
            BY DEF IInv, TypeOK
        <3>3. Append(sends, [at |-> now, booked |-> now]) \in Seq([at : Nat, booked : Int])
            BY <3>1, <3>2, AppendProperties
        <3>4. QED BY <1>1, <3>1, <3>3
    <2>3. QED BY <1>2, <1>5, <1>7, <2>1, <2>2 DEF IInv, TypeOK
<1>10. \A H : In(H) \subseteq Callers /\ In(H)' \subseteq Callers
    BY DEF In
<1>11. c \in In(HoldsRef)
    BY <1>2, Holding DEF In
<1>12. HeldSlotIsLive'
    <2>1. \A d \in In(HoldsRef)' : d \in In(HoldsRef)
        BY <1>1, <1>11, OthersStay
    <2>2. \A d \in Callers : call'[d].ptr = call[d].ptr
        BY <1>5
    <2>3. QED BY <1>2, <1>10, <2>1, <2>2 DEF IInv, HeldSlotIsLive
<1>13. ObligationsMet'
    <2>1. \A d \in In(Granted)' : d \in Callers /\ (d = c \/ d \in In(Granted))
        BY <1>1, <1>10, OthersStay
    <2>2. QED BY <1>3, <1>5, <2>1 DEF IInv, ObligationsMet
<1>14. mapped' /\ lastDone' <= now'
    BY <1>2, <1>11 DEF IInv, HeldSlotIsLive
<1>15. QED BY <1>8, <1>9, <1>12, <1>13, <1>14 DEF IInv

\* A caller that sends keeps its semaphore and its reference.
LEMMA WakeIInv == ASSUME IInv, NEW c \in Callers, Wake(c) PROVE IInv'
<1>1. /\ pc[c] = "waiting" /\ pc' = [pc EXCEPT ![c] = "sending"]
      /\ call' = [call EXCEPT ![c].since = now]
      /\ sends' = Append(sends, [at |-> now, booked |-> call[c].admitAt])
      /\ UNCHANGED <<now, lastSweep, mapped, gen, slot, calls, holdEnd, lastDone>>
    BY DEF Wake, Goto, Record, slotVars
<1>2. now \in Nat /\ call \in [Callers -> Locals]
    BY DEF IInv, TypeOK
<1>3. /\ call' \in [Callers -> Locals]
      /\ \A d \in Callers : /\ call'[d].ptr = call[d].ptr
                             /\ call'[d].admitAt = call[d].admitAt
                             /\ call'[d].owed = call[d].owed
    BY <1>1, <1>2 DEF Locals
<1>4. Faithful(slot)'
    <2>1. /\ Cardinality(In(HoldsRef))' = Cardinality(In(HoldsRef))
          /\ Cardinality(In(HoldsSem))' = Cardinality(In(HoldsSem))
        BY <1>1, Holding, CountKept
    <2>2. QED BY <1>1, <1>2, <2>1, FaithfulStays
<1>5. TypeOK'
    <2>1. sends' \in Seq([at : Nat, booked : Int])
        <3>1. sends \in Seq([at : Nat, booked : Int])
            BY DEF IInv, TypeOK
        <3>2. [at |-> now, booked |-> call[c].admitAt] \in [at : Nat, booked : Int]
            BY <1>2 DEF Locals
        <3>3. QED BY <1>1, <3>1, <3>2, AppendProperties
    <2>2. QED BY <1>1, <1>3, <2>1, Holding DEF IInv, TypeOK
<1>6. /\ \A d \in In(HoldsRef)' : d \in In(HoldsRef) /\ d \in Callers
      /\ \A d \in In(Granted)' : d \in In(Granted) /\ d \in Callers
    <2>1. \A H : In(H)' \subseteq Callers
        BY DEF In
    <2>2. c \in In(HoldsRef) /\ c \in In(Granted)
        BY <1>1, Holding DEF In
    <2>3. QED BY <1>1, <2>1, <2>2, OthersStay
<1>7. HeldSlotIsLive' /\ ObligationsMet'
    BY <1>1, <1>3, <1>6 DEF IInv, HeldSlotIsLive, ObligationsMet
<1>8. QED BY <1>1, <1>4, <1>5, <1>7 DEF IInv

\* A step that moves no caller keeps what is said of the callers.
LEMMA CallersStand ==
    ASSUME IInv, UNCHANGED <<pc, call>>, StillMapped => mapped' /\ gen' = gen
    PROVE  HeldSlotIsLive' /\ ObligationsMet'
<1>1. \A H : In(H)' = In(H)
    BY DEF In
<1>2. ~StillMapped => In(HoldsRef) = {}
    BY LoadedFaithful
<1>3. ObligationsMet'
    BY <1>1 DEF IInv, ObligationsMet
<1>4. HeldSlotIsLive'
    BY <1>1, <1>2 DEF IInv, HeldSlotIsLive
<1>5. QED BY <1>3, <1>4

\* A Retry-After reaches the slot later callers will find.
LEMMA PenalizeIInv == ASSUME IInv, NEW h \in Holds, Penalize(h) PROVE IInv'
<1>1. /\ lastSweep' \in Int /\ mapped' = TRUE
      /\ gen' = (IF StillMapped THEN gen ELSE gen + 1)
      /\ slot' = [Loaded EXCEPT !.notBefore = Later(@, now + h), !.lastUsed = now]
      /\ holdEnd' = Later(holdEnd, now + h)
      /\ UNCHANGED <<now, pc, call, calls, sends, lastDone>>
    BY DEF Penalize, MaybeSweep, Loaded, callerVars, IInv, TypeOK
<1>2. PICK s \in Slots : s = Loaded /\ Faithful(s)
    BY LoadedFaithful DEF Faithful
<1>3. now \in Nat /\ h \in Nat /\ holdEnd \in Int /\ lastDone \in Int /\ MinDelay \in Nat
    BY ConfigAssumption DEF IInv, TypeOK
<1>4. PICK n \in Int : /\ n >= s.notBefore /\ n >= now + h
                       /\ slot' = [s EXCEPT !.notBefore = n, !.lastUsed = now]
    <2>1. s.notBefore \in Int /\ now + h \in Int
        BY <1>3 DEF Slots
    <2>2. /\ Later(s.notBefore, now + h) \in Int
          /\ Later(s.notBefore, now + h) >= s.notBefore
          /\ Later(s.notBefore, now + h) >= now + h
        BY <2>1, LaterIsLater
    <2>3. QED BY <1>1, <1>2, <2>2
<1>5. /\ slot' \in Slots /\ slot'.refs = s.refs /\ slot'.sem = s.sem /\ slot'.notBefore = n
      /\ slot'.lastSend = s.lastSend /\ slot'.lastUsed = now /\ slot'.booked = s.booked
    <2>1. now \in Int
        BY <1>3
    <2>2. QED BY <1>4, <2>1 DEF Slots
<1>6. Faithful(slot)'
    <2>1. Counted(slot)'
        BY <1>1, <1>2, <1>5 DEF Counted, Faithful, In
    <2>2. HoldKnown(slot)'
        <3>1. holdEnd <= s.notBefore \/ holdEnd < now
            BY <1>2 DEF HoldKnown, Faithful
        <3>2. holdEnd' <= n \/ holdEnd' < now
            BY <1>1, <1>3, <1>4, <3>1 DEF Later, Slots
        <3>3. QED BY <1>1, <1>5, <3>2 DEF HoldKnown
    <2>3. DoneKnown(slot)'
        BY <1>1, <1>2, <1>3, <1>5 DEF DoneKnown, Faithful, IInv
    <2>4. Ascending(slot.booked)'
        BY <1>2, <1>5 DEF Faithful, Ascending
    <2>5. QED BY <1>5, <2>1, <2>2, <2>3, <2>4 DEF Faithful
<1>7. TypeOK'
    BY <1>1, <1>3, <1>5 DEF IInv, TypeOK, Later
<1>8. QED BY <1>1, <1>6, <1>7, CallersStand DEF IInv

\* Another host's sweep drops no slot that is held or still owes a wait.
LEMMA OtherHostCallIInv == ASSUME IInv, OtherHostCall PROVE IInv'
<1>1. /\ SweepDue /\ lastSweep' = now /\ mapped' = StillMapped /\ slot' = Loaded
      /\ ~mapped' => slot' = NewSlot
      /\ UNCHANGED <<now, gen, pc, call, calls, sends, holdEnd, lastDone>>
    BY DEF OtherHostCall, StillMapped, Loaded, callerVars, history, IInv, TypeOK
<1>2. Faithful(slot)'
    <2>1. /\ Cardinality(In(HoldsRef))' = Cardinality(In(HoldsRef))
          /\ Cardinality(In(HoldsSem))' = Cardinality(In(HoldsSem))
        BY <1>1 DEF In
    <2>2. QED BY <1>1, <2>1, SlotType, FaithfulStays
<1>3. TypeOK'
    BY <1>1, <1>2 DEF IInv, TypeOK, Faithful, StillMapped
<1>4. QED BY <1>1, <1>2, <1>3, CallersStand DEF IInv

\* What a slot must remember grows no older than it may by waiting.
LEMMA TimePassesIInv ==
    ASSUME IInv, now' \in Nat, now' >= now, UNCHANGED <<slotVars, callerVars, history>>
    PROVE  IInv'
<1>1. UNCHANGED <<lastSweep, mapped, gen, slot, pc, call, calls, sends, holdEnd, lastDone>>
    BY DEF slotVars, callerVars, history
<1>2. \A H : In(H)' = In(H)
    BY <1>1 DEF In
<1>3. Faithful(slot)'
    BY <1>1, <1>2, FaithfulStays
<1>4. TypeOK'
    BY <1>1 DEF IInv, TypeOK
<1>5. HeldSlotIsLive' /\ ObligationsMet'
    BY <1>1, <1>2 DEF IInv, HeldSlotIsLive, ObligationsMet
<1>6. lastDone' <= now'
    BY <1>1, SlotType DEF IInv, TypeOK
<1>7. QED BY <1>1, <1>3, <1>4, <1>5, <1>6 DEF IInv

-----------------------------------------------------------------------------
(* What the bookings keep.                                                 *)

\* The callers whose booking is an instant of V, and the requests that went out
\* with one.
Held(V) == {c \in In(HoldsBooking) : call[c].admitAt \in V}
Went(V) == {i \in DOMAIN sends : sends[i].booked \in V}

\* The bookings of V that stand, or that a request used up.
Standing(V) == Cardinality(Held(V)) + Cardinality(Went(V))

After(x) == {v \in Int : v > x}
From(x) == {v \in Int : v >= x}
Within(v) == {w \in Int : v - Period < w /\ w <= v}

\* The instant the window is asked for.
Asked == Later(Spaced, slot.notBefore)

\* A timer fires no earlier than the booking, and at it when sends are spaced.
Timers ==
    \A c \in In(HoldsBooking) :
      /\ call[c].admitAt <= call[c].wakeAt
      /\ SpaceSends => call[c].wakeAt = call[c].admitAt /\ now <= call[c].admitAt

\* Requests go out one after the other, none before its booking.
SendsPast ==
    /\ \A i \in DOMAIN sends : sends[i].booked <= sends[i].at /\ sends[i].at <= now
    /\ \A i, j \in DOMAIN sends : i < j => sends[i].at <= sends[j].at

\* Once nothing is in flight the slot was used after the last request went out,
\* or that request is older than the idle age.
UseKnown ==
    In({"sending"}) = {} =>
      \A i \in DOMAIN sends : sends[i].at <= slot.lastUsed \/ sends[i].at + Idle <= now

\* The slot's last completion is past, and gap mode keeps no spacing bookings.
SlotPast == slot.lastSend <= now /\ (~SpaceSends => slot.booked = <<>>)

\* Every booking of a future instant in s is some caller's.
Backed(s) ==
    \A v \in Int : v > now => Cardinality(Hits(s, {v})) <= Cardinality(Held({v}))

\* Send-spaced: bookings and sends stand MinDelay apart, and the slot remembers
\* every one that can still constrain a new caller.
GapsKept ==
    SpaceSends /\ MinDelay > 0 =>
      /\ \A c, d \in In(HoldsBooking) :
            c # d => \/ call[c].admitAt - call[d].admitAt >= MinDelay
                     \/ call[d].admitAt - call[c].admitAt >= MinDelay
      /\ \A c \in In(HoldsBooking) : Hits(slot.booked, {call[c].admitAt}) # {}
      /\ \A c \in In(HoldsBooking) : \A i \in DOMAIN sends :
            call[c].admitAt - sends[i].at >= MinDelay
      /\ \A i \in DOMAIN sends :
            Hits(slot.booked, {sends[i].at}) # {} \/ sends[i].at + MinDelay <= now
      /\ \A i, j \in DOMAIN sends : i < j => sends[j].at - sends[i].at >= MinDelay

\* The window is in order and has every booking that can still constrain a new
\* caller, no Period holds more than Quota of them, and a booking later than what
\* was asked for was put off by a full window.
QuotaKept ==
    BookingsInOrder /\ Quota > 0 =>
      /\ Ascending(slot.sent)
      /\ \A V \in SUBSET After(Asked - Period) : Standing(V) <= Cardinality(Hits(slot.sent, V))
      /\ \A v \in Int : Standing(Within(v)) <= Quota
      /\ \A c \in In(HoldsBooking) :
            \/ call[c].admitAt <= Asked
            \/ Cardinality(Hits(slot.sent, From(call[c].admitAt - Period)))
                  >= Quota - 1 + Cardinality(In(HoldsBooking))

Bookings ==
    /\ Timers /\ SendsPast /\ UseKnown /\ SlotPast
    /\ Backed(slot.sent) /\ Backed(slot.booked)
    /\ GapsKept
    /\ QuotaKept

BInv == IInv /\ Bookings

-----------------------------------------------------------------------------
(* Counting the bookings.                                                  *)

\* What the callers and the history say of instants.
LEMMA InstantsType ==
    ASSUME IInv
    PROVE  /\ DOMAIN sends = 1..Len(sends) /\ Len(sends) \in Nat
           /\ \A i \in DOMAIN sends : sends[i].at \in Nat /\ sends[i].booked \in Int
           /\ \A c \in In(HoldsBooking) : /\ c \in Callers
                                          /\ call[c].admitAt \in Int /\ call[c].wakeAt \in Int
<1>1. call \in [Callers -> Locals] /\ sends \in Seq([at : Nat, booked : Int])
    BY DEF IInv, TypeOK
<1>2. DOMAIN sends = 1..Len(sends) /\ Len(sends) \in Nat
    BY <1>1, LenProperties
<1>3. \A i \in 1..Len(sends) : sends[i] \in [at : Nat, booked : Int]
    BY <1>1, ElementOfSeq
<1>4. \A c \in In(HoldsBooking) : /\ c \in Callers
                                 /\ call[c].admitAt \in Int /\ call[c].wakeAt \in Int
    BY <1>1 DEF In, Locals
<1>5. QED BY <1>2, <1>3, <1>4

\* The bookings there are to count are finitely many.
LEMMA CountsType ==
    ASSUME IInv, NEW V
    PROVE  /\ IsFiniteSet(Held(V)) /\ Cardinality(Held(V)) \in Nat
           /\ IsFiniteSet(Went(V)) /\ Cardinality(Went(V)) \in Nat
<1>1. IsFiniteSet(Held(V))
    <2>1. Held(V) \in SUBSET Callers
        BY InstantsType DEF Held
    <2>2. QED BY <2>1, FS_Subset, ConfigAssumption
<1>2. IsFiniteSet(Went(V))
    <2>1. IsFiniteSet(1..Len(sends))
        BY InstantsType, FS_Interval
    <2>2. Went(V) \in SUBSET (1..Len(sends))
        BY InstantsType DEF Went
    <2>3. QED BY <2>1, <2>2, FS_Subset
<1>3. QED BY <1>1, <1>2, FS_CardinalityType

\* What is asked for is never in the past.
LEMMA AskedType == ASSUME IInv PROVE Asked \in Int /\ Asked >= now
<1>1. Spaced \in Int /\ Spaced >= now
    BY SpacedBound DEF IInv
<1>2. now \in Nat /\ slot.notBefore \in Int
    BY SlotType
<1>3. Asked \in Int /\ Asked >= Spaced
    BY <1>1, <1>2, LaterIsLater DEF Asked
<1>4. QED BY <1>1, <1>2, <1>3

\* In gap mode what is asked for never goes back.
LEMMA AskedAdvances ==
    ASSUME IInv, IInv', ~SpaceSends, now' >= now,
           slot'.lastSend >= slot.lastSend, slot'.notBefore >= slot.notBefore
    PROVE  /\ Asked \in Int /\ Asked' \in Int /\ Asked' >= Asked
           /\ UNCHANGED <<now, slot.lastSend, slot.notBefore>> => Asked' = Asked
<1>1. /\ now \in Nat /\ now' \in Nat /\ MinDelay \in Nat
      /\ slot.lastSend \in Int /\ slot.notBefore \in Int
      /\ slot'.lastSend \in Int /\ slot'.notBefore \in Int
    BY SlotType DEF IInv, TypeOK, Slots
<1>2. /\ Asked = Later(Later(now, slot.lastSend + MinDelay), slot.notBefore)
      /\ Asked' = Later(Later(now', slot'.lastSend + MinDelay), slot'.notBefore)
    BY DEF Asked, Spaced
<1>3. QED BY <1>1, <1>2 DEF Later

\* The bookings of a larger set of instants are no fewer.
LEMMA StandingMonotone ==
    ASSUME IInv, NEW V, NEW W,
           \A c \in In(HoldsBooking) : call[c].admitAt \in V => call[c].admitAt \in W,
           \A i \in DOMAIN sends : sends[i].booked \in V => sends[i].booked \in W
    PROVE  /\ Standing(V) \in Nat /\ Standing(W) \in Nat
           /\ Standing(V) <= Standing(W)
<1>1. Held(V) \in SUBSET Held(W) /\ Went(V) \in SUBSET Went(W)
    BY DEF Held, Went
<1>2. Cardinality(Held(V)) <= Cardinality(Held(W)) /\ Cardinality(Went(V)) <= Cardinality(Went(W))
    BY <1>1, CountsType, FS_Subset
<1>3. QED BY <1>2, CountsType DEF Standing

\* What bookings there are stands while no caller books, withdraws or sends.
LEMMA StandingStays ==
    ASSUME In(HoldsBooking)' = In(HoldsBooking), sends' = sends,
           \A c \in In(HoldsBooking) : call'[c].admitAt = call[c].admitAt, NEW V
    PROVE  Held(V)' = Held(V) /\ Went(V)' = Went(V) /\ Standing(V)' = Standing(V)
<1>1. Held(V)' = Held(V)
    BY DEF Held
<1>2. Went(V)' = Went(V)
    BY DEF Went
<1>3. QED BY <1>1, <1>2 DEF Standing

-----------------------------------------------------------------------------
(* Steps that neither book, withdraw nor send.                             *)

\* The slot a step leaves knows what it knew ...
Remembers ==
    /\ slot'.sent = slot.sent /\ slot'.booked = slot.booked
    /\ slot'.lastSend \in {slot.lastSend, now} /\ slot'.notBefore >= slot.notBefore
    /\ \/ slot'.lastUsed = now'
       \/ slot'.lastUsed = slot.lastUsed /\ In({"sending"})' = In({"sending"})

\* ... or is a fresh one, that nobody holds and that nothing is left to know for.
Forgets ==
    /\ slot'.sent = <<>> /\ slot'.booked = <<>> /\ slot'.lastSend <= now
    /\ In(HoldsBooking) = {}
    /\ \A i \in DOMAIN sends : sends[i].at + Idle <= now

\* No caller books, withdraws or sends.
Stands ==
    /\ now' >= now
    /\ sends' = sends
    /\ In(HoldsBooking)' = In(HoldsBooking)
    /\ \A c \in In(HoldsBooking) :
         /\ call'[c].admitAt = call[c].admitAt /\ call'[c].wakeAt = call[c].wakeAt
         /\ SpaceSends => now' <= call[c].admitAt

\* Such a step keeps the clock of the bookings ...
LEMMA QuietClock ==
    ASSUME IInv, Bookings, IInv', Stands, Remembers \/ Forgets
    PROVE  Timers' /\ SendsPast' /\ UseKnown' /\ SlotPast'
<1>1. /\ now \in Nat /\ now' \in Nat /\ Idle \in Nat /\ slot.lastSend \in Int
      /\ slot'.lastSend \in Int /\ slot.lastUsed \in Int /\ slot'.lastUsed \in Int
      /\ \A i \in DOMAIN sends : sends[i].at \in Nat /\ sends[i].booked \in Int
    BY SlotType, IdleType, InstantsType DEF IInv, TypeOK, Slots
<1>2. Timers'
    BY DEF Timers, Stands, Bookings
<1>3. SendsPast'
    BY <1>1 DEF SendsPast, Stands, Bookings
<1>4. UseKnown'
    BY <1>1 DEF UseKnown, Stands, Remembers, Forgets, Bookings, SendsPast
<1>5. SlotPast'
    BY <1>1 DEF SlotPast, Stands, Remembers, Forgets, Bookings
<1>6. QED BY <1>2, <1>3, <1>4, <1>5

\* An empty window has no value in it.
LEMMA HitsOfEmpty == ASSUME NEW V PROVE Hits(<<>>, V) = {} /\ Cardinality(Hits(<<>>, V)) = 0
<1>1. DOMAIN <<>> = {}
    BY EmptySeq, LenProperties
<1>2. Hits(<<>>, V) = {}
    BY <1>1 DEF Hits
<1>3. QED BY <1>2, FS_EmptySet

\* ... what backs them ...
LEMMA QuietBacked ==
    ASSUME IInv, Bookings, IInv', Stands, Remembers \/ Forgets
    PROVE  Backed(slot.sent)' /\ Backed(slot.booked)'
<1>1. now \in Nat /\ now' \in Nat /\ now' >= now
    BY SlotType DEF IInv, TypeOK, Stands
<1>2. \A V : Held(V)' = Held(V)
    BY StandingStays DEF Stands
<1>3. CASE Remembers
    BY <1>1, <1>2, <1>3 DEF Backed, Bookings, Remembers
<1>4. CASE Forgets
    <2>1. \A V : Cardinality(Hits(<<>>, V)) = 0 /\ Cardinality(Held(V)) \in Nat
        BY HitsOfEmpty, CountsType
    <2>2. QED BY <1>2, <1>4, <2>1 DEF Backed, Forgets
<1>5. QED BY <1>3, <1>4

\* ... their spacing ...
LEMMA QuietGaps ==
    ASSUME IInv, Bookings, IInv', Stands, Remembers \/ Forgets
    PROVE  GapsKept'
<1> SUFFICES ASSUME SpaceSends, MinDelay > 0 PROVE GapsKept'
    BY DEF GapsKept
<1>1. /\ now \in Nat /\ now' \in Nat /\ now' >= now /\ Idle \in Nat /\ Idle >= MinDelay
      /\ MinDelay \in Nat
      /\ \A i \in DOMAIN sends : sends[i].at \in Nat
    BY SlotType, IdleType, InstantsType DEF IInv, TypeOK, Stands
<1>2. CASE Remembers
    BY <1>1, <1>2 DEF GapsKept, Bookings, Remembers, Stands
<1>3. CASE Forgets
    BY <1>1, <1>3 DEF GapsKept, Bookings, Forgets, Stands
<1>4. QED BY <1>2, <1>3

\* ... and the window's ration.
LEMMA QuietQuota ==
    ASSUME IInv, Bookings, IInv', Stands, Remembers \/ Forgets
    PROVE  QuotaKept'
<1> SUFFICES ASSUME BookingsInOrder, Quota > 0 PROVE QuotaKept'
    BY DEF QuotaKept
<1>1. /\ now \in Nat /\ now' \in Nat /\ now' >= now /\ slot.lastSend \in Int
      /\ Period \in Nat /\ Idle \in Nat /\ Idle >= Period
      /\ Asked \in Int /\ Asked' \in Int /\ Asked' >= now'
    <2>1. Period \in Nat /\ MinDelay \in Nat /\ IdleFloor \in Nat
        BY ConfigAssumption
    <2>2. Idle \in Nat /\ Idle >= Period
        BY <2>1 DEF Idle, Later
    <2>3. Asked' \in Int /\ Asked' >= now'
        <3>1. Asked' = Later(Later(now', slot'.lastSend + MinDelay), slot'.notBefore)
            BY DEF Asked, Spaced, BookingsInOrder
        <3>2. now' \in Nat /\ slot'.lastSend \in Int /\ slot'.notBefore \in Int
            BY DEF IInv, TypeOK, Slots
        <3>3. QED BY <2>1, <3>1, <3>2 DEF Later
    <2>4. QED BY <2>1, <2>2, <2>3, SlotType, AskedType DEF Stands, IInv, TypeOK
<1>2. /\ In(HoldsBooking)' = In(HoldsBooking)
      /\ \A c \in In(HoldsBooking) : call'[c].admitAt = call[c].admitAt
      /\ \A V : Held(V)' = Held(V) /\ Went(V)' = Went(V) /\ Standing(V)' = Standing(V)
    BY StandingStays DEF Stands
<1>3. \A v \in Int : Standing(Within(v))' <= Quota
    BY <1>2 DEF Bookings, QuotaKept, Within
<1>4. CASE Remembers
    <2>1. Asked' >= Asked
        BY <1>1, <1>4, AskedAdvances DEF Remembers, BookingsInOrder, Bookings, SlotPast
    <2>2. After(Asked' - Period) \subseteq After(Asked - Period)
        BY <1>1, <2>1 DEF After
    <2>3. \A V \in SUBSET After(Asked' - Period) :
            Standing(V)' <= Cardinality(Hits(slot'.sent, V))
        BY <1>2, <1>4, <2>2 DEF Bookings, QuotaKept, Remembers
    <2>4. Ascending(slot'.sent)
        BY <1>4 DEF Bookings, QuotaKept, Remembers
    <2>5. \A c \in In(HoldsBooking) :
            \/ call[c].admitAt <= Asked'
            \/ Cardinality(Hits(slot'.sent, From(call[c].admitAt - Period)))
                  >= Quota - 1 + Cardinality(In(HoldsBooking))
        BY <1>1, <1>4, <2>1, InstantsType DEF Bookings, QuotaKept, Remembers
    <2>6. QED BY <1>2, <1>3, <2>3, <2>4, <2>5 DEF QuotaKept, Standing, Hits, Ascending, From
<1>5. CASE Forgets
    <2>1. \A V \in SUBSET After(Asked' - Period) : Standing(V) = 0
        <3> SUFFICES ASSUME NEW V \in SUBSET After(Asked' - Period) PROVE Standing(V) = 0
            OBVIOUS
        <3>1. Held(V) = {}
            BY <1>5 DEF Held, Forgets
        <3>2. \A i \in DOMAIN sends : sends[i].booked <= Asked' - Period
            BY <1>1, <1>5, InstantsType DEF Forgets, Bookings, SendsPast
        <3>3. Went(V) = {}
            BY <1>1, <3>2, InstantsType DEF Went, After
        <3>4. QED BY <3>1, <3>3, FS_EmptySet DEF Standing
    <2>2. \A V : Cardinality(Hits(<<>>, V)) = 0
        BY HitsOfEmpty
    <2>3. Ascending(<<>>)
        <3>1. 1..Len(<<>>) = {}
            BY EmptySeq
        <3>2. QED BY <3>1 DEF Ascending
    <2>4. QED BY <1>2, <1>3, <1>5, <2>1, <2>2, <2>3 DEF QuotaKept, Standing, Hits, Ascending, Forgets
<1>6. QED BY <1>4, <1>5

-----------------------------------------------------------------------------
(* Callers that book, withdraw or send.                                    *)

\* A caller that lets go of its booking holds one less.
LEMMA HeldLess ==
    ASSUME IInv, NEW c \in In(HoldsBooking), In(HoldsBooking)' = In(HoldsBooking) \ {c},
           \A d \in In(HoldsBooking) \ {c} : call'[d].admitAt = call[d].admitAt, NEW V
    PROVE  Cardinality(Held(V))' = Cardinality(Held(V)) - IF call[c].admitAt \in V THEN 1 ELSE 0
<1>1. Held(V)' = Held(V) \ {c} /\ (c \in Held(V) <=> call[c].admitAt \in V)
    BY DEF Held
<1>2. IsFiniteSet(Held(V)) /\ Cardinality(Held(V)) \in Nat
    BY CountsType
<1>3. Cardinality(Held(V) \ {c}) = IF c \in Held(V) THEN Cardinality(Held(V)) - 1
                                  ELSE Cardinality(Held(V))
    BY <1>2, FS_RemoveElement
<1>4. QED BY <1>1, <1>2, <1>3

\* A caller that books holds one more.
LEMMA HeldMore ==
    ASSUME IInv, NEW c, c \notin In(HoldsBooking), In(HoldsBooking)' = In(HoldsBooking) \cup {c},
           \A d \in In(HoldsBooking) : call'[d].admitAt = call[d].admitAt, NEW V
    PROVE  Cardinality(Held(V))' = Cardinality(Held(V)) + IF call'[c].admitAt \in V THEN 1 ELSE 0
<1>1. c \notin Held(V) /\ IsFiniteSet(Held(V)) /\ Cardinality(Held(V)) \in Nat
    BY CountsType DEF Held
<1>2. CASE call'[c].admitAt \in V
    <2>1. Held(V)' = Held(V) \cup {c}
        BY <1>2 DEF Held
    <2>2. QED BY <1>1, <1>2, <2>1, FS_AddElement
<1>3. CASE call'[c].admitAt \notin V
    <2>1. Held(V)' = Held(V)
        BY <1>3 DEF Held
    <2>2. QED BY <1>1, <1>3, <2>1
<1>4. QED BY <1>2, <1>3

\* A request that goes out adds to the history and changes nothing of it.
LEMMA SendsGrow ==
    ASSUME IInv, NEW e \in [at : Nat, booked : Int], sends' = Append(sends, e)
    PROVE  /\ Len(sends) + 1 \notin DOMAIN sends
           /\ DOMAIN sends' = DOMAIN sends \cup {Len(sends) + 1}
           /\ \A i \in DOMAIN sends : sends'[i] = sends[i] /\ i < Len(sends) + 1
           /\ sends'[Len(sends) + 1] = e
<1>1. sends \in Seq([at : Nat, booked : Int])
    BY DEF IInv, TypeOK
<1>2. /\ sends' \in Seq([at : Nat, booked : Int]) /\ Len(sends') = Len(sends) + 1
      /\ \A i \in 1..Len(sends) : sends'[i] = sends[i]
      /\ sends'[Len(sends) + 1] = e
    BY <1>1, AppendProperties
<1>3. DOMAIN sends = 1..Len(sends) /\ Len(sends) \in Nat /\ DOMAIN sends' = 1..(Len(sends) + 1)
    BY <1>1, <1>2, LenProperties
<1>4. QED BY <1>2, <1>3

\* It counts for what it was booked.
LEMMA WentMore ==
    ASSUME IInv, NEW e \in [at : Nat, booked : Int], sends' = Append(sends, e), NEW V
    PROVE  Cardinality(Went(V))' = Cardinality(Went(V)) + IF e.booked \in V THEN 1 ELSE 0
<1> DEFINE n == Len(sends) + 1
<1>1. /\ n \notin DOMAIN sends /\ DOMAIN sends' = DOMAIN sends \cup {n}
      /\ \A i \in DOMAIN sends : sends'[i] = sends[i]
      /\ sends'[n] = e
    BY SendsGrow
<1>2. n \notin Went(V) /\ IsFiniteSet(Went(V)) /\ Cardinality(Went(V)) \in Nat
    BY <1>1, CountsType DEF Went
<1> HIDE DEF n
<1>3. CASE e.booked \in V
    <2>1. Went(V)' = Went(V) \cup {n}
        BY <1>1, <1>3 DEF Went
    <2>2. QED BY <1>2, <1>3, <2>1, FS_AddElement
<1>4. CASE e.booked \notin V
    <2>1. Went(V)' = Went(V)
        BY <1>1, <1>4 DEF Went
    <2>2. QED BY <1>2, <1>4, <2>1
<1>5. QED BY <1>3, <1>4

\* What the slot stands for when callers come and go.
LEMMA HolderLeaves ==
    ASSUME IInv, NEW c \in Callers, NEW st, st \notin HoldsBooking,
           pc' = [pc EXCEPT ![c] = st], c \in In(HoldsBooking)
    PROVE  /\ In(HoldsBooking)' = In(HoldsBooking) \ {c}
           /\ Cardinality(In(HoldsBooking)) \in Nat
           /\ Cardinality(In(HoldsBooking))' = Cardinality(In(HoldsBooking)) - 1
<1>1. pc[c] \in HoldsBooking /\ pc \in [Callers -> States]
    BY DEF In, IInv, TypeOK
<1>2. In(HoldsBooking)' = In(HoldsBooking) \ {c}
    BY <1>1, InMoved
<1>3. QED BY <1>1, <1>2, CountDown, InFinite

\* A request goes out: its booking stands for it as before.
LEMMA WakeBookings == ASSUME IInv, Bookings, IInv', NEW c \in Callers, Wake(c) PROVE Bookings'
<1> DEFINE a == call[c].admitAt
           n == Len(sends) + 1
           e == [at |-> now, booked |-> a]
<1>1. /\ pc[c] = "waiting" /\ pc' = [pc EXCEPT ![c] = "sending"] /\ now >= call[c].wakeAt
      /\ call' = [call EXCEPT ![c].since = now]
      /\ sends' = Append(sends, e)
      /\ now' = now /\ slot' = slot
    BY DEF Wake, Goto, Record, slotVars
<1>2. c \in In(HoldsBooking) /\ "sending" \notin HoldsBooking
    BY <1>1 DEF In, HoldsBooking
<1>3. /\ now \in Nat /\ a \in Int /\ call[c].wakeAt \in Int /\ MinDelay \in Nat
      /\ a <= now /\ (SpaceSends => a = now)
      /\ \A i \in DOMAIN sends : sends[i].at \in Nat /\ sends[i].booked \in Int
      /\ \A d \in In(HoldsBooking) : call[d].admitAt \in Int
    <2>1. /\ now \in Nat /\ MinDelay \in Nat
          /\ \A i \in DOMAIN sends : sends[i].at \in Nat /\ sends[i].booked \in Int
          /\ \A d \in In(HoldsBooking) : call[d].admitAt \in Int /\ call[d].wakeAt \in Int
        BY SlotType, InstantsType
    <2>2. a <= call[c].wakeAt /\ (SpaceSends => call[c].wakeAt = a /\ now <= a)
        BY <1>2 DEF Bookings, Timers
    <2>3. QED BY <1>1, <1>2, <2>1, <2>2
<1>4. /\ In(HoldsBooking)' = In(HoldsBooking) \ {c}
      /\ Cardinality(In(HoldsBooking)) \in Nat
      /\ Cardinality(In(HoldsBooking))' = Cardinality(In(HoldsBooking)) - 1
    BY <1>1, <1>2, HolderLeaves
<1>5. \A d \in In(HoldsBooking) \ {c} :
        call'[d].admitAt = call[d].admitAt /\ call'[d].wakeAt = call[d].wakeAt
    BY <1>1, InstantsType DEF IInv, TypeOK
<1>6. e \in [at : Nat, booked : Int] /\ e.at = now /\ e.booked = a
    BY <1>3
<1>7. /\ n \notin DOMAIN sends /\ DOMAIN sends' = DOMAIN sends \cup {n} /\ sends'[n] = e
      /\ \A i \in DOMAIN sends : sends'[i] = sends[i] /\ i < n
    BY <1>1, <1>6, SendsGrow
<1>8. /\ \A V : Cardinality(Held(V))' = Cardinality(Held(V)) - IF a \in V THEN 1 ELSE 0
      /\ \A V : Cardinality(Went(V))' = Cardinality(Went(V)) + IF a \in V THEN 1 ELSE 0
    BY <1>1, <1>2, <1>4, <1>5, <1>6, HeldLess, WentMore
<1>9. \A V : Standing(V)' = Standing(V)
    <2> TAKE V
    <2>1. Cardinality(Held(V)) \in Nat /\ Cardinality(Went(V)) \in Nat
        BY CountsType
    <2>2. QED BY <1>8, <2>1 DEF Standing
<1> HIDE DEF a, e, n
<1>10. Timers'
    BY <1>1, <1>4, <1>5 DEF Bookings, Timers
<1>11. SendsPast'
    <2>1. \A i \in DOMAIN sends' : sends'[i].booked <= sends'[i].at /\ sends'[i].at <= now
        BY <1>3, <1>6, <1>7 DEF Bookings, SendsPast
    <2>2. \A i, j \in DOMAIN sends' : i < j => sends'[i].at <= sends'[j].at
        <3> SUFFICES ASSUME NEW i \in DOMAIN sends', NEW j \in DOMAIN sends', i < j
                     PROVE  sends'[i].at <= sends'[j].at
            OBVIOUS
        <3>1. i \in DOMAIN sends
            BY <1>7, InstantsType
        <3>2. QED BY <1>3, <1>6, <1>7, <3>1 DEF Bookings, SendsPast
    <2>3. QED BY <1>1, <2>1, <2>2 DEF SendsPast
<1>12. UseKnown'
    BY <1>1 DEF UseKnown, In, IInv, TypeOK
<1>13. SlotPast'
    BY <1>1 DEF SlotPast, Bookings
<1>14. Backed(slot.sent)' /\ Backed(slot.booked)'
    <2>1. \A v \in Int : v > now => Cardinality(Held({v}))' = Cardinality(Held({v}))
        <3> SUFFICES ASSUME NEW v \in Int, v > now
                     PROVE  Cardinality(Held({v}))' = Cardinality(Held({v}))
            OBVIOUS
        <3>1. a \notin {v}
            BY <1>3
        <3>2. QED BY <1>8, <3>1, CountsType
    <2>2. QED BY <1>1, <2>1 DEF Bookings, Backed
<1>15. GapsKept'
    <2> SUFFICES ASSUME SpaceSends, MinDelay > 0 PROVE GapsKept'
        BY DEF GapsKept
    <2>1. ASSUME NEW d \in In(HoldsBooking) \ {c} PROVE call[d].admitAt - now >= MinDelay
        <3>1. call[c].admitAt = now
            BY <1>3 DEF a
        <3>2. call[d].admitAt - now >= MinDelay \/ now - call[d].admitAt >= MinDelay
            BY <1>2, <3>1 DEF Bookings, GapsKept
        <3>3. call[d].admitAt >= now
            BY <1>3 DEF Bookings, Timers
        <3>4. QED BY <1>3, <3>2, <3>3
    <2>2. \A i \in DOMAIN sends : now - sends[i].at >= MinDelay
        BY <1>2, <1>3 DEF Bookings, GapsKept, a
    <2>3. Hits(slot.booked, {now}) # {}
        BY <1>2, <1>3 DEF Bookings, GapsKept, a
    <2>4. \A d \in In(HoldsBooking)' : \A i \in DOMAIN sends' :
            call'[d].admitAt - sends'[i].at >= MinDelay
        BY <1>4, <1>5, <1>6, <1>7, <2>1 DEF Bookings, GapsKept
    <2>5. \A i \in DOMAIN sends' :
            Hits(slot.booked, {sends'[i].at}) # {} \/ sends'[i].at + MinDelay <= now
        BY <1>6, <1>7, <2>3 DEF Bookings, GapsKept
    <2>6. \A i, j \in DOMAIN sends' : i < j => sends'[j].at - sends'[i].at >= MinDelay
        <3> SUFFICES ASSUME NEW i \in DOMAIN sends', NEW j \in DOMAIN sends', i < j
                     PROVE  sends'[j].at - sends'[i].at >= MinDelay
            OBVIOUS
        <3>1. i \in DOMAIN sends
            BY <1>7, InstantsType
        <3>2. QED BY <1>6, <1>7, <2>2, <3>1 DEF Bookings, GapsKept
    <2>7. /\ \A d, f \in In(HoldsBooking)' :
               d # f => \/ call'[d].admitAt - call'[f].admitAt >= MinDelay
                        \/ call'[f].admitAt - call'[d].admitAt >= MinDelay
          /\ \A d \in In(HoldsBooking)' : Hits(slot.booked, {call'[d].admitAt}) # {}
        BY <1>4, <1>5 DEF Bookings, GapsKept
    <2>8. QED BY <1>1, <2>4, <2>5, <2>6, <2>7 DEF GapsKept, Hits
<1>16. QuotaKept'
    <2> SUFFICES ASSUME BookingsInOrder, Quota > 0 PROVE QuotaKept'
        BY DEF QuotaKept
    <2>1. Asked' = Asked
        BY <1>1 DEF Asked, Spaced, Constraining
    <2>2. \A d \in In(HoldsBooking)' :
            \/ call'[d].admitAt <= Asked
            \/ Cardinality(Hits(slot.sent, From(call'[d].admitAt - Period)))
                  >= Quota - 1 + Cardinality(In(HoldsBooking))'
        <3> SUFFICES ASSUME NEW d \in In(HoldsBooking) \ {c}, ~(call[d].admitAt <= Asked)
                     PROVE  Cardinality(Hits(slot.sent, From(call[d].admitAt - Period)))
                              >= Quota - 1 + Cardinality(In(HoldsBooking))'
            BY <1>4, <1>5
        <3>1. Cardinality(Hits(slot.sent, From(call[d].admitAt - Period)))
                >= Quota - 1 + Cardinality(In(HoldsBooking))
            BY DEF Bookings, QuotaKept
        <3>2. /\ Cardinality(Hits(slot.sent, From(call[d].admitAt - Period))) \in Nat
              /\ Quota \in Nat
            BY SlotType, HitsFinite, ConfigAssumption
        <3>3. QED BY <1>4, <3>1, <3>2
    <2>3. QED BY <1>1, <1>9, <2>1, <2>2 DEF Bookings, QuotaKept, Ascending, Hits, From, Within
<1>17. QED BY <1>10, <1>11, <1>12, <1>13, <1>14, <1>15, <1>16 DEF Bookings

\* A caller that leaves without sending takes its own booking back and no other.
LEMMA WithdrawBookings ==
    ASSUME IInv, Bookings, IInv', NEW c \in Callers, pc[c] \in HoldsBooking, Withdraw(c)
    PROVE  Bookings'
<1> DEFINE a == call[c].admitAt
<1>1. /\ pc' = [pc EXCEPT ![c] = "idle"] /\ call' = [call EXCEPT ![c] = NoCall]
      /\ slot' = [Done(Unbook(slot, a)) EXCEPT !.sem = @ - 1]
      /\ now' = now /\ sends' = sends
    BY DEF Withdraw, Return, Goto, history
<1>2. c \in In(HoldsBooking) /\ "idle" \notin HoldsBooking /\ a \in Int
    <2>1. c \in In(HoldsBooking) /\ "idle" \notin HoldsBooking
        BY DEF In, HoldsBooking
    <2>2. QED BY <2>1, InstantsType
<1>3. /\ slot'.sent = RemoveFirst(slot.sent, a)
      /\ slot'.booked = IF SpaceSends THEN RemoveFirst(slot.booked, a) ELSE slot.booked
      /\ slot'.lastSend = slot.lastSend /\ slot'.notBefore = slot.notBefore
      /\ slot'.lastUsed = now
    BY <1>1, SlotType DEF Done, Unbook, Forget
<1>4. /\ In(HoldsBooking)' = In(HoldsBooking) \ {c}
      /\ Cardinality(In(HoldsBooking)) \in Nat
      /\ Cardinality(In(HoldsBooking))' = Cardinality(In(HoldsBooking)) - 1
    BY <1>1, <1>2, HolderLeaves
<1>5. \A d \in In(HoldsBooking) \ {c} :
        call'[d].admitAt = call[d].admitAt /\ call'[d].wakeAt = call[d].wakeAt
    BY <1>1, InstantsType DEF IInv, TypeOK
<1>6. \A V : Cardinality(Held(V))' = Cardinality(Held(V)) - IF a \in V THEN 1 ELSE 0
    BY <1>2, <1>4, <1>5, HeldLess
<1>7. \A V : Went(V)' = Went(V)
    BY <1>1 DEF Went
<1>8. \A V : Standing(V) \in Nat /\ Standing(V)' = Standing(V) - IF a \in V THEN 1 ELSE 0
    <2> TAKE V
    <2>1. Cardinality(Held(V)) \in Nat /\ Cardinality(Went(V)) \in Nat
        BY CountsType
    <2>2. QED BY <1>6, <1>7, <2>1 DEF Standing
<1>9. \A s \in {slot.sent, slot.booked} : \A V :
        /\ Cardinality(Hits(s, V)) \in Nat
        /\ Cardinality(Hits(RemoveFirst(s, a), V)) =
             Cardinality(Hits(s, V)) - IF a \in V /\ Hits(s, {a}) # {} THEN 1 ELSE 0
    <2> SUFFICES ASSUME NEW s \in {slot.sent, slot.booked}, NEW V
                 PROVE  /\ Cardinality(Hits(s, V)) \in Nat
                        /\ Cardinality(Hits(RemoveFirst(s, a), V)) =
                             Cardinality(Hits(s, V))
                               - IF a \in V /\ Hits(s, {a}) # {} THEN 1 ELSE 0
        OBVIOUS
    <2>1. s \in Seq(Int)
        BY SlotType
    <2> HIDE DEF a
    <2>2. QED BY <2>1, HitsFinite, HitsOfRemove
<1>10. now \in Nat /\ MinDelay \in Nat /\ Quota \in Nat
       /\ \A d \in In(HoldsBooking) : call[d].admitAt \in Int
    BY SlotType, InstantsType, ConfigAssumption
<1> HIDE DEF a
<1>11. Timers'
    BY <1>1, <1>4, <1>5 DEF Bookings, Timers
<1>12. SendsPast'
    BY <1>1 DEF Bookings, SendsPast
<1>13. UseKnown'
    BY <1>1, <1>3 DEF Bookings, UseKnown, SendsPast
<1>14. SlotPast'
    BY <1>1, <1>3 DEF Bookings, SlotPast
<1>15. ASSUME NEW s \in {slot.sent, slot.booked}, Backed(s), NEW v \in Int, v > now
       PROVE  Cardinality(Hits(RemoveFirst(s, a), {v})) <= Cardinality(Held({v}))'
    <2>1. /\ Cardinality(Held({v})) \in Nat
          /\ Cardinality(Hits(s, {v})) <= Cardinality(Held({v}))
        BY <1>15, CountsType DEF Backed
    <2>2. /\ Cardinality(Hits(s, {v})) \in Nat
          /\ Cardinality(Hits(RemoveFirst(s, a), {v})) =
               Cardinality(Hits(s, {v})) - IF a \in {v} /\ Hits(s, {a}) # {} THEN 1 ELSE 0
        BY <1>9
    <2>3. Cardinality(Held({v}))' = Cardinality(Held({v})) - IF a \in {v} THEN 1 ELSE 0
        BY <1>6
    <2>4. CASE a # v
        BY <2>1, <2>2, <2>3, <2>4
    <2>5. CASE a = v /\ Hits(s, {a}) # {}
        BY <2>1, <2>2, <2>3, <2>5
    <2>6. CASE a = v /\ Hits(s, {a}) = {}
        <3>1. Cardinality(Hits(s, {v})) = 0 /\ Cardinality(Hits(RemoveFirst(s, a), {v})) = 0
            BY <2>2, <2>6, FS_EmptySet
        <3>2. c \in Held({v})
            BY <1>2, <2>6 DEF Held, a
        <3>3. Cardinality(Held({v})) # 0
            BY <3>2, CountsType, FS_EmptySet
        <3>4. QED BY <2>1, <2>3, <2>6, <3>1, <3>3
    <2>7. QED BY <2>4, <2>5, <2>6
<1>16. Backed(slot.sent)' /\ Backed(slot.booked)'
    <2>1. Backed(slot.sent) /\ Backed(slot.booked)
        BY DEF Bookings
    <2>2. \A v \in Int : v > now =>
            Cardinality(Hits(slot'.sent, {v})) <= Cardinality(Held({v}))'
        BY <1>3, <1>15, <2>1
    <2>3. \A v \in Int : v > now =>
            Cardinality(Hits(slot'.booked, {v})) <= Cardinality(Held({v}))'
        <3>1. CASE SpaceSends
            BY <1>3, <1>15, <2>1, <3>1
        <3>2. CASE ~SpaceSends
            <4>1. slot'.booked = <<>>
                BY <1>3, <3>2 DEF Bookings, SlotPast
            <4>2. \A V : Cardinality(Hits(slot'.booked, V)) = 0
                BY <4>1, HitsOfEmpty
            <4>3. ASSUME NEW V PROVE Cardinality(Held(V)') \in Nat
                <5>1. Held(V)' \in SUBSET Held(V)
                    BY <1>4, <1>5 DEF Held
                <5>2. QED BY <5>1, CountsType, FS_Subset, FS_CardinalityType
            <4>4. QED BY <4>2, <4>3
        <3>3. QED BY <3>1, <3>2
    <2>4. QED BY <1>1, <2>2, <2>3 DEF Backed
<1>17. GapsKept'
    <2> SUFFICES ASSUME SpaceSends, MinDelay > 0 PROVE GapsKept'
        BY DEF GapsKept
    <2>1. ASSUME NEW v \in Int, v # a, Hits(slot.booked, {v}) # {}
          PROVE  Hits(slot'.booked, {v}) # {}
        <3>1. IsFiniteSet(Hits(slot.booked, {v})) /\ Cardinality(Hits(slot.booked, {v})) # 0
            BY <2>1, SlotType, HitsFinite, FS_EmptySet
        <3>2. Cardinality(Hits(slot'.booked, {v})) = Cardinality(Hits(slot.booked, {v}))
            BY <1>3, <1>9, <2>1
        <3>3. QED BY <3>1, <3>2, FS_EmptySet
    <2>2. \A d \in In(HoldsBooking)' : Hits(slot'.booked, {call'[d].admitAt}) # {}
        <3> SUFFICES ASSUME NEW d \in In(HoldsBooking) \ {c}
                     PROVE  Hits(slot'.booked, {call[d].admitAt}) # {}
            BY <1>4, <1>5
        <3>1. call[d].admitAt # a
            BY <1>2, <1>10 DEF Bookings, GapsKept, a
        <3>2. QED BY <1>10, <2>1, <3>1 DEF Bookings, GapsKept
    <2>3. \A i \in DOMAIN sends :
            Hits(slot'.booked, {sends[i].at}) # {} \/ sends[i].at + MinDelay <= now
        <3> SUFFICES ASSUME NEW i \in DOMAIN sends
                     PROVE  Hits(slot'.booked, {sends[i].at}) # {} \/ sends[i].at + MinDelay <= now
            OBVIOUS
        <3>1. sends[i].at \in Nat
            BY InstantsType
        <3>2. sends[i].at # a
            BY <1>2, <1>10, <3>1 DEF Bookings, GapsKept, a
        <3>3. QED BY <2>1, <3>1, <3>2 DEF Bookings, GapsKept
    <2>4. /\ \A d, f \in In(HoldsBooking)' :
               d # f => \/ call'[d].admitAt - call'[f].admitAt >= MinDelay
                        \/ call'[f].admitAt - call'[d].admitAt >= MinDelay
          /\ \A d \in In(HoldsBooking)' : \A i \in DOMAIN sends :
               call'[d].admitAt - sends[i].at >= MinDelay
        BY <1>4, <1>5 DEF Bookings, GapsKept
    <2>5. \A i, j \in DOMAIN sends : i < j => sends[j].at - sends[i].at >= MinDelay
        BY DEF Bookings, GapsKept
    <2>6. QED BY <1>1, <2>2, <2>3, <2>4, <2>5 DEF GapsKept, Hits
<1>18. QuotaKept'
    <2> SUFFICES ASSUME BookingsInOrder, Quota > 0 PROVE QuotaKept'
        BY DEF QuotaKept
    <2>1. Asked' = Asked
        BY <1>1, <1>3 DEF Asked, Spaced, BookingsInOrder
    <2>2. Ascending(slot'.sent)
        BY <1>3, SlotType, RemoveFirstOfSeq DEF Bookings, QuotaKept
    <2>3. ASSUME NEW V \in SUBSET After(Asked - Period)
          PROVE  Standing(V)' <= Cardinality(Hits(slot'.sent, V))
        <3>1. Standing(V) <= Cardinality(Hits(slot.sent, V))
            BY DEF Bookings, QuotaKept
        <3>2. CASE a \notin V \/ Hits(slot.sent, {a}) # {}
            BY <1>3, <1>8, <1>9, <3>1, <3>2
        <3>3. CASE a \in V /\ Hits(slot.sent, {a}) = {}
            BY <1>3, <1>8, <1>9, <3>1, <3>3
        <3>4. QED BY <3>2, <3>3
    <2>4. ASSUME NEW v \in Int PROVE Standing(Within(v))' <= Quota
        <3>1. Standing(Within(v)) <= Quota
            BY DEF Bookings, QuotaKept
        <3>2. Standing(Within(v)) \in Nat
              /\ Standing(Within(v))' = Standing(Within(v)) - IF a \in Within(v) THEN 1 ELSE 0
            BY <1>8 DEF Within
        <3>3. QED BY <1>10, <3>1, <3>2
    <2>5. \A d \in In(HoldsBooking)' :
            \/ call'[d].admitAt <= Asked
            \/ Cardinality(Hits(slot'.sent, From(call'[d].admitAt - Period)))
                  >= Quota - 1 + Cardinality(In(HoldsBooking))'
        <3> SUFFICES ASSUME NEW d \in In(HoldsBooking) \ {c}, ~(call[d].admitAt <= Asked)
                     PROVE  Cardinality(Hits(slot'.sent, From(call[d].admitAt - Period)))
                              >= Quota - 1 + Cardinality(In(HoldsBooking))'
            BY <1>4, <1>5
        <3> DEFINE V == From(call[d].admitAt - Period)
        <3>1. Cardinality(Hits(slot.sent, V)) >= Quota - 1 + Cardinality(In(HoldsBooking))
            BY DEF Bookings, QuotaKept
        <3>2. /\ Cardinality(Hits(slot.sent, V)) \in Nat
              /\ Cardinality(Hits(slot'.sent, V)) =
                   Cardinality(Hits(slot.sent, V))
                     - IF a \in V /\ Hits(slot.sent, {a}) # {} THEN 1 ELSE 0
            BY <1>3, <1>9
        <3> HIDE DEF V
        <3>3. Cardinality(Hits(slot'.sent, V)) >= Quota - 1 + Cardinality(In(HoldsBooking))'
            BY <1>4, <1>10, <3>1, <3>2
        <3>4. QED BY <3>3 DEF V
    <2>6. QED BY <1>1, <2>1, <2>2, <2>3, <2>4, <2>5 DEF QuotaKept, Ascending, Hits, From, Within
<1>19. QED BY <1>11, <1>12, <1>13, <1>14, <1>16, <1>17, <1>18 DEF Bookings

\* The window a new caller finds.
Live == Evict(slot.sent, Asked - Period)

\* What the window holds, and what of it is still there when a caller asks.
LEMMA LiveIs ==
    ASSUME IInv, Bookings, BookingsInOrder, Quota > 0
    PROVE  /\ Live \in Seq(Int) /\ Ascending(Live)
           /\ Asked \in Int /\ Asked >= now /\ now \in Nat /\ Period \in Nat /\ Quota \in Nat
           /\ \A V : /\ Cardinality(Hits(slot.sent, V)) \in Nat
                     /\ Cardinality(Hits(Live, V)) \in Nat
                     /\ Cardinality(Hits(Live, V)) <= Cardinality(Hits(slot.sent, V))
           /\ \A V \in SUBSET After(Asked - Period) :
                 Cardinality(Hits(Live, V)) = Cardinality(Hits(slot.sent, V))
<1>1. /\ Asked \in Int /\ Asked >= now /\ now \in Nat /\ Period \in Nat /\ Quota \in Nat
      /\ slot.sent \in Seq(Int) /\ Asked - Period \in Int
    <2>1. Asked \in Int /\ Asked >= now /\ now \in Nat /\ slot.sent \in Seq(Int)
        BY AskedType, SlotType
    <2>2. Period \in Nat /\ Quota \in Nat
        BY ConfigAssumption
    <2> HIDE DEF Asked
    <2>3. QED BY <2>1, <2>2
<1>2. Live \in Seq(Int) /\ Ascending(Live)
    BY <1>1, EvictOfSeq DEF Live, Bookings, QuotaKept
<1>3. ASSUME NEW V
      PROVE  /\ Cardinality(Hits(slot.sent, V)) \in Nat
             /\ Cardinality(Hits(Live, V)) \in Nat
             /\ Cardinality(Hits(Live, V)) <= Cardinality(Hits(slot.sent, V))
    BY <1>1, <1>2, HitsFinite, HitsOfEvict DEF Live
<1>4. ASSUME NEW V \in SUBSET After(Asked - Period)
      PROVE  Cardinality(Hits(Live, V)) = Cardinality(Hits(slot.sent, V))
    <2>1. \A v \in V : v \in Int /\ v > Asked - Period
        BY DEF After
    <2>2. QED BY <1>1, <2>1, HitsOfEvict DEF Live
<1>5. QED BY <1>1, <1>2, <1>3, <1>4

\* Where the window opens: fewer than Quota of the live bookings are less than a
\* Period old at the instant granted, and Quota of them stand at or after its
\* beginning when the instant had to be put off.
LEMMA Opens ==
    ASSUME IInv, Bookings, BookingsInOrder, Quota > 0
    PROVE  /\ Booking.at \in Int /\ Booking.at >= Asked
           /\ Booking.sent = Append(Live, Booking.at)
           /\ \A V \in SUBSET After(Booking.at - Period) : Cardinality(Hits(Live, V)) <= Quota - 1
           /\ Booking.at > Asked =>
                Cardinality(Hits(Live, From(Booking.at - Period))) >= Quota
<1> DEFINE g == Opening(Live, Asked)
           n == Len(Live)
<1>1. Booking = [sent |-> Append(Live, g), at |-> g]
    <2>1. Quota # 0
        BY LiveIs
    <2>2. QED BY <2>1 DEF Booking, Book, Live, Asked
<1>2. /\ Live \in Seq(Int) /\ Ascending(Live) /\ n \in Nat
      /\ Asked \in Int /\ Period \in Nat /\ Quota \in Nat
    BY LiveIs, LenProperties
<1>3. CASE n < Quota
    <2>1. g = Asked
        BY <1>2, <1>3 DEF Opening
    <2>2. \A V : Cardinality(Hits(Live, V)) \in Nat /\ Cardinality(Hits(Live, V)) <= n
        BY <1>2, HitsFinite
    <2> HIDE DEF g, n
    <2>3. \A V : Cardinality(Hits(Live, V)) <= Quota - 1
        BY <1>2, <1>3, <2>2
    <2>4. QED BY <1>1, <1>2, <2>1, <2>3
<1>4. CASE ~(n < Quota)
    <2> DEFINE q == Quota
               old == Live[n - q + 1]
    <2>1. q \in 1..n /\ n - q + 1 \in 1..n
        BY <1>2, <1>4
    <2>2. old \in Int
        BY <1>2, <2>1, ElementOfSeq
    <2>3. g = Later(Asked, old + Period)
        BY <1>2, <1>4 DEF Opening
    <2>4. g \in Int /\ g >= Asked /\ g - Period >= old
        <3> HIDE DEF old, g, n, q
        <3>1. QED BY <1>2, <2>2, <2>3 DEF Later
    <2>5. ASSUME NEW V \in SUBSET After(g - Period) PROVE Cardinality(Hits(Live, V)) <= Quota - 1
        <3>1. \A v \in V : v \in Int /\ v > old
            <4> HIDE DEF old, g, n, q
            <4>1. QED BY <1>2, <2>2, <2>4 DEF After
        <3>2. QED BY <1>2, <2>1, <3>1, HitsOfAscending
    <2>6. ASSUME g > Asked PROVE Cardinality(Hits(Live, From(g - Period))) >= Quota
        <3>1. g - Period = old
            <4> HIDE DEF old, g, n, q
            <4>1. QED BY <1>2, <2>2, <2>3, <2>6 DEF Later
        <3>2. \A v \in Int : v >= old => v \in From(g - Period)
            BY <3>1 DEF From
        <3> HIDE DEF g
        <3>3. QED BY <1>2, <2>1, <3>2, HitsOfAscending
    <2> HIDE DEF g
    <2>7. QED BY <1>1, <2>4, <2>5, <2>6
<1>5. QED BY <1>3, <1>4

\* No caller that waits is booked later than the instant a new one gets, so that the
\* window stays in order.
LEMMA GrantIsLatest ==
    ASSUME IInv, Bookings, BookingsInOrder, Quota > 0
    PROVE  /\ \A c \in In(HoldsBooking) : call[c].admitAt <= Booking.at
           /\ Ascending(Append(Live, Booking.at))
<1> DEFINE g == Booking.at
<1>1. g \in Int /\ g >= Asked /\ Asked \in Int /\ Asked >= now /\ now \in Nat /\ Period \in Nat
      /\ Quota \in Nat /\ Live \in Seq(Int) /\ Ascending(Live)
    BY Opens, LiveIs
<1>2. \A V \in SUBSET After(g - Period) : Cardinality(Hits(Live, V)) <= Quota - 1
    BY Opens
<1> HIDE DEF g
<1>3. ASSUME NEW c \in In(HoldsBooking), call[c].admitAt > g
      PROVE  FALSE
    <2> DEFINE V == From(call[c].admitAt - Period)
    <2>1. call[c].admitAt \in Int
        BY InstantsType
    <2>2. V \in SUBSET After(g - Period) /\ V \in SUBSET After(Asked - Period)
        BY <1>1, <1>3, <2>1 DEF From, After
    <2>3. Cardinality(Hits(slot.sent, V)) >= Quota - 1 + Cardinality(In(HoldsBooking))
        BY <1>1, <1>3, <2>1 DEF Bookings, QuotaKept
    <2> HIDE DEF V
    <2>4. Cardinality(Hits(slot.sent, V)) <= Quota - 1
        BY <1>2, <2>2, LiveIs
    <2>5. Cardinality(In(HoldsBooking)) \in Nat /\ Cardinality(In(HoldsBooking)) # 0
        BY InFinite, FS_EmptySet
    <2>6. Cardinality(Hits(slot.sent, V)) \in Nat
        BY LiveIs
    <2>7. QED BY <1>1, <2>3, <2>4, <2>5, <2>6
<1>4. \A c \in In(HoldsBooking) : call[c].admitAt <= g
    BY <1>1, <1>3, InstantsType
<1>5. ASSUME Live # <<>> PROVE Last(Live) <= g
    <2> DEFINE v == Last(Live)
    <2>1. Len(Live) \in 1..Len(Live)
        BY <1>1, <1>5, EmptySeq
    <2>2. v \in Int /\ Len(Live) \in Hits(Live, {v})
        <3>1. v \in Int
            BY <1>1, <2>1, ElementOfSeq DEF Last
        <3>2. Len(Live) \in DOMAIN Live
            BY <1>1, <2>1, LenProperties
        <3>3. QED BY <3>1, <3>2 DEF Hits, Last
    <2> HIDE DEF v
    <2>3. Cardinality(Hits(Live, {v})) # 0
        BY <1>1, <2>2, HitsFinite, FS_EmptySet
    <2>4. CASE v > now
        <3>1. Cardinality(Hits(slot.sent, {v})) # 0
            BY <2>3, LiveIs
        <3>2. Cardinality(Hits(slot.sent, {v})) <= Cardinality(Held({v}))
            BY <2>2, <2>4 DEF Bookings, Backed
        <3>3. Cardinality(Hits(slot.sent, {v})) \in Nat /\ Cardinality(Held({v})) \in Nat
            BY LiveIs, CountsType
        <3>4. Cardinality(Held({v})) # 0
            BY <3>1, <3>2, <3>3
        <3>5. Held({v}) # {}
            BY <3>4, FS_EmptySet
        <3>6. QED BY <1>4, <3>5 DEF Held, v
    <2>5. CASE ~(v > now)
        <3>1. v <= g
            BY <1>1, <2>2, <2>5
        <3>2. QED BY <3>1 DEF v
    <2>6. QED BY <2>4, <2>5
<1>6. Ascending(Append(Live, g))
    BY <1>1, <1>5, AppendAscending
<1>7. QED BY <1>4, <1>6 DEF g

\* At most one caller holds a booking when the semaphore admits another.
LEMMA OneHolder ==
    ASSUME IInv, BookingsInOrder, slot.sem < MaxConcurrent
    PROVE  Cardinality(In(HoldsBooking)) \in 0..1
<1>1. In(HoldsBooking) \in SUBSET In(HoldsSem)
    BY DEF In, HoldsBooking, HoldsSem
<1>2. Cardinality(In(HoldsBooking)) <= Cardinality(In(HoldsSem))
    BY <1>1, InFinite, FS_Subset
<1>3. Cardinality(In(HoldsBooking)) \in Nat /\ Cardinality(In(HoldsSem)) \in Nat
    BY InFinite
<1>4. Cardinality(In(HoldsSem)) = slot.sem /\ MaxConcurrent \in Nat
    BY SlotType DEF IInv, Faithful, Counted
<1>5. QED BY <1>2, <1>3, <1>4 DEF BookingsInOrder

\* The caller joins those that hold a booking, or sends at once.
Joins(c) ==
    /\ In(HoldsBooking)' = In(HoldsBooking) \cup {c}
    /\ sends' = sends
    /\ call'[c].admitAt = Booking.at /\ call'[c].wakeAt >= Booking.at
    /\ SpaceSends => call'[c].wakeAt = Booking.at
    /\ In({"sending"})' = In({"sending"})

Departs(c) ==
    /\ In(HoldsBooking)' = In(HoldsBooking)
    /\ Booking.at = now
    /\ sends' = Append(sends, [at |-> now, booked |-> now])
    /\ In({"sending"})' # {}

\* What a reservation does to the bookings.
LEMMA ReserveIs ==
    ASSUME IInv, NEW c \in Callers, Reserve(c)
    PROVE  /\ c \notin In(HoldsBooking) /\ slot.sem < MaxConcurrent
           /\ Booking.at \in Int /\ Booking.at >= now /\ now \in Nat /\ now' = now
           /\ Joins(c) \/ Departs(c)
           /\ \A d \in In(HoldsBooking) :
                call'[d].admitAt = call[d].admitAt /\ call'[d].wakeAt = call[d].wakeAt
           /\ slot'.sent = Booking.sent
           /\ slot'.booked = IF SpaceSends THEN Append(Constraining, Booking.at) ELSE slot.booked
           /\ slot'.lastSend = slot.lastSend /\ slot'.notBefore = slot.notBefore
           /\ slot'.lastUsed = slot.lastUsed
           /\ \A V : /\ Standing(V) \in Nat
                     /\ Standing(V)' = Standing(V) + IF Booking.at \in V THEN 1 ELSE 0
<1> DEFINE g == Booking.at
           e == [at |-> now, booked |-> now]
           owed == Later(holdEnd, IF SpaceSends THEN now ELSE lastDone + MinDelay)
<1>1. PICK j \in JitterFor(g) :
        /\ call' = [call EXCEPT ![c].admitAt = g, ![c].wakeAt = g + j,
                                ![c].since = now, ![c].owed = owed]
        /\ \/ \E st \in {"refusing", "waiting"} : pc' = [pc EXCEPT ![c] = st] /\ sends' = sends
           \/ /\ pc' = [pc EXCEPT ![c] = "sending"] /\ sends' = Append(sends, e)
              /\ g + j = now
    BY DEF Reserve, Goto, Record
<1>2. /\ pc[c] = "queued" /\ slot.sem < MaxConcurrent /\ now' = now
      /\ slot' = [slot EXCEPT !.sem = @ + 1, !.sent = Booking.sent,
                              !.booked = IF SpaceSends THEN Append(Constraining, g) ELSE @]
    BY DEF Reserve
<1>3. g \in Int /\ g >= now /\ now \in Nat
    BY BookingBound, SlotType DEF IInv
<1>4. j \in Nat /\ (SpaceSends => j = 0)
    BY ConfigAssumption DEF JitterFor
<1> HIDE DEF g
<1>5. c \notin In(HoldsBooking)
    BY <1>2 DEF In, HoldsBooking
<1>6. /\ pc \in [Callers -> States] /\ call \in [Callers -> Locals] /\ In(HoldsBooking) \subseteq Callers
    BY DEF IInv, TypeOK, In
<1>7. call'[c].admitAt = g /\ call'[c].wakeAt = g + j
    BY <1>1, <1>6 DEF Locals
<1>8. \A d \in In(HoldsBooking) :
        call'[d].admitAt = call[d].admitAt /\ call'[d].wakeAt = call[d].wakeAt
    BY <1>1, <1>5, <1>6
<1>9. ASSUME NEW st \in {"refusing", "waiting"}, pc' = [pc EXCEPT ![c] = st], sends' = sends
      PROVE  Joins(c)
    <2>1. In(HoldsBooking)' = In(HoldsBooking) \cup {c}
        BY <1>6, <1>9 DEF In, HoldsBooking
    <2>2. In({"sending"})' = In({"sending"})
        BY <1>2, <1>6, <1>9 DEF In
    <2>3. g + j >= g /\ (SpaceSends => g + j = g)
        BY <1>3, <1>4
    <2>4. QED BY <1>7, <1>9, <2>1, <2>2, <2>3 DEF Joins, g
<1>10. ASSUME pc' = [pc EXCEPT ![c] = "sending"], sends' = Append(sends, e), g + j = now
       PROVE  Departs(c)
    <2>1. In(HoldsBooking)' = In(HoldsBooking)
        BY <1>5, <1>6, <1>10 DEF In, HoldsBooking
    <2>2. c \in In({"sending"})'
        BY <1>6, <1>10 DEF In
    <2>3. g = now
        BY <1>3, <1>4, <1>10
    <2>4. QED BY <1>10, <2>1, <2>2, <2>3 DEF Departs, g
<1>11. Joins(c) \/ Departs(c)
    BY <1>1, <1>9, <1>10
<1>12. ASSUME NEW V
       PROVE  /\ Standing(V) \in Nat
              /\ Standing(V)' = Standing(V) + IF g \in V THEN 1 ELSE 0
    <2>1. Cardinality(Held(V)) \in Nat /\ Cardinality(Went(V)) \in Nat
        BY CountsType
    <2>2. CASE Joins(c)
        <3>1. Cardinality(Held(V))' = Cardinality(Held(V)) + IF g \in V THEN 1 ELSE 0
            BY <1>5, <1>7, <1>8, <2>2, HeldMore DEF Joins
        <3>2. Went(V)' = Went(V)
            BY <2>2 DEF Joins, Went
        <3>3. QED BY <2>1, <3>1, <3>2 DEF Standing
    <2>3. CASE Departs(c)
        <3>1. e \in [at : Nat, booked : Int] /\ e.booked = now /\ g = now
            BY <1>3, <2>3 DEF Departs, g
        <3>2. Cardinality(Went(V))' = Cardinality(Went(V)) + IF e.booked \in V THEN 1 ELSE 0
            BY <2>3, <3>1, WentMore DEF Departs
        <3>3. Held(V)' = Held(V)
            BY <1>8, <2>3 DEF Departs, Held
        <3>4. QED BY <2>1, <3>1, <3>2, <3>3 DEF Standing
    <2>4. QED BY <1>11, <2>2, <2>3
<1>13. /\ slot'.sent = Booking.sent
       /\ slot'.booked = IF SpaceSends THEN Append(Constraining, g) ELSE slot.booked
       /\ slot'.lastSend = slot.lastSend /\ slot'.notBefore = slot.notBefore
       /\ slot'.lastUsed = slot.lastUsed
    BY <1>2, SlotType
<1>14. QED BY <1>2, <1>3, <1>5, <1>8, <1>11, <1>12, <1>13 DEF g

\* A reservation keeps the clock of the bookings ...
LEMMA ReserveClock ==
    ASSUME IInv, Bookings, NEW c \in Callers, Reserve(c)
    PROVE  Timers' /\ SendsPast' /\ UseKnown' /\ SlotPast'
<1> DEFINE g == Booking.at
           n == Len(sends) + 1
           e == [at |-> now, booked |-> now]
<1>1. /\ c \notin In(HoldsBooking) /\ g \in Int /\ g >= now /\ now \in Nat /\ now' = now
      /\ \A d \in In(HoldsBooking) :
           call'[d].admitAt = call[d].admitAt /\ call'[d].wakeAt = call[d].wakeAt
      /\ slot'.booked = IF SpaceSends THEN Append(Constraining, g) ELSE slot.booked
      /\ slot'.lastSend = slot.lastSend /\ slot'.lastUsed = slot.lastUsed
    BY ReserveIs
<1>2. Joins(c) \/ Departs(c)
    BY ReserveIs
<1>3. \A i \in DOMAIN sends : sends[i].at \in Nat /\ sends[i].booked \in Int
    BY InstantsType
<1>4. Departs(c) => /\ n \notin DOMAIN sends /\ DOMAIN sends' = DOMAIN sends \cup {n}
                    /\ \A i \in DOMAIN sends : sends'[i] = sends[i] /\ i < n
                    /\ sends'[n] = e
    <2>1. e \in [at : Nat, booked : Int]
        BY <1>1
    <2>2. QED BY <2>1, SendsGrow DEF Departs
<1> HIDE DEF n
<1>5. Timers'
    <2>1. CASE Joins(c)
        <3>1. call'[c].admitAt <= call'[c].wakeAt
            BY <1>1, <2>1 DEF Joins
        <3>2. SpaceSends => call'[c].wakeAt = call'[c].admitAt /\ now <= call'[c].admitAt
            BY <1>1, <2>1 DEF Joins
        <3>3. QED BY <1>1, <2>1, <3>1, <3>2 DEF Joins, Bookings, Timers
    <2>2. CASE Departs(c)
        BY <1>1, <2>2 DEF Departs, Bookings, Timers
    <2>3. QED BY <1>2, <2>1, <2>2
<1>6. SendsPast'
    <2>1. CASE Joins(c)
        BY <1>1, <2>1 DEF Joins, Bookings, SendsPast
    <2>2. CASE Departs(c)
        <3>1. \A i \in DOMAIN sends' : sends'[i].booked <= sends'[i].at /\ sends'[i].at <= now
            BY <1>1, <1>3, <1>4, <2>2 DEF Bookings, SendsPast
        <3>2. ASSUME NEW i \in DOMAIN sends', NEW k \in DOMAIN sends', i < k
              PROVE  sends'[i].at <= sends'[k].at
            <4>1. i \in DOMAIN sends
                BY <1>4, <2>2, <3>2, InstantsType DEF n
            <4>2. QED BY <1>1, <1>3, <1>4, <2>2, <3>2, <4>1 DEF Bookings, SendsPast
        <3>3. QED BY <1>1, <3>1, <3>2 DEF SendsPast
    <2>3. QED BY <1>2, <2>1, <2>2
<1>7. UseKnown'
    BY <1>1, <1>2 DEF Joins, Departs, Bookings, UseKnown
<1>8. SlotPast'
    BY <1>1 DEF Bookings, SlotPast
<1>9. QED BY <1>5, <1>6, <1>7, <1>8

\* ... what backs them ...
LEMMA ReserveBacked ==
    ASSUME IInv, Bookings, NEW c \in Callers, Reserve(c)
    PROVE  Backed(slot.sent)' /\ Backed(slot.booked)'
<1> DEFINE g == Booking.at
<1>1. /\ c \notin In(HoldsBooking) /\ g \in Int /\ g >= now /\ now \in Nat /\ now' = now
      /\ \A d \in In(HoldsBooking) : call'[d].admitAt = call[d].admitAt
      /\ slot'.sent = Booking.sent
      /\ slot'.booked = IF SpaceSends THEN Append(Constraining, g) ELSE slot.booked
    BY ReserveIs
<1>2. Joins(c) \/ Departs(c)
    BY ReserveIs
<1>3. ASSUME NEW v \in Int, v > now
      PROVE  /\ Cardinality(Held({v})) \in Nat
             /\ Cardinality(Held({v}))' = Cardinality(Held({v})) + IF g = v THEN 1 ELSE 0
    <2>1. Cardinality(Held({v})) \in Nat
        BY CountsType
    <2>2. CASE Joins(c)
        <3>1. call'[c].admitAt = g
            BY <2>2 DEF Joins
        <3>2. Cardinality(Held({v}))' =
                Cardinality(Held({v})) + IF call'[c].admitAt \in {v} THEN 1 ELSE 0
            BY <1>1, <2>2, HeldMore DEF Joins
        <3>3. QED BY <2>1, <3>1, <3>2
    <2>3. CASE Departs(c)
        <3>1. Held({v})' = Held({v})
            BY <1>1, <2>3 DEF Departs, Held
        <3>2. g # v
            BY <1>1, <1>3, <2>3 DEF Departs
        <3>3. QED BY <2>1, <3>1, <3>2
    <2>4. QED BY <1>2, <2>2, <2>3
<1> HIDE DEF g
<1>4. ASSUME NEW s \in Seq(Int), Backed(s), NEW x \in Int, NEW v \in Int, v > now
      PROVE  Cardinality(Hits(Append(Evict(s, x), g), {v})) <= Cardinality(Held({v}))'
    <2>1. Cardinality(Hits(s, {v})) \in Nat /\ Cardinality(Hits(s, {v})) <= Cardinality(Held({v}))
        BY <1>4, HitsFinite DEF Backed
    <2>2. Evict(s, x) \in Seq(Int)
        BY EvictOfSeq
    <2>3. Cardinality(Hits(Evict(s, x), {v})) \in Nat
        BY <2>2, HitsFinite
    <2>4. Cardinality(Hits(Evict(s, x), {v})) <= Cardinality(Hits(s, {v}))
        BY HitsOfEvict
    <2>5. Cardinality(Hits(Append(Evict(s, x), g), {v})) =
            Cardinality(Hits(Evict(s, x), {v})) + IF g \in {v} THEN 1 ELSE 0
        BY <1>1, <2>2, HitsOfAppend
    <2>6. QED BY <1>3, <1>4, <2>1, <2>3, <2>4, <2>5
<1>5. ASSUME NEW s \in Seq(Int), Backed(s), NEW v \in Int, v > now
      PROVE  Cardinality(Hits(s, {v})) <= Cardinality(Held({v}))'
    <2>1. Cardinality(Hits(s, {v})) \in Nat /\ Cardinality(Hits(s, {v})) <= Cardinality(Held({v}))
        BY <1>5, HitsFinite DEF Backed
    <2>2. QED BY <1>3, <1>5, <2>1
<1>6. /\ slot.sent \in Seq(Int) /\ slot.booked \in Seq(Int)
      /\ Backed(slot.sent) /\ Backed(slot.booked)
    BY SlotType DEF Bookings
<1>7. \A v \in Int : v > now => Cardinality(Hits(slot'.sent, {v})) <= Cardinality(Held({v}))'
    <2>1. CASE Quota = 0
        <3>1. slot'.sent = slot.sent
            BY <1>1, <2>1 DEF Booking, Book
        <3>2. QED BY <1>5, <1>6, <3>1
    <2>2. CASE Quota # 0
        <3>1. PICK x \in Int : slot'.sent = Append(Evict(slot.sent, x), g)
            <4>1. /\ Booking.sent = Append(Evict(slot.sent, Asked - Period), Booking.at)
                  /\ Asked - Period \in Int
                <5>1. Booking.sent = Append(Evict(slot.sent, Asked - Period), Booking.at)
                    BY <2>2 DEF Booking, Book, Asked
                <5>2. Asked \in Int /\ Period \in Int
                    BY AskedType, ConfigAssumption
                <5>3. QED BY <5>1, <5>2
            <4>2. QED BY <1>1, <4>1 DEF g
        <3>2. QED BY <1>4, <1>6, <3>1
    <2>3. QED BY <2>1, <2>2
<1>8. \A v \in Int : v > now => Cardinality(Hits(slot'.booked, {v})) <= Cardinality(Held({v}))'
    <2>1. CASE SpaceSends
        <3>1. slot'.booked = Append(Evict(slot.booked, now - MinDelay), g) /\ now - MinDelay \in Int
            BY <1>1, <2>1, ConfigAssumption DEF Constraining
        <3>2. QED BY <1>4, <1>6, <3>1
    <2>2. CASE ~SpaceSends
        BY <1>1, <1>5, <1>6, <2>2
    <2>3. QED BY <2>1, <2>2
<1>9. QED BY <1>1, <1>7, <1>8 DEF Backed

\* An instant booked less than MinDelay ago still constrains, and a new booking
\* stands MinDelay after it.
LEMMA ConstrainingSpaces ==
    ASSUME IInv, SpaceSends, NEW v \in Int, v > now - MinDelay, Hits(slot.booked, {v}) # {}
    PROVE  Hits(Constraining, {v}) # {} /\ Booking.at - v >= MinDelay
<1>1. /\ now \in Nat /\ MinDelay \in Nat /\ now - MinDelay \in Int /\ slot.booked \in Seq(Int)
      /\ slot.sent \in Seq(Int) /\ slot.notBefore \in Int
      /\ Constraining \in Seq(Int) /\ Ascending(Constraining) /\ Spaced \in Int
    BY SlotType, SpacedBound DEF IInv
<1>2. Hits(Constraining, {v}) # {}
    <2>1. Cardinality(Hits(slot.booked, {v})) # 0
        BY <1>1, HitsFinite, FS_EmptySet
    <2>2. Cardinality(Hits(Constraining, {v})) = Cardinality(Hits(slot.booked, {v}))
        BY <1>1, HitsOfEvict DEF Constraining
    <2>3. QED BY <2>1, <2>2, FS_EmptySet
<1>3. PICK i \in 1..Len(Constraining) : Constraining[i] = v
    BY <1>1, <1>2, LenProperties DEF Hits
<1>4. /\ Constraining # <<>> /\ Last(Constraining) \in Int /\ v <= Last(Constraining)
    <2>1. Len(Constraining) \in Nat /\ Len(Constraining) \in 1..Len(Constraining)
        BY <1>1, <1>3, LenProperties
    <2>2. Constraining # <<>>
        BY <2>1, EmptySeq
    <2>3. Constraining[Len(Constraining)] \in Int
        BY <1>1, <2>1, ElementOfSeq
    <2>4. v <= Constraining[Len(Constraining)]
        BY <1>1, <1>3, <2>1 DEF Ascending
    <2>5. QED BY <2>2, <2>3, <2>4 DEF Last
<1>5. Spaced = Last(Constraining) + MinDelay
    BY <1>4 DEF Spaced
<1>6. Booking.at \in Int /\ Booking.at >= Spaced
    <2> DEFINE at == Later(Spaced, slot.notBefore)
    <2>1. at \in Int /\ at >= Spaced
        BY <1>1, LaterIsLater
    <2>2. Booking = Book(slot.sent, at)
        BY DEF Booking
    <2> HIDE DEF at
    <2>3. Booking.at \in Int /\ Booking.at >= at
        BY <1>1, <2>1, <2>2, BookBound
    <2>4. QED BY <1>1, <2>1, <2>3
<1> DEFINE l == Last(Constraining)
           b == Booking.at
<1>7. l \in Int /\ v <= l /\ b \in Int /\ b >= l + MinDelay /\ MinDelay \in Nat
    BY <1>1, <1>4, <1>5, <1>6
<1> HIDE DEF l, b
<1>8. b - v >= MinDelay
    BY <1>7
<1>9. QED BY <1>2, <1>8 DEF b

\* ... their spacing ...
LEMMA ReserveGaps ==
    ASSUME IInv, Bookings, NEW c \in Callers, Reserve(c)
    PROVE  GapsKept'
<1> SUFFICES ASSUME SpaceSends, MinDelay > 0 PROVE GapsKept'
    BY DEF GapsKept
<1> DEFINE g == Booking.at
           n == Len(sends) + 1
           e == [at |-> now, booked |-> now]
<1>1. /\ c \notin In(HoldsBooking) /\ g \in Int /\ g >= now /\ now \in Nat /\ now' = now
      /\ \A d \in In(HoldsBooking) : call'[d].admitAt = call[d].admitAt
      /\ slot'.booked = Append(Constraining, g)
    BY ReserveIs
<1>2. Joins(c) \/ Departs(c)
    BY ReserveIs
<1>3. /\ \A i \in DOMAIN sends : sends[i].at \in Nat
      /\ \A d \in In(HoldsBooking) : call[d].admitAt \in Int
      /\ MinDelay \in Nat
    BY InstantsType, SlotType
<1>4. /\ \A d \in In(HoldsBooking) : Hits(slot.booked, {call[d].admitAt}) # {}
      /\ \A d, f \in In(HoldsBooking) :
           d # f => \/ call[d].admitAt - call[f].admitAt >= MinDelay
                    \/ call[f].admitAt - call[d].admitAt >= MinDelay
      /\ \A d \in In(HoldsBooking) : \A i \in DOMAIN sends : call[d].admitAt - sends[i].at >= MinDelay
      /\ \A i \in DOMAIN sends :
           Hits(slot.booked, {sends[i].at}) # {} \/ sends[i].at + MinDelay <= now
      /\ \A i, j \in DOMAIN sends : i < j => sends[j].at - sends[i].at >= MinDelay
    BY DEF Bookings, GapsKept
<1>5. \A d \in In(HoldsBooking) : now <= call[d].admitAt
    BY DEF Bookings, Timers
<1>6. ASSUME NEW v, v = g \/ Hits(Constraining, {v}) # {}
      PROVE  Hits(slot'.booked, {v}) # {}
    <2>1. Constraining \in Seq(Int)
        BY SpacedBound DEF IInv
    <2>2. /\ Len(Constraining) \in Nat
          /\ DOMAIN Constraining = 1..Len(Constraining)
          /\ DOMAIN slot'.booked = 1..(Len(Constraining) + 1)
          /\ \A i \in 1..Len(Constraining) : slot'.booked[i] = Constraining[i]
          /\ slot'.booked[Len(Constraining) + 1] = g
        BY <1>1, <2>1, AppendProperties, LenProperties
    <2> HIDE DEF g
    <2>3. CASE v = g
        BY <2>2, <2>3 DEF Hits
    <2>4. CASE Hits(Constraining, {v}) # {}
        BY <2>2, <2>4 DEF Hits
    <2>5. QED BY <1>6, <2>3, <2>4
<1>7. \A d \in In(HoldsBooking) :
        /\ g - call[d].admitAt >= MinDelay
        /\ Hits(slot'.booked, {call[d].admitAt}) # {}
    <2> SUFFICES ASSUME NEW d \in In(HoldsBooking)
                 PROVE  /\ g - call[d].admitAt >= MinDelay
                        /\ Hits(slot'.booked, {call[d].admitAt}) # {}
        OBVIOUS
    <2>1. call[d].admitAt \in Int /\ call[d].admitAt > now - MinDelay
        BY <1>1, <1>3, <1>5
    <2>2. Hits(Constraining, {call[d].admitAt}) # {} /\ g - call[d].admitAt >= MinDelay
        BY <1>4, <2>1, ConstrainingSpaces
    <2>3. QED BY <1>6, <2>2
<1>8. \A i \in DOMAIN sends :
        /\ g - sends[i].at >= MinDelay
        /\ Hits(slot'.booked, {sends[i].at}) # {} \/ sends[i].at + MinDelay <= now
    <2> SUFFICES ASSUME NEW i \in DOMAIN sends
                 PROVE  /\ g - sends[i].at >= MinDelay
                        /\ Hits(slot'.booked, {sends[i].at}) # {} \/ sends[i].at + MinDelay <= now
        OBVIOUS
    <2>1. CASE sends[i].at + MinDelay <= now
        BY <1>1, <1>3, <2>1
    <2>2. CASE ~(sends[i].at + MinDelay <= now)
        <3>1. sends[i].at \in Int /\ sends[i].at > now - MinDelay
            BY <1>1, <1>3, <2>2
        <3>2. Hits(Constraining, {sends[i].at}) # {} /\ g - sends[i].at >= MinDelay
            BY <1>4, <2>2, <3>1, ConstrainingSpaces
        <3>3. QED BY <1>6, <3>2
    <2>3. QED BY <2>1, <2>2
<1>9. Hits(slot'.booked, {g}) # {}
    BY <1>6
<1> HIDE DEF g
<1>10. CASE Joins(c)
    <2>1. /\ In(HoldsBooking)' = In(HoldsBooking) \cup {c} /\ call'[c].admitAt = g /\ sends' = sends
        BY <1>10 DEF Joins, g
    <2>2. /\ \A d, f \in In(HoldsBooking)' :
               d # f => \/ call'[d].admitAt - call'[f].admitAt >= MinDelay
                        \/ call'[f].admitAt - call'[d].admitAt >= MinDelay
          /\ \A d \in In(HoldsBooking)' : Hits(slot'.booked, {call'[d].admitAt}) # {}
          /\ \A d \in In(HoldsBooking)' : \A i \in DOMAIN sends : call'[d].admitAt - sends[i].at >= MinDelay
        BY <1>1, <1>4, <1>7, <1>8, <1>9, <2>1
    <2>3. QED BY <1>1, <1>4, <1>8, <2>1, <2>2 DEF GapsKept, Hits
<1>11. CASE Departs(c)
    <2>1. /\ In(HoldsBooking)' = In(HoldsBooking) /\ g = now
          /\ n \notin DOMAIN sends /\ DOMAIN sends' = DOMAIN sends \cup {n}
          /\ \A i \in DOMAIN sends : sends'[i] = sends[i] /\ i < n
          /\ sends'[n] = e
        <3>1. e \in [at : Nat, booked : Int]
            BY <1>1
        <3>2. QED BY <1>11, <3>1, SendsGrow DEF Departs, g
    <2>2. In(HoldsBooking) = {}
        <3> SUFFICES ASSUME NEW d \in In(HoldsBooking) PROVE FALSE
            OBVIOUS
        <3>1. /\ call[d].admitAt \in Int /\ call[d].admitAt >= now
              /\ now - call[d].admitAt >= MinDelay
            BY <1>3, <1>5, <1>7, <2>1
        <3>2. QED BY <1>1, <1>3, <3>1
    <2>3. e.at = now
        OBVIOUS
    <2> HIDE DEF n, e
    <2>4. \A i \in DOMAIN sends' :
            Hits(slot'.booked, {sends'[i].at}) # {} \/ sends'[i].at + MinDelay <= now
        BY <1>8, <1>9, <2>1, <2>3
    <2>5. ASSUME NEW i \in DOMAIN sends', NEW j \in DOMAIN sends', i < j
          PROVE  sends'[j].at - sends'[i].at >= MinDelay
        <3>1. i \in DOMAIN sends
            BY <2>1, <2>5, InstantsType DEF n
        <3>2. QED BY <1>4, <1>8, <2>1, <2>3, <2>5, <3>1
    <2>6. QED BY <1>1, <2>1, <2>2, <2>4, <2>5 DEF GapsKept, Hits
<1>12. QED BY <1>2, <1>10, <1>11

\* ... and the window's ration.
LEMMA ReserveQuota ==
    ASSUME IInv, Bookings, NEW c \in Callers, Reserve(c)
    PROVE  QuotaKept'
<1> SUFFICES ASSUME BookingsInOrder, Quota > 0 PROVE QuotaKept'
    BY DEF QuotaKept
<1> DEFINE g == Booking.at
           H == Cardinality(In(HoldsBooking))
<1>1. /\ c \notin In(HoldsBooking) /\ slot.sem < MaxConcurrent /\ now' = now
      /\ slot'.sent = Booking.sent
      /\ slot'.lastSend = slot.lastSend /\ slot'.notBefore = slot.notBefore
      /\ \A d \in In(HoldsBooking) : call'[d].admitAt = call[d].admitAt
      /\ \A V : /\ Standing(V) \in Nat
                /\ Standing(V)' = Standing(V) + IF g \in V THEN 1 ELSE 0
    BY ReserveIs
<1>2. Joins(c) \/ Departs(c)
    BY ReserveIs
<1>3. /\ g \in Int /\ g >= Asked /\ Booking.sent = Append(Live, g)
      /\ \A V \in SUBSET After(g - Period) : Cardinality(Hits(Live, V)) <= Quota - 1
      /\ g > Asked => Cardinality(Hits(Live, From(g - Period))) >= Quota
    BY Opens
<1>4. /\ Asked \in Int /\ Asked >= now /\ now \in Nat /\ Period \in Nat /\ Quota \in Nat
      /\ Live \in Seq(Int)
      /\ \A V : Cardinality(Hits(Live, V)) \in Nat
      /\ \A V \in SUBSET After(Asked - Period) :
            Cardinality(Hits(Live, V)) = Cardinality(Hits(slot.sent, V))
    BY LiveIs
<1>5. /\ \A d \in In(HoldsBooking) : call[d].admitAt \in Int /\ call[d].admitAt <= g
      /\ Ascending(Append(Live, g))
    BY GrantIsLatest, InstantsType
<1>6. H \in 0..1
    BY <1>1, OneHolder
<1>7. Asked' = Asked
    BY <1>1 DEF Asked, Spaced, BookingsInOrder
<1> HIDE DEF g
<1>8. \A V : Cardinality(Hits(slot'.sent, V)) = Cardinality(Hits(Live, V)) + IF g \in V THEN 1 ELSE 0
    BY <1>1, <1>3, <1>4, HitsOfAppend
<1>9. /\ \A V \in SUBSET After(Asked - Period) : Standing(V) <= Cardinality(Hits(slot.sent, V))
      /\ \A v \in Int : Standing(Within(v)) <= Quota
      /\ \A d \in In(HoldsBooking) :
            \/ call[d].admitAt <= Asked
            \/ Cardinality(Hits(slot.sent, From(call[d].admitAt - Period))) >= Quota - 1 + H
    BY DEF Bookings, QuotaKept
<1> HIDE DEF H
<1>10. ASSUME NEW V \in SUBSET After(Asked - Period)
       PROVE  Standing(V)' <= Cardinality(Hits(slot'.sent, V))
    <2>1. Standing(V) <= Cardinality(Hits(Live, V))
        BY <1>4, <1>9
    <2>2. /\ Standing(V)' = Standing(V) + IF g \in V THEN 1 ELSE 0
          /\ Cardinality(Hits(slot'.sent, V)) =
               Cardinality(Hits(Live, V)) + IF g \in V THEN 1 ELSE 0
          /\ Standing(V) \in Nat /\ Cardinality(Hits(Live, V)) \in Nat
        BY <1>1, <1>4, <1>8
    <2>3. QED BY <2>1, <2>2
<1>11. ASSUME NEW v \in Int PROVE Standing(Within(v))' <= Quota
    <2>1. /\ Standing(Within(v)) \in Nat
          /\ Standing(Within(v))' = Standing(Within(v)) + IF g \in Within(v) THEN 1 ELSE 0
        BY <1>1 DEF Within
    <2>2. CASE g \notin Within(v)
        BY <1>4, <1>9, <2>1, <2>2
    <2>3. CASE g \in Within(v)
        <3>1. v - Period < g /\ g <= v
            BY <2>3 DEF Within
        <3>2. \A d \in In(HoldsBooking) : call[d].admitAt \in Within(v) => call[d].admitAt \in Within(g)
            BY <1>3, <1>4, <1>5, <3>1 DEF Within
        <3>3. \A i \in DOMAIN sends : sends[i].booked \in Within(v) => sends[i].booked \in Within(g)
            <4> SUFFICES ASSUME NEW i \in DOMAIN sends, sends[i].booked \in Within(v)
                         PROVE  sends[i].booked \in Within(g)
                OBVIOUS
            <4>1. /\ sends[i].at \in Nat /\ sends[i].booked \in Int
                  /\ sends[i].booked <= sends[i].at /\ sends[i].at <= now
                BY InstantsType DEF Bookings, SendsPast
            <4>2. v - Period < sends[i].booked
                BY DEF Within
            <4>3. g - Period < sends[i].booked /\ sends[i].booked <= g
                BY <1>3, <1>4, <3>1, <4>1, <4>2
            <4>4. QED BY <4>1, <4>3 DEF Within
        <3>4. Standing(Within(v)) <= Standing(Within(g))
            BY <3>2, <3>3, StandingMonotone
        <3>5. /\ Within(g) \in SUBSET After(Asked - Period)
              /\ Within(g) \in SUBSET After(g - Period)
            BY <1>3, <1>4 DEF Within, After
        <3>6. Standing(Within(g)) <= Cardinality(Hits(Live, Within(g)))
            BY <1>4, <1>9, <3>5
        <3>7. Cardinality(Hits(Live, Within(g))) <= Quota - 1
            BY <1>3, <3>5
        <3>8. Standing(Within(g)) \in Nat /\ Cardinality(Hits(Live, Within(g))) \in Nat
            BY <1>1, <1>4
        <3>9. QED BY <1>4, <2>1, <2>3, <3>4, <3>6, <3>7, <3>8
    <2>4. QED BY <2>2, <2>3
<1>12. ASSUME NEW d \in In(HoldsBooking)
       PROVE  \/ call[d].admitAt <= Asked
              \/ Cardinality(Hits(slot'.sent, From(call[d].admitAt - Period))) >= Quota + H
    <2> DEFINE a == call[d].admitAt
    <2> SUFFICES ASSUME ~(a <= Asked)
                 PROVE  Cardinality(Hits(slot'.sent, From(a - Period))) >= Quota + H
        OBVIOUS
    <2>1. a \in Int /\ a <= g
        BY <1>5
    <2>2. Cardinality(Hits(slot.sent, From(a - Period))) >= Quota - 1 + H
        BY <1>9
    <2> HIDE DEF a
    <2>3. From(a - Period) \in SUBSET After(Asked - Period) /\ g \in From(a - Period)
        BY <1>3, <1>4, <2>1 DEF From, After
    <2>4. /\ Cardinality(Hits(Live, From(a - Period))) >= Quota - 1 + H
          /\ Cardinality(Hits(slot'.sent, From(a - Period))) =
               Cardinality(Hits(Live, From(a - Period))) + 1
          /\ Cardinality(Hits(Live, From(a - Period))) \in Nat
        BY <1>4, <1>8, <2>2, <2>3
    <2>5. QED BY <1>4, <1>6, <2>4
<1>13. ASSUME ~(g <= Asked)
       PROVE  Cardinality(Hits(slot'.sent, From(g - Period))) >= Quota + 1
    <2>1. g \in From(g - Period)
        BY <1>3, <1>4 DEF From
    <2>2. /\ Cardinality(Hits(Live, From(g - Period))) >= Quota
          /\ Cardinality(Hits(Live, From(g - Period))) \in Nat
          /\ Cardinality(Hits(slot'.sent, From(g - Period))) =
               Cardinality(Hits(Live, From(g - Period))) + 1
        BY <1>3, <1>4, <1>8, <1>13, <2>1
    <2>3. QED BY <1>4, <2>2
<1>14. \A d \in In(HoldsBooking)' :
         \/ call'[d].admitAt <= Asked
         \/ Cardinality(Hits(slot'.sent, From(call'[d].admitAt - Period)))
               >= Quota - 1 + Cardinality(In(HoldsBooking))'
    <2>0. \A V : Cardinality(Hits(slot'.sent, V)) \in Nat
        BY <1>4, <1>8
    <2>1. CASE Joins(c)
        <3>1. In(HoldsBooking)' = In(HoldsBooking) \cup {c} /\ call'[c].admitAt = g
            BY <2>1 DEF Joins, g
        <3>2. Cardinality(In(HoldsBooking))' = H + 1
            <4>1. Cardinality(In(HoldsBooking) \cup {c}) = Cardinality(In(HoldsBooking)) + 1
                BY <1>1, InFinite, FS_AddElement
            <4>2. QED BY <3>1, <4>1 DEF H
        <3>3. Quota - 1 + (H + 1) = Quota + H /\ Quota + H <= Quota + 1
            BY <1>4, <1>6
        <3>4. \A V : Cardinality(Hits(slot'.sent, V)) >= Quota + 1 =>
                       Cardinality(Hits(slot'.sent, V)) >= Quota + H
            BY <1>4, <1>6, <2>0
        <3>5. QED BY <1>1, <1>12, <1>13, <3>1, <3>2, <3>3, <3>4
    <2>2. CASE Departs(c)
        <3>1. In(HoldsBooking)' = In(HoldsBooking) /\ Cardinality(In(HoldsBooking))' = H
            BY <2>2 DEF Departs, H
        <3>2. \A V : Cardinality(Hits(slot'.sent, V)) >= Quota + H =>
                       Cardinality(Hits(slot'.sent, V)) >= Quota - 1 + H
            BY <1>4, <1>6, <2>0
        <3>3. QED BY <1>1, <1>12, <3>1, <3>2
    <2>3. QED BY <1>2, <2>1, <2>2
<1>15. Ascending(slot'.sent)
    BY <1>1, <1>3, <1>5
<1>16. QED BY <1>7, <1>10, <1>11, <1>14, <1>15 DEF QuotaKept, Ascending, Hits, From, Within

-----------------------------------------------------------------------------
(* Each action keeps the bookings.                                         *)

\* A limiter that has not begun has nothing to keep.
LEMMA InitBookings == Init => Bookings
<1> SUFFICES ASSUME Init PROVE Bookings
    OBVIOUS
<1>1. In(HoldsBooking) = {} /\ DOMAIN sends = {} /\ slot = NewSlot /\ now = 0
    <2>1. DOMAIN <<>> = {}
        BY EmptySeq, LenProperties
    <2>2. QED BY <2>1 DEF Init, In, HoldsBooking
<1>2. slot.sent = <<>> /\ slot.booked = <<>> /\ slot.lastSend = LongAgo
    BY <1>1 DEF NewSlot
<1>3. \A V : Cardinality(Hits(<<>>, V)) = 0 /\ Standing(V) = 0 /\ Cardinality(Held(V)) = 0
    <2> TAKE V
    <2>1. Held(V) = {} /\ Went(V) = {}
        BY <1>1 DEF Held, Went
    <2>2. QED BY <2>1, HitsOfEmpty, FS_EmptySet DEF Standing
<1>4. Ascending(<<>>)
    <2>1. 1..Len(<<>>) = {}
        BY EmptySeq
    <2>2. QED BY <2>1 DEF Ascending
<1>5. Timers /\ SendsPast /\ UseKnown /\ SlotPast
    BY <1>1, <1>2, IdleType, ConfigAssumption DEF Timers, SendsPast, UseKnown, SlotPast
<1>6. Backed(slot.sent) /\ Backed(slot.booked)
    BY <1>2, <1>3 DEF Backed
<1>7. GapsKept
    BY <1>1 DEF GapsKept
<1>8. QuotaKept
    BY <1>1, <1>2, <1>3, <1>4, ConfigAssumption DEF QuotaKept
<1>9. QED BY <1>5, <1>6, <1>7, <1>8 DEF Bookings

\* A step that neither books, withdraws nor sends keeps the bookings.
LEMMA QuietBookings ==
    ASSUME IInv, Bookings, IInv', Stands, Remembers \/ Forgets
    PROVE  Bookings'
BY QuietClock, QuietBacked, QuietGaps, QuietQuota DEF Bookings

\* What a slot that is dropped knew of the bookings is over.
LEMMA DroppedForgets ==
    ASSUME IInv, Bookings, ~mapped \/ Droppable,
           slot'.sent = <<>>, slot'.booked = <<>>, slot'.lastSend = LongAgo
    PROVE  Forgets
<1>1. In(HoldsBooking) = {} /\ In({"sending"}) = {}
    BY UnusedWhenDropped DEF In, HoldsRef, HoldsBooking
<1>2. /\ now \in Nat /\ slot.lastUsed \in Int /\ Idle \in Nat /\ LongAgo \in Int /\ LongAgo < 0
      /\ \A i \in DOMAIN sends : sends[i].at \in Nat
    <2>1. MinDelay \in Nat
        BY ConfigAssumption
    <2>2. LongAgo \in Int /\ LongAgo < 0 - MinDelay /\ Idle \in Nat
        BY IdleType
    <2>3. LongAgo < 0
        BY <2>1, <2>2
    <2>4. QED BY <2>2, <2>3, SlotType, InstantsType
<1>3. \A i \in DOMAIN sends : sends[i].at <= slot.lastUsed \/ sends[i].at + Idle <= now
    BY <1>1 DEF Bookings, UseKnown
<1>4. CASE ~mapped
    <2>1. slot.lastUsed = LongAgo
        BY <1>4 DEF IInv, NewSlot
    <2>2. QED BY <1>1, <1>2, <1>3, <2>1 DEF Forgets
<1>5. CASE Droppable
    <2>1. now - slot.lastUsed > Idle
        BY <1>5 DEF Droppable
    <2>2. QED BY <1>1, <1>2, <1>3, <2>1 DEF Forgets
<1>6. QED BY <1>4, <1>5

\* A step of a caller that holds no booking lets the others' stand.
LEMMA OthersStand ==
    ASSUME IInv, Bookings, NEW c \in Callers, NEW st, pc' = [pc EXCEPT ![c] = st],
           st \notin HoldsBooking, pc[c] \notin HoldsBooking,
           \A d \in Callers : d # c => call'[d] = call[d], UNCHANGED <<now, sends>>
    PROVE  Stands
<1>1. In(HoldsBooking)' = In(HoldsBooking)
    BY DEF In, IInv, TypeOK
<1>2. \A d \in In(HoldsBooking) : d \in Callers /\ d # c
    BY DEF In
<1>3. QED BY <1>1, <1>2, SlotType DEF Stands, Bookings, Timers

\* So does a step of nobody.
LEMMA AllStand ==
    ASSUME IInv, Bookings, UNCHANGED <<pc, call, now, sends>>
    PROVE  Stands /\ \A H : In(H)' = In(H)
<1>1. \A H : In(H)' = In(H)
    BY DEF In
<1>2. QED BY <1>1, SlotType DEF Stands, Bookings, Timers

\* The slot LoadOrStore leaves in the map remembers, or there is nothing left to.
LEMMA LoadedRemembers ==
    ASSUME IInv, Bookings, slot' = Loaded, In({"sending"})' = In({"sending"})
    PROVE  Remembers \/ Forgets
<1>1. CASE StillMapped
    BY <1>1, SlotType DEF Loaded, Remembers
<1>2. CASE ~StillMapped
    <2>1. ~mapped \/ Droppable
        BY <1>2 DEF StillMapped
    <2>2. slot' = NewSlot
        BY <1>2 DEF Loaded
    <2>3. QED BY <2>1, <2>2, DroppedForgets DEF NewSlot
<1>3. QED BY <1>1, <1>2

\* slotFor's sweep drops no slot that still knows of a booking.
LEMMA ArriveBookings ==
    ASSUME IInv, Bookings, IInv', NEW c \in Callers, Arrive(c) PROVE Bookings'
<1>1. /\ pc[c] = "idle" /\ pc' = [pc EXCEPT ![c] = "loaded"] /\ slot' = Loaded
      /\ UNCHANGED <<now, sends>>
    BY DEF Arrive, Goto, LoadOrStore, Loaded
<1>2. \A d \in Callers : d # c => call'[d] = call[d]
    BY DEF Arrive, IInv, TypeOK
<1>3. Stands
    BY <1>1, <1>2, OthersStand DEF HoldsBooking
<1>4. In({"sending"})' = In({"sending"})
    BY <1>1 DEF In, IInv, TypeOK
<1>5. QED BY <1>1, <1>3, <1>4, LoadedRemembers, QuietBookings

\* A reference is no booking.
LEMMA EnterSlotBookings ==
    ASSUME IInv, Bookings, IInv', NEW c \in Callers, EnterSlot(c) PROVE Bookings'
<1>1. /\ pc[c] = "loaded" /\ pc' = [pc EXCEPT ![c] = "queued"]
      /\ slot' = [slot EXCEPT !.refs = @ + 1]
      /\ UNCHANGED <<now, sends, call>>
    BY DEF EnterSlot, Goto, history
<1>2. Stands
    BY <1>1, OthersStand DEF HoldsBooking
<1>3. In({"sending"})' = In({"sending"})
    BY <1>1 DEF In, IInv, TypeOK
<1>4. Remembers
    BY <1>1, <1>3, SlotType DEF Remembers
<1>5. QED BY <1>2, <1>4, QuietBookings

\* A caller that loads again finds the bookings, or a slot that owes none.
LEMMA RetryLoadBookings ==
    ASSUME IInv, Bookings, IInv', NEW c \in Callers, RetryLoad(c) PROVE Bookings'
<1>1. /\ pc[c] = "loaded" /\ pc' = pc /\ slot' = (IF mapped THEN slot ELSE NewSlot)
      /\ call' = [call EXCEPT ![c].ptr = gen']
      /\ UNCHANGED <<now, sends>>
    BY DEF RetryLoad, history
<1>2. pc' = [pc EXCEPT ![c] = "loaded"] /\ \A d \in Callers : d # c => call'[d] = call[d]
    BY <1>1 DEF IInv, TypeOK
<1>3. Stands
    BY <1>1, <1>2, OthersStand DEF HoldsBooking
<1>4. Remembers \/ Forgets
    <2>1. CASE mapped
        BY <1>1, <2>1, SlotType DEF Remembers, In
    <2>2. CASE ~mapped
        BY <1>1, <2>2, DroppedForgets DEF NewSlot
    <2>3. QED BY <2>1, <2>2
<1>5. QED BY <1>3, <1>4, QuietBookings

\* A caller that gives up in the queue has nothing booked.
LEMMA CancelQueuedBookings ==
    ASSUME IInv, Bookings, IInv', NEW c \in Callers, CancelQueued(c) PROVE Bookings'
<1>1. /\ pc[c] = "queued" /\ pc' = [pc EXCEPT ![c] = "idle"] /\ slot' = Done(slot)
      /\ call' = [call EXCEPT ![c] = NoCall] /\ UNCHANGED <<now, sends>>
    BY DEF CancelQueued, Return, Goto, history
<1>2. \A d \in Callers : d # c => call'[d] = call[d]
    BY <1>1 DEF IInv, TypeOK
<1>3. Stands
    BY <1>1, <1>2, OthersStand DEF HoldsBooking
<1>4. Remembers
    BY <1>1, SlotType DEF Remembers, Done
<1>5. QED BY <1>3, <1>4, QuietBookings

\* A release tells the slot of the request that went out.
LEMMA ReleaseBookings ==
    ASSUME IInv, Bookings, IInv', NEW c \in Callers, Release(c) PROVE Bookings'
<1>1. /\ pc[c] = "sending" /\ pc' = [pc EXCEPT ![c] = "idle"]
      /\ slot' = [Done(slot) EXCEPT !.lastSend = IF SpaceSends THEN @ ELSE now, !.sem = @ - 1]
      /\ call' = [call EXCEPT ![c] = NoCall] /\ UNCHANGED <<now, sends>>
    BY DEF Release, Return, Goto
<1>2. \A d \in Callers : d # c => call'[d] = call[d]
    BY <1>1 DEF IInv, TypeOK
<1>3. Stands
    BY <1>1, <1>2, OthersStand DEF HoldsBooking
<1>4. Remembers
    BY <1>1, SlotType DEF Remembers, Done
<1>5. QED BY <1>3, <1>4, QuietBookings

\* A Retry-After puts later callers off and moves no booking.
LEMMA PenalizeBookings ==
    ASSUME IInv, Bookings, IInv', NEW h \in Holds, Penalize(h) PROVE Bookings'
<1>1. /\ slot' = [Loaded EXCEPT !.notBefore = Later(@, now + h), !.lastUsed = now]
      /\ UNCHANGED <<now, pc, call, sends>>
    BY DEF Penalize, Loaded, callerVars
<1>2. Stands
    BY <1>1, AllStand
<1>3. now + h \in Int
    <2>1. h \in Nat
        BY ConfigAssumption
    <2>2. QED BY <2>1, SlotType
<1>4. CASE StillMapped
    <2>1. slot' = [slot EXCEPT !.notBefore = Later(@, now + h), !.lastUsed = now]
        BY <1>1, <1>4 DEF Loaded
    <2>2. Later(slot.notBefore, now + h) >= slot.notBefore
        BY <1>3, SlotType, LaterIsLater
    <2>3. Remembers
        BY <1>1, <2>1, <2>2, SlotType DEF Remembers
    <2>4. QED BY <1>2, <2>3, QuietBookings
<1>5. CASE ~StillMapped
    <2>1. slot'.sent = <<>> /\ slot'.booked = <<>> /\ slot'.lastSend = LongAgo
        BY <1>1, <1>5 DEF Loaded, NewSlot
    <2>2. Forgets
        BY <1>5, <2>1, DroppedForgets DEF StillMapped
    <2>3. QED BY <1>2, <2>2, QuietBookings
<1>6. QED BY <1>4, <1>5

\* Another host's sweep drops no slot that still knows of a booking.
LEMMA OtherHostCallBookings ==
    ASSUME IInv, Bookings, IInv', OtherHostCall PROVE Bookings'
<1>1. /\ slot' = Loaded /\ UNCHANGED <<now, pc, call, sends>>
    BY DEF OtherHostCall, StillMapped, Loaded, callerVars, history, IInv, TypeOK
<1>2. Stands /\ In({"sending"})' = In({"sending"})
    BY <1>1, AllStand
<1>3. QED BY <1>1, <1>2, LoadedRemembers, QuietBookings

\* Time does not pass a caller whose timer is due.
LEMMA TickBookings ==
    ASSUME IInv, Bookings, IInv', Tick PROVE Bookings'
<1>1. /\ now' = now + 1 /\ UNCHANGED <<slot, pc, call, sends>>
      /\ In({"refusing"}) = {} /\ \A c \in In({"waiting"}) : now < call[c].wakeAt
    BY DEF Tick, slotVars, callerVars, history
<1>2. \A H : In(H)' = In(H)
    BY <1>1 DEF In
<1>3. \A c \in In(HoldsBooking) : now < call[c].wakeAt
    BY <1>1 DEF In, HoldsBooking
<1>4. now \in Nat /\ \A c \in In(HoldsBooking) : call[c].wakeAt \in Int
    BY SlotType, InstantsType
<1>5. Stands
    BY <1>1, <1>2, <1>3, <1>4 DEF Stands, Bookings, Timers
<1>6. Remembers
    BY <1>1, <1>2, SlotType DEF Remembers
<1>7. QED BY <1>5, <1>6, QuietBookings

\* A caller books an instant that leaves the others' bookings and the ration whole.
LEMMA ReserveBookings ==
    ASSUME IInv, Bookings, IInv', NEW c \in Callers, Reserve(c) PROVE Bookings'
BY ReserveClock, ReserveBacked, ReserveGaps, ReserveQuota DEF Bookings

-----------------------------------------------------------------------------
(* The theorems.                                                           *)

\* Every step of the limiter preserves the inductive invariant.
THEOREM StepIInv == IInv /\ [Next]_vars => IInv'
<1> SUFFICES ASSUME IInv, [Next]_vars PROVE IInv'
    OBVIOUS
<1>1. ASSUME NEW c \in Callers, CallerStep(c) PROVE IInv'
    <2>1. CASE Arrive(c)        BY <2>1, ArriveIInv
    <2>2. CASE EnterSlot(c)     BY <2>2, EnterSlotIInv
    <2>3. CASE RetryLoad(c)     BY <2>3, RetryLoadIInv
    <2>4. CASE CancelQueued(c)  BY <2>4, CancelQueuedIInv
    <2>5. CASE Reserve(c)       BY <2>5, ReserveIInv
    <2>6. CASE Refuse(c)        BY <2>6, WithdrawIInv DEF Refuse, HoldsBooking
    <2>7. CASE Wake(c)          BY <2>7, WakeIInv
    <2>8. CASE CancelWaiting(c) BY <2>8, WithdrawIInv DEF CancelWaiting, HoldsBooking
    <2>9. CASE Release(c)       BY <2>9, ReleaseIInv
    <2>10. QED
        BY <1>1, <2>1, <2>2, <2>3, <2>4, <2>5, <2>6, <2>7, <2>8, <2>9 DEF CallerStep
<1>2. ASSUME NEW h \in Holds, Penalize(h) PROVE IInv'
    BY <1>2, PenalizeIInv
<1>3. CASE OtherHostCall
    BY <1>3, OtherHostCallIInv
<1>4. CASE Tick
    <2>1. now' = now + 1 /\ now \in Nat
        BY <1>4 DEF Tick, IInv, TypeOK
    <2>2. QED BY <1>4, <2>1, TimePassesIInv DEF Tick
<1>5. CASE UNCHANGED vars
    BY <1>5, SlotType, TimePassesIInv DEF vars
<1>6. CASE Finished
    BY <1>5, <1>6 DEF Finished
<1>7. QED BY <1>1, <1>2, <1>3, <1>4, <1>5, <1>6 DEF Next

\* The inductive invariant holds throughout every run of the limiter.
THEOREM AlwaysIInv == Spec => []IInv
BY InitIInv, StepIInv, PTL DEF Spec

\* Every variable of the limiter keeps its type: the semaphore stays within
\* 0..MaxConcurrent and the reference count never goes negative.
THEOREM TypeCorrect == Spec => []TypeOK
<1>1. IInv => TypeOK
    BY DEF IInv
<1>2. QED BY <1>1, AlwaysIInv, PTL

\* The sweep drops no slot in use, and no caller goes on with a dropped slot.
THEOREM LiveSlots == Spec => []HeldSlotIsLive
<1>1. IInv => HeldSlotIsLive
    BY DEF IInv
<1>2. QED BY <1>1, AlwaysIInv, PTL

\* However slots come and go, at most MaxConcurrent requests are in flight.
THEOREM Capped == Spec => []ConcurrencyCap
<1>1. IInv => ConcurrencyCap
    <2> SUFFICES ASSUME IInv PROVE ConcurrencyCap
        OBVIOUS
    <2>1. In({"sending"}) \in SUBSET In(HoldsSem)
        BY DEF In, HoldsSem
    <2>2. Cardinality(In({"sending"})) <= Cardinality(In(HoldsSem))
        BY <2>1, InFinite, FS_Subset
    <2>3. slot.sem = Cardinality(In(HoldsSem))
        BY DEF IInv, Faithful, Counted
    <2>4. /\ Cardinality(In({"sending"})) \in Nat /\ MaxConcurrent \in Nat
          /\ slot.sem \in 0..MaxConcurrent
        BY InFinite, SlotType
    <2>5. QED BY <2>2, <2>3, <2>4 DEF ConcurrencyCap
<1>2. QED BY <1>1, AlwaysIInv, PTL

\* No caller books an instant before a Retry-After ends or before MinDelay has
\* passed since the last completion, whichever slots knew of them.
THEOREM Obliged == Spec => []ObligationsMet
<1>1. IInv => ObligationsMet
    BY DEF IInv
<1>2. QED BY <1>1, AlwaysIInv, PTL

\* Every step keeps what the bookings must keep.
THEOREM StepBInv == BInv /\ [Next]_vars => BInv'
<1> SUFFICES ASSUME IInv, Bookings, [Next]_vars PROVE IInv' /\ Bookings'
    BY DEF BInv
<1>1. IInv'
    BY StepIInv
<1>2. ASSUME NEW c \in Callers, CallerStep(c) PROVE Bookings'
    <2>1. CASE Arrive(c)        BY <1>1, <2>1, ArriveBookings
    <2>2. CASE EnterSlot(c)     BY <1>1, <2>2, EnterSlotBookings
    <2>3. CASE RetryLoad(c)     BY <1>1, <2>3, RetryLoadBookings
    <2>4. CASE CancelQueued(c)  BY <1>1, <2>4, CancelQueuedBookings
    <2>5. CASE Reserve(c)       BY <1>1, <2>5, ReserveBookings
    <2>6. CASE Refuse(c)        BY <1>1, <2>6, WithdrawBookings DEF Refuse, HoldsBooking
    <2>7. CASE Wake(c)          BY <1>1, <2>7, WakeBookings
    <2>8. CASE CancelWaiting(c) BY <1>1, <2>8, WithdrawBookings DEF CancelWaiting, HoldsBooking
    <2>9. CASE Release(c)       BY <1>1, <2>9, ReleaseBookings
    <2>10. QED
        BY <1>2, <2>1, <2>2, <2>3, <2>4, <2>5, <2>6, <2>7, <2>8, <2>9 DEF CallerStep
<1>3. ASSUME NEW h \in Holds, Penalize(h) PROVE Bookings'
    BY <1>1, <1>3, PenalizeBookings
<1>4. CASE OtherHostCall
    BY <1>1, <1>4, OtherHostCallBookings
<1>5. CASE Tick
    BY <1>1, <1>5, TickBookings
<1>6. CASE UNCHANGED vars
    <2>1. UNCHANGED <<slot, pc, call, now, sends>>
        BY <1>6 DEF vars, slotVars, callerVars, history
    <2>2. Stands /\ In({"sending"})' = In({"sending"})
        BY <2>1, AllStand
    <2>3. Remembers
        BY <2>1, <2>2, SlotType DEF Remembers
    <2>4. QED BY <1>1, <2>2, <2>3, QuietBookings
<1>7. CASE Finished
    BY <1>6, <1>7 DEF Finished
<1>8. QED BY <1>1, <1>2, <1>3, <1>4, <1>5, <1>6, <1>7 DEF Next

\* The bookings keep what they must in every run of the limiter.
THEOREM AlwaysBInv == Spec => []BInv
<1>1. Init => BInv
    BY InitIInv, InitBookings DEF BInv
<1>2. QED BY <1>1, StepBInv, PTL DEF Spec

\* Whatever is backed by its callers is no phantom.
LEMMA BackedNoPhantom == BInv => NoPhantomBooking
<1> SUFFICES ASSUME IInv, Bookings PROVE NoPhantomBooking
    BY DEF BInv
<1> SUFFICES ASSUME NEW s \in {slot.sent, slot.booked}, NEW v \in {s[i] : i \in DOMAIN s}, v > now
             PROVE  Occurrences(s, v) <= Cardinality({c \in In(HoldsBooking) : call[c].admitAt = v})
    BY DEF NoPhantomBooking
<1>1. s \in Seq(Int)
    BY SlotType
<1>2. v \in Int
    <2>1. PICK i \in DOMAIN s : v = s[i]
        OBVIOUS
    <2>2. i \in 1..Len(s)
        BY <1>1, LenProperties
    <2>3. QED BY <1>1, <2>1, <2>2, ElementOfSeq
<1>3. Cardinality(Hits(s, {v})) <= Cardinality(Held({v}))
    BY <1>2 DEF Bookings, Backed
<1>4. /\ {i \in DOMAIN s : s[i] = v} = Hits(s, {v})
      /\ {c \in In(HoldsBooking) : call[c].admitAt = v} = Held({v})
    BY DEF Hits, Held
<1>5. QED BY <1>3, <1>4 DEF Occurrences

\* The bookings ration what they should and nothing else: no caller that has gone
\* delays another and, where bookings are made in order, at most Quota of the requests
\* sent were booked within a Period.
THEOREM Booked == Spec => []BookingsKept
<1>1. BInv => BookingsKept
    <2> SUFFICES ASSUME BInv PROVE BookingsKept
        OBVIOUS
    <2>1. TypeOK /\ NoPhantomBooking
        BY BackedNoPhantom DEF BInv, IInv
    <2>2. ASSUME BookingsInOrder PROVE BookedWindow
        <3> SUFFICES ASSUME Quota > 0, NEW i \in DOMAIN sends
                     PROVE  Cardinality({j \in DOMAIN sends :
                                           /\ sends[j].booked > sends[i].booked - Period
                                           /\ sends[j].booked <= sends[i].booked}) <= Quota
            BY DEF BookedWindow
        <3> DEFINE v == sends[i].booked
        <3>1. v \in Int /\ Period \in Nat /\ Quota \in Nat
              /\ \A j \in DOMAIN sends : sends[j].booked \in Int
            BY InstantsType, ConfigAssumption DEF BInv
        <3>2. {j \in DOMAIN sends : sends[j].booked > v - Period /\ sends[j].booked <= v}
                = Went(Within(v))
            BY <3>1 DEF Went, Within
        <3>3. Standing(Within(v)) <= Quota
            BY <2>2, <3>1 DEF BInv, Bookings, QuotaKept
        <3>4. Cardinality(Held(Within(v))) \in Nat /\ Cardinality(Went(Within(v))) \in Nat
            BY CountsType DEF BInv
        <3>5. Cardinality(Went(Within(v))) <= Quota
            BY <3>1, <3>3, <3>4 DEF Standing
        <3>6. QED BY <3>2, <3>5
    <2>3. QED BY <2>1, <2>2 DEF BookingsKept
<1>2. QED BY <1>1, AlwaysBInv, PTL

\* In send-spaced mode two requests leave at least MinDelay apart, whatever was
\* booked, withdrawn or refused between them, and nothing withdrawn delays anyone.
THEOREM SpacedApart == Spec => []SendsSpaced
<1>1. BInv => SendsSpaced
    <2> SUFFICES ASSUME BInv PROVE SendsSpaced
        OBVIOUS
    <2>1. NoPhantomBooking
        BY BackedNoPhantom
    <2>2. ASSUME SpaceSends, NEW i \in 1..Len(sends) - 1
          PROVE  sends[i + 1].at - sends[i].at >= MinDelay
        <3>1. DOMAIN sends = 1..Len(sends) /\ Len(sends) \in Nat /\ MinDelay \in Nat
            BY InstantsType, ConfigAssumption DEF BInv
        <3>2. i \in DOMAIN sends /\ i + 1 \in DOMAIN sends /\ i < i + 1
            BY <3>1
        <3>3. sends[i].at \in Nat /\ sends[i + 1].at \in Nat
            BY <3>2, InstantsType DEF BInv
        <3>4. CASE MinDelay > 0
            BY <2>2, <3>2, <3>4 DEF BInv, Bookings, GapsKept
        <3>5. CASE ~(MinDelay > 0)
            <4>1. sends[i].at <= sends[i + 1].at
                BY <3>2 DEF BInv, Bookings, SendsPast
            <4>2. QED BY <3>1, <3>3, <3>5, <4>1
        <3>6. QED BY <3>4, <3>5
    <2>3. QED BY <2>1, <2>2 DEF SendsSpaced
<1>2. QED BY <1>1, AlwaysBInv, PTL
=============================================================================
