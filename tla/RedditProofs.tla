---------------------------- MODULE RedditProofs ----------------------------
(***************************************************************************)
(* What holds of the Reddit method chain for any crawls, pods and methods, *)
(* whatever Redis does: a blip never stops Reddit, and a hold lasts as     *)
(* long as it was placed for.  And of one crawl, for any comments, caps    *)
(* and methods, whatever Reddit answers: no reply is lost or asked for     *)
(* twice, and the caps leave whole threads.                                *)
(***************************************************************************)
EXTENDS RedditChain, RedditCrawl, SeqLemmas

Calls ==
    [start : Nat, candidates : SUBSET DOMAIN Methods, since : Nat, hold : Nat,
     fault : BOOLEAN, then : States]

LastMethod == Methods[Len(Methods)]

\* The locals of a run: it started in the past, and a hold it owes to an upstream
\* fault has another method behind it.
Sound(r) == r.start <= now /\ (r.fault => r.candidates \ {Min(r.candidates)} # {})

RunsSound == \A c \in Callers : Sound(call[c])

\* No pod holds the last method for an upstream fault: it is the one every run has
\* behind the others.
LastUnblamed == \A p \in Pods : ~blip[p][LastMethod]

\* What a pod has been asked to hold and still must, it holds.
AskedHeld ==
    \A p \in Pods : \A m \in Names : asked[p][m] > now => asked[p][m] <= downUntil[p][m]

IInv == TypeOK /\ RunsSound /\ LastUnblamed /\ AskedHeld

-----------------------------------------------------------------------------
(* The methods.                                                            *)

\* The list has a last place, and every place names a method.
LEMMA ListIs ==
    /\ Len(Methods) \in Nat \ {0} /\ DOMAIN Methods = 1..Len(Methods)
    /\ LastMethod \in Names /\ \A i \in DOMAIN Methods : Methods[i] \in Names
<1>1. Methods \in Seq(Names) /\ Methods # <<>>
    BY ConfigAssumption
<1> HIDE DEF Names
<1>2. Len(Methods) \in Nat \ {0} /\ DOMAIN Methods = 1..Len(Methods)
    BY <1>1, LenProperties, EmptySeq
<1>3. Len(Methods) \in DOMAIN Methods
    BY <1>2
<1>4. QED BY <1>2, <1>3 DEF Names, LastMethod

\* The first of some places is one of them, and what it names is a method; with a
\* place behind it, it is not the last method.
LEMMA FirstOf ==
    ASSUME NEW places \in SUBSET DOMAIN Methods, places # {}
    PROVE  /\ Min(places) \in places /\ Methods[Min(places)] \in Names
           /\ places \ {Min(places)} # {} => Methods[Min(places)] # LastMethod
<1>1. places \in SUBSET Nat /\ DOMAIN Methods = 1..Len(Methods) /\ Len(Methods) \in Nat
    BY ListIs
<1>2. Min(places) \in places /\ \A j \in places : Min(places) <= j
    BY <1>1, MinIsLeast
<1>3. Methods[Min(places)] \in Names
    BY <1>2, ListIs
<1>4. ASSUME places \ {Min(places)} # {} PROVE Methods[Min(places)] # LastMethod
  <2>1. PICK j \in places : j # Min(places)
      BY <1>4
  <2>2. Min(places) \in 1..Len(Methods) /\ j \in 1..Len(Methods) /\ Min(places) <= j
      BY <1>1, <1>2
  <2>3. Min(places) # Len(Methods)
      BY <2>1, <2>2
  <2>4. QED BY <1>2, <2>3, MethodsDistinct DEF LastMethod
<1>5. QED BY <1>2, <1>3, <1>4

\* The later of two instants is an instant, and neither is after it.
LEMMA LaterIs ==
    ASSUME NEW a \in Nat, NEW b \in Nat
    PROVE  /\ Later(a, b) \in Nat /\ Later(a, b) >= a /\ Later(a, b) >= b
           /\ Later(a, b) \in {a, b}
BY DEF Later

-----------------------------------------------------------------------------
(* The steps of a caller.                                                  *)

\* The locals of callers.
LEMMA CallIs ==
    ASSUME IInv, NEW c \in Callers
    PROVE  /\ call[c] \in Calls /\ call[c].start \in Nat /\ call[c].then \in States
           /\ call[c].candidates \in SUBSET DOMAIN Methods
           /\ call[c].hold \in Nat /\ call[c].fault \in BOOLEAN
           /\ pc[c] \in States /\ (pc[c] # "idle" => call[c].candidates # {})
           /\ Sound(call[c]) /\ PodOf[c] \in Pods /\ now \in Nat /\ now + call[c].hold \in Nat
<1>1. /\ call[c] \in Calls /\ pc[c] \in States /\ Sound(call[c]) /\ PodOf[c] \in Pods /\ now \in Nat
      /\ pc[c] # "idle" => call[c].candidates # {}
    BY ConfigAssumption DEF IInv, TypeOK, RunsSound, Calls
<1>2. /\ call[c].start \in Nat /\ call[c].then \in States /\ call[c].hold \in Nat
      /\ call[c].candidates \in SUBSET DOMAIN Methods /\ call[c].fault \in BOOLEAN
    BY <1>1 DEF Calls
<1>3. now + call[c].hold \in Nat
    BY <1>1, <1>2
<1>4. QED BY <1>1, <1>2, <1>3

\* A run that goes on knows its method.
LEMMA CurrentIs ==
    ASSUME IInv, NEW c \in Callers, pc[c] # "idle"
    PROVE  /\ Current(c) \in Names
           /\ Behind(c) # {} => Current(c) # LastMethod
           /\ Behind(c) \in SUBSET DOMAIN Methods
<1>1. call[c].candidates \in SUBSET DOMAIN Methods /\ call[c].candidates # {}
    BY CallIs
<1>2. QED BY <1>1, FirstOf DEF Current, Behind

\* Caller c goes to a state, with locals that are sound.
Moves(c) ==
    \E s \in States, r \in Calls :
      /\ pc' = [pc EXCEPT ![c] = s] /\ call' = [call EXCEPT ![c] = r]
      /\ s # "idle" => r.candidates # {}
      /\ Sound(r)

\* Such a step keeps the invariant when what it does to the holds does.
LEMMA MovesKeep ==
    ASSUME IInv, NEW c \in Callers, Moves(c), UNCHANGED now,
           downUntil' \in [Pods -> [Names -> Nat]], asked' \in [Pods -> [Names -> Nat]],
           down' \in [Pods -> [Names -> BOOLEAN]], blip' \in [Pods -> [Names -> BOOLEAN]],
           shared' \in [Names -> Nat], sharedDownUntil' \in [Pods -> Nat],
           legs' \in [Callers -> SUBSET Names], runs' \in Nat, faults' \in Nat,
           LastUnblamed', AskedHeld'
    PROVE  IInv' /\ Moves(c)
<1>1. PICK s \in States, r \in Calls :
         /\ pc' = [pc EXCEPT ![c] = s] /\ call' = [call EXCEPT ![c] = r]
         /\ s # "idle" => r.candidates # {}
         /\ Sound(r)
    BY DEF Moves
<1>2. /\ pc \in [Callers -> States] /\ call \in [Callers -> Calls] /\ now \in Nat
      /\ \A d \in Callers : pc[d] # "idle" => call[d].candidates # {}
      /\ \A d \in Callers : Sound(call[d])
    BY DEF IInv, TypeOK, RunsSound, Calls
<1>3. /\ pc' \in [Callers -> States] /\ call' \in [Callers -> Calls]
      /\ \A d \in Callers : (pc'[d] = IF d = c THEN s ELSE pc[d])
      /\ \A d \in Callers : (call'[d] = IF d = c THEN r ELSE call[d])
    BY <1>1, <1>2
<1>4. \A d \in Callers : pc'[d] # "idle" => call'[d].candidates # {}
    BY <1>1, <1>2, <1>3
<1>5. TypeOK'
    BY <1>2, <1>3, <1>4 DEF TypeOK, Calls
<1>6. RunsSound'
  <2>1. \A d \in Callers : Sound(call'[d])
      BY <1>1, <1>2, <1>3
  <2>2. QED BY <2>1 DEF RunsSound, Sound
<1>7. QED BY <1>5, <1>6 DEF IInv

\* What the holds and the reports of a step that leaves them alone are.
LEMMA HoldsStay ==
    ASSUME IInv
    PROVE  /\ downUntil \in [Pods -> [Names -> Nat]] /\ asked \in [Pods -> [Names -> Nat]]
           /\ down \in [Pods -> [Names -> BOOLEAN]] /\ blip \in [Pods -> [Names -> BOOLEAN]]
           /\ shared \in [Names -> Nat] /\ sharedDownUntil \in [Pods -> Nat]
           /\ legs \in [Callers -> SUBSET Names] /\ runs \in Nat /\ faults \in Nat
           /\ UNCHANGED blip => LastUnblamed'
           /\ UNCHANGED <<now, downUntil, asked>> => AskedHeld'
<1>1. UNCHANGED blip => LastUnblamed'
    BY DEF IInv, LastUnblamed
<1>2. UNCHANGED <<now, downUntil, asked>> => AskedHeld'
    BY DEF IInv, AskedHeld
<1>3. QED BY <1>1, <1>2 DEF IInv, TypeOK

\* A command that Redis answers, fails to answer or is not sent.
LEMMA RedisAsked ==
    ASSUME IInv, NEW p \in Pods, Reached(p) \/ Unreached(p) \/ Unasked(p)
    PROVE  sharedDownUntil' \in [Pods -> Nat] /\ faults' \in Nat
<1>1. now + SharedCooldown \in Nat /\ 0 \in Nat
    BY ConfigAssumption DEF IInv, TypeOK
<1>2. sharedDownUntil \in [Pods -> Nat] /\ faults \in Nat
    BY DEF IInv, TypeOK
<1>3. CASE Reached(p)
    BY <1>1, <1>2, <1>3 DEF Reached
<1>4. CASE Unreached(p)
  <2>1. faults' \in Nat
      BY <1>2, <1>4 DEF Unreached
  <2>2. sharedDownUntil' \in [Pods -> Nat]
      BY <1>1, <1>2, <1>4 DEF Unreached
  <2>3. QED BY <2>1, <2>2
<1>5. CASE Unasked(p)
    BY <1>2, <1>5 DEF Unasked
<1>6. QED BY <1>3, <1>4, <1>5

\* A step that only moves its caller.
LEMMA OnlyMoves ==
    ASSUME IInv, NEW c \in Callers, Moves(c), UNCHANGED <<now, local, shared, history>>,
           legs' \in [Callers -> SUBSET Names]
    PROVE  IInv' /\ Moves(c)
<1>1. UNCHANGED <<now, downUntil, down, sharedDownUntil, shared, runs, faults, asked, blip>>
    BY DEF local, history
<1>2. QED BY <1>1, HoldsStay, MovesKeep

\* A caller without a run has sound locals.
LEMMA NoCallIs == ASSUME IInv PROVE NoCall \in Calls /\ Sound(NoCall)
<1>1. NoCall \in Calls
    BY DEF NoCall, Calls, States
<1>2. now \in Nat /\ NoCall.start = 0 /\ NoCall.fault = FALSE
    BY DEF NoCall, IInv, TypeOK
<1>3. QED BY <1>1, <1>2 DEF Sound

\* A caller that returns.
LEMMA Returns ==
    ASSUME IInv, NEW c \in Callers, Return(c)
    PROVE  Moves(c)
<1>1. /\ pc' = [pc EXCEPT ![c] = "idle"] /\ call' = [call EXCEPT ![c] = NoCall]
    BY DEF Return, Goto
<1>2. "idle" \in States
    BY DEF States
<1>3. QED BY <1>1, <1>2, NoCallIs DEF Moves

\* A caller that goes on with locals of which only the hold, what follows it and
\* when it began have changed.
LEMMA GoesOn ==
    ASSUME IInv, NEW c \in Callers, pc[c] # "idle", NEW s \in States, NEW r \in Calls,
           Goto(c, s), call' = [call EXCEPT ![c] = r],
           r.start = call[c].start, r.candidates = call[c].candidates,
           r.fault => call[c].fault \/ Behind(c) # {}
    PROVE  Moves(c)
<1>1. call[c].candidates # {} /\ Sound(call[c])
    BY CallIs
<1>2. Sound(r)
    BY <1>1 DEF Sound, Behind
<1>3. QED BY <1>1, <1>2 DEF Moves, Goto

\* Or with the locals it had.
LEMMA GoesOnAsIs ==
    ASSUME IInv, NEW c \in Callers, pc[c] # "idle", NEW s \in States, Goto(c, s),
           UNCHANGED call
    PROVE  Moves(c)
<1>1. call[c] \in Calls /\ call \in [Callers -> Calls]
    BY CallIs DEF IInv, TypeOK, Calls
<1>2. call' = [call EXCEPT ![c] = call[c]]
    BY <1>1
<1>3. QED BY <1>1, <1>2, GoesOn

\* A run starts.
LEMMA BeginKeeps ==
    ASSUME IInv, NEW c \in Callers, NEW directOnly \in BOOLEAN,
           NEW holds \in [Names -> Nat], Begin(c, directOnly, holds),
           Reached(PodOf[c]) \/ Unreached(PodOf[c]) \/ Unasked(PodOf[c])
    PROVE  IInv' /\ Moves(c)
<1> DEFINE p == PodOf[c]
           skipped == {m \in Usable(directOnly) : now < SkippedUntil(p, m, holds)}
           candidates == {i \in DOMAIN Methods : Methods[i] \in Usable(directOnly) \ skipped}
<1>1. /\ now \in Nat /\ p \in Pods /\ runs \in Nat
      /\ call \in [Callers -> Calls] /\ pc \in [Callers -> States]
    BY CallIs DEF IInv, TypeOK, Calls
<1>2. /\ runs' = runs + 1
      /\ down' = [down EXCEPT ![p] = [m \in Names |-> @[m] \/ m \in skipped]]
      /\ legs' = legs \/ legs' = [legs EXCEPT ![c] = {}]
      /\ UNCHANGED <<now, downUntil, shared, asked, blip>>
    BY DEF Begin
<1>3. Moves(c)
  <2>1. CASE candidates = {}
    <3>1. UNCHANGED <<pc, call>> /\ pc[c] = "idle"
        BY <2>1 DEF Begin
    <3>2. pc' = [pc EXCEPT ![c] = "idle"] /\ call' = [call EXCEPT ![c] = call[c]]
        BY <1>1, <3>1
    <3>3. call[c] \in Calls /\ Sound(call[c]) /\ "idle" \in States
        BY CallIs DEF States
    <3>4. QED BY <3>2, <3>3 DEF Moves
  <2>2. CASE candidates # {}
    <3> DEFINE r == [NoCall EXCEPT !.start = now, !.since = now, !.candidates = candidates]
    <3>1. call' = [call EXCEPT ![c] = r] /\ pc' = [pc EXCEPT ![c] = "trying"]
        BY <2>2 DEF Begin, Goto
    <3> HIDE DEF candidates
    <3>2. candidates \in SUBSET DOMAIN Methods
        BY DEF candidates
    <3>3. r \in Calls /\ r.start = now /\ r.fault = FALSE /\ r.candidates = candidates
        BY <1>1, <3>2 DEF Calls, NoCall, States
    <3>4. "trying" \in States
        BY DEF States
    <3> HIDE DEF r
    <3>5. Sound(r)
        BY <1>1, <3>3 DEF Sound
    <3>6. QED BY <2>2, <3>1, <3>3, <3>4, <3>5 DEF Moves
  <2>3. QED BY <2>1, <2>2
<1>4. down' \in [Pods -> [Names -> BOOLEAN]]
  <2> DEFINE reported == [m \in Names |-> down[p][m] \/ m \in skipped]
  <2> HIDE DEF skipped
  <2>1. reported \in [Names -> BOOLEAN]
      OBVIOUS
  <2>2. down' = [down EXCEPT ![p] = reported] /\ down \in [Pods -> [Names -> BOOLEAN]]
      BY <1>1, <1>2, HoldsStay
  <2> HIDE DEF reported
  <2>3. QED BY <1>1, <2>1, <2>2
<1>5. legs' \in [Callers -> SUBSET Names] /\ runs' \in Nat
  <2>1. legs \in [Callers -> SUBSET Names]
      BY HoldsStay
  <2>2. QED BY <1>1, <1>2, <2>1
<1>6. sharedDownUntil' \in [Pods -> Nat] /\ faults' \in Nat
    BY <1>1, RedisAsked
<1> HIDE DEF p, skipped, candidates
<1>7. QED BY <1>2, <1>3, <1>4, <1>5, <1>6, HoldsStay, MovesKeep

\* A method answers or fails, and the run stays with it, leaves it or ends.
LEMMA TryingKeeps ==
    ASSUME IInv, NEW c \in Callers,
           \/ Succeeds(c) \/ FailsOver(c) \/ UpstreamFault(c) \/ Gives(c) \/ NextMethod(c)
           \/ \E d \in Backoffs : BacksOff(c, d)
    PROVE  IInv' /\ Moves(c)
<1>1. /\ pc[c] \in {"trying", "failed"} /\ UNCHANGED <<now, local, shared, history>>
    BY DEF Succeeds, FailsOver, UpstreamFault, Gives, NextMethod, BacksOff
<1>2. /\ call[c] \in Calls /\ call \in [Callers -> Calls] /\ call[c].candidates # {}
      /\ legs \in [Callers -> SUBSET Names] /\ Current(c) \in Names /\ now \in Nat
      /\ Behind(c) \in SUBSET DOMAIN Methods /\ Sound(call[c])
    BY <1>1, CallIs, CurrentIs DEF IInv, TypeOK, Calls
<1>3. /\ {"idle", "trying", "hold", "failed", "succeeded"} \subseteq States
      /\ MethodCooldown \in Nat /\ \A d \in {0} \cup Backoffs : d \in Nat
    BY ConfigAssumption DEF States
<1>4. CASE Succeeds(c)
  <2>1. Goto(c, "succeeded") /\ UNCHANGED <<call, legs>>
      BY <1>4 DEF Succeeds
  <2>2. Moves(c)
      BY <1>1, <1>3, <2>1, GoesOnAsIs
  <2>3. QED BY <1>1, <1>2, <2>1, <2>2, OnlyMoves
<1>5. CASE \E d \in Backoffs : BacksOff(c, d)
  <2>1. PICK d \in Backoffs, then \in {"succeeded", "idle"} :
           call' = [call EXCEPT ![c].hold = d, ![c].then = then, ![c].since = 0]
      BY <1>5 DEF BacksOff
  <2>2. Goto(c, "hold") /\ legs' = [legs EXCEPT ![c] = @ \cup {Current(c)}]
      BY <1>5 DEF BacksOff
  <2> DEFINE r == [call[c] EXCEPT !.hold = d, !.then = then, !.since = 0]
  <2>3. call' = [call EXCEPT ![c] = r]
      BY <1>2, <2>1 DEF Calls
  <2>4. /\ r \in Calls /\ r.start = call[c].start /\ r.candidates = call[c].candidates
        /\ r.fault = call[c].fault
      BY <1>2, <1>3, <2>1 DEF Calls
  <2> HIDE DEF r
  <2>5. Moves(c)
      BY <1>1, <1>3, <2>2, <2>3, <2>4, GoesOn
  <2>6. legs' \in [Callers -> SUBSET Names]
      BY <1>2, <2>2
  <2>7. QED BY <1>1, <2>5, <2>6, OnlyMoves
<1>6. CASE FailsOver(c)
  <2>1. PICK d \in {0} \cup Backoffs :
           /\ call' = [call EXCEPT ![c].hold = Later(MethodCooldown, d), ![c].then = "failed",
                                   ![c].since = 0]
           /\ legs' = IF d = 0 THEN legs ELSE [legs EXCEPT ![c] = @ \cup {Current(c)}]
      BY <1>6 DEF FailsOver
  <2>2. Goto(c, "hold")
      BY <1>6 DEF FailsOver
  <2> DEFINE hold == Later(MethodCooldown, d)
             r == [call[c] EXCEPT !.hold = hold, !.then = "failed", !.since = 0]
  <2>3. hold \in Nat
      BY <1>3, LaterIs
  <2>4. call' = [call EXCEPT ![c].hold = hold, ![c].then = "failed", ![c].since = 0]
      BY <2>1
  <2> HIDE DEF hold
  <2>5. call' = [call EXCEPT ![c] = r]
      BY <1>2, <2>4 DEF Calls
  <2>6. /\ r \in Calls /\ r.start = call[c].start /\ r.candidates = call[c].candidates
        /\ r.fault = call[c].fault
      BY <1>2, <1>3, <2>3 DEF Calls
  <2> HIDE DEF r
  <2>7. Moves(c)
      BY <1>1, <1>3, <2>2, <2>5, <2>6, GoesOn
  <2>8. legs' \in [Callers -> SUBSET Names]
      BY <1>2, <2>1
  <2>9. QED BY <1>1, <2>7, <2>8, OnlyMoves
<1>7. CASE UpstreamFault(c)
  <2>1. UNCHANGED legs
      BY <1>7 DEF UpstreamFault
  <2>2. CASE Behind(c) # {}
    <3>1. /\ call' = [call EXCEPT ![c].hold = MethodCooldown, ![c].then = "failed",
                                  ![c].fault = TRUE]
          /\ Goto(c, "hold")
        BY <1>7, <2>2 DEF UpstreamFault
    <3> DEFINE r == [call[c] EXCEPT !.hold = MethodCooldown, !.then = "failed", !.fault = TRUE]
    <3>2. call' = [call EXCEPT ![c] = r]
        BY <1>2, <3>1 DEF Calls
    <3>3. r \in Calls /\ r.start = call[c].start /\ r.candidates = call[c].candidates
        BY <1>2, <1>3 DEF Calls
    <3> HIDE DEF r
    <3>4. Moves(c)
        BY <1>1, <1>3, <2>2, <3>1, <3>2, <3>3, GoesOn
    <3>5. QED BY <1>1, <1>2, <2>1, <3>4, OnlyMoves
  <2>3. CASE Behind(c) = {}
    <3>1. Moves(c)
        BY <1>7, <2>3, Returns DEF UpstreamFault
    <3>2. QED BY <1>1, <1>2, <2>1, <3>1, OnlyMoves
  <2>4. QED BY <2>2, <2>3
<1>8. CASE Gives(c)
  <2>1. Moves(c) /\ UNCHANGED legs
      BY <1>8, Returns DEF Gives
  <2>2. QED BY <1>1, <1>2, <2>1, OnlyMoves
<1>9. CASE NextMethod(c)
  <2>1. UNCHANGED legs
      BY <1>9 DEF NextMethod
  <2>2. CASE Behind(c) # {}
    <3> DEFINE r == [call[c] EXCEPT !.candidates = Behind(c), !.since = now, !.fault = FALSE]
    <3>1. call' = [call EXCEPT ![c] = r] /\ pc' = [pc EXCEPT ![c] = "trying"]
        BY <1>2, <1>9, <2>2 DEF NextMethod, Goto, Calls
    <3>2. r \in Calls /\ r.start = call[c].start /\ r.candidates = Behind(c) /\ r.fault = FALSE
        BY <1>2 DEF Calls
    <3> HIDE DEF r
    <3>3. Sound(r)
        BY <1>2, <3>2 DEF Sound
    <3>4. Moves(c)
        BY <1>3, <2>2, <3>1, <3>2, <3>3 DEF Moves
    <3>5. QED BY <1>1, <1>2, <2>1, <3>4, OnlyMoves
  <2>3. CASE Behind(c) = {}
    <3>1. Moves(c)
        BY <1>9, <2>3, Returns DEF NextMethod
    <3>2. QED BY <1>1, <1>2, <2>1, <3>1, OnlyMoves
  <2>4. QED BY <2>2, <2>3
<1>10. QED BY <1>4, <1>5, <1>6, <1>7, <1>8, <1>9

\* The pod holds the method: the hold it runs is the latest it was asked for, and a
\* fault holds no last method.
LEMMA HoldLocalKeeps ==
    ASSUME IInv, NEW c \in Callers, HoldLocal(c)
    PROVE  IInv' /\ Moves(c)
<1> DEFINE p == PodOf[c]
           m == Current(c)
           until == now + call[c].hold
           fault == call[c].fault
<1>1. pc[c] # "idle" /\ Goto(c, "report down")
      /\ UNCHANGED <<now, down, sharedDownUntil, shared, call, legs, runs, faults>>
    BY DEF HoldLocal
<1>2. p \in Pods /\ m \in Names /\ until \in Nat /\ fault \in BOOLEAN /\ now \in Nat
  <2>1. m \in Names
      BY <1>1, CurrentIs
  <2>2. QED BY <2>1, CallIs
<1>3. fault => m # LastMethod
  <2>1. fault => Behind(c) # {}
      BY CallIs DEF Sound, Behind
  <2>2. QED BY <1>1, <2>1, CurrentIs
<1>4. /\ downUntil' = [downUntil EXCEPT ![p][m] = Later(downUntil[p][m], until)]
      /\ asked' = [asked EXCEPT ![p][m] = Later(asked[p][m], until)]
      /\ blip' = [blip EXCEPT ![p][m] = IF until > downUntil[p][m] THEN fault ELSE blip[p][m]]
    BY <1>2, HoldsStay DEF HoldLocal
<1>5. "report down" \in States
    BY DEF States
<1>6. Moves(c)
    BY <1>1, <1>5, GoesOnAsIs
<1> HIDE DEF p, m, until, fault
<1>7. /\ downUntil \in [Pods -> [Names -> Nat]] /\ asked \in [Pods -> [Names -> Nat]]
      /\ blip \in [Pods -> [Names -> BOOLEAN]]
    BY HoldsStay
<1>8. Later(downUntil[p][m], until) \in Nat /\ Later(asked[p][m], until) \in Nat
  <2>1. downUntil[p][m] \in Nat /\ asked[p][m] \in Nat
      BY <1>2, <1>7
  <2>2. QED BY <1>2, <2>1, LaterIs
<1> DEFINE d == Later(downUntil[p][m], until)
           a == Later(asked[p][m], until)
           b == IF until > downUntil[p][m] THEN fault ELSE blip[p][m]
<1>9. a > now => a <= d
  <2>1. asked[p][m] > now => asked[p][m] <= downUntil[p][m]
      BY <1>2 DEF IInv, AskedHeld
  <2>2. asked[p][m] \in Nat /\ downUntil[p][m] \in Nat
      BY <1>2, <1>7
  <2>3. \A x, y, u, t \in Nat : (x > t => x <= y) => (Later(x, u) > t => Later(x, u) <= Later(y, u))
      BY DEF Later
  <2>4. QED BY <1>2, <2>1, <2>2, <2>3
<1>10. b \in BOOLEAN /\ (m = LastMethod => ~b)
  <2>1. ~blip[p][LastMethod]
      BY <1>2 DEF IInv, LastUnblamed
  <2>2. CASE until > downUntil[p][m]
      BY <1>2, <1>3, <2>2
  <2>3. CASE ~ (until > downUntil[p][m])
      BY <1>2, <1>7, <2>1, <2>3
  <2>4. QED BY <2>2, <2>3
<1>11. d \in Nat /\ a \in Nat /\ downUntil' = [downUntil EXCEPT ![p][m] = d]
       /\ asked' = [asked EXCEPT ![p][m] = a] /\ blip' = [blip EXCEPT ![p][m] = b]
    BY <1>4, <1>8
<1> HIDE DEF d, a, b
<1>12. /\ downUntil' \in [Pods -> [Names -> Nat]] /\ asked' \in [Pods -> [Names -> Nat]]
       /\ blip' \in [Pods -> [Names -> BOOLEAN]]
    BY <1>2, <1>7, <1>10, <1>11
<1>13. LastUnblamed'
  <2>1. ASSUME NEW q \in Pods PROVE ~blip'[q][LastMethod]
    <3>1. ~blip[q][LastMethod] /\ LastMethod \in Names
        BY ListIs DEF IInv, LastUnblamed
    <3>2. CASE q = p /\ LastMethod = m
        BY <1>2, <1>7, <1>10, <1>11, <3>2
    <3>3. CASE ~ (q = p /\ LastMethod = m)
        BY <1>2, <1>7, <1>11, <3>1, <3>3
    <3>4. QED BY <3>2, <3>3
  <2>2. QED BY <2>1 DEF LastUnblamed, LastMethod
<1>14. AskedHeld'
  <2>1. ASSUME NEW q \in Pods, NEW n \in Names
        PROVE  asked'[q][n] > now => asked'[q][n] <= downUntil'[q][n]
    <3>1. asked[q][n] > now => asked[q][n] <= downUntil[q][n]
        BY DEF IInv, AskedHeld
    <3>2. CASE q = p /\ n = m
      <4>1. asked'[q][n] = a /\ downUntil'[q][n] = d
          BY <1>2, <1>7, <1>11, <3>2
      <4>2. QED BY <1>9, <4>1
    <3>3. CASE ~ (q = p /\ n = m)
      <4>1. asked'[q][n] = asked[q][n] /\ downUntil'[q][n] = downUntil[q][n]
          BY <1>2, <1>7, <1>11, <3>3
      <4>2. QED BY <3>1, <4>1
    <3>4. QED BY <3>2, <3>3
  <2>2. now' = now
      BY <1>1
  <2>3. QED BY <2>1, <2>2 DEF AskedHeld
<1>15. QED BY <1>1, <1>6, <1>12, <1>13, <1>14, HoldsStay, MovesKeep

\* It reports the method down, and tells the other pods.
LEMMA ShareHoldKeeps ==
    ASSUME IInv, NEW c \in Callers, ReportDown(c) \/ ShareHold(c)
    PROVE  IInv' /\ Moves(c)
<1>1. pc[c] # "idle" /\ UNCHANGED <<now, downUntil, legs, runs, asked, blip>>
    BY DEF ReportDown, ShareHold, history
<1>2. /\ PodOf[c] \in Pods /\ Current(c) \in Names /\ now + call[c].hold \in Nat
      /\ down \in [Pods -> [Names -> BOOLEAN]] /\ shared \in [Names -> Nat]
      /\ call[c] \in Calls /\ call \in [Callers -> Calls] /\ call[c].then \in States
    BY <1>1, CallIs, CurrentIs, HoldsStay DEF IInv, TypeOK, Calls
<1>3. CASE ReportDown(c)
  <2>1. /\ down' = [down EXCEPT ![PodOf[c]][Current(c)] = TRUE] /\ Goto(c, "share hold")
        /\ UNCHANGED <<sharedDownUntil, shared, call, faults>>
      BY <1>3 DEF ReportDown, history
  <2>2. down' \in [Pods -> [Names -> BOOLEAN]]
      BY <1>2, <2>1
  <2>3. "share hold" \in States
      BY DEF States
  <2>4. Moves(c)
      BY <1>1, <2>1, <2>3, GoesOnAsIs
  <2>5. QED BY <1>1, <2>1, <2>2, <2>4, HoldsStay, MovesKeep
<1>4. CASE ShareHold(c)
  <2> DEFINE p == PodOf[c]
             m == Current(c)
             until == now + call[c].hold
  <2>1. Reached(p) \/ Unreached(p) \/ Unasked(p)
      BY <1>4 DEF ShareHold
  <2>2. shared' = [shared EXCEPT ![m] = Later(shared[m], until)] \/ UNCHANGED shared
      BY <1>2, <1>4 DEF ShareHold, Extend
  <2>3. shared' \in [Names -> Nat]
    <3> HIDE DEF m, until
    <3>1. m \in Names /\ until \in Nat /\ shared[m] \in Nat
        BY <1>2 DEF m, until
    <3>2. Later(shared[m], until) \in Nat
        BY <3>1, LaterIs
    <3>3. QED BY <1>2, <2>2, <3>1, <3>2
  <2>4. Moves(c)
    <3>1. CASE call[c].then = "idle"
        BY <1>4, <3>1, Returns DEF ShareHold
    <3>2. CASE call[c].then # "idle"
      <4> DEFINE r == [call[c] EXCEPT !.hold = 0, !.then = "idle"]
      <4>1. /\ Goto(c, call[c].then)
            /\ call' = [call EXCEPT ![c].hold = 0, ![c].then = "idle"]
          BY <1>4, <3>2 DEF ShareHold
      <4>2. call' = [call EXCEPT ![c] = r]
          BY <1>2, <4>1 DEF Calls
      <4>3. "idle" \in States
          BY DEF States
      <4>4. /\ r \in Calls /\ r.start = call[c].start /\ r.candidates = call[c].candidates
            /\ r.fault = call[c].fault
          BY <1>2, <4>3 DEF Calls
      <4> HIDE DEF r
      <4>5. QED BY <1>1, <1>2, <4>1, <4>2, <4>4, GoesOn
    <3>3. QED BY <3>1, <3>2
  <2>5. UNCHANGED down
      BY <1>4 DEF ShareHold
  <2>6. sharedDownUntil' \in [Pods -> Nat] /\ faults' \in Nat
      BY <1>2, <2>1, RedisAsked
  <2>7. QED BY <1>1, <2>3, <2>4, <2>5, <2>6, HoldsStay, MovesKeep
<1>5. QED BY <1>3, <1>4

\* A success ends the hold of its own pod that was there when the run started, and
\* none that was placed since.
LEMMA MarkUpKeeps ==
    ASSUME IInv, NEW c \in Callers, StaysHeld(c) \/ Clear(c) \/ ReportUp(c) \/ ShareClear(c)
    PROVE  IInv' /\ Moves(c)
<1> DEFINE p == PodOf[c]
           m == Current(c)
<1>1. pc[c] # "idle" /\ UNCHANGED <<now, runs, asked, blip>>
    BY DEF StaysHeld, Clear, ReportUp, ShareClear, history
<1>2. /\ p \in Pods /\ m \in Names /\ call[c].start \in Nat /\ call[c].start <= now /\ now \in Nat
      /\ downUntil \in [Pods -> [Names -> Nat]] /\ asked \in [Pods -> [Names -> Nat]]
      /\ down \in [Pods -> [Names -> BOOLEAN]] /\ shared \in [Names -> Nat]
      /\ legs \in [Callers -> SUBSET Names]
  <2>1. m \in Names
      BY <1>1, CurrentIs
  <2>2. p \in Pods /\ call[c].start \in Nat /\ call[c].start <= now /\ now \in Nat
      BY CallIs DEF Sound
  <2>3. QED BY <2>1, <2>2, HoldsStay
<1>3. CASE StaysHeld(c)
  <2>1. Moves(c) /\ UNCHANGED <<now, local, shared, history>>
      BY <1>3, Returns DEF StaysHeld
  <2>2. legs' \in [Callers -> SUBSET Names]
    <3>1. legs' = [legs EXCEPT ![c] = legs[c] \ {m}]
        BY <1>2, <1>3 DEF StaysHeld
    <3> HIDE DEF m
    <3>2. QED BY <1>2, <3>1
  <2>3. QED BY <2>1, <2>2, OnlyMoves
<1>4. CASE Clear(c)
  <2>1. UNCHANGED <<down, sharedDownUntil, shared, legs, faults>>
      BY <1>4 DEF Clear, history
  <2>2. CASE downUntil[p][m] > call[c].start
    <3>1. Moves(c) /\ UNCHANGED downUntil
        BY <1>4, <2>2, Returns DEF Clear
    <3>2. QED BY <1>1, <2>1, <3>1, HoldsStay, MovesKeep
  <2>3. CASE ~ (downUntil[p][m] > call[c].start)
    <3>1. /\ downUntil' = [downUntil EXCEPT ![p][m] = 0] /\ Goto(c, "report up")
          /\ UNCHANGED call
        BY <1>4, <2>3 DEF Clear
    <3>2. "report up" \in States
        BY DEF States
    <3>3. Moves(c)
        BY <1>1, <3>1, <3>2, GoesOnAsIs
    <3> HIDE DEF p, m
    <3>4. downUntil' \in [Pods -> [Names -> Nat]]
        BY <1>2, <3>1
    <3>5. AskedHeld'
      <4>1. ASSUME NEW q \in Pods, NEW n \in Names, asked[q][n] > now
            PROVE  asked[q][n] <= downUntil'[q][n]
        <5>1. asked[q][n] <= downUntil[q][n]
            BY <4>1 DEF IInv, AskedHeld
        <5>2. asked[q][n] \in Nat /\ downUntil[q][n] \in Nat
            BY <1>2
        <5>3. downUntil[q][n] > call[c].start
            BY <1>2, <4>1, <5>1, <5>2
        <5>4. ~ (q = p /\ n = m)
            BY <2>3, <5>3
        <5>5. downUntil'[q][n] = downUntil[q][n]
            BY <1>2, <3>1, <5>4
        <5>6. QED BY <5>1, <5>5
      <4>2. now' = now /\ asked' = asked
          BY <1>1
      <4>3. QED BY <4>1, <4>2 DEF AskedHeld
    <3>6. QED BY <1>1, <2>1, <3>3, <3>4, <3>5, HoldsStay, MovesKeep
  <2>4. QED BY <2>2, <2>3
<1>5. CASE ReportUp(c)
  <2>1. /\ down' = [down EXCEPT ![p][m] = FALSE]
        /\ UNCHANGED <<downUntil, sharedDownUntil, shared, legs, faults>>
      BY <1>5 DEF ReportUp, history
  <2>2. Moves(c)
    <3>1. CASE down[p][m]
      <4>1. Goto(c, "share clear") /\ UNCHANGED call /\ "share clear" \in States
          BY <1>5, <3>1 DEF ReportUp, States
      <4>2. QED BY <1>1, <4>1, GoesOnAsIs
    <3>2. CASE ~down[p][m]
        BY <1>5, <3>2, Returns DEF ReportUp
    <3>3. QED BY <3>1, <3>2
  <2> HIDE DEF p, m
  <2>3. down' \in [Pods -> [Names -> BOOLEAN]]
      BY <1>2, <2>1
  <2>4. QED BY <1>1, <2>1, <2>2, <2>3, HoldsStay, MovesKeep
<1>6. CASE ShareClear(c)
  <2>1. /\ Reached(p) \/ Unreached(p) \/ Unasked(p)
        /\ shared' = [shared EXCEPT ![m] = 0] \/ UNCHANGED shared
        /\ UNCHANGED <<downUntil, down, legs>>
      BY <1>6 DEF ShareClear
  <2>2. Moves(c)
      BY <1>6, Returns DEF ShareClear
  <2> HIDE DEF p, m
  <2>3. shared' \in [Names -> Nat]
      BY <1>2, <2>1
  <2>4. sharedDownUntil' \in [Pods -> Nat] /\ faults' \in Nat
      BY <1>2, <2>1, RedisAsked
  <2>5. QED BY <1>1, <2>1, <2>2, <2>3, <2>4, HoldsStay, MovesKeep
<1>7. QED BY <1>3, <1>4, <1>5, <1>6

-----------------------------------------------------------------------------
(* Restarts and the clock.                                                 *)

\* What a pod finds in Redis it holds, and it owes nothing to a fault.
LEMMA RestartKeeps == ASSUME IInv, NEW p \in Pods, Restart(p) PROVE IInv'
<1> DEFINE behind == [m \in Names |-> IF shared[m] > now THEN shared[m] ELSE 0]
<1>1. /\ downUntil' = [downUntil EXCEPT ![p] = behind]
      /\ down' = [down EXCEPT ![p] = [m \in Names |-> behind[m] > 0]]
      /\ sharedDownUntil' = [sharedDownUntil EXCEPT ![p] = 0]
      /\ pc' = [c \in Callers |-> IF PodOf[c] = p THEN "idle" ELSE pc[c]]
      /\ call' = [c \in Callers |-> IF PodOf[c] = p THEN NoCall ELSE call[c]]
      /\ legs' = [c \in Callers |-> IF PodOf[c] = p THEN {} ELSE legs[c]]
      /\ asked' = [asked EXCEPT ![p] = behind]
      /\ blip' = [blip EXCEPT ![p] = [m \in Names |-> FALSE]]
      /\ UNCHANGED <<now, shared, runs>> /\ faults' = faults + 1
    BY DEF Restart
<1>2. behind \in [Names -> Nat]
  <2>1. shared \in [Names -> Nat]
      BY HoldsStay
  <2>2. QED BY <2>1
<1> DEFINE reports == [m \in Names |-> behind[m] > 0]
<1>3. reports \in [Names -> BOOLEAN]
    OBVIOUS
<1>4. down' = [down EXCEPT ![p] = reports]
    BY <1>1
<1> HIDE DEF behind, reports
<1>5. /\ downUntil' \in [Pods -> [Names -> Nat]] /\ asked' \in [Pods -> [Names -> Nat]]
      /\ down' \in [Pods -> [Names -> BOOLEAN]] /\ blip' \in [Pods -> [Names -> BOOLEAN]]
      /\ shared' \in [Names -> Nat] /\ sharedDownUntil' \in [Pods -> Nat]
      /\ legs' \in [Callers -> SUBSET Names] /\ runs' \in Nat /\ faults' \in Nat /\ now' \in Nat
  <2>1. /\ downUntil' \in [Pods -> [Names -> Nat]] /\ asked' \in [Pods -> [Names -> Nat]]
        /\ down' \in [Pods -> [Names -> BOOLEAN]]
      BY <1>1, <1>2, <1>3, <1>4, HoldsStay
  <2>2. blip' \in [Pods -> [Names -> BOOLEAN]]
      BY <1>1, HoldsStay
  <2>3. legs' \in [Callers -> SUBSET Names]
      BY <1>1, HoldsStay
  <2>4. sharedDownUntil' \in [Pods -> Nat] /\ faults' \in Nat
      BY <1>1, HoldsStay
  <2>5. shared' \in [Names -> Nat] /\ runs' \in Nat /\ now' \in Nat
      BY <1>1, HoldsStay DEF IInv, TypeOK
  <2>6. QED BY <2>1, <2>2, <2>3, <2>4, <2>5
<1>6. NoCall \in Calls /\ Sound(NoCall) /\ "idle" \in States
    BY NoCallIs DEF States
<1>7. /\ pc \in [Callers -> States] /\ call \in [Callers -> Calls]
      /\ \A d \in Callers : pc[d] # "idle" => call[d].candidates # {}
      /\ \A d \in Callers : Sound(call[d])
    BY DEF IInv, TypeOK, RunsSound, Calls
<1>8. pc' \in [Callers -> States] /\ call' \in [Callers -> Calls]
    BY <1>1, <1>6, <1>7
<1>9. \A c \in Callers : pc'[c] # "idle" => call'[c].candidates # {}
    BY <1>1, <1>7
<1>10. \A c \in Callers : Sound(call'[c])
    BY <1>1, <1>6, <1>7
<1>11. TypeOK'
    BY <1>5, <1>8, <1>9 DEF TypeOK, Calls
<1>12. RunsSound'
    BY <1>1, <1>10 DEF RunsSound, Sound
<1>13. LastUnblamed'
  <2>1. LastMethod \in Names
      BY ListIs
  <2>2. \A q \in Pods : ~blip'[q][LastMethod]
      BY <1>1, <2>1, HoldsStay DEF IInv, LastUnblamed
  <2>3. QED BY <2>2 DEF LastUnblamed, LastMethod
<1>14. AskedHeld'
  <2>1. ASSUME NEW q \in Pods, NEW n \in Names
        PROVE  asked'[q][n] > now => asked'[q][n] <= downUntil'[q][n]
    <3>1. CASE q = p
      <4>1. asked'[q][n] = behind[n] /\ downUntil'[q][n] = behind[n] /\ behind[n] \in Nat
          BY <1>1, <1>2, <3>1, HoldsStay
      <4>2. QED BY <4>1
    <3>2. CASE q # p
      <4>1. asked'[q][n] = asked[q][n] /\ downUntil'[q][n] = downUntil[q][n]
          BY <1>1, <3>2, HoldsStay
      <4>2. QED BY <4>1 DEF IInv, AskedHeld
    <3>3. QED BY <3>1, <3>2
  <2>2. QED BY <1>1, <2>1 DEF AskedHeld
<1>15. QED BY <1>11, <1>12, <1>13, <1>14 DEF IInv

\* Time passes.
LEMMA TickKeeps == ASSUME IInv, Tick PROVE IInv'
<1>1. /\ now' = now + 1
      /\ shared' = [m \in Names |-> Expire(shared[m])]
      /\ asked' = [p \in Pods |-> [m \in Names |-> Expire(asked[p][m])]]
      /\ UNCHANGED <<downUntil, down, sharedDownUntil, pc, call, legs, runs, faults, blip>>
    BY DEF Tick, local
<1>2. now \in Nat /\ now' \in Nat /\ now' > now
    BY <1>1 DEF IInv, TypeOK
<1>3. /\ shared \in [Names -> Nat] /\ asked \in [Pods -> [Names -> Nat]]
      /\ downUntil \in [Pods -> [Names -> Nat]]
    BY HoldsStay
<1>4. \A n \in Nat : Expire(n) \in Nat /\ (Expire(n) > now' => Expire(n) = n /\ n > now)
    BY <1>1, <1>2 DEF Expire
<1>5. shared' \in [Names -> Nat] /\ asked' \in [Pods -> [Names -> Nat]]
  <2>1. shared' \in [Names -> Nat]
      BY <1>1, <1>3, <1>4
  <2>2. \A p \in Pods, m \in Names : Expire(asked[p][m]) \in Nat
      BY <1>3, <1>4
  <2>3. asked' \in [Pods -> [Names -> Nat]]
      BY <1>1, <2>2
  <2>4. QED BY <2>1, <2>3
<1>6. TypeOK'
    BY <1>1, <1>2, <1>5 DEF IInv, TypeOK
<1>7. RunsSound'
  <2>1. ASSUME NEW c \in Callers
        PROVE  /\ call[c].start <= now'
               /\ call[c].fault => call[c].candidates \ {Min(call[c].candidates)} # {}
    <3>1. Sound(call[c]) /\ call[c].start \in Nat
        BY CallIs
    <3>2. call[c].start <= now
        BY <3>1 DEF Sound
    <3>3. call[c].start <= now'
        BY <1>2, <3>1, <3>2
    <3>4. QED BY <3>1, <3>3 DEF Sound
  <2>2. call' = call
      BY <1>1
  <2>3. QED BY <2>1, <2>2 DEF RunsSound, Sound
<1>8. LastUnblamed'
    BY <1>1 DEF IInv, LastUnblamed
<1>9. AskedHeld'
  <2>1. ASSUME NEW p \in Pods, NEW m \in Names
        PROVE  asked'[p][m] > now' => asked'[p][m] <= downUntil[p][m]
    <3>1. asked'[p][m] = Expire(asked[p][m]) /\ asked[p][m] \in Nat
        BY <1>1, <1>3
    <3>2. asked[p][m] > now => asked[p][m] <= downUntil[p][m]
        BY DEF IInv, AskedHeld
    <3>3. QED BY <1>4, <3>1, <3>2
  <2>2. downUntil' = downUntil
      BY <1>1
  <2>3. QED BY <2>1, <2>2 DEF AskedHeld
<1>10. QED BY <1>6, <1>7, <1>8, <1>9 DEF IInv

-----------------------------------------------------------------------------
(* The theorems.                                                           *)

\* At the start no method is skipped, on any pod or in Redis, and no run is under way.
LEMMA InitIInv == ASSUME Init PROVE IInv
<1>1. TypeOK
  <2>1. /\ downUntil \in [Pods -> [Names -> Nat]] /\ asked \in [Pods -> [Names -> Nat]]
        /\ down \in [Pods -> [Names -> BOOLEAN]] /\ blip \in [Pods -> [Names -> BOOLEAN]]
      BY DEF Init
  <2>2. /\ shared \in [Names -> Nat] /\ sharedDownUntil \in [Pods -> Nat]
        /\ legs \in [Callers -> SUBSET Names] /\ runs \in Nat /\ faults \in Nat /\ now \in Nat
      BY DEF Init
  <2>3. NoCall \in Calls /\ "idle" \in States
      BY DEF NoCall, Calls, States
  <2>4. pc \in [Callers -> States] /\ call \in [Callers -> Calls]
      BY <2>3 DEF Init
  <2>5. \A c \in Callers : pc[c] # "idle" => call[c].candidates # {}
      BY DEF Init
  <2>6. QED BY <2>1, <2>2, <2>4, <2>5 DEF TypeOK, Calls
<1>2. RunsSound
  <2>1. \A c \in Callers : call[c].start = 0 /\ call[c].fault = FALSE /\ now = 0
      BY DEF Init, NoCall
  <2>2. QED BY <2>1 DEF RunsSound, Sound
<1>3. LastUnblamed
    BY ListIs DEF Init, LastUnblamed
<1>4. AskedHeld
    BY DEF Init, AskedHeld
<1>5. QED BY <1>1, <1>2, <1>3, <1>4 DEF IInv

\* Every step of a caller keeps the invariant, and moves no other caller.
LEMMA CallerKeeps ==
    ASSUME IInv, NEW c \in Callers, CallerStep(c)
    PROVE  IInv' /\ Moves(c)
<1>1. CASE \E directOnly \in BOOLEAN : BeginShared(c, directOnly) \/ BeginAlone(c, directOnly)
  <2>1. PICK directOnly \in BOOLEAN : BeginShared(c, directOnly) \/ BeginAlone(c, directOnly)
      BY <1>1
  <2>2. shared \in [Names -> Nat] /\ NoHolds \in [Names -> Nat]
      BY HoldsStay DEF NoHolds
  <2>3. CASE BeginShared(c, directOnly)
      BY <2>2, <2>3, BeginKeeps DEF BeginShared
  <2>4. CASE BeginAlone(c, directOnly)
      BY <2>2, <2>4, BeginKeeps DEF BeginAlone
  <2>5. QED BY <2>1, <2>3, <2>4
<1>2. CASE \/ Succeeds(c) \/ FailsOver(c) \/ UpstreamFault(c) \/ Gives(c) \/ NextMethod(c)
           \/ \E d \in Backoffs : BacksOff(c, d)
    BY <1>2, TryingKeeps
<1>3. CASE HoldLocal(c) \/ ReportDown(c) \/ ShareHold(c)
    BY <1>3, HoldLocalKeeps, ShareHoldKeeps
<1>4. CASE StaysHeld(c) \/ Clear(c) \/ ReportUp(c) \/ ShareClear(c)
    BY <1>4, MarkUpKeeps
<1>5. QED BY <1>1, <1>2, <1>3, <1>4 DEF CallerStep

\* Every step keeps the invariant, one lemma per action above.
LEMMA StepIInv == IInv /\ [Next]_vars => IInv'
<1> SUFFICES ASSUME IInv, [Next]_vars PROVE IInv'
    OBVIOUS
<1>1. ASSUME NEW c \in Callers, CallerStep(c) PROVE IInv'
    BY <1>1, CallerKeeps
<1>2. ASSUME NEW p \in Pods, Restart(p) PROVE IInv'
    BY <1>2, RestartKeeps
<1>3. CASE Tick
    BY <1>3, TickKeeps
<1>4. CASE Finished \/ UNCHANGED vars
  <2>1. UNCHANGED <<now, downUntil, down, sharedDownUntil, shared, pc, call, legs, runs, faults,
                    asked, blip>>
      BY <1>4 DEF Finished, vars, local, history
  <2>2. TypeOK' /\ RunsSound'
      BY <2>1 DEF IInv, TypeOK, RunsSound, Sound
  <2>3. QED BY <2>1, <2>2, HoldsStay DEF IInv
<1>5. QED BY <1>1, <1>2, <1>3, <1>4 DEF Next

\* The inductive invariant of the chain.
LEMMA AlwaysIInv == Spec => []IInv
<1>1. Init => IInv
    BY InitIInv
<1>2. QED BY <1>1, StepIInv, PTL DEF Spec

\* With any number of pods and crawls, and however their steps interleave with one
\* another, with restarts and with Redis failing: faults of the upstream alone never
\* hold every method of a pod, for none of them holds the last in the list.
THEOREM BlipIsNoOutage == Spec => []BlipNeverStopsReddit
<1>1. ASSUME IInv PROVE BlipNeverStopsReddit
  <2>1. LastMethod \in Names
      BY ListIs
  <2>2. \A p \in Pods : ~blip[p][LastMethod]
      BY <1>1 DEF IInv, LastUnblamed
  <2>3. QED BY <1>1, <2>1, <2>2 DEF IInv, BlipNeverStopsReddit
<1>2. QED BY <1>1, AlwaysIInv, PTL

\* A run picks no method that its pod has been asked to rest and still must.
LEMMA BeginPicks ==
    ASSUME IInv, NEW c \in Callers, NEW directOnly \in BOOLEAN,
           NEW holds \in [Names -> Nat], Begin(c, directOnly, holds), pc'[c] = "trying"
    PROVE  \A m \in Picks(c) : asked[PodOf[c]][m] <= now
<1> DEFINE p == PodOf[c]
           skipped == {m \in Usable(directOnly) : now < SkippedUntil(p, m, holds)}
           candidates == {i \in DOMAIN Methods : Methods[i] \in Usable(directOnly) \ skipped}
<1>1. /\ now \in Nat /\ p \in Pods /\ pc[c] = "idle"
      /\ call \in [Callers -> Calls] /\ pc \in [Callers -> States]
      /\ downUntil \in [Pods -> [Names -> Nat]] /\ asked \in [Pods -> [Names -> Nat]]
    BY CallIs, HoldsStay DEF IInv, TypeOK, Calls, Begin
<1>2. call'[c].candidates = candidates
  <2>1. CASE candidates = {}
      BY <1>1, <2>1 DEF Begin
  <2>2. CASE candidates # {}
    <3> DEFINE r == [NoCall EXCEPT !.start = now, !.since = now, !.candidates = candidates]
    <3>1. call' = [call EXCEPT ![c] = r]
        BY <2>2 DEF Begin
    <3> HIDE DEF candidates
    <3>2. r.candidates = candidates
        BY DEF NoCall
    <3> HIDE DEF r
    <3>3. QED BY <1>1, <3>1, <3>2
  <2>3. QED BY <2>1, <2>2
<1>3. ASSUME NEW m \in Picks(c) PROVE asked[p][m] <= now
  <2>1. m \in Names /\ ~ (now < SkippedUntil(p, m, holds))
      BY <1>2 DEF Picks, Usable
  <2>2. downUntil[p][m] \in Nat /\ holds[m] \in Nat /\ asked[p][m] \in Nat
      BY <1>1, <2>1
  <2>3. Later(downUntil[p][m], holds[m]) \in Nat
        /\ Later(downUntil[p][m], holds[m]) >= downUntil[p][m]
      BY <2>2, LaterIs
  <2>4. downUntil[p][m] <= now
      BY <1>1, <2>1, <2>2, <2>3 DEF SkippedUntil
  <2>5. asked[p][m] > now => asked[p][m] <= downUntil[p][m]
      BY <1>1, <2>1 DEF IInv, AskedHeld
  <2>6. QED BY <1>1, <2>2, <2>4, <2>5
<1>4. QED BY <1>3

\* Only the step with which a run starts begins it.
LEMMA BeginsByBegin ==
    ASSUME IInv, [Next]_vars, NEW c \in Callers, Begins(c)
    PROVE  \E directOnly \in BOOLEAN, holds \in [Names -> Nat] : Begin(c, directOnly, holds)
<1>1. pc \in [Callers -> States] /\ pc[c] = "idle" /\ pc'[c] = "trying" /\ pc' # pc
    BY DEF Begins, IInv, TypeOK
<1>2. CASE \E d \in Callers : CallerStep(d)
  <2>1. PICK d \in Callers : CallerStep(d)
      BY <1>2
  <2>2. d = c
    <3>1. Moves(d)
        BY <2>1, CallerKeeps
    <3>2. PICK s \in States : pc' = [pc EXCEPT ![d] = s]
        BY <3>1 DEF Moves
    <3>3. QED BY <1>1, <3>2
  <2>3. \E directOnly \in BOOLEAN : BeginShared(c, directOnly) \/ BeginAlone(c, directOnly)
      BY <1>1, <2>1, <2>2
      DEF CallerStep, Succeeds, FailsOver, UpstreamFault, Gives, NextMethod, BacksOff, HoldLocal,
          ReportDown, ShareHold, StaysHeld, Clear, ReportUp, ShareClear
  <2>4. shared \in [Names -> Nat] /\ NoHolds \in [Names -> Nat]
      BY HoldsStay DEF NoHolds
  <2>5. QED BY <2>3, <2>4 DEF BeginShared, BeginAlone
<1>3. CASE \E p \in Pods : Restart(p)
    BY <1>1, <1>3 DEF Restart
<1>4. CASE Tick \/ Finished \/ UNCHANGED vars
    BY <1>1, <1>4 DEF Tick, Finished, vars
<1>5. QED BY <1>2, <1>3, <1>4 DEF Next

\* A hold in Redis gets shorter by the clock or by a success only.
LEMMA SharedShrinks ==
    ASSUME IInv, [Next]_vars, NEW m \in Names, shared'[m] < shared[m]
    PROVE  \/ shared[m] <= now'
           \/ \E c \in Callers : pc[c] = "share clear" /\ Current(c) = m /\ pc'[c] = "idle"
<1>1. shared \in [Names -> Nat] /\ shared[m] \in Nat /\ now \in Nat /\ pc \in [Callers -> States]
    BY DEF IInv, TypeOK
<1>2. shared' # shared
    BY <1>1
<1>3. CASE \E c \in Callers : CallerStep(c)
  <2>1. PICK c \in Callers : CallerStep(c)
      BY <1>3
  <2>2. ShareHold(c) \/ ShareClear(c)
      BY <1>2, <2>1
      DEF CallerStep, BeginShared, BeginAlone, Begin, Succeeds, FailsOver, UpstreamFault, Gives,
          NextMethod, BacksOff, HoldLocal, ReportDown, StaysHeld, Clear, ReportUp
  <2>3. CASE ShareHold(c)
    <3>1. Current(c) \in Names /\ now + call[c].hold \in Nat
      <4>1. pc[c] # "idle"
          BY <2>3 DEF ShareHold
      <4>2. Current(c) \in Names
          BY <4>1, CurrentIs
      <4>3. QED BY <4>2, CallIs
    <3> DEFINE n == Current(c)
               until == now + call[c].hold
    <3>2. shared' = [shared EXCEPT ![n] = Later(shared[n], until)]
        BY <1>2, <2>3 DEF ShareHold, Extend
    <3> HIDE DEF n, until
    <3>3. n \in Names /\ until \in Nat /\ shared[n] \in Nat
        BY <1>1, <3>1 DEF n, until
    <3>4. Later(shared[n], until) >= shared[n]
        BY <3>3, LaterIs
    <3>5. shared'[m] = IF m = n THEN Later(shared[n], until) ELSE shared[m]
        BY <1>1, <3>2, <3>3
    <3>6. Later(shared[n], until) \in Nat
        BY <3>3, LaterIs
    <3>7. shared'[m] \in Nat /\ shared'[m] >= shared[m]
        BY <1>1, <3>4, <3>5, <3>6
    <3>8. shared'[m] < shared[m]
        OBVIOUS
    <3>9. \A x, y \in Nat : ~ (x >= y /\ x < y)
        OBVIOUS
    <3>10. QED BY <1>1, <3>7, <3>8, <3>9
  <2>4. CASE ShareClear(c)
    <3>1. pc[c] = "share clear" /\ shared' = [shared EXCEPT ![Current(c)] = 0] /\ Return(c)
        BY <1>2, <2>4 DEF ShareClear
    <3> DEFINE n == Current(c)
    <3>2. n = m
      <4> HIDE DEF n
      <4>1. shared' = [shared EXCEPT ![n] = 0]
          BY <3>1 DEF n
      <4>2. n # m => shared'[m] = shared[m]
          BY <1>1, <4>1
      <4>3. shared'[m] # shared[m]
          BY <1>1
      <4>4. QED BY <4>2, <4>3
    <3>3. pc'[c] = "idle"
        BY <1>1, <3>1 DEF Return, Goto
    <3>4. QED BY <3>1, <3>2, <3>3
  <2>5. QED BY <2>2, <2>3, <2>4
<1>4. CASE Tick
  <2>1. shared'[m] = Expire(shared[m])
      BY <1>4 DEF Tick
  <2>2. now' \in Nat
      BY <1>1, <1>4 DEF Tick
  <2>3. shared'[m] = shared[m] \/ ~ (shared[m] > now')
      BY <2>1 DEF Expire
  <2>4. shared[m] # shared'[m]
      BY <1>1
  <2>5. \A x, y \in Nat : ~ (x > y) => x <= y
      OBVIOUS
  <2>6. QED BY <1>1, <2>2, <2>3, <2>4, <2>5
<1>5. CASE (\E p \in Pods : Restart(p)) \/ Finished \/ UNCHANGED vars
    BY <1>2, <1>5 DEF Restart, Finished, vars
<1>6. QED BY <1>3, <1>4, <1>5 DEF Next

\* No success ends a newer hold and no shorter hold cuts a longer one, in the pod's
\* memory or in Redis.
THEOREM HoldsLast == Spec => HoldsKept
<1>1. IInv /\ [Next]_vars =>
         [\A c \in Callers : Begins(c) => \A m \in Picks(c) : asked[PodOf[c]][m] <= now]_vars
  <2> SUFFICES ASSUME IInv, [Next]_vars, NEW c \in Callers, Begins(c)
               PROVE  \A m \in Picks(c) : asked[PodOf[c]][m] <= now
      OBVIOUS
  <2>1. pc'[c] = "trying"
      BY DEF Begins
  <2>2. QED BY <2>1, BeginsByBegin, BeginPicks
<1>2. IInv /\ [Next]_vars =>
         [\A m \in Names :
            shared'[m] < shared[m] =>
              \/ shared[m] <= now'
              \/ \E c \in Callers : pc[c] = "share clear" /\ Current(c) = m /\ pc'[c] = "idle"]_vars
    BY SharedShrinks
<1>3. QED BY <1>1, <1>2, AlwaysIInv, PTL DEF Spec, HoldsKept, OwnHoldsKept, SharedHoldsExtend

-----------------------------------------------------------------------------
(* The tree of comments.                                                   *)

\* The place of a comment in the order.
Place(i) == CHOOSE k \in DOMAIN Order : Order[k] = i

LEMMA PlaceIs ==
    ASSUME NEW i \in Ids
    PROVE  /\ Place(i) \in Nat
           /\ Parent[i] = "post" \/ (Parent[i] \in Ids /\ Place(Parent[i]) < Place(i))
<1>1. /\ DOMAIN Order = 1..Len(Order) /\ Len(Order) \in Nat
      /\ \A k, l \in DOMAIN Order : Order[k] = Order[l] => k = l
    BY CrawlAssumption, LenProperties DEF IsInjective
<1>2. \A j \in Ids : Place(j) \in DOMAIN Order /\ Order[Place(j)] = j
    BY DEF Ids, Range, Place
<1>3. Parent[i] \in {"post"} \cup {Order[j] : j \in 1..(Place(i) - 1)}
    BY <1>2, CrawlAssumption
<1>4. ASSUME NEW j \in 1..(Place(i) - 1), Parent[i] = Order[j]
      PROVE  Parent[i] \in Ids /\ Place(Parent[i]) < Place(i)
    <2>1. j \in DOMAIN Order
        BY <1>1, <1>2
    <2>2. Parent[i] \in Ids
        BY <1>4, <2>1 DEF Ids, Range
    <2>3. Place(Parent[i]) = j
        BY <1>1, <1>2, <1>4, <2>1, <2>2
    <2>4. QED BY <1>1, <1>2, <2>2, <2>3
<1>5. QED BY <1>1, <1>2, <1>3, <1>4

LEMMA ParentIs ==
    /\ "post" \notin Ids
    /\ \A i \in Ids : Parent[i] \in {"post"} \cup Ids
BY PlaceIs, CrawlAssumption

\* A comment comes after the one it answers.
LEMMA TreeIsRanked == \E place : Ranked(Ids, Parent, place, Len(Order))
<1> DEFINE place == [i \in Ids |-> Place(i)]
<1>1. DOMAIN Order = 1..Len(Order) /\ Len(Order) \in Nat
    BY CrawlAssumption, LenProperties
<1>2. \A i \in Ids : Place(i) \in DOMAIN Order
    BY DEF Ids, Range, Place
<1>3. \A i \in Ids : place[i] \in 0..Len(Order)
    BY <1>1, <1>2
<1>4. \A i \in Ids : Parent[i] \in Ids => place[Parent[i]] < place[i]
    BY PlaceIs, ParentIs
<1> HIDE DEF place
<1>5. QED BY <1>1, <1>3, <1>4 DEF Ranked

\* What holds of a comment when it holds of the one it answers holds of all.
LEMMA FromParents ==
    ASSUME NEW S \in SUBSET Ids,
           \A i \in Ids : (Parent[i] \in Ids => Parent[i] \in S) => i \in S
    PROVE  S = Ids
BY TreeIsRanked, RankedInduction

-----------------------------------------------------------------------------
(* Documents.                                                              *)

GapSet == [type : {"more", "continue"}, parent : {"post"} \cup Ids, children : Seq(Ids)]

DocTyped(t) == t.comments \in Seq(Ids) /\ IsInjective(t.comments) /\ t.gaps \in Seq(GapSet)

\* Every gap of the kind that can be asked for has ids to ask for.
Whole(t) == \A g \in Range(t.gaps) : g.type = "more" => g.children # <<>>
NoneToAsk(t) == \A g \in Range(t.gaps) : g.children = <<>>

GapsOf(t, hidden) ==
    /\ \A i \in hidden : \E g \in Range(t.gaps) : Hides(g, i)
    /\ \A k \in DOMAIN t.gaps : \A c \in Range(t.gaps[k].children) : c \in hidden /\ Parent[c] = t.gaps[k].parent
    /\ \A k, l \in DOMAIN t.gaps : t.gaps[k].parent = t.gaps[l].parent => k = l

LEMMA WalkIs ==
    ASSUME NEW shown \in SUBSET Ids, NEW hidden \in SUBSET Ids, NEW links, NEW ids \in BOOLEAN
    PROVE  LET w == Walk(shown, hidden, links, ids)
           IN  /\ DocTyped(w) /\ Range(w.comments) = shown \ Removed
               /\ GapsOf(w, hidden)
               /\ ids => Whole(w)
               /\ ~ids => NoneToAsk(w)
<1> DEFINE all == <<"post">> \o Order
           parents == Filter(all, {Parent[i] : i \in hidden})
           children(p) == Filter(Order, {i \in hidden : Parent[i] = p})
           gap(p) == IF p \in links THEN Gap("continue", p, <<>>)
                     ELSE Gap("more", p, IF ids THEN children(p) ELSE <<>>)
           w == Walk(shown, hidden, links, ids)
           n == Len(parents)
<1>1. Order \in Seq(Ids) /\ IsInjective(Order) /\ Range(Order) = Ids
    BY CrawlAssumption DEF Ids
<1>2. /\ Filter(Order, shown \ Removed) \in Seq(Ids)
      /\ IsInjective(Filter(Order, shown \ Removed))
      /\ Range(Filter(Order, shown \ Removed)) = shown \ Removed
    BY <1>1, FilterIs
<1>3. all \in Seq({"post"} \cup Ids) /\ IsInjective(all) /\ Range(all) = {"post"} \cup Ids
    <2> DEFINE post == <<"post">>
               D == {"post"} \cup Ids
    <2>1. post \in Seq(D) /\ Order \in Seq(D) /\ IsInjective(post) /\ Range(post) = {"post"}
        BY <1>1 DEF IsInjective, Range
    <2>2. Range(post) \cap Range(Order) = {}
        BY <1>1, <2>1, ParentIs
    <2>3. all = post \o Order /\ D = {"post"} \cup Range(Order)
        BY <1>1
    <2> HIDE DEF all, post, D
    <2>4. all \in Seq(D) /\ IsInjective(all) /\ Range(all) = {"post"} \cup Range(Order)
        BY <1>1, <2>1, <2>2, <2>3, ConcatIs
    <2>5. QED BY <1>1, <2>4 DEF D
<1> HIDE DEF all
<1>4. /\ parents \in Seq({"post"} \cup Ids) /\ IsInjective(parents)
      /\ Range(parents) = {Parent[i] : i \in hidden}
    <2>1. {Parent[i] : i \in hidden} \subseteq {"post"} \cup Ids
        BY ParentIs
    <2> DEFINE T == {Parent[i] : i \in hidden}
    <2> HIDE DEF T
    <2>2. /\ Filter(all, T) \in Seq({"post"} \cup Ids) /\ IsInjective(Filter(all, T))
          /\ Range(Filter(all, T)) = Range(all) \cap T
        BY <1>3, FilterIs
    <2>3. QED BY <1>3, <2>1, <2>2 DEF T
<1> HIDE DEF parents
<1>5. /\ n \in Nat /\ DOMAIN parents = 1..n
      /\ \A k \in 1..n : parents[k] \in {"post"} \cup Ids /\ \E i \in hidden : parents[k] = Parent[i]
      /\ \A i \in hidden : \E k \in 1..n : parents[k] = Parent[i]
      /\ \A k, l \in 1..n : parents[k] = parents[l] => k = l
    <2>1. n \in Nat /\ DOMAIN parents = 1..n
        BY <1>4, LenProperties
    <2>2. \A k \in 1..n : parents[k] \in {"post"} \cup Ids
        BY <1>4, ElementOfSeq
    <2>3. QED BY <1>4, <2>1, <2>2 DEF Range, IsInjective
<1>6. ASSUME NEW p
      PROVE  children(p) \in Seq(Ids) /\ Range(children(p)) = {i \in hidden : Parent[i] = p}
    <2> DEFINE T == {i \in hidden : Parent[i] = p}
    <2>1. T \subseteq Ids
        OBVIOUS
    <2> HIDE DEF T
    <2>2. Filter(Order, T) \in Seq(Ids) /\ Range(Filter(Order, T)) = Ids \cap T
        BY <1>1, FilterIs
    <2>3. QED BY <2>1, <2>2 DEF T
<1> HIDE DEF children
<1>7. /\ w.comments = Filter(Order, shown \ Removed)
      /\ w.gaps = [k \in 1..n |-> gap(parents[k])]
    BY <1>5 DEF Walk, all, parents, children
<1> HIDE DEF w, n
<1>8. ASSUME NEW p \in {"post"} \cup Ids
      PROVE  /\ gap(p) \in GapSet /\ gap(p).parent = p
             /\ gap(p).children = (IF p \in links \/ ~ids THEN <<>> ELSE children(p))
             /\ gap(p).type = "more" <=> p \notin links
    <2>1. children(p) \in Seq(Ids) /\ <<>> \in Seq(Ids)
        BY <1>6
    <2>2. QED BY <2>1 DEF Gap, GapSet
<1> HIDE DEF gap
<1>9. /\ DOMAIN w.gaps = 1..n /\ w.gaps \in Seq(GapSet)
      /\ \A k \in 1..n : w.gaps[k] = gap(parents[k])
    <2>1. \A k \in 1..n : gap(parents[k]) \in GapSet
        BY <1>5, <1>8
    <2>2. w.gaps \in [1..n -> GapSet]
        BY <1>7, <2>1
    <2>3. QED BY <1>5, <1>7, <2>2, SeqDef
<1>10. /\ Range(w.gaps) = {w.gaps[k] : k \in 1..n}
       /\ \A k \in 1..n :
            /\ w.gaps[k].parent = parents[k]
            /\ w.gaps[k].children = (IF parents[k] \in links \/ ~ids THEN <<>> ELSE children(parents[k]))
            /\ w.gaps[k].type = "more" <=> parents[k] \notin links
    <2>1. ASSUME NEW k \in 1..n
          PROVE  /\ w.gaps[k].parent = parents[k]
                 /\ w.gaps[k].children = (IF parents[k] \in links \/ ~ids THEN <<>> ELSE children(parents[k]))
                 /\ w.gaps[k].type = "more" <=> parents[k] \notin links
        <3> DEFINE p == parents[k]
        <3>1. p \in {"post"} \cup Ids /\ w.gaps[k] = gap(p)
            BY <1>5, <1>9
        <3> HIDE DEF p
        <3>2. /\ gap(p).parent = p
              /\ gap(p).children = (IF p \in links \/ ~ids THEN <<>> ELSE children(p))
              /\ gap(p).type = "more" <=> p \notin links
            BY <1>8, <3>1
        <3>3. QED BY <3>1, <3>2 DEF p
    <2>2. QED BY <1>9, <2>1 DEF Range
<1>11. \A k \in 1..n : children(parents[k]) # <<>>
    <2> SUFFICES ASSUME NEW k \in 1..n, children(parents[k]) = <<>> PROVE FALSE
        OBVIOUS
    <2>1. PICK i \in hidden : parents[k] = Parent[i]
        BY <1>5
    <2>2. i \in Range(children(parents[k]))
        BY <1>6, <2>1
    <2>3. QED BY <2>2 DEF Range
<1>12. Range(<<>>) = {}
    BY DEF Range
<1>13. ids => Whole(w)
    BY <1>10, <1>11 DEF Whole
<1>14. ~ids => NoneToAsk(w)
    BY <1>10 DEF NoneToAsk
<1>15. ASSUME NEW i \in hidden PROVE \E g \in Range(w.gaps) : Hides(g, i)
    <2>1. PICK k \in 1..n : parents[k] = Parent[i]
        BY <1>5
    <2>2. w.gaps[k] \in Range(w.gaps)
        BY <1>10
    <2>3. i \in Range(children(parents[k]))
        BY <1>6, <2>1
    <2>4. Hides(w.gaps[k], i)
        BY <1>10, <2>1, <2>3 DEF Hides
    <2>5. QED BY <2>2, <2>4
<1>16. ASSUME NEW k \in 1..n, NEW c \in Range(w.gaps[k].children)
       PROVE  c \in hidden /\ Parent[c] = w.gaps[k].parent
    <2>1. c \in Range(children(parents[k])) /\ w.gaps[k].parent = parents[k]
        BY <1>10, <1>12, <1>16
    <2>2. QED BY <1>6, <2>1
<1>17. \A k, l \in 1..n : w.gaps[k].parent = w.gaps[l].parent => k = l
    BY <1>5, <1>10
<1>18. GapsOf(w, hidden)
    BY <1>9, <1>15, <1>16, <1>17 DEF GapsOf
<1>19. DocTyped(w) /\ Range(w.comments) = shown \ Removed
    BY <1>2, <1>7, <1>9 DEF DocTyped
<1>20. QED BY <1>13, <1>14, <1>18, <1>19 DEF w

Part(g) == IF Expandable(g) THEN g.children ELSE <<>>

\* What Before goes through, gap by gap.
Joined(gaps) ==
    {f \in [0..Len(gaps) -> Seq(Ids)] :
        /\ f[0] = <<>>
        /\ \A k \in 1..Len(gaps) : f[k] = f[k - 1] \o Part(gaps[k])}

LEMMA BeforeJoins ==
    ASSUME NEW gaps \in Seq(GapSet)
    PROVE  \E f \in Joined(gaps) : \A i : Before(gaps, i) = f[i - 1]
<1> DEFINE N == Len(gaps)
           D == Seq(Ids)
           step == [k \in 1..N |-> [q \in D |-> q \o Part(gaps[k])]]
           body(h) == [k \in 0..Len(gaps) |->
                          IF k = 0 THEN <<>>
                          ELSE h[k - 1] \o (IF Expandable(gaps[k]) THEN gaps[k].children ELSE <<>>)]
           f == CHOOSE h : h = body(h)
<1>1. N \in Nat /\ \A k \in 1..N : Part(gaps[k]) \in D
    <2>1. N \in Nat /\ \A k \in 1..N : gaps[k] \in GapSet
        BY ElementOfSeq, LenProperties
    <2>2. ASSUME NEW g \in GapSet PROVE Part(g) \in Seq(Ids)
        BY DEF Part, GapSet
    <2>3. QED BY <2>1, <2>2
<1>2. \A i : Before(gaps, i) = f[i - 1]
    BY DEF Before
<1>3. \A q, p \in D : q \o p \in D
    BY ConcatProperties
<1>4. <<>> \in D
    OBVIOUS
<1>5. step \in Steps(D, N)
    BY <1>1, <1>3 DEF Steps
<1>6. \E g : g = body(g)
    <2>1. PICK g : g \in Results(D, N, <<>>, step)
        <3> HIDE DEF step, N, D
        <3>1. QED BY <1>1, <1>4, <1>5, StepsHaveResults
    <2>2. g \in [0..N -> D] /\ g[0] = <<>>
        BY <2>1 DEF Results
    <2>3. ASSUME NEW k \in 1..N PROVE g[k] = g[k - 1] \o Part(gaps[k])
        <3>1. k - 1 \in 0..N
            BY <1>1
        <3>2. g[k] = step[k][g[k - 1]]
            <4> HIDE DEF step
            <4>1. QED BY <2>1 DEF Results
        <3>3. QED BY <2>2, <3>1, <3>2
    <2>4. ASSUME NEW k \in 0..N PROVE g[k] = body(g)[k]
        <3>1. CASE k = 0
            BY <1>1, <2>2, <3>1
        <3>2. CASE k # 0
            <4>1. k \in 1..N
                BY <1>1, <3>2
            <4>2. body(g)[k] = g[k - 1] \o Part(gaps[k])
                BY <3>2 DEF Part
            <4>3. QED BY <2>3, <4>1, <4>2
        <3>3. QED BY <3>1, <3>2
    <2>5. g = body(g)
        BY <2>2, <2>4
    <2>6. QED BY <2>5
<1>7. f = body(f)
    <2> HIDE DEF body
    <2>1. QED BY <1>6
<1> HIDE DEF f
<1>8. f[0] = <<>>
    <2>1. 0 \in 0..N
        BY <1>1
    <2>2. QED BY <1>7, <2>1
<1>9. ASSUME NEW k \in 1..N PROVE f[k] = f[k - 1] \o Part(gaps[k])
    <2>1. k \in 0..N /\ k # 0
        BY <1>1
    <2>2. f[k] = body(f)[k]
        BY <1>7
    <2>3. QED BY <2>1, <2>2 DEF Part
<1>10. f \in [0..N -> D]
    <2> DEFINE S == {n \in Nat : n <= N => f[n] \in D}
    <2>1. 0 \in S
        BY <1>4, <1>8
    <2>2. ASSUME NEW n \in S PROVE n + 1 \in S
        <3>1. ASSUME n + 1 <= N PROVE f[n + 1] \in D
            <4>1. f[n] \in D /\ n + 1 \in 1..N /\ n \in Nat /\ n + 1 - 1 = n
                BY <1>1, <2>2, <3>1
            <4>2. f[n + 1] = f[n] \o Part(gaps[n + 1])
                <5> DEFINE k == n + 1
                <5>1. k \in 1..N /\ k - 1 = n
                    BY <4>1
                <5> HIDE DEF k
                <5>2. f[k] = f[n] \o Part(gaps[k])
                    BY <1>9, <5>1
                <5>3. QED BY <5>2 DEF k
            <4> HIDE DEF D
            <4>3. QED BY <1>1, <1>3, <4>1, <4>2
        <3>2. QED BY <2>2, <3>1
    <2> HIDE DEF S
    <2>3. \A n \in Nat : n \in S
        BY <2>1, <2>2, NaturalsFromZero DEF S
    <2>4. QED BY <1>7, <2>3 DEF S
<1>11. QED BY <1>2, <1>8, <1>9, <1>10 DEF Joined

\* Where an element of a sequence after another comes from.
LEMMA ConcatAt ==
    ASSUME NEW D, NEW s \in Seq(D), NEW t \in Seq(D), NEW k \in 1..Len(s \o t)
    PROVE  \/ k \in 1..Len(s) /\ (s \o t)[k] = s[k]
           \/ Len(s) < k /\ (s \o t)[k] \in Range(t)
<1>1. Len(s) \in Nat /\ Len(t) \in Nat /\ DOMAIN t = 1..Len(t)
    BY LenProperties
<1>2. k \in 1..(Len(s) + Len(t)) /\ (s \o t)[k] = IF k <= Len(s) THEN s[k] ELSE t[k - Len(s)]
    BY ConcatProperties
<1>3. CASE k <= Len(s)
    BY <1>1, <1>2, <1>3
<1>4. CASE ~(k <= Len(s))
    <2>1. k - Len(s) \in DOMAIN t /\ Len(s) < k
        BY <1>1, <1>2, <1>4
    <2>2. QED BY <1>2, <1>4, <2>1 DEF Range
<1>5. QED BY <1>3, <1>4

\* A batch is made of ids of the gaps it uses.
LEMMA BatchIs ==
    ASSUME NEW gaps \in Seq(GapSet)
    PROVE  /\ BatchOf(gaps) \in Seq(Ids)
           /\ \A c \in Range(BatchOf(gaps)) : \E j \in UsedGaps(gaps) : c \in Range(gaps[j].children)
<1>1. PICK f \in Joined(gaps) : \A i : Before(gaps, i) = f[i - 1]
    BY BeforeJoins
<1> DEFINE N == Len(gaps)
           From(k, c, n) == \E j \in 1..n : Expandable(gaps[j]) /\ c \in Range(gaps[j].children) /\ Len(f[j - 1]) < k
           S == {n \in Nat : n <= N => \A k \in 1..Len(f[n]) : From(k, f[n][k], n)}
<1>2. N \in Nat /\ DOMAIN gaps = 1..N /\ \A n \in 0..N : f[n] \in Seq(Ids)
    BY LenProperties DEF Joined
<1>3. 0 \in S
    <2>1. f[0] = <<>> /\ Len(<<>>) = 0
        BY DEF Joined
    <2>2. QED BY <2>1
<1>4. ASSUME NEW n \in S PROVE n + 1 \in S
    <2>1. ASSUME n + 1 <= N, NEW k \in 1..Len(f[n + 1]) PROVE From(k, f[n + 1][k], n + 1)
        <3> DEFINE q == f[n]
                   p == Part(gaps[n + 1])
        <3>1. n \in Nat /\ n + 1 \in 1..N /\ n + 1 - 1 = n /\ n \in 0..N
            BY <1>2, <1>4, <2>1
        <3>2. q \in Seq(Ids) /\ f[n + 1] = q \o p
            <4> DEFINE l == n + 1
            <4>1. l \in 1..N /\ l - 1 = n
                BY <3>1
            <4> HIDE DEF l
            <4>2. f[l] = f[n] \o Part(gaps[l])
                BY <4>1 DEF Joined
            <4>3. QED BY <1>2, <3>1, <4>2 DEF l
        <3>3. p \in Seq(Ids)
            <4>1. gaps[n + 1] \in GapSet
                BY <3>1, ElementOfSeq
            <4>2. QED BY <4>1 DEF Part, GapSet
        <3> HIDE DEF p
        <3>4. \/ k \in 1..Len(q) /\ f[n + 1][k] = q[k]
              \/ Len(q) < k /\ f[n + 1][k] \in Range(p)
            BY <2>1, <3>2, <3>3, ConcatAt
        <3>5. CASE k \in 1..Len(q) /\ f[n + 1][k] = q[k]
            <4>1. From(k, q[k], n)
                BY <1>2, <1>4, <2>1, <3>1, <3>5
            <4>2. 1..n \subseteq 1..(n + 1)
                BY <3>1
            <4>3. QED BY <3>5, <4>1, <4>2
        <3>6. CASE Len(q) < k /\ f[n + 1][k] \in Range(p)
            <4>1. Expandable(gaps[n + 1]) /\ f[n + 1][k] \in Range(gaps[n + 1].children)
                BY <3>6 DEF p, Part, Range
            <4>2. n + 1 \in 1..(n + 1) /\ f[n + 1 - 1] = q
                BY <3>1
            <4>3. QED BY <3>6, <4>1, <4>2
        <3>7. QED BY <3>4, <3>5, <3>6
    <2>2. QED BY <1>4, <2>1
<1> HIDE DEF S
<1>5. \A n \in Nat : n \in S
    BY <1>3, <1>4, NaturalsFromZero DEF S
<1>6. \A k \in 1..Len(f[N]) : From(k, f[N][k], N)
    <2> HIDE DEF From
    <2>1. N \in S
        BY <1>2, <1>5
    <2> HIDE DEF N
    <2>2. QED BY <1>2, <2>1 DEF S
<1> DEFINE all == f[N]
           m == Min({MaxBatch, Len(all)})
<1>7. all \in Seq(Ids) /\ Len(all) \in Nat /\ MaxBatch \in Nat
    BY <1>2, LenProperties, CrawlAssumption
<1>8. BatchOf(gaps) = SubSeq(all, 1, m)
    <2>1. Before(gaps, N + 1) = all
        <3>1. N + 1 - 1 = N
            BY <1>2
        <3>2. QED BY <1>1, <3>1
    <2>2. QED BY <2>1 DEF BatchOf
<1> HIDE DEF all
<1>9. m \in Nat /\ m <= MaxBatch /\ m <= Len(all)
    <2> DEFINE L == Len(all)
    <2>1. L \in Nat /\ MaxBatch \in Nat
        BY <1>7
    <2> HIDE DEF L
    <2>2. {MaxBatch, L} \in SUBSET Nat /\ {MaxBatch, L} # {}
        BY <2>1
    <2>3. QED BY <2>2, MinIsLeast DEF L
<1> HIDE DEF m
<1>10. /\ SubSeq(all, 1, m) \in Seq(Ids)
       /\ Range(SubSeq(all, 1, m)) = {all[k] : k \in 1..m}
    <2>1. \A k \in 1..m : all[k] \in Ids
        BY <1>7, <1>9, ElementOfSeq
    <2>2. SubSeq(all, 1, m) = [k \in 1..m |-> all[k]]
        BY <1>7, <1>9
    <2>3. SubSeq(all, 1, m) \in [1..m -> Ids]
        BY <2>1, <2>2
    <2>4. SubSeq(all, 1, m) \in Seq(Ids)
        BY <1>9, <2>3, SeqDef
    <2>5. QED BY <2>2, <2>4 DEF Range
<1>11. ASSUME NEW k \in 1..m PROVE \E j \in UsedGaps(gaps) : all[k] \in Range(gaps[j].children)
    <2>1. k \in 1..Len(all) /\ k <= MaxBatch
        BY <1>7, <1>9
    <2>2. PICK j \in 1..N : Expandable(gaps[j]) /\ all[k] \in Range(gaps[j].children) /\ Len(f[j - 1]) < k
        BY <1>6, <2>1 DEF all
    <2>3. Len(Before(gaps, j)) < MaxBatch
        <3>1. j - 1 \in 0..N
            BY <1>2
        <3>2. Len(f[j - 1]) \in Nat
            BY <1>2, <3>1, LenProperties
        <3>3. Len(f[j - 1]) < MaxBatch
            BY <1>7, <2>1, <2>2, <3>2
        <3>4. QED BY <1>1, <3>3
    <2>4. QED BY <1>2, <2>2, <2>3 DEF UsedGaps
<1>12. QED BY <1>8, <1>10, <1>11

\* The ids a document's gaps can be asked for.
Edge(t) == UNION {Range(g.children) : g \in Range(t.gaps)}

\* No id is in two gaps.
Spread(t) ==
    \A k, l \in DOMAIN t.gaps :
        k # l => Range(t.gaps[k].children) \cap Range(t.gaps[l].children) = {}

\* The ids come from gaps that a batch uses.
Used(t, ids) == \A c \in Range(ids) : \E j \in UsedGaps(t.gaps) : c \in Range(t.gaps[j].children)

\* A gap less the ids asked for.
Less(g, ids) == [g EXCEPT !.children = Filter(@, Ids \ Range(ids))]

LEMMA LessIs ==
    ASSUME NEW g \in GapSet, NEW ids
    PROVE  /\ Less(g, ids) \in GapSet /\ Less(g, ids).type = g.type /\ Less(g, ids).parent = g.parent
           /\ Range(Less(g, ids).children) = Range(g.children) \ Range(ids)
<1> DEFINE q == Filter(g.children, Ids \ Range(ids))
<1>1. g.children \in Seq(Ids)
    BY DEF GapSet
<1>2. q \in Seq(Ids) /\ Range(q) = Range(g.children) \cap (Ids \ Range(ids)) /\ Range(g.children) \subseteq Ids
    BY <1>1, FilterIs, RangeIs
<1>3. Less(g, ids) = [g EXCEPT !.children = q]
    BY DEF Less
<1> HIDE DEF q
<1>4. /\ Less(g, ids) \in GapSet /\ Less(g, ids).type = g.type /\ Less(g, ids).parent = g.parent
      /\ Less(g, ids).children = q
    BY <1>2, <1>3 DEF GapSet
<1>5. QED BY <1>2, <1>4

\* What a round makes of the document.
Merged(t, new, ids, m) ==
    /\ DocTyped(m) /\ Range(m.comments) = Range(t.comments) \cup Range(new.comments)
    /\ Whole(new) => Whole(m)
    /\ Range(new.gaps) \subseteq Range(m.gaps)
    /\ \A g \in Range(t.gaps) :
         /\ \A i \in Range(g.children) \ Range(ids) : \E h \in Range(m.gaps) : i \in Range(h.children)
         /\ (g.type # "more" /\ g.children = <<>>) => g \in Range(m.gaps)
    /\ (Spread(t) /\ Spread(new) /\ Edge(t) \cap Edge(new) = {}) => Spread(m)
    /\ (Spread(t) /\ Used(t, ids)) => Edge(m) \subseteq Edge(new) \cup (Edge(t) \ Range(ids))

LEMMA MergeIs ==
    ASSUME NEW t, DocTyped(t), NEW new, DocTyped(new), NEW ids
    PROVE  Merged(t, new, ids, MergeExpanded(t, new, ids))
<1> DEFINE used == UsedGaps(t.gaps)
           n == Len(t.gaps)
           rest == [k \in DOMAIN t.gaps |-> IF k \in used THEN Less(t.gaps[k], ids) ELSE t.gaps[k]]
           kept == {g \in Range(rest) : g.type # "more" \/ g.children # <<>>}
           keep == Filter(rest, kept)
           m == MergeExpanded(t, new, ids)
           fresh == Filter(new.comments, Ids \ Range(t.comments))
<1>1. m.comments = t.comments \o fresh /\ m.gaps = keep \o new.gaps
    BY DEF MergeExpanded, Less
<1>2. /\ n \in Nat /\ DOMAIN t.gaps = 1..n /\ \A k \in 1..n : t.gaps[k] \in GapSet
      /\ new.gaps \in Seq(GapSet)
    BY LenProperties, ElementOfSeq DEF DocTyped
<1> HIDE DEF used, n
<1>3. ASSUME NEW k \in 1..n
      PROVE  /\ rest[k] \in GapSet /\ rest[k].type = t.gaps[k].type
             /\ Range(rest[k].children) \subseteq Range(t.gaps[k].children)
             /\ Range(t.gaps[k].children) \ Range(ids) \subseteq Range(rest[k].children)
             /\ k \in used => Range(rest[k].children) = Range(t.gaps[k].children) \ Range(ids)
             /\ k \notin used => rest[k] = t.gaps[k]
    <2>1. t.gaps[k] \in GapSet /\ k \in DOMAIN t.gaps
        BY <1>2
    <2>2. CASE k \in used
        <3>1. rest[k] = Less(t.gaps[k], ids)
            BY <2>1, <2>2
        <3> DEFINE g == t.gaps[k]
        <3>2. g \in GapSet
            BY <2>1
        <3> HIDE DEF rest, g
        <3>3. /\ Less(g, ids) \in GapSet /\ Less(g, ids).type = g.type
              /\ Range(Less(g, ids).children) = Range(g.children) \ Range(ids)
            BY <3>2, LessIs
        <3>4. QED BY <2>2, <3>1, <3>3 DEF g
    <2>3. CASE k \notin used
        <3>1. rest[k] = t.gaps[k]
            BY <2>1, <2>3
        <3> HIDE DEF rest
        <3>2. QED BY <2>1, <2>3, <3>1
    <2>4. QED BY <2>2, <2>3
<1>4. DOMAIN rest = 1..n /\ rest \in Seq(GapSet) /\ Len(rest) = n
    <2>1. DOMAIN rest = 1..n
        BY <1>2
    <2>2. rest \in [1..n -> GapSet]
        <3>1. rest = [k \in 1..n |-> rest[k]]
            BY <2>1
        <3> HIDE DEF rest
        <3>2. \A k \in 1..n : rest[k] \in GapSet
            BY <1>3
        <3>3. QED BY <3>1, <3>2
    <2> HIDE DEF rest
    <2>3. rest \in Seq(GapSet)
        BY <1>2, <2>2, SeqDef
    <2>4. QED BY <1>2, <2>1, <2>3, LenProperties
<1> HIDE DEF rest
<1>5. keep \in Seq(GapSet) /\ Range(keep) = Range(rest) \cap kept
      /\ \E e : e \in TakenFrom(rest, keep)
    <2> HIDE DEF kept
    <2>1. QED BY <1>4, FilterIs, FilterPicks
<1> HIDE DEF keep
<1>6. Range(keep) = kept
    BY <1>5
<1>7. /\ m.gaps \in Seq(GapSet) /\ Range(m.gaps) = kept \cup Range(new.gaps)
      /\ Len(m.gaps) = Len(keep) + Len(new.gaps)
    <2> DEFINE g == new.gaps
               q == keep \o g
    <2>1. g \in Seq(GapSet) /\ m.gaps = q
        BY <1>1, <1>2
    <2> HIDE DEF g
    <2>2. q \in Seq(GapSet) /\ Range(q) = Range(keep) \cup Range(g) /\ Len(q) = Len(keep) + Len(g)
        BY <1>5, <2>1, ConcatIs
    <2> HIDE DEF q, m, kept
    <2>3. QED BY <1>6, <2>1, <2>2 DEF g
<1>8. DocTyped(m) /\ Range(m.comments) = Range(t.comments) \cup Range(new.comments)
    <2>1. t.comments \in Seq(Ids) /\ new.comments \in Seq(Ids) /\ IsInjective(t.comments) /\ IsInjective(new.comments)
        BY DEF DocTyped
    <2>2. Range(new.comments) \subseteq Ids
        BY <2>1, RangeIs
    <2>3. /\ fresh \in Seq(Ids) /\ IsInjective(fresh)
          /\ Range(fresh) = Range(new.comments) \cap (Ids \ Range(t.comments))
        BY <2>1, FilterIs
    <2> HIDE DEF fresh
    <2>4. /\ t.comments \o fresh \in Seq(Ids) /\ Range(t.comments \o fresh) = Range(t.comments) \cup Range(fresh)
          /\ IsInjective(t.comments \o fresh)
        <3> DEFINE s == t.comments
        <3>1. s \in Seq(Ids) /\ IsInjective(s) /\ Range(s) \cap Range(fresh) = {}
            BY <2>1, <2>3
        <3> HIDE DEF s
        <3>2. s \o fresh \in Seq(Ids) /\ Range(s \o fresh) = Range(s) \cup Range(fresh) /\ IsInjective(s \o fresh)
            BY <2>3, <3>1, ConcatIs
        <3>3. QED BY <3>2 DEF s
    <2> HIDE DEF m
    <2>5. QED BY <1>1, <1>7, <2>2, <2>3, <2>4 DEF DocTyped
<1>9. Range(rest) = {rest[k] : k \in 1..n} /\ Range(t.gaps) = {t.gaps[k] : k \in 1..n}
    BY <1>2, <1>4 DEF Range
<1> HIDE DEF m
<1>10. Whole(new) => Whole(m)
    BY <1>7 DEF Whole
<1>11. Range(new.gaps) \subseteq Range(m.gaps)
    BY <1>7
<1>12. ASSUME NEW k \in 1..n, NEW i \in Range(t.gaps[k].children) \ Range(ids)
       PROVE  \E h \in Range(m.gaps) : i \in Range(h.children)
    <2>1. i \in Range(rest[k].children)
        BY <1>3
    <2>2. rest[k].children # <<>>
        BY <2>1 DEF Range
    <2>3. rest[k] \in kept
        BY <1>9, <2>2
    <2>4. QED BY <1>7, <2>1, <2>3
<1>13. ASSUME NEW k \in 1..n, t.gaps[k].type # "more", t.gaps[k].children = <<>>
       PROVE  t.gaps[k] \in Range(m.gaps)
    <2>1. k \notin used
        BY <1>13 DEF used, UsedGaps, Expandable
    <2>2. rest[k] = t.gaps[k]
        BY <1>3, <2>1
    <2>3. rest[k] \in kept
        BY <1>9, <1>13, <2>2
    <2>4. QED BY <1>7, <2>2, <2>3
<1>14. ASSUME Spread(t), Spread(new), Edge(t) \cap Edge(new) = {} PROVE Spread(m)
    <2>1. PICK e : e \in TakenFrom(rest, keep)
        BY <1>5
    <2> DEFINE L == Len(keep)
    <2>2. /\ L \in Nat /\ e \in [1..L -> 1..n]
          /\ \A k, l \in 1..L : k < l => e[k] < e[l]
          /\ \A k \in 1..L : keep[k] = rest[e[k]]
        BY <1>4, <1>5, <2>1, LenProperties DEF TakenFrom
    <2>3. \A k, l \in 1..L : k # l => e[k] # e[l]
        <3> SUFFICES ASSUME NEW k \in 1..L, NEW l \in 1..L, k # l PROVE e[k] # e[l]
            OBVIOUS
        <3>1. e[k] \in 1..n /\ e[l] \in 1..n
            BY <2>2
        <3>2. k < l \/ l < k
            BY <2>2
        <3>3. e[k] < e[l] \/ e[l] < e[k]
            BY <2>2, <3>2
        <3>4. QED BY <1>2, <3>1, <3>3
    <2> DEFINE R == Len(new.gaps)
    <2>4. /\ R \in Nat /\ DOMAIN new.gaps = 1..R /\ DOMAIN m.gaps = 1..(L + R) /\ m.gaps = keep \o new.gaps
        BY <1>1, <1>2, <1>7, LenProperties
    <2>5. \A k \in 1..(L + R) : m.gaps[k] = IF k <= L THEN keep[k] ELSE new.gaps[k - L]
        BY <1>2, <1>5, <2>4, ConcatProperties
    <2> HIDE DEF L, R
    <2>6. \A k \in 1..(L + R) : (k <= L => k \in 1..L) /\ (~(k <= L) => k - L \in 1..R)
        BY <2>2, <2>4
    <2>7. ASSUME NEW k \in 1..(L + R), k <= L
          PROVE  e[k] \in 1..n /\ Range(m.gaps[k].children) \subseteq Range(t.gaps[e[k]].children)
                 /\ Range(m.gaps[k].children) \subseteq Edge(t)
        <3>1. k \in 1..L /\ e[k] \in 1..n /\ m.gaps[k] = rest[e[k]]
            BY <2>2, <2>5, <2>6, <2>7
        <3>2. Range(m.gaps[k].children) \subseteq Range(t.gaps[e[k]].children)
            BY <1>3, <3>1
        <3>3. t.gaps[e[k]] \in Range(t.gaps)
            BY <1>9, <3>1
        <3>4. QED BY <3>1, <3>2, <3>3 DEF Edge
    <2>8. ASSUME NEW k \in 1..(L + R), ~(k <= L)
          PROVE  k - L \in DOMAIN new.gaps /\ m.gaps[k] = new.gaps[k - L]
                 /\ Range(m.gaps[k].children) \subseteq Edge(new)
        <3>1. k - L \in DOMAIN new.gaps /\ m.gaps[k] = new.gaps[k - L]
            BY <2>4, <2>5, <2>6, <2>8
        <3>2. m.gaps[k] \in Range(new.gaps)
            BY <3>1 DEF Range
        <3>3. QED BY <3>1, <3>2 DEF Edge
    <2>9. ASSUME NEW k \in 1..(L + R), NEW l \in 1..(L + R), k # l
          PROVE  Range(m.gaps[k].children) \cap Range(m.gaps[l].children) = {}
        <3>1. CASE k <= L /\ l <= L
            <4>1. k \in 1..L /\ l \in 1..L /\ e[k] # e[l]
                BY <2>3, <2>6, <2>9, <3>1
            <4>2. e[k] \in DOMAIN t.gaps /\ e[l] \in DOMAIN t.gaps
                BY <1>2, <2>7, <3>1
            <4>3. Range(t.gaps[e[k]].children) \cap Range(t.gaps[e[l]].children) = {}
                BY <1>14, <4>1, <4>2 DEF Spread
            <4>4. QED BY <2>7, <3>1, <4>3
        <3>2. CASE ~(k <= L) /\ ~(l <= L)
            <4>1. k - L # l - L
                BY <2>2, <2>4, <2>9
            <4>2. QED BY <1>14, <2>8, <3>2, <4>1 DEF Spread
        <3>3. CASE (k <= L /\ ~(l <= L)) \/ (~(k <= L) /\ l <= L)
            BY <1>14, <2>7, <2>8, <3>3
        <3>4. QED BY <3>1, <3>2, <3>3
    <2>10. QED BY <2>4, <2>9 DEF Spread
<1>15. ASSUME Spread(t), Used(t, ids), NEW c \in Edge(m)
       PROVE  c \in Edge(new) \cup (Edge(t) \ Range(ids))
    <2>1. PICK g \in Range(m.gaps) : c \in Range(g.children)
        BY DEF Edge
    <2>2. CASE g \in Range(new.gaps)
        BY <2>1, <2>2 DEF Edge
    <2>3. CASE g \in kept
        <3>1. PICK k \in 1..n : g = rest[k]
            BY <1>9, <2>3
        <3>2. c \in Range(t.gaps[k].children) /\ t.gaps[k] \in Range(t.gaps)
            BY <1>3, <1>9, <2>1, <3>1
        <3>3. c \notin Range(ids)
            <4>1. CASE k \in used
                BY <1>3, <2>1, <3>1, <4>1
            <4>2. CASE k \notin used
                <5> SUFFICES ASSUME c \in Range(ids) PROVE FALSE
                    OBVIOUS
                <5>1. PICK j \in used : c \in Range(t.gaps[j].children)
                    BY <1>15 DEF Used, used
                <5>2. j \in DOMAIN t.gaps /\ k \in DOMAIN t.gaps /\ j # k
                    BY <1>2, <4>2 DEF used, UsedGaps
                <5>3. QED BY <1>15, <3>2, <5>1, <5>2 DEF Spread
            <4>3. QED BY <4>1, <4>2
        <3>4. QED BY <3>2, <3>3 DEF Edge
    <2>4. QED BY <1>7, <2>1, <2>2, <2>3
<1>16. Merged(t, new, ids, m)
    BY <1>8, <1>9, <1>10, <1>11, <1>12, <1>13, <1>14, <1>15 DEF Merged
<1>17. QED BY <1>16 DEF m

\* The sets of comments that have with a comment the one it answers.
Upward == {S \in SUBSET Ids : \A x \in S : Parent[x] \in Ids => Parent[x] \in S}

\* A comment and those it answers, up to the post.
Line(i) == {j \in Ids : \A S \in Upward : i \in S => j \in S}

LEMMA LineIs ==
    ASSUME NEW i \in Ids
    PROVE  /\ i \in Line(i) /\ Line(i) \in Upward
           /\ \A S \in Upward : i \in S => Line(i) \subseteq S
           /\ \A j \in Line(i) : Line(j) \subseteq Line(i)
<1>1. Line(i) \in Upward
    <2>1. ASSUME NEW j \in Line(i), Parent[j] \in Ids, NEW S \in Upward, i \in S
          PROVE  Parent[j] \in S
        BY <2>1 DEF Line, Upward
    <2>2. QED BY <2>1 DEF Line, Upward
<1>2. QED BY <1>1 DEF Line

LEMMA LineFrom ==
    ASSUME NEW i \in Ids
    PROVE  /\ Parent[i] \in Ids => Line(i) = {i} \cup Line(Parent[i])
           /\ Parent[i] \notin Ids => Line(i) = {i}
<1>1. ASSUME Parent[i] \in Ids PROVE Line(i) = {i} \cup Line(Parent[i])
    <2>1. Parent[i] \in Line(i)
        BY <1>1, LineIs DEF Upward
    <2>2. {i} \cup Line(Parent[i]) \subseteq Line(i)
        BY <2>1, LineIs
    <2>3. {i} \cup Line(Parent[i]) \in Upward
        BY <1>1, LineIs DEF Upward
    <2>4. QED BY <2>2, <2>3, LineIs
<1>2. ASSUME Parent[i] \notin Ids PROVE Line(i) = {i}
    <2>1. {i} \in Upward
        BY <1>2 DEF Upward
    <2>2. QED BY <2>1, LineIs
<1>3. QED BY <1>1, <1>2

\* Two comments above a third are one above the other.
LEMMA LineIsLine ==
    ASSUME NEW i \in Ids, NEW j \in Line(i), NEW k \in Line(i)
    PROVE  j \in Line(k) \/ k \in Line(j)
<1> DEFINE S == {x \in Ids : x \in Line(j) \/ j \in Line(x)}
<1>1. j \in Ids /\ k \in Ids
    BY DEF Line
<1>2. S \in Upward
    <2>1. ASSUME NEW x \in S, Parent[x] \in Ids PROVE Parent[x] \in S
        <3>1. CASE x \in Line(j)
            BY <1>1, <2>1, <3>1, LineIs DEF Upward
        <3>2. CASE j \in Line(x)
            <4>1. CASE j = x
                BY <1>1, <2>1, <4>1, LineIs DEF Upward
            <4>2. CASE j # x
                BY <2>1, <3>2, <4>2, LineFrom
            <4>3. QED BY <4>1, <4>2
        <3>3. QED BY <3>1, <3>2
    <2>2. QED BY <2>1 DEF Upward
<1>3. k \in S
    <2>1. i \in S
        BY <1>1
    <2>2. QED BY <1>2, <2>1 DEF Line
<1>4. QED BY <1>3

\* Of two comments only one is above the other.
LEMMA LineOneWay ==
    ASSUME NEW i \in Ids, NEW j \in Line(i)
    PROVE  /\ i \in Line(j) => i = j
           /\ Parent[i] \in Ids => i \notin Line(Parent[i])
<1>1. ASSUME NEW a \in Ids, NEW b \in Line(a) PROVE b \in Ids /\ (Place(b) < Place(a) \/ b = a)
    <2> DEFINE S == {x \in Ids : Place(x) < Place(a) \/ x = a}
    <2>1. ASSUME NEW x \in S, Parent[x] \in Ids PROVE Parent[x] \in S
        <3>1. Place(x) \in Nat /\ Place(a) \in Nat /\ Place(Parent[x]) \in Nat /\ Place(Parent[x]) < Place(x)
            BY <2>1, PlaceIs, ParentIs
        <3>2. QED BY <2>1, <3>1
    <2>2. S \in Upward /\ a \in S
        BY <2>1 DEF Upward
    <2> HIDE DEF S
    <2>3. b \in S
        BY <2>2, LineIs
    <2>4. QED BY <2>3 DEF S
<1>2. ASSUME i \in Line(j), i # j PROVE FALSE
    <2>1. j \in Ids
        BY <1>1
    <2>2. Place(i) < Place(j) /\ Place(j) < Place(i) /\ Place(i) \in Nat /\ Place(j) \in Nat
        BY <1>1, <1>2, <2>1, PlaceIs
    <2>3. QED BY <2>2
<1>3. ASSUME Parent[i] \in Ids, i \in Line(Parent[i]) PROVE FALSE
    <2>1. Place(Parent[i]) < Place(i) /\ Place(i) \in Nat /\ Place(Parent[i]) \in Nat
        BY <1>3, PlaceIs, ParentIs
    <2>2. Place(i) < Place(Parent[i]) \/ i = Parent[i]
        BY <1>1, <1>3
    <2>3. QED BY <2>1, <2>2
<1>4. QED BY <1>2, <1>3

-----------------------------------------------------------------------------
(* The comments at which an expansion stands.                              *)

\* None of F is above another, and what is below F or in it.
Apart(F) == \A i, j \in F : i \in Line(j) => i = j
Under(F) == {i \in Ids : \E j \in F : j \in Line(i)}

LEMMA RootsApart == Roots \in SUBSET Ids /\ Apart(Roots)
BY LineFrom, ParentIs DEF Roots, Apart

\* What an answer shows of the branches at F, and leaves out of them.
LEMMA ShownIs ==
    ASSUME NEW F \in SUBSET Ids, Apart(F), NEW s \in Shown(F)
    PROVE  /\ s \in SUBSET Ids /\ Below(s) \in SUBSET Ids /\ s \subseteq Under(F)
           /\ Below(s) \subseteq Under(F) \ F
           /\ Apart(Below(s) \cup (F \ s))
<1>1. s \in SUBSET Ids /\ \A i \in s : i \in F \/ Parent[i] \in s
    BY DEF Shown
<1>2. s \subseteq Under(F)
    <2> DEFINE S == {i \in Ids : i \in s => i \in Under(F)}
    <2>1. ASSUME NEW i \in Ids, Parent[i] \in Ids => Parent[i] \in S, i \in s PROVE i \in Under(F)
        <3>1. CASE i \in F
            BY <3>1, LineIs DEF Under
        <3>2. CASE Parent[i] \in s
            <4>1. Parent[i] \in Ids /\ Parent[i] \in Under(F)
                BY <1>1, <2>1, <3>2
            <4>2. QED BY <4>1, LineFrom DEF Under
        <3>3. QED BY <1>1, <2>1, <3>1, <3>2
    <2>2. S = Ids
        <3>1. S \in SUBSET Ids
            OBVIOUS
        <3>2. \A i \in Ids : (Parent[i] \in Ids => Parent[i] \in S) => i \in S
            BY <2>1
        <3> HIDE DEF S
        <3>3. QED BY <3>1, <3>2, FromParents
    <2>3. QED BY <1>1, <2>2
<1>3. ASSUME NEW i \in Below(s)
      PROVE  /\ i \in Ids /\ i \notin s /\ Parent[i] \in s /\ Parent[i] \in Ids
             /\ i \in Under(F) /\ i \notin F
    <2>1. i \in Ids /\ i \notin s /\ Parent[i] \in s /\ Parent[i] \in Ids
        BY <1>1 DEF Below
    <2>2. PICK j \in F : j \in Line(Parent[i])
        BY <1>2, <2>1 DEF Under
    <2>3. j \in Line(i)
        BY <2>1, <2>2, LineFrom
    <2>4. i \notin F
        <3> SUFFICES ASSUME i \in F PROVE FALSE
            OBVIOUS
        <3>1. j = i
            BY <2>2, <2>3 DEF Apart
        <3>2. QED BY <2>1, <2>2, <3>1, LineOneWay, LineIs
    <2>5. QED BY <2>1, <2>2, <2>3, <2>4 DEF Under
\* Whoever is above a comment shown is shown, or above one of F that is.
<1>4. \A x \in s : \A a \in Line(x) : a \in s \/ \E f \in F \cap s : a \in Line(f)
    <2> DEFINE Fits(x) == x \in s => \A a \in Line(x) : a \in s \/ \E f \in F \cap s : a \in Line(f)
               S == {x \in Ids : Fits(x)}
    <2>1. ASSUME NEW x \in Ids, Parent[x] \in Ids => Parent[x] \in S, x \in s, NEW a \in Line(x)
          PROVE  a \in s \/ \E f \in F \cap s : a \in Line(f)
        <3>1. CASE x \in F
            BY <2>1, <3>1
        <3>2. CASE Parent[x] \in s
            <4>1. Parent[x] \in Ids /\ Fits(Parent[x])
                BY <1>1, <2>1, <3>2
            <4>2. a = x \/ a \in Line(Parent[x])
                BY <2>1, <4>1, LineFrom
            <4>3. QED BY <2>1, <3>2, <4>1, <4>2
        <3>3. QED BY <1>1, <2>1, <3>1, <3>2
    <2>2. S \in SUBSET Ids
        OBVIOUS
    <2>3. \A x \in Ids : (Parent[x] \in Ids => Parent[x] \in S) => x \in S
        BY <2>1
    <2> HIDE DEF S
    <2>4. S = Ids
        BY <2>2, <2>3, FromParents
    <2>5. QED BY <1>1, <2>4 DEF S
<1>5. ASSUME NEW a \in Below(s) \cup (F \ s), NEW b \in Below(s) \cup (F \ s), a \in Line(b)
      PROVE  a = b
    <2>1. a \in Ids /\ b \in Ids /\ a \notin s /\ b \notin s
        BY <1>3
    <2>2. ASSUME NEW f \in F, a \in Line(f) PROVE a = f
        <3>1. CASE a \in F
            BY <2>2, <3>1 DEF Apart
        <3>2. CASE a \in Below(s)
            <4>1. PICK j \in F : j \in Line(a)
                BY <1>3, <3>2 DEF Under
            <4>2. j \in Line(f)
                BY <2>2, <4>1, LineIs
            <4>3. j = f
                BY <4>2 DEF Apart
            <4>4. QED BY <2>1, <2>2, <4>1, <4>3, LineOneWay
        <3>3. QED BY <3>1, <3>2
    <2>3. CASE b \in F
        BY <1>5, <2>2, <2>3
    <2>4. CASE b \in Below(s) /\ a # b
        <3>1. a \in Line(Parent[b])
            BY <1>3, <1>5, <2>1, <2>4, LineFrom
        <3>2. PICK f \in F \cap s : a \in Line(f)
            BY <1>3, <1>4, <2>1, <2>4, <3>1
        <3>3. QED BY <2>1, <2>2, <3>2
    <2>5. QED BY <2>3, <2>4
<1>6. QED BY <1>1, <1>2, <1>3, <1>5 DEF Apart, Below

\* Of F, B has been asked for, and nothing below F has.
Standing(F, B, told) ==
    /\ F \in SUBSET Ids /\ Apart(F) /\ B \in SUBSET F
    /\ told \cap F = B /\ told \cap (Under(F) \ F) = {}

\* A round answered for some of F leaves the rest of F and what is below the
\* answer, and none of it has been asked for.
LEMMA RoundMoves ==
    ASSUME NEW F, NEW B, NEW told, Standing(F, B, told), NEW s \in Shown(B),
           NEW G \in SUBSET ((F \ B) \cup Below(s))
    PROVE  Standing(G, {}, told) /\ Below(s) \cap F = {}
<1> USE DEF Standing
<1>1. B \in SUBSET Ids /\ Apart(B)
    BY DEF Apart
<1>2. Below(s) \in SUBSET Ids /\ Below(s) \subseteq Under(B) \ B /\ Apart(Below(s))
    <2>1. Apart(Below(s) \cup (B \ s)) => Apart(Below(s))
        BY DEF Apart
    <2>2. QED BY <1>1, <2>1, ShownIs
<1>3. ASSUME NEW b \in Below(s) PROVE b \notin F /\ b \in Under(F)
    <2>1. PICK j \in B : j \in Line(b)
        BY <1>2 DEF Under
    <2>2. QED BY <1>2, <2>1 DEF Apart, Under
<1>4. ASSUME NEW a \in (F \ B) \cup Below(s), NEW b \in (F \ B) \cup Below(s), a \in Line(b)
      PROVE  a = b
    <2>1. CASE a \in F \ B /\ b \in F \ B
        BY <1>4, <2>1 DEF Apart
    <2>2. CASE a \in Below(s) /\ b \in Below(s)
        BY <1>2, <1>4, <2>2 DEF Apart
    <2>3. CASE a \in F \ B /\ b \in Below(s)
        <3>1. PICK j \in B : j \in Line(b)
            BY <1>2, <2>3 DEF Under
        <3>2. a \in Line(j) \/ j \in Line(a)
            BY <1>2, <1>4, <2>3, <3>1, LineIsLine
        <3>3. QED BY <2>3, <3>2 DEF Apart
    <2>4. CASE a \in Below(s) /\ b \in F \ B
        <3>1. PICK j \in B : j \in Line(a)
            BY <1>2, <2>4 DEF Under
        <3>2. j \in Line(b)
            BY <1>4, <2>4, <3>1, LineIs
        <3>3. QED BY <2>4, <3>2 DEF Apart
    <2>5. QED BY <2>1, <2>2, <2>3, <2>4
<1>5. G \in SUBSET Ids /\ Apart(G)
    BY <1>2, <1>4 DEF Apart
<1>6. told \cap G = {}
    BY <1>3
<1>7. ASSUME NEW x \in told, x \in Under(G) PROVE x \in G
    <2>1. PICK j \in G : j \in Line(x)
        BY <1>7 DEF Under
    <2>2. x \in Ids
        BY <1>7 DEF Under
    <2>3. j \in Under(F) /\ j \in Ids
        BY <1>3, <1>5, LineIs DEF Under
    <2>4. PICK f \in F : f \in Line(j)
        BY <2>3 DEF Under
    <2>5. f \in Line(x)
        BY <2>1, <2>2, <2>4, LineIs
    <2>6. x \in F
        BY <2>2, <2>5 DEF Under
    <2>7. f = x
        BY <2>5, <2>6 DEF Apart
    <2>8. QED BY <2>1, <2>2, <2>4, <2>7, LineOneWay
<1>8. QED BY <1>3, <1>5, <1>6, <1>7

-----------------------------------------------------------------------------
(* Answers.                                                                *)

\* Nothing below the ids to ask for has been asked for, and none is to be asked for twice.
AskedAbove(t, told) ==
    /\ Edge(t) \in SUBSET Ids /\ Apart(Edge(t)) /\ Spread(t)
    /\ told \cap (Under(Edge(t)) \ Edge(t)) = {}

\* What a Walk leaves out is behind its gaps.
LEMMA WalkTells ==
    ASSUME NEW s \in SUBSET Ids, NEW hidden \in SUBSET Ids, Below(s) \subseteq hidden,
           NEW w, Range(w.comments) = s \ Removed, GapsOf(w, hidden), w.gaps \in Seq(GapSet)
    PROVE  /\ \A i \in Ids : Parent[i] \in s =>
                i \in Range(w.comments) \cup Removed \/ \E g \in Range(w.gaps) : Hides(g, i)
           /\ \A i \in hidden : \E g \in Range(w.gaps) : Hides(g, i)
           /\ Spread(w) /\ Edge(w) \subseteq hidden
<1>1. ASSUME NEW i \in Ids, Parent[i] \in s, i \notin Range(w.comments) \cup Removed
      PROVE  \E g \in Range(w.gaps) : Hides(g, i)
    <2>1. i \in Below(s)
        BY <1>1 DEF Below
    <2>2. QED BY <2>1 DEF GapsOf
<1>2. Spread(w)
    <2> SUFFICES ASSUME NEW k \in DOMAIN w.gaps, NEW l \in DOMAIN w.gaps,
                        NEW c \in Range(w.gaps[k].children), c \in Range(w.gaps[l].children)
                 PROVE  k = l
        BY DEF Spread
    <2>1. Parent[c] = w.gaps[k].parent /\ Parent[c] = w.gaps[l].parent
        BY DEF GapsOf
    <2>2. QED BY <2>1 DEF GapsOf
<1>3. Edge(w) \subseteq hidden
    <2> SUFFICES ASSUME NEW g \in Range(w.gaps), NEW c \in Range(g.children) PROVE c \in hidden
        BY DEF Edge
    <2>1. PICK k \in DOMAIN w.gaps : g = w.gaps[k]
        BY DEF Range
    <2>2. QED BY <2>1 DEF GapsOf
<1>4. QED BY <1>1, <1>2, <1>3 DEF GapsOf

LEMMA AnswerIs ==
    ASSUME NEW F \in SUBSET Ids, NEW new \in Answers[F]
    PROVE  \E s \in Shown(F) : \E links : new = Walk(s, Below(s), links, TRUE)
BY DEF Answers

LEMMA ThreadIs ==
    ASSUME NEW t \in Threads
    PROVE  \E s \in Shown(Roots) : \E links : t = Walk(s, Hidden(s), links, TRUE)
BY DEF Threads

\* A thread just read tells of every reply, and can be expanded.
LEMMA ThreadsAre ==
    ASSUME NEW t \in Threads
    PROVE  DocTyped(t) /\ Tells(t, {}) /\ AskedAbove(t, {}) /\ Whole(t)
<1>1. PICK s \in Shown(Roots) : \E links : t = Walk(s, Hidden(s), links, TRUE)
    BY ThreadIs
<1> DEFINE hidden == Hidden(s)
<1>2. s \in SUBSET Ids /\ hidden \in SUBSET Ids /\ Apart(hidden)
    BY RootsApart, ShownIs DEF Hidden
<1>3. (\E links : t = Walk(s, hidden, links, TRUE)) /\ Below(s) \subseteq hidden /\ Roots \ s \subseteq hidden
    BY <1>1 DEF Hidden
<1> HIDE DEF hidden
<1>4. DocTyped(t) /\ Range(t.comments) = s \ Removed /\ GapsOf(t, hidden) /\ Whole(t)
    <2>1. PICK links : t = Walk(s, hidden, links, TRUE)
        BY <1>3
    <2>2. QED BY <1>2, <2>1, WalkIs
<1>5. t.gaps \in Seq(GapSet)
    BY <1>4 DEF DocTyped
<1>6. /\ \A i \in Ids : Parent[i] \in s =>
            i \in Range(t.comments) \cup Removed \/ \E g \in Range(t.gaps) : Hides(g, i)
      /\ \A i \in hidden : \E g \in Range(t.gaps) : Hides(g, i)
      /\ Spread(t) /\ Edge(t) \subseteq hidden
    BY <1>2, <1>3, <1>4, <1>5, WalkTells
<1>7. Tells(t, {})
    <2> SUFFICES ASSUME NEW i \in Ids, Parent[i] \in {"post"} \cup Range(t.comments)
                 PROVE  i \in Range(t.comments) \cup Removed \cup {} \/ \E g \in Range(t.gaps) : Hides(g, i)
        BY DEF Tells
    <2>1. CASE Parent[i] = "post"
        <3>1. i \in s \/ i \in hidden
            BY <1>3, <2>1 DEF Roots
        <3>2. QED BY <1>4, <1>6, <3>1
    <2>2. CASE Parent[i] \in Range(t.comments)
        BY <1>4, <1>6, <2>2
    <2>3. QED BY <2>1, <2>2
<1>8. AskedAbove(t, {})
    BY <1>2, <1>6 DEF AskedAbove, Apart
<1>9. QED BY <1>4, <1>7, <1>8

\* A document with nothing to ask for can be expanded no further.
LEMMA NothingToAsk ==
    ASSUME NEW t, NoneToAsk(t)
    PROVE  AskedAbove(t, {})
<1>1. \A g \in Range(t.gaps) : Range(g.children) = {}
    BY DEF NoneToAsk, Range
<1>2. Edge(t) = {}
    BY <1>1 DEF Edge
<1>3. Spread(t)
    BY <1>1 DEF Spread, Range
<1>4. QED BY <1>2, <1>3 DEF AskedAbove, Apart

LEMMA NothingRead == DocTyped(NoThread) /\ NoneToAsk(NoThread) /\ Range(NoThread.comments) = {}
BY DEF NoThread, DocTyped, NoneToAsk, Range, IsInjective

\* A page tells of every reply but those behind the branches it has asked for.
LEMMA PageIs ==
    ASSUME NEW s \in Shown(Roots), NEW tried
    PROVE  LET t == PageThread(s, tried)
           IN  DocTyped(t) /\ Tells(t, RepliesOf(tried)) /\ NoneToAsk(t)
<1> DEFINE hidden == Hidden(s) \ RepliesOf(tried)
           t == PageThread(s, tried)
<1>1. s \in SUBSET Ids /\ Hidden(s) \in SUBSET Ids
    BY RootsApart, ShownIs DEF Hidden
<1>2. hidden \in SUBSET Ids /\ t = Walk(s, hidden, {}, FALSE)
    BY <1>1 DEF PageThread
<1>3. \A i \in Hidden(s) : i \in hidden \/ i \in RepliesOf(tried)
    OBVIOUS
<1> HIDE DEF hidden, t
<1>4. DocTyped(t) /\ Range(t.comments) = s \ Removed /\ GapsOf(t, hidden) /\ NoneToAsk(t)
    BY <1>1, <1>2, WalkIs
<1>5. ASSUME NEW i \in Ids, Parent[i] \in {"post"} \cup Range(t.comments), i \notin s
      PROVE  i \in RepliesOf(tried) \/ \E g \in Range(t.gaps) : Hides(g, i)
    <2>1. i \in Hidden(s)
        BY <1>4, <1>5 DEF Hidden, Below, Roots
    <2>2. QED BY <1>3, <1>4, <2>1 DEF GapsOf
<1>6. Tells(t, RepliesOf(tried))
    BY <1>4, <1>5 DEF Tells
<1>7. QED BY <1>4, <1>6 DEF t

\* A round keeps what the document tells, and leaves ids that were not asked for.
LEMMA RoundIs ==
    ASSUME NEW t, DocTyped(t), NEW told, Tells(t, told), AskedAbove(t, told), Whole(t),
           told \cap Edge(t) = Range(BatchOf(t.gaps)),
           NEW new \in Answers[Range(BatchOf(t.gaps))]
    PROVE  LET m == MergeExpanded(t, new, BatchOf(t.gaps))
           IN  DocTyped(m) /\ Tells(m, told) /\ AskedAbove(m, told) /\ Whole(m) /\ told \cap Edge(m) = {}
<1> DEFINE ids == BatchOf(t.gaps)
           B == Range(ids)
           F == Edge(t)
           m == MergeExpanded(t, new, ids)
<1>1. t.gaps \in Seq(GapSet)
    BY DEF DocTyped
<1>2. ids \in Seq(Ids) /\ Used(t, ids)
    BY <1>1, BatchIs DEF Used
<1> HIDE DEF ids
<1>3. PICK s \in Shown(B) : \E links : new = Walk(s, Below(s), links, TRUE)
    <2>1. B \in SUBSET Ids
        BY <1>2, RangeIs DEF B
    <2> HIDE DEF B
    <2>2. new \in Answers[B]
        BY DEF B, ids
    <2>3. QED BY <2>1, <2>2, AnswerIs
<1>4. F \in SUBSET Ids /\ Apart(F) /\ B \in SUBSET F /\ told \cap F = B /\ told \cap (Under(F) \ F) = {}
    BY DEF AskedAbove, ids
<1>5. B \in SUBSET Ids /\ Apart(B)
    BY <1>4 DEF Apart
<1> HIDE DEF B, F
<1>6. s \in SUBSET Ids /\ Below(s) \in SUBSET Ids
    BY <1>5, ShownIs
<1>7. DocTyped(new) /\ Range(new.comments) = s \ Removed /\ GapsOf(new, Below(s)) /\ Whole(new)
    <2>1. PICK links : new = Walk(s, Below(s), links, TRUE)
        BY <1>3
    <2> DEFINE hidden == Below(s)
    <2> HIDE DEF hidden
    <2>2. hidden \in SUBSET Ids /\ new = Walk(s, hidden, links, TRUE)
        BY <1>6, <2>1 DEF hidden
    <2>3. DocTyped(new) /\ Range(new.comments) = s \ Removed /\ GapsOf(new, hidden) /\ Whole(new)
        BY <1>6, <2>2, WalkIs
    <2>4. QED BY <2>3 DEF hidden
<1>8. new.gaps \in Seq(GapSet)
    BY <1>7 DEF DocTyped
<1>9. /\ \A i \in Ids : Parent[i] \in s =>
            i \in Range(new.comments) \cup Removed \/ \E g \in Range(new.gaps) : Hides(g, i)
      /\ Spread(new) /\ Edge(new) \subseteq Below(s)
    BY <1>6, <1>7, <1>8, WalkTells
<1>10. /\ DocTyped(m) /\ Range(m.comments) = Range(t.comments) \cup Range(new.comments)
       /\ Whole(m)
       /\ Range(new.gaps) \subseteq Range(m.gaps)
       /\ \A g \in Range(t.gaps) :
            /\ \A i \in Range(g.children) \ Range(ids) : \E h \in Range(m.gaps) : i \in Range(h.children)
            /\ (g.type # "more" /\ g.children = <<>>) => g \in Range(m.gaps)
       /\ (Spread(t) /\ Spread(new) /\ Edge(t) \cap Edge(new) = {}) => Spread(m)
       /\ (Spread(t) /\ Used(t, ids)) => Edge(m) \subseteq Edge(new) \cup (Edge(t) \ Range(ids))
    <2>1. Merged(t, new, ids, m)
        BY <1>7, MergeIs
    <2> HIDE DEF m
    <2>2. QED BY <1>7, <2>1 DEF Merged
<1> HIDE DEF m
<1>11. Edge(m) \in SUBSET ((F \ B) \cup Below(s))
    BY <1>2, <1>9, <1>10 DEF AskedAbove, F, B
<1>12. /\ Edge(m) \in SUBSET Ids /\ Apart(Edge(m))
       /\ told \cap Edge(m) = {} /\ told \cap (Under(Edge(m)) \ Edge(m)) = {}
       /\ Below(s) \cap F = {}
    <2> DEFINE G == Edge(m)
    <2> HIDE DEF G
    <2>1. G \in SUBSET ((F \ B) \cup Below(s))
        BY <1>11 DEF G
    <2>2. s \in Shown(B)
        BY <1>3
    <2>3. Standing(F, B, told)
        BY <1>4 DEF Standing
    <2>4. Standing(G, {}, told) /\ Below(s) \cap F = {}
        BY <2>1, <2>2, <2>3, RoundMoves
    <2>5. QED BY <2>4 DEF G, Standing
<1>13. AskedAbove(m, told)
    <2>1. Spread(m)
        BY <1>9, <1>10, <1>12 DEF AskedAbove, F
    <2>2. QED BY <1>12, <2>1 DEF AskedAbove
<1>14. ASSUME NEW i \in Ids, Parent[i] \in {"post"} \cup Range(m.comments)
       PROVE  i \in Range(m.comments) \cup Removed \cup told \/ \E g \in Range(m.gaps) : Hides(g, i)
    <2>1. CASE Parent[i] \in {"post"} \cup Range(t.comments)
        <3>1. CASE i \in Range(t.comments) \cup Removed \cup told
            BY <1>10, <3>1
        <3>2. ASSUME NEW g \in Range(t.gaps), Hides(g, i), i \notin told
              PROVE  \E h \in Range(m.gaps) : Hides(h, i)
            <4>1. CASE i \in Range(g.children)
                <5>1. i \notin Range(ids)
                    BY <1>4, <3>2 DEF B
                <5>2. QED BY <1>10, <4>1, <5>1 DEF Hides
            <4>2. CASE g.children = <<>> /\ g.parent = Parent[i]
                <5>1. g.type # "more"
                    BY <4>2 DEF Whole
                <5>2. QED BY <1>10, <3>2, <4>2, <5>1
            <4>3. QED BY <3>2, <4>1, <4>2 DEF Hides
        <3>3. QED BY <2>1, <3>1, <3>2 DEF Tells
    <2>2. CASE Parent[i] \in Range(new.comments)
        BY <1>7, <1>9, <1>10, <2>2
    <2>3. QED BY <1>10, <1>14, <2>1, <2>2
<1>15. Tells(m, told)
    BY <1>14 DEF Tells
<1>16. QED BY <1>10, <1>12, <1>13, <1>15 DEF m, ids

-----------------------------------------------------------------------------
(* The inductive invariant of a crawl.                                     *)

\* The crawl is asking the chain of methods.
Asking == stage \in {"choose", "admit", "token", "flight"}

\* What a call's candidates are.
LeftTyped == left \in Seq(Range(chain)) /\ (op = "more" => "browser" \notin Range(left))

\* Nothing has been read.
Unread == thread = NoThread /\ askedFor = {} /\ round = 0 /\ owed = 0

\* A document of which no more can be read tells of every reply, but those the
\* page has asked for in vain, or is empty and partial.
Told(t, told, lost, why) ==
    \/ Tells(t, told \cup RepliesOf(lost.gone \cup lost.refused))
    \/ t = NoThread /\ why # "no"

\* A round is under way.
Expanding ==
    /\ Whole(thread) /\ AskedAbove(thread, askedFor)
    /\ batch = BatchOf(thread.gaps) /\ askedFor \cap Edge(thread) = Range(batch)
    /\ round < request.rounds

CrawlIInv ==
    /\ CrawlTypeOK
    /\ DocTyped(thread)
    /\ LeftTyped
    /\ Asking <=> op # "none"
    /\ (stage = "pace" \/ op \in {"resolve", "thread", "listing"}) => Unread
    /\ op = "more" => Expanding
    /\ op = "more" => Tells(thread, askedFor)
    /\ stage = "cap" => Told(thread, askedFor, unopened, partial)
    /\ (stage = "done" /\ thread # NoThread) => outcome = "ok"

\* The constants.
LEMMA ChainIs ==
    ASSUME CrawlIInv
    PROVE  /\ chain \in Seq(KnownMethods) /\ Range(chain) \subseteq KnownMethods
           /\ request.rounds \in Nat /\ request.page \in {"share", "thread", "listing"}
           /\ MaxInPage \in Nat
<1>1. chain \in Chains /\ request \in Requests
    BY DEF CrawlIInv, CrawlTypeOK
<1>2. chain \in Seq(KnownMethods)
    BY <1>1, CrawlAssumption
<1>3. request \in [page : {"share", "thread", "listing"}, rounds : Nat, maxTop : Nat, maxComments : Nat]
    BY <1>1, CrawlAssumption
<1>4. QED BY <1>2, <1>3, RangeIs, CrawlAssumption

LEMMA NoneLeft == ASSUME left' = <<>> PROVE LeftTyped'
<1>1. Range(<<>>) = {} /\ \A D : <<>> \in Seq(D)
    BY DEF Range
<1>2. Range(left)' = {}
    BY <1>1
<1>3. (left \in Seq(Range(chain)))'
    BY <1>1
<1>4. QED BY <1>2, <1>3 DEF LeftTyped

\* A call with a candidate has a method, and others behind it.
LEMMA LeftIs ==
    ASSUME CrawlIInv, stage \in {"admit", "token", "flight"}
    PROVE  /\ left # <<>> /\ Method \in Range(chain)
           /\ op = "more" => Direct
           /\ Len(left) > 1 => /\ Tail(left) \in Seq(Range(chain)) /\ Tail(left) # <<>>
                               /\ Range(Tail(left)) \subseteq Range(left)
<1>1. left \in Seq(Range(chain)) /\ left # <<>>
    BY DEF CrawlIInv, CrawlTypeOK, LeftTyped
<1> DEFINE D == Range(chain)
           t == Tail(left)
<1> HIDE DEF D
<1>2. left \in Seq(D) /\ Len(left) \in Nat /\ DOMAIN left = 1..Len(left) /\ Len(left) # 0
    BY <1>1, LenProperties, EmptySeq DEF D
<1>3. Method = left[1] /\ left[1] \in D /\ left[1] \in Range(left)
    <2>1. 1 \in DOMAIN left
        BY <1>2
    <2>2. QED BY <1>1, <1>2, <2>1, ElementOfSeq, HeadTailProperties DEF Method, Range
<1>4. op = "more" => Direct
    BY <1>3 DEF CrawlIInv, LeftTyped, Direct
<1>5. ASSUME Len(left) > 1
      PROVE  t \in Seq(D) /\ t # <<>> /\ Range(t) \subseteq Range(left)
    <2>1. /\ t \in Seq(D) /\ Len(t) = Len(left) - 1
          /\ \A i \in 1..Len(t) : t[i] = left[i + 1]
        BY <1>1, <1>2, HeadTailProperties
    <2> HIDE DEF t
    <2>2. DOMAIN t = 1..Len(t)
        BY <2>1, LenProperties
    <2>3. t # <<>>
        <3> SUFFICES ASSUME t = <<>> PROVE FALSE
            OBVIOUS
        <3>1. Len(t) = 0
            BY EmptySeq
        <3>2. QED BY <1>2, <1>5, <2>1, <3>1
    <2>4. \A i \in 1..Len(t) : i + 1 \in DOMAIN left
        BY <1>2, <2>1
    <2>5. QED BY <2>1, <2>2, <2>3, <2>4 DEF Range
<1>6. QED BY <1>1, <1>3, <1>4, <1>5 DEF D

\* What has been asked for tells of a reply too.
LEMMA TellsMore ==
    ASSUME NEW t, NEW told, Tells(t, told), NEW more
    PROVE  Tells(t, told \cup more)
BY DEF Tells

LEMMA ToldByAll ==
    ASSUME NEW t, NEW told, Tells(t, told), NEW lost, NEW why
    PROVE  Told(t, told, lost, why)
BY TellsMore DEF Told

\* What a failure or a hold leaves alone, and what else may change with it.
Beside ==
    /\ UNCHANGED <<chain, request, live, thread, askedFor, round>>
    /\ held' \subseteq Range(chain) /\ token' \in {"none", "valid", "stale"}
    /\ owed' \in 0..MaxInPage

LEMMA GiveUpKeeps ==
    ASSUME CrawlIInv, Asking, Beside, NEW kind, kind \notin {"", "no"}, GiveUp(kind)
    PROVE  CrawlIInv'
<1>1. CASE op = "more"
    <2>1. /\ stage' = "cap" /\ op' = "none" /\ left' = <<>> /\ again' = {} /\ batch' = <<>>
          /\ slots' = slots \ {"quota"} /\ outcome' = outcome
        BY <1>1 DEF GiveUp
    <2>2. CrawlTypeOK'
        BY <2>1 DEF CrawlIInv, CrawlTypeOK, Beside, Asking
    <2>3. LeftTyped'
        BY <2>1, NoneLeft
    <2>4. DocTyped(thread)' /\ Tells(thread, askedFor)'
        BY <1>1 DEF CrawlIInv, Beside
    <2>5. Told(thread', askedFor', unopened', partial')
        BY <2>4, ToldByAll
    <2>6. QED BY <2>5, <2>1, <2>2, <2>3, <2>4 DEF CrawlIInv, Asking
<1>2. CASE op # "more"
    <2>1. /\ stage' = "done" /\ op' = "none" /\ left' = <<>> /\ again' = {} /\ batch' = <<>>
          /\ slots' = {} /\ outcome' = kind
        BY <1>2 DEF GiveUp, Finish
    <2>2. CrawlTypeOK'
        BY <2>1 DEF CrawlIInv, CrawlTypeOK, Beside, Asking
    <2>3. LeftTyped'
        BY <2>1, NoneLeft
    <2>4. DocTyped(thread)' /\ thread' = NoThread
        BY <1>2 DEF CrawlIInv, Beside, Unread, CrawlTypeOK
    <2>5. QED BY <2>1, <2>2, <2>3, <2>4 DEF CrawlIInv, Asking
<1>3. QED BY <1>1, <1>2

\* A step within a call.
LEMMA StaysAsking ==
    ASSUME CrawlIInv, Asking, Asking', CrawlTypeOK', LeftTyped',
           UNCHANGED <<chain, request, thread, askedFor, round, op, batch, owed>>
    PROVE  CrawlIInv'
<1>1. DocTyped(thread)' /\ op' # "none"
    BY DEF CrawlIInv
<1>2. op' = "more" => Expanding' /\ Tells(thread, askedFor)'
    BY DEF CrawlIInv, Expanding
<1>3. op' \in {"resolve", "thread", "listing"} => Unread'
    BY DEF CrawlIInv, Unread
<1>4. QED BY <1>1, <1>2, <1>3 DEF CrawlIInv, Asking

LEMMA FailKeeps ==
    ASSUME CrawlIInv, stage \in {"admit", "token", "flight"}, NEW kind, kind \notin {"", "no"},
           NEW final \in BOOLEAN, Fail(kind, final),
           UNCHANGED <<chain, request, live, thread, askedFor, round>>,
           token' \in {"none", "valid", "stale"}, owed' \in 0..MaxInPage, ~final => owed' = owed
    PROVE  CrawlIInv'
<1>1. Asking /\ Method \in Range(chain) /\ left # <<>>
    BY LeftIs DEF Asking
<1>2. held' \subseteq Range(chain)
    BY <1>1 DEF Fail, CrawlIInv, CrawlTypeOK
<1>3. Beside
    BY <1>2 DEF Beside
<1>4. CASE GiveUp(kind)
    BY <1>1, <1>3, <1>4, GiveUpKeeps
<1>5. CASE ~final /\ Len(left) > 1 /\ left' = Tail(left) /\ again' = {} /\ stage' = "admit"
           /\ slots' = slots \ {"quota"} /\ UNCHANGED <<op, batch, partial, outcome>>
    <2>1. /\ Tail(left) \in Seq(Range(chain)) /\ Tail(left) # <<>>
          /\ Range(Tail(left)) \subseteq Range(left)
        BY <1>5, LeftIs
    <2>2. LeftTyped'
        <3>1. Range(left)' \subseteq Range(left) /\ op' = op /\ Range(chain)' = Range(chain)
            BY <1>5, <2>1
        <3>2. QED BY <1>5, <2>1, <3>1 DEF LeftTyped, CrawlIInv
    <2>3. CrawlTypeOK'
        BY <1>2, <1>5, <2>1 DEF CrawlIInv, CrawlTypeOK
    <2>4. Asking'
        BY <1>5 DEF Asking
    <2>5. QED BY <1>1, <1>5, <2>2, <2>3, <2>4, StaysAsking
<1>6. QED BY <1>4, <1>5 DEF Fail

LEMMA BatchOfWhole ==
    ASSUME NEW t, DocTyped(t)
    PROVE  /\ BatchOf(t.gaps) \in Seq(Ids) /\ Range(BatchOf(t.gaps)) \subseteq Edge(t)
           /\ NoneToAsk(t) => BatchOf(t.gaps) = <<>>
<1> DEFINE b == BatchOf(t.gaps)
<1>1. b \in Seq(Ids) /\ \A c \in Range(b) : \E j \in UsedGaps(t.gaps) : c \in Range(t.gaps[j].children)
    BY BatchIs DEF DocTyped
<1> HIDE DEF b
<1>2. ASSUME NEW c \in Range(b) PROVE c \in Edge(t) /\ ~NoneToAsk(t)
    <2>1. PICK j \in DOMAIN t.gaps : c \in Range(t.gaps[j].children)
        BY <1>1 DEF UsedGaps
    <2>2. t.gaps[j] \in Range(t.gaps)
        BY DEF Range
    <2>3. t.gaps[j].children # <<>>
        BY <2>1 DEF Range
    <2>4. QED BY <2>1, <2>2, <2>3 DEF Edge, NoneToAsk
<1>3. b # <<>> => Range(b) # {}
    <2>1. DOMAIN b = 1..Len(b) /\ Len(b) \in Nat /\ (b # <<>> => Len(b) # 0)
        BY <1>1, LenProperties, EmptySeq
    <2>2. b # <<>> => 1 \in DOMAIN b
        BY <2>1
    <2>3. QED BY <2>2 DEF Range
<1>4. QED BY <1>1, <1>2, <1>3 DEF b

LEMMA ExpandKeeps ==
    ASSUME CrawlIInv, stage = "flight", NEW t, NEW done \in 0..request.rounds, NEW why,
           DocTyped(t), AskedAbove(t, askedFor),
           (Whole(t) /\ Tells(t, askedFor)) \/ (NoneToAsk(t) /\ Told(t, askedFor, unopened', why)),
           askedFor \cap Edge(t) = {}, Expand(t, done, why),
           UNCHANGED <<chain, request, live>>,
           held' \subseteq Range(chain), token' \in {"none", "valid", "stale"}, owed' \in 0..MaxInPage
    PROVE  CrawlIInv' /\ Range(batch') \cap askedFor = {}
<1> DEFINE b == BatchOf(t.gaps)
<1>1. b \in Seq(Ids) /\ Range(b) \subseteq Edge(t) /\ (NoneToAsk(t) => b = <<>>)
    BY BatchOfWhole
<1>2. /\ thread' = t /\ round' = done /\ slots' = slots \ {"quota"} /\ left' = <<>> /\ again' = {}
      /\ outcome' = outcome
    BY DEF Expand
<1>3. LeftTyped' /\ DocTyped(thread)'
    BY <1>2, NoneLeft
<1>4. outcome = ""
    BY DEF CrawlIInv, CrawlTypeOK
<1>5. request.rounds \in Nat
    BY ChainIs
<1>6. CASE done < request.rounds /\ b # <<>>
    <2>1. stage' = "choose" /\ op' = "more" /\ batch' = b /\ askedFor' = askedFor \cup Range(b)
        BY <1>6 DEF Expand
    <2>2. CrawlTypeOK'
        <3>1. stage' # "pace" /\ stage' # "done" /\ stage' \notin {"token", "flight", "admit"}
            BY <2>1
        <3>2. IsInjective(t.comments) /\ Range(t.comments) \subseteq Ids
            BY RangeIs DEF DocTyped
        <3>3. QED BY <1>2, <1>4, <2>1, <3>1, <3>2 DEF CrawlIInv, CrawlTypeOK
    <2> HIDE DEF b
    <2>3. AskedAbove(t, askedFor \cup Range(b)) /\ (askedFor \cup Range(b)) \cap Edge(t) = Range(b)
        BY <1>1 DEF AskedAbove
    <2>4. Expanding'
        <3>1. Whole(t)
            BY <1>1, <1>6
        <3>2. Whole(thread)' /\ AskedAbove(thread, askedFor)' /\ (askedFor \cap Edge(thread) = Range(batch))'
            BY <1>2, <2>1, <2>3, <3>1
        <3>3. (batch = BatchOf(thread.gaps))' /\ (round < request.rounds)'
            BY <1>2, <1>6, <2>1 DEF b
        <3>4. QED BY <3>2, <3>3 DEF Expanding
    <2>5. Tells(thread, askedFor)'
        <3>1. Tells(t, askedFor)
            BY <1>1, <1>6 DEF b
        <3>2. Tells(t, askedFor \cup Range(b))
            BY <3>1, TellsMore
        <3>3. QED BY <1>2, <2>1, <3>2
    <2>6. Range(batch') \cap askedFor = {}
        BY <1>1, <2>1
    <2>7. QED BY <1>2, <1>3, <2>1, <2>2, <2>4, <2>5, <2>6 DEF CrawlIInv, Asking
<1>7. CASE ~(done < request.rounds /\ b # <<>>)
    <2>1. stage' = "cap" /\ op' = "none" /\ batch' = <<>> /\ askedFor' = askedFor
        BY <1>7 DEF Expand
    <2>2. CrawlTypeOK'
        <3>1. IsInjective(t.comments) /\ Range(t.comments) \subseteq Ids
            BY RangeIs DEF DocTyped
        <3>2. QED BY <1>2, <1>4, <2>1, <3>1 DEF CrawlIInv, CrawlTypeOK
    <2>3. Told(thread', askedFor', unopened', partial')
        <3>1. Told(t, askedFor, unopened', why)
            BY ToldByAll
        <3>2. partial' = why
            BY DEF Expand
        <3>3. QED BY <1>2, <2>1, <3>1, <3>2
    <2>4. Range(<<>>) = {}
        BY DEF Range
    <2>5. QED BY <1>2, <1>3, <2>1, <2>2, <2>3, <2>4 DEF CrawlIInv, Asking
<1>8. QED BY <1>6, <1>7

-----------------------------------------------------------------------------
(* The steps of a crawl.                                                   *)

LEMMA InitCrawlIInv == CrawlInit => CrawlIInv
<1> SUFFICES ASSUME CrawlInit PROVE CrawlIInv
    OBVIOUS
<1>1. /\ chain \in Chains /\ request \in Requests /\ stage = "pace" /\ live = TRUE
      /\ held \in SUBSET Range(chain) /\ token \in {"none", "valid", "stale"}
      /\ op = "none" /\ left = <<>> /\ again = {} /\ slots = {} /\ owed = 0
      /\ thread = NoThread /\ batch = <<>> /\ askedFor = {} /\ round = 0 /\ outcome = ""
    BY DEF CrawlInit
<1>2. /\ Range(<<>>) = {} /\ IsInjective(<<>>) /\ \A D : <<>> \in Seq(D)
    BY DEF Range, IsInjective
<1>3. DocTyped(thread) /\ Range(thread.comments) = {} /\ IsInjective(thread.comments)
    BY <1>1, <1>2 DEF NoThread, DocTyped
<1>4. request.rounds \in Nat /\ MaxInPage \in Nat
    BY <1>1, CrawlAssumption
<1>5. CrawlTypeOK
    <2>1. round \in 0..request.rounds /\ owed \in 0..MaxInPage
        <3>1. \A k \in Nat : 0 \in 0..k
            OBVIOUS
        <3>2. QED BY <1>1, <1>4, <3>1
    <2>2. again \subseteq {"401", "403"} /\ live \in BOOLEAN
        BY <1>1
    <2>3. Range(thread.comments) \subseteq Ids
        BY <1>3
    <2>4. "quota" \notin slots /\ "crawl" \notin slots
        BY <1>1
    <2>5. QED BY <1>1, <1>3, <2>1, <2>2, <2>3, <2>4 DEF CrawlTypeOK
<1>6. LeftTyped
    BY <1>1, <1>2 DEF LeftTyped
<1>7. QED BY <1>1, <1>3, <1>5, <1>6 DEF CrawlIInv, Asking, Unread

\* The crawl ends with what it has, or with an error before it has anything.
LEMMA FinishKeeps ==
    ASSUME CrawlIInv, NEW o, o # "", Finish(o), thread' = NoThread \/ o = "ok", DocTyped(thread'),
           UNCHANGED <<chain, request, live, round>>,
           held' \subseteq Range(chain), token' \in {"none", "valid", "stale"}, owed' \in 0..MaxInPage
    PROVE  CrawlIInv'
<1>1. /\ stage' = "done" /\ outcome' = o /\ slots' = {} /\ op' = "none" /\ left' = <<>>
      /\ again' = {} /\ batch' = <<>>
    BY DEF Finish
<1>2. IsInjective(thread.comments)' /\ (Range(thread.comments) \subseteq Ids)'
    BY RangeIs DEF DocTyped
<1>3. CrawlTypeOK'
    BY <1>1, <1>2 DEF CrawlIInv, CrawlTypeOK
<1>4. LeftTyped'
    BY <1>1, NoneLeft
<1>5. QED BY <1>1, <1>3, <1>4 DEF CrawlIInv, Asking

\* The next call of the crawl.
LEMMA AskKeeps ==
    ASSUME CrawlIInv, NEW o \in {"resolve", "thread", "listing"}, Ask(o), Unread,
           stage # "done", slots' \in {slots \cup {"crawl"}, slots \ {"quota"}},
           stage = "pace" => slots' = slots \cup {"crawl"},
           stage # "pace" => slots' = slots \ {"quota"},
           UNCHANGED <<chain, request, live, token, owed, thread, askedFor, round, outcome>>,
           held' \subseteq Range(chain)
    PROVE  CrawlIInv'
<1>1. stage' = "choose" /\ op' = o /\ left' = <<>> /\ again' = {}
    BY DEF Ask
<1>2. CrawlTypeOK'
    BY <1>1 DEF CrawlIInv, CrawlTypeOK
<1>3. LeftTyped'
    BY <1>1, NoneLeft
<1>4. DocTyped(thread)' /\ Unread'
    BY DEF CrawlIInv, Unread
<1>5. QED BY <1>1, <1>2, <1>3, <1>4 DEF CrawlIInv, Asking

LEMMA TypesOf ==
    ASSUME CrawlIInv
    PROVE  /\ held \subseteq Range(chain) /\ token \in {"none", "valid", "stale"} /\ owed \in 0..MaxInPage
           /\ round \in 0..request.rounds /\ DocTyped(thread)
           /\ stage = "pace" => Unread
BY DEF CrawlIInv, CrawlTypeOK

LEMMA PaceKeeps == ASSUME CrawlIInv, Pace PROVE CrawlIInv'
<1>1. /\ stage = "pace" /\ Unread /\ UNCHANGED <<chain, request, live, held, token, owed, thread, askedFor, round>>
    BY TypesOf DEF Pace, crawl
<1>2. CASE Finish("quota_exhausted") \/ Finish("timeout")
    BY <1>1, <1>2, TypesOf, FinishKeeps DEF Unread
<1>3. CASE slots' = slots \cup {"crawl"} /\ UNCHANGED <<batch, outcome>>
           /\ Ask(CASE request.page = "share" -> "resolve"
                    [] request.page = "thread" -> "thread"
                    [] request.page = "listing" -> "listing")
    <2>1. PICK o \in {"resolve", "thread", "listing"} : Ask(o)
        BY <1>3, ChainIs
    <2>2. QED BY <1>1, <1>3, <2>1, TypesOf, AskKeeps
<1>4. QED BY <1>2, <1>3 DEF Pace

LEMMA ChooseKeeps == ASSUME CrawlIInv, Choose PROVE CrawlIInv'
<1> DEFINE usable == IF op = "more" THEN KnownMethods \ {"browser"} ELSE KnownMethods
           candidates == Filter(chain, usable \ held)
<1>1. /\ stage = "choose" /\ Asking
      /\ UNCHANGED <<chain, request, live, held, token, owed, thread, askedFor, round>>
    BY DEF Choose, crawl, Asking
<1>2. candidates \in Seq(Range(chain)) /\ Range(candidates) \subseteq usable
    <2> DEFINE D == Range(chain)
               T == usable \ held
    <2>1. chain \in Seq(D)
        <3>1. chain \in Seq(KnownMethods)
            BY ChainIs
        <3>2. DOMAIN chain = 1..Len(chain) /\ Len(chain) \in Nat
            BY <3>1, LenProperties
        <3>3. chain \in [1..Len(chain) -> D]
            BY <3>1, <3>2 DEF Range
        <3>4. QED BY <3>2, <3>3, SeqDef
    <2>2. T \subseteq usable
        OBVIOUS
    <2> HIDE DEF D, T, usable
    <2>3. Filter(chain, T) \in Seq(D) /\ Range(Filter(chain, T)) = Range(chain) \cap T
        BY <2>1, FilterIs
    <2>4. QED BY <2>2, <2>3 DEF D, T
<1>3. CASE GiveUp("quota_exhausted")
    BY <1>1, <1>3, TypesOf, GiveUpKeeps DEF Beside
<1>4. CASE candidates # <<>> /\ left' = candidates /\ stage' = "admit"
           /\ UNCHANGED <<op, again, slots, batch, partial, outcome>>
    <2> HIDE DEF candidates
    <2>1. LeftTyped'
        <3>1. "browser" \notin usable \/ op # "more"
            OBVIOUS
        <3>2. QED BY <1>1, <1>2, <1>4, <3>1 DEF LeftTyped
    <2>2. CrawlTypeOK'
        BY <1>1, <1>4 DEF CrawlIInv, CrawlTypeOK
    <2>3. Asking'
        BY <1>4 DEF Asking
    <2>4. QED BY <1>1, <1>4, <2>1, <2>2, <2>3, StaysAsking
<1>5. QED BY <1>3, <1>4 DEF Choose

\* A step within a call that goes from request to request of one method.
LEMMA OnTheWay ==
    ASSUME CrawlIInv, stage \in {"admit", "token", "flight"}, stage' \in {"token", "flight"},
           slots' = slots \cup {"quota"} \/ (stage # "admit" /\ slots' = slots),
           again' \subseteq {"401", "403"}, token' \in {"none", "valid", "stale"},
           UNCHANGED <<chain, request, live, held, op, left, owed, thread, batch, askedFor, round, outcome>>
    PROVE  CrawlIInv'
<1>1. Asking /\ Asking'
    BY DEF Asking
<1>2. CrawlTypeOK'
    BY DEF CrawlIInv, CrawlTypeOK
<1>3. LeftTyped'
    BY DEF CrawlIInv, LeftTyped
<1>4. QED BY <1>1, <1>2, <1>3, StaysAsking

LEMMA AdmitKeeps == ASSUME CrawlIInv, Admit PROVE CrawlIInv'
<1>1. /\ stage = "admit" /\ UNCHANGED <<chain, request, live, token, owed, thread, askedFor, round>>
    BY DEF Admit, crawl
<1>2. CASE slots' = slots \cup {"quota"} /\ stage' \in {"token", "flight"}
           /\ UNCHANGED <<held, op, left, again, batch, partial, outcome>>
    <2>1. again' \subseteq {"401", "403"}
        BY <1>2 DEF CrawlIInv, CrawlTypeOK
    <2>2. QED BY <1>1, <1>2, <2>1, TypesOf, OnTheWay
<1>3. CASE \E kind \in {"quota_exhausted", "timeout"} : Fail(kind, TRUE)
    BY <1>1, <1>3, TypesOf, FailKeeps
<1>4. QED BY <1>2, <1>3 DEF Admit

LEMMA TokenKeeps == ASSUME CrawlIInv, Token PROVE CrawlIInv'
<1>1. /\ stage = "token" /\ UNCHANGED <<chain, request, live, owed, thread, askedFor, round>>
      /\ token' \in {"none", "valid", "stale"}
    BY TypesOf DEF Token, crawl
<1>2. CASE stage' = "flight" /\ UNCHANGED <<held, op, left, again, slots, batch, partial, outcome>>
    <2>1. again' \subseteq {"401", "403"}
        BY <1>2 DEF CrawlIInv, CrawlTypeOK
    <2>2. QED BY <1>1, <1>2, <2>1, OnTheWay
<1>3. CASE \E kind \in {"http_403", "upstream_error"} : Fail(kind, FALSE)
    BY <1>1, <1>3, TypesOf, FailKeeps
<1>4. QED BY <1>2, <1>3 DEF Token

LEMMA UnauthorizedKeeps == ASSUME CrawlIInv, Unauthorized PROVE CrawlIInv'
<1>1. /\ stage = "flight" /\ UNCHANGED <<chain, request, live, owed, thread, askedFor, round>>
      /\ token' \in {"none", "valid", "stale"}
    BY TypesOf DEF Unauthorized, crawl
<1>2. CASE stage' = "token" /\ again' = again \cup {"401"}
           /\ UNCHANGED <<held, op, left, slots, batch, partial, outcome>>
    <2>1. again' \subseteq {"401", "403"}
        BY <1>2 DEF CrawlIInv, CrawlTypeOK
    <2>2. QED BY <1>1, <1>2, <2>1, OnTheWay
<1>3. CASE Fail("error", TRUE)
    BY <1>1, <1>3, TypesOf, FailKeeps
<1>4. QED BY <1>2, <1>3 DEF Unauthorized

LEMMA ForbiddenKeeps == ASSUME CrawlIInv, Forbidden PROVE CrawlIInv'
<1>1. /\ stage = "flight" /\ UNCHANGED <<chain, request, live, token, owed, thread, askedFor, round>>
    BY DEF Forbidden, crawl
<1>2. CASE stage' \in {"token", "flight"} /\ again' = {"403"}
           /\ UNCHANGED <<held, op, left, slots, batch, partial, outcome>>
    BY <1>1, <1>2, TypesOf, OnTheWay
<1>3. CASE Fail("http_403", FALSE)
    BY <1>1, <1>3, TypesOf, FailKeeps
<1>4. QED BY <1>2, <1>3 DEF Forbidden

LEMMA MethodHeld ==
    ASSUME CrawlIInv, stage = "flight", NEW spent \in BOOLEAN, Succeed(spent)
    PROVE  held' \subseteq Range(chain)
BY LeftIs, TypesOf DEF Succeed

LEMMA ResolvedKeeps == ASSUME CrawlIInv, Resolved PROVE CrawlIInv'
<1>1. /\ stage = "flight" /\ op = "resolve"
      /\ UNCHANGED <<chain, request, live, token, owed, thread, askedFor, round>>
    BY DEF Resolved, crawl
<1>2. CASE Ask("thread") /\ slots' = slots \ {"quota"} /\ Succeed(FALSE) /\ UNCHANGED <<batch, partial, outcome>>
    <2>1. Unread
        BY <1>1 DEF CrawlIInv
    <2>2. held' \subseteq Range(chain)
        BY <1>1, <1>2, MethodHeld
    <2>3. QED BY <1>1, <1>2, <2>1, <2>2, AskKeeps
<1>3. CASE Fail("error", TRUE)
    BY <1>1, <1>3, TypesOf, FailKeeps
<1>4. CASE Fail("http_403", FALSE)
    BY <1>1, <1>4, TypesOf, FailKeeps
<1>5. QED BY <1>2, <1>3, <1>4 DEF Resolved

\* A thread read, whoever has read it.
LEMMA ReadKeeps ==
    ASSUME CrawlIInv, stage = "flight", op = "thread", NEW t, DocTyped(t), NEW why,
           \/ Whole(t) /\ AskedAbove(t, {}) /\ Tells(t, {})
           \/ NoneToAsk(t) /\ Told(t, {}, unopened', why),
           Expand(t, 0, why), UNCHANGED <<chain, request, live, token>>,
           held' \subseteq Range(chain), owed' \in 0..MaxInPage
    PROVE  CrawlIInv' /\ Range(batch') \cap askedFor = {}
<1>1. askedFor = {}
    BY DEF CrawlIInv, Unread
<1>2. /\ AskedAbove(t, askedFor)
      /\ (Whole(t) /\ Tells(t, askedFor)) \/ (NoneToAsk(t) /\ Told(t, askedFor, unopened', why))
    BY <1>1, NothingToAsk
<1>3. 0 \in 0..request.rounds
    BY ChainIs
<1>4. token' \in {"none", "valid", "stale"} /\ askedFor \cap Edge(t) = {}
    BY <1>1, TypesOf
<1>5. QED BY <1>2, <1>3, <1>4, ExpandKeeps

LEMMA ThreadReadKeeps == ASSUME CrawlIInv, ThreadRead PROVE CrawlIInv' /\ Range(batch') \cap askedFor = {}
<1>1. stage = "flight" /\ op = "thread" /\ UNCHANGED <<chain, request, live, token, owed>>
    BY DEF ThreadRead, crawl
<1>2. PICK spent \in BOOLEAN, t \in Threads : Succeed(spent) /\ Expand(t, 0, "no")
    BY DEF ThreadRead
<1>3. held' \subseteq Range(chain) /\ owed' \in 0..MaxInPage
    BY <1>1, <1>2, TypesOf, MethodHeld
<1>4. DocTyped(t) /\ Whole(t) /\ AskedAbove(t, {}) /\ Tells(t, {})
    BY ThreadsAre
<1>5. QED BY <1>1, <1>2, <1>3, <1>4, ReadKeeps

Cuts == {"no", "http_429", "expansion_failed"}
Reason(t, cut) == IF t = NoThread /\ Roots # {} THEN "browser_incomplete" ELSE cut

\* What a page brings: its comments and gaps but those asked for in vain, or nothing.
LEMMA PageReadIs ==
    ASSUME PageRead
    PROVE  \E n \in 0..MaxInPage, cut \in Cuts :
           \E t, gone, refused :
              /\ t = NoThread \/ \E s \in Shown(Roots) : t = PageThread(s, gone \cup refused)
              /\ cut = "no" => refused = {}
              /\ owed' = owed + n /\ unopened' = [gone |-> gone, refused |-> refused]
              /\ Succeed(cut = "http_429") /\ Expand(t, 0, Reason(t, cut))
<1>1. PICK n \in 0..MaxInPage, s \in Shown(Roots), cut \in {"no", "http_429", "expansion_failed"} :
      \E gone, refused \in SUBSET Branches(s), blank \in BOOLEAN :
         LET t == IF blank THEN NoThread ELSE PageThread(s, gone \cup refused) IN
         /\ blank => s = {} /\ gone = {} /\ refused = {}
         /\ Cardinality(gone) + Cardinality(refused) <= n
         /\ IF cut = "no" THEN refused = {} ELSE n > 0 /\ Cardinality(refused) <= 1
         /\ owed' = owed + n
         /\ unopened' = [gone |-> gone, refused |-> refused]
         /\ Succeed(cut = "http_429")
         /\ Expand(t, 0, IF t = NoThread /\ Roots # {} THEN "browser_incomplete" ELSE cut)
    BY DEF PageRead
<1>2. PICK gone \in SUBSET Branches(s), refused \in SUBSET Branches(s), blank \in BOOLEAN :
         LET t == IF blank THEN NoThread ELSE PageThread(s, gone \cup refused) IN
         /\ IF cut = "no" THEN refused = {} ELSE n > 0 /\ Cardinality(refused) <= 1
         /\ owed' = owed + n
         /\ unopened' = [gone |-> gone, refused |-> refused]
         /\ Succeed(cut = "http_429")
         /\ Expand(t, 0, IF t = NoThread /\ Roots # {} THEN "browser_incomplete" ELSE cut)
    BY <1>1
<1> DEFINE t == IF blank THEN NoThread ELSE PageThread(s, gone \cup refused)
<1>3. /\ t = NoThread \/ t = PageThread(s, gone \cup refused)
      /\ cut = "no" => refused = {}
      /\ owed' = owed + n /\ unopened' = [gone |-> gone, refused |-> refused]
      /\ Succeed(cut = "http_429") /\ Expand(t, 0, Reason(t, cut))
    BY <1>2 DEF Reason
<1> HIDE DEF t
<1>4. cut \in Cuts
    BY DEF Cuts
<1>5. QED BY <1>3, <1>4

LEMMA PageReadKeeps == ASSUME CrawlIInv, PageRead PROVE CrawlIInv' /\ Range(batch') \cap askedFor = {}
<1>1. stage = "flight" /\ op = "thread" /\ UNCHANGED <<chain, request, live, token>>
    BY DEF PageRead, crawl
<1>2. PICK n \in 0..MaxInPage, cut \in Cuts :
      \E t, gone, refused :
        /\ t = NoThread \/ \E s \in Shown(Roots) : t = PageThread(s, gone \cup refused)
        /\ owed' = owed + n /\ unopened' = [gone |-> gone, refused |-> refused]
        /\ Succeed(cut = "http_429") /\ Expand(t, 0, Reason(t, cut))
    BY PageReadIs
<1>3. PICK t, gone, refused :
        /\ t = NoThread \/ \E s \in Shown(Roots) : t = PageThread(s, gone \cup refused)
        /\ owed' = owed + n /\ unopened' = [gone |-> gone, refused |-> refused]
        /\ Succeed(cut = "http_429") /\ Expand(t, 0, Reason(t, cut))
    BY <1>2
<1> DEFINE why == Reason(t, cut)
<1>4. owed' \in 0..MaxInPage
    <2>1. owed = 0
        BY <1>1 DEF CrawlIInv, Unread
    <2>2. QED BY <1>3, <2>1, ChainIs
<1>5. held' \subseteq Range(chain)
    <2>1. PICK spent \in BOOLEAN : Succeed(spent)
        BY <1>3
    <2>2. QED BY <1>1, <2>1, MethodHeld
<1>6. DocTyped(t) /\ NoneToAsk(t) /\ Told(t, {}, unopened', why)
    <2>1. CASE \E s \in Shown(Roots) : t = PageThread(s, gone \cup refused)
        <3>1. PICK s \in Shown(Roots) : t = PageThread(s, gone \cup refused)
            BY <2>1
        <3>2. DocTyped(t) /\ NoneToAsk(t) /\ Tells(t, RepliesOf(gone \cup refused))
            BY <3>1, PageIs
        <3>3. unopened'.gone = gone /\ unopened'.refused = refused
            BY <1>3
        <3>4. QED BY <3>2, <3>3 DEF Told
    <2>2. CASE t = NoThread
        <3>1. DocTyped(t) /\ NoneToAsk(t) /\ Range(t.comments) = {}
            BY <2>2, NothingRead
        <3>2. CASE Roots = {}
            <4>1. Tells(t, {})
                BY <3>1, <3>2 DEF Tells, Roots
            <4>2. QED BY <3>1, <4>1, ToldByAll
        <3>3. CASE Roots # {}
            BY <2>2, <3>1, <3>3 DEF Told, Reason
        <3>4. QED BY <3>2, <3>3
    <2>3. QED BY <1>3, <2>1, <2>2
<1> HIDE DEF why
<1>7. Expand(t, 0, why)
    BY <1>3 DEF why
<1>8. QED BY <1>1, <1>4, <1>5, <1>6, <1>7, ReadKeeps

LEMMA RoundReadKeeps == ASSUME CrawlIInv, RoundRead PROVE CrawlIInv' /\ Range(batch') \cap askedFor = {}
<1>1. stage = "flight" /\ op = "more" /\ UNCHANGED <<chain, request, live, token, owed>>
    BY DEF RoundRead, crawl
<1>2. PICK spent \in BOOLEAN, new \in Answers[Range(batch)] :
         /\ Succeed(spent)
         /\ \/ /\ thread' = MergeExpanded(thread, new, batch) /\ round' = round + 1
               /\ stage' = "cap" /\ op' = "none" /\ left' = <<>> /\ again' = {} /\ batch' = <<>>
               /\ slots' = slots \ {"quota"}
               /\ UNCHANGED <<askedFor, partial, outcome>>
            \/ Expand(MergeExpanded(thread, new, batch), round + 1, partial)
    BY DEF RoundRead
<1> DEFINE m == MergeExpanded(thread, new, batch)
<1>3. /\ DocTyped(thread) /\ Tells(thread, askedFor) /\ Expanding
    BY <1>1 DEF CrawlIInv
<1>4. DocTyped(m) /\ Tells(m, askedFor) /\ AskedAbove(m, askedFor) /\ Whole(m) /\ askedFor \cap Edge(m) = {}
    BY <1>3, RoundIs DEF Expanding
<1> HIDE DEF m
<1>5. /\ held' \subseteq Range(chain) /\ owed' \in 0..MaxInPage /\ token' \in {"none", "valid", "stale"}
    BY <1>1, <1>2, TypesOf, MethodHeld
<1>6. round + 1 \in 0..request.rounds
    BY <1>3, ChainIs, TypesOf DEF Expanding
<1>7. CASE /\ thread' = m /\ round' = round + 1
           /\ stage' = "cap" /\ op' = "none" /\ left' = <<>> /\ again' = {} /\ batch' = <<>>
           /\ slots' = slots \ {"quota"}
           /\ UNCHANGED <<askedFor, partial, outcome>>
    <2>1. IsInjective(m.comments) /\ Range(m.comments) \subseteq Ids
        BY <1>4, RangeIs DEF DocTyped
    <2>2. CrawlTypeOK'
        BY <1>1, <1>5, <1>6, <1>7, <2>1 DEF CrawlIInv, CrawlTypeOK
    <2>3. LeftTyped'
        BY <1>7, NoneLeft
    <2>4. DocTyped(thread)' /\ Tells(thread, askedFor)'
        BY <1>4, <1>7
    <2>5. Range(<<>>) = {} /\ Told(thread', askedFor', unopened', partial')
        BY <2>4, ToldByAll DEF Range
    <2>6. QED BY <1>7, <2>2, <2>3, <2>4, <2>5 DEF CrawlIInv, Asking
<1>8. CASE Expand(m, round + 1, partial)
    BY <1>1, <1>4, <1>5, <1>6, <1>8, ExpandKeeps
<1>9. QED BY <1>2, <1>7, <1>8 DEF m

LEMMA UnparsedKeeps == ASSUME CrawlIInv, Unparsed PROVE CrawlIInv'
<1>1. /\ stage = "flight" /\ GiveUp("parse_error")
      /\ UNCHANGED <<chain, request, live, held, token, owed, thread, askedFor, round>>
    BY DEF Unparsed, crawl
<1>2. Asking /\ Beside
    BY <1>1, TypesOf DEF Asking, Beside
<1>3. QED BY <1>1, <1>2, GiveUpKeeps

\* What a page has sent itself is owed from nothing: no page is read in a round.
LEMMA OwedIs ==
    ASSUME CrawlIInv, stage = "flight", op \in {"thread", "listing"}, NEW n \in 0..MaxInPage, owed' = owed + n
    PROVE  owed' \in 0..MaxInPage
<1>1. owed = 0
    BY DEF CrawlIInv, Unread
<1>2. QED BY <1>1, ChainIs

LEMMA ListingReadKeeps == ASSUME CrawlIInv, ListingRead PROVE CrawlIInv'
<1>1. /\ stage = "flight" /\ op = "listing" /\ Finish("ok")
      /\ UNCHANGED <<chain, request, live, token, thread, askedFor, round>>
    BY DEF ListingRead, crawl
<1>2. owed' = owed \/ \E n \in 0..MaxInPage : owed' = owed + n
    BY DEF ListingRead
<1>3. owed' \in 0..MaxInPage
    BY <1>1, <1>2, OwedIs, TypesOf
<1>4. PICK spent \in BOOLEAN : Succeed(spent)
    BY DEF ListingRead
<1>5. held' \subseteq Range(chain) /\ DocTyped(thread')
    BY <1>1, <1>4, MethodHeld, TypesOf
<1>6. QED BY <1>1, <1>3, <1>5, TypesOf, FinishKeeps

LEMMA LayoutKeeps == ASSUME CrawlIInv, Layout PROVE CrawlIInv'
<1>1. /\ stage = "flight" /\ ~Direct /\ op # "resolve" /\ Fail("layout", TRUE)
      /\ UNCHANGED <<chain, request, live, token, thread, askedFor, round>>
    BY DEF Layout, crawl
<1>2. op \in {"thread", "listing"}
    BY <1>1, LeftIs DEF CrawlIInv, CrawlTypeOK, Asking
<1>3. owed' \in 0..MaxInPage
    BY <1>1, <1>2, OwedIs DEF Layout
<1>4. QED BY <1>1, <1>3, TypesOf, FailKeeps

LEMMA RefusedKeeps == ASSUME CrawlIInv, Refused PROVE CrawlIInv'
<1>1. stage = "flight" /\ UNCHANGED <<chain, request, live, token, owed, thread, askedFor, round>>
    BY DEF Refused, crawl
<1> DEFINE Kinds == {"http_403", "http_429", "captcha", "bot_block", "upstream_error", "error",
                     "timeout", "not_found", "bad_response"}
<1>2. PICK k \in Kinds, final \in BOOLEAN : Fail(k, final)
    BY DEF Refused, Failover
<1>3. k \notin {"", "no"}
    OBVIOUS
<1>4. QED BY <1>1, <1>2, <1>3, TypesOf, FailKeeps

\* The caps leave comments out and change nothing else.
LEMMA CappedIs ==
    ASSUME NEW s \in Seq(Ids), IsInjective(s), NEW top, NEW n
    PROVE  /\ CapTopLevel(s, top) \in Seq(Ids) /\ IsInjective(CapTopLevel(s, top))
           /\ CapComments(s, n) \in Seq(Ids) /\ IsInjective(CapComments(s, n))
<1>1. \A T : Filter(s, T) \in Seq(Ids) /\ IsInjective(Filter(s, T))
    BY FilterIs
<1>2. QED BY <1>1 DEF CapTopLevel, CapComments

LEMMA CapKeeps == ASSUME CrawlIInv, Cap PROVE CrawlIInv'
<1>1. /\ stage = "cap" /\ Finish("ok") /\ thread' = [thread EXCEPT !.comments = Capped(@)]
      /\ UNCHANGED <<chain, request, live, held, token, owed, askedFor, round, partial>>
    BY DEF Cap, crawl
<1>2. DocTyped(thread)
    BY TypesOf
<1>3. Capped(thread.comments) \in Seq(Ids) /\ IsInjective(Capped(thread.comments))
    BY <1>2, CappedIs DEF Capped, DocTyped
<1>4. thread'.comments = Capped(thread.comments) /\ thread'.gaps = thread.gaps
    BY <1>1, <1>2 DEF DocTyped
<1>5. DocTyped(thread')
    BY <1>1, <1>2, <1>3, <1>4 DEF DocTyped
<1>6. QED BY <1>1, <1>5, TypesOf, FinishKeeps

LEMMA AroundKeeps ==
    ASSUME CrawlIInv, HangUp \/ OtherHolds \/ OtherToken \/ Charge
    PROVE  CrawlIInv' /\ UNCHANGED document
<1>1. /\ UNCHANGED <<chain, request, stage, op, left, again, slots, thread, batch, askedFor, unopened, round, partial>>
      /\ outcome' = outcome /\ UNCHANGED document
    BY DEF HangUp, OtherHolds, OtherToken, Charge, crawl, chainCall, document
<1>2. /\ live' \in BOOLEAN /\ held' \subseteq Range(chain) /\ token' \in {"none", "valid", "stale"}
    BY TypesOf DEF HangUp, OtherHolds, OtherToken, Charge, CrawlIInv, CrawlTypeOK, crawl
<1>3. owed' \in 0..MaxInPage /\ (owed = 0 => owed' = 0)
    BY TypesOf, ChainIs DEF HangUp, OtherHolds, OtherToken, Charge, crawl
<1>4. CrawlTypeOK'
    BY <1>1, <1>2, <1>3 DEF CrawlIInv, CrawlTypeOK
<1>5. LeftTyped'
    BY <1>1 DEF CrawlIInv, LeftTyped
<1>6. Expanding => Expanding'
    BY <1>1 DEF Expanding
<1>7. Unread => Unread'
    BY <1>1, <1>3 DEF Unread
<1>8. QED BY <1>1, <1>4, <1>5, <1>6, <1>7 DEF CrawlIInv, Asking

LEMMA CrawlingKeeps == ASSUME CrawlIInv, Crawling PROVE CrawlIInv'
BY PaceKeeps, ChooseKeeps, AdmitKeeps, TokenKeeps, UnauthorizedKeeps, ForbiddenKeeps, ResolvedKeeps,
   ThreadReadKeeps, RoundReadKeeps, UnparsedKeeps, PageReadKeeps, ListingReadKeeps, LayoutKeeps,
   RefusedKeeps, CapKeeps DEF Crawling

LEMMA StepKeepsCrawlIInv == ASSUME CrawlIInv, [CrawlNext]_crawlVars PROVE CrawlIInv'
<1>1. CASE UNCHANGED crawlVars
    <2>1. UNCHANGED <<chain, request, stage, live, held, token, op, left, again, slots, owed,
                      thread, batch, askedFor, unopened, round, partial, outcome>>
        BY <1>1 DEF crawlVars, crawl, chainCall, document
    <2>2. CrawlTypeOK'
        BY <2>1 DEF CrawlIInv, CrawlTypeOK
    <2>3. LeftTyped'
        BY <2>1 DEF CrawlIInv, LeftTyped
    <2>4. (Expanding => Expanding') /\ (Unread => Unread')
        BY <2>1 DEF Expanding, Unread
    <2>5. QED BY <2>1, <2>2, <2>3, <2>4 DEF CrawlIInv, Asking
<1>2. CASE Crawling
    BY <1>2, CrawlingKeeps
<1>3. CASE HangUp \/ OtherHolds \/ OtherToken \/ Charge
    BY <1>3, AroundKeeps
<1>4. QED BY <1>1, <1>2, <1>3 DEF CrawlNext

\* The document is whole at every step of a crawl.
THEOREM AlwaysCrawlIInv == CrawlSpec => []CrawlIInv
<1>1. CrawlIInv /\ [CrawlNext]_crawlVars => CrawlIInv'
    BY StepKeepsCrawlIInv
<1>2. QED BY InitCrawlIInv, <1>1, PTL DEF CrawlSpec

\* A branch refused in a page is told of by the document's reason.
RefusalTold ==
    /\ stage = "pace" \/ op \in {"resolve", "thread", "listing"} => unopened = NoBranch
    /\ unopened.refused # {} => partial # "no"

LEMMA GiveUpTells ==
    ASSUME RefusalTold, unopened' = unopened, NEW kind, kind # "no", GiveUp(kind)
    PROVE  RefusalTold'
BY DEF RefusalTold, GiveUp, Finish

LEMMA FailTells ==
    ASSUME RefusalTold, unopened' = unopened, NEW kind, kind # "no", NEW final, Fail(kind, final)
    PROVE  RefusalTold'
BY GiveUpTells DEF RefusalTold, Fail

LEMMA StepTells == ASSUME CrawlIInv, RefusalTold, [CrawlNext]_crawlVars PROVE RefusalTold'
<1>1. CASE Pace \/ Cap
    BY <1>1 DEF RefusalTold, Pace, Cap, Ask, Finish, NoBranch
<1>2. CASE Choose
    BY <1>2, GiveUpTells DEF Choose, RefusalTold
<1>3. CASE Admit
    BY <1>3, FailTells DEF Admit, RefusalTold
<1>4. CASE Token
    BY <1>4, FailTells DEF Token, RefusalTold
<1>5. CASE Unauthorized
    BY <1>5, FailTells DEF Unauthorized, RefusalTold
<1>6. CASE Forbidden
    BY <1>6, FailTells DEF Forbidden, RefusalTold
<1>7. CASE Resolved
    BY <1>7, FailTells DEF Resolved, RefusalTold, Ask
<1>8. CASE ThreadRead
    BY <1>8 DEF ThreadRead, RefusalTold, Expand, NoBranch
<1>9. CASE RoundRead
    BY <1>9 DEF RoundRead, RefusalTold, Expand
<1>10. CASE Unparsed
    BY <1>10, GiveUpTells DEF Unparsed
<1>11. CASE PageRead
    <2>1. PICK t, cut, refused :
            unopened'.refused = refused /\ (cut = "no" => refused = {}) /\ Expand(t, 0, Reason(t, cut))
        <3>1. PICK n \in 0..MaxInPage, cut \in Cuts :
              \E t, gone, refused :
                /\ cut = "no" => refused = {}
                /\ unopened' = [gone |-> gone, refused |-> refused]
                /\ Expand(t, 0, Reason(t, cut))
            BY <1>11, PageReadIs
        <3>2. PICK t, gone, refused :
                /\ cut = "no" => refused = {}
                /\ unopened' = [gone |-> gone, refused |-> refused]
                /\ Expand(t, 0, Reason(t, cut))
            BY <3>1
        <3>3. unopened'.refused = refused
            BY <3>2
        <3>4. QED BY <3>2, <3>3
    <2>2. partial' \in {"browser_incomplete", cut} /\ stage' # "pace" /\ op' \in {"more", "none"}
        BY <2>1 DEF Expand, Reason
    <2>3. QED BY <2>1, <2>2 DEF RefusalTold
<1>12. CASE ListingRead
    BY <1>12 DEF ListingRead, RefusalTold, Finish, NoBranch
<1>13. CASE Layout
    BY <1>13, FailTells DEF Layout
<1>14. CASE Refused
    <2>1. PICK k, final : k # "no" /\ Fail(k, final)
        BY <1>14 DEF Refused, Failover
    <2>2. unopened' = unopened
        BY <1>14 DEF Refused
    <2>3. QED BY <2>1, <2>2, FailTells
<1>15. CASE HangUp \/ OtherHolds \/ OtherToken \/ Charge \/ UNCHANGED crawlVars
    BY <1>15 DEF HangUp, OtherHolds, OtherToken, Charge, crawlVars, chainCall, document, RefusalTold
<1>16. QED BY <1>1, <1>2, <1>3, <1>4, <1>5, <1>6, <1>7, <1>8, <1>9, <1>10, <1>11, <1>12, <1>13, <1>14, <1>15
    DEF CrawlNext, Crawling

\* No reply is lost on the way (engine.expandGaps, MergeExpanded), but those behind
\* branches a page has asked for in vain; and of those refused the document says
\* that it is partial.
THEOREM NoReplyLost == CrawlSpec => []Accounted
<1>1. CrawlIInv /\ RefusalTold => Accounted
    <2> SUFFICES ASSUME CrawlIInv, RefusalTold, op = "more" \/ stage = "cap"
                 PROVE  Told(thread, askedFor, unopened, partial)
        BY DEF Accounted, CrawlIInv, RefusalTold, Told
    <2>1. QED BY ToldByAll DEF CrawlIInv
<1>2. CrawlInit => RefusalTold
    <2>1. CrawlInit => unopened = NoBranch
        BY DEF CrawlInit
    <2>2. QED BY <2>1 DEF RefusalTold, NoBranch
<1>3. CrawlIInv /\ RefusalTold /\ [CrawlNext]_crawlVars => RefusalTold'
    BY StepTells
<1>4. QED BY AlwaysCrawlIInv, <1>1, <1>2, <1>3, PTL DEF CrawlSpec

\* Outside an answer no round is counted.
LEMMA RoundCounts ==
    ASSUME CrawlIInv, [CrawlNext]_crawlVars, round' # round
    PROVE  ThreadRead \/ PageRead \/ RoundRead
BY DEF CrawlNext, Crawling, Pace, Choose, Admit, Token, Unauthorized, Forbidden, Resolved, Unparsed,
       ListingRead, Layout, Refused, Cap, HangUp, OtherHolds, OtherToken, Charge, document, crawlVars

\* No reply is asked for twice (engine.expandGaps, MergeExpanded).
THEOREM AskedOnce == CrawlSpec => EachAskedOnce
<1>1. CrawlIInv /\ [CrawlNext]_crawlVars => [round' # round => Range(batch') \cap askedFor = {}]_crawlVars
    <2> SUFFICES ASSUME CrawlIInv, [CrawlNext]_crawlVars, round' # round
                 PROVE  Range(batch') \cap askedFor = {}
        OBVIOUS
    <2>1. ThreadRead \/ PageRead \/ RoundRead
        BY RoundCounts
    <2>2. QED BY <2>1, ThreadReadKeeps, PageReadKeeps, RoundReadKeeps
<1>2. QED BY AlwaysCrawlIInv, <1>1, PTL DEF CrawlSpec, EachAskedOnce

-----------------------------------------------------------------------------
(* What an expansion that stops says.                                      *)

\* A failed call that ends the expansion says so in the document.
LEMMA GiveUpSays ==
    ASSUME NEW kind, kind # "no", GiveUp(kind)
    PROVE  stage' = "cap" => partial' # "no"
BY DEF GiveUp, Finish

LEMMA FailSays ==
    ASSUME NEW kind, kind # "no", NEW final, Fail(kind, final)
    PROVE  stage' = "cap" => partial' # "no"
BY GiveUpSays DEF Fail

\* An expansion that goes on no more after an answer is out of rounds or of ids.
LEMMA ExpandSays ==
    ASSUME NEW t, request.rounds \in Nat, NEW done \in 0..request.rounds, NEW why, Expand(t, done, why)
    PROVE  /\ stage' = "cap" => round' = request.rounds \/ BatchOf(thread'.gaps) = <<>>
           /\ stage' # "done"
<1>1. thread' = t /\ round' = done /\ stage' \in {"choose", "cap"}
    BY DEF Expand
<1>2. stage' = "cap" => ~(done < request.rounds /\ BatchOf(t.gaps) # <<>>)
    BY DEF Expand
<1>3. QED BY <1>1, <1>2

\* Which steps end an expansion, and how.
LEMMA CapSaid ==
    ASSUME CrawlIInv, Crawling, stage # "cap", stage' = "cap", partial' = "no"
    PROVE  \/ round' = request.rounds \/ BatchOf(thread'.gaps) = <<>>
           \/ op = "more" /\ round' = round + 1
<1>1. request.rounds \in Nat /\ 0 \in 0..request.rounds
    BY ChainIs
<1>2. CASE ThreadRead \/ PageRead
    <2>1. PICK t, why : Expand(t, 0, why)
        BY <1>2, PageReadIs DEF ThreadRead
    <2>2. QED BY <1>1, <2>1, ExpandSays
<1>3. CASE RoundRead
    <2>1. op = "more" /\ (round' = round + 1 \/ \E t : Expand(t, round + 1, partial))
        BY <1>3 DEF RoundRead
    <2>2. ASSUME NEW t, Expand(t, round + 1, partial) PROVE round' = round + 1
        BY <2>2 DEF Expand
    <2>3. QED BY <2>1, <2>2
<1>4. CASE Pace \/ ListingRead \/ Cap
    BY <1>4 DEF Pace, ListingRead, Cap, Finish, Ask
<1>5. CASE Choose
    BY <1>5, GiveUpSays DEF Choose
<1>6. CASE Unparsed
    BY <1>6, GiveUpSays DEF Unparsed
<1>7. CASE Admit
    BY <1>7, FailSays DEF Admit
<1>8. CASE Token
    BY <1>8, FailSays DEF Token
<1>9. CASE Unauthorized
    BY <1>9, FailSays DEF Unauthorized
<1>10. CASE Forbidden
    BY <1>10, FailSays DEF Forbidden
<1>11. CASE Resolved
    BY <1>11, FailSays DEF Resolved, Ask
<1>12. CASE Layout
    BY <1>12, FailSays DEF Layout
<1>13. CASE Refused
    <2>1. PICK k, final : k # "no" /\ Fail(k, final)
        BY <1>13 DEF Refused, Failover
    <2>2. QED BY <2>1, FailSays
<1>14. QED BY <1>2, <1>3, <1>4, <1>5, <1>6, <1>7, <1>8, <1>9, <1>10, <1>11, <1>12, <1>13 DEF Crawling

\* A crawl that ends keeps the thread it has, or caps it.
LEMMA EndsWithThread ==
    ASSUME CrawlIInv, CrawlIInv', [CrawlNext]_crawlVars, stage' = "done", thread # NoThread
    PROVE  outcome' = "ok"
<1>1. CASE Cap
    BY <1>1 DEF Cap, Finish
<1>2. CASE ThreadRead \/ PageRead \/ RoundRead
    <2>1. request.rounds \in Nat
        BY ChainIs
    <2>2. CASE ThreadRead \/ PageRead
        <3>1. PICK t, why : Expand(t, 0, why)
            BY <2>2, PageReadIs DEF ThreadRead
        <3>2. 0 \in 0..request.rounds
            BY <2>1
        <3>3. QED BY <2>1, <3>1, <3>2, ExpandSays
    <2>3. CASE RoundRead
        BY <2>3 DEF RoundRead, Expand
    <2>4. QED BY <1>2, <2>2, <2>3
<1>3. CASE UNCHANGED thread
    BY <1>3 DEF CrawlIInv
<1>4. Cap \/ ThreadRead \/ PageRead \/ RoundRead \/ UNCHANGED thread
    BY DEF CrawlNext, Crawling, Pace, Choose, Admit, Token, Unauthorized, Forbidden, Resolved, Unparsed,
           ListingRead, Layout, Refused, HangUp, OtherHolds, OtherToken, Charge, document, crawlVars
<1>5. QED BY <1>1, <1>2, <1>3, <1>4

\* An expansion that stops short says why, and a thread once read is returned
\* (engine.expandGaps, fetchThread).
THEOREM StopsWithReason == CrawlSpec => PartialSaid
<1> DEFINE Said ==
        /\ (stage # "cap" /\ stage' = "cap" /\ partial' = "no") =>
              \/ round' = request.rounds \/ BatchOf(thread'.gaps) = <<>>
              \/ op = "more" /\ round' = round + 1
        /\ (stage' = "done" /\ thread # NoThread) => outcome' = "ok"
<1>1. CrawlIInv /\ CrawlIInv' /\ [CrawlNext]_crawlVars => [Said]_crawlVars
    <2> SUFFICES ASSUME CrawlIInv, CrawlIInv', [CrawlNext]_crawlVars PROVE Said
        OBVIOUS
    <2>1. stage # "cap" /\ stage' = "cap" => Crawling
        BY DEF CrawlNext, HangUp, OtherHolds, OtherToken, Charge, crawlVars
    <2>2. QED BY <2>1, CapSaid, EndsWithThread
<1>2. QED BY AlwaysCrawlIInv, <1>1, PTL DEF CrawlSpec, PartialSaid

-----------------------------------------------------------------------------
(* Trees.                                                                  *)

LEMMA TreeRecursion ==
    ASSUME NEW V, NEW R \in SUBSET Ids, NEW base \in [Ids -> V], NEW step \in [Ids -> [V -> V]]
    PROVE  \E h \in [Ids -> V] : FromAbove(h, Ids, Parent, R, base, step)
BY TreeIsRanked, RankedRecursion

\* How deep a comment is below those read.
LEMMA DepthIs ==
    ASSUME NEW s, Range(s) \subseteq Ids
    PROVE  \A i \in Ids : /\ Depth(s, i) \in Nat
                          /\ Depth(s, i) = IF Parent[i] \in Range(s) THEN Depth(s, Parent[i]) + 1 ELSE 0
<1> DEFINE R == Range(s)
           body(h) == [c \in Ids |-> IF Parent[c] \in R THEN h[Parent[c]] + 1 ELSE 0]
           f == CHOOSE h : h = body(h)
           base == [c \in Ids |-> 0]
           step == [c \in Ids |-> [v \in Nat |-> v + 1]]
<1>1. \A i : Depth(s, i) = f[i]
    BY DEF Depth
<1>2. \E g : g = body(g)
    <2>1. base \in [Ids -> Nat] /\ step \in [Ids -> [Nat -> Nat]]
        OBVIOUS
    <2>2. PICK g \in [Ids -> Nat] : FromAbove(g, Ids, Parent, R, base, step)
        <3> HIDE DEF base, step, R
        <3>1. R \in SUBSET Ids
            BY DEF R
        <3>2. QED BY <2>1, <3>1, TreeRecursion
    <2>3. ASSUME NEW c \in Ids PROVE g[c] = body(g)[c]
        <3>1. Parent[c] \in R => g[Parent[c]] \in Nat
            BY <2>2
        <3>2. QED BY <2>2, <3>1 DEF FromAbove
    <2>4. g = body(g)
        BY <2>2, <2>3
    <2>5. QED BY <2>4
<1>3. f = body(f)
    <2> HIDE DEF body
    <2>1. QED BY <1>2
<1> HIDE DEF f
<1>4. \A i \in Ids : f[i] = IF Parent[i] \in R THEN f[Parent[i]] + 1 ELSE 0
    BY <1>3
<1> DEFINE S == {i \in Ids : f[i] \in Nat}
<1>5. S = Ids
    <2>1. ASSUME NEW i \in Ids, Parent[i] \in Ids => Parent[i] \in S PROVE i \in S
        BY <1>4, <2>1
    <2>2. S \in SUBSET Ids
        OBVIOUS
    <2> HIDE DEF S
    <2>3. QED BY <2>1, <2>2, FromParents
<1>6. QED BY <1>1, <1>4, <1>5

\* What a comment hangs from, among those read.
LEMMA AboveIs ==
    ASSUME NEW R \in SUBSET Ids
    PROVE  \A i \in Ids : Chain(i, R) = {i} \cup (IF Parent[i] \in R THEN Chain(Parent[i], R) ELSE {})
<1> DEFINE body(h) == [i \in Ids |-> {i} \cup (IF Parent[i] \in R THEN h[Parent[i]] ELSE {})]
           f == CHOOSE h : h = body(h)
           V == SUBSET Ids
           base == [i \in Ids |-> {i}]
           step == [i \in Ids |-> [v \in V |-> {i} \cup v]]
<1>1. \A i : Chain(i, R) = f[i]
    BY DEF Chain
<1>2. \E g : g = body(g)
    <2>1. base \in [Ids -> V] /\ step \in [Ids -> [V -> V]]
        OBVIOUS
    <2>2. PICK g \in [Ids -> V] : FromAbove(g, Ids, Parent, R, base, step)
        <3> HIDE DEF base, step, V
        <3>1. QED BY <2>1, TreeRecursion
    <2>3. ASSUME NEW c \in Ids PROVE g[c] = body(g)[c]
        <3>1. Parent[c] \in R => g[Parent[c]] \in V
            BY <2>2
        <3>2. QED BY <2>2, <3>1 DEF FromAbove
    <2>4. g = body(g)
        BY <2>2, <2>3
    <2>5. QED BY <2>4
<1>3. f = body(f)
    <2> HIDE DEF body
    <2>1. QED BY <1>2
<1> HIDE DEF f
<1>4. QED BY <1>1, <1>3

\* The comments kept have with them the ones they answer that were read.
KeptUp(K, R) == \A c \in K : Parent[c] \in R => Parent[c] \in K

LEMMA ChainStays ==
    ASSUME NEW R \in SUBSET Ids, NEW K \in SUBSET R, KeptUp(K, R)
    PROVE  \A c \in K : Chain(c, R) \subseteq K
<1> DEFINE S == {c \in Ids : c \in K => Chain(c, R) \subseteq K}
<1>1. ASSUME NEW c \in Ids, Parent[c] \in Ids => Parent[c] \in S PROVE c \in S
    BY <1>1, AboveIs DEF KeptUp
<1>2. S \in SUBSET Ids
    OBVIOUS
<1> HIDE DEF S
<1>3. S = Ids
    BY <1>1, <1>2, FromParents
<1>4. QED BY <1>3 DEF S

-----------------------------------------------------------------------------
(* The cap on the comments.                                                *)

At(s, c) == CHOOSE i \in DOMAIN s : s[i] = c

\* The comments that are counted before c.
Ahead(s, c) ==
    {d \in Range(s) : \/ Depth(s, d) < Depth(s, c)
                      \/ Depth(s, d) = Depth(s, c) /\ At(s, d) < At(s, c)}

LEMMA AheadIs ==
    ASSUME NEW s \in Seq(Ids)
    PROVE  \A c \in Range(s) :
              /\ IsFiniteSet(Ahead(s, c)) /\ Cardinality(Ahead(s, c)) \in Nat
              /\ \A d \in Ahead(s, c) : Cardinality(Ahead(s, d)) < Cardinality(Ahead(s, c))
              /\ Parent[c] \in Range(s) => Parent[c] \in Ahead(s, c)
<1>1. Range(s) \subseteq Ids /\ IsFiniteSet(Range(s))
    BY RangeIs, RangeSize
<1>2. \A c \in Range(s) : Depth(s, c) \in Nat /\ At(s, c) \in Nat
    <2>1. DOMAIN s = 1..Len(s) /\ Len(s) \in Nat
        BY LenProperties
    <2>2. \A c \in Range(s) : At(s, c) \in DOMAIN s
        BY DEF At, Range
    <2>3. QED BY <1>1, <2>1, <2>2, DepthIs
<1>3. \A c : Ahead(s, c) \in SUBSET Range(s)
    BY DEF Ahead
<1>4. \A c : IsFiniteSet(Ahead(s, c)) /\ Cardinality(Ahead(s, c)) \in Nat
    BY <1>1, <1>3, FS_Subset, FS_CardinalityType
<1>5. ASSUME NEW c \in Range(s), NEW d \in Ahead(s, c)
      PROVE  Cardinality(Ahead(s, d)) < Cardinality(Ahead(s, c))
    <2>1. d \in Range(s) /\ d \notin Ahead(s, d)
        BY <1>2, <1>5 DEF Ahead
    <2>2. Ahead(s, d) \subseteq Ahead(s, c)
        <3> SUFFICES ASSUME NEW e \in Ahead(s, d) PROVE e \in Ahead(s, c)
            OBVIOUS
        <3>1. e \in Range(s)
            BY DEF Ahead
        <3>2. /\ Depth(s, e) \in Nat /\ Depth(s, d) \in Nat /\ Depth(s, c) \in Nat
              /\ At(s, e) \in Nat /\ At(s, d) \in Nat /\ At(s, c) \in Nat
            BY <1>2, <1>5, <2>1, <3>1
        <3>3. QED BY <1>5, <3>1, <3>2 DEF Ahead
    <2>3. /\ Cardinality(Ahead(s, d)) <= Cardinality(Ahead(s, c))
          /\ Cardinality(Ahead(s, d)) # Cardinality(Ahead(s, c))
        BY <1>4, <2>1, <2>2, FS_Subset
    <2>4. QED BY <1>4, <2>3
<1>6. ASSUME NEW c \in Range(s), Parent[c] \in Range(s) PROVE Parent[c] \in Ahead(s, c)
    <2>1. Depth(s, c) = Depth(s, Parent[c]) + 1 /\ Depth(s, Parent[c]) \in Nat
        BY <1>1, <1>6, DepthIs
    <2>2. QED BY <1>6, <2>1 DEF Ahead
<1>7. QED BY <1>4, <1>5, <1>6

LEMMA CapCommentsIs ==
    ASSUME NEW s, NEW n
    PROVE  CapComments(s, n) =
             IF n = 0 THEN s ELSE Filter(s, {c \in Range(s) : Cardinality(Ahead(s, c)) < n})
BY DEF CapComments, Ahead, At

\* The comments kept have with them those they answer, and none is dropped while
\* there is room.
LEMMA CountKeeps ==
    ASSUME NEW s \in Seq(Ids), IsInjective(s), NEW n \in Nat
    PROVE  /\ Range(CapComments(s, n)) \subseteq Range(s) /\ KeptUp(Range(CapComments(s, n)), Range(s))
           /\ (n = 0 \/ Len(CapComments(s, n)) < n) => Range(CapComments(s, n)) = Range(s)
<1>1. CASE n = 0
    BY <1>1, CapCommentsIs DEF KeptUp
<1>2. CASE n # 0
    <2> DEFINE size(c) == Cardinality(Ahead(s, c))
               u == CapComments(s, n)
               K == {c \in Range(s) : size(c) < n}
    <2>1. u \in Seq(Ids) /\ Range(u) = K /\ IsInjective(u)
        <3>1. u = Filter(s, K)
            BY <1>2, CapCommentsIs
        <3> HIDE DEF u, K
        <3>2. Filter(s, K) \in Seq(Ids) /\ Range(Filter(s, K)) = Range(s) \cap K /\ IsInjective(Filter(s, K))
            BY FilterIs
        <3>3. QED BY <3>1, <3>2 DEF K
    <2> HIDE DEF u
    <2>2. Cardinality(K) = Len(u) /\ IsFiniteSet(K) /\ Cardinality(K) \in Nat
        BY <2>1, RangeSize, FS_CardinalityType
    <2>3. \A c \in Range(s) : size(c) \in Nat /\ \A d \in Ahead(s, c) : d \in Range(s) /\ size(d) < size(c)
        BY AheadIs DEF Ahead
    <2>4. ASSUME NEW c \in K, Parent[c] \in Range(s) PROVE Parent[c] \in K
        <3>1. Parent[c] \in Ahead(s, c)
            BY <2>4, AheadIs
        <3> HIDE DEF size
        <3>2. size(Parent[c]) < size(c) /\ size(c) < n /\ size(c) \in Nat /\ size(Parent[c]) \in Nat
            BY <2>3, <2>4, <3>1
        <3>3. QED BY <2>4, <3>2
    <2>5. ASSUME Len(u) < n, Range(s) \ K # {} PROVE FALSE
        <3> DEFINE Sizes == {size(c) : c \in Range(s) \ K}
        <3>1. PICK m \in Sizes : \A k \in Sizes : m <= k
            <4>1. Sizes \in SUBSET Nat /\ Sizes # {}
                BY <2>3, <2>5
            <4> HIDE DEF Sizes
            <4>2. QED BY <4>1, MinIsLeast
        <3>2. PICK c \in Range(s) \ K : m = size(c)
            BY <3>1
        <3>3. ASSUME NEW d \in Ahead(s, c) PROVE d \in K
            <4>1. d \in Range(s) /\ size(d) < size(c) /\ size(d) \in Nat /\ size(c) \in Nat
                BY <2>3, <3>2, <3>3
            <4>2. d \notin K => size(c) <= size(d)
                BY <3>1, <3>2, <4>1
            <4> HIDE DEF K, size
            <4>3. QED BY <4>1, <4>2
        <3>4. size(c) <= Cardinality(K)
            <4>1. Ahead(s, c) \in SUBSET K
                BY <3>3
            <4> HIDE DEF K
            <4>2. QED BY <2>2, <4>1, FS_Subset
        <3>5. ~(size(c) < n) /\ size(c) \in Nat
            BY <2>3, <3>2
        <3> HIDE DEF size, K
        <3>6. QED BY <2>2, <2>5, <3>4, <3>5
    <2>6. KeptUp(Range(u), Range(s)) /\ Range(u) \subseteq Range(s)
        BY <2>1, <2>4 DEF KeptUp
    <2>7. Len(u) < n => Range(u) = Range(s)
        BY <2>1, <2>5
    <2>8. QED BY <1>2, <2>6, <2>7 DEF u
<1>3. QED BY <1>1, <1>2

-----------------------------------------------------------------------------
(* The cap on the threads.                                                 *)

\* The first n of a sequence without repetitions are n.
LEMMA FirstOnes ==
    ASSUME NEW s \in Seq(Ids), IsInjective(s), NEW n \in Nat, n < Len(s)
    PROVE  LET K == Range(SubSeq(s, 1, Min({n, Len(s)})))
           IN  K \subseteq Range(s) /\ Cardinality(K) = n
<1> DEFINE q == SubSeq(s, 1, n)
<1>1. Len(s) \in Nat /\ DOMAIN s = 1..Len(s) /\ \A i \in 1..Len(s) : s[i] \in Ids
    BY LenProperties, ElementOfSeq
<1>2. Min({n, Len(s)}) = n
    BY <1>1, MinOfTwo
<1>3. \A i \in 1..n : i \in 1..Len(s)
    BY <1>1
<1>4. q \in Seq(Ids) /\ Len(q) = n /\ \A i \in 1..n : q[i] = s[i]
    <2>1. \A i \in 1..n : s[i] \in Ids
        BY <1>1, <1>3
    <2> HIDE DEF q
    <2>2. /\ SubSeq(s, 1, n) \in Seq(Ids)
          /\ Len(SubSeq(s, 1, n)) = IF 1 <= n THEN n - 1 + 1 ELSE 0
          /\ \A i \in 1..(n - 1 + 1) : SubSeq(s, 1, n)[i] = s[1 + i - 1]
        BY <2>1, SubSeqProperties, 1 \in Int, n \in Int
    <2>3. n - 1 + 1 = n /\ \A i \in 1..n : 1 + i - 1 = i
        OBVIOUS
    <2>4. QED BY <2>2, <2>3 DEF q
<1> HIDE DEF q
<1>5. DOMAIN q = 1..n
    BY <1>4, LenProperties
<1>6. Range(q) \subseteq Range(s) /\ IsInjective(q)
    BY <1>1, <1>3, <1>4, <1>5 DEF Range, IsInjective
<1>7. Cardinality(Range(q)) = n
    BY <1>4, <1>6, RangeSize
<1>8. QED BY <1>2, <1>6, <1>7 DEF q

\* The roots the cap on the threads keeps.
Firsts(s, n) ==
    LET roots == Filter(s, Roots) IN Range(SubSeq(roots, 1, Min({n, Len(roots)})))

\* The comments whose root, if it was read, is kept.
Rooted(A, K, R) ==
    \A c \in Ids : c \in A <=> IF Parent[c] = "post" THEN c \in K ELSE Parent[c] \in R => Parent[c] \in A

LEMMA CapTopLevelIs ==
    ASSUME NEW s, Range(s) \subseteq Ids, NEW n
    PROVE  \/ CapTopLevel(s, n) = s /\ (n = 0 \/ Len(Filter(s, Roots)) <= n)
           \/ /\ n # 0 /\ ~(Len(Filter(s, Roots)) <= n)
              /\ \E A \in SUBSET Ids : /\ CapTopLevel(s, n) = Filter(s, A \cap Range(s))
                                       /\ Rooted(A, Firsts(s, n), Range(s))
<1> DEFINE R == Range(s)
           K == Firsts(s, n)
           body(h) == [c \in Ids |-> IF Parent[c] = "post" THEN c \in K ELSE Parent[c] \in R => h[Parent[c]]]
           f == CHOOSE h : h = body(h)
           A == {c \in Ids : f[c]}
           base == [c \in Ids |-> (Parent[c] = "post" => c \in K)]
           step == [c \in Ids |-> [v \in BOOLEAN |-> v]]
<1>1. CapTopLevel(s, n) = IF n = 0 \/ Len(Filter(s, Roots)) <= n THEN s ELSE Filter(s, {c \in R : f[c]})
    BY DEF CapTopLevel, Firsts
<1>2. \E g : g = body(g)
    <2>1. base \in [Ids -> BOOLEAN] /\ step \in [Ids -> [BOOLEAN -> BOOLEAN]]
        OBVIOUS
    <2>2. PICK g \in [Ids -> BOOLEAN] : FromAbove(g, Ids, Parent, R, base, step)
        <3> HIDE DEF base, step, R
        <3>1. R \in SUBSET Ids
            BY DEF R
        <3>2. QED BY <2>1, <3>1, TreeRecursion
    <2>3. ASSUME NEW c \in Ids PROVE g[c] = body(g)[c]
        <3>1. g[c] \in BOOLEAN
            BY <2>2
        <3>2. CASE Parent[c] \in R
            <4>1. g[c] = step[c][g[Parent[c]]] /\ Parent[c] \in Ids /\ Parent[c] # "post"
                BY <2>2, <3>2, ParentIs DEF FromAbove
            <4>2. g[Parent[c]] \in BOOLEAN
                BY <2>2, <4>1
            <4>3. g[c] = g[Parent[c]]
                BY <4>1, <4>2
            <4>4. body(g)[c] = (Parent[c] \in R => g[Parent[c]])
                BY <4>1
            <4>5. QED BY <3>1, <3>2, <4>2, <4>3, <4>4
        <3>3. CASE Parent[c] \notin R
            <4>1. g[c] = (Parent[c] = "post" => c \in K)
                BY <2>2, <3>3 DEF FromAbove
            <4>2. CASE Parent[c] = "post"
                BY <3>1, <4>1, <4>2
            <4>3. CASE Parent[c] # "post"
                BY <3>1, <3>3, <4>1, <4>3
            <4>4. QED BY <4>2, <4>3
        <3>4. QED BY <3>2, <3>3
    <2>4. body(g) = [c \in Ids |-> body(g)[c]]
        OBVIOUS
    <2>5. g = body(g)
        <3> HIDE DEF body
        <3>1. g = [c \in Ids |-> g[c]]
            BY <2>2
        <3>2. QED BY <2>3, <2>4, <3>1
    <2>6. QED BY <2>5
<1>3. f = body(f)
    <2> HIDE DEF body
    <2>1. QED BY <1>2
<1> HIDE DEF f
<1>4. Rooted(A, K, R)
    <2> SUFFICES ASSUME NEW c \in Ids
                 PROVE  c \in A <=> IF Parent[c] = "post" THEN c \in K ELSE Parent[c] \in R => Parent[c] \in A
        BY DEF Rooted
    <2>1. f[c] = (IF Parent[c] = "post" THEN c \in K ELSE Parent[c] \in R => f[Parent[c]])
        BY <1>3
    <2>2. Parent[c] = "post" \/ Parent[c] \in Ids
        BY ParentIs
    <2> HIDE DEF K, R
    <2>3. QED BY <2>1, <2>2
<1>5. {c \in R : f[c]} = A \cap R
    OBVIOUS
<1>6. QED BY <1>1, <1>4, <1>5

\* The comments kept have with them those they answer, and one that is dropped
\* hangs from a root that is.
LEMMA ThreadsKept ==
    ASSUME NEW s \in Seq(Ids), IsInjective(s), NEW n \in Nat
    PROVE  LET kept == Range(CapTopLevel(s, n))
           IN  /\ kept \subseteq Range(s) /\ KeptUp(kept, Range(s))
               /\ \A c \in Range(s) \ kept :
                     /\ n > 0 /\ Cardinality({r \in kept : Parent[r] = "post"}) = n
                     /\ \E r \in Chain(c, Range(s)) : Parent[r] = "post" /\ r \notin kept
<1> DEFINE R == Range(s)
           K == Firsts(s, n)
           kept == Range(CapTopLevel(s, n))
<1>1. R \in SUBSET Ids
    BY RangeIs
<1>2. CASE CapTopLevel(s, n) = s
    BY <1>2 DEF KeptUp
<1>3. CASE /\ n # 0 /\ ~(Len(Filter(s, Roots)) <= n)
           /\ \E A \in SUBSET Ids : CapTopLevel(s, n) = Filter(s, A \cap R) /\ Rooted(A, K, R)
    <2>1. PICK A \in SUBSET Ids : CapTopLevel(s, n) = Filter(s, A \cap R) /\ Rooted(A, K, R)
        BY <1>3
    <2>2. kept = A \cap R
        <3>1. Range(Filter(s, A \cap R)) = Range(s) \cap (A \cap R)
            BY FilterIs
        <3>2. QED BY <2>1, <3>1
    <2>3. KeptUp(kept, R)
        <3>1. ASSUME NEW c \in A, Parent[c] \in R PROVE Parent[c] \in A
            BY <1>1, <2>1, <3>1, ParentIs DEF Rooted
        <3>2. QED BY <2>2, <3>1 DEF KeptUp
    <2>4. K \subseteq R \cap Roots /\ Cardinality(K) = n
        <3> DEFINE roots == Filter(s, Roots)
        <3>1. roots \in Seq(Ids) /\ IsInjective(roots) /\ Range(roots) = R \cap Roots
            BY FilterIs
        <3>2. Len(roots) \in Nat
            BY <3>1, LenProperties
        <3> HIDE DEF roots
        <3>3. n < Len(roots)
            BY <1>3, <3>2 DEF roots
        <3>4. K = Range(SubSeq(roots, 1, Min({n, Len(roots)})))
            BY DEF Firsts, roots
        <3>5. QED BY <3>1, <3>3, <3>4, FirstOnes
    <2>5. {r \in kept : Parent[r] = "post"} = K
        <3> HIDE DEF K
        <3>1. QED BY <1>1, <2>1, <2>2, <2>4 DEF Rooted, Roots
    <2> DEFINE lost(c) == \E r \in Chain(c, R) : Parent[r] = "post" /\ r \notin A
               S == {c \in Ids : c \notin A => lost(c)}
    <2>6. ASSUME NEW c \in Ids, Parent[c] \in Ids => Parent[c] \in S PROVE c \in S
        <3> SUFFICES ASSUME c \notin A PROVE lost(c)
            OBVIOUS
        <3>1. Chain(c, R) = {c} \cup (IF Parent[c] \in R THEN Chain(Parent[c], R) ELSE {})
            BY <1>1, AboveIs
        <3>2. CASE Parent[c] = "post"
            BY <3>1, <3>2
        <3>3. CASE Parent[c] # "post"
            <4>1. Parent[c] \in R /\ Parent[c] \notin A
                BY <2>1, <3>3 DEF Rooted
            <4>2. lost(Parent[c])
                BY <1>1, <2>6, <4>1
            <4>3. QED BY <3>1, <4>1, <4>2
        <3>4. QED BY <3>2, <3>3
    <2>7. S = Ids
        <3>1. S \in SUBSET Ids
            OBVIOUS
        <3> HIDE DEF S
        <3>2. QED BY <2>6, <3>1, FromParents
    <2>8. ASSUME NEW c \in R \ kept PROVE \E r \in Chain(c, R) : Parent[r] = "post" /\ r \notin kept
        <3>1. c \in Ids /\ c \notin A
            BY <1>1, <2>2
        <3>2. lost(c)
            BY <2>7, <3>1
        <3>3. QED BY <2>2, <3>2
    <2>9. n > 0
        BY <1>3
    <2> HIDE DEF K, R
    <2>10. QED BY <2>2, <2>3, <2>4, <2>5, <2>8, <2>9 DEF R
<1>4. QED BY <1>1, <1>2, <1>3, CapTopLevelIs

\* What the caps leave of a document.
LEMMA CapsAre ==
    ASSUME NEW s \in Seq(Ids), IsInjective(s), request.maxTop \in Nat, request.maxComments \in Nat
    PROVE  CapsKeep(s, Capped(s))
<1> DEFINE n == request.maxTop
           m == request.maxComments
           t == CapTopLevel(s, n)
           u == CapComments(t, m)
           R == Range(s)
           lost(kept, c) ==
              /\ n > 0 /\ Cardinality({r \in kept : Parent[r] = "post"}) = n
              /\ \E r \in Chain(c, R) : Parent[r] = "post" /\ r \notin kept
<1>1. t \in Seq(Ids) /\ IsInjective(t)
    BY CappedIs
<1>2. /\ Range(t) \subseteq R /\ KeptUp(Range(t), R)
      /\ \A c \in R \ Range(t) : lost(Range(t), c)
    BY ThreadsKept
<1> HIDE DEF t
<1>3. /\ Range(u) \subseteq Range(t) /\ KeptUp(Range(u), Range(t))
      /\ (m = 0 \/ Len(u) < m) => Range(u) = Range(t)
    BY <1>1, CountKeeps
<1>4. Capped(s) = u
    BY DEF Capped, t
<1> HIDE DEF u
<1>5. KeptUp(Range(u), R) /\ Range(u) \subseteq R
    BY <1>2, <1>3 DEF KeptUp
<1>6. R \in SUBSET Ids
    BY RangeIs
<1> HIDE DEF R
<1>7. \A c \in Range(u) : Chain(c, R) \subseteq Range(u)
    BY <1>5, <1>6, ChainStays
<1>8. (m = 0 \/ Len(u) < m) => \A c \in R \ Range(u) : lost(Range(u), c)
    BY <1>2, <1>3
<1>9. QED BY <1>4, <1>7, <1>8 DEF CapsKeep, R

\* The caps never leave a reply without the comment it answers, and below the cap on
\* the comments drop whole threads only (capTopLevel, capComments).
THEOREM CapsKeepWhole == CrawlSpec => CapsKeepThreads
<1>1. CrawlIInv /\ [CrawlNext]_crawlVars => [stage = "cap" => CapsKeep(thread.comments, thread'.comments)]_crawlVars
    <2> SUFFICES ASSUME CrawlIInv, [CrawlNext]_crawlVars, stage = "cap"
                 PROVE  CapsKeep(thread.comments, thread'.comments)
        OBVIOUS
    <2>1. thread.comments \in Seq(Ids) /\ IsInjective(thread.comments)
        BY TypesOf DEF DocTyped
    <2>2. request.maxTop \in Nat /\ request.maxComments \in Nat
        <3>1. request \in [page : {"share", "thread", "listing"}, rounds : Nat, maxTop : Nat, maxComments : Nat]
            BY CrawlAssumption DEF CrawlIInv, CrawlTypeOK
        <3>2. QED BY <3>1
    <2>3. CASE Cap
        <3>1. thread'.comments = Capped(thread.comments)
            BY <2>3, TypesOf DEF Cap, DocTyped
        <3>2. QED BY <2>1, <2>2, <3>1, CapsAre
    <2>4. CASE UNCHANGED thread
        <3> DEFINE R == Range(thread.comments)
        <3>1. R \in SUBSET Ids
            BY <2>1, RangeIs
        <3>2. \A c \in R : Chain(c, R) \subseteq R
            <4> HIDE DEF R
            <4>1. R \in SUBSET R /\ KeptUp(R, R)
                BY DEF KeptUp
            <4>2. QED BY <3>1, <4>1, ChainStays
        <3>3. QED BY <2>4, <3>2 DEF CapsKeep
    <2>5. Cap \/ UNCHANGED thread
        BY DEF CrawlNext, Crawling, Pace, Choose, Admit, Token, Unauthorized, Forbidden, Resolved,
               ThreadRead, RoundRead, PageRead, Unparsed, ListingRead, Layout, Refused, HangUp, OtherHolds,
               OtherToken, Charge, document, crawlVars
    <2>6. QED BY <2>3, <2>4, <2>5
<1>2. QED BY AlwaysCrawlIInv, <1>1, PTL DEF CrawlSpec, CapsKeepThreads

=============================================================================
