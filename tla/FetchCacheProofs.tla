-------------------------- MODULE FetchCacheProofs --------------------------
(***************************************************************************)
(* What holds of the response cache for every number of callers, every TTL *)
(* and every order of outages, hang-ups and panics.                        *)
(***************************************************************************)
EXTENDS FetchCache, TLAPS

-----------------------------------------------------------------------------
(* The inductive invariant.                                                *)

States == {"idle", "looking", "sharing", "crawling", "storing", "publishing",
           "closing", "following", "woken", "answered"}

Calls == [live : BOOLEAN, leader : Callers \cup {NoOne}, kind : Kinds,
          version : Versions, gone : BOOLEAN, since : 0..MaxFetch]

\* The states of a fetch that has not been published, and of a leader at large.
Leading == {"crawling", "storing", "publishing"}
AtLarge == Leading \cup {"closing"}

\* Whoever is in the flight map leads, and whoever leads is in the flight map.
FlightManned ==
    /\ flight # NoOne => pc[flight] \in Leading /\ call[flight].leader = flight
    /\ \A c \in Callers : pc[c] \in Leading /\ call[c].leader = c => flight = c

\* Whom a caller c in state s, with the locals x, calls its leader.
LedAs(c, s, x) ==
    /\ s \in {"idle", "looking", "sharing"} => x.leader = NoOne
    /\ s \in Leading => x.leader \in {NoOne, c}
    /\ s = "closing" => x.leader = c

\* A follower's leader is at large.
Led(c) ==
    pc[c] = "following" =>
      LET l == call[c].leader
      IN  l \in Callers \ {c} /\ pc[l] \in AtLarge /\ call[l].leader = l

Fit == {"document", "partial", "refused"}

\* What a caller has in hand: only one that has hung up holds the error of a dead
\* context, and one that finds its leader's there, or its leader's panic, finds
\* that the leader is gone.
HoldsAs(s, x) ==
    /\ s = "storing" => x.kind = "document"
    /\ s = "publishing" => x.kind \in Fit \/ (x.kind = "abandoned" /\ ~x.live)
    /\ s = "closing" =>
         \/ x.kind \in Fit
         \/ x.kind = "abandoned" /\ ~x.live /\ x.gone
         \/ x.kind = "panic" /\ x.gone
    /\ s = "woken" => x.kind \in Fit \/ (x.kind \in {"abandoned", "aborted"} /\ x.gone)
    /\ s = "answered" => x.kind \in Fit \cup {"panic", "unheard"}

\* How old the page is that it has in hand.
FreshAs(s, x) ==
    /\ s = "crawling" => superseded[x.version] <= x.since
    /\ s \in {"storing", "publishing", "closing", "woken"} => superseded[x.version] <= MaxFetch

Settled(c) ==
    /\ LedAs(c, pc[c], call[c]) /\ Led(c)
    /\ HoldsAs(pc[c], call[c]) /\ FreshAs(pc[c], call[c])

\* The page a backend holds is as old as its fetch took and as the entry is.
EntryFresh(b) ==
    /\ entry[b].kind \in {"none", "document"}
    /\ Live(entry[b]) => /\ entry[b].kind = "document"
                         /\ superseded[entry[b].version] + entry[b].left <= MaxFetch + TTL

\* The current version and those to come have not been superseded at all.
Current == \A v \in Versions : v >= version => superseded[v] = 0

IInv ==
    /\ TypeOK /\ FlightManned /\ Current
    /\ \A b \in Backends : EntryFresh(b)
    /\ \A c \in Callers : Settled(c)

-----------------------------------------------------------------------------
(* Facts about the locals of a caller.                                     *)

\* The locals are a record of these fields, whichever of them is set.
LEMMA SetLocal ==
    ASSUME NEW x \in Calls
    PROVE  /\ x.live \in BOOLEAN /\ x.leader \in Callers \cup {NoOne} /\ x.kind \in Kinds
           /\ x.version \in Versions /\ x.gone \in BOOLEAN /\ x.since \in 0..MaxFetch
           /\ \A v \in BOOLEAN : [x EXCEPT !.live = v] \in Calls
           /\ \A v \in Callers \cup {NoOne} : [x EXCEPT !.leader = v] \in Calls
           /\ \A v \in Kinds : [x EXCEPT !.kind = v] \in Calls
           /\ \A v \in Versions : [x EXCEPT !.version = v] \in Calls
           /\ \A v \in BOOLEAN : [x EXCEPT !.gone = v] \in Calls
           /\ \A v \in 0..MaxFetch : [x EXCEPT !.since = v] \in Calls
BY DEF Calls

\* A caller that starts, or starts over, has locals of the kind.
LEMMA NoCallType ==
    /\ NoCall \in Calls /\ 0 \in Versions /\ 0 \in 0..MaxFetch
    /\ NoCall.live = TRUE /\ NoCall.leader = NoOne /\ NoCall.kind = "none"
    /\ NoCall.version = 0 /\ NoCall.gone = FALSE /\ NoCall.since = 0
BY ConfigAssumption DEF NoCall, Calls, Kinds, Versions

\* What the invariant gives about one caller.
LEMMA OfCaller ==
    ASSUME IInv, NEW c \in Callers
    PROVE  /\ pc[c] \in States /\ call[c] \in Calls /\ Settled(c)
           /\ pc \in [Callers -> States] /\ call \in [Callers -> Calls]
BY DEF IInv, TypeOK, States, Calls

\* And of a version of the page.
LEMMA OfVersion ==
    ASSUME IInv, NEW v \in Versions
    PROVE  superseded[v] \in Nat /\ superseded[v] <= Oldest /\ MaxFetch \in Nat /\ TTL \in Nat
BY ConfigAssumption DEF IInv, TypeOK, Oldest

-----------------------------------------------------------------------------
(* A caller's step.                                                        *)

\* The leader of the flight map, before and after caller c goes to s with x.
Leads(c, s, x) == s \in Leading /\ x.leader = c

FlightFollows(c, s, x) ==
    \/ flight' = flight /\ (Leads(c, s, x) <=> Leads(c, pc[c], call[c]))
    \/ flight = NoOne /\ flight' = c /\ Leads(c, s, x)
    \/ flight = c /\ flight' = NoOne /\ s \notin Leading

\* A caller moves to s with the locals x, and to nobody's harm: what it has in hand
\* is what one has there, it stays at large while it leads, and it waits only for
\* someone it found in the flight map.
Moves(c, s, x) ==
    /\ pc' = [pc EXCEPT ![c] = s] /\ call' = [call EXCEPT ![c] = x]
    /\ UNCHANGED upstreamVars
    /\ LedAs(c, s, x) /\ HoldsAs(s, x) /\ FreshAs(s, x)
    /\ FlightFollows(c, s, x)
    /\ pc[c] \in AtLarge /\ call[c].leader = c => s \in AtLarge /\ x.leader = c
    /\ s = "following" =>
         \/ pc[c] = "following" /\ x.leader = call[c].leader
         \/ pc[c] = "sharing" /\ flight # NoOne /\ x.leader = flight
    /\ pc[c] # "answered" /\ s = "answered" /\ x.kind \in Documents =>
         superseded[x.version] <= TTL + MaxFetch

\* What the callers' side of the invariant says.
CallersFine ==
    /\ pc \in [Callers -> States] /\ call \in [Callers -> Calls]
    /\ flight \in Callers \cup {NoOne}
    /\ FlightManned
    /\ \A c \in Callers : Settled(c)

\* Such a move keeps it, for the one that moves and for all the others.
LEMMA MoveKeeps ==
    ASSUME IInv, NEW c \in Callers, NEW s \in States, NEW x \in Calls, Moves(c, s, x)
    PROVE  CallersFine'
<1>1. /\ pc \in [Callers -> States] /\ call \in [Callers -> Calls]
      /\ flight \in Callers \cup {NoOne} /\ FlightManned
      /\ \A d \in Callers : Settled(d)
    BY OfCaller DEF IInv, TypeOK
<1>2. /\ pc' \in [Callers -> States] /\ call' \in [Callers -> Calls]
      /\ pc'[c] = s /\ call'[c] = x
      /\ \A d \in Callers : d # c => pc'[d] = pc[d] /\ call'[d] = call[d]
      /\ superseded' = superseded
    BY <1>1 DEF Moves, upstreamVars
<1>3. flight' \in Callers \cup {NoOne}
    BY <1>1 DEF Moves, FlightFollows
<1>4. NoOne \notin Callers
    BY ConfigAssumption
<1>5. FlightManned'
  <2>1. CASE flight' = flight /\ (Leads(c, s, x) <=> Leads(c, pc[c], call[c]))
      BY <1>1, <1>2, <1>4, <2>1 DEF FlightManned, Leads
  <2>2. CASE flight = NoOne /\ flight' = c /\ Leads(c, s, x)
      BY <1>1, <1>2, <1>4, <2>2 DEF FlightManned, Leads
  <2>3. CASE flight = c /\ flight' = NoOne /\ s \notin Leading
      BY <1>1, <1>2, <1>4, <2>3 DEF FlightManned, Leads
  <2>4. QED BY <2>1, <2>2, <2>3 DEF Moves, FlightFollows
<1>6. ASSUME NEW d \in Callers, pc[d] \in AtLarge, call[d].leader = d
      PROVE  pc'[d] \in AtLarge /\ call'[d].leader = d
    BY <1>2, <1>6 DEF Moves
<1>7. ASSUME NEW d \in Callers, pc'[d] = "following"
      PROVE  call'[d].leader \in Callers \ {d}
             /\ pc[call'[d].leader] \in AtLarge /\ call[call'[d].leader].leader = call'[d].leader
  <2>1. CASE d # c
      BY <1>1, <1>2, <1>7, <2>1 DEF Settled, Led
  <2>2. CASE d = c /\ pc[c] = "following" /\ x.leader = call[c].leader
      BY <1>1, <1>2, <1>7, <2>2 DEF Settled, Led
  <2>3. CASE d = c /\ pc[c] = "sharing" /\ flight # NoOne /\ x.leader = flight
      BY <1>1, <1>2, <1>7, <2>3 DEF FlightManned, Leading, AtLarge
  <2>4. QED BY <1>2, <1>7, <2>1, <2>2, <2>3 DEF Moves
<1>8. ASSUME NEW d \in Callers PROVE Settled(d)'
  <2>1. Led(d)'
      BY <1>2, <1>6, <1>7 DEF Led
  <2>2. CASE d = c
      BY <1>2, <2>1, <2>2 DEF Moves, Settled, LedAs, HoldsAs, FreshAs
  <2>3. CASE d # c
      BY <1>1, <1>2, <2>1, <2>3 DEF Settled, LedAs, HoldsAs, FreshAs
  <2>4. QED BY <2>2, <2>3
<1>9. QED BY <1>2, <1>3, <1>5, <1>8 DEF CallersFine

\* A caller that no one follows is answered with what it may be answered with.
LEMMA AnswerMoves ==
    ASSUME IInv, NEW c \in Callers, NEW kind \in Kinds, NEW ver \in Versions,
           pc[c] \notin AtLarge \/ call[c].leader # c,
           Answer(c, kind, ver), UNCHANGED <<flight, upstreamVars>>,
           call[c].live => kind \in Fit \cup {"panic", "unheard"},
           kind \in Documents => superseded[ver] <= TTL + MaxFetch
    PROVE  \E s \in States, x \in Calls : Moves(c, s, x)
<1> DEFINE k == IF call[c].live THEN kind ELSE "unheard"
           x == [NoCall EXCEPT !.kind = k, !.version = ver]
<1>1. k \in Kinds /\ k \in Fit \cup {"panic", "unheard"} /\ (k \in Documents => k = kind)
    BY DEF Kinds, Fit, Documents
<1>2. x \in Calls /\ x.kind = k /\ x.version = ver /\ x.leader = NoOne
    BY <1>1, NoCallType DEF Calls, NoCall
<1>3. pc' = [pc EXCEPT ![c] = "answered"] /\ call' = [call EXCEPT ![c] = x]
    BY DEF Answer, Goto
<1> HIDE DEF k, x
<1>4. FlightFollows(c, "answered", x)
    BY DEF FlightFollows, Leads, Leading, AtLarge
<1>5. Moves(c, "answered", x)
    BY <1>1, <1>2, <1>3, <1>4
       DEF Moves, LedAs, HoldsAs, FreshAs, Leading, AtLarge
<1>6. QED BY <1>2, <1>5 DEF States

\* A call starts by looking the page up, or by fetching it.
LEMMA AskMoves ==
    ASSUME IInv, NEW c \in Callers, Ask(c)
    PROVE  \E s \in States, x \in Calls : Moves(c, s, x)
<1>1. pc[c] = "idle" /\ call[c] \in Calls /\ Settled(c) /\ UNCHANGED <<flight, upstreamVars>>
    BY OfCaller DEF Ask
<1>2. call[c].leader = NoOne /\ NoOne \notin Callers
    BY <1>1, ConfigAssumption DEF Settled, LedAs
<1>3. CASE Goto(c, "looking") /\ UNCHANGED call
  <2>1. pc' = [pc EXCEPT ![c] = "looking"] /\ call' = [call EXCEPT ![c] = call[c]]
      BY <1>3, OfCaller DEF Goto
  <2>2. FlightFollows(c, "looking", call[c])
      BY <1>1 DEF FlightFollows, Leads, Leading
  <2>3. Moves(c, "looking", call[c])
      BY <1>1, <1>2, <2>1, <2>2 DEF Moves, LedAs, HoldsAs, FreshAs, AtLarge, Leading
  <2>4. QED BY <1>1, <2>3 DEF States
<1>4. CASE Goto(c, "crawling") /\ call' = [call EXCEPT ![c].version = version]
  <2> DEFINE x == [call[c] EXCEPT !.version = version]
  <2>1. version \in Versions
      BY DEF IInv, TypeOK
  <2>2. x \in Calls /\ x.version = version /\ x.leader = NoOne /\ x.since \in Nat
      BY <1>1, <1>2, <2>1, SetLocal DEF Calls
  <2>3. pc' = [pc EXCEPT ![c] = "crawling"] /\ call' = [call EXCEPT ![c] = x]
      BY <1>4 DEF Goto
  <2>4. superseded[version] = 0
      BY <2>1 DEF IInv, Current, Versions
  <2> HIDE DEF x
  <2>5. FlightFollows(c, "crawling", x)
      BY <1>1, <1>2, <2>2 DEF FlightFollows, Leads, Leading
  <2>6. Moves(c, "crawling", x)
      BY <1>1, <1>2, <2>2, <2>3, <2>4, <2>5 DEF Moves, LedAs, HoldsAs, FreshAs, AtLarge, Leading
  <2>7. QED BY <2>2, <2>6 DEF States
<1>5. QED BY <1>3, <1>4 DEF Ask

\* Hanging up costs nobody else anything.
LEMMA HangUpMoves ==
    ASSUME IInv, NEW c \in Callers, HangUp(c)
    PROVE  \E s \in States, x \in Calls : Moves(c, s, x)
<1> DEFINE x == [call[c] EXCEPT !.live = FALSE]
<1>1. /\ pc[c] \in States \ {"idle", "sharing", "closing", "answered"}
      /\ call[c] \in Calls /\ Settled(c) /\ UNCHANGED <<flight, upstreamVars>>
    BY OfCaller DEF HangUp
<1>2. /\ x \in Calls /\ ~x.live /\ x.leader = call[c].leader /\ x.kind = call[c].kind
      /\ x.gone = call[c].gone /\ x.version = call[c].version /\ x.since = call[c].since
    BY <1>1, SetLocal DEF Calls
<1>3. pc' = [pc EXCEPT ![c] = pc[c]] /\ call' = [call EXCEPT ![c] = x]
    BY OfCaller DEF HangUp
<1> HIDE DEF x
<1>4. FlightFollows(c, pc[c], x)
    BY <1>1, <1>2 DEF FlightFollows, Leads
<1>5. Moves(c, pc[c], x)
    BY <1>1, <1>2, <1>3, <1>4 DEF Moves, Settled, LedAs, HoldsAs, FreshAs
<1>6. QED BY <1>1, <1>2, <1>5

\* A lookup that finds nothing goes on to share a fetch.
LEMMA MissMoves ==
    ASSUME IInv, NEW c \in Callers, pc[c] = "looking",
           Goto(c, "sharing"), UNCHANGED <<call, flight, upstreamVars>>
    PROVE  \E s \in States, x \in Calls : Moves(c, s, x)
<1>1. call[c] \in Calls /\ Settled(c)
    BY OfCaller
<1>2. pc' = [pc EXCEPT ![c] = "sharing"] /\ call' = [call EXCEPT ![c] = call[c]]
    BY OfCaller DEF Goto
<1>3. FlightFollows(c, "sharing", call[c])
    BY DEF FlightFollows, Leads, Leading
<1>4. Moves(c, "sharing", call[c])
    BY <1>1, <1>2, <1>3 DEF Moves, Settled, LedAs, HoldsAs, FreshAs, AtLarge, Leading
<1>5. QED BY <1>1, <1>4 DEF States

\* One that finds a live entry is answered from it: a document whose age and time
\* left add up to no more than a TTL and the time its fetch took.
LEMMA FoundMoves ==
    ASSUME IInv, NEW c \in Callers, pc[c] = "looking", NEW b \in Backends,
           Found(b, c), UNCHANGED <<flight, upstreamVars>>
    PROVE  \E s \in States, x \in Calls : Moves(c, s, x)
<1>1. CASE Live(entry[b])
  <2>1. /\ entry[b].kind = "document" /\ entry[b].version \in Versions
        /\ entry[b].left \in 0..TTL
        /\ superseded[entry[b].version] + entry[b].left <= MaxFetch + TTL
      BY <1>1 DEF IInv, TypeOK, EntryFresh
  <2>2. superseded[entry[b].version] <= TTL + MaxFetch
      BY <2>1, OfVersion
  <2>3. Answer(c, "document", entry[b].version)
      BY <1>1, <2>1 DEF Found
  <2>4. "document" \in Kinds /\ "document" \in Fit
      BY DEF Kinds, Fit
  <2>5. QED BY <2>1, <2>2, <2>3, <2>4, AnswerMoves DEF AtLarge, Leading
<1>2. CASE ~Live(entry[b])
    BY <1>2, MissMoves DEF Found
<1>3. QED BY <1>1, <1>2

\* A lookup, however it goes.
LEMMA LookMoves ==
    ASSUME IInv, NEW c \in Callers, LookFound(c) \/ LookFails(c) \/ LookDenied(c)
    PROVE  \E s \in States, x \in Calls : Moves(c, s, x)
<1>1. pc[c] = "looking" /\ UNCHANGED <<flight, upstreamVars>>
    BY DEF LookFound, LookFails, LookDenied
<1>2. CASE LookFound(c)
  <2>1. \E b \in Backends : Found(b, c)
      BY <1>2 DEF LookFound, Backends
  <2>2. QED BY <1>1, <2>1, FoundMoves
<1>3. CASE LookFails(c)
  <2>1. CASE call[c].live
      BY <1>1, <1>3, <2>1, MissMoves DEF LookFails, FailedRead
  <2>2. CASE ~call[c].live
    <3>1. Answer(c, "unheard", 0)
        BY <1>3, <2>2 DEF LookFails, FailedRead
    <3>2. "unheard" \in Kinds /\ "unheard" \notin Documents
        BY DEF Kinds, Documents
    <3>3. QED BY <1>1, <2>2, <3>1, <3>2, NoCallType, AnswerMoves DEF AtLarge, Leading
  <2>3. QED BY <2>1, <2>2
<1>4. CASE LookDenied(c)
  <2>1. Found("memory", c) /\ "memory" \in Backends
      BY <1>4 DEF LookDenied, Backends
  <2>2. QED BY <1>1, <2>1, FoundMoves
<1>5. QED BY <1>2, <1>3, <1>4

\* Whoever finds the flight map empty enters it ...
LEMMA LeadMoves ==
    ASSUME IInv, NEW c \in Callers, Lead(c)
    PROVE  \E s \in States, x \in Calls : Moves(c, s, x)
<1> DEFINE x == [call[c] EXCEPT !.leader = c, !.version = version, !.since = 0]
<1>1. pc[c] = "sharing" /\ call[c] \in Calls /\ version \in Versions /\ 0 \in 0..MaxFetch
    BY OfCaller, NoCallType DEF Lead, IInv, TypeOK
<1>2. x \in Calls /\ x.leader = c /\ x.version = version /\ x.since = 0
    BY <1>1 DEF Calls
<1>3. pc' = [pc EXCEPT ![c] = "crawling"] /\ call' = [call EXCEPT ![c] = x]
    BY OfCaller DEF Lead, Goto
<1>4. superseded[version] = 0
    BY <1>1 DEF IInv, Current, Versions
<1> HIDE DEF x
<1>5. FlightFollows(c, "crawling", x)
    BY <1>2 DEF Lead, FlightFollows, Leads, Leading
<1>6. LedAs(c, "crawling", x) /\ HoldsAs("crawling", x) /\ FreshAs("crawling", x)
    BY <1>2, <1>4 DEF LedAs, HoldsAs, FreshAs, Leading
<1>7. UNCHANGED upstreamVars
    BY DEF Lead
<1>8. Moves(c, "crawling", x)
    BY <1>1, <1>3, <1>5, <1>6, <1>7 DEF Moves, AtLarge, Leading
<1>9. QED BY <1>2, <1>8 DEF States

\* ... and whoever does not waits for the one it finds there.
LEMMA FollowMoves ==
    ASSUME IInv, NEW c \in Callers, Follow(c)
    PROVE  \E s \in States, x \in Calls : Moves(c, s, x)
<1> DEFINE x == [call[c] EXCEPT !.leader = flight]
<1>1. /\ pc[c] = "sharing" /\ flight # NoOne /\ call[c] \in Calls
      /\ flight \in Callers \cup {NoOne}
    BY OfCaller DEF Follow, IInv, TypeOK
<1>2. x \in Calls /\ x.leader = flight
    BY <1>1 DEF Calls
<1>3. pc' = [pc EXCEPT ![c] = "following"] /\ call' = [call EXCEPT ![c] = x]
    BY OfCaller DEF Follow, Goto
<1> HIDE DEF x
<1>4. FlightFollows(c, "following", x)
    BY <1>1 DEF Follow, FlightFollows, Leads, Leading
<1>5. Moves(c, "following", x)
    BY <1>1, <1>2, <1>3, <1>4 DEF Follow, Moves, LedAs, HoldsAs, FreshAs, AtLarge, Leading
<1>6. QED BY <1>2, <1>5 DEF States

\* A fetch ends with a document, with an error or in a panic.  The page is as old as
\* the fetch took.
LEMMA FetchMoves ==
    ASSUME IInv, NEW c \in Callers, Crawled(c) \/ CrawlFails(c) \/ CrawlPanics(c)
    PROVE  \E s \in States, x \in Calls : Moves(c, s, x)
<1>1. /\ pc[c] = "crawling" /\ UNCHANGED upstreamVars
      /\ call[c] \in Calls /\ Settled(c) /\ 0 \in 0..MaxFetch
    BY OfCaller, NoCallType DEF Crawled, CrawlFails, CrawlPanics
<1>2. superseded[call[c].version] <= MaxFetch
  <2>1. call[c].version \in Versions /\ call[c].since \in 0..MaxFetch
      BY <1>1, SetLocal
  <2>2. superseded[call[c].version] <= call[c].since
      BY <1>1 DEF Settled, FreshAs
  <2>3. QED BY <2>1, <2>2, OfVersion
<1>3. call[c].leader \in {NoOne, c} /\ (call[c].leader = c => flight = c) /\ c # NoOne
    BY <1>1, ConfigAssumption DEF Settled, LedAs, Leading, IInv, FlightManned
<1>4. ASSUME NEW kind \in Kinds, NEW s \in {"storing", "publishing"},
             call' = [call EXCEPT ![c].kind = kind, ![c].since = 0], Goto(c, s),
             UNCHANGED flight,
             s = "storing" => kind = "document",
             kind \in Fit \/ (kind = "abandoned" /\ ~call[c].live)
      PROVE  \E t \in States, x \in Calls : Moves(c, t, x)
  <2> DEFINE x == [call[c] EXCEPT !.kind = kind, !.since = 0]
  <2>1. /\ x \in Calls /\ x.kind = kind /\ x.leader = call[c].leader
        /\ x.version = call[c].version /\ x.live = call[c].live
      BY <1>1, <1>4 DEF Calls
  <2>2. pc' = [pc EXCEPT ![c] = s] /\ call' = [call EXCEPT ![c] = x]
      BY <1>4, OfCaller DEF Goto
  <2> HIDE DEF x
  <2>3. FlightFollows(c, s, x)
      BY <1>1, <1>4, <2>1 DEF FlightFollows, Leads, Leading
  <2>4. LedAs(c, s, x) /\ HoldsAs(s, x) /\ FreshAs(s, x)
      BY <1>2, <1>3, <1>4, <2>1 DEF LedAs, HoldsAs, FreshAs
  <2>5. Moves(c, s, x)
      BY <1>1, <1>4, <2>1, <2>2, <2>3, <2>4 DEF Moves, AtLarge, Leading
  <2>6. QED BY <2>1, <2>5 DEF States
<1>5. CASE Crawled(c)
  <2>1. PICK kind \in {"document", "partial"} :
            /\ call' = [call EXCEPT ![c].kind = kind, ![c].since = 0]
            /\ Goto(c, IF Cacheable(kind) THEN "storing" ELSE "publishing")
      BY <1>5 DEF Crawled
  <2>2. kind \in Kinds /\ kind \in Fit /\ UNCHANGED flight
      BY <1>5 DEF Kinds, Fit, Crawled
  <2>3. CASE kind = "document"
      BY <1>4, <2>1, <2>2, <2>3 DEF Cacheable
  <2>4. CASE kind # "document"
      BY <1>4, <2>1, <2>2, <2>4 DEF Cacheable
  <2>5. QED BY <2>3, <2>4
<1>6. CASE CrawlFails(c)
  <2> DEFINE kind == IF call[c].live THEN "refused" ELSE "abandoned"
  <2>1. kind \in Kinds /\ (kind \in Fit \/ (kind = "abandoned" /\ ~call[c].live))
      BY DEF Kinds, Fit
  <2>2. /\ call' = [call EXCEPT ![c].kind = kind, ![c].since = 0]
        /\ Goto(c, "publishing") /\ UNCHANGED flight
      BY <1>6 DEF CrawlFails
  <2> HIDE DEF kind
  <2>3. QED BY <1>4, <2>1, <2>2
<1>7. CASE CrawlPanics(c) /\ call[c].leader = c
  <2> DEFINE x == [call[c] EXCEPT !.kind = "panic", !.gone = TRUE, !.since = 0]
  <2>1. /\ x \in Calls /\ x.kind = "panic" /\ x.leader = c /\ x.gone
        /\ x.version = call[c].version
      BY <1>1, <1>7 DEF Calls, Kinds
  <2>2. /\ pc' = [pc EXCEPT ![c] = "closing"] /\ call' = [call EXCEPT ![c] = x]
        /\ flight' = NoOne
      BY <1>7, OfCaller DEF CrawlPanics, Goto
  <2> HIDE DEF x
  <2>3. FlightFollows(c, "closing", x)
      BY <1>3, <1>7, <2>2 DEF FlightFollows, Leading
  <2>4. LedAs(c, "closing", x) /\ HoldsAs("closing", x) /\ FreshAs("closing", x)
      BY <1>2, <2>1 DEF LedAs, HoldsAs, FreshAs, Leading
  <2>5. Moves(c, "closing", x)
      BY <1>1, <2>1, <2>2, <2>3, <2>4 DEF Moves, AtLarge
  <2>6. QED BY <2>1, <2>5 DEF States
<1>8. CASE CrawlPanics(c) /\ call[c].leader # c
  <2>1. Answer(c, "panic", 0) /\ UNCHANGED flight
      BY <1>8 DEF CrawlPanics
  <2>2. "panic" \in Kinds /\ "panic" \notin Documents
      BY DEF Kinds, Documents
  <2>3. QED BY <1>1, <1>8, <2>1, <2>2, NoCallType, AnswerMoves
<1>9. QED BY <1>5, <1>6, <1>7, <1>8

\* The store, however it goes, changes nothing of the fetch.
LEMMA StoreMoves ==
    ASSUME IInv, NEW c \in Callers, StorePut(c) \/ StoreFails(c) \/ StoreDenied(c)
    PROVE  \E s \in States, x \in Calls : Moves(c, s, x)
<1>1. /\ pc[c] = "storing" /\ call[c] \in Calls /\ Settled(c)
      /\ UNCHANGED <<call, flight, upstreamVars>> /\ Goto(c, "publishing")
    BY OfCaller DEF StorePut, StoreFails, StoreDenied
<1>2. pc' = [pc EXCEPT ![c] = "publishing"] /\ call' = [call EXCEPT ![c] = call[c]]
    BY <1>1, OfCaller DEF Goto
<1>3. FlightFollows(c, "publishing", call[c])
    BY <1>1 DEF FlightFollows, Leads, Leading
<1>4. /\ LedAs(c, "publishing", call[c]) /\ HoldsAs("publishing", call[c])
      /\ FreshAs("publishing", call[c])
    BY <1>1 DEF Settled, LedAs, HoldsAs, FreshAs, Leading, Fit
<1>5. Moves(c, "publishing", call[c])
    BY <1>1, <1>2, <1>3, <1>4 DEF Moves, AtLarge, Leading
<1>6. QED BY <1>1, <1>5 DEF States

\* A fetch that is over is answered, or written down for the followers.
LEMMA EndMoves ==
    ASSUME IInv, NEW c \in Callers, AnswerBypass(c) \/ Publish(c)
    PROVE  \E s \in States, x \in Calls : Moves(c, s, x)
<1>1. /\ pc[c] = "publishing" /\ UNCHANGED upstreamVars
      /\ call[c] \in Calls /\ Settled(c)
    BY OfCaller DEF AnswerBypass, Publish
<1>2. /\ call[c].version \in Versions /\ call[c].kind \in Kinds /\ call[c].live \in BOOLEAN
      /\ superseded[call[c].version] <= MaxFetch
      /\ call[c].kind \in Fit \/ (call[c].kind = "abandoned" /\ ~call[c].live)
    BY <1>1, SetLocal DEF Settled, FreshAs, HoldsAs
<1>3. superseded[call[c].version] <= TTL + MaxFetch
    BY <1>2, OfVersion
<1>4. CASE AnswerBypass(c)
  <2>1. /\ call[c].leader # c /\ Answer(c, call[c].kind, call[c].version)
        /\ UNCHANGED flight
      BY <1>4 DEF AnswerBypass
  <2>2. QED BY <1>1, <1>2, <1>3, <2>1, AnswerMoves
<1>5. CASE Publish(c)
  <2> DEFINE x == [call[c] EXCEPT !.gone = ~call[c].live]
  <2>1. /\ x \in Calls /\ x.kind = call[c].kind /\ x.leader = call[c].leader
        /\ x.version = call[c].version /\ x.live = call[c].live /\ x.gone = ~x.live
      BY <1>1, <1>2 DEF Calls
  <2>2. pc' = [pc EXCEPT ![c] = "closing"] /\ call' = [call EXCEPT ![c] = x]
      BY <1>5, OfCaller DEF Publish, Goto
  <2>3. call[c].leader = c /\ flight' = NoOne /\ flight = c
      BY <1>1, <1>5 DEF Publish, IInv, FlightManned, Leading
  <2> HIDE DEF x
  <2>4. FlightFollows(c, "closing", x)
      BY <2>3 DEF FlightFollows, Leading
  <2>5. LedAs(c, "closing", x) /\ HoldsAs("closing", x) /\ FreshAs("closing", x)
      BY <1>2, <2>1, <2>3 DEF LedAs, HoldsAs, FreshAs, Leading
  <2>6. Moves(c, "closing", x)
      BY <1>1, <2>1, <2>2, <2>3, <2>4, <2>5 DEF Moves, AtLarge
  <2>7. QED BY <2>1, <2>6 DEF States
<1>6. QED BY <1>4, <1>5

\* A follower that has been woken shares what it finds, or starts over; one that
\* hangs up stops.
LEMMA FollowerMoves ==
    ASSUME IInv, NEW c \in Callers, Share(c) \/ Retry(c) \/ StopFollowing(c)
    PROVE  \E s \in States, x \in Calls : Moves(c, s, x)
<1>1. /\ pc[c] \in {"following", "woken"} /\ UNCHANGED <<flight, upstreamVars>>
      /\ call[c] \in Calls /\ Settled(c) /\ call[c].live \in BOOLEAN
    BY OfCaller, SetLocal DEF Share, Retry, StopFollowing
<1>2. CASE Share(c)
  <2>1. /\ pc[c] = "woken" /\ ~MustRetry(c)
        /\ Answer(c, call[c].kind, call[c].version)
      BY <1>2 DEF Share
  <2>2. /\ call[c].version \in Versions /\ call[c].kind \in Kinds
        /\ superseded[call[c].version] <= MaxFetch
        /\ call[c].kind \in Fit \/ (call[c].kind \in {"abandoned", "aborted"} /\ call[c].gone)
      BY <1>1, <2>1, SetLocal DEF Settled, FreshAs, HoldsAs
  <2>3. superseded[call[c].version] <= TTL + MaxFetch
      BY <2>2, OfVersion
  <2>4. call[c].live => call[c].kind \in Fit
      BY <2>1, <2>2 DEF MustRetry, Documents
  <2>5. QED BY <1>1, <2>1, <2>2, <2>3, <2>4, AnswerMoves DEF AtLarge, Leading
<1>3. CASE Retry(c)
  <2>1. pc' = [pc EXCEPT ![c] = "sharing"] /\ call' = [call EXCEPT ![c] = NoCall]
      BY <1>3 DEF Retry, Goto
  <2>2. FlightFollows(c, "sharing", NoCall)
      BY <1>1 DEF FlightFollows, Leads, Leading
  <2>3. LedAs(c, "sharing", NoCall) /\ HoldsAs("sharing", NoCall) /\ FreshAs("sharing", NoCall)
      BY NoCallType DEF LedAs, HoldsAs, FreshAs, Leading
  <2>4. Moves(c, "sharing", NoCall)
      BY <1>1, <2>1, <2>2, <2>3 DEF Moves, AtLarge, Leading
  <2>5. QED BY <2>4, NoCallType DEF States
<1>4. CASE StopFollowing(c)
  <2>1. ~call[c].live /\ Answer(c, "unheard", 0)
      BY <1>4 DEF StopFollowing
  <2>2. "unheard" \in Kinds /\ "unheard" \notin Documents
      BY DEF Kinds, Documents
  <2>3. QED BY <1>1, <2>1, <2>2, NoCallType, AnswerMoves DEF AtLarge, Leading
<1>5. QED BY <1>2, <1>3, <1>4

\* So moves every step of a caller but the one that wakes others.
LEMMA CallerMoves ==
    ASSUME IInv, NEW c \in Callers, Ask(c) \/ HangUp(c) \/ Running(c), ~Close(c)
    PROVE  \E s \in States, x \in Calls : Moves(c, s, x)
BY AskMoves, HangUpMoves, LookMoves, LeadMoves, FollowMoves, FetchMoves, StoreMoves, EndMoves,
   FollowerMoves DEF Running

\* Where Close leaves its own caller, those that followed it, and everyone else.
LEMMA CloseMoves ==
    ASSUME IInv, NEW c \in Callers, Close(c), NEW d \in Callers
    PROVE  /\ pc'[d] \in States /\ call'[d] \in Calls
           /\ d # c /\ ~ (pc[d] = "following" /\ call[d].leader = c) =>
                pc'[d] = pc[d] /\ call'[d] = call[d]
           /\ pc[d] = "following" /\ call[d].leader = c =>
                /\ pc'[d] = "woken" /\ call'[d].version = call[c].version
                /\ call'[d].gone = call[c].gone
                /\ call'[d].kind = IF call[c].kind = "panic" THEN "aborted" ELSE call[c].kind
           /\ pc'[c] = "answered" /\ call'[c].version = call[c].version
           /\ call'[c].kind = IF call[c].live THEN call[c].kind ELSE "unheard"
<1>1. /\ pc[c] = "closing" /\ call[c] \in Calls /\ pc[d] \in States /\ call[d] \in Calls
    BY OfCaller DEF Close
<1> DEFINE found == IF call[c].kind = "panic" THEN "aborted" ELSE call[c].kind
           told == IF call[c].live THEN call[c].kind ELSE "unheard"
           left(e) == [call[e] EXCEPT !.kind = found, !.version = call[c].version,
                                      !.gone = call[c].gone]
           own == [NoCall EXCEPT !.kind = told, !.version = call[c].version]
           Follows(e) == pc[e] = "following" /\ call[e].leader = c
<1>2. found \in Kinds /\ told \in Kinds
    BY <1>1, SetLocal DEF Kinds
<1>3. call[c].version \in Versions /\ call[c].gone \in BOOLEAN
    BY <1>1, SetLocal
<1>4. /\ pc' = [e \in Callers |-> IF Follows(e) THEN "woken" ELSE IF e = c THEN "answered" ELSE pc[e]]
      /\ call' = [e \in Callers |-> IF Follows(e) THEN left(e) ELSE IF e = c THEN own ELSE call[e]]
    BY DEF Close
<1> HIDE DEF found, told
<1>5. /\ left(d) \in Calls /\ left(d).kind = found /\ left(d).version = call[c].version
      /\ left(d).gone = call[c].gone
    BY <1>1, <1>2, <1>3 DEF Calls
<1>6. own \in Calls /\ own.kind = told /\ own.version = call[c].version
    BY <1>2, <1>3, NoCallType DEF Calls, NoCall
<1> HIDE DEF left, own
<1>7. pc'[c] = "answered" /\ call'[c] = own
    BY <1>1, <1>4
<1>8. CASE Follows(d)
  <2>1. pc'[d] = "woken" /\ call'[d] = left(d)
      BY <1>4, <1>8
  <2>2. QED BY <1>5, <1>6, <1>7, <1>8, <1>1, <2>1 DEF found, told, States
<1>9. CASE ~Follows(d)
  <2>1. IF d = c THEN pc'[d] = "answered" /\ call'[d] = own
                 ELSE pc'[d] = pc[d] /\ call'[d] = call[d]
      BY <1>4, <1>9
  <2>2. QED BY <1>1, <1>6, <1>7, <1>9, <2>1 DEF found, told, States
<1>10. QED BY <1>8, <1>9

\* Close wakes everyone who waits for its caller, and leaves nobody waiting for it.
LEMMA CloseKeeps ==
    ASSUME IInv, NEW c \in Callers, Close(c)
    PROVE  CallersFine'
<1>1. /\ pc[c] = "closing" /\ flight' = flight /\ superseded' = superseded
      /\ FlightManned /\ flight \in Callers \cup {NoOne}
      /\ \A d \in Callers : Settled(d)
    BY DEF Close, upstreamVars, IInv, TypeOK
<1>2. pc' \in [Callers -> States] /\ call' \in [Callers -> Calls]
  <2>1. (\E f : pc' = [d \in Callers |-> f[d]]) /\ (\E f : call' = [d \in Callers |-> f[d]])
    <3>1. pc' = [d \in Callers |-> pc'[d]] /\ call' = [d \in Callers |-> call'[d]]
        BY DEF Close
    <3>2. QED BY <3>1
  <2>2. QED BY <2>1, CloseMoves
<1>3. ASSUME NEW d \in Callers, d # c, ~ (pc[d] = "following" /\ call[d].leader = c)
      PROVE  pc'[d] = pc[d] /\ call'[d] = call[d]
    BY <1>3, CloseMoves
<1>4. ASSUME NEW d \in Callers, pc[d] \in AtLarge, d # c
      PROVE  pc'[d] = pc[d] /\ call'[d] = call[d]
    BY <1>3, <1>4 DEF AtLarge, Leading
<1>5. pc'[c] = "answered"
    BY CloseMoves
<1>6. flight # c
    BY <1>1, ConfigAssumption DEF FlightManned, Leading
<1>7. FlightManned'
  <2>1. flight # NoOne => pc'[flight] \in Leading /\ call'[flight].leader = flight
      BY <1>1, <1>4, <1>6 DEF FlightManned, AtLarge
  <2>2. ASSUME NEW d \in Callers, pc'[d] \in Leading, call'[d].leader = d
        PROVE  flight = d
    <3>1. d # c /\ ~ (pc[d] = "following" /\ call[d].leader = c)
        BY <2>2, <1>5, CloseMoves DEF Leading
    <3>2. QED BY <1>1, <1>3, <2>2, <3>1 DEF FlightManned
  <2>3. QED BY <1>1, <2>1, <2>2 DEF FlightManned
<1>8. ASSUME NEW d \in Callers PROVE Settled(d)'
  <2>1. CASE d = c
    <3>1. /\ call[c].kind \in Fit \cup {"abandoned", "panic"}
          /\ call[c].kind = "abandoned" => ~call[c].live
        BY <1>1 DEF Settled, HoldsAs, Fit
    <3>2. call'[c].kind = IF call[c].live THEN call[c].kind ELSE "unheard"
        BY CloseMoves
    <3>3. call'[c].kind \in Fit \cup {"panic", "unheard"}
        BY <3>1, <3>2
    <3>4. QED BY <1>5, <2>1, <3>3 DEF Settled, Led, LedAs, HoldsAs, FreshAs, Leading
  <2>2. CASE d # c /\ pc[d] = "following" /\ call[d].leader = c
    <3>1. /\ pc'[d] = "woken" /\ call'[d].version = call[c].version
          /\ call'[d].gone = call[c].gone
          /\ call'[d].kind = IF call[c].kind = "panic" THEN "aborted" ELSE call[c].kind
        BY <2>2, CloseMoves
    <3>2. \/ call[c].kind \in Fit
          \/ call[c].kind \in {"abandoned", "panic"} /\ call[c].gone
        BY <1>1 DEF Settled, HoldsAs
    <3>3. superseded[call[c].version] <= MaxFetch
        BY <1>1 DEF Settled, FreshAs
    <3>4. call'[d].kind \in Fit \/ (call'[d].kind \in {"abandoned", "aborted"} /\ call'[d].gone)
        BY <3>1, <3>2 DEF Fit
    <3>5. QED BY <1>1, <3>1, <3>3, <3>4 DEF Settled, Led, LedAs, HoldsAs, FreshAs, Leading
  <2>3. CASE d # c /\ ~ (pc[d] = "following" /\ call[d].leader = c)
    <3>1. pc'[d] = pc[d] /\ call'[d] = call[d] /\ superseded' = superseded
        BY <1>1, <1>3, <2>3
    <3>2. Led(d)'
      <4> SUFFICES ASSUME pc[d] = "following"
                   PROVE  /\ call[d].leader \in Callers \ {d} /\ pc'[call[d].leader] \in AtLarge
                          /\ call'[call[d].leader].leader = call[d].leader
          BY <3>1 DEF Led
      <4>1. call[d].leader # c
          BY <2>3
      <4>2. /\ call[d].leader \in Callers \ {d} /\ pc[call[d].leader] \in AtLarge
            /\ call[call[d].leader].leader = call[d].leader
          BY <1>1 DEF Settled, Led
      <4>3. QED BY <1>4, <4>1, <4>2
    <3>3. QED BY <1>1, <3>1, <3>2 DEF Settled, LedAs, HoldsAs, FreshAs
  <2>4. QED BY <2>1, <2>2, <2>3
<1>9. QED BY <1>1, <1>2, <1>7, <1>8 DEF CallersFine

-----------------------------------------------------------------------------
(* The backends, and time.                                                 *)

\* What the backends' side of the invariant says.
BackendsFine ==
    /\ health \in {"up", "down", "noperm"} /\ faults \in 0..MaxFaults
    /\ cooling \in 0..Cooldown /\ onMemory \in BOOLEAN
    /\ entry \in [Backends -> [kind : Kinds, version : Versions, left : 0..TTL]]
    /\ \A b \in Backends : EntryFresh(b)

\* And upstream's.
UpstreamFine ==
    version \in Versions /\ superseded \in [Versions -> 0..Oldest] /\ Current

\* The invariant is the three of them.
LEMMA Sides ==
    /\ IInv <=> CallersFine /\ BackendsFine /\ UpstreamFine
    /\ IInv' <=> CallersFine' /\ BackendsFine' /\ UpstreamFine'
BY DEF IInv, TypeOK, CallersFine, BackendsFine, UpstreamFine, States, Calls

\* What is stored is a document, as old as its fetch took.
LEMMA PutKeeps ==
    ASSUME IInv, NEW c \in Callers, pc[c] = "storing", NEW b \in Backends, Put(b, c),
           UNCHANGED superseded
    PROVE  /\ entry' \in [Backends -> [kind : Kinds, version : Versions, left : 0..TTL]]
           /\ \A a \in Backends : EntryFresh(a)'
<1> DEFINE e == [kind |-> call[c].kind, version |-> call[c].version, left |-> TTL]
<1>1. /\ entry \in [Backends -> [kind : Kinds, version : Versions, left : 0..TTL]]
      /\ \A a \in Backends : EntryFresh(a)
    BY DEF IInv, TypeOK
<1>2. /\ call[c].kind = "document" /\ call[c].version \in Versions
      /\ superseded[call[c].version] <= MaxFetch
    BY OfCaller, SetLocal DEF Settled, HoldsAs, FreshAs
<1>3. superseded[call[c].version] + TTL <= MaxFetch + TTL
    BY <1>2, OfVersion
<1>4. /\ e \in [kind : Kinds, version : Versions, left : 0..TTL]
      /\ e.kind = "document" /\ e.version = call[c].version /\ e.left = TTL
    BY <1>2, ConfigAssumption DEF Kinds
<1> HIDE DEF e
<1>5. CASE entry' = [entry EXCEPT ![b] = e]
  <2>1. entry' \in [Backends -> [kind : Kinds, version : Versions, left : 0..TTL]]
      BY <1>1, <1>4, <1>5
  <2>2. ASSUME NEW a \in Backends PROVE EntryFresh(a)'
    <3>1. CASE a = b
      <4>1. entry'[a] = e
          BY <1>1, <1>5, <3>1
      <4>2. QED BY <4>1, <1>3, <1>4 DEF EntryFresh
    <3>2. CASE a # b
      <4>1. entry'[a] = entry[a]
          BY <1>1, <1>5, <3>2
      <4>2. QED BY <4>1, <1>1 DEF EntryFresh
    <3>3. QED BY <3>1, <3>2
  <2>3. QED BY <2>1, <2>2
<1>6. CASE UNCHANGED entry
    BY <1>1, <1>6 DEF EntryFresh
<1>7. QED BY <1>5, <1>6 DEF Put, e

\* No step of a caller leaves anything else in a backend, or changes the page.
LEMMA CallerBackends ==
    ASSUME IInv, NEW c \in Callers, Ask(c) \/ HangUp(c) \/ Running(c)
    PROVE  BackendsFine' /\ UpstreamFine'
<1>1. BackendsFine /\ UpstreamFine
    BY Sides
<1>2. UNCHANGED <<version, superseded>>
    BY DEF Ask, HangUp, Running, LookFound, LookFails, LookDenied, Lead, Follow, Crawled,
           CrawlFails, CrawlPanics, StorePut, StoreFails, StoreDenied, AnswerBypass, Publish,
           Close, Share, Retry, StopFollowing, upstreamVars
<1>3. UpstreamFine'
    BY <1>1, <1>2 DEF UpstreamFine, Current
<1>4. \/ UNCHANGED entry
      \/ pc[c] = "storing" /\ \E b \in Backends : Put(b, c)
    BY DEF Ask, HangUp, Running, LookFound, LookFails, LookDenied, Lead, Follow, Crawled,
           CrawlFails, CrawlPanics, StorePut, StoreFails, StoreDenied, AnswerBypass, Publish,
           Close, Share, Retry, StopFollowing, backendVars, Backends
<1>5. /\ entry' \in [Backends -> [kind : Kinds, version : Versions, left : 0..TTL]]
      /\ \A a \in Backends : EntryFresh(a)'
  <2>1. CASE UNCHANGED entry
      BY <1>1, <1>2, <2>1 DEF BackendsFine, EntryFresh
  <2>2. CASE pc[c] = "storing" /\ \E b \in Backends : Put(b, c)
      BY <1>2, <2>2, PutKeeps
  <2>3. QED BY <1>4, <2>1, <2>2
<1>6. UNCHANGED <<health, faults>> /\ cooling' \in {cooling, Cooldown} /\ onMemory' \in {onMemory, TRUE}
    BY DEF Ask, HangUp, Running, LookFound, LookFails, LookDenied, Lead, Follow, Crawled,
           CrawlFails, CrawlPanics, StorePut, StoreFails, StoreDenied, AnswerBypass, Publish,
           Close, Share, Retry, StopFollowing, backendVars
<1>7. cooling' \in 0..Cooldown
    BY <1>1, <1>6, ConfigAssumption DEF BackendsFine
<1>8. onMemory' \in BOOLEAN
    BY <1>1, <1>6 DEF BackendsFine
<1>9. QED BY <1>1, <1>3, <1>5, <1>6, <1>7, <1>8 DEF BackendsFine

\* A countdown stays a countdown.
LEMMA LessType ==
    ASSUME NEW n \in Nat
    PROVE  Less(n) \in Nat /\ Less(n) <= n /\ (n > 0 => Less(n) = n - 1) /\ (n = 0 => Less(n) = 0)
BY DEF Less, Later

\* A tick makes every superseded page one older, every entry one shorter and every
\* fetch under way one longer; nobody else's document is held across it.
LEMMA TickKeeps == ASSUME IInv, Tick PROVE IInv'
<1> USE DEF Tick
<1>1. /\ CallersFine /\ BackendsFine /\ UpstreamFine
      /\ TTL \in Nat /\ Cooldown \in Nat /\ MaxFetch \in Nat
    BY Sides, ConfigAssumption
<1>2. ASSUME NEW v \in Versions
      PROVE  /\ superseded[v] \in 0..Oldest /\ superseded'[v] \in 0..Oldest
             /\ superseded'[v] <= superseded[v] + 1
             /\ v >= version => superseded'[v] = 0
  <2>1. /\ superseded[v] \in 0..Oldest /\ version \in Nat /\ v \in Nat
        /\ v >= version => superseded[v] = 0
      BY <1>1 DEF UpstreamFine, Current, Versions
  <2>2. superseded'[v] = IF v < version /\ superseded[v] < Oldest
                         THEN superseded[v] + 1 ELSE superseded[v]
      OBVIOUS
  <2>3. Oldest \in Nat
      BY <1>1 DEF Oldest
  <2> HIDE DEF Tick
  <2>4. QED BY <2>1, <2>2, <2>3
<1>3. UpstreamFine'
  <2>1. superseded' \in [Versions -> 0..Oldest]
    <3>1. superseded' = [v \in Versions |-> superseded'[v]]
        OBVIOUS
    <3> HIDE DEF Tick
    <3>2. QED BY <3>1, <1>2
  <2>2. version' = version
      OBVIOUS
  <2> HIDE DEF Tick
  <2>3. QED BY <1>1, <1>2, <2>1, <2>2 DEF UpstreamFine, Current
<1>4. ASSUME NEW b \in Backends
      PROVE  /\ entry'[b] \in [kind : Kinds, version : Versions, left : 0..TTL]
             /\ EntryFresh(b)'
  <2>1. entry[b] \in [kind : Kinds, version : Versions, left : 0..TTL] /\ EntryFresh(b)
      BY <1>1 DEF BackendsFine
  <2>2. entry[b].left \in 0..TTL /\ entry[b].version \in Versions
      BY <2>1
  <2>3. Less(entry[b].left) \in 0..TTL
      BY <2>2, <1>1, LessType
  <2>4. entry'[b] = [entry[b] EXCEPT !.left = Less(@)]
      OBVIOUS
  <2>5. /\ entry'[b] \in [kind : Kinds, version : Versions, left : 0..TTL]
        /\ entry'[b].kind = entry[b].kind /\ entry'[b].version = entry[b].version
        /\ entry'[b].left = Less(entry[b].left)
      BY <2>1, <2>3, <2>4
  <2> HIDE DEF Tick
  <2>6. ASSUME Live(entry[b])'
        PROVE  /\ entry[b].kind = "document"
               /\ superseded'[entry[b].version] + Less(entry[b].left) <= MaxFetch + TTL
    <3>1. Less(entry[b].left) > 0
        BY <2>5, <2>6 DEF Live
    <3>2. entry[b].left > 0 /\ Less(entry[b].left) = entry[b].left - 1
        BY <2>2, <3>1, LessType
    <3>3. /\ entry[b].kind = "document"
          /\ superseded[entry[b].version] + entry[b].left <= MaxFetch + TTL
        BY <2>1, <3>2 DEF EntryFresh, Live
    <3>4. /\ superseded'[entry[b].version] <= superseded[entry[b].version] + 1
          /\ superseded'[entry[b].version] \in Nat /\ superseded[entry[b].version] \in Nat
        BY <1>2, <2>2
    <3>5. QED BY <1>1, <2>2, <3>2, <3>3, <3>4
  <2>7. entry'[b].kind \in {"none", "document"}
      BY <2>1, <2>5 DEF EntryFresh
  <2>8. QED BY <2>5, <2>6, <2>7 DEF EntryFresh
<1>5. BackendsFine'
  <2>1. entry' \in [Backends -> [kind : Kinds, version : Versions, left : 0..TTL]]
    <3>1. entry' = [b \in Backends |-> entry'[b]]
        OBVIOUS
    <3> HIDE DEF Tick
    <3>2. QED BY <3>1, <1>4
  <2>2. cooling' = Less(cooling) /\ UNCHANGED <<health, faults, onMemory>>
      OBVIOUS
  <2> HIDE DEF Tick
  <2>3. cooling' \in 0..Cooldown
      BY <1>1, <2>2, LessType DEF BackendsFine
  <2>4. QED BY <1>1, <1>4, <2>1, <2>2, <2>3 DEF BackendsFine
<1>6. ASSUME NEW c \in Callers
      PROVE  /\ call'[c] \in Calls /\ call'[c].leader = call[c].leader
             /\ call'[c].kind = call[c].kind
             /\ Settled(c)'
  <2>1. /\ pc[c] \in {"idle", "answered", "following", "crawling"} /\ pc' = pc
        /\ pc[c] = "crawling" => call[c].since < MaxFetch
        /\ call'[c] = IF pc[c] = "crawling" THEN [call[c] EXCEPT !.since = @ + 1] ELSE call[c]
      OBVIOUS
  <2>2. \A d \in Callers : call'[d].leader = call[d].leader
    <3> TAKE d \in Callers
    <3>1. call[d] \in Calls
        BY <1>1 DEF CallersFine
    <3>2. call'[d] = IF pc[d] = "crawling" THEN [call[d] EXCEPT !.since = @ + 1] ELSE call[d]
        OBVIOUS
    <3> HIDE DEF Tick
    <3>3. QED BY <3>1, <3>2 DEF Calls
  <2> HIDE DEF Tick
  <2>3. call[c] \in Calls /\ Settled(c) /\ call[c].since \in 0..MaxFetch
      BY <1>1, SetLocal DEF CallersFine
  <2>4. /\ call'[c] \in Calls /\ call'[c].leader = call[c].leader
        /\ call'[c].kind = call[c].kind /\ call'[c].version = call[c].version
        /\ pc[c] = "crawling" => call'[c].since = call[c].since + 1
    <3>1. CASE pc[c] = "crawling"
      <4>1. call[c].since + 1 \in 0..MaxFetch
          BY <1>1, <2>1, <2>3, <3>1
      <4>2. call'[c] = [call[c] EXCEPT !.since = call[c].since + 1]
          BY <2>1, <3>1
      <4>3. QED BY <2>3, <4>1, <4>2 DEF Calls
    <3>2. CASE pc[c] # "crawling"
        BY <2>1, <2>3, <3>2
    <3>3. QED BY <3>1, <3>2
  <2>5. pc[c] = "crawling" => superseded'[call'[c].version] <= call'[c].since
    <3> SUFFICES ASSUME pc[c] = "crawling"
                 PROVE  superseded'[call[c].version] <= call[c].since + 1
        BY <2>4
    <3>1. superseded[call[c].version] <= call[c].since /\ call[c].version \in Versions
        BY <2>3, SetLocal DEF Settled, FreshAs
    <3>2. /\ superseded'[call[c].version] <= superseded[call[c].version] + 1
          /\ superseded'[call[c].version] \in Nat /\ superseded[call[c].version] \in Nat
        BY <1>2, <3>1
    <3>3. QED BY <2>3, <3>1, <3>2
  <2>6. Led(c)'
      BY <2>1, <2>2, <2>3 DEF Settled, Led
  <2>7. LedAs(c, pc[c], call[c])' /\ HoldsAs(pc[c], call[c])'
      BY <2>1, <2>3, <2>4 DEF Settled, LedAs, HoldsAs, Leading
  <2>8. FreshAs(pc[c], call[c])'
      BY <2>1, <2>5 DEF FreshAs
  <2>9. QED BY <2>4, <2>6, <2>7, <2>8 DEF Settled
<1>7. CallersFine'
  <2>1. call' \in [Callers -> Calls]
    <3>1. call' = [c \in Callers |-> call'[c]]
        OBVIOUS
    <3> HIDE DEF Tick
    <3>2. QED BY <3>1, <1>6
  <2>2. UNCHANGED <<pc, flight>>
      OBVIOUS
  <2> HIDE DEF Tick
  <2>3. FlightManned'
      BY <1>1, <1>6, <2>2 DEF CallersFine, FlightManned
  <2>4. QED BY <1>1, <1>6, <2>1, <2>2, <2>3 DEF CallersFine
<1>8. QED BY <1>3, <1>5, <1>7, Sides

\* Neither does it matter how Redis fares, and a page that changes is only now
\* superseded.
LEMMA WorldKeeps ==
    ASSUME IInv, RedisChanges \/ PageChanges \/ UNCHANGED vars
    PROVE  IInv'
<1>1. CallersFine /\ BackendsFine /\ UpstreamFine
    BY Sides
<1>2. UNCHANGED <<pc, call, flight, cooling, onMemory, entry, superseded>>
    BY DEF RedisChanges, PageChanges, vars, backendVars, upstreamVars
<1>3. CallersFine'
    BY <1>1, <1>2 DEF CallersFine, FlightManned, Settled, Led, LedAs, HoldsAs, FreshAs
<1>4. health' \in {"up", "down", "noperm"}
    BY <1>1 DEF RedisChanges, PageChanges, vars, backendVars, BackendsFine
<1>5. faults' \in 0..MaxFaults
    BY <1>1, ConfigAssumption DEF RedisChanges, PageChanges, vars, backendVars, BackendsFine
<1>6. BackendsFine'
    BY <1>1, <1>2, <1>4, <1>5 DEF BackendsFine, EntryFresh
<1>7. version' \in Versions /\ version' >= version
    BY <1>1, ConfigAssumption
       DEF RedisChanges, PageChanges, vars, upstreamVars, UpstreamFine, Versions
<1>8. UpstreamFine'
  <2>1. \A v \in Versions : v >= version' => v >= version
      BY <1>1, <1>7 DEF UpstreamFine, Versions
  <2>2. QED BY <1>1, <1>2, <1>7, <2>1 DEF UpstreamFine, Current
<1>9. QED BY <1>3, <1>6, <1>8, Sides

-----------------------------------------------------------------------------
(* The theorems.                                                           *)

\* The cache starts empty, with nobody fetching.
LEMMA InitIInv == Init => IInv
<1> SUFFICES ASSUME Init PROVE IInv
    OBVIOUS
<1>1. NoOne \notin Callers /\ MaxFaults \in Nat /\ Cooldown \in Nat /\ TTL \in Nat /\ Oldest \in Nat
    BY ConfigAssumption DEF Oldest
<1>2. CallersFine
  <2>1. pc = [c \in Callers |-> "idle"] /\ call = [c \in Callers |-> NoCall] /\ flight = NoOne
      BY DEF Init
  <2>2. FlightManned
      BY <2>1 DEF FlightManned, Leading
  <2>3. \A c \in Callers : Settled(c)
      BY <2>1, NoCallType DEF Settled, Led, LedAs, HoldsAs, FreshAs, Leading
  <2>4. pc \in [Callers -> States] /\ call \in [Callers -> Calls]
      BY <2>1, NoCallType DEF States
  <2>5. QED BY <2>1, <2>2, <2>3, <2>4 DEF CallersFine
<1>3. BackendsFine
  <2>1. /\ Nothing \in [kind : Kinds, version : Versions, left : 0..TTL]
        /\ Nothing.kind = "none" /\ Nothing.left = 0
      BY <1>1, NoCallType DEF Nothing, Kinds
  <2>2. entry = [b \in Backends |-> Nothing]
      BY DEF Init
  <2>3. \A b \in Backends : EntryFresh(b)
      BY <2>1, <2>2 DEF EntryFresh, Live
  <2>4. entry \in [Backends -> [kind : Kinds, version : Versions, left : 0..TTL]]
      BY <2>1, <2>2
  <2>5. health = "up" /\ faults = 0 /\ cooling = 0 /\ onMemory = FALSE
      BY DEF Init
  <2>6. faults \in 0..MaxFaults /\ cooling \in 0..Cooldown
      BY <1>1, <2>5
  <2>7. QED BY <2>3, <2>4, <2>5, <2>6 DEF BackendsFine
<1>4. UpstreamFine
    BY <1>1, NoCallType DEF Init, UpstreamFine, Current
<1>5. QED BY <1>2, <1>3, <1>4, Sides

\* Every step keeps the invariant.
LEMMA StepIInv == IInv /\ [Next]_vars => IInv'
<1> SUFFICES ASSUME IInv, [Next]_vars PROVE IInv'
    OBVIOUS
<1>1. ASSUME NEW c \in Callers, Ask(c) \/ HangUp(c) \/ Running(c) PROVE IInv'
  <2>1. CallersFine'
      BY <1>1, CallerMoves, MoveKeeps, CloseKeeps
  <2>2. BackendsFine' /\ UpstreamFine'
      BY <1>1, CallerBackends
  <2>3. QED BY <2>1, <2>2, Sides
<1>2. QED BY <1>1, TickKeeps, WorldKeeps DEF Next

\* The invariant always holds.
THEOREM AlwaysIInv == Spec => []IInv
BY InitIInv, StepIInv, PTL DEF Spec

\* For any number of callers of one page, however the leaders hang up, fail or
\* panic, no two of them fetch it at once, and newcomers wait for the one that does.
THEOREM OneFetchAlways == Spec => []OneFetch
<1>1. IInv => OneFetch
    BY DEF IInv, OneFetch, FlightManned, Leading
<1>2. QED BY <1>1, AlwaysIInv, PTL

\* Nobody inherits another caller's hang-up, no failure of a backend is ever the
\* answer, and only complete documents are kept for later callers.
THEOREM LiveServed == Spec => []LiveCallersServed
<1>1. IInv => LiveCallersServed
    BY DEF IInv, LiveCallersServed, OnlyComplete, EntryFresh, Settled, HoldsAs, Fit
<1>2. QED BY <1>1, AlwaysIInv, PTL

\* A caller that waits always waits for someone still on its way to wake it.
THEOREM NobodyForgotten == Spec => []NoLostWakeup
<1>1. IInv => NoLostWakeup
    BY DEF IInv, NoLostWakeup, Settled, Led, AtLarge, Leading
<1>2. QED BY <1>1, AlwaysIInv, PTL

\* Whatever is served, from a backend, a leader or upstream, had been replaced for
\* no longer than a TTL and the time its fetch took.
THEOREM StalenessBounded == Spec => BoundedStaleness
<1>1. ASSUME IInv, [Next]_vars, NEW c \in Callers,
             pc[c] # "answered", pc'[c] = "answered", call'[c].kind \in Documents
      PROVE  superseded[call'[c].version] <= TTL + MaxFetch
  <2>1. PICK d \in Callers : Ask(d) \/ HangUp(d) \/ Running(d)
      BY <1>1 DEF Next, RedisChanges, PageChanges, Tick, vars
  <2>2. CASE Close(d)
    <3>1. c = d
        BY <1>1, <2>2, CloseMoves
    <3>2. call'[c].version = call[c].version
        BY <1>1, <2>2, <3>1, CloseMoves
    <3>3. superseded[call[c].version] <= MaxFetch /\ call[c].version \in Versions
        BY <1>1, <2>2, <3>1, OfCaller, SetLocal DEF Close, Settled, FreshAs
    <3>4. QED BY <1>1, <3>2, <3>3, OfVersion
  <2>3. CASE ~Close(d)
    <3>1. PICK s \in States, x \in Calls : Moves(d, s, x)
        BY <1>1, <2>1, <2>3, CallerMoves
    <3>2. c = d
        BY <1>1, <3>1, OfCaller DEF Moves
    <3>3. pc'[c] = s /\ call'[c] = x
        BY <1>1, <3>1, <3>2, OfCaller DEF Moves
    <3>4. QED BY <1>1, <3>1, <3>2, <3>3 DEF Moves
  <2>4. QED BY <2>2, <2>3
<1>2. IInv /\ [Next]_vars =>
        [\A c \in Callers :
           pc[c] # "answered" /\ pc'[c] = "answered" /\ call'[c].kind \in Documents
             => superseded[call'[c].version] <= TTL + MaxFetch]_vars
    BY <1>1
<1>3. QED BY <1>2, AlwaysIInv, PTL DEF Spec, BoundedStaleness
=============================================================================
