----------------------------- MODULE RedditChain -----------------------------
(***************************************************************************)
(* The Reddit method chain (internal/engine/reddit: chain.go, fetcher.go,  *)
(* redisstate/store.go): the ordered ways to read Reddit, each pod's       *)
(* memory of which are on hold, the holds Redis shares between pods, and   *)
(* the calls that go from one method to the next, place holds and end      *)
(* them.  Each lock and each Redis command is one step, so calls of one    *)
(* pod and of several interleave between them.                             *)
(***************************************************************************)
EXTENDS Instants, FiniteSets

CONSTANTS
    Callers,            \* crawls, each with a chain of its own
    Pods, PodOf,        \* replicas, and the one each crawl runs in
    Methods,            \* the configured methods, in order
    Browser,            \* MethodBrowser
    MethodCooldown,     \* how long a method that failed is skipped
    SharedCooldown,     \* sharedCooldown
    Backoffs,           \* back-offs Reddit may ask for
    MaxCall,            \* bound: a request lasts at most this long
    MaxRuns,            \* bound: calls of Chain.run in one behaviour
    MaxFaults,          \* bound: failures of Redis and restarts of a pod
    MaxTime             \* bound: the clock stops here

Names == {Methods[i] : i \in DOMAIN Methods}

ASSUME ConfigAssumption ==
    /\ IsFiniteSet(Callers)
    /\ PodOf \in [Callers -> Pods]
    /\ Methods \in Seq(Names) /\ Methods # <<>>
    /\ MethodCooldown \in Nat \ {0} /\ SharedCooldown \in Nat \ {0}
    /\ Backoffs \subseteq Nat \ {0}
    /\ MaxCall \in Nat /\ MaxRuns \in Nat /\ MaxFaults \in Nat /\ MaxTime \in Nat

\* No method is named twice.  (Nobody checks it.  The code keeps the local holds of
\* a repeated name apart and shares one key for both, so that with a list like
\* a, b, a two upstream faults leave no method.)
ASSUME MethodsDistinct ==
    \A i, j \in DOMAIN Methods : Methods[i] = Methods[j] => i = j

VARIABLES
    now,            \* the clock
    downUntil,      \* each pod's own memory: when its skip of a method ends
    down,           \* what each pod last reported of a method
    shared,         \* the Redis keys: when each hold ends
    sharedDownUntil,\* until when each pod does without Redis
    pc,             \* where each caller stands
    call,           \* the locals of each caller's run
    legs,           \* the sessions of each crawl that have `held` set
    runs,           \* history: runs so far
    faults,         \* history: faults so far
    asked,          \* history: the latest end of a hold a pod has placed or loaded
    blip            \* history: is the hold that runs owed to an upstream fault?

local == <<downUntil, down, sharedDownUntil>>
history == <<runs, faults, asked, blip>>
vars == <<now, local, shared, pc, call, legs, history>>

-----------------------------------------------------------------------------

States == {"idle", "trying", "hold", "report down", "share hold", "failed",
           "succeeded", "report up", "share clear"}

NoCall == [start |-> 0, candidates |-> {}, since |-> 0, hold |-> 0, fault |-> FALSE,
           then |-> "idle"]

Goto(c, state) == pc' = [pc EXCEPT ![c] = state]

Return(c) ==
    /\ Goto(c, "idle")
    /\ call' = [call EXCEPT ![c] = NoCall]

\* The method this caller's run has come to, and the places of those behind it.
Current(c) == Methods[Min(call[c].candidates)]
Behind(c) == call[c].candidates \ {Min(call[c].candidates)}

Init ==
    /\ now = 0
    /\ downUntil = [p \in Pods |-> [m \in Names |-> 0]]
    /\ down = [p \in Pods |-> [m \in Names |-> FALSE]]
    /\ shared = [m \in Names |-> 0]
    /\ sharedDownUntil = [p \in Pods |-> 0]
    /\ pc = [c \in Callers |-> "idle"]
    /\ call = [c \in Callers |-> NoCall]
    /\ legs = [c \in Callers |-> {}]
    /\ runs = 0 /\ faults = 0
    /\ asked = downUntil
    /\ blip = down

\* sharedReady: Redis is not in its failure cooldown on this pod.
SharedReady(p) == now >= sharedDownUntil[p]

\* A Redis command of pod p succeeds (sharedDone without an error) ...
Reached(p) ==
    /\ SharedReady(p)
    /\ sharedDownUntil' = [sharedDownUntil EXCEPT ![p] = 0]
    /\ UNCHANGED faults

\* ... or fails, and the pod does without Redis for a while ...
Unreached(p) ==
    /\ SharedReady(p)
    /\ faults < MaxFaults /\ faults' = faults + 1
    /\ sharedDownUntil' = [sharedDownUntil EXCEPT ![p] = now + SharedCooldown]

\* ... or is not sent at all.
Unasked(p) ==
    /\ ~SharedReady(p)
    /\ UNCHANGED <<sharedDownUntil, faults>>

-----------------------------------------------------------------------------
(* Chain.runOn.                                                            *)

\* The methods a run may use: FetchMoreChildren leaves the browser out.
Usable(directOnly) == {m \in Names : ~(directOnly /\ m = Browser)}

\* When the skip of m ends, for a run on p that reads these holds from Redis.
SkippedUntil(p, m, holds) == Later(downUntil[p][m], holds[m])

NoHolds == [m \in Names |-> 0]

\* The run starts: it reads the holds, picks the methods that are not held, and
\* reports those that are.  With none left it fails at once, and sends nothing.
Begin(c, directOnly, holds) ==
    LET p == PodOf[c]
        held == {m \in Usable(directOnly) : now < SkippedUntil(p, m, holds)}
        candidates == {i \in DOMAIN Methods : Methods[i] \in Usable(directOnly) \ held}
    IN  /\ pc[c] = "idle"
        /\ runs < MaxRuns /\ runs' = runs + 1
        /\ down' = [down EXCEPT ![p] = [m \in Names |-> @[m] \/ m \in held]]
        /\ IF candidates = {}
           THEN UNCHANGED <<pc, call>>
           ELSE /\ call' = [call EXCEPT ![c] = [NoCall EXCEPT !.start = now, !.since = now,
                                                              !.candidates = candidates]]
                /\ Goto(c, "trying")
        /\ \/ UNCHANGED legs
           \/ legs' = [legs EXCEPT ![c] = {}]
        /\ UNCHANGED <<now, downUntil, shared, asked, blip>>

\* Redis answers the read, so the run knows what other pods hold.
BeginShared(c, directOnly) == Begin(c, directOnly, shared) /\ Reached(PodOf[c])

\* It does not, or is not asked, and the run knows what its own pod holds.
BeginAlone(c, directOnly) ==
    /\ Begin(c, directOnly, NoHolds)
    /\ Unreached(PodOf[c]) \/ Unasked(PodOf[c])

\* The method answers.
Succeeds(c) ==
    /\ pc[c] = "trying"
    /\ Goto(c, "succeeded")
    /\ UNCHANGED <<now, local, shared, call, legs, history>>

\* The method answers, or fails as it would on every method, and Reddit asks for
\* back-off: the session's penalize hook holds the method before fn returns.
BacksOff(c, d) ==
    /\ pc[c] = "trying"
    /\ \E then \in {"succeeded", "idle"} :
         call' = [call EXCEPT ![c].hold = d, ![c].then = then, ![c].since = 0]
    /\ legs' = [legs EXCEPT ![c] = @ \cup {Current(c)}]
    /\ Goto(c, "hold")
    /\ UNCHANGED <<now, local, shared, history>>

\* The method is refused in a way the next one can get around, with a Retry-After
\* or without; the penalize hook has set `held` when there is one, and the longer
\* hold that follows covers its own.
FailsOver(c) ==
    /\ pc[c] = "trying"
    /\ \E d \in {0} \cup Backoffs :
         /\ call' = [call EXCEPT ![c].hold = Later(MethodCooldown, d), ![c].then = "failed",
                                 ![c].since = 0]
         /\ legs' = IF d = 0 THEN legs ELSE [legs EXCEPT ![c] = @ \cup {Current(c)}]
    /\ Goto(c, "hold")
    /\ UNCHANGED <<now, local, shared, history>>

\* Faulty: holds the last method left for a fault that says nothing about it.
UpstreamFaultAlways(c) ==
    /\ pc[c] = "trying"
    /\ call' = [call EXCEPT ![c].hold = MethodCooldown, ![c].then = "failed", ![c].fault = TRUE]
    /\ Goto(c, "hold")
    /\ UNCHANGED <<now, local, shared, legs, history>>

\* An upstream fault is no verdict on the method: it is held only when the run has
\* another to go to.
UpstreamFault(c) ==
    /\ pc[c] = "trying"
    /\ IF Behind(c) # {}
       THEN /\ call' = [call EXCEPT ![c].hold = MethodCooldown, ![c].then = "failed",
                                    ![c].fault = TRUE]
            /\ Goto(c, "hold")
       ELSE Return(c)
    /\ UNCHANGED <<now, local, shared, legs, history>>

\* An error every method would answer with, or a dead context: the run returns it.
Gives(c) ==
    /\ pc[c] \in {"trying", "failed"}
    /\ Return(c)
    /\ UNCHANGED <<now, local, shared, legs, history>>

\* On to the next method, if there is one.
NextMethod(c) ==
    /\ pc[c] = "failed"
    /\ IF Behind(c) # {}
       THEN /\ call' = [call EXCEPT ![c].candidates = Behind(c), ![c].since = now,
                                    ![c].fault = FALSE]
            /\ Goto(c, "trying")
       ELSE Return(c)
    /\ UNCHANGED <<now, local, shared, legs, history>>

-----------------------------------------------------------------------------
(* holdMethod: three steps.                                                *)

\* m.hold: this pod's skip is extended, never shortened.
HoldLocal(c) ==
    LET p == PodOf[c]  m == Current(c)  until == now + call[c].hold
    IN  /\ pc[c] = "hold"
        /\ downUntil' = [downUntil EXCEPT ![p][m] = Later(@, until)]
        /\ asked' = [asked EXCEPT ![p][m] = Later(@, until)]
        /\ blip' = [blip EXCEPT ![p][m] = IF until > downUntil[p][m] THEN call[c].fault ELSE @]
        /\ Goto(c, "report down")
        /\ UNCHANGED <<now, down, sharedDownUntil, shared, call, legs, runs, faults>>

\* setDown(true).
ReportDown(c) ==
    /\ pc[c] = "report down"
    /\ down' = [down EXCEPT ![PodOf[c]][Current(c)] = TRUE]
    /\ Goto(c, "share hold")
    /\ UNCHANGED <<now, downUntil, sharedDownUntil, shared, call, legs, history>>

\* The extend script: a shorter hold never cuts a longer one.
Extend(m, until) == shared' = [shared EXCEPT ![m] = Later(@, until)]

\* shared.Hold, if Redis is asked and answers.
ShareHold(c) ==
    LET p == PodOf[c]  m == Current(c)  until == now + call[c].hold
    IN  /\ pc[c] = "share hold"
        /\ \/ Reached(p) /\ Extend(m, until)
           \/ (Unreached(p) \/ Unasked(p)) /\ UNCHANGED shared
        /\ IF call[c].then = "idle" THEN Return(c)
           ELSE Goto(c, call[c].then) /\ call' = [call EXCEPT ![c].hold = 0, ![c].then = "idle"]
        /\ UNCHANGED <<now, downUntil, down, legs, runs, asked, blip>>

-----------------------------------------------------------------------------
(* markUp: three steps, none of them when Reddit asked for back-off.       *)

\* The run ends with a success through a method that Reddit asked to rest.
StaysHeld(c) ==
    /\ pc[c] = "succeeded"
    /\ Current(c) \in legs[c]
    /\ legs' = [legs EXCEPT ![c] = @ \ {Current(c)}]
    /\ Return(c)
    /\ UNCHANGED <<now, local, shared, history>>

\* Faulty: a success ends whatever hold there is.
ClearAlways(c) ==
    /\ pc[c] = "succeeded"
    /\ Current(c) \notin legs[c]
    /\ downUntil' = [downUntil EXCEPT ![PodOf[c]][Current(c)] = 0]
    /\ Goto(c, "report up")
    /\ UNCHANGED <<now, down, sharedDownUntil, shared, call, legs, history>>

\* m.clear: the pod's skip ends, unless a hold that was placed since the run
\* started still runs.
Clear(c) ==
    LET p == PodOf[c]  m == Current(c)
    IN  /\ pc[c] = "succeeded"
        /\ m \notin legs[c]
        /\ IF downUntil[p][m] > call[c].start
           THEN Return(c) /\ UNCHANGED downUntil
           ELSE /\ downUntil' = [downUntil EXCEPT ![p][m] = 0]
                /\ Goto(c, "report up")
                /\ UNCHANGED call
        /\ UNCHANGED <<now, down, sharedDownUntil, shared, legs, history>>

\* setDown(false), and on to Redis if that was news.
ReportUp(c) ==
    LET p == PodOf[c]  m == Current(c)
    IN  /\ pc[c] = "report up"
        /\ down' = [down EXCEPT ![p][m] = FALSE]
        /\ IF down[p][m] THEN Goto(c, "share clear") /\ UNCHANGED call ELSE Return(c)
        /\ UNCHANGED <<now, downUntil, sharedDownUntil, shared, legs, history>>

\* shared.Clear, if Redis is asked and answers: the key goes, whoever wrote it.
ShareClear(c) ==
    LET p == PodOf[c]  m == Current(c)
    IN  /\ pc[c] = "share clear"
        /\ \/ Reached(p) /\ shared' = [shared EXCEPT ![m] = 0]
           \/ (Unreached(p) \/ Unasked(p)) /\ UNCHANGED shared
        /\ Return(c)
        /\ UNCHANGED <<now, downUntil, down, legs, runs, asked, blip>>

-----------------------------------------------------------------------------

\* A pod restarts: its memory is gone, and LoadSharedHolds brings back what Redis
\* still holds.
Restart(p) ==
    LET left == [m \in Names |-> IF shared[m] > now THEN shared[m] ELSE 0]
    IN  /\ faults < MaxFaults /\ faults' = faults + 1
        /\ downUntil' = [downUntil EXCEPT ![p] = left]
        /\ down' = [down EXCEPT ![p] = [m \in Names |-> left[m] > 0]]
        /\ sharedDownUntil' = [sharedDownUntil EXCEPT ![p] = 0]
        /\ pc' = [c \in Callers |-> IF PodOf[c] = p THEN "idle" ELSE pc[c]]
        /\ call' = [c \in Callers |-> IF PodOf[c] = p THEN NoCall ELSE call[c]]
        /\ legs' = [c \in Callers |-> IF PodOf[c] = p THEN {} ELSE legs[c]]
        /\ asked' = [asked EXCEPT ![p] = left]
        /\ blip' = [blip EXCEPT ![p] = [m \in Names |-> FALSE]]
        /\ UNCHANGED <<now, shared, runs>>

\* What is left of an instant once the clock has moved past it: Redis drops a key
\* that has expired, and a history is kept only for as long as it says something.
Expire(end) == IF end > now' THEN end ELSE 0

\* Time passes while requests are out; the steps between them take none.
Tick ==
    /\ now < MaxTime
    /\ \A c \in Callers : pc[c] = "idle" \/ (pc[c] = "trying" /\ now - call[c].since < MaxCall)
    /\ now' = now + 1
    /\ shared' = [m \in Names |-> Expire(shared[m])]
    /\ asked' = [p \in Pods |-> [m \in Names |-> Expire(asked[p][m])]]
    /\ UNCHANGED <<local, pc, call, legs, runs, faults, blip>>

\* The clock has reached its bound.
Finished ==
    /\ now = MaxTime
    /\ UNCHANGED vars

CallerStep(c) ==
    \/ \E directOnly \in BOOLEAN : BeginShared(c, directOnly) \/ BeginAlone(c, directOnly)
    \/ Succeeds(c) \/ FailsOver(c) \/ UpstreamFault(c) \/ Gives(c) \/ NextMethod(c)
    \/ \E d \in Backoffs : BacksOff(c, d)
    \/ HoldLocal(c) \/ ReportDown(c) \/ ShareHold(c)
    \/ StaysHeld(c) \/ Clear(c) \/ ReportUp(c) \/ ShareClear(c)

Next ==
    \/ \E c \in Callers : CallerStep(c)
    \/ \E p \in Pods : Restart(p)
    \/ Tick
    \/ Finished

Spec == Init /\ [][Next]_vars

-----------------------------------------------------------------------------
(* Properties.                                                             *)

\* Every variable has its type, and a run that goes on has a method to go on with.
TypeOK ==
    /\ now \in Nat
    /\ downUntil \in [Pods -> [Names -> Nat]] /\ asked \in [Pods -> [Names -> Nat]]
    /\ down \in [Pods -> [Names -> BOOLEAN]] /\ blip \in [Pods -> [Names -> BOOLEAN]]
    /\ shared \in [Names -> Nat]
    /\ sharedDownUntil \in [Pods -> Nat]
    /\ pc \in [Callers -> States]
    /\ call \in [Callers -> [start : Nat, candidates : SUBSET DOMAIN Methods, since : Nat,
                             hold : Nat, fault : BOOLEAN, then : States]]
    /\ \A c \in Callers : pc[c] # "idle" => call[c].candidates # {}
    /\ legs \in [Callers -> SUBSET Names]
    /\ runs \in Nat /\ faults \in Nat

Picks(c) == {Methods[i] : i \in call'[c].candidates}

Begins(c) == pc[c] = "idle" /\ pc'[c] = "trying"

\* No run picks a method while a hold its own pod has placed, or found when it
\* started, still runs: no success that was on its way ends a newer hold.
OwnHoldsKept ==
    [][\A c \in Callers : Begins(c) => \A m \in Picks(c) : asked[PodOf[c]][m] <= now]_vars

\* A hold in Redis runs out or is ended by a success through its method: no
\* pod's shorter hold cuts another's longer one.
SharedHoldsExtend ==
    [][\A m \in Names :
         shared'[m] < shared[m] =>
           \/ shared[m] <= now'
           \/ \E c \in Callers : pc[c] = "share clear" /\ Current(c) = m /\ pc'[c] = "idle"]_vars

\* A hold lasts as long as it was placed for, in the pod and in Redis.
HoldsKept == OwnHoldsKept /\ SharedHoldsExtend

\* Faults of the upstream alone never put every method of a pod on hold: a blip
\* does not become a cooldown-long outage.
BlipNeverStopsReddit ==
    TypeOK /\ \A p \in Pods : \E m \in Names : downUntil[p][m] <= now \/ ~blip[p][m]


=============================================================================
