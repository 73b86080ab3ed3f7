----------------------------- MODULE FetchCache -----------------------------
(***************************************************************************)
(* The fetch_url response cache (internal/fetchcache): the decorator that  *)
(* looks up, shares one upstream fetch among identical callers and stores  *)
(* what it fetched; behind it Failover, which starts on Redis and moves to *)
(* the in-process backend for good when Redis refuses its keys.            *)
(*                                                                         *)
(* One key is modelled: keys share nothing but Redis' health.  The page    *)
(* upstream changes over time, so that a served document can be told from  *)
(* the current one, and a document is its version and whether it is one    *)
(* that may be cached.  Instants are kept as the ticks that are left.      *)
(***************************************************************************)
EXTENDS Instants, FiniteSets

CONSTANTS
    Callers,    \* callers of Crawl, one call each
    TTL,        \* ttlFor this key's engine
    Cooldown,   \* ticks the Redis backend fails fast after a failure
    NoOne,      \* not a caller
    MaxFetch,   \* bound: an upstream fetch takes at most this long
    MaxVersion, \* bound: versions of the page upstream
    MaxFaults   \* bound: changes in the health of Redis

ASSUME ConfigAssumption ==
    /\ IsFiniteSet(Callers)
    /\ TTL \in Nat \ {0} /\ Cooldown \in Nat \ {0}
    /\ NoOne \notin Callers
    /\ MaxFetch \in Nat /\ MaxVersion \in Nat /\ MaxFaults \in Nat

VARIABLES
    health,     \* how Redis answers
    faults,     \* history: changes of that so far
    cooling,    \* ticks until Redis is tried again
    onMemory,   \* has Failover moved to the in-process backend?
    entry,      \* what each backend holds under the key
    flight,     \* the leader of the fetch in the flight map
    pc,         \* where each caller stands
    call,       \* the locals of each caller
    version,    \* the version of the page upstream
    superseded  \* history: for how long each version has not been current

backendVars == <<health, faults, cooling, onMemory, entry>>
upstreamVars == <<version, superseded>>
vars == <<backendVars, flight, pc, call, upstreamVars>>

-----------------------------------------------------------------------------

Backends == {"redis", "memory"}
Kinds == {"none", "document", "partial", "refused", "abandoned",
          "unavailable", "panic", "aborted", "unheard"}
Versions == 0..MaxVersion

\* Cacheable: a partial crawl, a fallback render or an error document is not.
Cacheable(kind) == kind = "document"

Nothing == [kind |-> "none", version |-> 0, left |-> 0]

\* Faulty: the last tick never comes.
LiveForever(e) == e.kind # "none"

\* An entry is served until its time is up.
Live(e) == e.left > 0

Goto(c, state) == pc' = [pc EXCEPT ![c] = state]

NoCall == [live |-> TRUE, leader |-> NoOne, kind |-> "none", version |-> 0,
           gone |-> FALSE, since |-> 0]

\* Crawl returns to the caller, if it is still there to hear.
Answer(c, kind, ver) ==
    /\ Goto(c, "answered")
    /\ call' = [call EXCEPT ![c] = [NoCall EXCEPT !.kind = IF call[c].live THEN kind ELSE "unheard",
                                                  !.version = ver]]

Init ==
    /\ health = "up" /\ faults = 0
    /\ cooling = 0 /\ onMemory = FALSE
    /\ entry = [b \in Backends |-> Nothing]
    /\ flight = NoOne
    /\ pc = [c \in Callers |-> "idle"]
    /\ call = [c \in Callers |-> NoCall]
    /\ version = 0
    /\ superseded = [v \in Versions |-> 0]

\* A caller asks for the page: an ordinary call looks it up, no_cache goes
\* upstream, outside the flight map.
Ask(c) ==
    /\ pc[c] = "idle"
    /\ \/ Goto(c, "looking") /\ UNCHANGED call
       \/ Goto(c, "crawling") /\ call' = [call EXCEPT ![c].version = version]
    /\ UNCHANGED <<backendVars, flight, upstreamVars>>

\* The caller hangs up or its time runs out, while the code may still look at that.
HangUp(c) ==
    /\ pc[c] \notin {"idle", "sharing", "closing", "answered"}
    /\ call[c].live
    /\ call' = [call EXCEPT ![c].live = FALSE]
    /\ UNCHANGED <<backendVars, flight, pc, upstreamVars>>

-----------------------------------------------------------------------------
(* The lookup: Failover.Get on Redis.Get or Memory.Get.                    *)

\* What the active backend answers with.
Found(b, c) ==
    IF Live(entry[b]) THEN Answer(c, entry[b].kind, entry[b].version)
                      ELSE Goto(c, "sharing") /\ UNCHANGED call

\* A read that failed is served as a miss, unless nobody is left to serve.
FailedRead(c) ==
    IF call[c].live THEN Goto(c, "sharing") /\ UNCHANGED call
                    ELSE Answer(c, "unheard", 0)

\* Memory.Get, or Redis.Get on a Redis that answers.
LookFound(c) ==
    /\ pc[c] = "looking"
    /\ onMemory \/ (cooling = 0 /\ health = "up")
    /\ Found(IF onMemory THEN "memory" ELSE "redis", c)
    /\ UNCHANGED <<backendVars, flight, upstreamVars>>

\* Redis.Get fails: at once while it cools down, and otherwise on the wire, which
\* starts a cooldown unless it was the caller that hung up.
LookFails(c) ==
    /\ pc[c] = "looking"
    /\ ~onMemory
    /\ cooling > 0 \/ health = "down" \/ ~call[c].live
    /\ cooling' = IF cooling = 0 /\ call[c].live THEN Cooldown ELSE cooling
    /\ FailedRead(c)
    /\ UNCHANGED <<health, faults, onMemory, entry, flight, upstreamVars>>

\* Redis.Get is refused: Failover moves to memory and answers from it.
LookDenied(c) ==
    /\ pc[c] = "looking"
    /\ ~onMemory /\ cooling = 0 /\ health = "noperm"
    /\ onMemory' = TRUE
    /\ Found("memory", c)
    /\ UNCHANGED <<health, faults, cooling, entry, flight, upstreamVars>>

-----------------------------------------------------------------------------
(* fetchShared: one fetch at a time.                                       *)

\* Nobody is fetching: the caller leads, and leaves a failure that invites a
\* retry for the case that it never gets to leave anything else.
Lead(c) ==
    /\ pc[c] = "sharing"
    /\ flight = NoOne
    /\ flight' = c
    /\ call' = [call EXCEPT ![c].leader = c, ![c].version = version, ![c].since = 0]
    /\ Goto(c, "crawling")
    /\ UNCHANGED <<backendVars, upstreamVars>>

\* Someone is: the caller waits for what it leaves.
Follow(c) ==
    /\ pc[c] = "sharing"
    /\ flight # NoOne
    /\ call' = [call EXCEPT ![c].leader = flight]
    /\ Goto(c, "following")
    /\ UNCHANGED <<backendVars, flight, upstreamVars>>

\* inner.Crawl returns a document: the page as it was when the fetch began.
Crawled(c) ==
    /\ pc[c] = "crawling"
    /\ \E kind \in {"document", "partial"} :
         /\ call' = [call EXCEPT ![c].kind = kind, ![c].since = 0]
         /\ Goto(c, IF Cacheable(kind) THEN "storing" ELSE "publishing")
    /\ UNCHANGED <<backendVars, flight, upstreamVars>>

\* inner.Crawl returns an error: upstream's, or that of the dead context.
CrawlFails(c) ==
    /\ pc[c] = "crawling"
    /\ call' = [call EXCEPT ![c].kind = IF call[c].live THEN "refused" ELSE "abandoned",
                            ![c].since = 0]
    /\ Goto(c, "publishing")
    /\ UNCHANGED <<backendVars, flight, upstreamVars>>

\* Faulty: the flight is taken down at the end of the function, not by a deferred
\* one, so a panic leaves it there.
PanicLeavesFlight(c) ==
    /\ pc[c] = "crawling"
    /\ Answer(c, "panic", 0)
    /\ UNCHANGED <<backendVars, flight, upstreamVars>>

\* inner.Crawl panics: for a leader the deferred function still runs, and leaves
\* what Lead put there.
CrawlPanics(c) ==
    /\ pc[c] = "crawling"
    /\ IF call[c].leader = c
       THEN /\ call' = [call EXCEPT ![c].kind = "panic", ![c].gone = TRUE, ![c].since = 0]
            /\ flight' = NoOne
            /\ Goto(c, "closing")
       ELSE Answer(c, "panic", 0) /\ UNCHANGED flight
    /\ UNCHANGED <<backendVars, upstreamVars>>

-----------------------------------------------------------------------------
(* The store: Failover.Set on Redis.Set or Memory.Set.                     *)

\* The entry a caller stores, or none when it is over the backend's cap.
Put(b, c) ==
    \/ entry' = [entry EXCEPT ![b] = [kind |-> call[c].kind, version |-> call[c].version,
                                      left |-> TTL]]
    \/ UNCHANGED entry

\* Memory.Set, or Redis.Set on a Redis that answers.
StorePut(c) ==
    /\ pc[c] = "storing"
    /\ onMemory \/ (cooling = 0 /\ health = "up")
    /\ Put(IF onMemory THEN "memory" ELSE "redis", c)
    /\ Goto(c, "publishing")
    /\ UNCHANGED <<health, faults, cooling, onMemory, flight, call, upstreamVars>>

\* Redis.Set fails, at once or on the wire: the document is served all the same.
StoreFails(c) ==
    /\ pc[c] = "storing"
    /\ ~onMemory
    /\ cooling > 0 \/ health = "down"
    /\ cooling' = IF cooling = 0 THEN Cooldown ELSE cooling
    /\ Goto(c, "publishing")
    /\ UNCHANGED <<health, faults, onMemory, entry, flight, call, upstreamVars>>

\* Redis.Set is refused: Failover moves to memory and stores there.
StoreDenied(c) ==
    /\ pc[c] = "storing"
    /\ ~onMemory /\ cooling = 0 /\ health = "noperm"
    /\ onMemory' = TRUE
    /\ Put("memory", c)
    /\ Goto(c, "publishing")
    /\ UNCHANGED <<health, faults, cooling, flight, call, upstreamVars>>

-----------------------------------------------------------------------------
(* The end of a fetch.                                                     *)

\* A bypass has nobody to tell.
AnswerBypass(c) ==
    /\ pc[c] = "publishing"
    /\ call[c].leader # c
    /\ Answer(c, call[c].kind, call[c].version)
    /\ UNCHANGED <<backendVars, flight, upstreamVars>>

\* The leader writes down how it went and leaves the flight map ...
Publish(c) ==
    /\ pc[c] = "publishing"
    /\ call[c].leader = c
    /\ call' = [call EXCEPT ![c].gone = ~call[c].live]
    /\ flight' = NoOne
    /\ Goto(c, "closing")
    /\ UNCHANGED <<backendVars, upstreamVars>>

\* ... and only then wakes its followers, who find what it has written, and
\* answers its own caller.
Close(c) ==
    /\ pc[c] = "closing"
    /\ LET followers == {d \in Callers : pc[d] = "following" /\ call[d].leader = c}
           left(d) == [call[d] EXCEPT !.kind = IF call[c].kind = "panic" THEN "aborted"
                                              ELSE call[c].kind,
                                      !.version = call[c].version,
                                      !.gone = call[c].gone]
           own == [NoCall EXCEPT !.kind = IF call[c].live THEN call[c].kind ELSE "unheard",
                                 !.version = call[c].version]
       IN  /\ pc' = [d \in Callers |-> IF d \in followers THEN "woken"
                                      ELSE IF d = c THEN "answered" ELSE pc[d]]
           /\ call' = [d \in Callers |-> IF d \in followers THEN left(d)
                                        ELSE IF d = c THEN own ELSE call[d]]
    /\ UNCHANGED <<backendVars, flight, upstreamVars>>

Documents == {"document", "partial"}

\* Must this follower fetch for itself?  Only when it is still there and its
\* leader is not.
MustRetry(c) == call[c].kind \notin Documents /\ call[c].gone /\ call[c].live

\* Faulty: shares whatever the leader left.
ShareAll(c) ==
    /\ pc[c] = "woken"
    /\ Answer(c, call[c].kind, call[c].version)
    /\ UNCHANGED <<backendVars, flight, upstreamVars>>

\* follow: the leader's document is the caller's, and so is its error ...
Share(c) ==
    /\ pc[c] = "woken"
    /\ ~MustRetry(c)
    /\ Answer(c, call[c].kind, call[c].version)
    /\ UNCHANGED <<backendVars, flight, upstreamVars>>

\* Faulty: every follower of a leader that hung up fetches by itself.
RetryAlone(c) ==
    /\ pc[c] = "woken"
    /\ MustRetry(c)
    /\ call' = [call EXCEPT ![c] = [NoCall EXCEPT !.leader = c, !.version = version]]
    /\ Goto(c, "crawling")
    /\ UNCHANGED <<backendVars, flight, upstreamVars>>

\* ... unless the leader hung up or panicked: then the caller starts over, to lead
\* or to follow someone else.
Retry(c) ==
    /\ pc[c] = "woken"
    /\ MustRetry(c)
    /\ call' = [call EXCEPT ![c] = NoCall]
    /\ Goto(c, "sharing")
    /\ UNCHANGED <<backendVars, flight, upstreamVars>>

\* The caller hangs up while it waits, or when it is just about to stop.
StopFollowing(c) ==
    /\ pc[c] \in {"following", "woken"}
    /\ ~call[c].live
    /\ Answer(c, "unheard", 0)
    /\ UNCHANGED <<backendVars, flight, upstreamVars>>

-----------------------------------------------------------------------------
(* The world.                                                              *)

\* Redis goes down, comes back, or starts to refuse this user's keys.
RedisChanges ==
    /\ faults < MaxFaults
    /\ faults' = faults + 1
    /\ health' \in {"up", "down", "noperm"} \ {health}
    /\ UNCHANGED <<cooling, onMemory, entry, flight, pc, call, upstreamVars>>

\* The page changes.
PageChanges ==
    /\ version < MaxVersion
    /\ version' = version + 1
    /\ UNCHANGED <<backendVars, flight, pc, call, superseded>>

Less(n) == Later(0, n - 1)

\* An age past this one is not told apart.
Oldest == TTL + MaxFetch + 1

\* Time passes; callers run within a tick but for the fetch itself.
Tick ==
    /\ \A c \in Callers :
         /\ pc[c] \in {"idle", "answered", "following", "crawling"}
         /\ pc[c] = "crawling" => call[c].since < MaxFetch
    /\ cooling' = Less(cooling)
    /\ entry' = [b \in Backends |-> [entry[b] EXCEPT !.left = Less(@)]]
    /\ call' = [c \in Callers |-> IF pc[c] = "crawling" THEN [call[c] EXCEPT !.since = @ + 1] ELSE call[c]]
    /\ superseded' = [v \in Versions |->
                        IF v < version /\ superseded[v] < Oldest THEN superseded[v] + 1 ELSE superseded[v]]
    /\ UNCHANGED <<health, faults, onMemory, flight, pc, version>>

\* The steps a caller's goroutine takes.
Running(c) ==
    \/ LookFound(c) \/ LookFails(c) \/ LookDenied(c) \/ Lead(c) \/ Follow(c)
    \/ Crawled(c) \/ CrawlFails(c) \/ CrawlPanics(c)
    \/ StorePut(c) \/ StoreFails(c) \/ StoreDenied(c)
    \/ AnswerBypass(c) \/ Publish(c) \/ Close(c) \/ Share(c) \/ Retry(c) \/ StopFollowing(c)

Next ==
    \/ \E c \in Callers : Ask(c) \/ HangUp(c) \/ Running(c)
    \/ RedisChanges
    \/ PageChanges
    \/ Tick

Spec == Init /\ [][Next]_vars

-----------------------------------------------------------------------------
(* Properties.                                                             *)

\* Every variable has its type.
TypeOK ==
    /\ health \in {"up", "down", "noperm"} /\ faults \in 0..MaxFaults
    /\ cooling \in 0..Cooldown /\ onMemory \in BOOLEAN
    /\ entry \in [Backends -> [kind : Kinds, version : Versions, left : 0..TTL]]
    /\ flight \in Callers \cup {NoOne}
    /\ pc \in [Callers -> {"idle", "looking", "sharing", "crawling", "storing", "publishing",
                           "closing", "following", "woken", "answered"}]
    /\ call \in [Callers -> [live : BOOLEAN, leader : Callers \cup {NoOne}, kind : Kinds,
                             version : Versions, gone : BOOLEAN, since : 0..MaxFetch]]
    /\ version \in Versions
    /\ superseded \in [Versions -> 0..Oldest]

\* Concurrent identical requests share one upstream fetch: however leaders hang
\* up, fail or panic, no two of them fetch at once, and the one that does is the
\* one newcomers will wait for.
OneFetch ==
    /\ TypeOK
    /\ \A c \in Callers :
         pc[c] \in {"crawling", "storing", "publishing"} /\ call[c].leader = c => flight = c

\* Only complete documents of the engine that claimed the URL are ever stored.
OnlyComplete == \A b \in Backends : entry[b].kind \in {"none", "document"}

\* Nobody inherits another caller's hang-up, and no failure of a backend is ever
\* the answer: a caller that is still there gets a document or upstream's refusal,
\* or its own fetch panics; and what is kept for later callers is complete.
LiveCallersServed ==
    /\ OnlyComplete
    /\ \A c \in Callers :
         pc[c] = "answered" => call[c].kind \in {"document", "partial", "refused", "panic", "unheard"}

\* No document is served that upstream had replaced for longer than a TTL and the
\* time the fetch took, whichever backend, flight or store it came through.
BoundedStaleness ==
    [][\A c \in Callers :
         pc[c] # "answered" /\ pc'[c] = "answered" /\ call'[c].kind \in Documents
           => superseded[call'[c].version] <= TTL + MaxFetch]_vars

\* A caller that waits for a leader is never forgotten: the leader is still on its
\* way to wake it, whatever became of the fetch.
NoLostWakeup ==
    \A c \in Callers :
      pc[c] = "following" =>
        pc[call[c].leader] \in {"crawling", "storing", "publishing", "closing"}
=============================================================================
