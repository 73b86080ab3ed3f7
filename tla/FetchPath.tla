----------------------------- MODULE FetchPath -----------------------------
(***************************************************************************)
(* One fetch_url call from the registry to its answer: the dedicated       *)
(* engine that claims the URL, the decision to hand a failed URL to the    *)
(* generic engine (internal/engine/registry.go), the generic engine's      *)
(* ladder of attempts (internal/engine/crawl4ai) with the retrying client  *)
(* under each rung (internal/httpx/retry.go), and the Twitter engine,      *)
(* which goes through several sources and then calls the generic engine    *)
(* itself.                                                                 *)
(*                                                                         *)
(* The caller may hang up at any time.  Other calls compete for the slots  *)
(* of the host in question.  What an upstream answers is free; the verdict *)
(* the engine comes to, and what its error says, is CrawlVerdict's.        *)
(* Delays are left out, a retry follows when it follows.                   *)
(***************************************************************************)
EXTENDS CrawlVerdict, Sequences, FiniteSetsExt

CONSTANTS
    Slots,          \* slots the limiter has for a host
    MaxAttempts,    \* RetryConfig.MaxAttempts of the crawl4ai client
    Selector,       \* is an excluded selector configured?
    Agent,          \* is a user agent configured?
    ChallengeWait   \* is a challenge wait configured?

ASSUME ConfigAssumption ==
    /\ Slots \in Nat \ {0} /\ MaxAttempts \in Nat \ {0}
    /\ {Selector, Agent, ChallengeWait} \subseteq BOOLEAN

VARIABLES
    pc,         \* what the call is doing: a rung by its name, or a step between
    request,    \* the URL and the options of the call
    live,       \* is the caller still there?
    mine,       \* slots this call holds
    others,     \* slots other calls hold
    via,        \* who called the generic engine
    attempt,    \* attempts the client has begun on this rung
    noWait,     \* crawlOpts.noWait of the rungs to come
    err,        \* the error the ladder has come to: its verdict and what its text says
    failed,     \* the Twitter sources that failed, and how
    answer,     \* what the caller is told, and by which engine
    ladders,    \* history: how often the generic engine has begun to fetch
    walls,      \* history: how often each identity has met a wall
    raced,      \* history: has a wall's own error named the navigation race?
    ranOut,     \* history: the rungs on which a challenge wait ran out
    blocked,    \* history: has a rung met a block that its own remedy has not replaced?
    refused     \* history: has the page's own host refused the dedicated engine?

crawl == <<attempt, noWait, err, via>>
history == <<ladders, walls, raced, ranOut, blocked, refused>>
vars == <<pc, request, live, mine, others, crawl, failed, answer, history>>

-----------------------------------------------------------------------------
(* Verdicts.                                                               *)

\* What can be said of one attempt on the page.  "challenge" is Cloudflare's,
\* "final" is an error marked NoFallback, "gone" is the caller's own hang-up.
Verdicts ==
    {"document", "block", "challenge", "rate", "quota", "thin", "rejected",
     "not found", "fault", "timeout", "invalid", "final", "gone"}

\* What a rung comes to: a verdict and what the text of its error says.
Outcomes == [kind : Verdicts, says : SUBSET Words]

\* domain.IsBlockKind.
IsBlockKind(v) == v \in {"block", "challenge", "rate", "quota"}

\* isBlock of the generic engine: a wall, and not a request to slow down.
IsBlock(v) == v \in {"block", "challenge"}

IsRescuable(v) == v \in {"thin", "rejected"}

PdfRungs == {"pdf", "pdf_retry"}
Rungs == {"base", "no_wait", "networkidle", "alt_fingerprint", "no_selector"} \cup PdfRungs

\* Does this rung wait for a challenge to clear?
Waits(rung) == ChallengeWait /\ ~noWait /\ rung \notin PdfRungs

\* What an answer that the client does not retry comes to.  On a rung that does not
\* wait no wait runs out.
Settled(rung) == {o \in SettledOutcomes : "wait" \in o.says => Waits(rung)}

\* A 5xx that names crawl4ai's own block verdict.
Vetoed == VetoedOutcomes

\* A 429, any other 5xx or no answer, as it is classified when it is the last.
Retryable == RetriedOutcomes

\* Who the browser says it is on this rung.
Identity(rung) ==
    IF rung \in PdfRungs THEN "none" ELSE IF rung = "alt_fingerprint" THEN "default" ELSE "modern"

-----------------------------------------------------------------------------
(* The call.                                                               *)

Engines == {"none", "same host", "other host", "twitter"}
Sources == <<"fxtwitter", "syndication", "vxtwitter">>

\* The steps of the generic engine: it holds a slot on all but the first.
Ladder == {"raw text", "rescue", "probe"} \cup Rungs
Generic == {"waiting"} \cup Ladder

States ==
    {"idle", "queued", "engine", "resolving", "sources", "done"} \cup Generic

NoAnswer == [verdict |-> "none", by |-> "none"]
NoError == [kind |-> "none", says |-> {}]

Init ==
    /\ pc = "idle"
    /\ request = [engine |-> "none", explicit |-> FALSE]
    /\ live = TRUE
    /\ mine = 0 /\ others = 0
    /\ via = "none" /\ attempt = 0 /\ noWait = FALSE /\ err = NoError
    /\ failed = <<>>
    /\ answer = NoAnswer
    /\ ladders = 0
    /\ walls = [i \in {"modern", "default", "none"} |-> 0]
    /\ raced = FALSE /\ ranOut = {} /\ blocked = FALSE /\ refused = FALSE

\* The call ends.
Finish(v, by) ==
    /\ pc' = "done"
    /\ answer' = [verdict |-> v, by |-> by]

\* Somebody calls the generic engine, which begins by asking for a slot.
CallGeneric(who) ==
    /\ pc' = "waiting"
    /\ via' = who
    /\ UNCHANGED answer

\* fallbackRefused: why a failed dedicated engine must not hand over.
FallbackRefused(v, final) ==
    \/ final
    \/ request.explicit
    \/ IsBlockKind(v) /\ request.engine = "same host"

\* The registry hears of a dedicated engine's error.  classifyPacing gives a raw
\* refusal of the limiter its kind, in a new error: a mark on the old one is lost.
EngineFailed(v, final, raw) ==
    /\ refused' = (refused \/ (request.engine = "same host" /\ IsBlockKind(v)))
    /\ IF live /\ ~FallbackRefused(v, final /\ ~raw)
       THEN CallGeneric("fallback")
       ELSE Finish(v, "engine") /\ UNCHANGED via

\* The registry refuses the URL: its address, or a name that does not resolve.
Reject ==
    /\ pc = "idle"
    /\ Finish("invalid", "none")
    /\ UNCHANGED <<request, live, mine, others, crawl, failed, history>>

\* The registry takes the URL and the first engine that claims it.
Dispatch ==
    /\ pc = "idle"
    /\ request' \in [engine : Engines, explicit : BOOLEAN]
    /\ CASE request'.engine = "none" -> CallGeneric("registry")
         [] request'.engine = "same host" -> pc' = "queued" /\ UNCHANGED <<via, answer>>
         [] request'.engine = "other host" -> pc' = "engine" /\ UNCHANGED <<via, answer>>
         [] request'.engine = "twitter" ->
              pc' \in {"resolving", "sources"} /\ UNCHANGED <<via, answer>>
    /\ UNCHANGED <<live, mine, others, attempt, noWait, err, failed, history>>

\* The caller hangs up, or its deadline comes.
HangUp ==
    /\ pc \notin {"idle", "done"}
    /\ live /\ live' = FALSE
    /\ UNCHANGED <<pc, request, mine, others, crawl, failed, answer, history>>

\* Another call takes a slot of the page's host, or gives one back.
OtherTakes ==
    /\ mine + others < Slots
    /\ others' = others + 1
    /\ UNCHANGED <<pc, request, live, mine, crawl, failed, answer, history>>

OtherReleases ==
    /\ others > 0
    /\ others' = others - 1
    /\ UNCHANGED <<pc, request, live, mine, crawl, failed, answer, history>>

-----------------------------------------------------------------------------
(* A dedicated engine.                                                     *)

\* An engine that reads the page's own host gets its slot.
EngineEnters ==
    /\ pc = "queued"
    /\ mine + others < Slots
    /\ mine' = 1
    /\ pc' = "engine"
    /\ UNCHANGED <<request, live, others, crawl, failed, answer, history>>

\* Its slot would come too late (classifyPacing gives the raw error its kind), or
\* its caller is gone.
EngineRefused ==
    /\ pc = "queued"
    /\ \E v \in {"quota"} \cup (IF live THEN {} ELSE {"gone"}) : EngineFailed(v, FALSE, v = "quota")
    /\ UNCHANGED <<request, live, mine, others, attempt, noWait, err, failed, ladders,
                   walls, raced, ranOut, blocked>>

EngineServes ==
    /\ pc = "engine"
    /\ mine' = 0
    /\ Finish("document", "engine")
    /\ UNCHANGED <<request, live, others, crawl, failed, history>>

\* Faulty: hands over before its deferred release has run.
EngineErrsHolding ==
    /\ pc = "engine"
    /\ \E v \in {"block", "rate", "quota", "not found", "fault", "timeout"}, final \in BOOLEAN :
         EngineFailed(v, final, FALSE)
    /\ UNCHANGED <<request, live, mine, others, attempt, noWait, err, failed, ladders,
                   walls, raced, ranOut, blocked>>

\* The engine returns an error of its own, which it may have marked final, and the
\* slot with it.  Its own timeout may come before the caller's.
EngineErrs ==
    /\ pc = "engine"
    /\ mine' = 0
    /\ \E v \in {"block", "rate", "quota", "not found", "fault", "timeout"}, final \in BOOLEAN :
         EngineFailed(v, final, FALSE)
    /\ UNCHANGED <<request, live, others, attempt, noWait, err, failed, ladders,
                   walls, raced, ranOut, blocked>>

-----------------------------------------------------------------------------
(* The Twitter engine.                                                     *)

\* resolveShortLink: the link leads to a post, elsewhere, or nowhere.
LinkToPost ==
    /\ pc = "resolving"
    /\ pc' = "sources"
    /\ UNCHANGED <<request, live, mine, others, crawl, failed, answer, history>>

LinkElsewhere ==
    /\ pc = "resolving"
    /\ CallGeneric("link")
    /\ UNCHANGED <<request, live, mine, others, attempt, noWait, err, failed, history>>

LinkFails ==
    /\ pc = "resolving"
    /\ \/ EngineFailed("invalid", TRUE, FALSE)
       \/ \E v \in {"rate", "quota", "fault", "timeout"} : EngineFailed(v, FALSE, FALSE)
    /\ UNCHANGED <<request, live, mine, others, attempt, noWait, err, failed, ladders,
                   walls, raced, ranOut, blocked>>

SaidNotFound(attempts, source) ==
    \E i \in DOMAIN attempts : attempts[i].source = source /\ attempts[i].verdict = "not found"

\* chainError.notFound: FxTwitter and another say so.
NotFound(attempts) ==
    /\ SaidNotFound(attempts, "fxtwitter")
    /\ \E s \in {"syndication", "vxtwitter", "crawl4ai"} : SaidNotFound(attempts, s)

\* chainError.classify: gone, refused by everyone (429 before the rest), or what
\* the last one said.
Classify(attempts) ==
    LET said == {attempts[i].verdict : i \in DOMAIN attempts}
    IN  IF NotFound(attempts) THEN "not found"
        ELSE IF \A v \in said : IsBlockKind(v)
             THEN IF "rate" \in said THEN "rate"
                  ELSE attempts[1].verdict
        ELSE IF attempts[Len(attempts)] = [source |-> "crawl4ai", verdict |-> "not found"]
             THEN "not found"
        ELSE IF attempts[Len(attempts)].verdict = "not found" THEN "fault"
        ELSE attempts[Len(attempts)].verdict

\* The next source has the post, or the cache has.
SourceServes ==
    /\ pc = "sources"
    /\ Finish("document", "engine")
    /\ UNCHANGED <<request, live, mine, others, crawl, failed, history>>

\* The last source has failed: crawlPost gives up, or renders the post's page.
SourcesExhausted(attempts) ==
    IF NotFound(attempts) \/ request.explicit
    THEN EngineFailed(Classify(attempts), TRUE, FALSE)
    ELSE CallGeneric("twitter") /\ UNCHANGED refused

\* A source fails, and fetchBundle goes on to the next unless the caller is gone.
\* Another block kind stands where "block" does, a timeout where "fault" does.
SourceFails ==
    /\ pc = "sources"
    /\ \E v \in {"not found", "rate", "block", "fault"} :
         LET attempts == Append(failed, [source |-> Sources[Len(failed) + 1], verdict |-> v])
         IN  IF ~live
             THEN EngineFailed("gone", FALSE, FALSE) /\ UNCHANGED failed
             ELSE /\ failed' = attempts
                  /\ IF Len(attempts) < Len(Sources)
                     THEN UNCHANGED <<pc, via, answer, refused>>
                     ELSE SourcesExhausted(attempts)
    /\ UNCHANGED <<request, live, mine, others, attempt, noWait, err, ladders,
                   walls, raced, ranOut, blocked>>

-----------------------------------------------------------------------------
(* The generic engine.                                                     *)

\* Faulty: the registry gets to hear an error it may act on.
AnsweredOpen(v) ==
    CASE via = "twitter" ->
           LET attempts == Append(failed, [source |-> "crawl4ai", verdict |-> v])
           IN  EngineFailed(Classify(attempts), FALSE, FALSE)
      [] via = "link" -> EngineFailed(v, TRUE, v = "quota")
      [] OTHER -> Finish(v, "generic") /\ UNCHANGED <<via, refused>>

\* The generic engine's error goes back to whoever called it.  The Twitter engine
\* marks it final, and after a post's sources adds it to their errors first.
Answered(v) ==
    CASE via = "twitter" ->
           LET attempts == Append(failed, [source |-> "crawl4ai", verdict |-> v])
           IN  EngineFailed(Classify(attempts), TRUE, FALSE)
      [] via = "link" -> EngineFailed(v, TRUE, v = "quota")
      [] OTHER -> Finish(v, "generic") /\ UNCHANGED <<via, refused>>

\* The generic engine returns, and its slot with it; what it held in its variables is
\* gone.  The Twitter engine takes a page that holds no post for a failure.
Return(v) ==
    /\ mine' = 0
    /\ attempt' = 0 /\ noWait' = FALSE /\ err' = NoError
    /\ \/ v # "document" /\ Answered(v)
       \/ v = "document" /\ Finish(v, "generic") /\ UNCHANGED <<via, refused>>
       \/ v = "document" /\ via = "twitter" /\ Answered("thin")

\* A rung begins.
Climb(rung) ==
    /\ pc' = rung
    /\ attempt' = 1
    /\ UNCHANGED <<mine, via, answer, refused>>

\* The slot is there.  The URL's path says whether it may be raw text or a PDF.
Wait ==
    /\ pc = "waiting"
    /\ mine + others < Slots
    /\ mine' = 1
    /\ pc' \in {"raw text", "pdf", "base"}
    /\ attempt' = 1
    /\ ladders' = ladders + 1
    /\ UNCHANGED <<request, live, others, noWait, err, via, failed, answer,
                   walls, raced, ranOut, blocked, refused>>

\* The slot would come too late, or the caller is gone.  The error is raw, and a
\* chain of sources reads a raw error as a fault.
Refused ==
    /\ pc = "waiting"
    /\ \E v \in {"quota"} \cup (IF live THEN {} ELSE {"gone"}) :
         Answered(IF via = "twitter" THEN "fault" ELSE v)
    /\ UNCHANGED <<request, live, mine, others, attempt, noWait, err, failed, ladders,
                   walls, raced, ranOut, blocked>>

\* A direct GET of what may be raw text finds some.
RawServes ==
    /\ pc \in {"raw text", "rescue"}
    /\ Return("document")
    /\ UNCHANGED <<request, live, others, failed, ladders, walls, raced, ranOut, blocked>>

\* It finds none, and the browser is asked.
RawDeclines ==
    /\ pc = "raw text"
    /\ \E rung \in {"pdf", "base"} : Climb(rung)
    /\ UNCHANGED <<request, live, others, noWait, err, failed, ladders, walls, raced, ranOut, blocked>>

\* The steps that may follow the base rung, in the order Crawl considers them.
Order == <<"no_wait", "networkidle", "alt_fingerprint", "no_selector", "rescue", "probe">>

\* Does this step have a remedy for what an attempt has come to?
Qualifies(step, o) ==
    \/ step = "no_wait" /\ "wait" \in o.says
    \/ step = "networkidle" /\ "navigating" \in o.says
    \/ step = "alt_fingerprint" /\ Agent /\ IsBlock(o.kind) /\ o.kind # "challenge"
    \/ step = "no_selector" /\ Selector /\ o.kind = "thin"
    \/ step = "rescue" /\ IsRescuable(o.kind)
    \/ step = "probe" /\ (IsRescuable(o.kind) \/ "download" \in o.says)

\* Crawl goes on from step i of Order with the outcome o.
GoOn(i, o) ==
    LET ahead == {j \in i + 1..Len(Order) : Qualifies(Order[j], o)}
    IN  IF o.kind = "document" \/ ~live \/ ahead = {}
        THEN Return(o.kind)
        ELSE /\ Climb(Order[Min(ahead)]) /\ err' = o
             /\ noWait' = (noWait \/ Order[Min(ahead)] = "no_wait")

\* Faulty: a failed try as someone else replaces the error.
KeptOverwritten(o) == o

\* What stands after the try as someone else: a document or the block.
Kept(o) == IF o.kind = "document" THEN o ELSE err

\* The remedy that the error's own words call for replaces the error, a block too.
Replaced ==
    \/ pc = "networkidle" /\ "navigating" \in err.says
    \/ pc = "pdf_retry" /\ "download" \in err.says

\* A rung has come to an end.
Conclude(o) ==
    /\ ranOut' = IF "wait" \in o.says THEN ranOut \cup {pc} ELSE ranOut
    /\ blocked' = (IsBlock(o.kind) \/ (blocked /\ ~Replaced))
    /\ CASE pc = "pdf" -> IF o.kind = "document" \/ ~live \/ IsBlock(o.kind)
                          THEN Return(o.kind)
                          ELSE Climb("base") /\ UNCHANGED <<noWait, err>>
         [] pc = "base" -> GoOn(0, o)
         [] pc = "no_wait" -> GoOn(1, o)
         [] pc = "networkidle" -> GoOn(2, o)
         [] pc = "alt_fingerprint" -> GoOn(3, Kept(o))
         [] pc = "no_selector" -> GoOn(4, o)
         [] pc = "pdf_retry" -> Return(o.kind)
    /\ UNCHANGED <<request, live, others, failed, ladders>>

MeetsWall(o) ==
    IF IsBlock(o.kind)
    THEN /\ walls' = [walls EXCEPT ![Identity(pc)] = @ + 1]
         /\ raced' = (raced \/ "navigating" \in o.says)
    ELSE UNCHANGED <<walls, raced>>

\* crawl4ai answers with a status the client does not retry.
Settles ==
    /\ pc \in Rungs
    /\ \E o \in Settled(pc) : MeetsWall(o) /\ Conclude(o)

\* Faulty: no veto, so the attempt is made again.
VetoesNot ==
    /\ pc \in Rungs
    /\ \E o \in Vetoed :
         /\ MeetsWall(o)
         /\ IF attempt < MaxAttempts
            THEN attempt' = attempt + 1
                 /\ UNCHANGED <<pc, request, live, mine, others, noWait, err, via, failed, answer,
                                ladders, ranOut, blocked, refused>>
            ELSE Conclude(o)

\* It answers with a 5xx that names its block verdict: RetryableStatus vetoes.
Vetoes ==
    /\ pc \in Rungs
    /\ \E o \in Vetoed : MeetsWall(o) /\ Conclude(o)

\* It answers with another retryable status or not at all, and there is an attempt
\* left once the backoff is over.
Retries ==
    /\ pc \in Rungs
    /\ live /\ attempt < MaxAttempts
    /\ attempt' = attempt + 1
    /\ UNCHANGED <<pc, request, live, mine, others, noWait, err, via, failed, answer, history>>

\* No attempt is left: the last error stands, as the engine classifies it.
GivesUp ==
    /\ pc \in Rungs
    /\ attempt = MaxAttempts
    /\ UNCHANGED <<walls, raced>>
    /\ \E o \in Retryable : Conclude(o)

\* The context dies during an attempt or a backoff.
Aborts ==
    /\ pc \in Rungs
    /\ ~live
    /\ UNCHANGED <<walls, raced>>
    /\ Conclude([kind |-> "gone", says |-> {}])

\* The rescue or the probe finds nothing it can use; the error stands.
RescueFails ==
    /\ pc = "rescue"
    /\ GoOn(5, err)
    /\ UNCHANGED <<request, live, others, failed, ladders, walls, raced, ranOut, blocked>>

ProbeFails ==
    /\ pc = "probe"
    /\ Return(err.kind)
    /\ UNCHANGED <<request, live, others, failed, ladders, walls, raced, ranOut, blocked>>

\* The page is a PDF behind a URL that does not say so.
ProbeFindsPdf ==
    /\ pc = "probe"
    /\ Climb("pdf_retry")
    /\ UNCHANGED <<request, live, others, noWait, err, failed, ladders,
                   walls, raced, ranOut, blocked>>

-----------------------------------------------------------------------------

EngineStep == EngineEnters \/ EngineRefused \/ EngineServes \/ EngineErrs

TwitterStep ==
    LinkToPost \/ LinkElsewhere \/ LinkFails \/ SourceServes \/ SourceFails

GenericStep ==
    \/ Wait \/ Refused \/ RawServes \/ RawDeclines
    \/ Settles \/ Vetoes \/ Retries \/ GivesUp \/ Aborts
    \/ RescueFails \/ ProbeFails \/ ProbeFindsPdf

Next ==
    \/ Reject \/ Dispatch \/ HangUp \/ OtherTakes \/ OtherReleases
    \/ EngineStep \/ TwitterStep \/ GenericStep

Spec == Init /\ [][Next]_vars

\* Every upstream answers or the client's timeout does for it, so the call goes
\* on.  The semaphore is a channel, which serves its senders in order: a slot that
\* comes free again and again is this call's in the end.  Nobody need refuse it.
Fairness ==
    /\ WF_vars(EngineServes \/ EngineErrs \/ TwitterStep \/ (GenericStep /\ pc \in Ladder))
    /\ WF_vars(OtherReleases)
    /\ SF_vars(EngineEnters) /\ SF_vars(Wait)

FairSpec == Spec /\ Fairness

-----------------------------------------------------------------------------
(* Properties.                                                             *)

\* Every variable has its type, and the host's slots are not oversubscribed.
TypeOK ==
    /\ pc \in States
    /\ request \in [engine : Engines, explicit : BOOLEAN]
    /\ live \in BOOLEAN
    /\ mine \in 0..1 /\ others \in 0..Slots /\ mine + others <= Slots
    /\ via \in {"none", "registry", "fallback", "twitter", "link"}
    /\ attempt \in 0..MaxAttempts /\ noWait \in BOOLEAN
    /\ err \in Outcomes \cup {NoError}
    /\ failed \in Seq([source : {"fxtwitter", "syndication", "vxtwitter"}, verdict : Verdicts])
    /\ answer \in [verdict : Verdicts \cup {"none"}, by : {"none", "engine", "generic"}]
    /\ ladders \in Nat /\ ranOut \subseteq Rungs
    /\ walls \in [{"modern", "default", "none"} -> Nat] /\ raced \in BOOLEAN
    /\ blocked \in BOOLEAN /\ refused \in BOOLEAN

\* One call fetches through the generic engine at most once: an engine that rendered
\* the page itself never has the registry render it again.
OneLadder == ladders <= 1

\* Once the page's own host has refused the dedicated engine, or our pacing has on
\* its behalf, the call sends no browser to that host.
HostLeftAlone == refused => pc \notin Generic

\* No identity meets the same wall twice: a block that crawl4ai answers or names
\* with its marker is never driven again, by the client's retries or by another
\* rung.  The one exception is a block whose own error says that the page is
\* navigating: its remedy is the same identity once more, which may meet the wall
\* again, then or (thin by then) without the selector, but not a third time.  (One
\* that a 5xx words otherwise is not known for a block until the retries are over.)
WallMetOnce == \A i \in DOMAIN walls : walls[i] <= IF i = "modern" /\ raced THEN 2 ELSE 1

\* A call waits out at most one challenge wait, whatever rungs come after it, but
\* for one that runs out on the retry for a page that is navigating and whose message
\* is the content gate's too: the rung without the selector waits again.
WaitRunsOutOnce ==
    \A a, b \in ranOut : a = b \/ {a, b} = {"networkidle", "no_selector"}

\* A caller that is still there and gets no document hears of the block that stands.
\* A block falls only to a document or to the remedy its own error's words call for
\* (navigating, a download): the try as someone else, the rescue and the probe that
\* finds nothing never hide it behind a weaker error.
VerdictKept ==
    pc = "done" /\ live /\ blocked /\ via # "twitter" /\ answer.verdict # "document"
        => IsBlock(answer.verdict)

\* A client that parses the format it asked for gets no rendered page in the place
\* of the dedicated engine's document.  (A short link that leads to no post has no
\* such document.)
ExplicitFormatKept ==
    request.explicit /\ request.engine # "none" /\ answer.verdict = "document" /\ via # "link"
        => answer.by = "engine"

\* One call costs the page's host one fetch at most: one ladder, and none once the
\* host or our pacing has refused.
HostSpared == TypeOK /\ OneLadder /\ HostLeftAlone

\* The ladder does not repeat what has just failed, but where the failure asks for it.
NoWallTwice == WallMetOnce /\ WaitRunsOutOnce

\* The caller gets the best answer the call has come to, in the format it asked for.
AnswerKept == VerdictKept /\ ExplicitFormatKept

\* Every call that is taken is answered.
CallAnswered == pc # "idle" ~> pc = "done"
=============================================================================
