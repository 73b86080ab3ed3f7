---------------------------- MODULE RedditCrawl ----------------------------
(***************************************************************************)
(* One Reddit crawl (internal/engine/reddit): the crawl slot, the share    *)
(* link, the thread or listing, the rounds that expand its collapsed       *)
(* branches, and the caps on what is returned; every request through the   *)
(* method chain, one session per method, the request quota, and either a   *)
(* credential (direct.go) or a page in a browser (html.go).                *)
(*                                                                         *)
(* A comment is an id of a fixed tree.  Reddit and the browser answer      *)
(* anything a tree allows; other crawls hold methods, drop the shared      *)
(* token and compete for slots (a wait here).  When holds end and what is  *)
(* shared between pods is RedditChain's subject, pacing DomainLimiter's.   *)
(***************************************************************************)
EXTENDS Integers, SequencesExt, FiniteSetsExt, Sublists

CONSTANTS
    Order,      \* comment ids, a parent before its replies
    Parent,     \* what each replies to, "post" or an id
    Removed,    \* comments deleted or removed by a moderator
    Chains,     \* configured methods, in order
    Requests,   \* crawls a caller may ask for
    MaxBatch,   \* ids in one morechildren request
    MaxInPage   \* requests a page sends itself

Ids == Range(Order)
KnownMethods == {"client_id", "session", "browser"}

ASSUME CrawlAssumption ==
    /\ Order \in Seq(Ids) /\ IsInjective(Order) /\ "post" \notin Ids
    /\ \A i \in DOMAIN Order : Parent[Order[i]] \in {"post"} \cup {Order[j] : j \in 1..(i - 1)}
    /\ Removed \subseteq Ids
    /\ \A c \in Chains : c # <<>> /\ c \in Seq(KnownMethods)
    /\ Requests \subseteq
         [page : {"share", "thread", "listing"}, rounds : Nat, maxTop : Nat, maxComments : Nat]
    /\ MaxBatch \in Nat \ {0} /\ MaxInPage \in Nat

VARIABLES
    chain,      \* methods of the deployment
    request,    \* page, rounds, maxTop and maxComments asked for
    stage,      \* what the crawl is doing
    live,       \* neither canceled nor past its deadline
    held,       \* methods held
    token,      \* the client's cached token: "none", "valid", or "stale" at Reddit
    op,         \* the call on the chain: "resolve", "thread", "listing", "more"
    left,       \* candidates of this call not yet given up
    again,      \* retries spent on this candidate: "401", "403"
    slots,      \* slots this crawl holds, of the "crawl" and "quota" limiters
    owed,       \* in-page requests not yet booked in the quota
    thread,     \* comments and gaps of the document
    batch,      \* ids of the round in flight
    askedFor,   \* history: ids asked for, round by round
    unopened,   \* history: branches a page asked for in vain, gone or refused
    round,      \* rounds done
    partial,    \* why the document is partial, or "no"
    outcome     \* "", "ok" or a kind of failure

crawl == <<chain, request>>
chainCall == <<op, left, again>>
document == <<thread, batch, askedFor, unopened, round, partial>>
crawlVars == <<crawl, stage, live, held, token, chainCall, slots, owed, document, outcome>>

-----------------------------------------------------------------------------
(* Comments and gaps.                                                      *)

NoThread == [comments |-> <<>>, gaps |-> <<>>]
NoBranch == [gone |-> {}, refused |-> {}]
Gap(type, parent, children) == [type |-> type, parent |-> parent, children |-> children]

\* walkChildren: the comments of an answer, skipping the removed but not their
\* replies, and a gap for the replies it leaves out of each comment: ids to ask
\* for, a link to continue at, or, on a page, a branch without ids.
Walk(shown, hidden, links, ids) ==
    LET parents == Filter(<<"post">> \o Order, {Parent[i] : i \in hidden})
        gap(p) == IF p \in links THEN Gap("continue", p, <<>>)
                  ELSE Gap("more", p,
                           IF ids THEN Filter(Order, {i \in hidden : Parent[i] = p}) ELSE <<>>)
    IN  [comments |-> Filter(Order, shown \ Removed),
         gaps |-> [i \in DOMAIN parents |-> gap(parents[i])]]

\* What Reddit may show of the branches that start at the given ids.
Shown(front) ==
    {s \in SUBSET Ids : \A i \in s : i \in front \/ Parent[i] \in s}
Below(shown) == {i \in Ids \ shown : Parent[i] \in shown}

Roots == {i \in Ids : Parent[i] = "post"}

Hidden(shown) == Below(shown) \cup (Roots \ shown)

\* ParseThread of a direct answer.
Threads ==
    UNION {{Walk(s, Hidden(s), l, TRUE) : l \in {{}, {"post"}, s}} : s \in Shown(Roots)}

\* The replies behind branches, each known by the comment it hangs from.
RepliesOf(branches) == {i \in Ids : Parent[i] \in branches}
Branches(shown) == {Parent[i] : i \in Hidden(shown)}

\* ParseThread of a rebuilt page: a branch the page has asked for is done with,
\* whatever came back, and leaves no gap.
PageThread(shown, asked) == Walk(shown, Hidden(shown) \ RepliesOf(asked), {}, FALSE)

\* ParseMoreChildren: an id Reddit does not answer for leaves no gap.
Answers ==
    [front \in SUBSET Ids |->
        UNION {{Walk(s, Below(s), l, TRUE) : l \in {{}, front}} : s \in Shown(front)}]

Expandable(g) == g.type = "more" /\ g.children # <<>>

\* The ids of the expandable gaps before the i-th.
Before(gaps, i) ==
    LET ids[k \in 0..Len(gaps)] ==
            IF k = 0 THEN <<>>
            ELSE ids[k - 1] \o (IF Expandable(gaps[k]) THEN gaps[k].children ELSE <<>>)
    IN  ids[i - 1]

\* The ids of the next round, and the gaps they come from.
BatchOf(gaps) ==
    LET all == Before(gaps, Len(gaps) + 1) IN SubSeq(all, 1, Min({MaxBatch, Len(all)}))

\* Faulty: a gap is used when all of its ids fit in the batch.
UsedGapsWhole(gaps) ==
    {i \in DOMAIN gaps : Expandable(gaps[i]) /\ Len(Before(gaps, i + 1)) <= MaxBatch}

UsedGaps(gaps) ==
    {i \in DOMAIN gaps : Expandable(gaps[i]) /\ Len(Before(gaps, i)) < MaxBatch}

\* Faulty: a gap that was used is done with.
MergeExpandedDropsUsed(t, new, ids) ==
    [comments |-> t.comments \o Filter(new.comments, Ids \ Range(t.comments)),
     gaps |-> SelectSeq(t.gaps, LAMBDA g : ~\E i \in UsedGaps(t.gaps) : t.gaps[i] = g) \o new.gaps]

\* MergeExpanded: new comments once each; the ids asked for leave the gaps that
\* were used, and a gap left without ids goes.
MergeExpanded(t, new, ids) ==
    LET used == UsedGaps(t.gaps)
        rest == [i \in DOMAIN t.gaps |->
                    IF i \in used
                    THEN [t.gaps[i] EXCEPT !.children = Filter(@, Ids \ Range(ids))]
                    ELSE t.gaps[i]]
        keep == Filter(rest, {g \in Range(rest) : g.type # "more" \/ g.children # <<>>})
    IN  [comments |-> t.comments \o Filter(new.comments, Ids \ Range(t.comments)),
         gaps |-> keep \o new.gaps]

-----------------------------------------------------------------------------
(* The caps on the document.                                               *)

\* A comment counts as top-level for capComments when its parent was not read.
Depth(comments, i) ==
    LET depth[c \in Ids] == IF Parent[c] \in Range(comments) THEN depth[Parent[c]] + 1 ELSE 0
    IN  depth[i]

\* capComments: the n first comments breadth first, in their own order.
CapComments(comments, n) ==
    LET At(c) == CHOOSE i \in DOMAIN comments : comments[i] = c
        Rank(c) == {d \in Range(comments) :
                      \/ Depth(comments, d) < Depth(comments, c)
                      \/ /\ Depth(comments, d) = Depth(comments, c)
                         /\ At(d) < At(c)}
    IN  IF n = 0 THEN comments
        ELSE Filter(comments, {c \in Range(comments) : Cardinality(Rank(c)) < n})

\* Faulty: a reply whose chain of parents is broken goes with the dropped roots.
CapTopLevelStrict(comments, n) ==
    LET roots == Filter(comments, Roots)
        Kept == Range(SubSeq(roots, 1, Min({n, Len(roots)})))
        rootKept[c \in Ids] ==
            IF Parent[c] = "post" THEN c \in Kept
            ELSE Parent[c] \in Range(comments) /\ rootKept[Parent[c]]
    IN  IF n = 0 \/ Len(roots) <= n THEN comments
        ELSE Filter(comments, {c \in Range(comments) : rootKept[c]})

\* capTopLevel: the n first threads with all their replies, and whatever hangs
\* below a comment that was not read.
CapTopLevel(comments, n) ==
    LET roots == Filter(comments, Roots)
        Kept == Range(SubSeq(roots, 1, Min({n, Len(roots)})))
        rootKept[c \in Ids] ==
            IF Parent[c] = "post" THEN c \in Kept
            ELSE Parent[c] \in Range(comments) => rootKept[Parent[c]]
    IN  IF n = 0 \/ Len(roots) <= n THEN comments
        ELSE Filter(comments, {c \in Range(comments) : rootKept[c]})

Capped(comments) == CapComments(CapTopLevel(comments, request.maxTop), request.maxComments)

-----------------------------------------------------------------------------
(* The crawl.                                                              *)

CrawlInit ==
    /\ chain \in Chains /\ request \in Requests
    /\ stage = "pace" /\ live = TRUE
    /\ held \in SUBSET Range(chain)
    /\ token \in IF "client_id" \in Range(chain) THEN {"none", "valid", "stale"} ELSE {"none"}
    /\ op = "none" /\ left = <<>> /\ again = {}
    /\ slots = {} /\ owed = 0
    /\ thread = NoThread /\ batch = <<>> /\ askedFor = {} /\ unopened = NoBranch /\ round = 0
    /\ partial = "no" /\ outcome = ""

\* The crawl returns, its slots given back.
Finish(o) ==
    /\ stage' = "done" /\ outcome' = o
    /\ slots' = {} /\ op' = "none" /\ left' = <<>> /\ again' = {} /\ batch' = <<>>

\* The next call on the chain.
Ask(o) == stage' = "choose" /\ op' = o /\ left' = <<>> /\ again' = {}

\* The crawl slot, before anything is opened.
Pace ==
    /\ stage = "pace"
    /\ \/ /\ live /\ "crawl" \notin slots
          /\ slots' = slots \cup {"crawl"}
          /\ Ask(CASE request.page = "share" -> "resolve"
                   [] request.page = "thread" -> "thread"
                   [] request.page = "listing" -> "listing")
          /\ UNCHANGED <<batch, outcome>>
       \/ live /\ Finish("quota_exhausted")
       \/ ~live /\ Finish("timeout")
    /\ UNCHANGED <<crawl, live, held, token, owed, thread, askedFor, unopened, round, partial>>

\* Faulty: only a first round that fails is reported.
GiveUpFirstRound(kind) ==
    IF op = "more"
    THEN /\ partial' = IF round = 0 THEN kind ELSE partial
         /\ stage' = "cap" /\ op' = "none" /\ left' = <<>> /\ again' = {} /\ batch' = <<>>
         /\ slots' = slots \ {"quota"}
         /\ UNCHANGED outcome
    ELSE Finish(kind) /\ UNCHANGED partial

\* The call on the chain failed: a round ends the expansion and says why, any
\* other call fails the crawl.
GiveUp(kind) ==
    IF op = "more"
    THEN /\ partial' = kind
         /\ stage' = "cap" /\ op' = "none" /\ left' = <<>> /\ again' = {} /\ batch' = <<>>
         /\ slots' = slots \ {"quota"}
         /\ UNCHANGED outcome
    ELSE Finish(kind) /\ UNCHANGED partial

\* runOn: the methods not held, without the browser for a round.
Choose ==
    /\ stage = "choose"
    /\ LET usable == IF op = "more" THEN KnownMethods \ {"browser"} ELSE KnownMethods
           candidates == Filter(chain, usable \ held)
       IN  IF candidates = <<>>
           THEN GiveUp("quota_exhausted")
           ELSE /\ left' = candidates /\ stage' = "admit"
                /\ UNCHANGED <<op, again, slots, batch, partial, outcome>>
    /\ UNCHANGED <<crawl, live, held, token, owed, thread, askedFor, unopened, round>>

Method == Head(left)

\* The failures after which another method is asked.
Failover == {"http_403", "http_429", "captcha", "bot_block", "upstream_error"}

\* A method failed: one another method may make good is held, unless it is the
\* last and the fault no verdict on it, and the next is asked while there is time.
Fail(kind, final) ==
    LET on == kind \in Failover /\ ~final IN
    /\ held' = IF on /\ (kind # "upstream_error" \/ Len(left) > 1) THEN held \cup {Method} ELSE held
    /\ IF on /\ Len(left) > 1 /\ live
       THEN /\ left' = Tail(left) /\ again' = {} /\ stage' = "admit"
            /\ slots' = slots \ {"quota"}
            /\ UNCHANGED <<op, batch, partial, outcome>>
       ELSE GiveUp(kind)

\* Session.admit: one slot of the quota; a direct client then needs its
\* credential, a browser its page.  The share link carries no token.
Admit ==
    /\ stage = "admit"
    /\ \/ /\ live /\ "quota" \notin slots
          /\ slots' = slots \cup {"quota"}
          /\ stage' = IF Method = "client_id" /\ op # "resolve" THEN "token" ELSE "flight"
          /\ UNCHANGED <<held, op, left, again, batch, partial, outcome>>
       \/ Fail(IF live THEN "quota_exhausted" ELSE "timeout", TRUE)
    /\ UNCHANGED <<crawl, live, token, owed, thread, askedFor, unopened, round>>

-----------------------------------------------------------------------------
(* A credential.                                                           *)

Direct == Method # "browser"

\* accessToken: the cached token, or a new one, or none for a client id refused
\* or a request without an answer.
Token ==
    /\ stage = "token"
    /\ \/ /\ IF token = "none" THEN live /\ token' = "valid" ELSE UNCHANGED token
          /\ stage' = "flight"
          /\ UNCHANGED <<held, op, left, again, slots, batch, partial, outcome>>
       \/ /\ token = "none"
          /\ \/ live /\ Fail("http_403", FALSE)
             \/ Fail("upstream_error", FALSE)    \* a dead context included
          /\ UNCHANGED token
    /\ UNCHANGED <<crawl, live, owed, thread, askedFor, unopened, round>>

\* Faulty: nothing counts the 401s.
UnauthorizedAgain ==
    /\ stage = "flight" /\ Method = "client_id" /\ op # "resolve"
    /\ token # "valid" /\ live
    /\ token' = "none" /\ stage' = "token"
    /\ UNCHANGED <<crawl, live, held, chainCall, slots, owed, document, outcome>>

\* get: a 401 drops the token, whoever has put it there, and asks once more with
\* a new one.
Unauthorized ==
    /\ stage = "flight" /\ Method = "client_id" /\ op # "resolve"
    /\ token # "valid" /\ live
    /\ IF "401" \in again
       THEN Fail("error", TRUE) /\ UNCHANGED token
       ELSE /\ token' = "none" /\ again' = again \cup {"401"} /\ stage' = "token"
            /\ UNCHANGED <<held, op, left, slots, batch, partial, outcome>>
    /\ UNCHANGED <<crawl, live, owed, thread, askedFor, unopened, round>>

\* fetchDirect: one 403 without a reason is asked again, under the same slot.
Forbidden ==
    /\ stage = "flight" /\ Direct /\ op # "resolve" /\ live
    /\ IF "403" \in again
       THEN Fail("http_403", FALSE)
       ELSE /\ again' = {"403"}
            /\ stage' = IF Method = "client_id" THEN "token" ELSE "flight"
            /\ UNCHANGED <<held, op, left, slots, batch, partial, outcome>>
    /\ UNCHANGED <<crawl, live, token, owed, thread, askedFor, unopened, round>>

-----------------------------------------------------------------------------
(* Answers.                                                                *)

\* The engine goes on with what the chain has returned.
Expand(t, done, why) ==
    /\ thread' = t /\ round' = done /\ partial' = why
    /\ slots' = slots \ {"quota"} /\ left' = <<>> /\ again' = {}
    /\ IF done < request.rounds /\ BatchOf(t.gaps) # <<>>
       THEN /\ stage' = "choose" /\ op' = "more"
            /\ batch' = BatchOf(t.gaps)
            /\ askedFor' = askedFor \cup Range(BatchOf(t.gaps))
       ELSE stage' = "cap" /\ op' = "none" /\ batch' = <<>> /\ UNCHANGED askedFor
    /\ UNCHANGED outcome

\* A clean answer: the method stays up, or is held because the budget is spent.
Succeed(spent) == held' = IF spent THEN held \cup {Method} ELSE held

\* ResolveShareURL: a link that leads to no thread ends the crawl.
Resolved ==
    /\ stage = "flight" /\ op = "resolve" /\ live
    /\ \/ /\ Ask("thread") /\ slots' = slots \ {"quota"}
          /\ Succeed(FALSE) /\ UNCHANGED <<batch, partial, outcome>>
       \/ Fail("error", TRUE)
       \/ Direct /\ Fail("http_403", FALSE)
    /\ UNCHANGED <<crawl, live, token, owed, thread, askedFor, unopened, round>>

\* A token is good when Reddit answers for it.
Authorized == Method = "client_id" /\ op # "resolve" => token = "valid"

ThreadRead ==
    /\ stage = "flight" /\ op = "thread" /\ Direct /\ Authorized
    /\ \E spent \in BOOLEAN, t \in Threads : Succeed(spent) /\ Expand(t, 0, "no")
    /\ UNCHANGED <<crawl, live, token, owed, unopened>>

\* expandGaps, a round answered: an answer without anything new ends the
\* expansion, whatever other gaps there are.
RoundRead ==
    /\ stage = "flight" /\ op = "more" /\ Authorized
    /\ \E spent \in BOOLEAN, new \in Answers[Range(batch)] :
         /\ Succeed(spent)
         /\ IF new = NoThread
            THEN /\ thread' = MergeExpanded(thread, new, batch) /\ round' = round + 1
                 /\ stage' = "cap" /\ op' = "none" /\ left' = <<>> /\ again' = {} /\ batch' = <<>>
                 /\ slots' = slots \ {"quota"}
                 /\ UNCHANGED <<askedFor, partial, outcome>>
            ELSE Expand(MergeExpanded(thread, new, batch), round + 1, partial)
    /\ UNCHANGED <<crawl, live, token, owed, unopened>>

\* A body that does not parse.
Unparsed ==
    /\ stage = "flight" /\ Direct /\ Authorized /\ op # "resolve"
    /\ GiveUp("parse_error")
    /\ UNCHANGED <<crawl, live, held, token, owed, thread, askedFor, unopened, round>>

\* The page read, expanded as far as Reddit let it: what it sent itself is owed
\* to the quota.  A branch asked for in vain is passed over when it is gone; one
\* refused or dropped ends the expansion and makes the document partial (a 429
\* holds the method too).  A page that counts comments and shows none, nor a
\* branch, is incomplete (checkBrowserThread): all asked for in vain, or blank.
PageRead ==
    /\ stage = "flight" /\ op = "thread" /\ ~Direct
    /\ \E n \in 0..MaxInPage, s \in Shown(Roots), cut \in {"no", "http_429", "expansion_failed"} :
       \E gone, refused \in SUBSET Branches(s), blank \in BOOLEAN :
         LET t == IF blank THEN NoThread ELSE PageThread(s, gone \cup refused) IN
         /\ blank => s = {} /\ gone = {} /\ refused = {}
         /\ Cardinality(gone) + Cardinality(refused) <= n
         /\ IF cut = "no" THEN refused = {} ELSE n > 0 /\ Cardinality(refused) <= 1
         /\ owed' = owed + n
         /\ unopened' = [gone |-> gone, refused |-> refused]
         /\ Succeed(cut = "http_429")
         /\ Expand(t, 0, IF t = NoThread /\ Roots # {} THEN "browser_incomplete" ELSE cut)
    /\ UNCHANGED <<crawl, live, token>>

ListingRead ==
    /\ stage = "flight" /\ op = "listing" /\ Authorized
    /\ \/ Direct /\ partial' = "no" /\ UNCHANGED owed /\ \E spent \in BOOLEAN : Succeed(spent)
       \/ /\ ~Direct
          /\ \E n \in 0..MaxInPage : owed' = owed + n
          /\ partial' \in {"no", "http_429", "expansion_failed", "browser_incomplete"}
          /\ Succeed(partial' = "http_429")
    /\ Finish("ok")
    /\ UNCHANGED <<crawl, live, token, thread, askedFor, unopened, round>>

\* checkBrowserThread, checkBrowserListing and a page without a post: what the
\* page has sent is owed all the same.
Layout ==
    /\ stage = "flight" /\ ~Direct /\ op # "resolve"
    /\ \E n \in 0..MaxInPage : owed' = owed + n
    /\ Fail("layout", TRUE)
    /\ UNCHANGED <<crawl, live, token, thread, askedFor, unopened, round>>

\* Any other answer: Reddit's refusals, walls and faults, crawl4ai's, the end of
\* the context, and what is the same on every method.
Refused ==
    /\ stage = "flight"
    /\ \/ live /\ \E k \in Failover \ {"http_403"} : Fail(k, FALSE)
       \/ live /\ ~Direct /\ Fail("http_403", FALSE)
       \/ \E k \in {"http_403", "error", "timeout"} : Fail(k, TRUE)
       \/ ~Direct /\ \E k \in {"not_found", "bad_response"} : Fail(k, TRUE)
    /\ UNCHANGED <<crawl, live, token, owed, thread, askedFor, unopened, round>>

\* The document, capped and encoded.
Cap ==
    /\ stage = "cap"
    /\ thread' = [thread EXCEPT !.comments = Capped(@)]
    /\ Finish("ok")
    /\ UNCHANGED <<crawl, live, held, token, owed, askedFor, unopened, round, partial>>

Crawling ==
    \/ Pace \/ Choose \/ Admit \/ Token \/ Unauthorized \/ Forbidden \/ Resolved \/ ThreadRead
    \/ RoundRead \/ Unparsed \/ PageRead \/ ListingRead \/ Layout \/ Refused \/ Cap

-----------------------------------------------------------------------------
(* The surroundings.                                                       *)

\* The caller hangs up, or the engine's own deadline passes.
HangUp ==
    /\ stage # "done" /\ live
    /\ live' = FALSE
    /\ UNCHANGED <<crawl, stage, held, token, chainCall, slots, owed, document, outcome>>

\* A hold ends, or another crawl places one.
OtherHolds ==
    /\ stage # "done"
    /\ \E m \in Range(chain) : held' \in {held \cup {m}, held \ {m}}
    /\ UNCHANGED <<crawl, stage, live, token, chainCall, slots, owed, document, outcome>>

\* Another crawl renews or drops the token they share; Reddit revokes it.
OtherToken ==
    /\ stage # "done" /\ "client_id" \in Range(chain)
    /\ token' \in IF token = "none" THEN {"valid"} ELSE {"none", "stale"}
    /\ UNCHANGED <<crawl, stage, live, held, chainCall, slots, owed, document, outcome>>

\* charge: an in-page request is booked, or the wait for its slot is refused.
Charge ==
    /\ owed > 0 /\ "quota" \notin slots
    /\ owed' \in {owed - 1, 0}
    /\ UNCHANGED <<crawl, stage, live, held, token, chainCall, slots, document, outcome>>

CrawlNext == Crawling \/ HangUp \/ OtherHolds \/ OtherToken \/ Charge

\* Every wait of a crawl is bounded: by its deadline, the client's timeout, the
\* limiters' refusal, and chargeTimeout.
CrawlSpec == CrawlInit /\ [][CrawlNext]_crawlVars /\ WF_crawlVars(Crawling) /\ WF_crawlVars(Charge)

-----------------------------------------------------------------------------
(* Properties.                                                             *)

\* The types; the quota slot is held exactly while a request is on its way, the
\* crawl slot from the first to the last.
CrawlTypeOK ==
    /\ chain \in Chains /\ request \in Requests /\ live \in BOOLEAN
    /\ stage \in {"pace", "choose", "admit", "token", "flight", "cap", "done"}
    /\ held \subseteq Range(chain) /\ token \in {"none", "valid", "stale"}
    /\ op \in {"none", "resolve", "thread", "listing", "more"}
    /\ stage \in {"admit", "token", "flight"} <=> left # <<>>
    /\ again \subseteq {"401", "403"} /\ owed \in 0..MaxInPage
    /\ "quota" \in slots <=> stage \in {"token", "flight"}
    /\ "crawl" \in slots <=> stage \notin {"pace", "done"}
    /\ IsInjective(thread.comments) /\ Range(thread.comments) \subseteq Ids
    /\ round \in 0..request.rounds
    /\ stage = "done" <=> outcome # ""

\* No reply is asked for twice (engine.expandGaps and MergeExpanded), though a
\* batch may take part of a gap and answers bring new gaps: a morechildren
\* request counts against the quota.
EachAskedOnce == [][round' # round => Range(batch') \cap askedFor = {}]_crawlVars

\* A gap that may stand for a reply.
Hides(g, i) == i \in Range(g.children) \/ (g.children = <<>> /\ g.parent = Parent[i])

\* The document tells what became of each reply to a comment it shows: shown, removed,
\* asked for (told) in vain, or behind a gap that says so.
Tells(t, told) ==
    \A i \in Ids : Parent[i] \in {"post"} \cup Range(t.comments) =>
        \/ i \in Range(t.comments) \cup Removed \cup told
        \/ \E g \in Range(t.gaps) : Hides(g, i)

\* No reply is lost on the way (MergeExpanded): until it is capped, the document
\* tells of it, or is empty and says it is partial.  What a page has asked for in
\* vain is the exception: it marks a branch as done before its request
\* (threadHTMLJS), so one that is gone, or was refused, has no gap.  A branch that
\* was refused makes the document partial, for good.
Accounted ==
    /\ CrawlTypeOK
    /\ (op = "more" \/ stage = "cap") =>
          \/ Tells(thread, askedFor \cup RepliesOf(unopened.gone \cup unopened.refused))
          \/ thread = NoThread /\ partial # "no"
    /\ unopened.refused # {} => partial # "no"

\* The ancestors of a comment among those read.
Chain(c, read) ==
    LET up[i \in Ids] == {i} \cup (IF Parent[i] \in read THEN up[Parent[i]] ELSE {}) IN up[c]

\* The caps (capTopLevel, then capComments) never leave a reply without the
\* comment it answers, and below the comment cap drop whole threads only: the
\* ones past the top-level cap, never a comment of unknown root.
CapsKeep(before, after) ==
    LET read == Range(before)
        kept == Range(after)
        roots == {c \in kept : Parent[c] = "post"}
    IN  /\ \A c \in kept : Chain(c, read) \subseteq kept
        /\ (request.maxComments = 0 \/ Len(after) < request.maxComments) =>
              \A c \in read \ kept :
                 /\ Cardinality(roots) = request.maxTop /\ request.maxTop > 0
                 /\ \E r \in Chain(c, read) : Parent[r] = "post" /\ r \notin kept
CapsKeepThreads == [][stage = "cap" => CapsKeep(thread.comments, thread'.comments)]_crawlVars

\* An expansion that stops short without a reason in the document has used up its
\* rounds, has no id left to ask for, or has just been answered with nothing new;
\* and a thread once read is returned, whatever happens to its rounds.
PartialSaid ==
    [][/\ (stage # "cap" /\ stage' = "cap" /\ partial' = "no") =>
             \/ round' = request.rounds \/ BatchOf(thread'.gaps) = <<>>
             \/ op = "more" /\ round' = round + 1
       /\ (stage' = "done" /\ thread # NoThread) => outcome' = "ok"]_crawlVars

\* Every crawl ends, its slots given back and its in-page requests accounted for.
CrawlAnswered == <>[](stage = "done" /\ slots = {} /\ owed = 0)


=============================================================================
