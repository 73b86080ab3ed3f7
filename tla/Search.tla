------------------------------- MODULE Search -------------------------------
(***************************************************************************)
(* One web search: the HTTP handler (internal/transport/searchapi), the    *)
(* failover chain built by cmd/omnifeed/search.go                          *)
(* (internal/search/failover), and the two upstreams it may ask,           *)
(* internal/search/searxng and internal/search/tinyfish, each behind a     *)
(* limiter and the retrying client.                                        *)
(*                                                                         *)
(* The caller may hang up at any time, other searches compete for the      *)
(* slots, and an upstream answers anything.  A result is the form of an    *)
(* URL: forms of one page differ in what urlKey ignores.  Counters, logs   *)
(* and the text of results are left out.                                   *)
(***************************************************************************)
EXTENDS Integers, SequencesExt, FiniteSetsExt

CONSTANTS
    Urls,           \* URLs a search may find: a page, and a spelling of its address
    Limits,         \* limits a request may ask for, 0 for none
    MaxResults,     \* cap on the limit
    DefaultLimit,   \* limit of a request without one
    MinCounts,      \* Policy.MinResults, 0 for no thin trigger
    MaxHits,        \* results of one upstream answer considered
    MaxAttempts,    \* RetryConfig.MaxAttempts
    Engines,        \* engines behind SearXNG
    Critical,       \* those the operator relies on
    SiteEngines     \* those asked in a site search, {} for all

ASSUME SearchAssumption ==
    /\ Limits \cup MinCounts \subseteq Nat
    /\ MaxHits \in Nat /\ MaxResults \in Nat \ {0} /\ DefaultLimit \in Nat \ {0} /\ MaxAttempts \in Nat \ {0}
    /\ Critical \cup SiteEngines \subseteq Engines

VARIABLES
    config,     \* the deployment: chain, thin trigger, primary budget, pacing
    request,    \* the search asked for
    pc,         \* what the search is doing
    live,       \* is the caller still there?
    level,      \* which searcher of the chain is asked
    tries,      \* attempts the client has begun on it
    held,       \* searchers whose slot this search holds
    busy,       \* searchers whose slot another search holds
    answers,    \* what the searchers have answered, in order
    spent,      \* history: queries sent
    reply       \* the handler's reply

vars == <<config, request, pc, live, level, tries, held, busy, answers, spent, reply>>

-----------------------------------------------------------------------------
(* Reports of searchers.                                                   *)

\* urlKey: scheme, "www.", a trailing slash and the fragment do not tell pages apart.
UrlKey(url) == url[1]

Errors == {"invalid", "timeout", "canceled", "rate", "status", "quota", "fault", "unreadable"}

\* SearchReport, or the error that came instead.
Report(results, degraded) == [results |-> results, degraded |-> degraded, err |-> "none"]
Failure(e) == [results |-> <<>>, degraded |-> FALSE, err |-> e]

\* The first n of a list.
Cut(s, n) == SubSeq(s, 1, Min({n, Len(s)}))

\* The searchers that are configured, in the operator's order.
Searchers == {"searxng", "tinyfish"}
Chains == {c \in UNION {[1..n -> Searchers] : n \in 1..2} : IsInjective(c)}

\* siteScoped and criticalAsked: a site search asks the site engines only.
CriticalAsked(site) ==
    IF site /\ SiteEngines # {} THEN Critical \cap SiteEngines ELSE Critical

\* degradation: a critical engine failed openly, or contributed no row.
Degraded(site, rows, unresponsive) ==
    \E e \in CriticalAsked(site) : e \in unresponsive \/ e \notin rows

-----------------------------------------------------------------------------
(* The failover policy.                                                    *)

\* Policy.thinBelow
ThinBelow(limit) == IF limit > 0 /\ limit < config.min THEN limit ELSE config.min

\* Policy.Decide, for a caller that is still there: what to do with the answer
\* of a searcher that has a backup.
Decide(a, limit) ==
    IF a.err = "invalid" THEN "keep"
    ELSE IF a.err # "none" \/ a.results = <<>> THEN "replace"
    ELSE IF Len(a.results) < ThinBelow(limit) \/ a.degraded THEN "merge" ELSE "keep"

\* take: a result whose page is there already is dropped.
Take(merged, u) ==
    IF \E i \in DOMAIN merged : UrlKey(merged[i]) = UrlKey(u) THEN merged ELSE Append(merged, u)

\* A ranking's result at rank i, if it goes that far.
TakeRank(merged, ranking, i) == IF i <= Len(ranking) THEN Take(merged, ranking[i]) ELSE merged

\* Rank by rank, the primary's first, each page once.
Interleaved(primary, backup) ==
    LET merged[i \in 0..Max({Len(primary), Len(backup)})] ==
            IF i = 0 THEN <<>> ELSE TakeRank(TakeRank(merged[i - 1], primary, i), backup, i)
    IN  merged[Max({Len(primary), Len(backup)})]

\* Faulty: the backup's results follow the primary's.
MergeAppended(primary, backup, limit) == Cut(Interleaved(primary \o backup, <<>>), limit)

\* merge: limit in all.
Merge(primary, backup, limit) == Cut(Interleaved(primary, backup), limit)

\* Faulty: an empty backup answers for a failed primary.
CombineEmptied(a, b) ==
    IF b.err # "none" THEN a
    ELSE IF Decide(a, request.limit) = "replace" THEN b
    ELSE Report(Merge(a.results, b.results, request.limit), b.degraded)

\* The end of failover.Search, the backup asked: the primary's answer stands
\* when the backup failed, or found nothing in place of an error.
Combine(a, b) ==
    IF b.err # "none" \/ (a.err # "none" /\ b.results = <<>>) THEN a
    ELSE IF Decide(a, request.limit) = "replace" THEN b
    ELSE Report(Merge(a.results, b.results, request.limit), b.degraded)

\* failover(a, b), or a alone.
Outcome(as) == IF Len(as) = 1 THEN as[1] ELSE Combine(as[1], as[2])

-----------------------------------------------------------------------------
(* The handler.                                                            *)

\* SearchOptions, as the handler makes them of a request; a blank query is not
\* an empty one.
Requests ==
    [valid : BOOLEAN, query : {"empty", "blank", "text"}, site : BOOLEAN, limit : Limits]

ClampLimit(n) == Min({IF n >= 1 THEN n ELSE DefaultLimit, MaxResults})

NoReply == [status |-> 0, result |-> Failure("none")]

Init ==
    /\ config \in [chain : Chains, min : MinCounts, budget : BOOLEAN, paced : BOOLEAN]
    /\ request \in Requests
    /\ pc = "idle" /\ live = TRUE
    /\ level = 0 /\ tries = 0 /\ held = {} /\ busy = {}
    /\ answers = <<>> /\ spent = 0 /\ reply = NoReply

Current == config.chain[level]

\* Search of the n-th searcher begins: a blank query goes no further, a paced
\* searcher queues for its slot.
Begin(n) ==
    /\ level' = n
    /\ tries' = 0
    /\ pc' = IF request.query = "blank" THEN "refusing" ELSE IF config.paced THEN "queued" ELSE "send"

\* A method other than POST, a wrong key, a body that is not JSON, an empty query,
\* a bad time_range or site: 405, 401 or 400 before any searcher is asked.
Refuse ==
    /\ pc = "idle"
    /\ ~request.valid \/ request.query = "empty"
    /\ pc' = "done"
    /\ reply' = [status |-> 400, result |-> Failure("none")]
    /\ UNCHANGED <<config, request, live, level, tries, held, busy, answers, spent>>

\* Server.search, up to the searcher.
Accept ==
    /\ pc = "idle"
    /\ request.valid /\ request.query # "empty"
    /\ request' = [request EXCEPT !.limit = ClampLimit(@)]
    /\ Begin(1)
    /\ UNCHANGED <<config, live, held, busy, answers, spent, reply>>

\* The searcher of this level returns: its slot goes back, and the chain decides
\* whether its backup is asked.
Return(a) ==
    /\ answers' = Append(answers, a)
    /\ held' = held \ {Current}
    /\ IF level < Len(config.chain) /\ live /\ Decide(a, request.limit) # "keep"
       THEN Begin(level + 1) /\ UNCHANGED reply
       ELSE LET r == Outcome(answers') IN
            /\ pc' = "done"
            /\ reply' = [status |-> IF r.err = "none" THEN 200 ELSE 502, result |-> r]
            /\ UNCHANGED <<level, tries>>
    /\ UNCHANGED <<config, request, live, busy, spent>>

-----------------------------------------------------------------------------
(* One searcher.                                                           *)

RefuseBlank == pc = "refusing" /\ Return(Failure("invalid"))

Admitted ==
    /\ pc = "queued"
    /\ Current \notin busy
    /\ held' = held \cup {Current}
    /\ pc' = "send"
    /\ UNCHANGED <<config, request, live, level, tries, busy, answers, spent, reply>>

\* Faulty: the wait for a slot ends with the caller only.
QueueOverUnbounded ==
    /\ pc = "queued"
    /\ ~live /\ Return(Failure("canceled"))

\* The limiter refuses a wait it knows to be too long, maxWait runs out, or the
\* caller leaves the queue.
QueueOver ==
    /\ pc = "queued"
    /\ \/ live /\ \E e \in {"quota", "timeout"} : Return(Failure(e))
       \/ ~live /\ Return(Failure("canceled"))

\* Faulty: the attempt does not carry the caller's context.
SendDetached ==
    /\ pc = "send"
    /\ pc' = "flight"
    /\ tries' = tries + 1
    /\ spent' = spent + 1
    /\ UNCHANGED <<config, request, live, level, held, busy, answers, reply>>

\* An attempt leaves; one whose caller has gone does not.
Send ==
    /\ pc = "send"
    /\ IF live
       THEN /\ pc' = "flight"
            /\ tries' = tries + 1
            /\ spent' = spent + 1
            /\ UNCHANGED <<config, request, live, level, held, busy, answers, reply>>
       ELSE Return(Failure("canceled"))

\* The results within the limit, of an answer of up to MaxHits.
HitLists == UNION {[1..n -> Urls] : n \in 0..MaxHits}

SearXNGAnswers ==
    /\ pc = "flight" /\ Current = "searxng"
    /\ \E hits \in HitLists, rows, unresponsive \in SUBSET Engines :
         /\ hits = <<>> => rows = {}
         /\ Return(Report(Cut(hits, request.limit), Degraded(request.site, rows, unresponsive)))

TinyFishAnswers ==
    /\ pc = "flight" /\ Current = "tinyfish"
    /\ \E hits \in HitLists : Return(Report(Cut(hits, request.limit), FALSE))

\* An answer that is not retried: another status (402 is TinyFish's daily
\* allowance running out), a body that does not parse, the client's timeout.
Fails ==
    /\ pc = "flight"
    /\ \E e \in {"status", "unreadable", "timeout"}
                    \cup (IF Current = "tinyfish" THEN {"quota"} ELSE {}) : Return(Failure(e))

\* notRateLimited: TinyFish's 429 outlives the backoff.
Retried(e) == e = "fault" \/ Current = "searxng"

AttemptLeft == tries < MaxAttempts

\* A 429, a 5xx or no connection: another attempt follows the backoff, or the
\* error stands.
RetryableFault ==
    /\ pc = "flight"
    /\ \E e \in {"rate", "fault"} :
         IF Retried(e) /\ AttemptLeft
         THEN /\ pc' = "send"
              /\ UNCHANGED <<config, request, live, level, tries, held, busy, answers, spent, reply>>
         ELSE Return(Failure(e))

Canceled == pc = "flight" /\ ~live /\ Return(Failure("canceled"))

\* searchPrimary: the budget of a searcher with a backup runs out, wherever it is.
PrimaryBudget ==
    /\ pc \in {"queued", "send", "flight"} /\ live
    /\ config.budget /\ level < Len(config.chain)
    /\ Return(Failure("timeout"))

Searching ==
    \/ RefuseBlank \/ Admitted \/ QueueOver \/ Send \/ SearXNGAnswers \/ TinyFishAnswers
    \/ Fails \/ RetryableFault \/ Canceled \/ PrimaryBudget

Handling == Refuse \/ Accept \/ Searching

-----------------------------------------------------------------------------
(* The surroundings.                                                       *)

HangUp ==
    /\ pc # "done" /\ live
    /\ live' = FALSE
    /\ UNCHANGED <<config, request, pc, level, tries, held, busy, answers, spent, reply>>

\* Other searches take and give back the only slot of a searcher.
Compete ==
    /\ pc = "queued"
    /\ busy' \in {busy \cup {Current}, busy \ {Current}}
    /\ UNCHANGED <<config, request, pc, live, level, tries, held, answers, spent, reply>>

Next == Handling \/ HangUp \/ Compete

\* Timeouts bound every wait of a handler; nothing makes the others give way.
Spec == Init /\ [][Next]_vars /\ WF_vars(Handling)

-----------------------------------------------------------------------------
(* Properties.                                                             *)

Reports == [results : Seq(Urls), degraded : BOOLEAN, err : Errors \cup {"none"}]

\* The types; a search never waits for a searcher whose slot it has.
TypeOK ==
    /\ config \in [chain : Chains, min : MinCounts, budget : BOOLEAN, paced : BOOLEAN]
    /\ request.limit \in 0..MaxResults \cup Limits
    /\ pc \in {"idle", "refusing", "queued", "send", "flight", "done"}
    /\ level \in 0..Len(config.chain) /\ tries \in 0..MaxAttempts
    /\ held \subseteq Searchers /\ busy \subseteq Searchers
    /\ answers \in Seq(Reports) /\ reply.result \in Reports
    /\ pc = "queued" => Current \notin held

\* A failure is never hidden: an error is the first searcher's, with its reason,
\* and an empty success means that the first searcher did succeed with nothing
\* (failover.Search: an empty success would read as "nothing exists" where the
\* truth is "retry later").
FailureKept ==
    /\ TypeOK
    /\ pc = "done" /\ answers # <<>> =>
         /\ reply.status = 502 => reply.result.err = answers[1].err
         /\ reply.status = 200 /\ reply.result.results = <<>> =>
                answers[1].err = "none" /\ answers[1].results = <<>>

\* When both rankings count (merge), the page at rank i of the primary is among
\* the first 2i - 1 results and that of the backup among the first 2i, no page
\* appears twice, and the reply is as long as the pages and the limit allow.
TopUpKeepsRanks ==
    (pc = "done" /\ Len(answers) = 2 /\ \A i \in 1..2 : answers[i].results # <<>>) =>
        LET out == reply.result.results
            p == answers[1].results
            q == answers[2].results
            pages == {UrlKey(u) : u \in Range(p) \cup Range(q)}
            Among(u, n) == n <= request.limit => \E j \in 1..Min({n, Len(out)}) : UrlKey(out[j]) = UrlKey(u)
        IN  /\ \A i \in DOMAIN p : Among(p[i], 2 * i - 1)
            /\ \A i \in DOMAIN q : Among(q[i], 2 * i)
            /\ \A i, j \in DOMAIN out : UrlKey(out[i]) = UrlKey(out[j]) => i = j
            /\ Len(out) = Min({request.limit, Cardinality(pages)})

\* A chain of searchers is a searcher: whoever asks it gets what one of them
\* promises (SearcherContract).
Searcher ==
    INSTANCE SearcherContract WITH
        phase <- IF pc \in {"idle", "done"} THEN pc ELSE "asked",
        slots <- Cardinality(held),
        surplus <- IF pc = "done" THEN Max({0, Len(reply.result.results) - request.limit}) ELSE 0
SearcherSpec == Searcher!Spec

\* Every search is answered, whatever the upstreams and the other searches do.
SearchAnswered == <>(pc = "done")
=============================================================================
