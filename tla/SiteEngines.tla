---------------------------- MODULE SiteEngines ----------------------------
(***************************************************************************)
(* One crawl by a site engine that reads an API (internal/engine/github,   *)
(* discourse, stackexchange, hackernews, bluesky): the slot, the requests, *)
(* one after the other or side by side, and the document with what it says *)
(* about its own completeness.                                             *)
(*                                                                         *)
(* An answer is what the engine decides by: counts, lists of ids, the link *)
(* to a next page, an error.  The attempts of the client are FetchPath's   *)
(* subject; bodies and rendering are left out.                             *)
(***************************************************************************)
EXTENDS Integers, SequencesExt, FiniteSetsExt, Sublists

CONSTANTS
    Kinds,        \* kinds of pages to crawl
    Splits,       \* ref and path splits of a file URL (refSplits)
    MaxComments,  \* GitHub: comments shown
    PageBound,    \* GitHub: pages of comments read, 2*(maxComments/perPage)
    PageSizes,    \* GitHub: comments on a page
    Patches,      \* GitHub: sizes of the patches of a pull request
    MaxDiff,      \* GitHub: maxDiffBytes
    MaxAssets,    \* GitHub: maxReleaseAssets
    TopicSize,    \* Discourse: posts a topic may have
    MaxPosts,     \* Discourse: posts shown
    MaxBatch,     \* Discourse: postIDsPerBatch
    MaxAnswers,   \* Stack Exchange: answers on the page read
    Order,        \* a tree of comments, pre-order
    Parent,       \* what each replies to, "post" or a comment
    Caps,         \* Hacker News: caps a caller may ask for
    MaxReplies    \* Bluesky: maxThreadReplies

Ids == Range(Order)

ASSUME EngineAssumption ==
    /\ {Splits, MaxBatch, MaxComments, PageBound, MaxPosts} \subseteq Nat \ {0}
    /\ {MaxDiff, MaxAssets, TopicSize, MaxAnswers, MaxReplies} \subseteq Nat
    /\ PageSizes \subseteq Nat /\ Patches \subseteq Seq(Nat)
    /\ Order \in Seq(Ids) /\ IsInjective(Order) /\ "post" \notin Ids
    /\ \A i \in DOMAIN Order : Parent[Order[i]] \in {"post"} \cup {Order[j] : j \in 1..(i - 1)}
    /\ Caps \subseteq [top : Nat, per : Nat, max : Nat]

VARIABLES
    kind,       \* what is crawled: a page kind
    caps,       \* the caller's caps
    stage,      \* "pace", "reading", "done"
    present,    \* the caller is there, the deadline has not passed
    slot,       \* the engine's slot is held
    reads,      \* the requests under way, in argument order: what, and how it went
    got,        \* what has been read: read -> its answer
    tried,      \* splits or batches begun
    doc,        \* what it shows: ids in its order, patches
    notes,      \* what it says is left out
    outcome     \* "", "ok" or the error

crawl == <<kind, caps>>
document == <<doc, notes, outcome>>
engineVars == <<crawl, stage, present, slot, reads, got, tried, document>>

-----------------------------------------------------------------------------
(* The paged way through a topic.                                          *)

\* What has nothing to tell it apart but its number.
Counted(n) == [i \in 1..n |-> i]

\* The first posts of the stream, and the batches of those not read yet.
Wanted == SubSeq(got["topic"].stream, 1, Min({MaxPosts, Len(got["topic"].stream)}))
Missing == Filter(Wanted, (1..TopicSize) \ got["topic"].posts)
Batch(n) == Range(SubSeq(Missing, (n - 1) * MaxBatch + 1, Min({n * MaxBatch, Len(Missing)})))

-----------------------------------------------------------------------------
(* The reads.                                                              *)

\* The first reads of a crawl; the others follow from their answers.
Plan ==
    [pull |-> <<"pull", "comments", "inline", "reviews", "files">>,
     issue |-> <<"issue">>,
     repo |-> <<"repository", "readme", "latest">>,
     tree |-> <<"directory", "readme">>,
     blob |-> <<"file">>,
     discussion |-> <<"discussion">>,
     topic |-> <<"print">>,
     question |-> <<"question">>,
     answer |-> <<"answer">>,
     item |-> <<"item">>,
     commit |-> <<"commit">>,
     release |-> <<"release">>,
     feed |-> <<"hits">>,
     thread |-> <<"thread">>,
     page |-> <<"page">>]                       \* releases, a gist, an author's posts

ASSUME KindsPlanned == Kinds \subseteq DOMAIN Plan

\* A 404 there leaves the section out.
Optional == {"readme", "latest"}

\* One page of comments after another is one read.
Comments == [pages |-> 0, collected |-> 0, left |-> "more"]

\* What a read may bring, by what the engine looks at.
Lists == [next : BOOLEAN]
Counts == [total : 0..(MaxAnswers + 1), shown : 0..MaxAnswers, more : BOOLEAN]
Answers(read) ==
    CASE read \in {"inline", "reviews"} -> Lists
      [] read = "files" -> [next : BOOLEAN, patches : Patches]
      [] read = "commit" -> [patches : Patches]
      [] read = "release" -> 0..(MaxAssets + 1)
      [] read = "file" -> {"file", "dir"}
      [] read = "discussion" -> {c \in Counts : c.shown <= c.total /\ c.more = (c.total > c.shown)}
      [] read = "print" -> [count : 0..(TopicSize + 1), posts : {Counted(n) : n \in 0..TopicSize}]
      [] read = "topic" -> {t \in [count : 0..(TopicSize + 1), stream : {Counted(n) : n \in 0..TopicSize},
                                   posts : SUBSET (1..TopicSize)] :
                               t.stream = <<>> \/ t.posts \subseteq Range(t.stream)}
      [] read = "posts" -> SUBSET Batch(tried)
      [] read = "answer" -> {"none", "found"}
      [] read = "question" -> {<<>>} \cup {<<n>> : n \in 0..(MaxAnswers + 1)}  \* none, or its answers
      [] read = "answers" -> {c \in Counts : c.total = 0}
      [] read \in {"item", "thread"} -> SUBSET Ids      \* those deleted, or not shown to us
      [] read = "hits" -> {"one", "several"}
      [] OTHER -> {"ok"}

\* The errors the engines tell apart.
Failures(read) ==
    {"http_404", "fault"} \cup (CASE read = "print" -> {"http_429"}
                                [] read = "thread" -> {"thin_content"}    \* no post in a 200
                                [] OTHER -> {})

Read(name) == [name |-> name, st |-> IF present THEN "flight" ELSE "timeout"]
Start(names) == reads' = [i \in DOMAIN names |-> Read(names[i])]
Sent == {i \in DOMAIN reads : reads[i].st = "flight"}

\* Faulty: the first failure ends the wait.
JoinedAtFirstError == Sent = {} \/ \E i \in DOMAIN reads : reads[i].st \notin {"flight", "ok"}

\* runAll waits for all.
Joined == Sent = {}

\* runAll: the first error in argument order, whichever came first.
Error ==
    LET failed == {i \in DOMAIN reads : reads[i].st # "ok"}
    IN  IF failed = {} THEN "ok" ELSE reads[Min(failed)].st

\* What has been read, with the answer to one more.
Noted(read, answer) ==
    [r \in {read} \cup DOMAIN got |-> IF r = read THEN answer ELSE got[r]]

EngineInit ==
    /\ kind \in Kinds /\ caps \in Caps
    /\ stage = "pace" /\ present = TRUE /\ slot = FALSE
    /\ reads = <<>> /\ got = <<>> /\ tried = 1
    /\ doc = [items |-> <<>>, patches |-> {}] /\ notes = {} /\ outcome = ""

Finish(o) == stage' = "done" /\ outcome' = o /\ slot' = FALSE /\ reads' = <<>>

\* The slot covers the whole crawl; a refused wait is the caller's quota_exhausted.
Pace ==
    /\ stage = "pace"
    /\ \/ /\ present /\ slot' = TRUE /\ stage' = "reading"
          /\ Start(Plan[kind])
          /\ got' = IF kind = "pull" THEN Noted("comments", Comments) ELSE got
          /\ UNCHANGED outcome
       \/ /\ Finish(IF present THEN "quota_exhausted" ELSE "timeout")
          /\ UNCHANGED got
    /\ UNCHANGED <<crawl, present, tried, doc, notes>>

Settle(i, st) == reads' = [reads EXCEPT ![i].st = st]

-----------------------------------------------------------------------------
(* Answers.                                                                *)

\* A read fails: so does one that panics, and one past the deadline.  A 404 of
\* an optional section is no failure.
ReadFails(i) ==
    /\ \E st \in Failures(reads[i].name) \cup (IF present THEN {} ELSE {"timeout"}) :
          Settle(i, IF st = "http_404" /\ reads[i].name \in Optional THEN "ok" ELSE st)
    /\ UNCHANGED <<crawl, stage, present, slot, got, tried, document>>

\* The answer goes where the crawl keeps it; batches add up.
Arrives(i) ==
    /\ reads[i].name # "comments"
    /\ \E a \in Answers(reads[i].name) :
         got' = Noted(reads[i].name, IF reads[i].name = "posts" /\ "posts" \in DOMAIN got
                                     THEN got["posts"] \cup a ELSE a)
    /\ Settle(i, "ok")
    /\ UNCHANGED <<crawl, stage, present, slot, tried, document>>

\* Faulty: a page without a link is the only end.
PagesLeftUnbounded(pages) == TRUE

PagesLeft(pages) == pages < PageBound

\* Engine.comments: a page arrives; the next is asked for until there is none, the
\* cap is reached, the link leads out of the API, or the bound is.
PageArrives(i) ==
    /\ reads[i].name = "comments"
    /\ \E n \in PageSizes, next \in {"none", "page", "elsewhere"} :
         LET c == got["comments"]
             pages == (c.pages % PageBound) + 1
             collected == c.collected + n
             end == CASE next # "page" -> next
                      [] next = "page" /\ collected >= MaxComments -> "capped"
                      [] OTHER -> IF PagesLeft(pages) THEN "more" ELSE "bound"
         IN  /\ got' = [got EXCEPT !["comments"] =
                           [pages |-> pages, collected |-> collected, left |-> end]]
             /\ Settle(i, IF end # "more" THEN "ok" ELSE IF present THEN "flight" ELSE "timeout")
    /\ UNCHANGED <<crawl, stage, present, slot, tried, document>>

Settles == \E i \in Sent : ReadFails(i) \/ Arrives(i) \/ PageArrives(i)

-----------------------------------------------------------------------------
(* The documents.                                                          *)

First(n, s) == SubSeq(s, 1, Min({n, Len(s)}))

\* indexSubtrees: a comment whose parent is not there is a root of its own.
Depth ==
    [read \in SUBSET Ids |->
        LET depth[c \in Ids] == IF Parent[c] \in read THEN depth[Parent[c]] + 1 ELSE 0 IN depth]
Root ==
    [read \in SUBSET Ids |->
        LET root[c \in Ids] == IF Parent[c] \in read THEN root[Parent[c]] ELSE c IN root]

\* How many of a group come before a comment, breadth first.
Rank(read, group, c) ==
    LET at(d) == CHOOSE i \in DOMAIN Order : Order[i] = d
    IN  Cardinality({d \in group : \/ Depth[read][d] < Depth[read][c]
                                   \/ Depth[read][d] = Depth[read][c] /\ at(d) < at(c)})

\* capTopLevel, capPerSubtree, capComments: what they keep; 0 is no cap.
CapTopLevel(n) ==
    [read \in SUBSET Ids |->
        LET roots == Filter(Order, {c \in read : Root[read][c] = c})
        IN  {c \in read : n = 0 \/ Root[read][c] \in Range(First(n, roots))}]
CapPerSubtree(n) ==
    [read \in SUBSET Ids |->
        {c \in read : n = 0 \/ Rank(read, {d \in read : Root[read][d] = Root[read][c]}, c) < n}]
CapComments(n) ==
    [read \in SUBSET Ids |-> {c \in read : n = 0 \/ Rank(read, read, c) < n}]

\* flattenComments and flattenReplies: what is not there is left out, its replies stay.
Flat(gone) == Filter(Order, Ids \ gone)

\* budgetFiles: the patches shown, each that fits in what is left.
Fitting(sizes) ==
    LET left[i \in 0..Len(sizes)] ==
            IF i = 0 THEN MaxDiff ELSE left[i - 1] - (IF sizes[i] <= left[i - 1] THEN sizes[i] ELSE 0)
    IN  {i \in DOMAIN sizes : sizes[i] <= left[i - 1]}
Sizes == CASE kind = "pull" -> got["files"].patches [] kind = "commit" -> got["commit"].patches [] OTHER -> <<>>

\* fetchTopic and fetchTopicBatched: the posts, and how many the topic is said to have.
Posts ==
    IF "topic" \notin DOMAIN got THEN First(MaxPosts, got["print"].posts)
    ELSE IF Wanted = <<>> THEN First(MaxPosts, Filter(Counted(TopicSize), got["topic"].posts))
    ELSE Filter(Wanted, got["topic"].posts \cup (IF "posts" \in DOMAIN got THEN got["posts"] ELSE {}))
Total ==
    IF "topic" \notin DOMAIN got THEN Max({got["print"].count, Len(got["print"].posts)})
    ELSE Max({got["topic"].count,
              IF Wanted = <<>> THEN Cardinality(got["topic"].posts) ELSE Len(got["topic"].stream)})

\* The comments of a Hacker News thread, whole threads first; a Bluesky thread's
\* replies; the answers to a question; the assets of a release.
ThreadComments ==
    Filter(Order, CapComments(caps.max)[CapPerSubtree(caps.per)[CapTopLevel(caps.top)[Ids \ got["item"]]]])
Replies == First(MaxReplies, Flat(got["thread"]))
TopAnswers == IF "answers" \in DOMAIN got THEN got["answers"].shown ELSE 0
Assets == Min({got["release"], MaxAssets})

Items ==
    CASE kind \in {"pull", "issue"} -> Counted(Min({got["comments"].collected, MaxComments}))
      [] kind = "discussion" -> Counted(got["discussion"].shown)
      [] kind = "release" -> Counted(Assets)
      [] kind = "topic" -> Posts
      [] kind \in {"question", "answer"} -> Counted(TopAnswers)
      [] kind = "item" -> ThreadComments
      [] kind = "thread" -> Replies
      [] OTHER -> <<>>

\* Faulty: pages that were not read do not count.
CommentsCutCollected(c) == c.collected > MaxComments

\* truncatedFrom: more were collected than are shown, or pages are left at the cap.
CommentsCut(c) == c.collected > MaxComments \/ c.left = "capped"

Said ==
    LET n == Len(Items)
        flagged(read) == read \in DOMAIN got /\ got[read].next
        cut == CASE kind \in {"pull", "issue"} -> CommentsCut(got["comments"])
                 [] kind = "discussion" -> got["discussion"].total > n
                 [] kind = "release" -> got["release"] > MaxAssets
                 [] kind = "topic" -> Total > n
                 [] kind \in {"question", "answer"} ->
                      \/ "answers" \in DOMAIN got /\ got["answers"].more
                      \/ got["question"][1] > n
                 [] kind = "item" -> Len(Flat(got["item"])) > n
                 [] kind = "thread" -> Len(Flat(got["thread"])) > MaxReplies
                 [] OTHER -> FALSE
    IN  (IF cut THEN {"items"} ELSE {})
        \cup {read \in {"inline", "reviews", "files"} : flagged(read)}
        \cup (IF Fitting(Sizes) # DOMAIN Sizes THEN {"diff"} ELSE {})

-----------------------------------------------------------------------------
(* What follows when the reads are over.                                   *)

Over(read) == reads[1].name = read

\* A file or directory that is not found: the next split of the ref; a file that
\* turns out to be a directory is listed.
NextSplit ==
    CASE Error = "http_404" -> IF tried < Splits THEN Plan[kind] ELSE <<>>
      [] Error = "ok" /\ Over("file") /\ got["file"] = "dir" -> Plan["tree"]
      [] OTHER -> <<>>

\* A topic: the paged way when the print view is rate limited, then the batches.
NextPosts ==
    CASE Error = "http_429" /\ Over("print") -> <<"topic">>
      [] Error = "ok" /\ Over("topic") /\ Batch(1) # {} -> <<"posts">>
      [] Error = "ok" /\ Over("posts") /\ Batch(tried + 1) # {} -> <<"posts">>
      [] OTHER -> <<>>

\* A question: first the answer that names it, last its answers.
NextCall ==
    CASE Error = "ok" /\ Over("answer") /\ got["answer"] = "found" -> <<"question">>
      [] Error = "ok" /\ Over("question") /\ got["question"] \notin {<<>>, <<0>>} -> <<"answers">>
      [] OTHER -> <<>>

\* The reads that these call for, if any.
FollowUp ==
    CASE kind \in {"blob", "tree"} -> NextSplit
      [] kind = "topic" -> NextPosts
      [] kind \in {"question", "answer"} -> NextCall
      [] kind = "issue" /\ Error = "ok" /\ Over("issue") -> <<"comments">>
      [] kind = "feed" /\ Error = "ok" /\ Over("hits") /\ got["hits"] = "several" -> <<"rank">>
      [] OTHER -> <<>>

Continue ==
    /\ stage = "reading" /\ Joined /\ FollowUp # <<>>
    /\ Start(FollowUp)
    /\ LET listed == kind = "blob" /\ FollowUp = Plan["tree"] IN
       /\ kind' = IF listed THEN "tree" ELSE kind
       /\ tried' = IF Over("topic") \/ listed THEN 1 ELSE tried + 1
    /\ got' = IF FollowUp = <<"comments">> THEN Noted("comments", Comments) ELSE got
    /\ UNCHANGED <<caps, stage, present, slot, document>>

\* Best effort: rankFrontPage keeps the order it has.
Served ==
    /\ Error = "ok" \/ Over("rank")
    /\ Over("answer") => got["answer"] = "found"
    /\ Over("question") => got["question"] # <<>>

ReturnDocument ==
    /\ stage = "reading" /\ Joined /\ FollowUp = <<>> /\ Served
    /\ doc' = [items |-> Items, patches |-> Fitting(Sizes)]
    /\ notes' = Said
    /\ Finish("ok")
    /\ UNCHANGED <<crawl, present, got, tried>>

GiveUp ==
    /\ stage = "reading" /\ Joined /\ FollowUp = <<>> /\ ~Served
    /\ Finish(IF Error = "ok" THEN "not_found" ELSE Error)
    /\ UNCHANGED <<crawl, present, got, tried, doc, notes>>

Engine == Pace \/ Settles \/ Continue \/ ReturnDocument \/ GiveUp

\* The caller hangs up, or the engine's own deadline passes.
Leave ==
    /\ stage # "done" /\ present
    /\ present' = FALSE
    /\ UNCHANGED <<crawl, stage, slot, reads, got, tried, document>>

EngineNext == Engine \/ Leave

\* Every request ends, by the client's timeouts; the deadline is not relied on.
CrawlSpec == EngineInit /\ [][EngineNext]_engineVars /\ WF_engineVars(Engine)

-----------------------------------------------------------------------------
(* Properties.                                                             *)

EngineTypeOK ==
    /\ stage \in {"pace", "reading", "done"} /\ present \in BOOLEAN /\ slot \in BOOLEAN
    /\ kind \in Kinds \cup {"tree"} /\ caps \in Caps
    /\ slot <=> stage = "reading"
    /\ stage = "reading" <=> reads # <<>>
    /\ tried \in 1..Max({Splits, TopicSize, 3})
    /\ stage = "done" <=> outcome # ""

\* What there was to show, as far as the site has said: the comments collected and
\* one more behind a link that was not followed, the posts the stream or the count names, the answers
\* counted or listed and one more where there are more, the comments that are there.
There ==
    CASE kind \in {"pull", "issue"} ->
           1..(got["comments"].collected
                 + (IF got["comments"].left \in {"capped", "bound", "elsewhere"} THEN 1 ELSE 0))
      [] kind = "topic" /\ "topic" \notin DOMAIN got ->
           1..Max({got["print"].count, Len(got["print"].posts)})
      [] kind = "topic" /\ "topic" \in DOMAIN got ->
           1..Max({got["topic"].count, Len(got["topic"].stream), Cardinality(got["topic"].posts)})
      [] kind \in {"question", "answer"} ->
           1..Max({got["question"][1],
                   IF "answers" \notin DOMAIN got THEN 0
                   ELSE got["answers"].shown + (IF got["answers"].more THEN 1 ELSE 0)})
      [] kind = "discussion" -> 1..got["discussion"].total
      [] kind = "release" -> 1..got["release"]
      [] kind \in {"item", "thread"} -> Ids \ got[kind]
      [] OTHER -> {}

\* The order the site has it in.
SiteOrder ==
    CASE kind \in {"item", "thread"} -> Order
      [] kind = "topic" -> Counted(TopicSize)
      [] OTHER -> Counted(Cardinality(There))

\* The patches shown are those that fit in what the patches before them leave.
PatchesFit(sizes, shown) ==
    LET spent[n \in 0..Len(sizes)] ==     \* by those shown of the first n
            IF n = 0 THEN 0 ELSE spent[n - 1] + (IF n \in shown THEN sizes[n] ELSE 0)
    IN  \A i \in DOMAIN sizes : i \in shown <=> spent[i - 1] + sizes[i] <= MaxDiff

\* Engine.comments stopped at the bound on its pages, or at a link out of the API:
\* pages remain, as the site has said, and it reports that there are no more.
StoppedShort ==
    kind \in {"pull", "issue"} /\ got["comments"].left \in {"bound", "elsewhere"}

\* A document that is cut says so, and only that one (the note and truncated_from
\* of every engine), but for GitHub's comments that stopped short: these are cut,
\* and say so only past the cap.  What a document shows is in the site's order, a reply comes with the
\* comment it answers if that one was read, and a patch is left out only where it
\* does not fit.
DocumentHonest ==
    EngineTypeOK /\ (outcome = "ok" =>
        /\ "items" \in notes \/ StoppedShort <=> Len(doc.items) < Cardinality(There)
        /\ doc.items = Filter(SiteOrder, Range(doc.items))
        /\ kind \in {"item", "thread"} =>
              \A c \in Range(doc.items) : Parent[c] \in There => Parent[c] \in Range(doc.items)
        /\ "diff" \in notes <=> doc.patches # DOMAIN Sizes
        /\ PatchesFit(Sizes, doc.patches))

\* A site engine is an engine (EngineContract): one slot around all it sends, none
\* of its requests outlives it, though they run side by side and fail at different
\* times, and none that begins when nobody waits for it any more.
Contract ==
    INSTANCE EngineContract WITH
        phase <- CASE stage = "pace" -> "idle" [] stage = "reading" -> "crawling" [] OTHER -> "done",
        live <- present, flight <- Cardinality(Sent)
EngineSpec == Contract!Spec

\* Every crawl ends, however the API answers and though no deadline passes.
EngineAnswered == <>(stage = "done")
=============================================================================
