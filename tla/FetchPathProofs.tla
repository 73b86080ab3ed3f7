--------------------------- MODULE FetchPathProofs ---------------------------
(***************************************************************************)
(* What holds of one fetch_url call, for any number of slots and attempts  *)
(* and any configuration of the ladder, and of the verdicts it acts on     *)
(* (CrawlVerdict).                                                         *)
(***************************************************************************)
EXTENDS FetchPath, SeqLemmas

-----------------------------------------------------------------------------
(* The verdict of an answer, for any status and any combination of         *)
(* findings.                                                               *)

\* The veto and the classification are two files that read the same phrase: what
\* the one does not let be retried the other takes for content or a time limit,
\* never for an outage (which pages somebody) nor for a scrubbed body (which is
\* rescued by a direct request).
THEOREM VetoIsVerdict ==
    ASSUME NEW reply \in Replies(Nat, SUBSET Families), ~RetryableStatus(reply)
    PROVE  ReplyKind(reply) \in {"thin_content", "bot_block", "timeout"}
<1>1. reply.status \in Nat /\ reply.status >= 500 /\ "protection" \in reply.message
    BY DEF Replies, RetryableStatus
<1>2. CASE reply.status = 504
    BY <1>1, <1>2 DEF ReplyKind, ClientKind, KindForStatus
<1>3. CASE reply.status # 504
    BY <1>1, <1>3 DEF ReplyKind, ClientKind, BlockKind
<1>4. QED BY <1>2, <1>3

\* crawl4ai reports the same refusal as a failed result or as a 5xx, by version.
\* Both ways a content gate is thin content, which may be rescued, and, unless the
\* message also names a time limit or a rate, anything else is a wall, which may not.
THEOREM OneVoice ==
    ASSUME NEW message \in SUBSET Families, "protection" \in message,
           NEW status \in Nat, status >= 500, status # 504,
           NEW form \in Forms, NEW pageStatus \in Nat
    PROVE  LET said == ClassifyVerdict(message, pageStatus)
               answered == ReplyKind([status |-> status, message |-> message, form |-> form])
           IN  /\ said = "thin_content" <=> answered = "thin_content"
               /\ message \cap {"timeout", "wait", "429"} = {} =>
                     (said \in WallKinds <=> answered \in WallKinds)
<1> DEFINE reply == [status |-> status, message |-> message, form |-> form]
<1>1. ReplyKind(reply) = BlockKind(message)
    BY DEF ReplyKind, ClientKind
<1>2. CASE "structural" \in message
    BY <1>1, <1>2 DEF ClassifyVerdict, BlockKind, WallKinds
<1>3. CASE "structural" \notin message
  <2>1. BlockKind(message) = "bot_block"
      BY <1>3 DEF BlockKind
  <2>2. ClassifyVerdict(message, pageStatus)
           \in {"timeout", "captcha", "http_429", "http_403", "bot_block"}
      BY <1>3 DEF ClassifyVerdict
  <2>3. message \cap {"timeout", "wait", "429"} = {} =>
           ClassifyVerdict(message, pageStatus) \in {"captcha", "http_403", "bot_block"}
      BY <1>3 DEF ClassifyVerdict
  <2>4. QED BY <1>1, <2>1, <2>2, <2>3 DEF WallKinds
<1>4. QED BY <1>2, <1>3

-----------------------------------------------------------------------------
(* The inductive invariant of the call.                                    *)

\* The steps that come before the generic engine's first fetch.
Before == {"idle", "queued", "engine", "resolving", "sources", "waiting"}

\* How far the call has come, and what it has not done yet.
Phases ==
    /\ refused => pc = "done"
    /\ OneLadder /\ (pc \in Before => ladders = 0)
    /\ pc \in {"idle", "resolving", "sources"} => Len(failed) < Len(Sources)
    /\ pc # "done" => answer = NoAnswer

\* Of a URL that an engine claims, a page in a format asked for is never rendered,
\* but for a link that leads elsewhere.
Formats == request.explicit /\ request.engine # "none" /\ pc \in Generic => via = "link"

\* The steps that come before a browser has met anything.
First == Before \cup {"raw text", "pdf", "base"}

\* A block leads to the remedy for it: the same identity once more if it says that the
\* page is navigating, the try as someone else, the PDF reading if it names a download.
Blocks ==
    /\ err.kind # "quota"
    /\ blocked => \/ pc \in {"alt_fingerprint", "done"}
                  \/ pc = "networkidle" /\ "navigating" \in err.says
                  \/ /\ pc \in {"probe", "pdf_retry"}
                     /\ IsBlock(err.kind) /\ "download" \in err.says
    /\ pc = "alt_fingerprint" => err.kind = "block"

\* An identity that is to be used has met no wall, but for one that named the race.
Walls ==
    /\ WallMetOnce
    /\ pc \in First \cup {"no_wait"} => walls["modern"] = 0
    /\ pc \in {"networkidle", "no_selector"} => walls["modern"] <= IF raced THEN 1 ELSE 0
    /\ pc \notin {"probe", "pdf_retry", "done"} => walls["default"] = 0
    /\ pc # "done" => walls["none"] = 0

\* A wait that ran out leads to rungs that do not wait, but on the retry for a page
\* that is navigating.
Waited ==
    /\ WaitRunsOutOnce
    /\ pc \in First => ranOut = {}
    /\ pc = "no_wait" => noWait
    /\ pc \in {"networkidle", "alt_fingerprint"} => noWait \/ ranOut = {}
    /\ pc = "no_selector" => noWait \/ ranOut \subseteq {"networkidle"}

IInv == TypeOK /\ Phases /\ Formats /\ Blocks /\ Walls /\ Waited /\ AnswerKept

-----------------------------------------------------------------------------
(* What an answer can come to.                                             *)

\* What crawl4ai can bring a rung to: never one of our own refusals, and a challenge
\* wait that ran out is no block.
Sound ==
    {o \in Outcomes : /\ o.kind # "quota"
                      /\ "wait" \in o.says => ~IsBlock(o.kind)}

\* The name of a kind is a verdict, and not that of our own pacing.
LEMMA NamedIs == ASSUME NEW kind PROVE Named(kind) \in Verdicts \ {"quota"}
BY DEF Named, Verdicts

\* An error that only Playwright's words are read in.
LEMMA QuotedIs ==
    ASSUME NEW kind, NEW says \in SUBSET Playwright
    PROVE  Outcome(kind, says) \in {o \in Sound : "wait" \notin o.says}
<1>1. says \in SUBSET Words /\ "wait" \notin says
    BY DEF Words, Playwright
<1>2. Outcome(kind, says) = [kind |-> Named(kind), says |-> says]
    BY DEF Outcome
<1> QED BY <1>1, <1>2, NamedIs DEF Sound, Outcomes

\* A page: the wait's own message is a time limit's, or the content gate's.
LEMMA SeenIs == ASSUME NEW page PROVE Seen(page) \in Sound
<1>1. CASE "private" \notin page.shows /\ "challenge" \in page.shows
    BY <1>1 DEF Seen, Sound, Outcomes, Verdicts, Words
<1>2. CASE ~ ("private" \notin page.shows /\ "challenge" \in page.shows)
  <2> DEFINE failing == "failed" \in page.shows /\ "private" \notin page.shows
             says == IF failing THEN page.message \cap Words ELSE {}
  <2>1. Seen(page) = [kind |-> Named(PageKind(page)), says |-> says]
      BY <1>2 DEF Seen, Outcome
  <2>2. says \in SUBSET Words
      OBVIOUS
  <2>3. ASSUME "wait" \in says PROVE ~IsBlock(Named(PageKind(page)))
    <3>1. failing /\ "wait" \in page.message
        BY <2>3
    <3>2. PageKind(page) = ClassifyVerdict(page.message, page.status)
        BY <1>2, <3>1 DEF PageKind
    <3>3. PageKind(page) \in {"thin_content", "timeout"}
        BY <3>1, <3>2 DEF ClassifyVerdict
    <3>4. QED BY <3>3 DEF Named, WallKinds, IsBlock
  <2> HIDE DEF says
  <2>4. Named(PageKind(page)) \in Verdicts \ {"quota"}
      BY NamedIs
  <2>5. QED BY <2>1, <2>2, <2>3, <2>4 DEF Sound, Outcomes
<1>3. QED BY <1>1, <1>2

\* So it is with every answer of crawl4ai, and a wait runs out only on a rung that
\* waits.
LEMMA AnswerOutcomes ==
    /\ \A rung : \A o \in Settled(rung) : o \in Sound /\ ("wait" \in o.says => Waits(rung))
    /\ \A o \in Vetoed \cup Retryable : o \in Sound /\ "wait" \notin o.says
<1>1. SettledOutcomes \subseteq Sound
  <2>1. {Seen(page) : page \in Pages} \subseteq Sound
      BY SeenIs
  <2>2. {Outcome(KindForStatus(r.status), r.message \cap Playwright) :
           r \in Replies({400, 403}, Messages)} \subseteq Sound
    <3>1. \A r : r.message \cap Playwright \in SUBSET Playwright
        OBVIOUS
    <3>2. \A r : Outcome(KindForStatus(r.status), r.message \cap Playwright) \in Sound
        BY <3>1, QuotedIs
    <3>3. QED BY <3>2
  <2>3. Outcome("bad_response", {}) \in Sound
      BY QuotedIs
  <2>4. QED BY <2>1, <2>2, <2>3 DEF SettledOutcomes
<1>2. \A reply : Outcome(ReplyKind(reply), ReplySays(reply)) \in {o \in Sound : "wait" \notin o.says}
  <2>1. \A reply : ReplySays(reply) \in SUBSET Playwright
      BY DEF ReplySays
  <2>2. QED BY <2>1, QuotedIs
<1>3. \A kind : Outcome(kind, {}) \in {o \in Sound : "wait" \notin o.says}
    BY QuotedIs
<1>4. \A o \in VetoedOutcomes : o \in Sound /\ "wait" \notin o.says
  <2>1. \A o \in VetoedOutcomes : \E reply : o = Outcome(ReplyKind(reply), ReplySays(reply))
      BY DEF VetoedOutcomes
  <2>2. QED BY <1>2, <2>1
<1>5. \A o \in RetriedOutcomes : o \in Sound /\ "wait" \notin o.says
  <2>1. \A o \in RetriedOutcomes :
          \/ \E reply : o = Outcome(ReplyKind(reply), ReplySays(reply))
          \/ \E kind : o = Outcome(kind, {})
      BY DEF RetriedOutcomes
  <2>2. QED BY <1>2, <1>3, <2>1
<1>6. QED BY <1>1, <1>4, <1>5 DEF Settled, Vetoed, Retryable

\* The error in hand is a verdict and what its text says.
LEMMA ErrorIs ==
    ASSUME TypeOK
    PROVE  err.kind \in Verdicts \cup {"none"} /\ err.says \in SUBSET Words
BY DEF TypeOK, Outcomes, NoError

\* What the Twitter engine tells of its sources is what one of them has said.
LEMMA ClassifyIs ==
    ASSUME NEW attempts, NEW n \in Nat, DOMAIN attempts = 1..n, n > 0, Len(attempts) = n,
           \A i \in 1..n : attempts[i].verdict \in Verdicts \cup {"none"}
    PROVE  Classify(attempts) \in Verdicts \cup {"none"}
<1>1. 1 \in 1..n /\ n \in 1..n
    OBVIOUS
<1>2. attempts[1].verdict \in Verdicts \cup {"none"} /\ attempts[n].verdict \in Verdicts \cup {"none"}
    BY <1>1
<1>3. {"not found", "rate", "fault"} \subseteq Verdicts
    BY DEF Verdicts
<1>4. QED BY <1>2, <1>3 DEF Classify

-----------------------------------------------------------------------------
(* Where an error leads.                                                   *)

\* The call has ended, with an answer of its type.
Ended ==
    /\ pc' = "done" /\ via' = via /\ refused' \in BOOLEAN
    /\ answer'.verdict \in Verdicts \cup {"none"} /\ answer'.by \in {"none", "engine", "generic"}
    /\ answer' = [verdict |-> answer'.verdict, by |-> answer'.by]

\* The call has been handed to the generic engine, which it may be.
HandedOver ==
    /\ pc' = "waiting" /\ via' = "fallback" /\ answer' = answer /\ refused' = refused
    /\ ~request.explicit

\* A dedicated engine's error ends the call or hands it over, and a final one ends it.
LEMMA EngineFailedLeads ==
    ASSUME NEW v \in Verdicts \cup {"none"}, NEW final \in BOOLEAN, NEW raw \in BOOLEAN,
           refused \in BOOLEAN, EngineFailed(v, final, raw)
    PROVE  \/ Ended /\ answer' = [verdict |-> v, by |-> "engine"]
           \/ HandedOver /\ ~ (final /\ ~raw)
<1>1. refused' = (refused \/ (request.engine = "same host" /\ IsBlockKind(v)))
    BY DEF EngineFailed
<1>2. CASE live /\ ~FallbackRefused(v, final /\ ~raw)
  <2>1. pc' = "waiting" /\ via' = "fallback" /\ answer' = answer
      BY <1>2 DEF EngineFailed, CallGeneric
  <2>2. ~request.explicit /\ ~ (final /\ ~raw) /\ ~ (IsBlockKind(v) /\ request.engine = "same host")
      BY <1>2 DEF FallbackRefused
  <2>3. QED BY <1>1, <2>1, <2>2 DEF HandedOver
<1>3. CASE ~ (live /\ ~FallbackRefused(v, final /\ ~raw))
  <2>1. pc' = "done" /\ via' = via /\ answer' = [verdict |-> v, by |-> "engine"]
      BY <1>3 DEF EngineFailed, Finish
  <2>2. QED BY <1>1, <2>1 DEF Ended
<1>4. QED BY <1>2, <1>3

\* What the Twitter engine says of its sources and of its render, when that fails
\* too, is a verdict.
LEMMA ErrorOfTwitter ==
    ASSUME TypeOK, NEW v \in Verdicts \cup {"none"}
    PROVE  Classify(Append(failed, [source |-> "crawl4ai", verdict |-> v]))
             \in Verdicts \cup {"none"}
<1> DEFINE T == [source : {"fxtwitter", "syndication", "vxtwitter"}, verdict : Verdicts]
           last == [source |-> "crawl4ai", verdict |-> v]
           attempts == Append(failed, last)
<1>1. failed \in Seq(T)
    BY DEF TypeOK
<1>2. Len(failed) \in Nat /\ \A i \in 1..Len(failed) : failed[i] \in T
    BY <1>1, LenProperties, ElementOfSeq
<1>3. DOMAIN attempts = 1..(Len(failed) + 1) /\ Len(attempts) = Len(failed) + 1
    BY <1>1
<1>4. ASSUME NEW i \in 1..(Len(failed) + 1)
      PROVE  attempts[i].verdict \in Verdicts \cup {"none"}
  <2>1. CASE i = Len(failed) + 1
      BY <1>1, <1>2, <2>1
  <2>2. CASE i # Len(failed) + 1
    <3>1. i \in 1..Len(failed)
        BY <1>2, <2>2
    <3>2. attempts[i] = failed[i] /\ failed[i] \in T
        BY <1>1, <1>2, <3>1
    <3>3. QED BY <3>2
  <2>3. QED BY <2>1, <2>2
<1> HIDE DEF attempts
<1>5. Len(failed) + 1 \in Nat /\ Len(failed) + 1 > 0
    BY <1>2
<1>6. Classify(attempts) \in Verdicts \cup {"none"}
    BY <1>3, <1>4, <1>5, ClassifyIs
<1>7. QED BY <1>6 DEF attempts

\* The generic engine's error ends the call, unless it is our own pacing's raw
\* refusal of a short link.
LEMMA AnsweredLeads ==
    ASSUME TypeOK, NEW v \in Verdicts \cup {"none"}, Answered(v)
    PROVE  \/ Ended /\ (via # "twitter" => answer'.verdict = v)
           \/ HandedOver /\ via = "link" /\ v = "quota"
<1>1. refused \in BOOLEAN
    BY DEF TypeOK
<1>2. CASE via = "twitter"
  <2> DEFINE said == Classify(Append(failed, [source |-> "crawl4ai", verdict |-> v]))
  <2>1. said \in Verdicts \cup {"none"}
      BY ErrorOfTwitter
  <2>2. EngineFailed(said, TRUE, FALSE)
      BY <1>2 DEF Answered
  <2> HIDE DEF said
  <2>3. QED BY <1>1, <1>2, <2>1, <2>2, EngineFailedLeads
<1>3. CASE via = "link"
  <2>1. EngineFailed(v, TRUE, v = "quota")
      BY <1>3 DEF Answered
  <2>2. CASE v = "quota"
    <3>1. EngineFailed(v, TRUE, TRUE)
        BY <2>1, <2>2
    <3>2. (Ended /\ answer' = [verdict |-> v, by |-> "engine"]) \/ HandedOver
        BY <1>1, <3>1, EngineFailedLeads
    <3>3. QED BY <1>3, <2>2, <3>2
  <2>3. CASE v # "quota"
    <3>1. EngineFailed(v, TRUE, FALSE)
        BY <2>1, <2>3
    <3>2. Ended /\ answer' = [verdict |-> v, by |-> "engine"]
        BY <1>1, <3>1, EngineFailedLeads
    <3>3. QED BY <3>2
  <2>4. QED BY <2>2, <2>3
<1>4. CASE via \notin {"twitter", "link"}
  <2>1. pc' = "done" /\ answer' = [verdict |-> v, by |-> "generic"] /\ UNCHANGED <<via, refused>>
      BY <1>4 DEF Answered, Finish
  <2>2. QED BY <1>1, <2>1 DEF Ended
<1>5. QED BY <1>2, <1>3, <1>4

\* When the generic engine returns, the call ends.
LEMMA ReturnLeads ==
    ASSUME TypeOK, NEW v \in (Verdicts \cup {"none"}) \ {"quota"}, Return(v)
    PROVE  /\ mine' = 0 /\ attempt' = 0 /\ noWait' = FALSE /\ err' = NoError
           /\ Ended /\ (via # "twitter" => answer'.verdict = v)
<1>1. mine' = 0 /\ attempt' = 0 /\ noWait' = FALSE /\ err' = NoError
    BY DEF Return
<1>2. CASE v # "document" /\ Answered(v)
    BY <1>1, <1>2, AnsweredLeads
<1>3. CASE v = "document" /\ Finish(v, "generic") /\ UNCHANGED <<via, refused>>
    BY <1>1, <1>3 DEF Finish, Ended, TypeOK, Verdicts
<1>4. CASE v = "document" /\ via = "twitter" /\ Answered("thin")
  <2>1. "thin" \in Verdicts
      BY DEF Verdicts
  <2>2. QED BY <1>1, <1>4, <2>1, AnsweredLeads
<1>5. QED BY <1>2, <1>3, <1>4 DEF Return

\* From a step of the ladder on, the call ends or goes to a step with a remedy.
LEMMA GoOnLeads ==
    ASSUME NEW i \in 0..6, NEW o, GoOn(i, o)
    PROVE  \/ Return(o.kind)
           \/ /\ live /\ o.kind # "document" /\ err' = o
              /\ \E j \in i + 1..6 :
                   /\ Qualifies(Order[j], o) /\ Climb(Order[j])
                   /\ \A k \in i + 1..6 : Qualifies(Order[k], o) => j <= k
                   /\ noWait' = (noWait \/ Order[j] = "no_wait")
<1> DEFINE ahead == {j \in i + 1..Len(Order) : Qualifies(Order[j], o)}
<1>1. Len(Order) = 6
    BY DEF Order
<1>2. CASE o.kind = "document" \/ ~live \/ ahead = {}
    BY <1>2 DEF GoOn
<1>3. CASE ~ (o.kind = "document" \/ ~live \/ ahead = {})
  <2>1. ahead \in SUBSET Nat /\ ahead # {}
      BY <1>1, <1>3
  <2>2. Min(ahead) \in ahead /\ \A k \in ahead : Min(ahead) <= k
      BY <2>1, MinIsLeast
  <2>3. Climb(Order[Min(ahead)]) /\ noWait' = (noWait \/ Order[Min(ahead)] = "no_wait") /\ err' = o
      BY <1>3 DEF GoOn
  <2> DEFINE j == Min(ahead)
  <2>4. j \in i + 1..6 /\ Qualifies(Order[j], o)
      BY <1>1, <2>2
  <2>5. \A k \in i + 1..6 : Qualifies(Order[k], o) => j <= k
      BY <1>1, <2>2
  <2> HIDE DEF ahead
  <2>6. QED BY <1>3, <2>3, <2>4, <2>5
<1>4. QED BY <1>2, <1>3

-----------------------------------------------------------------------------
(* The steps before the ladder.                                            *)

\* Nothing is known of the page before the ladder begins.
LEMMA AtStart ==
    ASSUME IInv, pc \in Before
    PROVE  /\ TypeOK /\ ladders = 0 /\ ~blocked /\ ~refused /\ answer = NoAnswer
           /\ \A i \in DOMAIN walls : walls[i] = 0
           /\ err.kind # "quota" /\ ranOut = {}
<1>1. /\ TypeOK /\ Phases /\ Blocks /\ Walls /\ Waited /\ pc \in First
      /\ pc \notin {"networkidle", "alt_fingerprint", "probe", "pdf_retry", "done"}
    BY DEF IInv, First, Before
<1>2. DOMAIN walls = {"modern", "default", "none"}
    BY <1>1 DEF TypeOK
<1>3. QED BY <1>1, <1>2 DEF Phases, Blocks, Walls, Waited

\* A step that ends the call, with the invariant's demands on its answer.
LEMMA EndKeeps ==
    ASSUME IInv, TypeOK', Ended, UNCHANGED <<request, live, ladders>>,
           err'.kind # "quota", WallMetOnce', WaitRunsOutOnce', VerdictKept',
           ExplicitFormatKept'
    PROVE  IInv'
<1>1. ladders <= 1 /\ ladders' <= 1
    BY DEF IInv, Phases, OneLadder
<1>2. Phases'
    BY <1>1 DEF Phases, OneLadder, Ended, Before
<1>3. Formats' /\ Blocks' /\ Walls' /\ Waited'
    BY DEF Formats, Blocks, Walls, Waited, Ended, First, Before, Generic, Ladder, Rungs, PdfRungs
<1>4. QED BY <1>2, <1>3 DEF IInv, AnswerKept

\* What such a step leaves alone.
Unmoved == UNCHANGED <<live, attempt, noWait, err, ladders, walls, raced, ranOut, blocked>>

\* A step before the ladder ends the call with what an engine says or with an
\* error, or leads to another such step.
LEMMA BeforeKeeps ==
    ASSUME IInv, TypeOK', pc \in Before, Unmoved,
           \/ /\ Ended /\ UNCHANGED request
              /\ answer'.verdict = "document" => answer'.by = "engine" \/ pc = "waiting"
           \/ /\ pc' \in Before /\ UNCHANGED <<answer, refused>>
              /\ pc' \in {"idle", "resolving", "sources"} => Len(failed') < Len(Sources)
              /\ request'.explicit /\ request'.engine # "none" /\ pc' = "waiting" => via' = "link"
    PROVE  IInv'
<1>1. /\ TypeOK /\ ladders = 0 /\ ~blocked /\ ~refused /\ answer = NoAnswer
      /\ \A i \in DOMAIN walls : walls[i] = 0
      /\ err.kind # "quota" /\ ranOut = {}
    BY AtStart
<1>2. UNCHANGED <<live, attempt, noWait, err, ladders, walls, raced, ranOut, blocked>>
    BY DEF Unmoved
<1>3. WallMetOnce' /\ WaitRunsOutOnce'
    BY <1>1, <1>2 DEF WallMetOnce, WaitRunsOutOnce
<1>4. CASE /\ Ended /\ UNCHANGED request
           /\ answer'.verdict = "document" => answer'.by = "engine" \/ pc = "waiting"
  <2>1. VerdictKept'
      BY <1>1, <1>2 DEF VerdictKept
  <2>2. ExplicitFormatKept'
      BY <1>4 DEF IInv, Formats, ExplicitFormatKept, Generic, Ended
  <2>3. QED BY <1>1, <1>2, <1>3, <1>4, <2>1, <2>2, EndKeeps
<1>5. CASE /\ pc' \in Before /\ UNCHANGED <<answer, refused>>
           /\ pc' \in {"idle", "resolving", "sources"} => Len(failed') < Len(Sources)
           /\ request'.explicit /\ request'.engine # "none" /\ pc' = "waiting" => via' = "link"
  <2>1. Phases'
      BY <1>1, <1>2, <1>5 DEF Phases, OneLadder, Before
  <2>2. Formats'
      BY <1>5 DEF Formats, Before, Generic, Ladder, Rungs, PdfRungs
  <2>3. Blocks' /\ Walls' /\ Waited'
    <3>1. pc' \in First /\ pc' \notin Rungs
        BY <1>5 DEF Before, First, Rungs, PdfRungs
    <3>2. \A i \in {"modern", "default", "none"} : walls'[i] = 0
        BY <1>1, <1>2 DEF TypeOK
    <3>3. Blocks' /\ Waited'
        BY <1>1, <1>2, <1>3, <3>1 DEF Blocks, Waited, Rungs, PdfRungs
    <3>4. Walls'
        BY <1>3, <3>1, <3>2 DEF Walls, Rungs, PdfRungs
    <3>5. QED BY <3>3, <3>4
  <2>4. AnswerKept'
      BY <1>1, <1>5 DEF AnswerKept, VerdictKept, ExplicitFormatKept, NoAnswer, Before
  <2>5. QED BY <1>3, <2>1, <2>2, <2>3, <2>4 DEF IInv
<1>6. QED BY <1>4, <1>5

\* The types of a step that ends the call or hands it over, and may give a slot back.
LEMMA LeadsType ==
    ASSUME TypeOK, Unmoved, Ended \/ HandedOver,
           UNCHANGED <<request, failed, others>>, mine' \in {0, mine}
    PROVE  TypeOK'
<1>1. /\ mine \in 0..1 /\ others \in 0..Slots /\ mine + others <= Slots /\ Slots \in Nat
      /\ answer \in [verdict : Verdicts \cup {"none"}, by : {"none", "engine", "generic"}]
    BY ConfigAssumption DEF TypeOK
<1>2. mine' \in 0..1 /\ mine' + others' <= Slots /\ others' \in 0..Slots
  <2>1. others' = others
      OBVIOUS
  <2>2. CASE mine' = 0
      BY <1>1, <2>1, <2>2
  <2>3. CASE mine' = mine
      BY <1>1, <2>1, <2>3
  <2>4. QED BY <2>2, <2>3
<1>3. /\ pc' \in States /\ via' \in {"none", "registry", "fallback", "twitter", "link"}
      /\ refused' \in BOOLEAN
    BY DEF TypeOK, Ended, HandedOver, States, Generic
<1>4. answer' \in [verdict : Verdicts \cup {"none"}, by : {"none", "engine", "generic"}]
    BY <1>1 DEF Ended, HandedOver
<1>5. QED BY <1>2, <1>3, <1>4 DEF TypeOK, Unmoved

\* A dedicated engine that fails before any ladder.
LEMMA FailsKeeps ==
    ASSUME IInv, pc \in Before, Unmoved, NEW v \in Verdicts, NEW final \in BOOLEAN,
           NEW raw \in BOOLEAN, EngineFailed(v, final, raw),
           UNCHANGED <<request, failed, others>>, mine' \in {0, mine}
    PROVE  IInv'
<1>1. TypeOK /\ refused \in BOOLEAN
    BY DEF IInv, TypeOK
<1>2. (Ended /\ answer' = [verdict |-> v, by |-> "engine"]) \/ HandedOver
    BY <1>1, EngineFailedLeads
<1>3. TypeOK'
    BY <1>1, <1>2, LeadsType
<1>4. CASE Ended /\ answer' = [verdict |-> v, by |-> "engine"]
    BY <1>3, <1>4, BeforeKeeps
<1>5. CASE HandedOver
  <2>1. pc' \in Before /\ pc' = "waiting" /\ UNCHANGED <<answer, refused>> /\ ~request'.explicit
      BY <1>5 DEF HandedOver, Before
  <2>2. QED BY <1>3, <2>1, BeforeKeeps
<1>6. QED BY <1>2, <1>4, <1>5

\* The registry refuses the URL, or takes it to whoever claims it.
LEMMA DispatchKeeps == ASSUME IInv, Reject \/ Dispatch PROVE IInv'
<1>1. pc = "idle" /\ TypeOK /\ Unmoved /\ UNCHANGED <<mine, others, failed, refused>>
    BY DEF Reject, Dispatch, Unmoved, IInv, crawl, history
<1>2. CASE Reject
  <2>1. /\ pc' = "done" /\ answer' = [verdict |-> "invalid", by |-> "none"]
        /\ UNCHANGED <<via, request>>
      BY <1>2 DEF Reject, Finish, crawl
  <2>2. Ended
      BY <1>1, <2>1 DEF Ended, TypeOK, Verdicts
  <2>3. TypeOK'
      BY <1>1, <2>1, <2>2, LeadsType
  <2>4. QED BY <1>1, <2>1, <2>2, <2>3, BeforeKeeps DEF Before
<1>3. CASE Dispatch
  <2>1. request' \in [engine : Engines, explicit : BOOLEAN]
      BY <1>3 DEF Dispatch
  <2>2. /\ pc' \in {"waiting", "queued", "engine", "resolving", "sources"} /\ UNCHANGED answer
        /\ via' \in {via, "registry"}
        /\ pc' = "waiting" => request'.engine = "none"
    <3>1. CASE request'.engine = "none"
        BY <1>3, <3>1 DEF Dispatch, CallGeneric
    <3>2. CASE request'.engine = "same host"
        BY <1>3, <3>2 DEF Dispatch
    <3>3. CASE request'.engine = "other host"
        BY <1>3, <3>3 DEF Dispatch
    <3>4. CASE request'.engine = "twitter"
        BY <1>3, <3>4 DEF Dispatch
    <3>5. QED BY <2>1, <3>1, <3>2, <3>3, <3>4 DEF Engines
  <2>3. pc' \in Before /\ pc' \in States
      BY <2>2 DEF Before, States, Generic
  <2>4. TypeOK'
      BY <1>1, <2>1, <2>2, <2>3 DEF TypeOK, Unmoved
  <2>5. Len(failed') < Len(Sources)
      BY <1>1 DEF IInv, Phases
  <2>6. pc \in Before /\ UNCHANGED <<answer, refused>>
      BY <1>1, <2>2 DEF Before
  <2>7. request'.explicit /\ request'.engine # "none" /\ pc' = "waiting" => via' = "link"
      BY <2>2
  <2>8. QED BY <1>1, <2>3, <2>4, <2>5, <2>6, <2>7, BeforeKeeps
<1>4. QED BY <1>2, <1>3

\* A dedicated engine waits for its slot, serves the page or fails.
LEMMA EngineKeeps == ASSUME IInv, EngineStep PROVE IInv'
<1>1. TypeOK /\ Slots \in Nat
    BY ConfigAssumption DEF IInv
<1>2. CASE EngineEnters
  <2>1. /\ pc = "queued" /\ pc' = "engine" /\ mine' = 1 /\ mine + others < Slots
        /\ UNCHANGED <<request, others, via, failed, answer, refused>> /\ Unmoved
      BY <1>2 DEF EngineEnters, Unmoved, crawl, history
  <2>2. mine' \in 0..1 /\ mine' + others' <= Slots
      BY <1>1, <2>1 DEF TypeOK
  <2>3. TypeOK'
      BY <1>1, <2>1, <2>2 DEF TypeOK, Unmoved, States
  <2>4. QED BY <2>1, <2>3, BeforeKeeps DEF Before
<1>3. CASE EngineRefused
  <2>1. PICK v \in {"quota"} \cup (IF live THEN {} ELSE {"gone"}) : EngineFailed(v, FALSE, v = "quota")
      BY <1>3 DEF EngineRefused
  <2>2. v \in Verdicts /\ (v = "quota") \in BOOLEAN
      BY <2>1 DEF Verdicts
  <2>3. /\ pc \in Before /\ Unmoved /\ UNCHANGED <<request, failed, others>> /\ mine' \in {0, mine}
      BY <1>3 DEF EngineRefused, Before, Unmoved
  <2>4. QED BY <2>1, <2>2, <2>3, FailsKeeps
<1>4. CASE EngineServes
  <2>1. /\ pc = "engine" /\ pc' = "done" /\ mine' = 0 /\ answer' = [verdict |-> "document", by |-> "engine"]
        /\ UNCHANGED <<request, others, via, failed, refused>> /\ Unmoved
      BY <1>4 DEF EngineServes, Finish, Unmoved, crawl, history
  <2>2. Ended
      BY <1>1, <2>1 DEF Ended, TypeOK, Verdicts
  <2>3. TypeOK'
      BY <1>1, <2>1, <2>2, LeadsType
  <2>4. QED BY <2>1, <2>2, <2>3, BeforeKeeps DEF Before
<1>5. CASE EngineErrs
  <2>1. PICK v \in {"block", "rate", "quota", "not found", "fault", "timeout"}, final \in BOOLEAN :
            EngineFailed(v, final, FALSE)
      BY <1>5 DEF EngineErrs
  <2>2. v \in Verdicts
      BY DEF Verdicts
  <2>3. /\ pc \in Before /\ Unmoved /\ UNCHANGED <<request, failed, others>> /\ mine' \in {0, mine}
      BY <1>5 DEF EngineErrs, Before, Unmoved
  <2>4. QED BY <2>1, <2>2, <2>3, FailsKeeps
<1>6. QED BY <1>2, <1>3, <1>4, <1>5 DEF EngineStep

\* There are three sources, so with two or fewer behind it the chain has a next one.
LEMMA ThreeSources ==
    \A n \in 0..2 :
      /\ Sources[n + 1] \in {"fxtwitter", "syndication", "vxtwitter"}
      /\ 1 \in 1..(n + 1) /\ n + 1 \in 1..(n + 1)
<1> TAKE n \in 0..2
<1>1. n = 0 \/ n = 1 \/ n = 2
    OBVIOUS
<1>2. Sources[n + 1] \in {"fxtwitter", "syndication", "vxtwitter"}
  <2>1. CASE n = 0
    <3>1. Sources[1] \in {"fxtwitter", "syndication", "vxtwitter"}
        BY DEF Sources
    <3>2. QED BY <2>1, <3>1
  <2>2. CASE n = 1
    <3>1. Sources[2] \in {"fxtwitter", "syndication", "vxtwitter"}
        BY DEF Sources
    <3>2. QED BY <2>2, <3>1
  <2>3. CASE n = 2
    <3>1. Sources[3] \in {"fxtwitter", "syndication", "vxtwitter"}
        BY DEF Sources
    <3>2. QED BY <2>3, <3>1
  <2>4. QED BY <1>1, <2>1, <2>2, <2>3
<1>3. QED BY <1>2

\* A list of errors with one more is a list of errors.
LEMMA OneMore ==
    ASSUME NEW T, NEW list \in Seq(T), NEW last \in T
    PROVE  /\ Append(list, last) \in Seq(T) /\ Len(Append(list, last)) = Len(list) + 1
           /\ DOMAIN Append(list, last) = 1..Len(Append(list, last))
BY AppendProperties, LenProperties

\* The types of a step that only lengthens the list.
LEMMA OneMoreType ==
    ASSUME TypeOK, Unmoved, UNCHANGED <<request, mine, others, pc, via, answer, refused>>,
           failed' \in Seq([source : {"fxtwitter", "syndication", "vxtwitter"}, verdict : Verdicts])
    PROVE  TypeOK'
BY DEF TypeOK, Unmoved

\* One source after the other fails, until the caller is gone, the errors are all
\* there is to say, or the post's page is rendered.
LEMMA SourceKeeps == ASSUME IInv, SourceFails PROVE IInv'
<1> DEFINE T == [source : {"fxtwitter", "syndication", "vxtwitter"}, verdict : Verdicts]
<1>1. /\ TypeOK /\ refused \in BOOLEAN /\ failed \in Seq(T) /\ Len(failed) \in 0..2
      /\ Len(Sources) = 3 /\ pc = "sources"
      /\ UNCHANGED <<request, mine, others>> /\ Unmoved
  <2>1. TypeOK /\ refused \in BOOLEAN /\ failed \in Seq(T)
      BY DEF IInv, TypeOK
  <2>2. pc = "sources" /\ UNCHANGED <<request, mine, others>> /\ Unmoved
      BY DEF SourceFails, Unmoved
  <2>3. Len(Sources) = 3
      BY DEF Sources
  <2> HIDE DEF T
  <2>4. Len(failed) \in Nat /\ Len(failed) < 3
      BY <2>1, <2>2, <2>3, LenProperties DEF IInv, Phases
  <2>5. \A n \in Nat : n < 3 => n \in 0..2
      OBVIOUS
  <2>6. Len(failed) \in 0..2
      BY <2>4, <2>5
  <2>7. QED BY <2>1, <2>2, <2>3, <2>6
<1>2. PICK v \in {"not found", "rate", "block", "fault"} :
         LET attempts == Append(failed, [source |-> Sources[Len(failed) + 1], verdict |-> v])
         IN  IF ~live
             THEN EngineFailed("gone", FALSE, FALSE) /\ UNCHANGED failed
             ELSE /\ failed' = attempts
                  /\ IF Len(attempts) < Len(Sources)
                     THEN UNCHANGED <<pc, via, answer, refused>>
                     ELSE SourcesExhausted(attempts)
    BY DEF SourceFails
<1> DEFINE said == [source |-> Sources[Len(failed) + 1], verdict |-> v]
           attempts == Append(failed, said)
<1>3. said \in T
  <2>1. v \in Verdicts
      BY DEF Verdicts
  <2>2. Sources[Len(failed) + 1] \in {"fxtwitter", "syndication", "vxtwitter"}
      BY <1>1, ThreeSources
  <2>3. QED BY <2>1, <2>2
<1>4. attempts \in Seq(T) /\ Len(attempts) = Len(failed) + 1 /\ DOMAIN attempts = 1..Len(attempts)
  <2> HIDE DEF T, said
  <2>1. QED BY <1>1, <1>3, OneMore
<1>5. Classify(attempts) \in Verdicts
  <2> HIDE DEF attempts
  <2>1. \A i \in 1..Len(attempts) : attempts[i] \in T
    <3> HIDE DEF T
    <3>1. QED BY <1>4, ElementOfSeq
  <2>2. \A i \in 1..Len(attempts) : attempts[i].verdict \in Verdicts
      BY <2>1
  <2>3. 1 \in 1..Len(attempts) /\ Len(attempts) \in 1..Len(attempts)
    <3>1. QED BY <1>1, <1>4, ThreeSources
  <2> HIDE DEF T
  <2>4. attempts[1].verdict \in Verdicts /\ attempts[Len(attempts)].verdict \in Verdicts
      BY <2>2, <2>3
  <2>5. {"not found", "rate", "fault"} \subseteq Verdicts
      BY DEF Verdicts
  <2>6. QED BY <2>4, <2>5 DEF Classify
<1>6. CASE ~live
  <2>1. EngineFailed("gone", FALSE, FALSE) /\ UNCHANGED failed /\ "gone" \in Verdicts
      BY <1>2, <1>6 DEF Verdicts
  <2>2. QED BY <1>1, <2>1, FailsKeeps DEF Before
<1>7. CASE live
  <2>1. failed' = attempts /\ failed' \in Seq(T)
      BY <1>2, <1>4, <1>7
  <2>2. CASE Len(attempts) < Len(Sources)
    <3>1. UNCHANGED <<pc, via, answer, refused>>
        BY <1>2, <1>7, <2>2
    <3> HIDE DEF attempts
    <3>2. TypeOK'
      <4>1. failed' \in Seq(T)
          BY <2>1
      <4>2. QED BY <1>1, <3>1, <4>1, OneMoreType
    <3>3. Len(failed') < Len(Sources)
        BY <2>1, <2>2
    <3>4. pc \in Before /\ pc' \in Before /\ pc' # "waiting"
        BY <1>1, <3>1 DEF Before
    <3>5. QED BY <1>1, <3>1, <3>2, <3>3, <3>4, BeforeKeeps
  <2>3. CASE ~ (Len(attempts) < Len(Sources))
    <3>1. SourcesExhausted(attempts)
        BY <1>2, <1>7, <2>3
    <3> HIDE DEF attempts
    <3>2. \/ Ended /\ answer'.by = "engine"
          \/ pc' = "waiting" /\ via' = "twitter" /\ ~request.explicit /\ UNCHANGED <<answer, refused>>
      <4>1. CASE NotFound(attempts) \/ request.explicit
        <5>1. EngineFailed(Classify(attempts), TRUE, FALSE)
            BY <3>1, <4>1 DEF SourcesExhausted
        <5>2. Ended /\ answer' = [verdict |-> Classify(attempts), by |-> "engine"]
            BY <1>1, <1>5, <5>1, EngineFailedLeads
        <5>3. QED BY <5>2
      <4>2. CASE ~ (NotFound(attempts) \/ request.explicit)
          BY <3>1, <4>2 DEF SourcesExhausted, CallGeneric
      <4>3. QED BY <4>1, <4>2
    <3>3. TypeOK'
      <4>1. /\ pc' \in States /\ via' \in {"none", "registry", "fallback", "twitter", "link"}
            /\ refused' \in BOOLEAN
            /\ answer' \in [verdict : Verdicts \cup {"none"}, by : {"none", "engine", "generic"}]
          BY <1>1, <3>2 DEF Ended, TypeOK, States, Generic
      <4>2. QED BY <1>1, <2>1, <4>1 DEF TypeOK, Unmoved
    <3>4. pc \in Before
        BY <1>1 DEF Before
    <3>5. CASE Ended /\ answer'.by = "engine"
        BY <1>1, <3>3, <3>4, <3>5, BeforeKeeps
    <3>6. CASE /\ pc' = "waiting" /\ via' = "twitter" /\ ~request.explicit
               /\ UNCHANGED <<answer, refused>>
      <4>1. pc' \in Before /\ pc' \notin {"idle", "resolving", "sources"} /\ ~request'.explicit
          BY <1>1, <3>6 DEF Before
      <4>2. QED BY <1>1, <3>3, <3>4, <3>6, <4>1, BeforeKeeps
    <3>7. QED BY <3>2, <3>5, <3>6
  <2>4. QED BY <2>2, <2>3
<1>8. QED BY <1>1, <1>6, <1>7 DEF TypeOK

\* The Twitter engine resolves the link and asks its sources.
LEMMA TwitterKeeps == ASSUME IInv, TwitterStep PROVE IInv'
<1>1. TypeOK
    BY DEF IInv
<1>2. CASE LinkToPost \/ LinkElsewhere
  <2>1. /\ pc = "resolving" /\ pc' \in {"sources", "waiting"} /\ (pc' = "waiting" => via' = "link")
        /\ via' \in {via, "link"}
        /\ UNCHANGED <<request, mine, others, failed, answer, refused>> /\ Unmoved
      BY <1>2 DEF LinkToPost, LinkElsewhere, CallGeneric, Unmoved, crawl, history
  <2>2. TypeOK'
      BY <1>1, <2>1 DEF TypeOK, Unmoved, States, Generic
  <2>3. Len(failed') < Len(Sources)
      BY <2>1 DEF IInv, Phases
  <2>4. QED BY <2>1, <2>2, <2>3, BeforeKeeps DEF Before
<1>3. CASE LinkFails
  <2>1. \E v \in Verdicts, final \in BOOLEAN : EngineFailed(v, final, FALSE)
      BY <1>3 DEF LinkFails, Verdicts
  <2>2. /\ pc \in Before /\ Unmoved /\ UNCHANGED <<request, failed, others>> /\ mine' \in {0, mine}
      BY <1>3 DEF LinkFails, Before, Unmoved
  <2>3. QED BY <2>1, <2>2, FailsKeeps
<1>4. CASE SourceServes
  <2>1. /\ pc = "sources" /\ pc' = "done" /\ answer' = [verdict |-> "document", by |-> "engine"]
        /\ UNCHANGED <<request, mine, others, via, failed, refused>> /\ Unmoved
      BY <1>4 DEF SourceServes, Finish, Unmoved, crawl, history
  <2>2. Ended
      BY <1>1, <2>1 DEF Ended, TypeOK, Verdicts
  <2>3. TypeOK'
      BY <1>1, <2>1, <2>2, LeadsType
  <2>4. QED BY <2>1, <2>2, <2>3, BeforeKeeps DEF Before
<1>5. CASE SourceFails
    BY <1>5, SourceKeeps
<1>6. QED BY <1>2, <1>3, <1>4, <1>5 DEF TwitterStep

-----------------------------------------------------------------------------
(* The ladder.                                                             *)

\* Which step follows which rung, and why: the first with a remedy.
Remedy(step, o) ==
    LET early == {"base", "no_wait", "networkidle"}
    IN  /\ step = "no_wait" \/ (pc = "base" => "wait" \notin o.says)
        /\ \/ step = "no_wait" /\ pc = "base" /\ "wait" \in o.says
           \/ step = "networkidle" /\ pc \in {"base", "no_wait"} /\ "navigating" \in o.says
           \/ step = "alt_fingerprint" /\ pc \in early /\ o.kind = "block"
           \/ step = "no_selector" /\ pc \in early /\ o.kind = "thin"
           \/ step = "rescue" /\ IsRescuable(o.kind)
           \/ step = "probe" /\ (IsRescuable(o.kind) \/ "download" \in o.says)

\* The order of the steps, spelled out.
LEMMA OrderIs ==
    /\ Order[1] = "no_wait" /\ Order[2] = "networkidle" /\ Order[3] = "alt_fingerprint"
    /\ Order[4] = "no_selector" /\ Order[5] = "rescue" /\ Order[6] = "probe"
    /\ \A i \in 0..6 : \A j \in i + 1..6 :
          j \in 1..6 /\ i < j /\ (j = 1 \/ j = 2 \/ j = 3 \/ j = 4 \/ j = 5 \/ j = 6)
<1>1. \A i \in 0..6 : \A j \in i + 1..6 :
          j \in 1..6 /\ i < j /\ (j = 1 \/ j = 2 \/ j = 3 \/ j = 4 \/ j = 5 \/ j = 6)
    OBVIOUS
<1>2. QED BY <1>1 DEF Order

\* A step of Order that qualifies and is the first to is the remedy.
LEMMA QualifiesIs ==
    ASSUME NEW i \in 0..4, NEW o, NEW j \in i + 1..6, Qualifies(Order[j], o),
           \A k \in i + 1..6 : Qualifies(Order[k], o) => j <= k,
           \/ pc = "base" /\ i = 0
           \/ pc = "no_wait" /\ i = 1
           \/ pc = "networkidle" /\ i = 2
           \/ pc = "no_selector" /\ i = 4
    PROVE  Order[j] \in Ladder /\ Remedy(Order[j], o)
<1>1. /\ i \in 0..6 /\ i < j
      /\ j = 1 \/ j = 2 \/ j = 3 \/ j = 4 \/ j = 5 \/ j = 6
    BY OrderIs
<1>2. Order[j] \in Ladder
    BY <1>1, OrderIs DEF Ladder, Rungs
<1>3. Order[j] = "no_wait" \/ (pc = "base" => "wait" \notin o.says)
  <2>1. SUFFICES ASSUME j # 1, pc = "base", "wait" \in o.says PROVE FALSE
      BY OrderIs
  <2>2. i = 0
      BY <2>1
  <2>3. Qualifies(Order[1], o)
      BY <2>1, OrderIs DEF Qualifies
  <2>4. 1 \in i + 1..6
      BY <2>2
  <2>5. j <= 1
      BY <2>3, <2>4
  <2>6. QED BY <1>1, <2>1, <2>2, <2>5
<1>4. \/ j = 1 /\ "wait" \in o.says
      \/ j = 2 /\ "navigating" \in o.says
      \/ j = 3 /\ o.kind = "block"
      \/ j = 4 /\ o.kind = "thin"
      \/ j = 5 /\ IsRescuable(o.kind)
      \/ j = 6 /\ (IsRescuable(o.kind) \/ "download" \in o.says)
    BY <1>1, OrderIs DEF Qualifies, IsBlock
<1>5. /\ j = 1 => pc = "base"
      /\ j = 2 => pc \in {"base", "no_wait"}
      /\ j = 3 => pc \in {"base", "no_wait", "networkidle"}
      /\ j = 4 => pc \in {"base", "no_wait", "networkidle"}
    BY <1>1
<1>6. QED BY <1>1, <1>2, <1>3, <1>4, <1>5, OrderIs DEF Remedy

\* On the ladder nothing has been refused or answered.
LEMMA OnLadder ==
    ASSUME IInv, pc \in Ladder
    PROVE  /\ TypeOK /\ ~refused /\ answer = NoAnswer /\ ladders <= 1 /\ pc \in Generic
           /\ pc # "done" /\ pc \notin Before
           /\ request.explicit /\ request.engine # "none" => via = "link"
<1>1. pc \in Generic /\ pc # "done" /\ pc \notin Before
    BY DEF Ladder, Generic, Rungs, PdfRungs, Before
<1>2. QED BY <1>1 DEF IInv, Phases, OneLadder, Formats

\* None or a first attempt are among those there are.
LEMMA Counts == 0 \in 0..MaxAttempts /\ 1 \in 0..MaxAttempts
<1>1. MaxAttempts \in Nat /\ MaxAttempts >= 1
    BY ConfigAssumption
<1>2. QED BY <1>1

\* A step that goes on to another step of the ladder.
LEMMA ClimbKeeps ==
    ASSUME IInv, pc \in Ladder, NEW rung \in Ladder, Climb(rung),
           UNCHANGED <<request, live, others, failed, ladders>>,
           err' \in Outcomes \cup {NoError}, noWait' \in BOOLEAN, ranOut' \subseteq Rungs,
           walls' \in [{"modern", "default", "none"} -> Nat], raced' \in BOOLEAN,
           blocked' \in BOOLEAN, Blocks', Walls', Waited'
    PROVE  IInv'
<1>1. /\ TypeOK /\ ~refused /\ answer = NoAnswer /\ ladders <= 1
      /\ request.explicit /\ request.engine # "none" => via = "link"
    BY OnLadder
<1>2. /\ pc' = rung /\ attempt' = 1 /\ UNCHANGED <<mine, via, answer, refused>>
      /\ attempt' \in 0..MaxAttempts
    BY Counts DEF Climb
<1>3. pc' \in States /\ pc' # "done" /\ pc' \notin Before /\ pc' \in Generic
    BY <1>2 DEF States, Generic, Ladder, Rungs, PdfRungs, Before
<1>4. TypeOK'
    BY <1>1, <1>2, <1>3 DEF TypeOK
<1>5. Phases'
  <2>1. ~refused' /\ answer' = NoAnswer /\ ladders' <= 1
      BY <1>1, <1>2 DEF NoAnswer
  <2>2. pc' \notin {"idle", "resolving", "sources"}
      BY <1>3 DEF Before
  <2>3. QED BY <1>3, <2>1, <2>2 DEF Phases, OneLadder, NoAnswer
<1>6. Formats'
    BY <1>1, <1>2 DEF Formats
<1>7. AnswerKept'
    BY <1>1, <1>2, <1>3 DEF AnswerKept, VerdictKept, ExplicitFormatKept, NoAnswer
<1>8. QED BY <1>4, <1>5, <1>6, <1>7 DEF IInv

\* A step that ends the ladder.
LEMMA ReturnKeeps ==
    ASSUME IInv, pc \in Ladder, NEW v \in (Verdicts \cup {"none"}) \ {"quota"}, Return(v),
           UNCHANGED <<request, live, others, failed, ladders>>, ranOut' \subseteq Rungs,
           walls' \in [{"modern", "default", "none"} -> Nat], raced' \in BOOLEAN,
           blocked' \in BOOLEAN, WallMetOnce', WaitRunsOutOnce',
           blocked' => v = "document" \/ IsBlock(v)
    PROVE  IInv'
<1>1. /\ TypeOK
      /\ request.explicit /\ request.engine # "none" => via = "link"
    BY OnLadder
<1>2. /\ mine' = 0 /\ attempt' = 0 /\ noWait' = FALSE /\ err' = NoError
      /\ Ended /\ (via # "twitter" => answer'.verdict = v)
    BY <1>1, ReturnLeads
<1>3. TypeOK'
  <2>1. mine' \in 0..1 /\ others' \in 0..Slots /\ mine' + others' <= Slots
    <3>1. others' = others /\ others \in 0..Slots /\ Slots \in Nat
        BY <1>1, ConfigAssumption DEF TypeOK
    <3>2. QED BY <1>2, <3>1
  <2>2. /\ pc' \in States /\ via' \in {"none", "registry", "fallback", "twitter", "link"}
        /\ refused' \in BOOLEAN
        /\ answer' \in [verdict : Verdicts \cup {"none"}, by : {"none", "engine", "generic"}]
      BY <1>1, <1>2 DEF TypeOK, Ended, States
  <2>3. attempt' \in 0..MaxAttempts
      BY <1>2, Counts
  <2>4. QED BY <1>1, <1>2, <2>1, <2>2, <2>3 DEF TypeOK
<1>4. VerdictKept' /\ ExplicitFormatKept'
  <2>1. via' = via
      BY <1>2 DEF Ended
  <2>2. VerdictKept'
      BY <1>2, <2>1 DEF VerdictKept, IsBlock
  <2>3. ExplicitFormatKept'
      BY <1>1, <2>1 DEF ExplicitFormatKept
  <2>4. QED BY <2>2, <2>3
<1>5. err'.kind # "quota"
    BY <1>2 DEF NoError
<1>6. QED BY <1>2, <1>3, <1>4, <1>5, EndKeeps

\* What a rung's end does to the walls that have been met.
LEMMA WallsMet ==
    ASSUME IInv, pc \in Rungs, NEW o, MeetsWall(o) \/ UNCHANGED <<walls, raced>>
    PROVE  /\ walls' \in [{"modern", "default", "none"} -> Nat] /\ raced' \in BOOLEAN
           /\ WallMetOnce'
           /\ ~IsBlock(o.kind) => UNCHANGED <<walls, raced>>
           /\ pc \notin {"alt_fingerprint", "pdf_retry"} => walls'["default"] = 0
           /\ pc \notin PdfRungs => walls'["none"] = 0
           /\ pc \in {"base", "no_wait"} =>
                \/ walls'["modern"] = 0
                \/ walls'["modern"] = 1 /\ ("navigating" \in o.says => raced')
<1>1. /\ walls \in [{"modern", "default", "none"} -> Nat] /\ raced \in BOOLEAN
      /\ Walls /\ WallMetOnce /\ pc \notin {"probe", "done"}
    BY DEF IInv, TypeOK, Walls, Rungs, PdfRungs
<1>2. /\ pc \in {"base", "no_wait"} => walls["modern"] = 0
      /\ pc \in {"networkidle", "no_selector"} => walls["modern"] <= IF raced THEN 1 ELSE 0
      /\ pc # "pdf_retry" => walls["default"] = 0
      /\ walls["none"] = 0
    BY <1>1 DEF Walls, First
<1>3. CASE UNCHANGED <<walls, raced>>
    BY <1>1, <1>2, <1>3 DEF WallMetOnce
<1>4. CASE MeetsWall(o) /\ ~IsBlock(o.kind)
  <2>1. UNCHANGED <<walls, raced>>
      BY <1>4 DEF MeetsWall
  <2>2. QED BY <1>3, <2>1
<1>5. CASE MeetsWall(o) /\ IsBlock(o.kind)
  <2>1. /\ walls' = [walls EXCEPT ![Identity(pc)] = @ + 1]
        /\ raced' = (raced \/ "navigating" \in o.says)
      BY <1>5 DEF MeetsWall
  <2>2. CASE pc \in PdfRungs
    <3>1. walls' = [walls EXCEPT !["none"] = 1]
      <4>1. Identity(pc) = "none" /\ walls["none"] + 1 = 1
          BY <1>2, <2>2 DEF Identity
      <4>2. QED BY <2>1, <4>1
    <3>2. QED BY <1>1, <1>2, <1>5, <2>1, <2>2, <3>1 DEF WallMetOnce, PdfRungs
  <2>3. CASE pc = "alt_fingerprint"
    <3>1. walls' = [walls EXCEPT !["default"] = 1]
      <4>1. Identity(pc) = "default" /\ walls["default"] + 1 = 1
          BY <1>2, <2>3 DEF Identity, PdfRungs
      <4>2. QED BY <2>1, <4>1
    <3>2. QED BY <1>1, <1>2, <1>5, <2>1, <2>3, <3>1 DEF WallMetOnce, PdfRungs
  <2>4. CASE pc \in {"base", "no_wait", "networkidle", "no_selector"}
    <3>1. walls' = [walls EXCEPT !["modern"] = @ + 1]
        BY <2>1, <2>4 DEF Identity, PdfRungs
    <3>2. /\ walls'["modern"] = walls["modern"] + 1 /\ walls["modern"] \in Nat
          /\ walls'["default"] = 0 /\ walls'["none"] = 0
          /\ walls' \in [{"modern", "default", "none"} -> Nat]
        BY <1>1, <1>2, <2>4, <3>1 DEF PdfRungs
    <3>3. walls'["modern"] <= IF raced' THEN 2 ELSE 1
      <4>1. walls["modern"] <= IF raced THEN 1 ELSE 0
          BY <1>2, <2>4, <3>2
      <4>2. QED BY <1>1, <2>1, <3>2, <4>1
    <3>4. WallMetOnce'
        BY <3>2, <3>3 DEF WallMetOnce
    <3>5. pc \in {"base", "no_wait"} => walls'["modern"] = 1 /\ ("navigating" \in o.says => raced')
      <4>1. ASSUME pc \in {"base", "no_wait"} PROVE walls'["modern"] = 1
        <5>1. walls["modern"] = 0
            BY <1>2, <4>1
        <5>2. QED BY <3>2, <5>1
      <4>2. "navigating" \in o.says => raced'
          BY <2>1
      <4>3. QED BY <4>1, <4>2
    <3>6. raced' \in BOOLEAN
        BY <1>1, <2>1
    <3>7. QED BY <1>5, <2>4, <3>2, <3>4, <3>5, <3>6
  <2>5. QED BY <2>2, <2>3, <2>4 DEF Rungs, PdfRungs
<1>6. QED BY <1>3, <1>4, <1>5

\* A rung ends the ladder, with its own outcome or the block that stands after the try
\* as someone else, or leads to a remedy.
LEMMA ConcludeLeads ==
    ASSUME IInv, pc \in Rungs, NEW o \in Sound, Conclude(o)
    PROVE  \/ /\ Return(o.kind)
              /\ pc = "alt_fingerprint" => o.kind = "document"
           \/ pc = "alt_fingerprint" /\ Return("block")
           \/ /\ pc = "alt_fingerprint" /\ Climb("probe") /\ "download" \in err.says
              /\ UNCHANGED <<noWait, err>>
           \/ pc = "pdf" /\ ~IsBlock(o.kind) /\ Climb("base") /\ UNCHANGED <<noWait, err>>
           \/ /\ pc \in {"base", "no_wait", "networkidle", "no_selector"} /\ err' = o
              /\ \E step \in Ladder : /\ Remedy(step, o) /\ Climb(step)
                                      /\ noWait' = (noWait \/ step = "no_wait")
<1>1. pc = "alt_fingerprint" => err.kind = "block"
    BY DEF IInv, Blocks
<1>2. ASSUME NEW i \in 0..4, GoOn(i, o),
             \/ pc = "base" /\ i = 0
             \/ pc = "no_wait" /\ i = 1
             \/ pc = "networkidle" /\ i = 2
             \/ pc = "no_selector" /\ i = 4
      PROVE  \/ Return(o.kind)
             \/ /\ err' = o
                /\ \E step \in Ladder : /\ Remedy(step, o) /\ Climb(step)
                                        /\ noWait' = (noWait \/ step = "no_wait")
  <2>1. i \in 0..6
      BY <1>2
  <2>2. CASE Return(o.kind)
      BY <2>2
  <2>3. CASE /\ err' = o
             /\ \E j \in i + 1..6 :
                  /\ Qualifies(Order[j], o) /\ Climb(Order[j])
                  /\ \A k \in i + 1..6 : Qualifies(Order[k], o) => j <= k
                  /\ noWait' = (noWait \/ Order[j] = "no_wait")
    <3>1. PICK j \in i + 1..6 :
             /\ Qualifies(Order[j], o) /\ Climb(Order[j])
             /\ \A k \in i + 1..6 : Qualifies(Order[k], o) => j <= k
             /\ noWait' = (noWait \/ Order[j] = "no_wait")
        BY <2>3
    <3>2. Order[j] \in Ladder /\ Remedy(Order[j], o)
        BY <1>2, <3>1, QualifiesIs
    <3>3. QED BY <2>3, <3>1, <3>2
  <2>4. QED BY <1>2, <2>1, <2>2, <2>3, GoOnLeads
<1>3. CASE pc = "pdf"
    BY <1>3 DEF Conclude
<1>4. CASE pc = "base"
  <2>1. GoOn(0, o) /\ 0 \in 0..4
      BY <1>4 DEF Conclude, GoOn
  <2>2. QED BY <1>2, <1>4, <2>1
<1>5. CASE pc = "no_wait"
  <2>1. GoOn(1, o) /\ 1 \in 0..4
      BY <1>5 DEF Conclude, GoOn
  <2>2. QED BY <1>2, <1>5, <2>1
<1>6. CASE pc = "networkidle"
  <2>1. GoOn(2, o) /\ 2 \in 0..4
      BY <1>6 DEF Conclude, GoOn
  <2>2. QED BY <1>2, <1>6, <2>1
<1>7. CASE pc = "no_selector"
  <2>1. GoOn(4, o) /\ 4 \in 0..4
      BY <1>7 DEF Conclude, GoOn
  <2>2. QED BY <1>2, <1>7, <2>1
<1>8. CASE pc = "pdf_retry"
    BY <1>8 DEF Conclude
<1>9. CASE pc = "alt_fingerprint"
  <2>1. GoOn(3, Kept(o)) /\ 3 \in 0..6
      BY <1>9 DEF Conclude, GoOn
  <2>2. CASE o.kind = "document"
    <3>1. Return(o.kind)
        BY <2>1, <2>2 DEF Kept, GoOn
    <3>2. QED BY <2>2, <3>1
  <2>3. CASE o.kind # "document"
    <3>1. Kept(o) = err /\ err.kind = "block"
        BY <1>1, <1>9, <2>3 DEF Kept
    <3>2. GoOn(3, err)
        BY <2>1, <3>1
    <3>3. CASE Return(err.kind)
        BY <1>9, <3>1, <3>3
    <3>4. CASE /\ err' = err
               /\ \E j \in 3 + 1..6 : /\ Qualifies(Order[j], err) /\ Climb(Order[j])
                                      /\ noWait' = (noWait \/ Order[j] = "no_wait")
      <4>1. PICK j \in 3 + 1..6 : /\ Qualifies(Order[j], err) /\ Climb(Order[j])
                                 /\ noWait' = (noWait \/ Order[j] = "no_wait")
          BY <3>4
      <4>2. j = 4 \/ j = 5 \/ j = 6
          BY <4>1
      <4>3. j = 6 /\ "download" \in err.says
          BY <3>1, <4>1, <4>2, OrderIs DEF Qualifies, IsRescuable
      <4>4. Order[j] = "probe"
          BY <4>3, OrderIs
      <4>5. noWait' = noWait
          BY <4>1, <4>4 DEF IInv, TypeOK
      <4>6. QED BY <1>9, <3>4, <4>1, <4>3, <4>4, <4>5
    <3>5. QED BY <2>1, <3>2, <3>3, <3>4, GoOnLeads
  <2>4. QED BY <2>2, <2>3
<1>10. QED BY <1>3, <1>4, <1>5, <1>6, <1>7, <1>8, <1>9 DEF Rungs, PdfRungs

\* What a rung's end does to the waits that have run out.
LEMMA WaitsRun ==
    ASSUME IInv, pc \in Rungs, NEW o \in Sound, "wait" \in o.says => Waits(pc), Conclude(o)
    PROVE  /\ ranOut' \subseteq Rungs /\ WaitRunsOutOnce'
           /\ "wait" \in o.says => ~noWait /\ pc \notin {"no_wait"} \cup PdfRungs
           /\ "wait" \notin o.says => ranOut' = ranOut
           /\ pc \in {"base", "networkidle"} /\ ~noWait => ranOut' \subseteq {pc}
<1>1. /\ Waited /\ ranOut \subseteq Rungs
      /\ ranOut' = IF "wait" \in o.says THEN ranOut \cup {pc} ELSE ranOut
    BY DEF Conclude, IInv, TypeOK
<1>2. "wait" \in o.says => ~noWait /\ pc \notin {"no_wait"} \cup PdfRungs
    BY <1>1 DEF Waits, Waited
<1>3. /\ pc \in {"base", "networkidle", "alt_fingerprint"} => noWait \/ ranOut = {}
      /\ pc = "no_selector" => noWait \/ ranOut \subseteq {"networkidle"}
    BY <1>1 DEF Waited, First
<1>4. CASE "wait" \in o.says
  <2>1. ranOut' = ranOut \cup {pc}
      BY <1>1, <1>4
  <2>2. \/ pc \in {"base", "networkidle", "alt_fingerprint"} /\ ranOut = {}
        \/ pc = "no_selector" /\ ranOut \subseteq {"networkidle"}
      BY <1>2, <1>3, <1>4 DEF Rungs
  <2>3. WaitRunsOutOnce'
      BY <2>1, <2>2 DEF WaitRunsOutOnce
  <2>4. QED BY <1>1, <1>2, <1>4, <2>1, <2>2, <2>3
<1>5. CASE "wait" \notin o.says
    BY <1>1, <1>3, <1>5 DEF Waited, WaitRunsOutOnce
<1>6. QED BY <1>4, <1>5

\* A rung comes to an end.
LEMMA ConcludeKeeps ==
    ASSUME IInv, pc \in Rungs, NEW o \in Sound, "wait" \in o.says => Waits(pc),
           MeetsWall(o) \/ UNCHANGED <<walls, raced>>, Conclude(o)
    PROVE  IInv'
<1>1. /\ pc \in Ladder /\ TypeOK /\ Blocks /\ Walls /\ Waited /\ noWait \in BOOLEAN
      /\ blocked \in BOOLEAN
      /\ err \in Outcomes \cup {NoError} /\ err.kind # "quota" /\ o \in Outcomes \cup {NoError}
      /\ o.kind \in (Verdicts \cup {"none"}) \ {"quota"} /\ ("wait" \in o.says => ~IsBlock(o.kind))
    BY DEF IInv, TypeOK, Blocks, Ladder, Sound, Outcomes
<1>2. /\ blocked' = (IsBlock(o.kind) \/ (blocked /\ ~Replaced))
      /\ UNCHANGED <<request, live, others, failed, ladders>>
    BY DEF Conclude
<1>3. /\ walls' \in [{"modern", "default", "none"} -> Nat] /\ raced' \in BOOLEAN
      /\ WallMetOnce'
      /\ ~IsBlock(o.kind) => UNCHANGED <<walls, raced>>
      /\ pc \notin {"alt_fingerprint", "pdf_retry"} => walls'["default"] = 0
      /\ pc \notin PdfRungs => walls'["none"] = 0
      /\ pc \in {"base", "no_wait"} =>
           \/ walls'["modern"] = 0
           \/ walls'["modern"] = 1 /\ ("navigating" \in o.says => raced')
    BY WallsMet
<1>4. /\ ranOut' \subseteq Rungs /\ WaitRunsOutOnce'
      /\ "wait" \in o.says => ~noWait /\ pc \notin {"no_wait"} \cup PdfRungs
      /\ "wait" \notin o.says => ranOut' = ranOut
      /\ pc \in {"base", "networkidle"} /\ ~noWait => ranOut' \subseteq {pc}
    BY WaitsRun
<1>5. /\ blocked' \in BOOLEAN
      /\ pc # "alt_fingerprint" => blocked' = IsBlock(o.kind)
      /\ pc = "alt_fingerprint" => err.kind = "block"
  <2>1. blocked /\ pc # "alt_fingerprint" => Replaced
      BY <1>1 DEF Blocks, Replaced, Rungs, PdfRungs
  <2>2. QED BY <1>1, <1>2, <2>1 DEF Blocks, IsBlock
<1>6. ASSUME NEW w \in (Verdicts \cup {"none"}) \ {"quota"}, Return(w),
             blocked' => w = "document" \/ IsBlock(w)
      PROVE  IInv'
    BY <1>1, <1>2, <1>3, <1>4, <1>5, <1>6, ReturnKeeps
<1>7. CASE Return(o.kind) /\ (pc = "alt_fingerprint" => o.kind = "document")
    BY <1>1, <1>5, <1>6, <1>7
<1>8. CASE pc = "alt_fingerprint" /\ Return("block")
  <2>1. "block" \in (Verdicts \cup {"none"}) \ {"quota"} /\ IsBlock("block")
      BY DEF Verdicts, IsBlock
  <2>2. QED BY <1>6, <1>8, <2>1
<1>9. CASE /\ pc = "alt_fingerprint" /\ Climb("probe") /\ "download" \in err.says
           /\ UNCHANGED <<noWait, err>>
  <2>1. "probe" \in Ladder /\ pc' = "probe" /\ pc \notin PdfRungs
      BY <1>9 DEF Ladder, Climb, PdfRungs
  <2>2. Blocks'
      BY <1>1, <1>5, <1>9, <2>1 DEF Blocks, IsBlock
  <2>3. Walls' /\ Waited'
      BY <1>3, <1>4, <2>1 DEF Walls, Waited, First, Before
  <2>4. QED BY <1>1, <1>2, <1>3, <1>4, <1>5, <1>9, <2>1, <2>2, <2>3, ClimbKeeps
<1>10. CASE pc = "pdf" /\ ~IsBlock(o.kind) /\ Climb("base") /\ UNCHANGED <<noWait, err>>
  <2>1. "base" \in Ladder /\ pc' = "base" /\ pc \in PdfRungs /\ pc \in First
      BY <1>10 DEF Ladder, Rungs, Climb, PdfRungs, First
  <2>2. Blocks'
      BY <1>1, <1>5, <1>10, <2>1 DEF Blocks
  <2>3. Walls'
      BY <1>1, <1>3, <1>10, <2>1 DEF Walls
  <2>4. Waited'
      BY <1>1, <1>4, <2>1 DEF Waited
  <2>5. QED BY <1>1, <1>2, <1>3, <1>4, <1>5, <1>10, <2>1, <2>2, <2>3, <2>4, ClimbKeeps
<1>11. CASE /\ pc \in {"base", "no_wait", "networkidle", "no_selector"} /\ err' = o
            /\ \E step \in Ladder : /\ Remedy(step, o) /\ Climb(step)
                                    /\ noWait' = (noWait \/ step = "no_wait")
  <2>1. PICK step \in Ladder : /\ Remedy(step, o) /\ Climb(step)
                              /\ noWait' = (noWait \/ step = "no_wait")
      BY <1>11
  <2>2. pc' = step /\ noWait' \in BOOLEAN /\ pc \notin PdfRungs
        /\ pc \notin {"alt_fingerprint", "pdf_retry"}
      BY <1>1, <1>11, <2>1 DEF Climb, PdfRungs
  <2>3. Blocks' /\ Walls' /\ Waited'
    <3>1. CASE step = "no_wait"
      <4>1. "wait" \in o.says /\ ~IsBlock(o.kind) /\ pc = "base" /\ noWait'
          BY <1>1, <2>1, <3>1 DEF Remedy
      <4>2. walls'["modern"] = 0
          BY <1>1, <1>3, <4>1 DEF Walls, First
      <4>3. QED BY <1>1, <1>3, <1>4, <1>5, <1>11, <2>2, <3>1, <4>1, <4>2
                DEF Blocks, Walls, Waited, First, Before
    <3>2. CASE step = "networkidle"
      <4>1. "navigating" \in o.says /\ pc \in {"base", "no_wait"}
            /\ (pc = "base" => "wait" \notin o.says)
          BY <2>1, <3>2 DEF Remedy
      <4>2. walls'["modern"] <= IF raced' THEN 1 ELSE 0
          BY <1>3, <4>1
      <4>3. noWait' \/ ranOut' = {}
          BY <1>1, <1>4, <2>1, <4>1 DEF Waited, First
      <4>4. QED BY <1>1, <1>3, <1>4, <1>5, <1>11, <2>2, <3>2, <4>1, <4>2, <4>3
                DEF Blocks, Walls, Waited, First, Before
    <3>3. CASE step = "alt_fingerprint"
      <4>1. o.kind = "block" /\ pc \in {"base", "no_wait", "networkidle"} /\ "wait" \notin o.says
          BY <1>1, <2>1, <3>3 DEF Remedy, IsBlock
      <4>2. noWait' \/ ranOut' = {}
          BY <1>1, <1>4, <2>1, <4>1 DEF Waited, First
      <4>3. QED BY <1>1, <1>3, <1>4, <1>5, <1>11, <2>2, <3>3, <4>1, <4>2
                DEF Blocks, Walls, Waited, First, Before
    <3>4. CASE step = "no_selector"
      <4>1. /\ o.kind = "thin" /\ ~IsBlock(o.kind) /\ pc \in {"base", "no_wait", "networkidle"}
            /\ (pc = "base" => "wait" \notin o.says)
          BY <2>1, <3>4 DEF Remedy, IsBlock
      <4>2. walls'["modern"] <= IF raced' THEN 1 ELSE 0
        <5>1. UNCHANGED <<walls, raced>> /\ raced \in BOOLEAN
            BY <1>1, <1>3, <4>1 DEF TypeOK
        <5>2. walls["modern"] <= IF raced THEN 1 ELSE 0
          <6>1. pc = "networkidle" \/ walls["modern"] = 0
              BY <1>1, <4>1 DEF Walls, First
          <6>2. pc = "networkidle" => walls["modern"] <= IF raced THEN 1 ELSE 0
              BY <1>1 DEF Walls
          <6>3. walls["modern"] = 0 => walls["modern"] <= IF raced THEN 1 ELSE 0
              OBVIOUS
          <6>4. QED BY <6>1, <6>2, <6>3
        <5>3. QED BY <5>1, <5>2
      <4>3. noWait' \/ ranOut' \subseteq {"networkidle"}
        <5>1. pc = "no_wait" => noWait'
            BY <1>1, <2>1 DEF Waited
        <5>2. pc = "base" => noWait' \/ ranOut' = {}
            BY <1>1, <1>4, <4>1 DEF Waited, First
        <5>3. pc = "networkidle" => noWait' \/ ranOut' \subseteq {"networkidle"}
            BY <1>4, <2>1
        <5>4. QED BY <4>1, <5>1, <5>2, <5>3
      <4>4. QED BY <1>1, <1>3, <1>4, <1>5, <1>11, <2>2, <3>4, <4>1, <4>2, <4>3
                DEF Blocks, Walls, Waited, First, Before
    <3>5. CASE step = "rescue"
      <4>1. ~IsBlock(o.kind)
          BY <2>1, <3>5 DEF Remedy, IsRescuable, IsBlock
      <4>2. QED BY <1>1, <1>3, <1>4, <1>5, <1>11, <2>2, <3>5, <4>1
                DEF Blocks, Walls, Waited, First, Before
    <3>6. CASE step = "probe"
      <4>1. IsBlock(o.kind) => "download" \in o.says
          BY <2>1, <3>6 DEF Remedy, IsRescuable, IsBlock
      <4>2. QED BY <1>1, <1>3, <1>4, <1>5, <1>11, <2>2, <3>6, <4>1
                DEF Blocks, Walls, Waited, First, Before
    <3>7. QED BY <2>1, <3>1, <3>2, <3>3, <3>4, <3>5, <3>6 DEF Remedy
  <2>4. QED BY <1>1, <1>2, <1>3, <1>4, <1>5, <1>11, <2>1, <2>2, <2>3, ClimbKeeps
<1>12. QED BY <1>7, <1>8, <1>9, <1>10, <1>11, ConcludeLeads

\* A rung that crawl4ai answers, vetoes, leaves without an attempt or that dies.
LEMMA RungKeeps == ASSUME IInv, Settles \/ Vetoes \/ GivesUp \/ Aborts PROVE IInv'
<1>1. CASE Settles
  <2>1. PICK o \in Settled(pc) : MeetsWall(o) /\ Conclude(o)
      BY <1>1 DEF Settles
  <2>2. o \in Sound /\ ("wait" \in o.says => Waits(pc)) /\ pc \in Rungs
      BY <1>1, AnswerOutcomes DEF Settles
  <2>3. QED BY <2>1, <2>2, ConcludeKeeps
<1>2. CASE Vetoes
  <2>1. PICK o \in Vetoed : MeetsWall(o) /\ Conclude(o)
      BY <1>2 DEF Vetoes
  <2>2. o \in Sound /\ "wait" \notin o.says /\ pc \in Rungs
      BY <1>2, AnswerOutcomes DEF Vetoes
  <2>3. QED BY <2>1, <2>2, ConcludeKeeps
<1>3. CASE GivesUp
  <2>1. PICK o \in Retryable : Conclude(o)
      BY <1>3 DEF GivesUp
  <2>2. o \in Sound /\ "wait" \notin o.says /\ pc \in Rungs /\ UNCHANGED <<walls, raced>>
      BY <1>3, AnswerOutcomes DEF GivesUp
  <2>3. QED BY <2>1, <2>2, ConcludeKeeps
<1>4. CASE Aborts
  <2> DEFINE gone == [kind |-> "gone", says |-> {}]
  <2>1. gone \in Sound /\ "wait" \notin gone.says
      BY DEF Sound, Outcomes, Verdicts
  <2>2. pc \in Rungs /\ UNCHANGED <<walls, raced>> /\ Conclude(gone)
      BY <1>4 DEF Aborts
  <2> HIDE DEF gone
  <2>3. QED BY <2>1, <2>2, ConcludeKeeps
<1>5. QED BY <1>1, <1>2, <1>3, <1>4

\* The direct requests find something, or nothing: what the rungs have met stays.
LEMMA RequestKeeps ==
    ASSUME IInv, RawServes \/ RawDeclines \/ RescueFails \/ ProbeFails \/ ProbeFindsPdf
    PROVE  IInv'
<1>1. /\ pc \in {"raw text", "rescue", "probe"} /\ pc \in Ladder
      /\ UNCHANGED <<request, live, others, failed, ladders, walls, raced, ranOut, blocked>>
    BY DEF RawServes, RawDeclines, RescueFails, ProbeFails, ProbeFindsPdf, Ladder
<1>2. /\ TypeOK /\ Blocks /\ Walls /\ Waited /\ WallMetOnce /\ WaitRunsOutOnce
      /\ WallMetOnce' /\ WaitRunsOutOnce' /\ noWait \in BOOLEAN /\ err \in Outcomes \cup {NoError}
      /\ err.kind \in (Verdicts \cup {"none"}) \ {"quota"}
      /\ walls' \in [{"modern", "default", "none"} -> Nat] /\ raced' \in BOOLEAN
      /\ blocked' \in BOOLEAN /\ ranOut' \subseteq Rungs
      /\ blocked => pc = "probe" /\ IsBlock(err.kind) /\ "download" \in err.says
    BY <1>1, ErrorIs DEF IInv, TypeOK, Blocks, Walls, Waited, WallMetOnce, WaitRunsOutOnce
<1>3. ASSUME NEW v \in (Verdicts \cup {"none"}) \ {"quota"}, Return(v),
             blocked => v = "document" \/ IsBlock(v)
      PROVE  IInv'
    BY <1>1, <1>2, <1>3, ReturnKeeps
<1>4. ASSUME NEW rung \in Ladder, Climb(rung), UNCHANGED <<noWait, err>>,
             \/ pc = "raw text" /\ rung \in {"pdf", "base"}
             \/ pc = "rescue" /\ rung = "probe"
             \/ pc = "probe" /\ rung = "pdf_retry"
      PROVE  IInv'
  <2>1. pc' = rung
      BY <1>4 DEF Climb
  <2>2. Blocks'
      BY <1>1, <1>2, <1>4, <2>1 DEF Blocks
  <2>3. Walls' /\ Waited'
      BY <1>1, <1>2, <1>4, <2>1 DEF Walls, Waited, First, Before
  <2>4. QED BY <1>1, <1>2, <1>4, <2>2, <2>3, ClimbKeeps
<1>5. CASE RawServes
  <2>1. "document" \in (Verdicts \cup {"none"}) \ {"quota"} /\ Return("document")
      BY <1>5 DEF RawServes, Verdicts
  <2>2. QED BY <1>3, <2>1
<1>6. CASE RawDeclines
  <2>1. PICK rung \in {"pdf", "base"} : Climb(rung)
      BY <1>6 DEF RawDeclines
  <2>2. UNCHANGED <<noWait, err>> /\ rung \in Ladder /\ pc = "raw text"
      BY <1>6 DEF RawDeclines, Ladder, Rungs, PdfRungs
  <2>3. QED BY <1>4, <2>1, <2>2
<1>7. CASE RescueFails
  <2>1. GoOn(5, err) /\ 5 \in 0..6 /\ pc = "rescue" /\ ~blocked
      BY <1>2, <1>7 DEF RescueFails
  <2>2. CASE Return(err.kind)
      BY <1>2, <1>3, <2>1, <2>2
  <2>3. CASE /\ err' = err
             /\ \E j \in 5 + 1..6 : Climb(Order[j]) /\ noWait' = (noWait \/ Order[j] = "no_wait")
    <3>1. Climb("probe") /\ noWait' = (noWait \/ "probe" = "no_wait")
      <4>1. \A j \in 5 + 1..6 : j = 6
          OBVIOUS
      <4>2. QED BY <2>3, <4>1, OrderIs
    <3>2. UNCHANGED <<noWait, err>> /\ "probe" \in Ladder
        BY <1>2, <2>3, <3>1 DEF Ladder
    <3>3. QED BY <1>4, <2>1, <3>1, <3>2
  <2>4. QED BY <2>1, <2>2, <2>3, GoOnLeads
<1>8. CASE ProbeFails
  <2>1. Return(err.kind)
      BY <1>8 DEF ProbeFails
  <2>2. QED BY <1>2, <1>3, <2>1
<1>9. CASE ProbeFindsPdf
  <2>1. Climb("pdf_retry") /\ UNCHANGED <<noWait, err>> /\ "pdf_retry" \in Ladder /\ pc = "probe"
      BY <1>9 DEF ProbeFindsPdf, Ladder, Rungs, PdfRungs
  <2>2. QED BY <1>4, <2>1
<1>10. QED BY <1>5, <1>6, <1>7, <1>8, <1>9

\* The ladder begins with the slot, or the call ends without it.
LEMMA WaitKeeps == ASSUME IInv, Wait \/ Refused PROVE IInv'
<1>1. pc = "waiting" /\ pc \in Before /\ pc \in Generic
    BY DEF Wait, Refused, Before, Generic
<1>2. /\ TypeOK /\ ladders = 0 /\ ~blocked /\ ~refused /\ answer = NoAnswer
      /\ \A i \in DOMAIN walls : walls[i] = 0
      /\ err.kind # "quota" /\ ranOut = {} /\ WallMetOnce
      /\ request.explicit /\ request.engine # "none" => via = "link"
    BY <1>1, AtStart DEF IInv, Formats, Walls
<1>3. CASE Wait
  <2>1. /\ mine' = 1 /\ pc' \in {"raw text", "pdf", "base"} /\ attempt' = 1 /\ ladders' = ladders + 1
        /\ mine + others < Slots
        /\ UNCHANGED <<request, live, others, noWait, err, via, failed, answer,
                       walls, raced, ranOut, blocked, refused>>
      BY <1>2, <1>3 DEF Wait
  <2>2. mine' \in 0..1 /\ mine' + others' <= Slots
    <3>1. \A m \in 0..1, o \in 0..Slots : m + o < Slots => 1 \in 0..1 /\ 1 + o <= Slots
        BY ConfigAssumption
    <3>2. QED BY <1>2, <2>1, <3>1 DEF TypeOK
  <2>3. pc' \in States /\ pc' \in Generic /\ pc' \notin Before /\ pc' # "done" /\ pc' # "alt_fingerprint"
      BY <2>1 DEF States, Generic, Ladder, Rungs, PdfRungs, Before
  <2>4. attempt' \in 0..MaxAttempts /\ ladders' \in Nat /\ ladders' <= 1
    <3>1. attempt' \in 0..MaxAttempts
        BY <2>1, Counts
    <3>2. \A n : n = 0 => n + 1 \in Nat /\ n + 1 <= 1
        OBVIOUS
    <3>3. QED BY <1>2, <2>1, <3>1, <3>2
  <2>5. TypeOK'
    <3>1. TypeOK /\ others' \in 0..Slots
        BY <1>2, <2>1 DEF TypeOK
    <3>2. UNCHANGED <<request, live, noWait, err, via, failed, answer, walls, raced, ranOut,
                       blocked, refused>>
        BY <2>1
    <3>3. QED BY <2>2, <2>3, <2>4, <3>1, <3>2 DEF TypeOK
  <2>6. Phases'
    <3>1. pc' \notin {"idle", "resolving", "sources"}
        BY <2>1
    <3>2. ~refused' /\ answer' = NoAnswer
        BY <1>2, <2>1
    <3>3. QED BY <2>3, <2>4, <3>1, <3>2 DEF Phases, OneLadder, NoAnswer
  <2>7. Formats' /\ Blocks' /\ Walls' /\ Waited'
    <3>1. Formats' /\ Blocks' /\ Waited'
        BY <1>2, <2>1, <2>3 DEF Formats, Blocks, Waited, WaitRunsOutOnce
    <3>2. \A i \in {"modern", "default", "none"} : walls'[i] = 0
        BY <1>2, <2>1 DEF TypeOK
    <3>3. WallMetOnce'
        BY <1>2, <2>1 DEF WallMetOnce
    <3>4. Walls'
        BY <2>1, <3>2, <3>3 DEF Walls
    <3>5. QED BY <3>1, <3>4
  <2>8. AnswerKept'
      BY <1>2, <2>1, <2>3 DEF AnswerKept, VerdictKept, ExplicitFormatKept, NoAnswer
  <2>9. QED BY <2>5, <2>6, <2>7, <2>8 DEF IInv
<1>4. CASE Refused
  <2>1. PICK v \in {"quota"} \cup (IF live THEN {} ELSE {"gone"}) :
            Answered(IF via = "twitter" THEN "fault" ELSE v)
      BY <1>4 DEF Refused
  <2> DEFINE w == IF via = "twitter" THEN "fault" ELSE v
  <2>2. w \in Verdicts \cup {"none"} /\ w # "document" /\ Answered(w)
      BY <2>1 DEF Verdicts
  <2> HIDE DEF w
  <2>3. (Ended /\ (via # "twitter" => answer'.verdict = w)) \/ HandedOver
      BY <1>2, <2>2, AnsweredLeads
  <2>4. Unmoved /\ UNCHANGED <<request, failed, others, mine>>
      BY <1>4 DEF Refused, Unmoved
  <2>5. TypeOK'
      BY <1>2, <2>3, <2>4, LeadsType
  <2>6. CASE Ended
      BY <1>1, <2>4, <2>5, <2>6, BeforeKeeps
  <2>7. CASE HandedOver
    <3>1. pc' \in Before /\ pc' = "waiting" /\ UNCHANGED <<answer, refused>> /\ ~request'.explicit
        BY <2>4, <2>7 DEF HandedOver, Before
    <3>2. QED BY <1>1, <2>4, <2>5, <3>1, BeforeKeeps
  <2>8. QED BY <2>3, <2>6, <2>7
<1>5. QED BY <1>3, <1>4

\* A step that leaves the ladder where it is.
LEMMA StandingKeeps ==
    ASSUME IInv, TypeOK', live' => live,
           UNCHANGED <<pc, request, noWait, err, via, failed, answer, history>>
    PROVE  IInv'
<1>1. UNCHANGED <<pc, noWait, err, ladders, walls, raced, ranOut, blocked, refused>>
    BY DEF history
<1>2. Phases' /\ Formats'
    BY <1>1 DEF IInv, Phases, OneLadder, Formats
<1>3. Blocks'
    BY <1>1 DEF IInv, Blocks
<1>4. Walls'
    BY <1>1 DEF IInv, Walls, WallMetOnce
<1>5. Waited'
    BY <1>1 DEF IInv, Waited, WaitRunsOutOnce
<1>6. AnswerKept'
    BY <1>1 DEF IInv, AnswerKept, VerdictKept, ExplicitFormatKept
<1>7. QED BY <1>2, <1>3, <1>4, <1>5, <1>6 DEF IInv

\* The client tries the same rung again.
LEMMA RetriesKeeps == ASSUME IInv, Retries PROVE IInv'
<1>1. /\ pc \in Rungs /\ attempt < MaxAttempts /\ attempt' = attempt + 1
      /\ UNCHANGED <<pc, request, live, mine, others, noWait, err, via, failed, answer, history>>
    BY DEF Retries
<1>2. TypeOK'
  <2>1. \A n \in 0..MaxAttempts : n < MaxAttempts => n + 1 \in 0..MaxAttempts
      BY ConfigAssumption
  <2>2. attempt' \in 0..MaxAttempts
      BY <1>1, <2>1 DEF IInv, TypeOK
  <2>3. QED BY <1>1, <2>2 DEF IInv, TypeOK, history
<1>3. QED BY <1>1, <1>2, StandingKeeps

\* The caller hangs up, or another call takes or gives back a slot.
LEMMA OthersKeep ==
    ASSUME IInv, HangUp \/ OtherTakes \/ OtherReleases \/ UNCHANGED vars
    PROVE  IInv'
<1>1. /\ UNCHANGED <<pc, request, mine, crawl, failed, answer, history>>
      /\ live' = live \/ (live' = FALSE /\ pc # "done")
    BY DEF HangUp, OtherTakes, OtherReleases, vars
<1>2. TypeOK'
  <2>1. \A m \in 0..1, o \in 0..Slots :
           /\ m + o < Slots => o + 1 \in 0..Slots /\ m + (o + 1) <= Slots
           /\ o > 0 /\ m + o <= Slots => o - 1 \in 0..Slots /\ m + (o - 1) <= Slots
      BY ConfigAssumption
  <2>2. others' \in 0..Slots /\ mine' + others' <= Slots
    <3>1. mine \in 0..1 /\ others \in 0..Slots /\ mine + others <= Slots /\ mine' = mine
        BY <1>1 DEF IInv, TypeOK
    <3>2. CASE UNCHANGED others
        BY <3>1, <3>2
    <3>3. CASE OtherTakes
        BY <2>1, <3>1, <3>3 DEF OtherTakes
    <3>4. CASE OtherReleases
        BY <2>1, <3>1, <3>4 DEF OtherReleases
    <3>5. QED BY <3>2, <3>3, <3>4 DEF HangUp, vars
  <2>3. live' \in BOOLEAN
      BY <1>1 DEF IInv, TypeOK
  <2>4. QED BY <1>1, <2>2, <2>3 DEF IInv, TypeOK, crawl, history
<1>3. QED BY <1>1, <1>2, StandingKeeps DEF crawl

-----------------------------------------------------------------------------
(* The theorems.                                                           *)

\* A call that has not begun: nothing asked, nothing held, no verdict in hand.
LEMMA InitIInv == ASSUME Init PROVE IInv
<1>1. TypeOK
  <2>1. 0 + 0 <= Slots /\ 0 \in 0..Slots /\ 0 \in 0..1 /\ 0 \in 0..MaxAttempts
      BY ConfigAssumption
  <2>2. <<>> \in Seq([source : {"fxtwitter", "syndication", "vxtwitter"}, verdict : Verdicts])
      BY EmptySeq
  <2>3. QED BY <2>1, <2>2 DEF Init, TypeOK, States, Engines, NoAnswer
<1>2. Phases
    BY DEF Init, Phases, OneLadder, Sources
<1>3. Formats /\ Blocks /\ Walls /\ Waited
    BY DEF Init, Formats, Blocks, Walls, Waited, WaitRunsOutOnce, WallMetOnce, NoError,
           Generic, Ladder, Rungs, PdfRungs
<1>4. AnswerKept
    BY DEF Init, AnswerKept, VerdictKept, ExplicitFormatKept
<1>5. QED BY <1>1, <1>2, <1>3, <1>4 DEF IInv

\* Every step keeps the invariant, one lemma per action above.
LEMMA StepIInv == IInv /\ [Next]_vars => IInv'
<1> SUFFICES ASSUME IInv, [Next]_vars PROVE IInv'
    OBVIOUS
<1>1. CASE Reject \/ Dispatch
    BY <1>1, DispatchKeeps
<1>2. CASE HangUp \/ OtherTakes \/ OtherReleases \/ UNCHANGED vars
    BY <1>2, OthersKeep
<1>3. CASE EngineStep
    BY <1>3, EngineKeeps
<1>4. CASE TwitterStep
    BY <1>4, TwitterKeeps
<1>5. CASE GenericStep
    BY <1>5, WaitKeeps, RequestKeeps, RungKeeps, RetriesKeeps DEF GenericStep
<1>6. QED BY <1>1, <1>2, <1>3, <1>4, <1>5 DEF Next

\* The inductive invariant of the fetch path.
LEMMA AlwaysIInv == Spec => []IInv
<1>1. Init => IInv
    BY InitIInv
<1>2. QED BY <1>1, StepIInv, PTL DEF Spec

\* For any number of slots, one fetch_url costs the page's host one ladder of
\* browser fetches at most, and none once the host or our pacing of it has refused:
\* however the Twitter engine, the registry and the ladder call one another.
THEOREM SpareTheHost == Spec => []HostSpared
<1>1. IInv => HostSpared
    BY DEF IInv, Phases, HostSpared, HostLeftAlone, Generic, Ladder, Rungs, PdfRungs
<1>2. QED BY <1>1, AlwaysIInv, PTL

\* For any number of attempts and any configuration of the ladder, no identity meets
\* a wall twice, but one whose own error names the navigation race, which is met twice
\* at most; and no two challenge waits run out in one call, but on that race's retry
\* and the rung without the selector after it.
THEOREM NeverAgain == Spec => []NoWallTwice
<1>1. IInv => NoWallTwice
    BY DEF IInv, Walls, Waited, NoWallTwice
<1>2. QED BY <1>1, AlwaysIInv, PTL

\* No remedy hides the block that the call has met, but for the one that the block's
\* own words call for, and nobody who asked for a format of the dedicated engine gets a
\* rendered page for it.
THEOREM BestAnswer == Spec => []AnswerKept
<1>1. IInv => AnswerKept
    BY DEF IInv
<1>2. QED BY <1>1, AlwaysIInv, PTL
=============================================================================
