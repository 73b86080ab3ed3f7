---------------------------- MODULE CrawlVerdict ----------------------------
(***************************************************************************)
(* What the generic engine makes of one answer of crawl4ai                 *)
(* (internal/engine/crawl4ai: crawlRung, silentFailure, classifyVerdict,   *)
(* classifyCrawlError; internal/antibot).  A text is the set of things the *)
(* patterns find in it, a page the set of signs the checks find on it;     *)
(* which sign wins is the model.  FetchPath climbs its ladder by these     *)
(* verdicts.                                                               *)
(***************************************************************************)
EXTENDS Integers

\* What the patterns find in a message: crawl4ai's block phrase ("protection"), its
\* content gate ("structural"), its challenge wait ("wait"), Playwright's own words
\* ("navigating", "download"), a marker of antibot.Detect, and the other families.
Families ==
    {"protection", "structural", "wait", "timeout", "captcha", "429", "403", "wall",
     "marker", "navigating", "download"}

\* What the checks find on a rendered page: where a redirect led, whose page it is
\* and how much of it there is.
Signs ==
    {"private", "consent", "verification", "login",
     "challenge", "failed", "marker", "interstitial", "gone", "picker", "skeleton",
     "empty", "short"}

WallKinds == {"captcha", "bot_block", "http_403"}

-----------------------------------------------------------------------------
(* Statuses and messages.                                                  *)

\* domain.KindForStatus.
KindForStatus(status) ==
    IF status = 403 THEN "http_403"
    ELSE IF status = 429 THEN "http_429"
    ELSE IF status = 504 THEN "timeout"
    ELSE IF status >= 500 THEN "upstream_error" ELSE "error"

\* pageStatusKind: a page that answers a plain GET with an odd 4xx refuses the visitor.
PageStatusKind(status) ==
    IF status \in {404, 410} THEN "not_found"
    ELSE IF status >= 500 THEN "site_error"
    ELSE IF KindForStatus(status) = "error" /\ status # 400 THEN "bot_block"
    ELSE KindForStatus(status)

\* classifyVerdict.  The content gate comes first: its message names a wall too, as
\* every message with the block phrase does.
ClassifyVerdict(message, pageStatus) ==
    IF "structural" \in message THEN "thin_content"
    ELSE IF message \cap {"timeout", "wait"} # {} THEN "timeout"
    ELSE IF "captcha" \in message THEN "captcha"
    ELSE IF "429" \in message THEN "http_429"
    ELSE IF "403" \in message THEN "http_403"
    ELSE IF message \cap {"wall", "protection"} # {} THEN "bot_block"
    ELSE IF "marker" \in message THEN "captcha"
    ELSE IF pageStatus \in {403, 429} THEN KindForStatus(pageStatus)
    ELSE "upstream_error"

-----------------------------------------------------------------------------
(* A page: what it shows, the message it failed with and its own status.   *)

\* silentFailure: a page served as if it were the one asked for.
SilentFailure(shows) ==
    IF "interstitial" \in shows THEN "bot_block"
    ELSE IF "gone" \in shows THEN "not_found"
    ELSE IF "picker" \in shows THEN "bot_block"
    ELSE IF "skeleton" \in shows THEN "thin_content" ELSE "none"

\* crawlRung after a decoded answer.  "final" is a redirect the address check
\* refused: no other engine may follow it.
PageKind(page) ==
    IF "private" \in page.shows THEN "final"
    ELSE IF "challenge" \in page.shows THEN "captcha"
    ELSE IF "failed" \in page.shows THEN ClassifyVerdict(page.message, page.status)
    ELSE IF page.shows \cap {"marker", "consent"} # {} THEN "captcha"
    ELSE IF page.status \in {403, 429} THEN KindForStatus(page.status)
    ELSE IF page.status >= 400 THEN PageStatusKind(page.status)
    ELSE IF SilentFailure(page.shows) # "none" THEN SilentFailure(page.shows)
    ELSE IF page.shows \cap {"empty", "short"} # {} THEN "thin_content"
    ELSE IF "verification" \in page.shows THEN "captcha"
    ELSE IF "login" \in page.shows THEN "bot_block" ELSE "document"

-----------------------------------------------------------------------------
(* A reply the client gave up on: its status, what its body says, and      *)
(* whether that is FastAPI's detail, the scrubbed body or another.         *)

Forms == {"detail", "scrubbed", "other"}
Replies(statuses, messages) == [status : statuses, message : messages, form : Forms]

\* antibot.RetryableStatus: no second attempt at a 5xx with the block phrase.
RetryableStatus(reply) == reply.status < 500 \/ "protection" \notin reply.message

\* ClassifyClientError of a StatusError, the generic engine's fallback being an
\* upstream fault.
ClientKind(reply) ==
    IF reply.status >= 500 /\ reply.status # 504
    THEN "upstream_error" ELSE KindForStatus(reply.status)

\* blockKind: the content gate or a wall.
BlockKind(message) == IF "structural" \in message THEN "thin_content" ELSE "bot_block"

\* classifyCrawlError.
ReplyKind(reply) ==
    IF ClientKind(reply) # "upstream_error" THEN ClientKind(reply)
    ELSE IF "protection" \in reply.message THEN BlockKind(reply.message)
    ELSE IF reply.form = "detail" THEN ClassifyVerdict(reply.message, 0)
    ELSE IF reply.status = 500 /\ reply.form = "scrubbed" THEN "upstream_rejected"
    ELSE "upstream_error"

-----------------------------------------------------------------------------
(* What the ladder tells apart of an error: its kind, and what its text says.  *)

\* The ladder reads the kind and the text each by itself: what says that the page
\* is navigating, or that a download starts, may be a block by its kind as well.
Named(kind) ==
    IF kind \in WallKinds THEN "block"
    ELSE IF kind = "http_429" THEN "rate"
    ELSE IF kind = "thin_content" THEN "thin"
    ELSE IF kind = "upstream_rejected" THEN "rejected"
    ELSE IF kind = "not_found" THEN "not found"
    ELSE IF kind \in {"document", "final", "timeout"} THEN kind ELSE "fault"

\* Playwright's words, which isNavigationRace and the PDF probe look for in any
\* error's text, and the mark that verdictError alone leaves of a challenge wait.
Playwright == {"navigating", "download"}
Words == Playwright \cup {"wait"}

Outcome(kind, says) == [kind |-> Named(kind), says |-> says]

\* A challenge that is still there has a marker of its own, and no text.
Seen(page) ==
    IF "private" \notin page.shows /\ "challenge" \in page.shows
    THEN [kind |-> "challenge", says |-> {}]
    ELSE Outcome(PageKind(page),
                 IF "failed" \in page.shows /\ "private" \notin page.shows
                 THEN page.message \cap Words ELSE {})

\* The error of a reply given up on quotes the body where it has read a verdict in
\* it, or the detail of a 504, and is bare else.
ReplySays(reply) ==
    LET quoted == IF ClientKind(reply) = "upstream_error"
                  THEN \/ "protection" \in reply.message
                       \/ reply.form = "detail"
                       \/ reply.status = 500 /\ reply.form = "scrubbed"
                  ELSE ClientKind(reply) = "timeout" /\ reply.form = "detail"
    IN  IF quoted THEN reply.message \cap Playwright ELSE {}

\* A kind is that of the first family the patterns look for, so one family at a
\* time, with any of the words, comes to every outcome there is.
Messages ==
    {m \cup words : m \in {{}, {"protection", "structural"}} \cup {{f} : f \in Families \ Words},
                    words \in SUBSET Words}

Pages ==
    [shows : {{}} \cup {{s} : s \in Signs}, message : Messages,
     status : {200, 400, 403, 404, 429, 451, 500, 504}]

\* The answers the client does not retry: a page, nothing readable, or an error
\* status of crawl4ai itself, whose error quotes the body.
SettledOutcomes ==
    {Seen(page) : page \in Pages}
        \cup {Outcome("bad_response", {})}
        \cup {Outcome(KindForStatus(r.status), r.message \cap Playwright) :
                 r \in Replies({400, 403}, Messages)}

GivenUp == Replies({429, 500, 502, 503, 504}, Messages)

VetoedOutcomes ==
    {Outcome(ReplyKind(r), ReplySays(r)) : r \in {r \in GivenUp : ~RetryableStatus(r)}}

\* Another retryable status, or no answer at all.
RetriedOutcomes ==
    {Outcome(ReplyKind(r), ReplySays(r)) : r \in {r \in GivenUp : RetryableStatus(r)}}
        \cup {Outcome(kind, {}) : kind \in {"upstream_error", "timeout"}}
=============================================================================
