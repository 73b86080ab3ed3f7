-------------------------- MODULE DeploymentProofs --------------------------
(***************************************************************************)
(* What holds of a deployment, for every configuration: which ones start   *)
(* and what limiters they make (Deployment), the lease of a query that is  *)
(* admitted (LeasedSearch), the limiter of a pod whose Redis fails         *)
(* (FallbackLimiter), the transports and the drain of the process          *)
(* (Service), and the reading of a long page under any cap (ChunkedRead).  *)
(***************************************************************************)
EXTENDS LeasedSearch, FallbackLimiter, Service, ChunkedRead, SeqLemmas

-----------------------------------------------------------------------------
(* What every accepted configuration gives.                                *)

\* A number that is set is one, and so is a default.
LEMMA NumberType ==
    ASSUME Parsed, NEW f \in DOMAIN Numbers, Numbers[f] \in Int
    PROVE  Number(f) \in Int
BY DEF Parsed, Number

\* The numbers the limiters are built from.
LEMMA PacingTypes ==
    ASSUME Parsed
    PROVE  /\ Number("PerDomainConcurrency") \in Int /\ Number("PerDomainDelay") \in Int
           /\ Number("RedditQuota") \in Int /\ Number("RedditQuotaWindow") \in Int
           /\ Number("SearXNGDelay") \in Int /\ Number("SearXNGQuota") \in Int
           /\ Number("SearXNGConcurrency") \in Int /\ Number("SearXNGQuotaWindow") \in Int
           /\ Number("SearXNGTimeout") \in Int
           /\ Number("TinyFishQuota") \in Int /\ Number("TinyFishQuotaWindow") \in Int
<1>1. Number("PerDomainConcurrency") \in Int
    BY NumberType DEF Numbers
<1>2. Number("PerDomainDelay") \in Int
    BY NumberType DEF Numbers
<1>3. Number("RedditQuota") \in Int
    BY NumberType DEF Numbers
<1>4. Number("RedditQuotaWindow") \in Int
    BY NumberType DEF Numbers, Minute, Second
<1>5. Number("SearXNGDelay") \in Int
    BY NumberType DEF Numbers
<1>6. Number("SearXNGQuota") \in Int
    BY NumberType DEF Numbers
<1>7. Number("SearXNGConcurrency") \in Int
    BY NumberType DEF Numbers
<1>8. Number("SearXNGQuotaWindow") \in Int
    BY NumberType DEF Numbers, Second
<1>9. Number("SearXNGTimeout") \in Int
    BY NumberType DEF Numbers, Second
<1>10. Number("TinyFishQuota") \in Int
    BY NumberType DEF Numbers
<1>11. Number("TinyFishQuotaWindow") \in Int
    BY NumberType DEF Numbers, Minute, Second
<1>12. QED BY <1>1, <1>2, <1>3, <1>4, <1>5, <1>6, <1>7, <1>8, <1>9, <1>10, <1>11

\* Whatever the timeout, a lease lasts.
LEMMA LeaseLasts ==
    ASSUME NEW ttl \in Int
    PROVE  Lease(ttl) \in Nat \ {0}
BY DEF Lease, DefaultLeaseTTL, Minute, Second

\* Of every accepted configuration that lets one request through to a domain and
\* keeps no negative gap, each limiter built is one DomainLimiter and RedisLimiter
\* speak of: it admits somebody, and no quota counts over an empty window.  Load
\* checks neither condition itself.
THEOREM LimitersSound ==
    ASSUME Accepted,
           Number("PerDomainConcurrency") >= 1, Number("PerDomainDelay") >= 0,
           NEW s \in Paced
    PROVE  LocalSound(Local(s)) /\ SharedSound(Shared(s)) /\ PodSemaphore(s) \in Nat \ {0}
<1>1. /\ Number("PerDomainConcurrency") \in Int /\ Number("PerDomainDelay") \in Int
      /\ Number("RedditQuota") \in Int /\ Number("RedditQuotaWindow") \in Int
      /\ Number("SearXNGDelay") \in Int /\ Number("SearXNGQuota") \in Int
      /\ Number("SearXNGConcurrency") \in Int /\ Number("SearXNGQuotaWindow") \in Int
      /\ Number("SearXNGTimeout") \in Int
      /\ Number("TinyFishQuota") \in Int /\ Number("TinyFishQuotaWindow") \in Int
    BY PacingTypes DEF Accepted
<1>2. /\ Number("RedditQuota") >= 0
      /\ Number("RedditQuota") > 0 => Number("RedditQuotaWindow") > 0
    BY DEF Accepted, RedditAccepted, AtLeast
<1>3. /\ Number("SearXNGDelay") >= 0 /\ Number("SearXNGQuota") >= 0
      /\ Number("SearXNGConcurrency") >= 0
      /\ Number("SearXNGQuota") > 0 => Number("SearXNGQuotaWindow") > 0
    BY DEF Accepted, SearXNGAccepted, AtLeast
<1>4. /\ Number("TinyFishQuota") >= 0
      /\ Number("TinyFishQuota") > 0 => Number("TinyFishQuotaWindow") > 0
    BY DEF Accepted, TinyFishAccepted, AtLeast
<1>5. /\ DefaultLeaseTTL \in Nat \ {0}
      /\ Lease(LeaseTTL(Number("SearXNGTimeout"))) \in Nat \ {0}
  <2>1. LeaseTTL(Number("SearXNGTimeout")) \in Int
      BY <1>1 DEF LeaseTTL, MaxAttempts, MaxBackoff, RecoverySlack, Second
  <2>2. QED BY <2>1, LeaseLasts DEF DefaultLeaseTTL, Minute, Second
<1>6. CASE s = "domain"
  <2>1. /\ Local(s).max = Number("PerDomainConcurrency")
        /\ Local(s).delay = Number("PerDomainDelay")
        /\ Local(s).quota = 0 /\ Local(s).window = 0
      BY <1>6 DEF Local
  <2>2. /\ Shared(s).delay = Number("PerDomainDelay") /\ Shared(s).quota = 0
        /\ Shared(s).window = 0 /\ Shared(s).cap = 0 /\ Shared(s).lease = DefaultLeaseTTL
      BY <1>6, <2>1 DEF Shared
  <2>3. PodSemaphore(s) \in Nat \ {0}
      BY <1>1, <1>6, <2>1, <2>2 DEF PodSemaphore
  <2>4. QED BY <1>1, <1>5, <2>1, <2>2, <2>3 DEF LocalSound, SharedSound
<1>7. CASE s = "reddit"
  <2>1. /\ Local(s).max = Number("PerDomainConcurrency")
        /\ Local(s).delay = 0 /\ Local(s).quota = Number("RedditQuota")
        /\ Local(s).window = Number("RedditQuotaWindow")
      BY <1>7 DEF Local
  <2>2. /\ Shared(s).delay = 0 /\ Shared(s).quota = Number("RedditQuota")
        /\ Shared(s).window = Number("RedditQuotaWindow")
        /\ Shared(s).cap = 0 /\ Shared(s).lease = DefaultLeaseTTL
      BY <1>7, <2>1 DEF Shared
  <2>3. PodSemaphore(s) \in Nat \ {0}
      BY <1>1, <1>7, <2>1, <2>2 DEF PodSemaphore
  <2>4. QED BY <1>1, <1>2, <1>5, <2>1, <2>2, <2>3 DEF LocalSound, SharedSound
<1>8. CASE s = "searxng"
  <2>1. /\ Local(s).max = IF ~Redis /\ Number("SearXNGConcurrency") > 0
                          THEN Number("SearXNGConcurrency") ELSE 1
        /\ Local(s).delay = Number("SearXNGDelay")
        /\ Local(s).quota = Number("SearXNGQuota")
        /\ Local(s).window = Number("SearXNGQuotaWindow")
      BY <1>8 DEF Local
  <2>2. Local(s).max \in Nat \ {0}
      BY <1>1, <2>1
  <2>3. /\ Shared(s).delay = Number("SearXNGDelay") /\ Shared(s).quota = Number("SearXNGQuota")
        /\ Shared(s).window = Number("SearXNGQuotaWindow")
        /\ Shared(s).cap = Number("SearXNGConcurrency")
        /\ Shared(s).lease = Lease(LeaseTTL(Number("SearXNGTimeout")))
      BY <1>8, <2>1 DEF Shared
  <2>4. PodSemaphore(s) \in Nat \ {0}
      BY <1>1, <1>8, <2>3 DEF PodSemaphore
  <2>5. QED BY <1>1, <1>3, <1>5, <2>1, <2>2, <2>3, <2>4 DEF LocalSound, SharedSound
<1>9. CASE s = "tinyfish"
  <2>1. /\ Local(s).max = 4 /\ Local(s).delay = 0
        /\ Local(s).quota = Number("TinyFishQuota")
        /\ Local(s).window = Number("TinyFishQuotaWindow")
      BY <1>9 DEF Local, TinyFishConcurrency
  <2>2. /\ Shared(s).delay = 0 /\ Shared(s).quota = Number("TinyFishQuota")
        /\ Shared(s).window = Number("TinyFishQuotaWindow")
        /\ Shared(s).cap = 0 /\ Shared(s).lease = DefaultLeaseTTL
      BY <1>9, <2>1 DEF Shared
  <2>3. PodSemaphore(s) \in Nat \ {0}
      BY <1>9, <2>1, <2>2 DEF PodSemaphore
  <2>4. QED BY <1>1, <1>4, <1>5, <2>1, <2>2, <2>3 DEF LocalSound, SharedSound
<1>10. QED BY <1>6, <1>7, <1>8, <1>9 DEF Paced

\* A Redis outage never widens the searches: the fallback of a capped scope lets
\* no more through than the cap does, and one at a time (searxngLocalLimiter).
THEOREM FallbackNoWider ==
    ASSUME Accepted, Redis, NEW s \in Paced, Shared(s).cap > 0
    PROVE  Local(s).max = 1 /\ Local(s).max <= Shared(s).cap
<1>1. CASE s = "searxng"
  <2>1. Number("SearXNGConcurrency") \in Int
      BY PacingTypes DEF Accepted
  <2>2. Shared(s).cap = Number("SearXNGConcurrency") /\ Local(s).max = 1
      BY <1>1 DEF Shared, Local
  <2>3. QED BY <2>1, <2>2
<1>2. CASE s # "searxng"
    BY <1>2 DEF Shared
<1>3. QED BY <1>1, <1>2

\* The megabytes of a batch, shifted to bytes, fit the 64 bits they are kept in.
THEOREM ResponseBytesFit ==
    ASSUME Accepted
    PROVE  MaxResponseBytes \in 0..(Megabyte * Megabyte)
<1>1. Number("CrawlMaxResponseMB") \in Int
    BY NumberType DEF Accepted, Numbers
<1>2. 0 <= Number("CrawlMaxResponseMB") /\ Number("CrawlMaxResponseMB") <= Megabyte
    BY DEF Accepted, SharedAccepted, Within
<1> DEFINE mb == Number("CrawlMaxResponseMB")
<1>3. Megabyte \in Nat
    BY DEF Megabyte
<1> HIDE DEF mb
<1>4. mb \in Int /\ 0 <= mb /\ mb <= Megabyte
    BY <1>1, <1>2 DEF mb
<1>5. 0 <= mb * Megabyte /\ mb * Megabyte <= Megabyte * Megabyte
    BY <1>3, <1>4
<1>6. mb * Megabyte \in Int /\ Megabyte * Megabyte \in Int
    BY <1>3, <1>4
<1>7. MaxResponseBytes = mb * Megabyte
    BY DEF MaxResponseBytes, mb
<1>8. QED BY <1>5, <1>6, <1>7

\* The two settings the documentation asks for are enough: the defaults of all
\* the others are accepted together, and the process starts.
THEOREM DefaultsStart ==
    ASSUME Given = [Crawl4AIURL |-> "http", APIKey |-> "token"]
    PROVE  Starts
<1>1. DOMAIN Given = {"Crawl4AIURL", "APIKey"}
    OBVIOUS
<1>2. \A f : f \notin {"Crawl4AIURL", "APIKey"} =>
        Number(f) = Numbers[f] /\ Word(f) = Words[f] /\ Switch(f) = Switches[f] /\ List(f) = Lists[f]
    BY <1>1 DEF Number, Word, Switch, List
<1>3. Word("Crawl4AIURL") = "http" /\ Word("APIKey") = "token"
    BY <1>1 DEF Word
<1>4. Parsed
  <2>1. DOMAIN Numbers \cap DOMAIN Given = {}
      BY <1>1 DEF Numbers
  <2>2. DOMAIN Switches \cap DOMAIN Given = {}
      BY <1>1 DEF Switches
  <2>3. QED BY <2>1, <2>2 DEF Parsed
<1>5. List("RedditMethods") = <<"client_id", "session", "browser">>
    BY <1>2 DEF Lists
<1>6. List("Searchers") = <<"searxng", "tinyfish">>
    BY <1>2 DEF Lists
<1>7. RedditAccepted
  <2>1. \A i \in DOMAIN List("RedditMethods") :
            List("RedditMethods")[i] \in {"client_id", "session", "browser"}
      BY <1>5
  <2>2. Word("RedditFormat") = "toon" /\ Word("RedditSort") = "top"
      BY <1>2 DEF Words
  <2>3. /\ Number("RedditQuota") = 0 /\ Number("RedditMaxComments") = 0
        /\ Number("RedditMaxTopLevel") = 0
        /\ Number("RedditFetchLimit") = 500 /\ Number("RedditDepth") = 20
      BY <1>2 DEF Numbers
  <2>4. QED BY <2>1, <2>2, <2>3 DEF RedditAccepted, AtLeast
<1>8. SearXNGAccepted
  <2>1. /\ Number("SearXNGDelay") = 0 /\ Number("SearXNGMaxWait") = 0
        /\ Number("SearXNGConcurrency") = 0 /\ Number("SearXNGQuota") = 0
      BY <1>2 DEF Numbers
  <2>2. QED BY <2>1 DEF SearXNGAccepted, AtLeast
<1>9. SearchAccepted
  <2>1. Word("SearchAudit") = "off"
      BY <1>2 DEF Words
  <2>2. /\ Number("SearchMaxResults") = 25 /\ Number("SearchFallbackMinResults") = 3
        /\ Number("SearchPrimaryBudget") = 12 * Second
      BY <1>2 DEF Numbers
  <2>3. SearchersAccepted(<<"searxng", "tinyfish">>)
      BY DEF SearchersAccepted
  <2>4. QED BY <1>6, <2>1, <2>2, <2>3 DEF SearchAccepted, AtLeast, Within, Second, Minute, Megabyte
<1>10. TinyFishAccepted
  <2>1. /\ Number("TinyFishQuota") = 25 /\ Number("TinyFishQuotaWindow") = Minute
        /\ Number("TinyFishTimeout") = 10 * Second /\ Number("TinyFishMaxWait") = 5 * Second
      BY <1>2 DEF Numbers
  <2>2. Word("TinyFishURL") = "https"
      BY <1>2 DEF Words
  <2>3. QED BY <2>1, <2>2 DEF TinyFishAccepted, AtLeast, Second, Minute, Megabyte
<1>11. FetchAccepted
  <2>1. /\ Number("Crawl4AIPruneThreshold") = 48 /\ Number("Crawl4AIDelayBeforeHTML") = 10
        /\ Number("Crawl4AIScrollDelay") = 50 /\ Number("Crawl4AIChallengeWait") = 8 * Second
        /\ Number("Crawl4AIMinProseChars") = 100 /\ Number("FetchMaxChars") = 120 * 1000
        /\ Number("TwitterMaxReplies") = 20
      BY <1>2 DEF Numbers
  <2>2. Word("Crawl4AIWaitUntil") = "domcontentloaded" /\ Word("TwitterFxTwitterURL") = "https"
      BY <1>2 DEF Words
  <2>3. QED BY <1>3, <2>1, <2>2 DEF FetchAccepted, AtLeast, Within, Second, Minute, Megabyte
<1>12. SharedAccepted
  <2>1. /\ Number("CrawlMaxResponseMB") = 256 /\ Number("RedisTimeout") = 250
        /\ Number("CacheTTLThreads") = 10 * Minute /\ Number("CacheTTLPages") = 30 * Minute
        /\ Number("CacheMaxBytes") = 64 * Megabyte /\ Number("CacheMaxItemBytes") = 4 * Megabyte
      BY <1>2 DEF Numbers
  <2>2. Word("RedisURL") = "unset"
      BY <1>2 DEF Words
  <2>3. QED BY <2>1, <2>2 DEF SharedAccepted, AtLeast, Within, Second, Minute, Megabyte
<1>13. Word("RedisURL") = "unset"
    BY <1>2 DEF Words
<1>14. RedditUsable
    BY <1>5 DEF RedditUsable
<1>15. QED
    BY <1>3, <1>4, <1>7, <1>8, <1>9, <1>10, <1>11, <1>12, <1>13, <1>14 DEF Starts, Accepted

-----------------------------------------------------------------------------
(* The lease of a query.                                                   *)

\* The invariant: what is left of the attempts, the backoffs and the slack still
\* fits the lease.
QueryTypeOK ==
    /\ elapsed \in Nat /\ due \in Nat /\ spare \in Nat
    /\ step \in {"booked", "sending", "backoff", "returned", "released"}
    /\ attempt \in 1..3

QueryLeft ==
    CASE step = "booked" -> 3 * Timeout + 8000
      [] step = "sending" /\ attempt = 1 -> 2 * Timeout + 8000
      [] step = "sending" /\ attempt = 2 -> Timeout + 4000
      [] step = "backoff" /\ attempt = 2 -> 2 * Timeout + 4000
      [] step = "backoff" /\ attempt = 3 -> Timeout
      [] OTHER -> 0

QueryIInv ==
    /\ QueryTypeOK
    /\ step = "booked" => attempt = 1
    /\ step = "backoff" => attempt # 1
    /\ elapsed <= due
    /\ due + QueryLeft + spare <= 3 * Timeout + 18000

\* It holds at first.
LEMMA QueryInitIInv ==
    ASSUME Timeout \in Nat \ {0}, QueryInit
    PROVE  QueryIInv
<1>1. QueryLeft = 3 * Timeout + 8000
    BY DEF QueryInit, QueryLeft
<1>2. QED BY <1>1 DEF QueryInit, QueryIInv, QueryTypeOK, RecoverySlack, Second

\* Each attempt takes its share of the lease.
LEMMA SendKeeps ==
    ASSUME Timeout \in Nat \ {0}, QueryIInv, Send
    PROVE  QueryIInv'
<1>1. QueryTypeOK /\ QueryTypeOK'
    BY DEF QueryIInv, QueryTypeOK, Send
<1>2. CASE step = "booked"
  <2>1. attempt = 1 /\ QueryLeft = 3 * Timeout + 8000
      BY <1>2 DEF QueryIInv, QueryLeft
  <2>2. QueryLeft' = 2 * Timeout + 8000
      BY <2>1 DEF Send, QueryLeft
  <2>3. QED BY <1>1, <2>1, <2>2 DEF QueryIInv, QueryTypeOK, Send
<1>3. CASE step = "backoff" /\ attempt = 2
  <2>1. QueryLeft = 2 * Timeout + 4000
      BY <1>3 DEF QueryLeft
  <2>2. QueryLeft' = Timeout + 4000
      BY <1>3 DEF Send, QueryLeft
  <2>3. QED BY <1>1, <1>3, <2>1, <2>2 DEF QueryIInv, QueryTypeOK, Send
<1>4. CASE step = "backoff" /\ attempt = 3
  <2>1. QueryLeft = Timeout
      BY <1>4 DEF QueryLeft
  <2>2. QueryLeft' = 0
      BY <1>4 DEF Send, QueryLeft
  <2>3. QED BY <1>1, <1>4, <2>1, <2>2 DEF QueryIInv, QueryTypeOK, Send
<1>5. QED BY <1>2, <1>3, <1>4 DEF QueryIInv, QueryTypeOK, Send

\* So does each backoff.
LEMMA RetryKeeps ==
    ASSUME Timeout \in Nat \ {0}, QueryIInv, Retry
    PROVE  QueryIInv'
<1>1. PICK delay \in Nat : delay <= MaxBackoff /\ due' = elapsed + delay
    BY DEF Retry
<1>2. delay <= 4000
    BY <1>1 DEF MaxBackoff, Second
<1>3. QueryTypeOK /\ QueryTypeOK'
    BY <1>1, <1>2 DEF QueryIInv, QueryTypeOK, Retry, MaxAttempts
<1>4. CASE attempt = 1
  <2>1. QueryLeft = 2 * Timeout + 8000
      BY <1>4 DEF Retry, QueryLeft
  <2>2. attempt' = 2 /\ QueryLeft' = 2 * Timeout + 4000
      BY <1>4 DEF Retry, QueryLeft
  <2>3. QED BY <1>1, <1>2, <1>3, <2>1, <2>2 DEF QueryIInv, QueryTypeOK, Retry
<1>5. CASE attempt = 2
  <2>1. QueryLeft = Timeout + 4000
      BY <1>5 DEF Retry, QueryLeft
  <2>2. attempt' = 3 /\ QueryLeft' = Timeout
      BY <1>5 DEF Retry, QueryLeft
  <2>3. QED BY <1>1, <1>2, <1>3, <2>1, <2>2 DEF QueryIInv, QueryTypeOK, Retry
<1>6. QED BY <1>4, <1>5 DEF QueryIInv, QueryTypeOK, Retry, MaxAttempts

\* Returning and releasing leave the rest unused.
LEMMA EndKeeps ==
    ASSUME Timeout \in Nat \ {0}, QueryIInv, QueryReturns \/ ReleaseLease
    PROVE  QueryIInv'
<1>1. step' \in {"returned", "released"} /\ UNCHANGED <<elapsed, attempt, due, spare>>
    BY DEF QueryReturns, ReleaseLease
<1>2. QueryTypeOK /\ QueryTypeOK'
    BY <1>1 DEF QueryIInv, QueryTypeOK
<1>3. QueryLeft \in Nat /\ QueryLeft' = 0
    BY <1>1, <1>2 DEF QueryLeft, QueryTypeOK
<1>4. QED BY <1>1, <1>2, <1>3 DEF QueryIInv, QueryTypeOK

\* Time passes within the timer, or takes of the slack.
LEMMA TimeKeeps ==
    ASSUME Timeout \in Nat \ {0}, QueryIInv, QueryTick \/ Lag
    PROVE  QueryIInv'
<1>1. QueryLeft' = QueryLeft
    BY DEF QueryLeft, QueryTick, Lag
<1>2. QueryLeft \in Nat
    BY DEF QueryLeft, QueryIInv, QueryTypeOK
<1>3. CASE QueryTick
    BY <1>1, <1>2, <1>3 DEF QueryIInv, QueryTypeOK, QueryTick
<1>4. CASE Lag
  <2>1. PICK d \in Nat :
            /\ d > 0 /\ d <= spare
            /\ elapsed' = elapsed + d /\ due' = due + d /\ spare' = spare - d
      BY <1>4 DEF Lag
  <2>2. QED BY <1>1, <1>2, <1>4, <2>1 DEF QueryIInv, QueryTypeOK, Lag
<1>5. QED BY <1>3, <1>4

\* The lease of the searches' scope is the one sized for that timeout.
LEMMA DeployedLease ==
    ASSUME Timeout \in Nat \ {0}
    PROVE  Shared("searxng").lease = 3 * Timeout + 18000
<1>1. LeaseTTL(Timeout) = 3 * Timeout + 18000
    BY DEF LeaseTTL, MaxAttempts, MaxBackoff, RecoverySlack, Second
<1>2. Lease(LeaseTTL(Timeout)) = LeaseTTL(Timeout)
    BY <1>1 DEF Lease
<1>3. Shared("searxng").lease = Lease(LeaseTTL(Timeout))
    BY DEF Shared, Timeout
<1>4. QED BY <1>1, <1>2, <1>3

\* In every accepted configuration, the lease of an admission outlives the query it
\* was booked for, each attempt and backoff at its longest.  A timeout of 0, which
\* Load accepts, bounds no attempt: there the theorem says nothing.
THEOREM LeaseCoversAlways ==
    ASSUME Accepted, Timeout > 0
    PROVE  QuerySpec => []LeaseCovers
<1>1. Timeout \in Nat \ {0}
    BY PacingTypes DEF Accepted, Timeout
<1>2. QueryInit => QueryIInv
    BY <1>1, QueryInitIInv
<1>3. QueryIInv /\ [QueryNext]_queryVars => QueryIInv'
  <2>1. SUFFICES ASSUME QueryIInv, [QueryNext]_queryVars PROVE QueryIInv'
      OBVIOUS
  <2>2. CASE Send
      BY <1>1, <2>1, <2>2, SendKeeps
  <2>3. CASE Retry
      BY <1>1, <2>1, <2>3, RetryKeeps
  <2>4. CASE QueryReturns \/ ReleaseLease
      BY <1>1, <2>1, <2>4, EndKeeps
  <2>5. CASE QueryTick \/ Lag
      BY <1>1, <2>1, <2>5, TimeKeeps
  <2>6. CASE UNCHANGED queryVars
    <3>1. QueryLeft' = QueryLeft
        BY <2>6 DEF QueryLeft, queryVars
    <3>2. QED BY <2>1, <2>6, <3>1 DEF QueryIInv, QueryTypeOK, queryVars
  <2>7. QED BY <2>1, <2>2, <2>3, <2>4, <2>5, <2>6 DEF QueryNext
<1>4. QueryIInv => LeaseCovers
  <2>1. SUFFICES ASSUME QueryIInv PROVE elapsed <= Shared("searxng").lease
      BY DEF LeaseCovers
  <2>2. QueryLeft \in Nat
      BY <1>1, <2>1 DEF QueryLeft, QueryIInv, QueryTypeOK
  <2>3. QED BY <1>1, <2>1, <2>2, DeployedLease DEF QueryIInv, QueryTypeOK
<1>5. QED BY <1>2, <1>3, <1>4, PTL DEF QuerySpec

-----------------------------------------------------------------------------
(* What a window is, for every page and every cap.                         *)

\* The part kept is some of the window and at most all of it.
LEMMA KeepSome ==
    ASSUME Params, NEW cap \in Nat, cap > 0, NEW start \in Nat, NEW n \in Nat
    PROVE  Keep(cap, start, n) \in Nat /\ 1 <= Keep(cap, start, n) /\ Keep(cap, start, n) <= cap
<1>1. start + cap \in Nat
    OBVIOUS
<1>2. Marker(start + cap, n) \in Nat
    BY <1>1 DEF Params
<1>3. QED BY <1>2 DEF Keep

\* A cap is a natural number.
LEMMA CapType ==
    ASSUME Params, NEW maxChars \in Nat
    PROVE  Cap(maxChars) \in Nat
BY DEF Params, Cap

\* A window of a page leads on by what it shows, and stays within the page.
LEMMA WindowLeads ==
    ASSUME Params, NEW cap \in Nat, NEW start \in Nat, NEW n \in Nat
    PROVE  /\ Window(cap, start, n) \in Nat /\ NextStart(cap, start, n) \in Nat
           /\ NextStart(cap, start, n) <= n
           /\ start <= n => NextStart(cap, start, n) = start + Window(cap, start, n)
           /\ NextStart(cap, start, n) < n => NextStart(cap, start, n) > start
<1>1. CASE IsCut(cap, start, n)
  <2>1. ~PastEnd(start, n) /\ cap > 0 /\ n - start > cap
      BY <1>1 DEF IsCut
  <2>2. Keep(cap, start, n) \in Nat /\ 1 <= Keep(cap, start, n) /\ Keep(cap, start, n) <= cap
      BY <2>1, KeepSome
  <2>3. Window(cap, start, n) = Keep(cap, start, n)
      BY <1>1, <2>1 DEF Window
  <2>4. NextStart(cap, start, n) = start + Keep(cap, start, n)
      BY <1>1 DEF NextStart
  <2>5. QED BY <2>1, <2>2, <2>3, <2>4
<1>2. CASE ~IsCut(cap, start, n)
  <2>1. NextStart(cap, start, n) = n
      BY <1>2 DEF NextStart
  <2>2. CASE PastEnd(start, n)
    <3>1. start >= n /\ Window(cap, start, n) = 0
        BY <2>2 DEF PastEnd, Window
    <3>2. QED BY <2>1, <3>1
  <2>3. CASE ~PastEnd(start, n)
    <3>1. start <= n /\ Window(cap, start, n) = n - start
        BY <1>2, <2>3 DEF PastEnd, Window
    <3>2. QED BY <2>1, <3>1
  <2>4. QED BY <2>2, <2>3
<1>3. QED BY <1>1, <1>2

\* What a cut answer returns, marker and all, is within the cap, whenever the
\* marker leaves room for one character of text (domain/truncate.go: the marker
\* written is for a nearer offset than the one room was made for).
THEOREM WindowFits ==
    ASSUME Params, NEW cap \in Nat, NEW start \in Nat, NEW n \in Nat,
           IsCut(cap, start, n), cap > Marker(start + cap, n)
    PROVE  Returned(cap, start, n) <= cap
<1> DEFINE keep == Keep(cap, start, n)
<1>1. ~PastEnd(start, n) /\ cap > 0
    BY DEF IsCut
<1>2. Marker(start + cap, n) \in Nat
  <2>1. start + cap \in Nat
      OBVIOUS
  <2>2. QED BY <2>1 DEF Params
<1>3. keep = cap - Marker(start + cap, n)
    BY <1>2 DEF Keep
<1>4. keep \in Nat /\ start + keep \in Nat /\ start + cap \in Nat /\ start + keep <= start + cap
    BY <1>2, <1>3
<1>5. Marker(start + keep, n) \in Nat
    BY <1>4 DEF Params
<1>6. Marker(start + keep, n) <= Marker(start + cap, n)
    BY <1>4 DEF Params
<1>7. Returned(cap, start, n) = keep + Marker(start + keep, n)
    BY <1>1 DEF Returned, Window, NextStart
<1> HIDE DEF keep
<1>8. QED BY <1>2, <1>3, <1>4, <1>5, <1>6, <1>7

-----------------------------------------------------------------------------
(* What a reader gets.                                                     *)

\* The invariant: what was read is what lies before the offset, and only a page
\* that may be cut is read in more than one call.
ReadIInv ==
    /\ ReadTypeOK /\ NothingLostOrRepeated
    /\ kind = "structured" => at = 0 \/ reader = "done"

\* It holds at first.
LEMMA ReadInitIInv ==
    ASSUME ReadInit
    PROVE  ReadIInv
BY DEF ReadInit, ReadIInv, ReadTypeOK, NothingLostOrRepeated

\* What a call gives, and where it leads.
LEMMA GivenLeads ==
    ASSUME Params, ReadTypeOK, NEW maxChars \in Nat
    PROVE  /\ Delivered(maxChars) \in Nat /\ GoesOn(maxChars) \in Nat
           /\ GoesOn(maxChars) <= total
           /\ at <= total /\ (kind = "structured" => at = 0)
                => GoesOn(maxChars) = at + Delivered(maxChars)
           /\ GoesOn(maxChars) < total => GoesOn(maxChars) > at
<1>1. CASE kind = "structured"
    BY <1>1 DEF Delivered, GoesOn, ReadTypeOK
<1>2. CASE kind = "text"
  <2>1. Cap(maxChars) \in Nat /\ at \in Nat /\ total \in Nat
      BY CapType DEF ReadTypeOK
  <2>2. /\ Delivered(maxChars) = Window(Cap(maxChars), at, total)
        /\ GoesOn(maxChars) = NextStart(Cap(maxChars), at, total)
      BY <1>2 DEF Delivered, GoesOn
  <2> DEFINE cap == Cap(maxChars)
  <2>3. /\ Window(cap, at, total) \in Nat /\ NextStart(cap, at, total) \in Nat
        /\ NextStart(cap, at, total) <= total
        /\ at <= total => NextStart(cap, at, total) = at + Window(cap, at, total)
        /\ NextStart(cap, at, total) < total => NextStart(cap, at, total) > at
    <3> HIDE DEF cap
    <3>1. cap \in Nat /\ at \in Nat /\ total \in Nat
        BY <2>1 DEF cap
    <3>2. QED BY <3>1, WindowLeads
  <2>4. QED BY <2>2, <2>3
<1>3. QED BY <1>1, <1>2 DEF ReadTypeOK

\* A call keeps it, and moves on.
LEMMA FetchKeeps ==
    ASSUME Params, ReadIInv, FetchURL
    PROVE  ReadIInv' /\ (at' > at \/ reader' = "done")
<1>1. PICK maxChars \in Nat :
          /\ read' = read + Delivered(maxChars)
          /\ at' = GoesOn(maxChars)
          /\ reader' = IF GoesOn(maxChars) >= total THEN "done" ELSE "reading"
    BY DEF FetchURL
<1>2. reader = "reading" /\ UNCHANGED <<total, kind, page>>
    BY DEF FetchURL
<1>3. ReadTypeOK
    BY DEF ReadIInv
<1>4. /\ Delivered(maxChars) \in Nat /\ GoesOn(maxChars) \in Nat
      /\ GoesOn(maxChars) <= total
      /\ at <= total /\ (kind = "structured" => at = 0)
           => GoesOn(maxChars) = at + Delivered(maxChars)
      /\ GoesOn(maxChars) < total => GoesOn(maxChars) > at
    BY <1>3, GivenLeads
<1>5. ReadTypeOK'
    BY <1>1, <1>2, <1>3, <1>4 DEF ReadTypeOK
<1>6. NothingLostOrRepeated'
  <2>1. SUFFICES ASSUME page = "same"
                 PROVE  read' = at' /\ at' <= total /\ (reader' = "done" => read' = total)
      BY <1>2 DEF NothingLostOrRepeated
  <2>2. read = at /\ at <= total /\ (kind = "structured" => at = 0)
      BY <2>1, <1>2 DEF ReadIInv, NothingLostOrRepeated
  <2>3. GoesOn(maxChars) = at + Delivered(maxChars)
      BY <1>4, <2>2
  <2>4. reader' = "done" => GoesOn(maxChars) = total
      BY <1>1, <1>3, <1>4 DEF ReadTypeOK
  <2>5. QED BY <1>1, <1>4, <2>2, <2>3, <2>4
<1>7. kind' = "structured" => at' = 0 \/ reader' = "done"
  <2>1. SUFFICES ASSUME kind = "structured" PROVE reader' = "done"
      BY <1>2
  <2>2. GoesOn(maxChars) = total
      BY <2>1 DEF GoesOn
  <2>3. QED BY <1>1, <1>4, <2>2
<1>8. at' > at \/ reader' = "done"
    BY <1>1, <1>3, <1>4 DEF ReadTypeOK
<1>9. QED BY <1>5, <1>6, <1>7, <1>8 DEF ReadIInv

\* So does another page under the same offset, which owes the reader nothing.
LEMMA RefreshKeeps ==
    ASSUME ReadIInv, Refresh
    PROVE  ReadIInv'
BY DEF ReadIInv, ReadTypeOK, NothingLostOrRepeated, Refresh

\* The invariant of every reading.
LEMMA ReadInvariant ==
    ASSUME Params
    PROVE  ReadSpec => []ReadIInv
<1>1. ReadInit => ReadIInv
    BY ReadInitIInv
<1>2. ReadIInv /\ [ReadNext]_readVars => ReadIInv'
  <2>1. SUFFICES ASSUME ReadIInv, [ReadNext]_readVars PROVE ReadIInv'
      OBVIOUS
  <2>2. CASE FetchURL
      BY <2>1, <2>2, FetchKeeps
  <2>3. CASE Refresh
      BY <2>1, <2>3, RefreshKeeps
  <2>4. CASE UNCHANGED readVars
      BY <2>1, <2>4 DEF ReadIInv, ReadTypeOK, NothingLostOrRepeated, readVars
  <2>5. QED BY <2>1, <2>2, <2>3, <2>4 DEF ReadNext
<1>3. QED BY <1>1, <1>2, PTL DEF ReadSpec

\* Of a page that stays the same, every character is delivered, none twice
\* (TruncateContent's offsets, for any page, any caps and any marker).
THEOREM ReadWhole ==
    ASSUME Params
    PROVE  ReadSpec => []NothingLostOrRepeated
<1>1. ReadSpec => []ReadIInv
    BY ReadInvariant
<1>2. ReadIInv => NothingLostOrRepeated
    BY DEF ReadIInv
<1>3. QED BY <1>1, <1>2, PTL

\* Every call moves on or is the last (the reason TruncateContent lets a window
\* too small for the marker overshoot).
THEOREM MovesOn ==
    ASSUME Params
    PROVE  ReadSpec => CallsMoveOn
<1>1. ReadSpec => []ReadIInv
    BY ReadInvariant
<1>2. ReadIInv /\ [ReadNext]_readVars => [FetchURL => at' > at \/ reader' = "done"]_readVars
    BY FetchKeeps
<1>3. QED BY <1>1, <1>2, PTL DEF ReadSpec, CallsMoveOn

-----------------------------------------------------------------------------
(* The inductive invariant.                                                *)

\* A caller that has paid a timeout still has the circuit's cooldown to wait.
Covered == \A c \in Callers : spent[c] <= left /\ (spent[c] > 0 => open)

\* Fallback is held back for as long as anyone who has returned asked.
Warm == owed <= held["fallback"]

\* What a caller will tell the hook agrees with the backend that will serve it.
Bound ==
    \A c \in Callers :
      /\ pc[c] = "notifying" => call[c].via = IF call[c].down THEN "fallback" ELSE "primary"

IInv == TypeOK /\ Covered /\ Warm /\ Bound /\ SlotsBalanced

\* A countdown stays a countdown.
LEMMA LessType ==
    ASSUME NEW n \in Nat
    PROVE  Less(n) \in Nat /\ Less(n) <= n /\ (n > 0 => Less(n) = n - 1) /\ (n = 0 => Less(n) = 0)
BY DEF Less, Later

\* The callers a backend has admitted are finitely many.
LEMMA AdmittedFinite == \A b : IsFiniteSet(AdmittedBy(b)) /\ Cardinality(AdmittedBy(b)) \in Nat
<1>1. \A b : AdmittedBy(b) \subseteq Callers
    BY DEF AdmittedBy
<1>2. QED BY <1>1, ConfigAssumption, FS_Subset, FS_CardinalityType

\* A step of caller c, whatever it does to c, leaves the others where they stood.
OnlyMoves(c) ==
    /\ \A d \in Callers \ {c} : pc'[d] = pc[d] /\ call'[d] = call[d]

\* Then a backend's callers change by c or not at all.
LEMMA AdmittedMoves ==
    ASSUME NEW c \in Callers, OnlyMoves(c), NEW b
    PROVE  /\ c \in AdmittedBy(b) /\ c \in AdmittedBy(b)' => AdmittedBy(b)' = AdmittedBy(b)
           /\ c \notin AdmittedBy(b) /\ c \notin AdmittedBy(b)' => AdmittedBy(b)' = AdmittedBy(b)
           /\ c \notin AdmittedBy(b) /\ c \in AdmittedBy(b)' =>
                Cardinality(AdmittedBy(b)') = Cardinality(AdmittedBy(b)) + 1
           /\ c \in AdmittedBy(b) /\ c \notin AdmittedBy(b)' =>
                Cardinality(AdmittedBy(b)') = Cardinality(AdmittedBy(b)) - 1
<1>1. \A d \in Callers \ {c} : d \in AdmittedBy(b)' <=> d \in AdmittedBy(b)
    BY DEF OnlyMoves, AdmittedBy
<1>2. AdmittedBy(b) \subseteq Callers /\ AdmittedBy(b)' \subseteq Callers
    BY DEF AdmittedBy
<1>3. ASSUME c \notin AdmittedBy(b), c \in AdmittedBy(b)'
      PROVE  Cardinality(AdmittedBy(b)') = Cardinality(AdmittedBy(b)) + 1
    <2>1. AdmittedBy(b)' = AdmittedBy(b) \cup {c}
        BY <1>1, <1>2, <1>3
    <2>2. QED BY <2>1, <1>3, AdmittedFinite, FS_AddElement
<1>4. ASSUME c \in AdmittedBy(b), c \notin AdmittedBy(b)'
      PROVE  Cardinality(AdmittedBy(b)') = Cardinality(AdmittedBy(b)) - 1
    <2>1. AdmittedBy(b)' = AdmittedBy(b) \ {c}
        BY <1>1, <1>2, <1>4
    <2>2. QED BY <2>1, <1>4, AdmittedFinite, FS_RemoveElement
<1>5. QED BY <1>1, <1>2, <1>3, <1>4

\* A step that moves c in or out of nobody's callers keeps the balance.
LEMMA BalanceStays ==
    ASSUME IInv, NEW c \in Callers, OnlyMoves(c), slots' = slots,
           \A b \in Backends : c \in AdmittedBy(b)' <=> c \in AdmittedBy(b)
    PROVE  SlotsBalanced'
<1>1. \A b \in Backends : AdmittedBy(b)' = AdmittedBy(b)
    BY AdmittedMoves
<1>2. QED BY <1>1 DEF IInv, SlotsBalanced

-----------------------------------------------------------------------------
(* The steps.                                                              *)

\* The limiter starts balanced, closed and owing nothing.
LEMMA InitIInv == Init => IInv
<1> SUFFICES ASSUME Init PROVE IInv
    OBVIOUS
<1>1. TypeOK
    <2>1. NoCall \in [via : Backends, hold : Nat, down : BOOLEAN]
        BY DEF NoCall, Backends
    <2>2. call \in [Callers -> [via : Backends, hold : Nat, down : BOOLEAN]]
        BY <2>1 DEF Init
    <2>3. left \in 0..Cooldown /\ spent \in [Callers -> 0..Cooldown]
        BY ConfigAssumption DEF Init
    <2>4. slots \in [Backends -> Nat] /\ held \in [Backends -> Nat] /\ owed \in Nat
        BY DEF Init
    <2>5. pc \in [Callers -> States] /\ {reachable, open, gauge} \subseteq BOOLEAN
        BY DEF Init, States
    <2>6. QED BY <2>2, <2>3, <2>4, <2>5 DEF TypeOK
<1>2. Covered /\ Warm /\ Bound
    BY DEF Init, Covered, Warm, Bound, Backends
<1>3. \A b \in Backends : AdmittedBy(b) = {}
    BY DEF Init, AdmittedBy
<1>4. SlotsBalanced
    BY <1>3, FS_EmptySet DEF Init, SlotsBalanced
<1>5. QED BY <1>1, <1>2, <1>4 DEF IInv

\* A caller's step keeps the types. Release gives back a slot that is out.
LEMMA CallerType == ASSUME IInv, NEW c \in Callers, CallerStep(c) PROVE TypeOK'
<1> USE DEF Goto, Return, circuit, backends
<1>1. TypeOK /\ SlotsBalanced
    BY DEF IInv
<1>2. CASE Acquire(c)
    BY <1>1, <1>2 DEF Acquire, TypeOK, States
<1>3. CASE PrimaryAdmits(c)
    <2>1. slots' \in [Backends -> Nat]
        <3>1. slots' = [slots EXCEPT !["primary"] = slots["primary"] + 1]
            BY <1>3 DEF PrimaryAdmits
        <3>2. slots \in [Backends -> Nat] /\ "primary" \in Backends
            BY <1>1 DEF TypeOK, Backends
        <3>3. slots["primary"] + 1 \in Nat
            BY <3>2
        <3>4. QED BY <3>1, <3>2, <3>3
    <2>2. QED BY <2>1, <1>1, <1>3 DEF PrimaryAdmits, TypeOK, States
<1>4. CASE PrimaryFails(c)
    BY <1>1, <1>4 DEF PrimaryFails, TypeOK, States
<1>5. CASE Refused(c)
    BY <1>1, <1>5 DEF Refused, TypeOK, States, NoCall, Backends
<1>6. CASE MarkUp(c)
    <2>1. call' \in [Callers -> [via : Backends, hold : Nat, down : BOOLEAN]]
        <3> DEFINE mine == [call[c] EXCEPT !.via = "primary", !.down = FALSE]
        <3>1. mine \in [via : Backends, hold : Nat, down : BOOLEAN]
            BY <1>1 DEF TypeOK, Backends
        <3>2. call' = [call EXCEPT ![c] = mine]
            BY <1>6 DEF MarkUp
        <3> HIDE DEF mine
        <3>3. QED BY <1>1, <3>1, <3>2 DEF TypeOK
    <2>2. left' = 0 /\ spent' = [d \in Callers |-> 0] /\ open' = FALSE /\ 0 \in 0..Cooldown
        BY <1>6, ConfigAssumption DEF MarkUp
    <2>3. pc' \in [Callers -> States]
        BY <1>1, <1>6 DEF MarkUp, TypeOK, States
    <2>4. UNCHANGED <<reachable, gauge, backends, owed>>
        BY <1>6 DEF MarkUp
    <2>5. spent' \in [Callers -> 0..Cooldown] /\ left' \in 0..Cooldown /\ open' \in BOOLEAN
        BY <2>2
    <2>6. QED BY <2>1, <2>3, <2>4, <2>5, <1>1 DEF TypeOK, backends
<1>7. CASE MarkDown(c)
    <2>1. call' \in [Callers -> [via : Backends, hold : Nat, down : BOOLEAN]]
        <3> DEFINE mine == [call[c] EXCEPT !.via = "fallback", !.down = TRUE]
        <3>1. mine \in [via : Backends, hold : Nat, down : BOOLEAN]
            BY <1>1 DEF TypeOK, Backends
        <3>2. call' = [call EXCEPT ![c] = mine]
            BY <1>7 DEF MarkDown
        <3> HIDE DEF mine
        <3>3. QED BY <1>1, <3>1, <3>2 DEF TypeOK
    <2>2. left' \in 0..Cooldown /\ spent' \in [Callers -> 0..Cooldown] /\ open' \in BOOLEAN
        BY <1>1, <1>7, ConfigAssumption DEF MarkDown, TypeOK
    <2>3. pc' \in [Callers -> States]
        BY <1>1, <1>7 DEF MarkDown, TypeOK, States
    <2>4. QED BY <2>1, <2>2, <2>3, <1>1, <1>7 DEF MarkDown, TypeOK
<1>8. CASE Notify(c)
    BY <1>1, <1>8 DEF Notify, TypeOK, States
<1>9. CASE FallbackAdmits(c)
    <2>1. slots' \in [Backends -> Nat]
        <3>1. slots' = [slots EXCEPT !["fallback"] = slots["fallback"] + 1]
            BY <1>9 DEF FallbackAdmits
        <3>2. slots \in [Backends -> Nat] /\ "fallback" \in Backends
            BY <1>1 DEF TypeOK, Backends
        <3>3. slots["fallback"] + 1 \in Nat
            BY <3>2
        <3>4. QED BY <3>1, <3>2, <3>3
    <2>2. call' \in [Callers -> [via : Backends, hold : Nat, down : BOOLEAN]]
        BY <1>1, <1>9 DEF FallbackAdmits, TypeOK, Backends
    <2>3. QED BY <2>1, <2>2, <1>1, <1>9 DEF FallbackAdmits, TypeOK, States
<1>10. CASE Release(c)
    <2>1. call[c].via \in Backends /\ c \in AdmittedBy(call[c].via)
        BY <1>1, <1>10 DEF Release, TypeOK, AdmittedBy
    <2>2. slots[call[c].via] \in Nat \ {0}
        BY <2>1, <1>1, AdmittedFinite, FS_EmptySet DEF SlotsBalanced
    <2>3. slots' \in [Backends -> Nat]
        <3> DEFINE b == call[c].via
        <3>1. slots' = [slots EXCEPT ![b] = slots[b] - 1]
            BY <1>10 DEF Release
        <3>2. slots[b] - 1 \in Nat
            BY <2>2
        <3>3. slots \in [Backends -> Nat]
            BY <1>1 DEF TypeOK
        <3> HIDE DEF b
        <3>4. QED BY <3>1, <3>2, <3>3
    <2>4. QED BY <2>3, <1>1, <1>10 DEF Release, TypeOK, States, NoCall, Backends
<1>11. ASSUME NEW h \in Holds, Penalize(c, h) PROVE TypeOK'
    BY <1>1, <1>11, ConfigAssumption DEF Penalize, TypeOK, States, Backends
<1>12. CASE PenalizePrimary(c)
    BY <1>1, <1>12 DEF PenalizePrimary, TypeOK, States, Backends, Later
<1>13. CASE PenalizeFallback(c)
    BY <1>1, <1>13 DEF PenalizeFallback, TypeOK, States, Backends, Later
<1>14. QED
    BY <1>2, <1>3, <1>4, <1>5, <1>6, <1>7, <1>8, <1>9, <1>10, <1>11, <1>12, <1>13
       DEF CallerStep

\* Only markDown makes anyone wait, and it makes the circuit wait as long.
LEMMA CallerCovered == ASSUME IInv, NEW c \in Callers, CallerStep(c) PROVE Covered'
<1>1. TypeOK /\ Covered
    BY DEF IInv
<1>2. CASE MarkUp(c)
    BY <1>2 DEF MarkUp, Covered
<1>3. CASE MarkDown(c)
    BY <1>1, <1>3, ConfigAssumption DEF MarkDown, Covered, TypeOK
<1>4. CASE UNCHANGED <<open, left, spent>>
    BY <1>1, <1>4 DEF Covered
<1>5. QED
    BY <1>2, <1>3, <1>4
       DEF CallerStep, Acquire, PrimaryAdmits, PrimaryFails, Refused, Notify, FallbackAdmits,
           Release, Penalize, PenalizePrimary, PenalizeFallback, circuit

\* Nobody is owed a delay Fallback does not keep.
LEMMA CallerWarm == ASSUME IInv, NEW c \in Callers, CallerStep(c) PROVE Warm'
<1>1. TypeOK /\ Warm
    BY DEF IInv
<1>2. CASE PenalizePrimary(c)
    BY <1>1, <1>2 DEF PenalizePrimary, Warm, TypeOK, Backends
<1>3. CASE PenalizeFallback(c)
    <2>1. call[c].hold \in Nat /\ owed \in Nat /\ held["fallback"] \in Nat
        BY <1>1 DEF TypeOK, Backends
    <2>2. /\ owed' = Later(owed, call[c].hold)
          /\ held'["fallback"] = Later(held["fallback"], call[c].hold)
        BY <1>1, <1>3 DEF PenalizeFallback, TypeOK, Backends
    <2>3. QED BY <2>1, <2>2, <1>1 DEF Warm, Later
<1>4. CASE UNCHANGED <<held, owed>>
    BY <1>1, <1>4 DEF Warm
<1>5. QED
    BY <1>2, <1>3, <1>4
       DEF CallerStep, Acquire, PrimaryAdmits, PrimaryFails, Refused, MarkUp, MarkDown, Notify,
           FallbackAdmits, Release, Penalize, backends

\* A caller about to call the hook holds a slot of Primary if it closed the circuit.
LEMMA CallerBound == ASSUME IInv, NEW c \in Callers, CallerStep(c) PROVE Bound'
<1> USE DEF Goto, Return
<1> DEFINE B(d) == pc[d] = "notifying" =>
                     call[d].via = IF call[d].down THEN "fallback" ELSE "primary"
<1>1. TypeOK /\ \A d \in Callers : B(d)
    BY DEF IInv, Bound
<1>2. CASE MarkUp(c)
    <2>1. \A d \in Callers \ {c} : pc'[d] = pc[d] /\ call'[d] = call[d]
        BY <1>1, <1>2 DEF MarkUp, TypeOK
    <2>2. call'[c].via = "primary" /\ ~call'[c].down
        BY <1>1, <1>2 DEF MarkUp, TypeOK
    <2>3. QED BY <2>1, <2>2, <1>1 DEF Bound
<1>3. CASE MarkDown(c)
    <2>1. \A d \in Callers \ {c} : pc'[d] = pc[d] /\ call'[d] = call[d]
        BY <1>1, <1>3 DEF MarkDown, TypeOK
    <2>2. call'[c].via = "fallback" /\ call'[c].down
        BY <1>1, <1>3 DEF MarkDown, TypeOK
    <2>3. QED BY <2>1, <2>2, <1>1 DEF Bound
<1>4. ASSUME OnlyMoves(c), pc'[c] # "notifying"
      PROVE  Bound'
    BY <1>1, <1>4 DEF OnlyMoves, Bound
<1>5. ASSUME CallerStep(c), ~MarkUp(c), ~MarkDown(c)
      PROVE  OnlyMoves(c) /\ pc'[c] # "notifying"
    BY <1>1, <1>5
       DEF CallerStep, OnlyMoves, TypeOK, Acquire, PrimaryAdmits, PrimaryFails, Refused, Notify,
           FallbackAdmits, Release, Penalize, PenalizePrimary, PenalizeFallback
<1>6. QED BY <1>2, <1>3, <1>4, <1>5

\* A caller's step gives out and takes back the slots of the backend it moves at.
LEMMA CallerBalance == ASSUME IInv, NEW c \in Callers, CallerStep(c) PROVE SlotsBalanced'
<1> USE DEF Goto, Return, backends
<1>1. TypeOK /\ Bound /\ SlotsBalanced
    BY DEF IInv
<1>2. OnlyMoves(c)
    BY <1>1
       DEF CallerStep, OnlyMoves, TypeOK, Acquire, PrimaryAdmits, PrimaryFails, Refused, MarkUp,
           MarkDown, Notify, FallbackAdmits, Release, Penalize, PenalizePrimary, PenalizeFallback
<1>3. CASE PrimaryAdmits(c)
    <2>1. c \notin AdmittedBy("primary") /\ c \notin AdmittedBy("fallback")
        BY <1>3 DEF PrimaryAdmits, AdmittedBy
    <2>2. pc'[c] = "granted" /\ slots' = [slots EXCEPT !["primary"] = slots["primary"] + 1]
        BY <1>1, <1>3 DEF PrimaryAdmits, TypeOK
    <2>3. c \in AdmittedBy("primary")' /\ c \notin AdmittedBy("fallback")'
        BY <2>2 DEF AdmittedBy
    <2>4. QED BY <2>1, <2>2, <2>3, <1>1, <1>2, AdmittedMoves DEF SlotsBalanced, TypeOK, Backends
<1>4. CASE FallbackAdmits(c)
    <2>1. c \notin AdmittedBy("primary") /\ c \notin AdmittedBy("fallback")
        BY <1>4 DEF FallbackAdmits, AdmittedBy
    <2>2. /\ pc'[c] = "sending" /\ call'[c].via = "fallback"
          /\ slots' = [slots EXCEPT !["fallback"] = slots["fallback"] + 1]
        BY <1>1, <1>4 DEF FallbackAdmits, TypeOK
    <2>3. c \notin AdmittedBy("primary")' /\ c \in AdmittedBy("fallback")'
        BY <2>2 DEF AdmittedBy
    <2>4. QED BY <2>1, <2>2, <2>3, <1>1, <1>2, AdmittedMoves DEF SlotsBalanced, TypeOK, Backends
<1>5. CASE Release(c)
    <2> DEFINE b == call[c].via
    <2>1. b \in Backends /\ pc[c] = "sending"
        BY <1>1, <1>5 DEF Release, TypeOK
    <2>2. \A a \in Backends : c \in AdmittedBy(a) <=> a = b
        BY <2>1 DEF AdmittedBy
    <2>3. pc'[c] = "idle" /\ slots' = [slots EXCEPT ![b] = slots[b] - 1]
        BY <1>1, <1>5 DEF Release, TypeOK
    <2>4. \A a \in Backends : c \notin AdmittedBy(a)'
        BY <2>3 DEF AdmittedBy
    <2>5. slots \in [Backends -> Nat]
        BY <1>1 DEF TypeOK
    <2> HIDE DEF b
    <2>6. QED BY <2>1, <2>2, <2>3, <2>4, <2>5, <1>1, <1>2, AdmittedMoves DEF SlotsBalanced
<1>6. ASSUME CallerStep(c), ~PrimaryAdmits(c), ~FallbackAdmits(c), ~Release(c)
      PROVE  SlotsBalanced'
    <2>1. slots' = slots
        BY <1>6
           DEF CallerStep, Acquire, PrimaryFails, Refused, MarkUp, MarkDown, Notify, Penalize,
               PenalizePrimary, PenalizeFallback
    <2>2. \A b \in Backends : c \in AdmittedBy(b)' <=> c \in AdmittedBy(b)
        <3>1. CASE Acquire(c) \/ PrimaryFails(c) \/ Refused(c)
            BY <3>1, <1>1 DEF AdmittedBy, TypeOK, Acquire, PrimaryFails, Refused
        <3>2. CASE MarkUp(c)
            BY <3>2, <1>1 DEF AdmittedBy, TypeOK, MarkUp, Backends
        <3>3. CASE MarkDown(c)
            BY <3>3, <1>1 DEF AdmittedBy, TypeOK, MarkDown, Backends
        <3>4. CASE Notify(c)
            BY <3>4, <1>1 DEF AdmittedBy, TypeOK, Bound, Notify, Backends
        <3>5. ASSUME NEW h \in Holds, Penalize(c, h)
              PROVE  \A b \in Backends : c \in AdmittedBy(b)' <=> c \in AdmittedBy(b)
            BY <3>5, <1>1 DEF AdmittedBy, TypeOK, Penalize, Backends
        <3>6. CASE PenalizePrimary(c)
            BY <3>6, <1>1 DEF AdmittedBy, TypeOK, PenalizePrimary
        <3>7. CASE PenalizeFallback(c)
            <4>1. pc[c] = "penalizing fallback" /\ pc'[c] = "sending" /\ call'[c].via = call[c].via
                BY <3>7, <1>1 DEF TypeOK, PenalizeFallback
            <4>2. QED BY <4>1 DEF AdmittedBy
        <3>8. QED BY <1>6, <3>1, <3>2, <3>3, <3>4, <3>5, <3>6, <3>7 DEF CallerStep
    <2>3. QED BY <2>1, <2>2, <1>2, BalanceStays
<1>7. QED BY <1>3, <1>4, <1>5, <1>6

\* The passing of time takes as much from every countdown.
LEMMA TickIInv == ASSUME IInv, Tick PROVE IInv'
<1>1. TypeOK /\ Covered /\ Warm /\ Bound /\ SlotsBalanced
    BY DEF IInv
<1>2. \A n \in 0..Cooldown : Less(n) \in 0..Cooldown
    BY ConfigAssumption, LessType
<1>3. TypeOK'
    <2>1. left' \in 0..Cooldown /\ spent' \in [Callers -> 0..Cooldown]
        BY <1>1, <1>2 DEF Tick, TypeOK
    <2>2. held' \in [Backends -> Nat] /\ owed' \in Nat
        BY <1>1, LessType DEF Tick, TypeOK
    <2>3. QED BY <2>1, <2>2, <1>1 DEF Tick, TypeOK
<1>4. Covered'
    <2> SUFFICES ASSUME NEW c \in Callers
                 PROVE  spent'[c] <= left' /\ (spent'[c] > 0 => open')
        BY DEF Covered
    <2>1. spent[c] \in Nat /\ left \in Nat /\ spent[c] <= left /\ (spent[c] > 0 => open)
        BY <1>1, ConfigAssumption DEF TypeOK, Covered
    <2>2. spent'[c] = Less(spent[c]) /\ left' = Less(left) /\ open' = open
        BY DEF Tick
    <2>3. QED BY <2>1, <2>2 DEF Less, Later
<1>5. Warm'
    <2>1. owed \in Nat /\ held["fallback"] \in Nat /\ owed <= held["fallback"]
        BY <1>1 DEF TypeOK, Warm, Backends
    <2>2. owed' = Less(owed) /\ held'["fallback"] = Less(held["fallback"])
        BY DEF Tick, Backends
    <2>3. QED BY <2>1, <2>2 DEF Warm, Less, Later
<1>6. Bound'
    BY <1>1 DEF Bound, Tick
<1>7. SlotsBalanced'
    <2>1. \A b \in Backends : AdmittedBy(b)' = AdmittedBy(b)
        BY DEF Tick, AdmittedBy
    <2>2. QED BY <2>1, <1>1 DEF SlotsBalanced, Tick
<1>8. QED BY <1>3, <1>4, <1>5, <1>6, <1>7 DEF IInv

\* Neither an outage nor a stutter touches what the invariant relates.
LEMMA QuietIInv == ASSUME IInv, Outage \/ UNCHANGED vars PROVE IInv'
<1>1. UNCHANGED <<open, left, gauge, slots, held, pc, call, owed, spent>> /\ reachable' \in BOOLEAN
    BY DEF Outage, vars, circuit, backends, IInv, TypeOK
<1>2. \A b \in Backends : AdmittedBy(b)' = AdmittedBy(b)
    BY <1>1 DEF AdmittedBy
<1>3. QED BY <1>1, <1>2 DEF IInv, TypeOK, Covered, Warm, Bound, SlotsBalanced

\* IInv is inductive: every step of the limiter keeps it.
THEOREM StepIInv == IInv /\ [Next]_vars => IInv'
<1> SUFFICES ASSUME IInv, [Next]_vars PROVE IInv'
    OBVIOUS
<1>1. ASSUME NEW c \in Callers, CallerStep(c) PROVE IInv'
    BY <1>1, CallerType, CallerCovered, CallerWarm, CallerBound, CallerBalance DEF IInv
<1>2. QED BY <1>1, TickIInv, QuietIInv DEF Next

\* IInv always holds.
THEOREM AlwaysIInv == Spec => []IInv
<1>1. QED BY InitIInv, StepIInv, PTL DEF Spec

-----------------------------------------------------------------------------
(* What follows from it.                                                   *)

\* The types TypeOK gives are kept, whatever the backends do.
THEOREM TypeCorrect == Spec => []TypeOK
<1>1. IInv => TypeOK
    BY DEF IInv
<1>2. QED BY <1>1, AlwaysIInv, PTL

\* However often the circuit opens and closes while requests are in flight, what a
\* backend has handed out is what its callers hold: a release never reaches the
\* other backend.
THEOREM Balanced == Spec => []SlotsBalanced
<1>1. IInv => SlotsBalanced
    BY DEF IInv
<1>2. QED BY <1>1, AlwaysIInv, PTL

\* The fallback admits nobody while a Retry-After already recorded is running,
\* whichever backend served when it was recorded.
THEOREM Warmed == Spec => FallbackWarm
<1>1. ASSUME IInv PROVE \A c \in Callers : FallbackAdmits(c) => owed = 0
    <2>1. owed \in Nat /\ owed <= held["fallback"]
        BY <1>1 DEF IInv, TypeOK, Warm
    <2>2. QED BY <2>1 DEF FallbackAdmits
<1>2. QED BY <1>1, AlwaysIInv, PTL DEF FallbackWarm

\* A caller that has paid the dead backend's timeout does not pay it again before
\* the circuit is due for a probe, or has been closed by someone's success.
THEOREM TimeoutOnce == Spec => OneTimeoutPerCooldown
<1>1. ASSUME IInv, [Next]_vars
      PROVE  \A c \in Callers : pc[c] = "idle" /\ pc'[c] = "asking" => spent[c] = 0
    <2> SUFFICES ASSUME NEW c \in Callers, pc[c] = "idle", pc'[c] = "asking"
                 PROVE  spent[c] = 0
        OBVIOUS
    <2>1. TypeOK /\ Covered
        BY <1>1 DEF IInv
    <2>2. spent[c] \in Nat /\ left \in Nat
        BY <2>1, ConfigAssumption DEF TypeOK
    <2>3. PrimaryReady
        <3>1. PICK d \in Callers : CallerStep(d)
            BY <1>1 DEF Next, Outage, Tick, vars
        <3>2. d = c
            BY <3>1, <2>1
               DEF CallerStep, TypeOK, Acquire, PrimaryAdmits, PrimaryFails, Refused, MarkUp,
                   MarkDown, Notify, FallbackAdmits, Release, Penalize, PenalizePrimary,
                   PenalizeFallback, Goto, Return
        <3>3. Acquire(c)
            BY <3>1, <3>2
               DEF CallerStep, PrimaryAdmits, PrimaryFails, Refused, MarkUp, MarkDown, Notify,
                   FallbackAdmits, Release, Penalize, PenalizePrimary, PenalizeFallback
        <3>4. QED BY <3>3, <2>1 DEF Acquire, Goto, TypeOK
    <2>4. QED BY <2>1, <2>2, <2>3 DEF Covered, PrimaryReady
<1>2. QED BY <1>1, AlwaysIInv, PTL DEF Spec, OneTimeoutPerCooldown

-----------------------------------------------------------------------------
(* The process and its transports: the dialects.                           *)

\* The first check that fails decides.
LEMMA VerdictIs ==
    ASSUME NEW m
    PROVE  \E k \in 1..9 :
              /\ Checks(m)[k][1] /\ \A j \in 1..(k - 1) : ~Checks(m)[j][1]
              /\ Verdict(m) = <<Checks(m)[k][2], Checks(m)[k][3], Version(m)>>
<1> DEFINE S == {i \in 1..9 : Checks(m)[i][1]}
           k == Min(S)
<1>1. 9 \in S
    <2>1. Checks(m)[9] = <<TRUE, 200, "none">>
        BY DEF Checks
    <2>2. Checks(m)[9][1]
        BY <2>1
    <2>3. QED BY <2>2
<1>2. S \in SUBSET Nat
    OBVIOUS
<1>3. k \in S /\ \A j \in S : k <= j
    BY <1>1, <1>2, MinIsLeast
<1>4. Verdict(m) = <<Checks(m)[k][2], Checks(m)[k][3], Version(m)>>
    BY DEF Verdict
<1> HIDE DEF k
<1>5. k \in 1..9 /\ Checks(m)[k][1]
    BY <1>3
<1>6. \A j \in 1..(k - 1) : ~Checks(m)[j][1]
    BY <1>3
<1>7. QED BY <1>4, <1>5, <1>6

\* What each check means for the verdict.
LEMMA VerdictMeans ==
    ASSUME NEW m, m.json \in {"ok", "parse", "invalid"}
    PROVE  LET v == Verdict(m) IN
           /\ v[3] = Version(m)
           /\ v[2] = "run" => /\ m.method = "tools/call"
                              /\ ~(IsModern(m) /\ Version(m) # Modern)
                              /\ ~(IsModern(m) /\ config.mode = "http" /\ ~HeadersAgree(m))
           /\ v[1] = 404 \/ v[2] = "mismatch" => IsModern(m) /\ Version(m) = Modern
           /\ v[2] = "version" => IsModern(m) /\ Version(m) # Modern
<1>1. PICK k \in 1..9 :
          /\ Checks(m)[k][1] /\ \A j \in 1..(k - 1) : ~Checks(m)[j][1]
          /\ Verdict(m) = <<Checks(m)[k][2], Checks(m)[k][3], Version(m)>>
    BY VerdictIs
<1>2. /\ Checks(m)[1] = <<config.mode = "http" /\ ~Trusted(m), 403, "none">>
      /\ Checks(m)[2] = <<config.mode = "http" /\ ~Authentic(m), 401, "none">>
      /\ Checks(m)[3] = <<m.json # "ok", 400, m.json>>
      /\ Checks(m)[4] = <<IsModern(m) /\ Version(m) # Modern, 400, "version">>
      /\ Checks(m)[5] = <<IsModern(m) /\ config.mode = "http" /\ ~HeadersAgree(m), 400, "mismatch">>
      /\ Checks(m)[6] = <<m.method \notin Methods(m), IF IsModern(m) THEN 404 ELSE 200, "method">>
      /\ Checks(m)[7] = <<m.method = "tools/call" /\ m.name \notin Tools, 200, "params">>
      /\ Checks(m)[8] = <<m.method = "tools/call", 200, "run">>
      /\ Checks(m)[9] = <<TRUE, 200, "none">>
    BY DEF Checks
<1>3. k \in {1, 2, 3, 4, 5, 6, 7, 8, 9}
    OBVIOUS
<1>4. Verdict(m)[1] = Checks(m)[k][2] /\ Verdict(m)[2] = Checks(m)[k][3] /\ Verdict(m)[3] = Version(m)
    BY <1>1
<1>5. Checks(m)[k][3] = "run" => k = 8
    BY <1>2, <1>3
<1>6. Checks(m)[k][2] = 404 => k = 6 /\ IsModern(m)
    BY <1>2, <1>3
<1>7. (Checks(m)[k][3] = "mismatch" => k = 5) /\ (Checks(m)[k][3] = "version" => k = 4)
    BY <1>2, <1>3
<1>a. /\ Checks(m)[4][1] = (IsModern(m) /\ Version(m) # Modern)
      /\ Checks(m)[5][1] = (IsModern(m) /\ config.mode = "http" /\ ~HeadersAgree(m))
    BY <1>2
<1>8. k = 4 => IsModern(m) /\ Version(m) # Modern
    <2>1. k = 4 => Checks(m)[4][1]
        BY <1>1
    <2>2. QED BY <1>a, <2>1
<1>9. k = 5 => IsModern(m)
    BY <1>1, <1>2
<1>10. k = 8 => m.method = "tools/call"
    BY <1>1, <1>2
<1>12. k \in {5, 6, 8} => ~(IsModern(m) /\ Version(m) # Modern)
    <2>1. k \in {5, 6, 8} => ~Checks(m)[4][1]
        BY <1>1
    <2>2. QED BY <1>a, <2>1
<1>13. k = 8 => ~(IsModern(m) /\ config.mode = "http" /\ ~HeadersAgree(m))
    <2>1. k = 8 => ~Checks(m)[5][1]
        BY <1>1
    <2>2. QED BY <1>a, <2>1
<1>14. QED BY <1>4, <1>5, <1>6, <1>7, <1>8, <1>9, <1>10, <1>12, <1>13

-----------------------------------------------------------------------------
(* What reply a batch gets.                                                *)

\* Documents as the crawls leave them, in the order of the request.
Docs(U, n) == [1..n -> [url : U, kind : {"page", "error", "pending"}, size : Nat]]

\* What is left of the cap after the first i, what those kept of a reply spent.
LeftOver(docs, n) ==
    LET room[i \in 0..n] ==
            IF i = 0 THEN MaxResponse
            ELSE room[i - 1] - (IF Fits(docs[i], room[i - 1]) THEN docs[i].size ELSE 0)
    IN  room
KeptSize(reply, kept, N) ==
    LET taken[n \in 0..N] ==
            IF n = 0 THEN 0 ELSE taken[n - 1] + (IF n \in kept THEN reply[n].size ELSE 0)
    IN  taken

\* What is left is counted down from the cap.
LEMMA LeftOverIs ==
    ASSUME NEW n \in Nat, NEW size \in [1..n -> Nat], NEW docs, \A i \in 1..n : docs[i].size = size[i]
    PROVE  /\ LeftOver(docs, n) \in [0..n -> Int]
           /\ LeftOver(docs, n)[0] = MaxResponse
           /\ \A i \in 1..n :
                 LeftOver(docs, n)[i] = LeftOver(docs, n)[i - 1]
                     - (IF Fits(docs[i], LeftOver(docs, n)[i - 1]) THEN size[i] ELSE 0)
<1> DEFINE cost(i, x) == IF Fits(docs[i], x) THEN docs[i].size ELSE 0
           body(g) == [i \in 0..n |-> IF i = 0 THEN MaxResponse ELSE g[i - 1] - cost(i, g[i - 1])]
           f == CHOOSE g : g = body(g)
           spends == [i \in 1..n |-> [x \in Int |-> x - cost(i, x)]]
<1>1. LeftOver(docs, n) = f
    BY DEF LeftOver
<1>2. \A i \in 1..n : \A x \in Int : cost(i, x) \in Int /\ x - cost(i, x) \in Int
    BY DEF Fits
<1> DEFINE D == Int
           first == MaxResponse
<1>3. first \in D /\ spends \in Steps(D, n)
    <2> HIDE DEF cost
    <2>1. spends \in [1..n -> [Int -> Int]]
        BY <1>2
    <2>2. QED BY <2>1, ServiceAssumption DEF Steps
<1> HIDE DEF spends, D, first
<1>4. \E g : g \in Results(D, n, first, spends)
    BY <1>3, StepsHaveResults
<1>5. PICK g \in [0..n -> Int] : g[0] = MaxResponse /\ \A i \in 1..n : g[i] = spends[i][g[i - 1]]
    BY <1>4 DEF D, first, Results
<1> HIDE DEF cost
<1>6. ASSUME NEW i \in 0..n PROVE g[i] = IF i = 0 THEN MaxResponse ELSE g[i - 1] - cost(i, g[i - 1])
    <2>1. CASE i = 0
        BY <1>5, <2>1
    <2>2. CASE i # 0
        <3>1. i \in 1..n /\ i - 1 \in 0..n /\ g[i - 1] \in Int
            BY <1>5, <2>2
        <3>2. spends[i][g[i - 1]] = g[i - 1] - cost(i, g[i - 1])
            BY <3>1 DEF spends
        <3>3. QED BY <1>5, <2>2, <3>1, <3>2
    <2>3. QED BY <2>1, <2>2
<1>7. g = body(g)
    BY <1>5, <1>6
<1>8. f = body(f)
    BY <1>7
<1> HIDE DEF f
<1> DEFINE T == {i \in Nat : i <= n => f[i] \in Int}
<1>9. f[0] = MaxResponse /\ \A i \in 1..n : f[i] = f[i - 1] - cost(i, f[i - 1])
    BY <1>8
<1>10. 0 \in T
    BY <1>9, ServiceAssumption
<1>11. ASSUME NEW i \in T PROVE i + 1 \in T
    <2> SUFFICES ASSUME i + 1 <= n PROVE f[i + 1] \in Int
        OBVIOUS
    <2>1. i + 1 \in 1..n /\ i + 1 - 1 = i /\ f[i] \in Int
        BY <1>11
    <2>2. f[i + 1] = f[i] - cost(i + 1, f[i])
        BY <1>9, <2>1
    <2>3. QED BY <1>2, <2>1, <2>2
<1> HIDE DEF T
<1>12. \A i \in Nat : i \in T
    BY <1>10, <1>11, NaturalsFromZero DEF T
<1>13. \A i \in 0..n : f[i] \in Int
    BY <1>12 DEF T
<1>14. f = [i \in 0..n |-> f[i]]
    BY <1>8
<1>15. f \in [0..n -> Int]
    BY <1>13, <1>14
<1>16. \A i \in 1..n : \A x : cost(i, x) = IF Fits(docs[i], x) THEN size[i] ELSE 0
    BY DEF cost
<1>17. QED BY <1>1, <1>9, <1>15, <1>16

KeptSized(reply, kept, size, n) == \A i \in 1..n : i \in kept => reply[i].size = size[i]

CountsUp(f, kept, size, n) ==
    f[0] = 0 /\ \A i \in 1..n : f[i] = f[i - 1] + (IF i \in kept THEN size[i] ELSE 0)

\* What is spent is counted up from nothing.
LEMMA KeptSizeIs ==
    ASSUME NEW n \in Nat, NEW size \in [1..n -> Nat], NEW reply, NEW kept,
           KeptSized(reply, kept, size, n)
    PROVE  CountsUp(KeptSize(reply, kept, n), kept, size, n)
<1> DEFINE cost(i) == IF i \in kept THEN reply[i].size ELSE 0
           body(g) == [i \in 0..n |-> IF i = 0 THEN 0 ELSE g[i - 1] + cost(i)]
           f == CHOOSE g : g = body(g)
           spends == [i \in 1..n |-> [x \in Int |-> x + cost(i)]]
<1>1. KeptSize(reply, kept, n) = f
    BY DEF KeptSize
<1>2. \A i \in 1..n : cost(i) = (IF i \in kept THEN size[i] ELSE 0) /\ cost(i) \in Int
    BY DEF KeptSized
<1> DEFINE D == Int
           first == 0
<1> HIDE DEF cost
<1>3. first \in D /\ spends \in Steps(D, n)
    <2>1. \A i \in 1..n : \A x \in Int : x + cost(i) \in Int
        BY <1>2
    <2>2. spends \in [1..n -> [Int -> Int]]
        BY <2>1
    <2>3. QED BY <2>2 DEF Steps
<1> HIDE DEF spends, D, first
<1>4. \E g : g \in Results(D, n, first, spends)
    BY <1>3, StepsHaveResults
<1>5. PICK g \in [0..n -> Int] : g[0] = 0 /\ \A i \in 1..n : g[i] = spends[i][g[i - 1]]
    BY <1>4 DEF D, first, Results
<1>6. ASSUME NEW i \in 0..n PROVE g[i] = IF i = 0 THEN 0 ELSE g[i - 1] + cost(i)
    <2>1. CASE i = 0
        BY <1>5, <2>1
    <2>2. CASE i # 0
        <3>1. i \in 1..n /\ i - 1 \in 0..n /\ g[i - 1] \in Int
            BY <1>5, <2>2
        <3>2. spends[i][g[i - 1]] = g[i - 1] + cost(i)
            BY <3>1 DEF spends
        <3>3. QED BY <1>5, <2>2, <3>1, <3>2
    <2>3. QED BY <2>1, <2>2
<1>7. g = body(g)
    BY <1>5, <1>6
<1>8. f = body(f)
    BY <1>7
<1> HIDE DEF f
<1>9. f[0] = 0 /\ \A i \in 1..n : f[i] = f[i - 1] + cost(i)
    BY <1>8
<1>10. QED BY <1>1, <1>2, <1>9 DEF CountsUp

\* Together they are the cap, and without one nothing is left out.
LEMMA Balance ==
    ASSUME NEW n \in Nat, NEW size \in [1..n -> Nat], NEW room \in [0..n -> Int], NEW taken, NEW kept,
           room[0] = MaxResponse, taken[0] = 0,
           \A i \in 1..n : room[i] = room[i - 1] - (IF i \in kept THEN size[i] ELSE 0),
           \A i \in 1..n : taken[i] = taken[i - 1] + (IF i \in kept THEN size[i] ELSE 0),
           \A i \in 1..n : i \in kept => MaxResponse = 0 \/ size[i] <= room[i - 1]
    PROVE  /\ \A i \in 0..n : taken[i] = MaxResponse - room[i]
           /\ MaxResponse > 0 => \A i \in 0..n : room[i] >= 0
<1> DEFINE T == {i \in Nat : i <= n => taken[i] = MaxResponse - room[i] /\ (MaxResponse > 0 => room[i] >= 0)}
<1>1. MaxResponse \in Nat
    BY ServiceAssumption
<1>2. 0 \in T
    BY <1>1
<1>3. ASSUME NEW i \in T PROVE i + 1 \in T
    <2> SUFFICES ASSUME i + 1 <= n
                 PROVE  taken[i + 1] = MaxResponse - room[i + 1] /\ (MaxResponse > 0 => room[i + 1] >= 0)
        OBVIOUS
    <2>1. /\ i \in 0..n /\ i + 1 \in 1..n /\ (i + 1) - 1 = i
          /\ taken[i] = MaxResponse - room[i] /\ (MaxResponse > 0 => room[i] >= 0)
        BY <1>3
    <2>2. /\ room[i + 1] = room[i] - (IF i + 1 \in kept THEN size[i + 1] ELSE 0)
          /\ taken[i + 1] = taken[i] + (IF i + 1 \in kept THEN size[i + 1] ELSE 0)
          /\ i + 1 \in kept => MaxResponse = 0 \/ size[i + 1] <= room[i]
        BY <2>1
    <2>3. room[i] \in Int /\ size[i + 1] \in Nat
        BY <2>1
    <2>4. QED BY <1>1, <2>1, <2>2, <2>3
<1> HIDE DEF T
<1>4. \A i \in Nat : i \in T
    BY <1>2, <1>3, NaturalsFromZero DEF T
<1>5. QED BY <1>4 DEF T

\* What stands for a document that does not fit says whose it is.
LEMMA TooLargeIs ==
    ASSUME NEW url
    PROVE  TooLarge(url).url = url /\ TooLarge(url).kind = "too large"
BY DEF TooLarge

\* The reply is in the order of the request and within the cap.
LEMMA SpendIs ==
    ASSUME NEW U, NEW urls \in Seq(U), NEW docs \in Docs(U, Len(urls)),
           \A i \in 1..Len(urls) : docs[i].url = urls[i]
    PROVE  LET reply == Spend(docs)
               kept == {i \in DOMAIN reply : reply[i].kind # "too large"}
               taken == KeptSize(reply, kept, Len(reply))
           IN  /\ Len(reply) = Len(urls)
               /\ \A i \in DOMAIN urls :
                     /\ reply[i].url = urls[i]
                     /\ IF i \in kept THEN reply[i] = docs[i]
                        ELSE docs[i].size + taken[i - 1] > MaxResponse
               /\ MaxResponse > 0 => taken[Len(reply)] <= MaxResponse
<1> DEFINE n == Len(urls)
           size == [i \in 1..n |-> docs[i].size]
           room == LeftOver(docs, n)
           reply == Spend(docs)
           kept == {i \in DOMAIN reply : reply[i].kind # "too large"}
           taken == KeptSize(reply, kept, n)
<1>1. n \in Nat /\ DOMAIN urls = 1..n
    BY LenProperties
<1>2. Len(docs) = n /\ DOMAIN docs = 1..n
    <2> DEFINE S == [url : U, kind : {"page", "error", "pending"}, size : Nat]
    <2>1. docs \in [1..n -> S]
        BY DEF Docs
    <2> HIDE DEF n, S
    <2>2. QED BY <1>1, <2>1
<1>3. size \in [1..n -> Nat] /\ \A i \in 1..n : docs[i].size = size[i]
    BY <1>1 DEF Docs
<1>4. \A i \in 1..n : docs[i].kind # "too large"
    BY <1>1 DEF Docs
<1>5. reply = [i \in 1..n |-> IF Fits(docs[i], room[i - 1]) THEN docs[i] ELSE TooLarge(docs[i].url)]
    BY <1>2 DEF Spend, LeftOver
<1> HIDE DEF n, room, size
<1>6. /\ room \in [0..n -> Int] /\ room[0] = MaxResponse
      /\ \A i \in 1..n : room[i] = room[i - 1] - (IF Fits(docs[i], room[i - 1]) THEN size[i] ELSE 0)
    BY <1>1, <1>3, LeftOverIs DEF room
<1> HIDE DEF reply
<1>7. DOMAIN reply = 1..n /\ Len(reply) = n
    BY <1>1, <1>5
<1>8. ASSUME NEW i \in 1..n
      PROVE  /\ reply[i].url = urls[i]
             /\ i \in kept <=> Fits(docs[i], room[i - 1])
             /\ i \in kept => reply[i] = docs[i]
    <2>1. reply[i] = IF Fits(docs[i], room[i - 1]) THEN docs[i] ELSE TooLarge(docs[i].url)
        BY <1>5
    <2>2. docs[i].url = urls[i]
        BY DEF n
    <2>3. CASE Fits(docs[i], room[i - 1])
        BY <1>4, <1>7, <2>1, <2>2, <2>3
    <2>4. CASE ~Fits(docs[i], room[i - 1])
        <3>1. reply[i].kind = "too large" /\ reply[i].url = docs[i].url
            <4>1. reply[i] = TooLarge(docs[i].url)
                BY <2>1, <2>4
            <4>2. QED BY <4>1, TooLargeIs
        <3>2. QED BY <2>2, <2>4, <3>1
    <2>5. QED BY <2>3, <2>4
<1> HIDE DEF kept
<1>9. KeptSized(reply, kept, size, n)
    BY <1>3, <1>8 DEF KeptSized
<1> HIDE DEF taken
<1>10. /\ taken[0] = 0
       /\ \A i \in 1..n : taken[i] = taken[i - 1] + (IF i \in kept THEN size[i] ELSE 0)
    <2>1. size \in [1..n -> Nat]
        BY <1>3
    <2>2. CountsUp(KeptSize(reply, kept, n), kept, size, n)
        BY <1>1, <1>9, <2>1, KeptSizeIs
    <2>3. QED BY <2>2 DEF taken, CountsUp
<1>11. \A i \in 1..n : room[i] = room[i - 1] - (IF i \in kept THEN size[i] ELSE 0)
    BY <1>6, <1>8
<1>12. \A i \in 1..n : i \in kept <=> MaxResponse = 0 \/ size[i] <= room[i - 1]
    BY <1>3, <1>8 DEF Fits
<1>13. /\ \A i \in 0..n : taken[i] = MaxResponse - room[i]
       /\ MaxResponse > 0 => \A i \in 0..n : room[i] >= 0
    <2>1. \A i \in 1..n : i \in kept => MaxResponse = 0 \/ size[i] <= room[i - 1]
        BY <1>12
    <2>2. QED BY <1>1, <1>3, <1>6, <1>10, <1>11, <2>1, Balance, ZenonT(30)
<1>14. ASSUME NEW i \in 1..n, i \notin kept PROVE docs[i].size + taken[i - 1] > MaxResponse
    <2>0. i - 1 \in 0..n /\ size[i] \in Nat
        BY <1>1, <1>3
    <2>1. i - 1 \in 0..n /\ room[i - 1] \in Int /\ size[i] \in Nat /\ MaxResponse \in Nat
        BY <1>6, <2>0, ServiceAssumption
    <2>2. taken[i - 1] = MaxResponse - room[i - 1] /\ docs[i].size = size[i]
        BY <1>3, <1>13, <2>1
    <2>3. size[i] > room[i - 1]
        BY <1>12, <1>14, <2>1
    <2>4. QED BY <2>1, <2>2, <2>3
<1>15. MaxResponse > 0 => taken[n] <= MaxResponse
    <2>1. n \in 0..n /\ room[n] \in Int /\ MaxResponse \in Nat
        BY <1>1, <1>6, ServiceAssumption
    <2>2. QED BY <1>13, <2>1
<1>16. taken = KeptSize(reply, kept, Len(reply))
    BY <1>7 DEF taken
<1>17. QED
    BY <1>1, <1>7, <1>8, <1>14, <1>15, <1>16 DEF n, reply, kept

-----------------------------------------------------------------------------
(* Dialects: what a message taken leaves.                                  *)

\* The parts of a triple.
LEMMA TripleIs ==
    ASSUME NEW r, NEW a, NEW b, NEW c, r = <<a, b, c>>
    PROVE  r[1] = a /\ r[2] = b /\ r[3] = c
OBVIOUS

\* A message is taken in its dialect, or refused in it.
LEMMA TakeKeepsDialect ==
    ASSUME NEW m, m.json \in {"ok", "parse", "invalid"}, Take(m), config' = config
    PROVE  DialectKept' /\ message'.st \in {"running", "answered"}
<1> DEFINE v == Verdict(m)
<1>1. /\ v[3] = Version(m)
      /\ v[2] = "run" => /\ m.method = "tools/call"
                         /\ ~(IsModern(m) /\ Version(m) # Modern)
                         /\ ~(IsModern(m) /\ config.mode = "http" /\ ~HeadersAgree(m))
      /\ v[1] = 404 \/ v[2] = "mismatch" => IsModern(m) /\ Version(m) = Modern
      /\ v[2] = "version" => IsModern(m) /\ Version(m) # Modern
    BY VerdictMeans
<1> HIDE DEF v
<1>2. CASE v[2] = "run"
    <2>1. message' = [st |-> "running", msg |-> m, reply |-> <<>>]
        BY <1>2 DEF Take, v
    <2>2. message'.st = "running" /\ message'.msg = m /\ message'.reply = <<>>
        BY <2>1
    <2>3. ASSUME IsModern(m), config.mode = "http"
          PROVE  /\ m.mcpName \in {m.name} \cup (IF m.id THEN {} ELSE {""})
                 /\ m.header \in {Modern} \cup (IF m.id THEN {} ELSE {""})
        <3>1. HeadersAgree(m) /\ m.method = "tools/call" /\ Version(m) = Modern
            BY <1>1, <1>2, <2>3
        <3>2. m.mcpName \in {m.name} \cup (IF m.id THEN {} ELSE {""})
            BY <3>1 DEF HeadersAgree
        <3>3. m.header \in {Modern} \cup (IF m.id THEN {} ELSE {""})
            BY <3>1 DEF HeadersAgree, Version
        <3>4. QED BY <3>2, <3>3
    <2>4. IsModern(m) => Version(m) = Modern
        BY <1>1, <1>2
    <2>5. QED BY <2>2, <2>3, <2>4 DEF DialectKept
<1>3. CASE v[2] # "run"
    <2>1. message' = [st |-> "answered", msg |-> <<>>, reply |-> Reply(m, v)]
        BY <1>3 DEF Take, v
    <2>2. message'.st = "answered" /\ message'.reply = Reply(m, v)
        BY <2>1
    <2>3. CASE Reply(m, v) = v
        <3>1. v[2] = "version" => v[3] \notin Legacy \cup {Modern, ""}
            BY <1>1 DEF IsModern
        <3>2. QED BY <1>1, <2>2, <2>3, <3>1 DEF DialectKept
    <2>4. CASE Reply(m, v) = <<202, "none", "">>
        <3>1. PICK r : r = message'.reply
            OBVIOUS
        <3>2. r = <<202, "none", "">>
            BY <2>2, <2>4, <3>1
        <3>3. r[1] = 202 /\ r[2] = "none"
            BY <3>2, TripleIs
        <3>4. r[1] # 404 /\ r[2] \notin {"mismatch", "version"}
            BY <3>3
        <3>5. QED BY <2>2, <3>1, <3>4 DEF DialectKept
    <2>5. QED BY <2>3, <2>4 DEF Reply
<1>4. QED BY <1>2, <1>3

\* A tool's answer has no error of a dialect.
LEMMA ToolKeepsDialect ==
    ASSUME ToolReturns
    PROVE  /\ DialectKept' /\ message'.st \in {"answered", "lost"}
<1>1. PICK error \in {"none", "params", "isError"} :
          message' = [st |-> Sent("mcp"), msg |-> <<>>, reply |-> Reply(message.msg, <<200, error, "">>)]
    BY DEF ToolReturns
<1>2. /\ message'.st \in {"answered", "lost"}
      /\ message'.reply \in {<<200, error, "">>, <<202, "none", "">>}
    BY <1>1 DEF Sent, Reply
<1>3. PICK r : r = message'.reply
    OBVIOUS
<1>4. r \in {<<200, error, "">>, <<202, "none", "">>}
    BY <1>2, <1>3
<1>5. r[1] # 404 /\ r[2] \notin {"mismatch", "version"}
    <2>1. r[1] \in {200, 202} /\ r[2] \in {error, "none"}
        <3>1. CASE r = <<200, error, "">>
            <4>1. r[1] = 200 /\ r[2] = error
                BY <3>1, TripleIs
            <4>2. QED BY <4>1
        <3>2. CASE r = <<202, "none", "">>
            <4>1. r[1] = 202 /\ r[2] = "none"
                BY <3>2, TripleIs
            <4>2. QED BY <4>1
        <3>3. QED BY <1>4, <3>1, <3>2
    <2>2. QED BY <2>1
<1>6. QED BY <1>2, <1>3, <1>5 DEF DialectKept

-----------------------------------------------------------------------------
(* The inductive invariant.                                                *)

\* A batch that runs has a document, or the place of one, for each URL.
Shaped(b) ==
    /\ b = [st |-> b.st, urls |-> b.urls, docs |-> b.docs, reply |-> b.reply]
    /\ b.st \in {"running", "answered", "lost"} =>
          /\ b.urls \in Seq(Range(b.urls))
          /\ b.docs \in Docs(Range(b.urls), Len(b.urls))
          /\ \A i \in 1..Len(b.urls) : b.docs[i].url = b.urls[i]
    /\ b.st \in {"answered", "lost"} => \A i \in 1..Len(b.urls) : b.docs[i].kind # "pending"
    /\ b.st \in {"idle", "refused", "cut"} => b.docs = <<>>

\* Where a request in flight can be: behind a server that is still there, unless the
\* grace is over.
InFlight ==
    /\ message.st = "running" => proc = "stdio" \/ graceOver \/ ~Down("mcp")
    /\ batch.st = "running" => graceOver \/ ~Down("loader")
    /\ proc \in {"boot", "refused", "stdio"} => \A s \in DOMAIN srv : srv[s] = "off"
    /\ proc = "boot" => message.st # "running"
    /\ proc = "draining" => ~alive

ServiceIInv == ServiceTypeOK /\ Drained /\ InFlight /\ Shaped(batch) /\ BatchInOrder /\ DialectKept

\* The reply of a batch, as BatchInOrder has it.
InOrder(b) ==
    LET kept == {i \in DOMAIN b.reply : b.reply[i].kind # "too large"}
        taken == KeptSize(b.reply, kept, Len(b.reply))
    IN  /\ Len(b.reply) = Len(b.urls)
        /\ \A i \in DOMAIN b.urls :
              /\ b.reply[i].url = b.urls[i]
              /\ IF i \in kept THEN b.reply[i] = b.docs[i]
                 ELSE b.docs[i].size + taken[i - 1] > MaxResponse
        /\ MaxResponse > 0 => taken[Len(b.reply)] <= MaxResponse

\* That is what BatchInOrder says, of the batch there is.
LEMMA InOrderIs == BatchInOrder = (batch.st \in {"answered", "lost"} => InOrder(batch))
BY DEF BatchInOrder, InOrder, KeptSize

\* After a step.
LEMMA InOrderIsNext == BatchInOrder' = (batch'.st \in {"answered", "lost"} => InOrder(batch'))
BY DEF BatchInOrder, InOrder, KeptSize

\* The servers, in the order of their shutdown.
LEMMA ServersAre ==
    /\ Range(Servers) = {"loader", "mcp", "observability"} /\ DOMAIN Servers = 1..3
    /\ Servers[1] = "loader" /\ Servers[2] = "mcp" /\ Servers[3] = "observability"
<1>1. /\ DOMAIN Servers = 1..3
      /\ Servers[1] = "loader" /\ Servers[2] = "mcp" /\ Servers[3] = "observability"
    BY DEF Servers
<1>2. QED BY <1>1 DEF Range

\* What a step that leaves a part alone keeps of it.
LEMMA BatchAlone ==
    ASSUME ServiceIInv, UNCHANGED batch
    PROVE  Shaped(batch)' /\ BatchInOrder'
<1>1. Shaped(batch)'
    BY DEF ServiceIInv, Shaped
<1>2. batch.st \in {"answered", "lost"} => InOrder(batch)
    BY InOrderIs DEF ServiceIInv
<1>3. QED BY <1>1, <1>2, InOrderIsNext

\* The same of the message.
LEMMA MessageAlone ==
    ASSUME ServiceIInv, UNCHANGED <<config, message>>
    PROVE  DialectKept'
BY DEF ServiceIInv, DialectKept

\* The part of the invariant that looks at no payload.
Flow == ServiceTypeOK /\ Drained /\ InFlight

\* It holds at first.
LEMMA ServiceInitSafe == ASSUME ServiceInit PROVE ServiceIInv
<1>1. message.st = "idle" /\ batch.st = "idle" /\ message.reply = <<>>
    BY DEF ServiceInit, NoMessage, NoBatch
<1>2. ServiceTypeOK /\ Drained /\ InFlight
    BY <1>1, ServersAre DEF ServiceInit, ServiceTypeOK, Drained, InFlight, Down
<1>3. Shaped(batch)
    BY <1>1 DEF ServiceInit, NoBatch, Shaped
<1>4. BatchInOrder
    BY <1>1 DEF BatchInOrder
<1>5. DialectKept
    BY <1>1 DEF DialectKept
<1>6. QED BY <1>2, <1>3, <1>4, <1>5 DEF ServiceIInv

\* Clients.
LEMMA OutsideSafe == ASSUME ServiceIInv, Outside PROVE ServiceIInv'
<1>1. ASSUME NEW m \in Messages, Receive(m) PROVE ServiceIInv'
    <2>1. DialectKept' /\ message'.st \in {"running", "answered"}
        BY <1>1, ServiceAssumption, TakeKeepsDialect DEF Receive, process
    <2>2. Flow'
        BY <1>1, <2>1, ServersAre
        DEF ServiceIInv, Flow, ServiceTypeOK, Drained, InFlight, Down, Receive, process
    <2>3. Shaped(batch)' /\ BatchInOrder'
        BY <1>1, BatchAlone DEF Receive
    <2>4. QED BY <2>1, <2>2, <2>3 DEF ServiceIInv, Flow
<1>2. ASSUME NEW m \in Messages, ReadLine(m) PROVE ServiceIInv'
    <2>1. Shaped(batch)' /\ BatchInOrder'
        BY <1>2, BatchAlone DEF ReadLine
    <2>2. CASE signaled
        <3>1. DialectKept'
            BY <1>2, <2>2, MessageAlone DEF ReadLine
        <3>2. Flow'
            BY <1>2, <2>2, ServersAre
            DEF ServiceIInv, Flow, ServiceTypeOK, Drained, InFlight, Down, ReadLine
        <3>3. QED BY <2>1, <3>1, <3>2 DEF ServiceIInv, Flow
    <2>3. CASE ~signaled
        <3> DEFINE l == [m EXCEPT !.header = ""]
        <3>1. l.json \in {"ok", "parse", "invalid"} /\ Take(l) /\ config' = config
            BY <1>2, <2>3, ServiceAssumption DEF ReadLine
        <3> HIDE DEF l
        <3>2. DialectKept' /\ message'.st \in {"running", "answered"}
            BY <3>1, TakeKeepsDialect
        <3>3. Flow'
            BY <1>2, <2>3, <3>2, ServersAre
            DEF ServiceIInv, Flow, ServiceTypeOK, Drained, InFlight, Down, ReadLine
        <3>4. QED BY <2>1, <3>2, <3>3 DEF ServiceIInv, Flow
    <2>4. QED BY <2>2, <2>3 DEF ServiceIInv, ServiceTypeOK
<1>3. ASSUME NEW m \in Messages, NEW urls \in Batches, ReceiveBatch(m, urls) PROVE ServiceIInv'
    <2>1. batch'.st \in {"running", "refused"} /\ Shaped(batch')
        <3>1. CASE batch' = [st |-> "running", urls |-> urls, reply |-> <<>>,
                             docs |-> [i \in DOMAIN urls |-> Pending(urls[i])]]
            <4>1. urls \in Seq(Range(urls)) /\ Len(urls) \in Nat /\ DOMAIN urls = 1..Len(urls)
                BY ServiceAssumption, LenProperties
            <4>2. \A i \in 1..Len(urls) : urls[i] \in Range(urls)
                BY <4>1 DEF Range
            <4>3. [i \in DOMAIN urls |-> Pending(urls[i])] \in Docs(Range(urls), Len(urls))
                BY <4>1, <4>2 DEF Docs, Pending
            <4>4. \A i \in 1..Len(urls) : [j \in DOMAIN urls |-> Pending(urls[j])][i].url = urls[i]
                BY <4>1 DEF Pending
            <4>5. QED BY <3>1, <4>1, <4>3, <4>4 DEF Shaped
        <3>2. CASE batch' = [NoBatch EXCEPT !.st = "refused"]
            BY <3>2 DEF NoBatch, Shaped
        <3>3. QED BY <1>3, <3>1, <3>2 DEF ReceiveBatch
    <2>2. Flow'
        BY <1>3, <2>1, ServersAre
        DEF ServiceIInv, Flow, ServiceTypeOK, Drained, InFlight, Down, ReceiveBatch, process
    <2>3. DialectKept'
        BY <1>3, MessageAlone DEF ReceiveBatch, process
    <2>4. BatchInOrder'
        BY <2>1, InOrderIsNext
    <2>5. QED BY <2>1, <2>2, <2>3, <2>4 DEF ServiceIInv, Flow
<1>4. ASSUME InputEnds \/ OpenStream \/ Signal \/ \E s \in DOMAIN srv : ListenerFails(s) PROVE ServiceIInv'
    <2>1. UNCHANGED <<config, message, batch>>
        BY <1>4 DEF InputEnds, OpenStream, Signal, ListenerFails, process, requests
    <2>2. Flow'
        <3>1. CASE InputEnds
            BY <2>1, <3>1, ServersAre
            DEF ServiceIInv, Flow, ServiceTypeOK, Drained, InFlight, Down, InputEnds, requests
        <3>2. CASE OpenStream
            BY <2>1, <3>2, ServersAre
            DEF ServiceIInv, Flow, ServiceTypeOK, Drained, InFlight, Down, OpenStream, process
        <3>3. CASE Signal
            BY <2>1, <3>3, ServersAre
            DEF ServiceIInv, Flow, ServiceTypeOK, Drained, InFlight, Down, Signal, requests
        <3>4. ASSUME NEW s \in DOMAIN srv, ListenerFails(s) PROVE Flow'
            BY <2>1, <3>4, ServersAre
            DEF ServiceIInv, Flow, ServiceTypeOK, Drained, InFlight, Down, ListenerFails, requests
        <3>5. QED BY <1>4, <3>1, <3>2, <3>3, <3>4
    <2>3. QED BY <2>1, <2>2, BatchAlone, MessageAlone DEF ServiceIInv, Flow
<1>5. ASSUME ClientsGoOn PROVE ServiceIInv'
    <2>1. Flow'
        <3>1. UNCHANGED process /\ UNCHANGED late
            BY <1>5 DEF ClientsGoOn
        <3>2. CASE message.st \in {"answered", "lost"} /\ message' = NoMessage /\ UNCHANGED <<batch, stream>>
            <4>1. message'.st = "idle"
                BY <3>2 DEF NoMessage
            <4>2. QED BY <3>1, <3>2, <4>1, ServersAre
                DEF ServiceIInv, Flow, ServiceTypeOK, Drained, InFlight, Down, process
        <3>3. CASE batch.st \in {"answered", "lost", "refused"} /\ batch' = NoBatch /\ UNCHANGED <<message, stream>>
            <4>1. batch'.st = "idle"
                BY <3>3 DEF NoBatch
            <4>2. QED BY <3>1, <3>3, <4>1, ServersAre
                DEF ServiceIInv, Flow, ServiceTypeOK, Drained, InFlight, Down, process
        <3>4. CASE stream' = FALSE /\ UNCHANGED <<message, batch>>
            <4>1. message'.st = message.st /\ batch'.st = batch.st
                BY <3>4
            <4>2. stream' \in BOOLEAN /\ UNCHANGED <<config, proc, signaled, graceOver, alive, srv, late>>
                BY <3>1, <3>4 DEF process
            <4>3. QED BY <4>1, <4>2, ServersAre
            DEF ServiceIInv, Flow, ServiceTypeOK, Drained, InFlight, Down, process
        <3>5. QED BY <1>5, <3>2, <3>3, <3>4 DEF ClientsGoOn
    <2>2. DialectKept'
        <3>1. CASE message' = NoMessage
            BY <3>1 DEF NoMessage, DialectKept
        <3>2. CASE UNCHANGED message
            BY <1>5, <3>2, MessageAlone DEF ClientsGoOn, process
        <3>3. QED BY <1>5, <3>1, <3>2 DEF ClientsGoOn
    <2>3. Shaped(batch)' /\ BatchInOrder'
        <3>1. CASE batch' = NoBatch
            <4>1. Shaped(batch')
                BY <3>1 DEF NoBatch, Shaped
            <4>2. BatchInOrder'
                BY <3>1, InOrderIsNext DEF NoBatch
            <4>3. QED BY <4>1, <4>2
        <3>2. CASE UNCHANGED batch
            BY <3>2, BatchAlone
        <3>3. QED BY <1>5, <3>1, <3>2 DEF ClientsGoOn
    <2>4. QED BY <2>1, <2>2, <2>3 DEF ServiceIInv, Flow
<1>6. QED BY <1>1, <1>2, <1>3, <1>4, <1>5 DEF Outside

\* The goroutine of main.
LEMMA MainSafe == ASSUME ServiceIInv, Main PROVE ServiceIInv'
<1>1. CASE Exit
    <2>1. UNCHANGED <<config, signaled, graceOver, alive, srv, late>> /\ proc' = "exited" /\ stream' = FALSE
        BY <1>1 DEF Exit
    <2>2. Down("mcp") /\ Down("loader") /\ proc = "draining"
        BY <1>1, ServersAre DEF Exit, ServiceIInv, ServiceTypeOK
    <2>3. /\ message'.st = IF message.st = "running" THEN "cut" ELSE message.st
          /\ batch'.st = IF batch.st = "running" THEN "cut" ELSE batch.st
        BY <1>1 DEF Exit, NoMessage, NoBatch
    <2>4. Flow'
        BY <2>1, <2>2, <2>3, ServersAre DEF ServiceIInv, Flow, ServiceTypeOK, Drained, InFlight, Down
    <2>5. DialectKept'
        <3>1. CASE message.st = "running"
            <4>1. message'.st = "cut" /\ message'.reply = <<>>
                BY <1>1, <3>1 DEF Exit, NoMessage
            <4>2. QED BY <4>1 DEF DialectKept
        <3>2. CASE message.st # "running"
            BY <1>1, <3>2, MessageAlone DEF Exit
        <3>3. QED BY <3>1, <3>2
    <2>6. Shaped(batch)' /\ BatchInOrder'
        <3>1. CASE batch.st = "running"
            <4>1. batch' = [NoBatch EXCEPT !.st = "cut"]
                BY <1>1, <3>1 DEF Exit
            <4>2. Shaped(batch')
                BY <4>1 DEF NoBatch, Shaped
            <4>3. BatchInOrder'
                BY <4>1, InOrderIsNext DEF NoBatch
            <4>4. QED BY <4>2, <4>3
        <3>2. CASE batch.st # "running"
            BY <1>1, <3>2, BatchAlone DEF Exit
        <3>3. QED BY <3>1, <3>2
    <2>7. QED BY <2>4, <2>5, <2>6 DEF ServiceIInv, Flow
<1>2. ASSUME Flow', UNCHANGED <<config, requests>> PROVE ServiceIInv'
    <2>1. UNCHANGED <<config, message>> /\ UNCHANGED batch
        BY <1>2 DEF requests
    <2>2. QED BY <1>2, <2>1, BatchAlone, MessageAlone DEF ServiceIInv, Flow
<1>3. CASE Refuse \/ StartStdio \/ BeginDrain
    <2>1. UNCHANGED <<config, requests>>
        BY <1>3 DEF Refuse, StartStdio, BeginDrain
    <2>2. Flow'
        <3>1. CASE Refuse
            BY <2>1, <3>1, ServersAre DEF ServiceIInv, Flow, ServiceTypeOK, Drained, InFlight, Down, Refuse, requests
        <3>2. CASE StartStdio
            BY <2>1, <3>2, ServersAre DEF ServiceIInv, Flow, ServiceTypeOK, Drained, InFlight, Down, StartStdio, requests
        <3>3. CASE BeginDrain
            BY <2>1, <3>3, ServersAre DEF ServiceIInv, Flow, ServiceTypeOK, Drained, InFlight, Down, BeginDrain, requests
        <3>4. QED BY <1>3, <3>1, <3>2, <3>3
    <2>3. QED BY <1>2, <2>1, <2>2
<1>4. CASE StartServers
    <2>1. UNCHANGED <<config, requests>>
        BY <1>4 DEF StartServers
    <2>2. srv' \in [Range(Servers) -> {"open", "off"}]
        BY <1>4 DEF StartServers
    <2>3. Flow'
        BY <1>4, <2>1, <2>2, ServersAre
        DEF ServiceIInv, Flow, ServiceTypeOK, Drained, InFlight, Down, StartServers, requests
    <2>4. QED BY <1>2, <2>1, <2>3
<1>5. ASSUME NEW i \in DOMAIN Servers, CloseListener(i) PROVE ServiceIInv'
    <2>1. UNCHANGED <<config, requests>>
        BY <1>5 DEF CloseListener
    <2>2. \A j \in 1..3 : j < i => Down(Servers[j])
        BY <1>5, ServersAre DEF CloseListener
    <2>3. Flow'
        <3>1. CASE i = 1
            BY <1>5, <2>1, <2>2, <3>1, ServersAre
            DEF ServiceIInv, Flow, ServiceTypeOK, Drained, InFlight, Down, CloseListener, requests
        <3>2. CASE i = 2
            BY <1>5, <2>1, <2>2, <3>2, ServersAre
            DEF ServiceIInv, Flow, ServiceTypeOK, Drained, InFlight, Down, CloseListener, requests
        <3>3. CASE i = 3
            BY <1>5, <2>1, <2>2, <3>3, ServersAre
            DEF ServiceIInv, Flow, ServiceTypeOK, Drained, InFlight, Down, CloseListener, requests
        <3>4. QED BY <3>1, <3>2, <3>3, ServersAre
    <2>4. QED BY <1>2, <2>1, <2>3
<1>6. ASSUME NEW s \in DOMAIN srv, ShutdownReturns(s) PROVE ServiceIInv'
    <2>1. UNCHANGED <<config, requests>>
        BY <1>6 DEF ShutdownReturns
    <2>2. /\ s = "mcp" => message.st # "running" \/ graceOver
          /\ s = "loader" => batch.st # "running" \/ graceOver
        BY <1>6 DEF ShutdownReturns, Idle
    <2>3. Flow'
        BY <1>6, <2>1, <2>2, ServersAre
        DEF ServiceIInv, Flow, ServiceTypeOK, Drained, InFlight, Down, ShutdownReturns, requests
    <2>4. QED BY <1>2, <2>1, <2>3
<1>7. QED BY <1>1, <1>3, <1>4, <1>5, <1>6 DEF Main

\* The goroutines of the requests.
LEMMA HandlersSafe == ASSUME ServiceIInv, Handlers PROVE ServiceIInv'
<1>1. CASE ToolReturns
    <2>1. DialectKept' /\ message'.st \in {"answered", "lost"}
        BY <1>1, ToolKeepsDialect
    <2>2. Flow'
        <3>1. /\ message.st = "running" /\ late' = late \ {"mcp"}
              /\ UNCHANGED <<config, proc, signaled, graceOver, alive, srv, stream>> /\ batch'.st = batch.st
            BY <1>1 DEF ToolReturns, process
        <3>2. QED BY <2>1, <3>1, ServersAre
            DEF ServiceIInv, Flow, ServiceTypeOK, Drained, InFlight, Down
    <2>3. QED BY <1>1, <2>1, <2>2, BatchAlone DEF ServiceIInv, Flow, ToolReturns
<1>2. CASE AnswerBatch
    <2>1. /\ batch = [st |-> batch.st, urls |-> batch.urls, docs |-> batch.docs, reply |-> batch.reply]
          /\ batch.urls \in Seq(Range(batch.urls))
          /\ batch.docs \in Docs(Range(batch.urls), Len(batch.urls))
          /\ \A i \in 1..Len(batch.urls) : batch.docs[i].url = batch.urls[i]
        BY <1>2 DEF AnswerBatch, ServiceIInv, Shaped
    <2>2. batch' = [st |-> Sent("loader"), urls |-> batch.urls, docs |-> batch.docs, reply |-> Spend(batch.docs)]
        BY <1>2, <2>1 DEF AnswerBatch
    <2>3. batch'.st \in {"answered", "lost"}
        BY <2>2 DEF Sent
    <2>a. \A i \in 1..Len(batch.urls) : batch.docs[i].kind # "pending"
        BY <1>2, <2>1 DEF AnswerBatch, Docs
    <2>4. Shaped(batch')
        BY <2>1, <2>2, <2>3, <2>a DEF Shaped
    <2>5. InOrder(batch')
        <3> DEFINE urls == batch.urls
                   docs == batch.docs
                   b == batch'
        <3>1. b.urls = urls /\ b.docs = docs /\ b.reply = Spend(docs)
            BY <2>2
        <3> HIDE DEF urls, docs, b
        <3>2. LET reply == Spend(docs)
                  kept == {i \in DOMAIN reply : reply[i].kind # "too large"}
                  taken == KeptSize(reply, kept, Len(reply))
              IN  /\ Len(reply) = Len(urls)
                  /\ \A i \in DOMAIN urls :
                        /\ reply[i].url = urls[i]
                        /\ IF i \in kept THEN reply[i] = docs[i]
                           ELSE docs[i].size + taken[i - 1] > MaxResponse
                  /\ MaxResponse > 0 => taken[Len(reply)] <= MaxResponse
            BY <2>1, SpendIs DEF urls, docs
        <3>3. InOrder(b)
            BY <3>1, <3>2 DEF InOrder
        <3>4. QED BY <3>3 DEF b
    <2>6. Flow'
        BY <1>2, <2>3, ServersAre
        DEF ServiceIInv, Flow, ServiceTypeOK, Drained, InFlight, Down, AnswerBatch, process
    <2>7. DialectKept'
        BY <1>2, MessageAlone DEF AnswerBatch, process
    <2>8. BatchInOrder'
        BY <2>5, InOrderIsNext
    <2>9. QED BY <2>4, <2>6, <2>7, <2>8 DEF ServiceIInv, Flow
<1>3. ASSUME NEW i \in DOMAIN batch.docs, Crawled(i) PROVE ServiceIInv'
    <2>1. PICK doc \in {Page(batch.urls[i], n) : n \in Sizes} \cup {ErrorDoc(batch.urls[i])} :
              batch' = [batch EXCEPT !.docs[i] = doc]
        BY <1>3 DEF Crawled
    <2>2. DialectKept'
        BY <1>3, MessageAlone DEF Crawled, process
    <2>3. batch = [st |-> batch.st, urls |-> batch.urls, docs |-> batch.docs, reply |-> batch.reply]
        BY DEF ServiceIInv, Shaped
    <2>4. batch' = [st |-> batch.st, urls |-> batch.urls, docs |-> [batch.docs EXCEPT ![i] = doc], reply |-> batch.reply]
        BY <2>1, <2>3
    <2>5. batch'.st = batch.st
        BY <2>4
    <2>6. Flow'
        BY <1>3, <2>5, ServersAre
        DEF ServiceIInv, Flow, ServiceTypeOK, Drained, InFlight, Down, Crawled, process
    <2>7. Shaped(batch') /\ BatchInOrder'
        <3> DEFINE urls == batch.urls
                   docs == batch.docs
                   S == [url : Range(urls), kind : {"page", "error", "pending"}, size : Nat]
        <3>1. batch.st \in {"running", "answered", "lost"}
            BY <1>3 DEF ServiceIInv, ServiceTypeOK, Shaped
        <3>2. /\ urls \in Seq(Range(urls)) /\ docs \in [1..Len(urls) -> S]
              /\ \A j \in 1..Len(urls) : docs[j].url = urls[j]
              /\ batch.st \in {"answered", "lost"} => \A j \in 1..Len(urls) : docs[j].kind # "pending"
            BY <3>1 DEF ServiceIInv, Shaped, Docs
        <3>3. i \in 1..Len(urls) /\ docs[i].kind = "pending" /\ batch.st = "running"
            BY <1>3, <3>1, <3>2 DEF Crawled
        <3>4. urls[i] \in Range(urls)
            <4>1. DOMAIN urls = 1..Len(urls)
                BY <3>2, LenProperties
            <4>2. QED BY <3>3, <4>1 DEF Range
        <3>5. doc \in S /\ doc.url = urls[i]
            BY <2>1, <3>4, ServiceAssumption DEF Page, ErrorDoc
        <3> HIDE DEF S
        <3>6. [docs EXCEPT ![i] = doc] \in [1..Len(urls) -> S]
            BY <3>2, <3>5
        <3>7. \A j \in 1..Len(urls) : [docs EXCEPT ![i] = doc][j].url = urls[j]
            BY <3>2, <3>5
        <3>8. batch'.st = "running"
            BY <2>5, <3>3
        <3>9. Shaped(batch')
            BY <2>4, <3>2, <3>6, <3>7, <3>8 DEF Shaped, Docs, S
        <3>10. QED BY <3>8, <3>9, InOrderIsNext
    <2>8. QED BY <2>2, <2>6, <2>7 DEF ServiceIInv, Flow
<1>4. QED BY <1>1, <1>2, <1>3 DEF Handlers

\* The passing of time.
LEMMA TimeSafe == ASSUME ServiceIInv, DeadlinePasses \/ GraceEnds PROVE ServiceIInv'
<1>1. UNCHANGED <<config, message>> /\ UNCHANGED batch
    BY DEF DeadlinePasses, GraceEnds, process, requests
<1>2. CASE DeadlinePasses
    <2>1. Flow'
        BY <1>1, <1>2, ServersAre
        DEF ServiceIInv, Flow, ServiceTypeOK, Drained, InFlight, Down, DeadlinePasses, process
    <2>2. QED BY <1>1, <2>1, BatchAlone, MessageAlone DEF ServiceIInv, Flow
<1>3. CASE GraceEnds
    <2>1. Flow'
        BY <1>1, <1>3, ServersAre
        DEF ServiceIInv, Flow, ServiceTypeOK, Drained, InFlight, Down, GraceEnds, requests
    <2>2. QED BY <1>1, <2>1, BatchAlone, MessageAlone DEF ServiceIInv, Flow
<1>4. QED BY <1>2, <1>3

\* Every step keeps it.
LEMMA ServiceStepSafe == ASSUME ServiceIInv, [ServiceNext]_serviceVars PROVE ServiceIInv'
<1>1. ASSUME UNCHANGED serviceVars PROVE ServiceIInv'
    <2>1. UNCHANGED <<config, message>> /\ UNCHANGED batch
        BY <1>1 DEF serviceVars, process, requests
    <2>2. Flow'
        BY <1>1 DEF serviceVars, process, requests, ServiceIInv, Flow, ServiceTypeOK, Drained, InFlight, Down
    <2>3. QED BY <2>1, <2>2, BatchAlone, MessageAlone DEF ServiceIInv, Flow
<1>2. QED BY <1>1, MainSafe, HandlersSafe, OutsideSafe, TimeSafe DEF ServiceNext

\* The invariant of every run.
LEMMA ServiceInvariant == ServiceSpec => []ServiceIInv
BY ServiceInitSafe, ServiceStepSafe, PTL DEF ServiceSpec

\* A drain loses nothing that ends within the grace (runServers), whatever is in
\* flight and whichever servers listen.
THEOREM DrainLosesNothing == ServiceSpec => []Drained
<1>1. ServiceIInv => Drained
    BY DEF ServiceIInv
<1>2. QED BY <1>1, ServiceInvariant, PTL

\* Each client is served in the protocol of its era (eraOf, validateModernRequest,
\* httpStatusFor), whatever messages come.
THEOREM EachInItsDialect == ServiceSpec => []DialectKept
<1>1. ServiceIInv => DialectKept
    BY DEF ServiceIInv
<1>2. QED BY <1>1, ServiceInvariant, PTL

\* The answer to a batch (openwebui crawl) is in the order of the request and within
\* the cap, for batches, caps and pages of any size.
THEOREM BatchAnswered == ServiceSpec => []BatchInOrder
<1>1. ServiceIInv => BatchInOrder
    BY DEF ServiceIInv
<1>2. QED BY <1>1, ServiceInvariant, PTL
=============================================================================
