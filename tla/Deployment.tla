---------------------------- MODULE Deployment ----------------------------
(***************************************************************************)
(* The configuration of one process (internal/config: Load) and what       *)
(* cmd/omnifeed builds from it: which configurations are accepted, and the *)
(* limiter, fallback limiter and lease each one gives the scopes "domain", *)
(* "reddit", "searxng" and "tinyfish".  A duration is in milliseconds, a   *)
(* fraction in hundredths, a URL is what Load tells apart of it.           *)
(***************************************************************************)
EXTENDS Integers, Sequences

CONSTANT Given      \* the OMNIFEED_ variables that are set and not empty: field -> value

-----------------------------------------------------------------------------
(* Load: defaults, and what is set.                                        *)

Second == 1000
Minute == 60 * Second
Megabyte == 1024 * 1024

\* The numbers of a configuration, with what an unset variable stands for.
Numbers ==
    [Crawl4AITimeout |-> 90 * Second, Crawl4AIPruneThreshold |-> 48,
     Crawl4AIScrollDelay |-> 50, Crawl4AIDelayBeforeHTML |-> 10,
     Crawl4AIChallengeWait |-> 8 * Second, Crawl4AIMinProseChars |-> 100,
     SearXNGTimeout |-> 15 * Second, SearXNGDelay |-> 0, SearXNGQuota |-> 0,
     SearXNGConcurrency |-> 0, SearXNGMaxWait |-> 0, SearXNGQuotaWindow |-> 90 * Second,
     SearchMaxResults |-> 25, SearchFallbackMinResults |-> 3,
     SearchPrimaryBudget |-> 12 * Second,
     TinyFishTimeout |-> 10 * Second, TinyFishQuota |-> 25,
     TinyFishQuotaWindow |-> Minute, TinyFishMaxWait |-> 5 * Second,
     FetchMaxChars |-> 120 * 1000, RedditTimeout |-> 4 * Minute, TwitterMaxReplies |-> 20,
     RedditMaxRounds |-> 3, RedditFetchLimit |-> 500, RedditDepth |-> 20,
     RedditMaxComments |-> 0, RedditMaxTopLevel |-> 0, RedditQuota |-> 0,
     RedditMethodCooldown |-> 10 * Minute, RedditQuotaWindow |-> Minute,
     MaxURLsPerRequest |-> 30, CrawlMaxResponseMB |-> 256,
     PerDomainConcurrency |-> 2, PerDomainDelay |-> 1500, RedisTimeout |-> 250,
     CacheTTLThreads |-> 10 * Minute, CacheTTLPages |-> 30 * Minute,
     CacheMaxBytes |-> 64 * Megabyte, CacheMaxItemBytes |-> 4 * Megabyte]

\* The words and the URLs; "unset" is what a variable without a default is when not set.
Words ==
    [LogLevel |-> "info", SearchAudit |-> "off", RedditFormat |-> "toon", RedditSort |-> "top",
     Crawl4AIWaitUntil |-> "domcontentloaded", Crawl4AIURL |-> "unset", RedisURL |-> "unset",
     SearXNGURL |-> "unset", TinyFishURL |-> "https", TinyFishAPIKey |-> "unset",
     TwitterFxTwitterURL |-> "https", APIKey |-> "unset",
     RedditSession |-> "unset", RedditClientID |-> "unset"]

\* The switches.
Switches ==
    [MCPStdio |-> FALSE, AllowNoAuth |-> FALSE, CacheEnabled |-> TRUE, TwitterEnabled |-> TRUE,
     BlockPrivateIPs |-> TRUE]

\* The lists.
Lists ==
    [Searchers |-> <<"searxng", "tinyfish">>, RedditMethods |-> <<"client_id", "session", "browser">>]

\* env, envInt, envDuration, envFloat, envBool: the value set, else the default.
Number(f) == IF f \in DOMAIN Given THEN Given[f] ELSE Numbers[f]
Word(f) == IF f \in DOMAIN Given THEN Given[f] ELSE Words[f]
Switch(f) == IF f \in DOMAIN Given THEN Given[f] ELSE Switches[f]
List(f) == IF f \in DOMAIN Given THEN Given[f] ELSE Lists[f]

\* No number and no switch is malformed: one that is ends Load.
Parsed ==
    /\ \A f \in DOMAIN Numbers \cap DOMAIN Given : Given[f] \in Int
    /\ \A f \in DOMAIN Switches \cap DOMAIN Given : Given[f] \in BOOLEAN

-----------------------------------------------------------------------------
(* Load: what is refused.                                                  *)

AtLeast(low, fields) == \A f \in fields : Number(f) >= low
Within(f, low, high) == low <= Number(f) /\ Number(f) <= high

\* The Reddit engine: its methods and its budgets.
RedditAccepted ==
    /\ \A i \in DOMAIN List("RedditMethods") :
          List("RedditMethods")[i] \in {"client_id", "session", "browser"}
    /\ Word("RedditFormat") \in {"toon", "json"}
    /\ Word("RedditSort") \in
          {"confidence", "top", "new", "controversial", "old", "random", "qa", "live"}
    /\ AtLeast(0, {"RedditQuota", "RedditMaxComments", "RedditMaxTopLevel"})
    /\ AtLeast(1, {"RedditFetchLimit", "RedditDepth"})
    /\ Number("RedditQuota") > 0 => Number("RedditQuotaWindow") > 0

\* SearXNG's pacing; its timeout is not looked at.
SearXNGAccepted ==
    /\ AtLeast(0, {"SearXNGDelay", "SearXNGMaxWait", "SearXNGConcurrency", "SearXNGQuota"})
    /\ Number("SearXNGQuota") > 0 => Number("SearXNGQuotaWindow") > 0

\* validateSearchers: at least one, each known, none twice.
SearchersAccepted(names) ==
    /\ Len(names) > 0
    /\ \A i \in 1..Len(names) : names[i] \in {"searxng", "tinyfish"}
    /\ \A i, j \in 1..Len(names) : names[i] = names[j] => i = j

\* The search tool; the audit log is refused at a log level that drops it.
SearchAccepted ==
    /\ Word("SearchAudit") \in {"off", "summary", "full"}
    /\ Word("SearchAudit") # "off" => Word("LogLevel") \in {"debug", "info"}
    /\ Within("SearchMaxResults", 1, 100)
    /\ SearchersAccepted(List("Searchers"))
    /\ AtLeast(0, {"SearchFallbackMinResults", "SearchPrimaryBudget"})

\* TinyFish; validateKeyedURL lets its key out over https, or http to this host.
TinyFishAccepted ==
    /\ AtLeast(0, {"TinyFishQuota", "TinyFishMaxWait"})
    /\ Number("TinyFishQuota") > 0 => Number("TinyFishQuotaWindow") > 0
    /\ Number("TinyFishTimeout") > 0
    /\ Word("TinyFishURL") \in {"https", "loopback"}

\* The browser and the fetch tool.
FetchAccepted ==
    /\ Word("Crawl4AIURL") # "unset"
    /\ Within("Crawl4AIPruneThreshold", 0, 100)
    /\ Within("Crawl4AIDelayBeforeHTML", 0, 6000) /\ Within("Crawl4AIScrollDelay", 0, 6000)
    /\ Within("Crawl4AIChallengeWait", 0, Minute)
    /\ AtLeast(0, {"Crawl4AIMinProseChars", "FetchMaxChars"})
    /\ Word("Crawl4AIWaitUntil") \in {"domcontentloaded", "load", "networkidle", "commit"}
    /\ Number("TwitterMaxReplies") >= 1
    /\ Word("TwitterFxTwitterURL") \in {"http", "https"}

\* The response of a batch, Redis and the cache; PER_DOMAIN_CONCURRENCY and
\* PER_DOMAIN_DELAY are not looked at.
SharedAccepted ==
    /\ Within("CrawlMaxResponseMB", 0, Megabyte)
    /\ Word("RedisURL") \in {"unset", "redis", "rediss", "unparsable"}
    /\ Number("RedisTimeout") > 0
    /\ AtLeast(0, {"CacheTTLThreads", "CacheTTLPages", "CacheMaxBytes", "CacheMaxItemBytes"})

\* Load returns a configuration.
Accepted ==
    /\ Parsed
    /\ RedditAccepted /\ SearXNGAccepted /\ SearchAccepted /\ TinyFishAccepted
    /\ FetchAccepted /\ SharedAccepted

-----------------------------------------------------------------------------
(* The limiters of the process.                                            *)

\* redisClient: a URL go-redis cannot parse ends the start; none keeps pacing here.
Redis == Word("RedisURL") # "unset"

\* searxngLeaseTTL: three attempts, two backoffs and a slack.
MaxAttempts == 3
MaxBackoff == 4 * Second
RecoverySlack == 10 * Second
LeaseTTL(clientTimeout) ==
    MaxAttempts * clientTimeout + (MaxAttempts - 1) * MaxBackoff + RecoverySlack

\* redislimit.New: a lease of nothing is the default.
DefaultLeaseTTL == Minute
Lease(ttl) == IF ttl <= 0 THEN DefaultLeaseTTL ELSE ttl

Scopes == {"domain", "reddit", "searxng", "tinyfish"}

\* The scopes that have a limiter: crawls always, the others when asked for.
Paced ==
    {"domain"}
    \cup {s \in {"reddit"} : Number("RedditQuota") > 0}
    \cup {s \in {"searxng"} : \E f \in {"SearXNGDelay", "SearXNGQuota", "SearXNGConcurrency"} :
                                  Number(f) > 0}
    \cup {s \in {"tinyfish"} : Number("TinyFishQuota") > 0}

TinyFishConcurrency == 4

\* The limiter in the process: all there is without Redis, the fallback with it.
\* The cap on searches is its own only without Redis, where sends are spaced.
Local(s) ==
    CASE s = "domain" ->
           [max |-> Number("PerDomainConcurrency"), delay |-> Number("PerDomainDelay"),
            quota |-> 0, window |-> 0, spaced |-> FALSE]
      [] s = "reddit" ->
           [max |-> Number("PerDomainConcurrency"), delay |-> 0,
            quota |-> Number("RedditQuota"), window |-> Number("RedditQuotaWindow"),
            spaced |-> FALSE]
      [] s = "searxng" ->
           [max |-> IF ~Redis /\ Number("SearXNGConcurrency") > 0
                    THEN Number("SearXNGConcurrency") ELSE 1,
            delay |-> Number("SearXNGDelay"),
            quota |-> Number("SearXNGQuota"), window |-> Number("SearXNGQuotaWindow"),
            spaced |-> ~Redis /\ Number("SearXNGConcurrency") > 0]
      [] s = "tinyfish" ->
           [max |-> TinyFishConcurrency, delay |-> 0,
            quota |-> Number("TinyFishQuota"), window |-> Number("TinyFishQuotaWindow"),
            spaced |-> FALSE]

\* The limiter in Redis: the same pacing, the searches' cap and its lease.
Shared(s) ==
    [delay |-> Local(s).delay, quota |-> Local(s).quota, window |-> Local(s).window,
     cap |-> IF s = "searxng" THEN Number("SearXNGConcurrency") ELSE 0,
     lease |-> IF s = "searxng" THEN Lease(LeaseTTL(Number("SearXNGTimeout")))
               ELSE DefaultLeaseTTL]

\* semFor: the callers of one pod that may ask Redis at once.
PodSemaphore(s) ==
    LET max == IF s = "searxng" THEN 1 ELSE Local(s).max
        wide == IF Shared(s).cap > max THEN Shared(s).cap ELSE max
    IN  IF wide > 1 THEN wide ELSE 1

\* retryAfterHook: how long a Retry-After holds the host it came from; crawl4ai's
\* own holds none.
RetryAfterCap == 5 * Minute
Hold(upstream, wait) ==
    IF upstream = "crawl4ai" THEN 0 ELSE IF wait <= RetryAfterCap THEN wait ELSE RetryAfterCap

-----------------------------------------------------------------------------
(* The rest of the process.                                                *)

\* buildSearcher: the searchers the chain is folded from, in their order.
IsConfigured(name) ==
    \/ name = "searxng" /\ Word("SearXNGURL") # "unset"
    \/ name = "tinyfish" /\ Word("TinyFishAPIKey") # "unset"
Chain == SelectSeq(List("Searchers"), IsConfigured)
SearchOffered == Len(Chain) > 0

\* A searcher of the chain answers first of those after it, and within the
\* budget when it has one behind it.
Budget(i) == IF i < Len(Chain) THEN Number("SearchPrimaryBudget") ELSE 0

\* reddit.NewFetcher: the methods that have what they need.
RedditUsable ==
    LET asked == IF List("RedditMethods") = << >> THEN Lists["RedditMethods"]
                 ELSE List("RedditMethods")
    IN  \E i \in DOMAIN asked :
            \/ asked[i] = "browser"
            \/ asked[i] = "client_id" /\ Word("RedditClientID") # "unset"
            \/ asked[i] = "session" /\ Word("RedditSession") # "unset"

\* fetchCache: how long a document is kept, by who served it; nothing otherwise.
Threads ==
    {"reddit", "hackernews", "github", "discourse", "bluesky", "stackexchange"}
    \cup {e \in {"twitter"} : Switch("TwitterEnabled")}
CacheTTL(engine) ==
    IF ~Switch("CacheEnabled") THEN 0
    ELSE IF engine \in Threads THEN Number("CacheTTLThreads") ELSE Number("CacheTTLPages")

\* dependencyChecks: the upstreams probed.
Probed ==
    {"crawl4ai"} \cup {d \in {"searxng"} : \E i \in DOMAIN Chain : Chain[i] = d}
    \cup {d \in {"redis"} : Redis}

\* The bytes a batch may return: MaxResponseBytes, shifted from megabytes.
MaxResponseBytes == Number("CrawlMaxResponseMB") * Megabyte

\* run gets as far as serving: without a token only over stdio, or when told to.
Starts ==
    /\ Accepted
    /\ Word("RedisURL") # "unparsable"
    /\ RedditUsable
    /\ Switch("MCPStdio") \/ Word("APIKey") # "unset" \/ Switch("AllowNoAuth")

-----------------------------------------------------------------------------
(* What the limiters need of their configuration, for DomainLimiter and    *)
(* RedisLimiter to say anything of them.                                   *)

LocalSound(l) ==
    /\ l.max \in Nat \ {0} /\ l.delay \in Nat /\ l.quota \in Nat
    /\ l.quota > 0 => l.window \in Nat \ {0}

SharedSound(r) ==
    /\ r.delay \in Nat /\ r.quota \in Nat /\ r.cap \in Nat
    /\ r.quota > 0 => r.window \in Nat \ {0}
    /\ r.lease \in Nat \ {0}
=============================================================================
