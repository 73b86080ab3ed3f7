# omnifeed: a TLA+ model of the fetch service

omnifeed answers `fetch_url` and `web_search` for language-model agents.  A URL
goes to the engine that knows the site, an engine reads the site through an HTTP
client that paces itself per host, and what came back may be cached.  A search goes
to a chain of providers.  Several replicas may run against one Redis; everything
works, in a reduced form, without it.

The code that is hard to test is not the parsing of pages but what happens
*between* callers, attempts and answers: who waits for whom, what a caller that gives
up leaves behind, what one replica knows of what another was told, what is said of a
document of which a part did not come.  That is what is modelled here.

- `*.tla` without a prefix: one module per component.
- `MC_*.tla` and `*.cfg`: small instances for TLC.
- `*Proofs.tla`, `SeqLemmas.tla`: theorems for every value of the constants.
- `PROJECT.json`: the index (components, runs, mutants, map to the source, hazards).

Check a run with `tlc -config dl_gap.cfg MC_DomainLimiter`, a proof with
`tlapm DomainLimiterProofs.tla`.

## 1. Inventory

### The path of a request

    MCP / Open WebUI / HTTP          transport/, auth/         Service, ChunkedRead
      -> fetch cache                 fetchcache/               FetchCache
        -> dispatcher                engine/registry.go        FetchPath
          -> site engine             engine/{reddit,...}       RedditChain, RedditCrawl, SiteEngines
          -> generic crawl engine    engine/crawl4ai           FetchPath, CrawlVerdict
            -> HTTP client           httpx/retry.go            FetchPath, LeasedSearch
              -> pacing limiter      httpx/limiter.go,         DomainLimiter, RedisLimiter,
                                     redislimit/, fallback.go  FallbackLimiter
      -> search failover             search/failover           Search
        -> searxng, tinyfish         search/                   Search, LeasedSearch
    start, wiring, shutdown          config/, cmd/omnifeed     Deployment, Service

### Components

| component | state it keeps | operations | what is hard |
|---|---|---|---|
| In-process limiter (`httpx/limiter.go`) | per host: semaphore, last send, spacing bookings, upstream hold, rolling window, reference count; the map of slots; time of the last sweep | `Acquire`, release, `Penalize`, sweep | reservations of a future instant that are later withdrawn; a slot dropped while somebody is on the way to it; a wait that does not fit the caller's deadline |
| Redis limiter (`httpx/redislimit`) | three expiring keys per host; a per-pod semaphore | admit / release / penalize scripts, polling | keys expiring while they still matter, replies lost after the script ran, a pod that dies with a lease |
| Fail-open limiter (`httpx/fallback.go`) | `downUntil`; a degraded gauge | `Acquire`, release, `Penalize` | a backend that changes while a slot is held; hooks called outside the lock |
| Fetch cache (`fetchcache`) | flight map, stored entries, cool-down of Redis, the move to memory | `Crawl` | leaders that hang up or panic, followers left waiting, a store that finishes after the page changed |
| Reddit chain (`engine/reddit/chain.go`, `fetcher.go`, `redisstate`) | per pod: holds and reports per method; shared holds in Redis | `Chain.run`, `markDown`, `markUp` | a success that began before a hold, holds of other replicas, a blip that holds every method |
| Reddit engine (`engine/reddit/engine.go`, `fetcher.go`, `direct.go`, `parser.go`) | the token of the API client; none else between crawls | share link, thread, rounds of expansion, merge, caps | a round that fails after others succeeded; gaps taken in part; a token other crawls drop; one more request under the same admission |
| Retrying client (`httpx/retry.go`) | none between calls | attempts, veto, backoff, `Retry-After` to the limiter | waits that outlive the caller's deadline, a lease shorter than the attempts |
| Registry, dispatcher | list of engines | resolve, fall back, cut a long document | errors that must not fall back, read from what is left of them after wrapping |
| Generic crawl engine (`engine/crawl4ai`) | none between calls | a ladder of strategies under one budget; the classification of an answer | every rung failing differently; the same refusal in two forms |
| GitHub and the other API engines | none between calls | requests in order or side by side, pages and batches, a document under caps | one of several requests failing; a page bound; what the document says is missing |
| Search failover, searchers | none between calls | ask providers in order, merge | a failure that reads as "nothing exists", duplicate results, a budget inside a deadline |
| MCP transport | none between calls | decode, call, encode, for two eras of the protocol, over HTTP and stdio | a message of one era with a header of the other |
| Open WebUI and search HTTP transports | none between calls | a batch of URLs, a search | batches that fail in part, under a cap on the response |
| Configuration and wiring | constants | `Load`, `run`, `runServers` | limits at their boundaries; a shutdown with requests in flight |
| Outbound address guard | none | classify an address, dial | a table of prefixes |
| Observability | counters | | |

`PROJECT.json` lists 40 hazards at their lines, with the properties that would
catch them or the reason why none does.

## 2. Modules

| module | models | relation |
|---|---|---|
| `Instants` | the later of two instants; dropping the front of an ordered sequence of instants | |
| `Sublists` | what is left of a list when elements are taken out | used by `RedditCrawl`, `SiteEngines` |
| `DomainLimiter` | `httpx/limiter.go`, `host.go`, `waitbudget.go`, one host | |
| `PacedAdmissions` | abstract: what a pacing limiter owes the upstream | |
| `RedisLimiter` | `httpx/redislimit/*`, one host, several pods | implements `PacedAdmissions` |
| `FallbackLimiter` | `httpx/fallback.go` over two abstract backends | |
| `FetchCache` | `fetchcache/{cache,failover,redis,memory}.go`, one key | |
| `RedditChain` | `engine/reddit/{chain,fetcher}.go`, `redisstate/store.go` | |
| `RedditCrawl` | one crawl through `engine/reddit/{engine,fetcher,direct,parser}.go` | the holds are `RedditChain`'s |
| `CrawlVerdict` | the classification of an answer of crawl4ai (`engine/crawl4ai`, `antibot`) | used by `FetchPath` |
| `FetchPath` | one call through `engine/registry.go`, the ladder of `engine/crawl4ai`, `httpx/retry.go` under it, and the source chain of `engine/twitter` | |
| `EngineContract` | abstract: what a site engine owes the dispatcher and the limiter | |
| `SiteEngines` | one crawl by `engine/{github,discourse,stackexchange,hackernews,bluesky}` | implements `EngineContract` |
| `SearcherContract` | abstract: what a searcher owes whoever asks | |
| `Search` | one search through `transport/searchapi`, `search/failover`, `searxng`, `tinyfish` | implements `SearcherContract` |
| `Service` | the start, both transports' requests and the shutdown (`cmd/omnifeed`, `transport/mcp`, `transport/openwebui`) | |
| `ChunkedRead` | a long page read chunk by chunk (`transport/mcp/tools`, `domain/truncate.go`) | |
| `Deployment` | `config.Load` and the limiters `cmd/omnifeed` builds of it | its limiters meet the assumptions of `DomainLimiter`, `RedisLimiter` |
| `LeasedSearch` | one admitted SearXNG query against the lease booked for it | extends `Deployment` |
| `SeqLemmas` | lemmas about sequences of instants, their multiplicities, lists with elements taken out, and recursion over the naturals and over a ranked set | used by the other proofs |
| `DomainLimiterProofs`, `RedisLimiterProofs`, `FetchCacheProofs` | theorems | each of the module of that name |
| `FetchPathProofs` | theorems of `FetchPath` and `CrawlVerdict` | |
| `RedditProofs` | theorems of `RedditChain` and `RedditCrawl` | |
| `ContractProofs` | theorems of `Search` and `SiteEngines` | |
| `DeploymentProofs` | theorems of `Deployment`, `LeasedSearch`, `FallbackLimiter`, `Service` and `ChunkedRead` | |
| `MC_*` | constants of the instances | extend the module of that name |

A definition whose comment begins with `Faulty:` is not part of the model: it is the
form a plausible bug would give the definition after it, and shows that a property
can fail.

### How the models read the code

*Atomicity.*  A step is what the code does under one lock, in one Redis script or
command, or between two points at which another goroutine can change what it
reads.  `Arrive` and `EnterSlot` of `DomainLimiter` are two steps because `slotFor`
loads the slot before it takes the slot's lock; taking the semaphore and `reserve`
are one, since nothing else reads what lies between.  A Redis call is three steps:
it is sent, the script runs, the reply is heard.  A failed call may have run or not.

*Time.*  One tick is the unit the constants are given in.  In `DomainLimiter`,
`RedisLimiter` and `RedditChain` the clock waits while a step that takes no time is
due (a timer that has fired, a refusal on its way out, a request that has reached
the HTTP client's own timeout).  `EnterSlot` is the exception on purpose: a caller
about to take the slot's lock may lose a tick, long enough for a sweep.  In
`FallbackLimiter` the clock runs freely, and instants are kept as the ticks that are left,
so that its behaviours never end and its liveness is checked without a time bound.
`LeasedSearch` counts milliseconds.  Elsewhere a timeout is an event that may come at any
point of a wait.

*Data.*  Hosts, URLs and documents are not spelled out.  A document is the version of
the page it shows and whether it may be cached, or the ids it shows and what it says is
left out; an engine's error is its kind; a message is the set of things the patterns find
in it; a configuration is the fields that are set.

*History variables* are written and never read by the code's part of a step: `sends`,
`holdEnd`, `lastDone` (`DomainLimiter`), `admits`, `earliest` (`RedisLimiter`), `owed`, `spent`
(`FallbackLimiter`), `superseded` (`FetchCache`), `asked`, `blip` (`RedditChain`), `ladders`,
`walls`, `raced`, `ranOut`, `blocked`, `refused` (`FetchPath`), `askedFor`, `unopened` (`RedditCrawl`), `spent` (`Search`),
and the counters that bound a behaviour (`calls`, `faults`, `runs`).

### State and actions against the code

`DomainLimiter`: `mapped`/`gen`/`slot` are the entry of `d.limits` (a dropped slot is never
read again, so only its identity is kept); `slot` has the fields of `hostSlot`; `call.ptr`
is the pointer `slotFor` loaded.  Actions: `Arrive`, `RetryLoad`, `EnterSlot` (`slotFor`);
`CancelQueued`, `Reserve`, `Refuse`, `Wake`, `CancelWaiting` (`Acquire`); `Release`;
`Penalize`; `OtherHostCall` (the sweep run for some other host).

`RedisLimiter`: `win`, `next`, `inflight` are the three keys, each with its expiry.
Actions: `EnterSem`, `Ask`, `AskFails`, `Admitted`, `Refused`, `Sleep`, `AskAgain`, `Cancel`
(`Acquire`); `Finish`, `Release`, `ReleaseFails`; `Penalize`; `Crash`.

`FallbackLimiter`: `open` and `left` are `downUntil`, `gauge` what the hook was last told.
The two backends are what the type sees of them: slots handed out, time held.

`FetchCache`: `flight` is the entry of the flight map, `call.leader` the flight a caller waits
on, `entry` what each backend holds, `onMemory` the state of `Failover`, `cooling` that of
the Redis backend.  Every place where the code runs a backend call without its
lock is a state of its own (`looking`, `storing`).

`RedditChain`: `downUntil`, `down`, `sharedDownUntil` are each pod's memory, `shared` the keys,
`legs` the `held` flag of each crawl's session legs; one run of the chain walks
`candidates`, the places of the configured list that are left, and ends in a success, a failure, or a hold that is placed locally,
reported and shared, each a step of its own.

`RedditCrawl`: one crawl, `op` the chain call it makes (`resolve`, `thread`, `listing`, `more`), `left`
the candidates of that call, `again` the 401 and 403 already forgiven on one of them, `slots` the
crawl slot and the quota slot it holds, `owed` the requests a browser page sent itself and
`charge` has not booked.  The discussion is a constant tree in Reddit's order; an answer is any
choice of its comments and of gaps for the rest (`Threads`, `Answers`), merged by
`MergeExpanded`.  A page in the browser (`PageThread`) has gaps only for the branches it has not asked for: its
script marks one as done before the request, and `unopened` has those of which nothing came.  What holds a method and what other crawls do to the token are steps of the
surroundings.

`CrawlVerdict`: operators only.  A text is a set of findings, a page a set of signs, and the
order in which the code looks for them is the definition: `PageKind` is `crawlRung` after a decoded
answer, `ReplyKind` is `classifyCrawlError`, `RetryableStatus` the veto of the client.
An `Outcome` is what the ladder reads of an error: the name of its kind, and which words its text says
(`ReplySays` for an error status).  The two are independent: a page that is navigating and answers 403 is a wall
and the navigation race.  `SettledOutcomes`, `VetoedOutcomes` and `RetriedOutcomes` are what the answers come to.

`FetchPath`: `pc` is where the one call is, a rung of the ladder by its `rung` name; `via` who
called the generic engine, which decides what becomes of its error; `failed` is
`chainError.attempts`; `err` (a verdict and what its text says) and `noWait` are the locals of `Crawl` that a rung
hands to the next.  Any outcome of `CrawlVerdict` may come at any time.  `GoOn` is the cascade of
`if err != nil && ... && ctx.Err() == nil` after the base rung, `Order` the order of its steps.
`Settles`, `Vetoes`, `Retries`, `GivesUp`, `Aborts` are the ways out of `DoRetry`.  The slots are those
of the host the call is about to read; where it moves on to another host the number
others hold is a number like any other.

`SiteEngines`: one crawl of one page kind.  `Plan` has the requests a kind begins with, `reads`
those under way in argument order, as `runAll` has them, `got` their answers; `FollowUp` is what the
engine asks for next (a second split of a ref, the next batch, the answers of a question).
`Items`, `Fitting` and `Said` are the document: what it shows, the patches that fit, and what it
says of its own completeness; `There` is what the site has said there is, one more comment behind a next link that
was not followed included.  An answer is a count, a list of ids or a flag.

`Search`: `level` is the searcher of the chain that is asked, `tries` its attempts, `answers` what
came back so far.  `Decide` is `Policy.Decide`, `Merge` is `merge`, `Outcome` folds the chain from
its end as the wiring does.  The queue for a slot, the primary budget, the client's attempts
and the hang-up of the caller are steps that may come in any order.

`Service`: `proc` and `srv` are `run` and the servers of `runServers`, `message` one MCP message,
`batch` one Open WebUI request with a goroutine per URL, `stream` a legacy event stream.  `Verdict`
is the order of the checks between the socket and the tool.  A tool call or a crawl ends in any
way.  `CloseListener` and `ShutdownReturns` are `http.Server.Shutdown`, one server after the other
under one grace.

`ChunkedRead`: the reader calls again at the offset the marker named, with any `max_chars`; the page
may be another one at any later call; `Delivered` is what has been handed over.  `Keep`, `Window` and `NextStart` are `TruncateContent`.

`Deployment`: `Given` is the environment, any assignment of values to variables; `Accepted` is
`Load` without an error, `Local`, `Shared`, `PodSemaphore` and `Lease` are the limiters of
each scope.  `LeasedSearch` runs one query in such a deployment: attempts and backoffs of
`DoRetry` with their timers, and ten seconds of slack for what no timer bounds.

## 3. What each run checks

Pass:

| run | question | result |
|---|---|---|
| `dl_gap` | completion-spaced mode: two slots, quota 2 in 2, jitter, holds, sweep | `ConcurrencyCap`, `HeldSlotIsLive`, `ObligationsMet` hold; `BookingsKept`: no booking outlives its caller's withdrawal and what is sent was booked within the quota |
| `dl_spaced` | send-spaced mode: quota and spacing together | `SendsSpaced` holds whoever withdraws, and every caller is answered |
| `redis` | two pods, with a cluster cap of one and without: quota, spacing, holds, a lost call or reply, or a crash | `WindowKept`, `ClusterCap`; the limiter implements `PacedAdmissions`; every caller is answered although a lease may be stranded |
| `fallback_circuit` | outages at any time | releases reach the backend that admitted, the fallback knows of every hold, one timeout per cool-down, the circuit closes again |
| `cache_shared` | three identical requests | one fetch at a time, nobody inherits a hang-up, nobody is forgotten, staleness bounded by TTL plus one fetch |
| `reddit_chain` | two crawls, two methods, failing Redis, restarts | holds survive late successes and shorter holds; faults of the upstream alone never hold every method |
| `reddit_crawl` | one crawl of five comments, every answer and every chain of methods | no reply lost, but those behind branches a page asked for in vain, nor asked for twice; the caps keep whole threads; an early stop is said; every crawl ends with its slots back (149,478 states) |
| `fetch_path` | one call, every outcome, hang-ups, one slot | at most one ladder per call and no browser to a host that refused; no identity meets a named wall twice, but a wall that says the page is navigating; no block hidden behind a weaker error, but that of the remedy its own words call for; every call is answered (187,410 states) |
| `engines` | one crawl of each page kind by the API engines | a document says what it lacks, and only that, but for GitHub's comments that stop at the page bound or at a link off the API (`StoppedShort`); the engine implements `EngineContract`; every crawl ends |
| `search_chain` | one search, one or two searchers, every deployment | a failure never becomes an empty success; a top-up keeps both rankings; the chain implements `SearcherContract`; every search is answered |
| `service` | one process from start to exit | nothing runs whose headers, dialect or tool the server does not know; batches come back in order and under the cap; a drain ends what it can; the process stops |

Violation, a disagreement between the code and a comment of it (quoted in `PROJECT.json`):

| run | property | what TLC shows |
|---|---|---|
| `dl_window` | `BookedWindow` | `book` appends each grant at the end; after the withdrawal of a nearer booking the next grant is earlier than the last one, the window is no longer in order (4, 2, 4), and with three slots and quota 2 in a window of 2 three requests are booked for one instant and leave at it |

`BookedWindow`, of the requests *sent* at most `Quota` were booked within any `Period`, is what is left of the
quota where bookings are made in order (`BookingsInOrder`): the delay is measured from completions, so that the
instants asked for never go back, and there are at most two slots, so that a caller who withdraws leaves
nobody's booking behind it.  `dl_gap` checks it there, and `Booked` proves it.  Reddit's quota is of that kind with
the default of two requests per domain (`main.go:687`, `config.go:535`), SearXNG's without a concurrency of its own (`main.go:771`) has
one slot.  TinyFish's has four (`search.go:157`), Reddit's more than two if it is so configured: `dl_window` is
the least instance of these.  In send-spaced mode the property fails for another reason as well: `book` evicts relative to the
instant asked for, which may lie in the future, and when that booking is withdrawn the evicted ones are gone.  (With the
constants of `dl_window` and `SpaceSends = TRUE`, `MinDelay = 2`, `Period = 5`, `LastStart = 5`, `MaxHold = 2`, `MaxTime = 20`
TLC finds requests that leave at 0, 2 and 4.)

The type invariant of a module is a conjunct of a property of one of its runs
(`BookingsKept`, `WindowKept`, `FailureKept`, `Accounted`, `DocumentHonest` and so on), so every run
checks it too; that of `FallbackLimiter` is proved.

### Bounds

Every bound that the code does not have is a constant marked `bound:`.

- *Callers*: three where two share and a third must queue or arrive late
  (`DomainLimiter`, a leader and two followers in `FetchCache`), two where the hazard is
  between two (`RedisLimiter`, one on each pod, `FallbackLimiter`, `RedditChain`).
- *Calls*: `MaxCalls` = 4 lets one caller come back after the others, so that what a
  withdrawn caller left behind has somebody to hurt.
- *Time*: `MaxTime` is long enough for every window, hold, lease and cool-down of the
  instance to run out once after the last arrival (`LastStart`); a behaviour then ends
  in `Finished` and not in a deadlock.
- *Deployments*: `redis` chooses the cluster cap from `Caps`, none or one; `search_chain`,
  `service` and `reddit_crawl` choose the chain, the policy and the configuration at the start, so that
  one run covers them all.
- *Holds* are one shorter and one longer than the idle age (1 and 4 in `dl_gap`), so
  that the sweep meets a slot that is idle and one that is idle but on hold.
- *Attempts*: `MaxAttempts` = 2 is the crawl4ai client's value; the third attempt of the search
  client repeats the step from the first to the second.  One slot per host is the tightest
  case of the hand-over from a site engine to the generic one.
- *Trees*: five comments in pre-order, two roots of their own and one with a chain of two below it: the
  least in which a cap can cut through a thread, a gap can hold more than a batch (two) and
  a removed comment can have replies (`reddit_crawl`).  `maxTop`, `maxComments`, `per` are below the
  number of comments they bound.
- *Lists*: a topic of four posts with three shown in batches of two takes two batches; pages of at most one
  comment under a cap of two and a page bound of four reach both ends; three patches of 1, 3, 1 under 3 leave one
  out and take a later one; up to two answers listed under a count of none to three, so that the count is the
  smaller, the same and the larger (`engines`).
- *Searches*: two hits out of three pages, one under two spellings, limit up to three: a duplicate, a cut and a top-up
  all happen.
- *Messages*: every field of a sound legacy or modern message, one at a time, takes every value
  the code tells apart; batches of two URLs under a response cap of four, one malformed or both to be fetched, and
  one of three URLs that is refused, `MaxURLs` being two: two documents are enough for crawls that end out of order
  and for a first one that leaves no room for the second.
- *Faults*: one per behaviour, at any point, where they are counted; free elsewhere.
- *Symmetry*: callers are interchangeable where the instance says so; it is not used in
  runs that check liveness.
- *Deadlock* is checked where processes go on.  A search, a crawl and a process end, so `search_chain`,
  `reddit_crawl`, `engines` and `service` switch the check off; that they end as they should is
  `SearchAnswered`, `CrawlAnswered`, `EngineAnswered` and `Stops`.

### Fairness

- `DomainLimiter`, `RedisLimiter`: weak fairness of `Progress`, the steps that wait for nobody's
  decision.  The scheduler runs a runnable goroutine, a timer fires, Redis answers or the
  call fails by its timeout, and the HTTP client times a request out.  Cancelling,
  arriving and failing are never required; a queued caller's cancellation is once its deadline
  has come.
- `FallbackLimiter`: weak fairness of the clock and of a caller's own steps, strong
  fairness of a backend's admission: a backend that can admit a caller again and
  again does in the end.  `Acquire` by a caller is weakly fair: requests keep
  coming.  Without a request nothing probes the circuit, which is how the code works.
- `FetchPath`: weak fairness of the call's own steps (every upstream answers or the client's
  timeout does for it) and of the release of other callers' slots; strong fairness of taking a
  free slot, because the semaphore is a channel and serves its senders in order.  Nobody is
  required to hang up or to be refused, so the answer does not depend on it.
- `Search`, `SiteEngines`, `RedditCrawl`: weak fairness of the handler's own steps, each of which ends
  by a timeout of the client or by the limiter's refusal of a wait; in `RedditCrawl` also of `Charge`,
  which has a timeout of its own.  No hang-up and no competitor's kindness is relied on.
- `Service`: weak fairness of the main goroutine, of tools and crawls, and of the end of the grace.  A
  client, a signal, a closing stream promise nothing: `Stops` says that a process *told* to stop
  does.  It speaks of the servers; over stdio a signal is seen only when another line has come.

## 4. What is proved

TLAPS checks these for every value of the constants that the named assumptions admit.

`DomainLimiterProofs`, under `ConfigAssumption` (durations are natural numbers, a semaphore has at least one
slot, the set of callers is finite):

- `TypeCorrect`: `Spec => []TypeOK`.
- `LiveSlots`: `Spec => []HeldSlotIsLive`, no caller ever works on a dropped slot.
- `Capped`: `Spec => []ConcurrencyCap`.
- `Obliged`: `Spec => []ObligationsMet`, no caller books earlier than an upstream's
  `Retry-After` or the minimum delay asks for, even across a drop of the slot.
- `Booked`: `Spec => []BookingsKept`, nobody waits behind a caller that has gone, in any mode, and the quota of what
  is booked and sent where `BookingsInOrder`.
- `SpacedApart`: `Spec => []SendsSpaced`, sends `MinDelay` apart in send-spaced mode, for any number of slots.

The inductive invariant `IInv` (`AlwaysIInv`) adds to `TypeOK` what the three rest on.  The slot's counters
are the callers (`Faithful`: `sem` counts those in `HoldsSem`, `refs` those in `HoldsRef`), so a
drop, which needs `refs = 0`, meets no holder: `HeldSlotIsLive`; and the semaphore bounds the
senders: `ConcurrencyCap`.  For `ObligationsMet` the slot must know of the latest hold and
completion for as long as they matter: `Faithful` says that a mapped slot's `notBefore` and
`lastSend` carry `holdEnd` and `lastDone` or that these are over, and the sweep's guards
(`now > notBefore`, an idle age beyond `MinDelay`) are what keeps this true when a slot is
dropped.  Dropping either guard breaks the step `OtherHostCall`.

The last two rest on `BInv` (`AlwaysBInv`), which counts bookings: `Held(V)` are the callers that hold one of an
instant in `V`, `Went(V)` the requests that went out with one.  `Backed`: every future instant in the slot has as many
holders as it has places, hence no phantom.  `GapsKept`: bookings stand `MinDelay` apart from each other and from what was
sent, and the slot remembers each that can still constrain anyone.  `QuotaKept`: the window is in order; it has every
booking that a caller asking from now on must respect (those evicted, or lost with a dropped slot, lie a `Period`
before whatever is asked for next: `UseKnown`); no `Period` holds more than `Quota` bookings; and a booking later than what
was asked for was put off by a full window.  The last part is what the withdrawal needs: with one other booking pending at most,
removing one uncovers no instant that the other was put off for.  The proof of `Reserve` compares the grant with the booking
`Quota` places back (`Opens`, `GrantIsLatest`).

`RedisLimiterProofs`, under its `ConfigAssumption`, for any number of pods and callers, and any loss of calls and
replies and crash of pods:

- `WindowAlways`: `Spec => []WindowKept`, types and the rolling quota.
- `ImplementsPaced`: `Spec => PacedSpec`, the shared limiter implements `PacedAdmissions`.
- `ClusterCapped`: `Spec => []ClusterCap`, *if* a lease outlasts the call that books it and the request under it
  together (`Lag + MaxHold < LeaseTTL`, which `limiter.go:30` asks of whoever sets `LeaseTTL`).

The keys in Redis expire, so the invariant `IInv` says what is lost with them: the window ends as the admissions
did and what it lacks of them is over (`Remembers`), its key outlives what it holds (`WindowKnown`), the next
opening knows of the longest hold or that one is over (`HoldKnown`).  Every step, whoever takes it, does one of
six things to the keys (`KeyStep`), so that it is proved once per key and not once per action; a full window that was
purged always opens later than now (`AdmitAtType`), hence an admitted caller meets room in the abstract window.  The
cap needs the callers as well (`LInv`): the nonces of those admitted and not yet released differ, and each of them not yet at
its release has a lease of its own that still runs; an injection from senders to leases ends the proof.

`DeploymentProofs`, of `FallbackLimiter`: `TypeCorrect`, `Balanced` (`Spec => []SlotsBalanced`), `Warmed`
(`Spec => FallbackWarm`), `TimeoutOnce` (`Spec => OneTimeoutPerCooldown`).  Here `IInv` adds: what is
owed is covered by the fallback's own hold or by a `Penalize` that has not reached it (`Warm`), a
caller's unspent timeout is covered by the open circuit's cool-down (`Bound`, `Covered`).

`FetchCacheProofs`, for any number of callers, any TTL and any order of hang-ups, panics and outages:

- `OneFetchAlways`, `LiveServed`, `NobodyForgotten`: at most one fetch at a time, nobody who is there inherits a
  hang-up, whoever waits waits for somebody at work.  `IInv` ties the flight map to the callers: who is in it leads, and who
  leads is in it (`FlightManned`); a follower's leader has not finished (`Led`); and a caller that found an abandoned
  or aborted flight found its leader gone, which is why it may start over (`HoldsAs`).
- `StalenessBounded`: what is served is no older than the TTL and one fetch.  The age is carried along the way of a
  document: bounded by the fetch while one is crawled, by `MaxFetch` in the leader's hand, by `MaxFetch` and the rest of
  the TTL in a store (`FreshAs`, `EntryFresh`).

`FetchPathProofs`, for any number of slots and attempts and any ladder:

- `SpareTheHost`, one ladder per call and no browser to a host that has refused; `NeverAgain`, no identity into a named wall
  twice, or into one that says the page is navigating a third time; `BestAnswer`, no block behind a weaker error but that of the
  remedy its own words call for.  `IInv` says how far the call has come and what it cannot have done yet (`Phases`), and
  what a block, a wall or a wait that ran out leaves open (`Blocks`, `Walls`, `Waited`): a block leads to the same identity once
  more if it says the page is navigating, to the one try as someone else, who has met none, to the PDF reading if it names a download, or to the end.
- `VetoIsVerdict` and `OneVoice` are of `CrawlVerdict`, for any status and any findings: what the client refuses to retry is
  classified as content, a wall or a time limit; a refusal reported as a failed result or as a 5xx comes to the same
  treatment, time limits and rates apart (there it does not).

`RedditProofs`, of `RedditChain`, for any pods, crawls and list of methods, whatever Redis does:

- `BlipIsNoOutage`: upstream faults alone never put every method on hold.  The invariant is that no pod holds the
  *last* method for a fault (`LastUnblamed`), since a run holds a method for one only if it has another behind it.  It needs
  `MethodsDistinct`: the list names no method twice.  `OMNIFEED_REDDIT_METHODS` may, nothing in `config.go` checks it; see section 5.
- `HoldsLast`: a hold lasts as long as it was asked for, against late successes and shorter holds (`AskedHeld`).

Of `RedditCrawl`, for any tree of comments in Reddit's order, any chain of methods, any request and any answers
(`CrawlAssumption`):

- `NoReplyLost`: of every reply to a comment it shows the document tells what became of it, until it is capped, but for those
  behind branches that a page asked for in vain, and where it was refused (`RefusalTold`) the document is partial; `AskedOnce`:
  no id is asked for twice; `StopsWithReason`: an expansion that stops early says why or had no reason to go on, and a
  thread once read is returned.  They rest on `CrawlIInv` (`AlwaysCrawlIInv`).  A gap that needs ids has some (`Whole`).
  What may still be asked for stands in the tree so that none of it is below another and nothing below it has been
  asked for (`Standing`, with `Line` the ancestors of a comment, `Apart` and `Under`); the batch is exactly what has been
  asked for of it.  An answer puts in the place of a comment asked for some that lie below it, so a round only moves this
  line down (`RoundMoves`), which is why it cannot meet an id again although a batch takes gaps in part.
- `CapsKeepWhole`: the caps never leave a reply without the comment it answers, and above the comment cap drop whole
  threads only.  The depth and the thread of a comment are recursive over the tree: that such functions exist and obey
  their equations is `TreeRecursion` (`RankedRecursion` of `SeqLemmas`).  Each cap keeps a set that is closed upward (`KeptUp`), hence with a comment its
  chain (`ChainStays`); and a thread past the first ones is dropped only where these are as many as the cap.

`ContractProofs`, of `Search`, for any levels of the chain, policies, limits and answers (`SearchAssumption`):

- `FailureStands`: a failure never becomes an empty success.  `TopUpFair`: a merged answer has every page once and keeps
  both rankings (`Merged`, what the merge holds after n ranks of each, by induction over the ranks; `CutIs` for the
  limit).
- `ChainIsSearcher`: `Spec => SearcherSpec`, a chain of searchers keeps the promises of one.  The invariant says of each
  level what its answer may be, that the next is asked only when the one before has failed or fell short, and that
  no slot is held but that of the searcher asked.

`ContractProofs`, of `SiteEngines`, for page kinds, trees of comments, topics, patches and caps of any size
(`EngineAssumption`: bounds are natural numbers, those of a page or batch positive, a comment comes after the one it
answers; `KindsPlanned`):

- `EngineKeepsContract`: `CrawlSpec => EngineSpec`, a crawl sends under one slot, nothing it sent outlives the slot, and
  nothing begins for a caller who has gone.  A step sends one round of requests or settles one request of it, so that the
  count of those under way is the only arithmetic.
- `DocumentsAreHonest`: `CrawlSpec => []DocumentHonest`.  The comments of GitHub that stop
  short (`StoppedShort`) are cut without saying so, and the theorem says of all others that they do.  A document is composed from answers that came in earlier steps, so
  the invariant `EngineIInv` carries them there: the requests under way are those of the kind, and one that went well has its
  answer kept (`ReadsKept`); a batch comes after the topic it is of, the answers after their question, the print view before the
  paged way (`ReadBefore`); and what is kept is an answer the site may give (`GotTyped`).  `ReadBefore` also bounds the rounds: a
  batch that is not empty begins within the topic (`BatchBound`).  `Ready` is the state in which the document is composed, and each
  kind has a lemma from there (`CommentsHonest` to `ThreadHonest`).
- The lemmas behind these: each cap on a tree keeps with a comment the one it answers, because that one has a smaller breadth-first
  rank in any group that has both (`RankIs`, `CapsKeep`); the first replies in the site's order have their parents among
  them (`ThreadHonest`); a list left by a filter is in the order of the list it was taken from (`OrderKept`); and patches are
  chosen by what is left, stated by what is spent, which make up the whole (`FittingFits`).

The proof found two things to put right in this model.  Arms of a `CASE` in `NextCall`, `FollowUp` and `There` overlapped: TLC
takes the first, the language leaves the choice open, and no proof can take it; they are disjoint now.  And `There` took
the count of a question's answers at its word where fewer were counted than listed, while the code shows what is listed
(`stackexchange/engine.go:257`): with two or more answers the property was false of a sound document, and the run, with at
most one, could not tell.  `There` counts what is listed as well, and the run has two.

`DeploymentProofs`, of `Service` (`ServiceAssumption`):

- `DrainLosesNothing`: a request under way is cut only when the grace is over, and probes are told of the drain before a
  listener goes: the invariant (`ServiceIInv`) is that such a request is behind a server that still waits for it.  `EachInItsDialect`: no
  tool runs for a message whose headers, era or tool the server does not know.
- `BatchAnswered`: a batch comes back in its order and under the response cap, and lacks only what would exceed it.  What the documents before the i-th have
  used up is recursive over the batch; that it never exceeds the cap is shown for the least i at which it would.

`DeploymentProofs`, of the configuration:

- `ReadWhole`, `MovesOn`, for a marker of any length that grows with its numbers (`Params`): a reader who follows the
  offsets of an unchanged page gets every character once, and every call moves on or is the last; the invariant is that what was
  read is what lies before the offset.  `WindowFits`: a cut answer with its marker is within the cap, *if* the cap is longer
  than the marker; a smaller cap delivers its characters and then the marker on top.
- `LimitersSound`, for any environment: what `Load` accepts builds limiters that meet the assumptions of
  `DomainLimiter` and `RedisLimiter`, *if* there is at least one request per domain and no negative delay, which `Load` does
  not check; `FallbackNoWider`; `ResponseBytesFit`; `DefaultsStart`.
- `LeaseCoversAlways`, in any accepted deployment with a positive timeout: a query is over before the lease it was admitted
  with, so that the cap of `RedisLimiter` counts it for as long as it runs.  The invariant is a budget: what the
  remaining attempts, backoffs and the slack may take still fits.  `RedisLimiter` takes the lease as a constant; this is why it
  may be taken for long enough.

`SeqLemmas` has what these need of `RemoveFirst`, `Evict`, `Append`, `Filter`, `Cardinality`, the least of a set, and the places at
which a sequence has a value of a set (`Hits`).  The induction theorems of the library take a predicate and cannot be used here;
`NaturalsFromZero` says the same of a *set* of naturals, `StepsHaveResults` that a function defined by recursion over
`0..n` exists and obeys its equation, `RankedInduction` and `RankedRecursion` both of any set whose members have a natural number as
rank, as the comments of a tree have their place.  These replace induction where a fold, a merge, a filter or a tree is proved about.

Only model-checked: all liveness (`CallersAnswered`, `Recovers`, `CallAnswered`, `SearchAnswered`, `CrawlAnswered`, `EngineAnswered`,
`Stops`), which is beyond the prover.  Every other property of a passing run is a theorem, the refinements included.

## 5. Disagreements observed

Met while reading, modelling or proving, and modelled as the code has them.  `dl_window` is the one a run
shows; the rest are narrower than a property of the whole, or a sentence of a doc that is a little too strong.

- *Pacing.*  The two of the window are described in section 3.  The order was noticed where the invariant of `Booked` failed for three slots.  `MinDelay > 0` in Redis spaces admissions and does not serialize requests (`script.go:106`,
  against `redislimit/limiter.go:17`).  `OMNIFEED_PER_DOMAIN_CONCURRENCY` is not validated (`config.go:535`): 0 gives
  an unbuffered semaphore on which every crawl waits until its deadline (`limiter.go:158`), while `semFor` makes it 1
  (`redislimit/limiter.go:348`); a negative one panics.  An `OMNIFEED_SEARXNG_TIMEOUT` of 0 means no client timeout and a
  lease of 18 s, so that a query may outlive its lease.
- *Fail-open.*  The hook runs outside the lock (`fallback.go:131`): the reports of two transitions may come in the wrong
  order, and the gauge stays wrong until the next.  A slow success that began before a failure closes the circuit
  the failure opened (`fallback.go:139`).  The fallback starts cold (`fallback.go:78`).
- *Cache.*  A caller that misses, then leads after the previous leader has stored and left, fetches the page again
  (`cache.go:161`).  A slow ordinary fetch stores over a newer one (`cache.go:158`).
- *Reddit.*  A list of methods that names its last one twice (`config.go:511` allows it) has one shared hold for both, so
  that with Redis two upstream faults hold every method, against `chain.go`'s rule that the last candidate left is not held for one (`chain.go:284`).  `markUp` deletes the shared key whoever placed it (`fetcher.go:208`, against `docs/adr/0001-reddit-access.md:87`).
  `accessToken` wraps every error, a cancelled context too, as an upstream fault (`direct.go:101`), so the chain holds a
  method the caller cut short, against `direct.go:229`.  `dropToken` drops a token another crawl has just renewed
  (`direct.go:135`).  The 401 and 403 retries send further requests under one admission of the quota.  An answer to
  `morechildren` without anything new ends the expansion though other gaps remain (`engine.go:360`).
  The page's script marks a branch as done before it asks for it (`html.go:111`), and leaves what is done out of the gaps
  (`html.go:158`): a branch that is refused (`html.go:136`), dropped (`html.go:126`) or gone (`html.go:132`) leaves no gap, and in the
  last case nothing in the document tells of it, against `html.go:60` ("Branches it did not open come back as "more" gaps") and
  `html.go:134` ("report the rest as gaps").  `Accounted` names these
  (`unopened`) and holds of all other replies.
- *Fetch path.*  `classifyPacing` builds an error without the `NoFallback` mark (`registry.go:241`, against `domain/errors.go:123`).
  A block message that also names a rate or a time limit is `http_429` or `timeout` as a failed result and `bot_block`
  as a 5xx; a 504 with the block phrase is a timeout, and not retried.  A wall that answers 403 while its error says that the page is
  navigating is driven again by the identity it has just refused, and if that retry comes to something weaker (thin content) the wall is
  forgotten (`engine.go:400`): the try as someone else does not follow, though `engine.go:406` means it for every wall.  A block
  whose text names a download is replaced by what the PDF reading comes to (`engine.go:438`).  A message of the content gate and of
  the challenge wait at once, on the retry for a navigating page, lets the rung without the selector wait again
  (`engine.go:420`).  `NoWallTwice` and `AnswerKept` name these three and hold of all else.
- *Search.*  `countZeroResultEngines` counts engines that a site search did not ask (`searcher.go:428`).  A retry may leave before
  its `Retry-After` (full jitter); a `Retry-After` of 0 makes the later delays 0.
- *Documents.*  GitHub's `comments` says nothing is left when it stops at the page bound or at a link out of the API
  (`github/engine.go:377`), against its comment at `engine.go:346`, "more reports that unfetched pages remain": the document is cut and
  does not say so.  `DocumentHonest` names this case (`StoppedShort`) and holds of every other document.  Bluesky cuts below depth 20 silently.  An accepted answer outside the first 100 comments of a
  discussion is not shown.  `TruncateContent`'s "never exceeds maxChars runes" (`truncate.go:43`) does not hold of a cap below
  the marker's length.
- *Service.*  `ServeStdio` looks at its context only when a line has come (`server.go:266`).  `runServers` returns nil after a
  listener has failed, and one failed listener stops every server.  An open event stream makes a shutdown use its whole
  grace.  A `tools/call` without an id runs its tool.  The texts of error documents are not counted in the cap.

## 6. What is left out, and why

- A Redis that loses its keys (`FLUSHALL`, failover to a stale replica) and a script that runs
  after its client gave up: the docs claim nothing for either.
- `DomainLimiter`: host normalisation, the wait metric.
- `FetchCache`: derivation of keys, the encoding of entries, eviction by bytes, the probe at start.
- `FetchPath`: the length of backoffs and `Retry-After` (the limiters model what is done with it),
  the API hosts' own pacing.  A wall that a 5xx words without crawl4ai's marker is not known for one until
  the retries are over, and is outside `NoWallTwice`.
- `CrawlVerdict`: which texts the patterns match: data.
- `RedditChain`, `RedditCrawl`: one crawl's own view of what other crawls hold is free in the second and exact in the
  first; the two are not composed into one state space.
- Twitter: the requests inside one source and the cache of posts are outcomes.
- `SiteEngines`: feeds, front pages and profiles keep nothing between requests.
- `Service`: the JSON of messages, the help texts; request headers that no check reads.
- Rendering, logging, metrics: formatting.  Parsing of pages: data without control.

**Not modelled.**  *Outbound address guard*: a table of prefixes and a dial that reads it, without state; its refusal is an
outcome of `FetchPath` and `CrawlVerdict`.  *Observability*: counters and spans that nothing reads, but for the degraded gauge (in
`FallbackLimiter`) and the probes (in `Service`).

## 7. Plan

What would come next, in this order:

1. `RedditCrawl` composed with `RedditChain`: two crawls on one token and one set of holds.
2. The cache's eviction by bytes against a reference definition.
