------------------------------ MODULE Service ------------------------------
(***************************************************************************)
(* The process (cmd/omnifeed/main.go) and its transports: the start, the   *)
(* MCP server over HTTP and over stdio (internal/transport/mcp), the batch *)
(* of the Open WebUI loader (internal/transport/openwebui), the health     *)
(* endpoints, and the shutdown that drains them.                           *)
(*                                                                         *)
(* One MCP message, one batch and one event stream are in flight at a      *)
(* time; what a tool or a crawl comes to is left free (FetchPath, Search). *)
(* Durations are events: the write deadline of a response, and the end of  *)
(* the grace that runServers gives all its servers together.               *)
(***************************************************************************)
EXTENDS Integers, SequencesExt, FiniteSetsExt

CONSTANTS
    Configs,      \* configurations the process may be started with
    Messages,     \* what MCP clients send
    Batches,      \* lists of URLs the loader is asked for
    Malformed,    \* the URLs among them that do not parse
    MaxURLs,      \* OMNIFEED_MAX_URLS_PER_REQUEST
    Sizes,        \* sizes of pages
    ErrorSize,    \* size of the text of an error document
    MaxResponse   \* OMNIFEED_CRAWL_MAX_RESPONSE_MB, 0 for no cap

Servers == <<"loader", "mcp", "observability">>   \* in the order of their shutdown
Legacy == {"2025-06-18", "2025-11-25"}   \* of the four revisions, two
Modern == "2026-07-28"

ASSUME ServiceAssumption ==
    /\ \A c \in Configs : c.listen \subseteq Range(Servers) /\ c.search \in BOOLEAN
    /\ Messages \subseteq
          [origin : STRING, bearer : BOOLEAN, json : {"ok", "parse", "invalid"}, id : BOOLEAN, header : STRING,
           meta : STRING, method : STRING, name : STRING, mcpMethod : STRING, mcpName : STRING]
    /\ \A urls \in Batches : urls \in Seq(Range(urls))
    /\ MaxURLs \in Nat \ {0} /\ Sizes \subseteq Nat /\ ErrorSize \in Nat /\ MaxResponse \in Nat

VARIABLES
    config,     \* the configuration
    proc,       \* "boot", "refused", "stdio", "serving", "draining", "exited"
    signaled,   \* SIGINT or SIGTERM has come
    graceOver,  \* the context of the shutdown has ended
    alive,      \* what /livez says: the process is not shutting down
    srv,        \* server -> "off", "open", "closing" (draining), "closed", "failed"
    message,    \* the MCP message in flight: its state, itself, its reply
    batch,      \* the loader's request: its state, URLs, results, reply
    stream,     \* the event stream of a legacy client is open
    late        \* servers whose request in flight is past its write deadline

process == <<config, proc, signaled, graceOver, alive, srv>>
requests == <<message, batch, stream, late>>
serviceVars == <<process, requests>>

NoMessage == [st |-> "idle", msg |-> <<>>, reply |-> <<>>]
NoBatch == [st |-> "idle", urls |-> <<>>, docs |-> <<>>, reply |-> <<>>]

-----------------------------------------------------------------------------
(* The start.                                                              *)

Tools == {"fetch_url"} \cup (IF config.search THEN {"web_search"} ELSE {})

ServiceInit ==
    /\ config \in Configs
    /\ proc = "boot" /\ signaled = FALSE /\ graceOver = FALSE /\ alive = TRUE
    /\ srv = [s \in Range(Servers) |-> "off"]
    /\ message = NoMessage /\ batch = NoBatch /\ stream = FALSE /\ late = {}

\* run refuses a Redis URL it cannot parse and a Reddit chain without a method;
\* a Redis that does not answer is no reason (pacing and cache then are local).
Refuse ==
    /\ proc = "boot"
    /\ \/ config.redis = "malformed"
       \/ ~config.redditMethods
       \/ config.mode = "http" /\ ~config.key /\ ~config.noAuth
    /\ proc' = "refused"
    /\ UNCHANGED <<config, signaled, graceOver, alive, srv, requests>>

\* In stdio mode the message loop is all there is: no key, no server, no probe.
StartStdio ==
    /\ proc = "boot" /\ config.mode = "stdio"
    /\ config.redis # "malformed" /\ config.redditMethods
    /\ proc' = "stdio"
    /\ UNCHANGED <<config, signaled, graceOver, alive, srv, requests>>

\* A server without an address is left out; a listener may fail later.
StartServers ==
    /\ proc = "boot" /\ config.mode = "http"
    /\ config.redis # "malformed" /\ config.redditMethods /\ (config.key \/ config.noAuth)
    /\ proc' = "serving"
    /\ srv' = [s \in Range(Servers) |-> IF s \in config.listen THEN "open" ELSE "off"]
    /\ UNCHANGED <<config, signaled, graceOver, alive, requests>>

-----------------------------------------------------------------------------
(* MCP messages.  A reply is <<HTTP status, JSON-RPC error, version asked   *)
(* for>>, as far as clients tell them apart; stdio sends no status.        *)

Trusted(m) == m.origin # "foreign"
Authentic(m) == config.key => m.bearer

\* eraOf: the version in _meta decides, the header only without one.
Version(m) == IF m.meta # "" THEN m.meta ELSE m.header
IsModern(m) == Version(m) \notin Legacy \cup {""}

\* Faulty: the headers are only looked for.
HeadersAgreePresent(m) == m.id => m.meta # "" /\ m.header # "" /\ m.mcpMethod # "" /\ m.mcpName # ""

\* validateModernRequest: headers a request must carry, and headers that, when
\* present, must agree with the body.
HeadersAgree(m) ==
    /\ m.id => m.meta # "" /\ m.header # "" /\ m.mcpMethod # ""
    /\ m.header # "" /\ m.meta # "" => m.header = m.meta
    /\ m.mcpMethod # "" => m.mcpMethod = m.method
    /\ m.method = "tools/call" =>
          /\ m.id => m.mcpName # ""
          /\ m.mcpName # "" => m.mcpName = m.name

Methods(m) ==
    {"server/discover", "tools/list", "tools/call"} \cup
        (IF IsModern(m) THEN {} ELSE {"initialize", "notifications/initialized", "ping"})

\* The checks before any tool runs, and what each that fails answers; "run" when
\* the message calls a tool.  stdio has no headers, hence no check of them, and an
\* unknown method has its own status for modern clients alone.
Checks(m) ==
    LET http == config.mode = "http" IN <<
        <<http /\ ~Trusted(m), 403, "none">>,
        <<http /\ ~Authentic(m), 401, "none">>,
        <<m.json # "ok", 400, m.json>>,
        <<IsModern(m) /\ Version(m) # Modern, 400, "version">>,
        <<IsModern(m) /\ http /\ ~HeadersAgree(m), 400, "mismatch">>,
        <<m.method \notin Methods(m), IF IsModern(m) THEN 404 ELSE 200, "method">>,
        <<m.method = "tools/call" /\ m.name \notin Tools, 200, "params">>,
        <<m.method = "tools/call", 200, "run">>,
        <<TRUE, 200, "none">> >>

\* The first decides.
Verdict(m) ==
    LET first == Checks(m)[Min({i \in 1..9 : Checks(m)[i][1]})]
    IN  <<first[2], first[3], Version(m)>>

\* A notification is dispatched like a request, its tool runs, and it has no
\* answer; a message refused before the dispatch has one over HTTP.
Reply(m, verdict) ==
    IF m.id \/ m.json # "ok" \/ (config.mode = "http" /\ verdict[1] \in {400, 401, 403})
    THEN verdict ELSE <<202, "none", "">>

\* A reply written past the write deadline reaches nobody.
Sent(server) == IF server \in late THEN "lost" ELSE "answered"

Take(m) ==
    message' = IF Verdict(m)[2] = "run" THEN [st |-> "running", msg |-> m, reply |-> <<>>]
               ELSE [st |-> "answered", msg |-> <<>>, reply |-> Reply(m, Verdict(m))]

Receive(m) ==
    /\ srv["mcp"] = "open" /\ message.st = "idle"
    /\ Take(m)
    /\ UNCHANGED <<process, batch, stream, late>>

\* ServeStdio looks at its context when a line has come, and only then.
ReadLine(m) ==
    /\ proc = "stdio" /\ message.st = "idle"
    /\ IF signaled THEN proc' = "exited" /\ UNCHANGED message
                   ELSE Take([m EXCEPT !.header = ""]) /\ UNCHANGED proc
    /\ UNCHANGED <<config, signaled, graceOver, alive, srv, batch, stream, late>>

InputEnds ==
    /\ proc = "stdio" /\ message.st = "idle"
    /\ proc' = "exited"
    /\ UNCHANGED <<config, signaled, graceOver, alive, srv, requests>>

\* callTool: bad arguments are a protocol error; a tool that fails, or panics,
\* answers with a result that says so.
ToolReturns ==
    /\ proc # "exited" /\ message.st = "running"
    /\ \E error \in {"none", "params", "isError"} :
          message' = [st |-> Sent("mcp"), msg |-> <<>>,
                      reply |-> Reply(message.msg, <<200, error, "">>)]
    /\ late' = late \ {"mcp"}
    /\ UNCHANGED <<process, batch, stream>>

\* serveHTTPSSE: a legacy client keeps a stream open, and never gets anything.
OpenStream ==
    /\ srv["mcp"] = "open" /\ ~stream
    /\ stream' = TRUE
    /\ UNCHANGED <<process, message, batch, late>>

-----------------------------------------------------------------------------
(* The loader: a batch of URLs, each crawled by a goroutine of its own.    *)

Page(url, size) == [url |-> url, kind |-> "page", size |-> size]
ErrorDoc(url) == [url |-> url, kind |-> "error", size |-> ErrorSize]
TooLarge(url) == [url |-> url, kind |-> "too large", size |-> ErrorSize]
Pending(url) == [url |-> url, kind |-> "pending", size |-> 0]

\* The whole batch is refused for one URL that does not parse.
Acceptable(urls) ==
    /\ urls # <<>> /\ Len(urls) <= MaxURLs
    /\ Range(urls) \cap Malformed = {}

ReceiveBatch(m, urls) ==
    /\ srv["loader"] = "open" /\ batch.st = "idle"
    /\ batch' = IF Trusted(m) /\ Authentic(m) /\ m.json = "ok" /\ Acceptable(urls)
                THEN [st |-> "running", urls |-> urls, reply |-> <<>>,
                      docs |-> [i \in DOMAIN urls |-> Pending(urls[i])]]
                ELSE [NoBatch EXCEPT !.st = "refused"]
    /\ UNCHANGED <<process, message, stream, late>>

\* Faulty: results are appended as the crawls end.
CrawledAppends(i) ==
    /\ proc # "exited" /\ batch.docs[i].kind = "pending"
    /\ LET next == CHOOSE j \in DOMAIN batch.docs : /\ batch.docs[j].kind = "pending"
                                                    /\ \A k \in 1..(j - 1) : batch.docs[k].kind # "pending"
       IN  \E n \in Sizes : batch' = [batch EXCEPT !.docs[next] = Page(batch.urls[i], n)]
    /\ UNCHANGED <<process, message, stream, late>>

\* crawlOne: the page, or an error document, for a panic too.
Crawled(i) ==
    /\ proc # "exited" /\ batch.docs[i].kind = "pending"
    /\ \E doc \in {Page(batch.urls[i], n) : n \in Sizes} \cup {ErrorDoc(batch.urls[i])} :
          batch' = [batch EXCEPT !.docs[i] = doc]
    /\ UNCHANGED <<process, message, stream, late>>

\* What is left of the cap after the first i documents, in the order of the
\* request: one that does not fit is replaced and takes nothing.
Fits(doc, left) == MaxResponse = 0 \/ doc.size <= left
Spend(docs) ==
    LET left[i \in 0..Len(docs)] ==
            IF i = 0 THEN MaxResponse
            ELSE left[i - 1] - (IF Fits(docs[i], left[i - 1]) THEN docs[i].size ELSE 0)
    IN  [i \in DOMAIN docs |-> IF Fits(docs[i], left[i - 1]) THEN docs[i] ELSE TooLarge(docs[i].url)]

AnswerBatch ==
    /\ proc # "exited" /\ batch.st = "running"
    /\ \A i \in DOMAIN batch.docs : batch.docs[i].kind # "pending"
    /\ batch' = [batch EXCEPT !.st = Sent("loader"), !.reply = Spend(batch.docs)]
    /\ late' = late \ {"loader"}
    /\ UNCHANGED <<process, message, stream>>

\* The write deadline of a response passes; a stream has none.
DeadlinePasses ==
    /\ \E s \in {"mcp", "loader"} \ late :
          /\ IF s = "mcp" THEN message.st = "running" /\ config.mode = "http" ELSE batch.st = "running"
          /\ late' = late \cup {s}
    /\ UNCHANGED <<process, message, batch, stream>>

\* Clients come back with another message or batch, or end their stream.
ClientsGoOn ==
    /\ \/ message.st \in {"answered", "lost"} /\ message' = NoMessage /\ UNCHANGED <<batch, stream>>
       \/ batch.st \in {"answered", "lost", "refused"} /\ batch' = NoBatch /\ UNCHANGED <<message, stream>>
       \/ stream /\ stream' = FALSE /\ UNCHANGED <<message, batch>>
    /\ UNCHANGED <<process, late>>

-----------------------------------------------------------------------------
(* The shutdown.                                                           *)

Signal ==
    /\ proc \in {"serving", "stdio"} /\ ~signaled
    /\ signaled' = TRUE
    /\ UNCHANGED <<config, proc, graceOver, alive, srv, requests>>

ListenerFails(s) ==
    /\ proc = "serving" /\ srv[s] = "open"
    /\ srv' = [srv EXCEPT ![s] = "failed"]
    /\ UNCHANGED <<config, proc, signaled, graceOver, alive, requests>>

\* Either ends runServers' wait; from here on the probes say so.
BeginDrain ==
    /\ proc = "serving" /\ (signaled \/ \E s \in DOMAIN srv : srv[s] = "failed")
    /\ proc' = "draining" /\ alive' = FALSE
    /\ UNCHANGED <<config, signaled, graceOver, srv, requests>>

Down(s) == srv[s] \in {"off", "closed"}
Idle(s) ==
    CASE s = "mcp" -> message.st # "running" /\ ~stream
      [] s = "loader" -> batch.st # "running"
      [] OTHER -> TRUE

\* http.Server.Shutdown, one server after the other: the listener goes at once.
CloseListener(i) ==
    /\ proc = "draining" /\ srv[Servers[i]] \in {"open", "failed"}
    /\ \A j \in 1..(i - 1) : Down(Servers[j])
    /\ srv' = [srv EXCEPT ![Servers[i]] = "closing"]
    /\ UNCHANGED <<config, proc, signaled, graceOver, alive, requests>>

\* Faulty: the server is closed, not shut down.
ShutdownReturnsAtOnce(s) ==
    /\ srv[s] = "closing"
    /\ srv' = [srv EXCEPT ![s] = "closed"]
    /\ UNCHANGED <<config, proc, signaled, graceOver, alive, requests>>

\* Faulty: no timeout on the context of the shutdown.
ShutdownReturnsIdle(s) ==
    /\ srv[s] = "closing" /\ Idle(s)
    /\ srv' = [srv EXCEPT ![s] = "closed"]
    /\ UNCHANGED <<config, proc, signaled, graceOver, alive, requests>>

\* Shutdown returns when no request is in flight, or at the end of the grace.
ShutdownReturns(s) ==
    /\ srv[s] = "closing" /\ (Idle(s) \/ graceOver)
    /\ srv' = [srv EXCEPT ![s] = "closed"]
    /\ UNCHANGED <<config, proc, signaled, graceOver, alive, requests>>

GraceEnds ==
    /\ proc = "draining" /\ ~graceOver
    /\ graceOver' = TRUE
    /\ UNCHANGED <<config, proc, signaled, alive, srv, requests>>

\* run returns nil whatever the cause, and the process takes with it what is
\* still in flight.
Exit ==
    /\ proc = "draining" /\ \A s \in DOMAIN srv : Down(s)
    /\ proc' = "exited"
    /\ message' = IF message.st = "running" THEN [NoMessage EXCEPT !.st = "cut"] ELSE message
    /\ batch' = IF batch.st = "running" THEN [NoBatch EXCEPT !.st = "cut"] ELSE batch
    /\ stream' = FALSE
    /\ UNCHANGED <<config, signaled, graceOver, alive, srv, late>>

-----------------------------------------------------------------------------
\* The goroutine of main, and those of the requests.
Main ==
    \/ Refuse \/ StartStdio \/ StartServers \/ BeginDrain \/ Exit
    \/ \E i \in DOMAIN Servers : CloseListener(i)
    \/ \E s \in DOMAIN srv : ShutdownReturns(s)
Handlers == ToolReturns \/ AnswerBatch \/ \E i \in DOMAIN batch.docs : Crawled(i)

Outside ==
    \/ \E m \in Messages : Receive(m) \/ ReadLine(m) \/ \E urls \in Batches : ReceiveBatch(m, urls)
    \/ InputEnds \/ OpenStream \/ ClientsGoOn
    \/ Signal \/ \E s \in DOMAIN srv : ListenerFails(s)

ServiceNext == Main \/ Handlers \/ Outside \/ DeadlinePasses \/ GraceEnds

\* The process goes on while it can; tools and crawls end, being bounded by the
\* timeouts of their clients; time passes.  Clients and signals promise nothing.
ServiceSpec ==
    /\ ServiceInit /\ [][ServiceNext]_serviceVars
    /\ WF_serviceVars(Main) /\ WF_serviceVars(Handlers) /\ WF_serviceVars(GraceEnds)

-----------------------------------------------------------------------------
(* Properties.                                                             *)

ServiceTypeOK ==
    /\ config \in Configs /\ signaled \in BOOLEAN /\ graceOver \in BOOLEAN /\ alive \in BOOLEAN
    /\ proc \in {"boot", "refused", "stdio", "serving", "draining", "exited"}
    /\ srv \in [Range(Servers) -> {"off", "open", "closing", "closed", "failed"}]
    /\ message.st \in {"idle", "running", "answered", "lost", "cut"}
    /\ batch.st \in {"idle", "running", "answered", "lost", "refused", "cut"}
    /\ stream \in BOOLEAN /\ late \subseteq {"mcp", "loader"}
    /\ "mcp" \in late => message.st \in {"running", "cut"}
    /\ "loader" \in late => batch.st \in {"running", "cut"}

\* Each client is served in the protocol of its era (eraOf, validateModernRequest,
\* httpStatusFor).  A tool that runs for a modern message is the one its headers
\* name, in the version they name; only modern clients ever see the errors of the
\* modern protocol; and no version is refused that the refusal itself offers.
DialectKept ==
    /\ (message.st = "running" /\ IsModern(message.msg)) =>
          /\ Version(message.msg) = Modern
          /\ config.mode = "http" =>
                /\ message.msg.mcpName \in {message.msg.name} \cup (IF message.msg.id THEN {} ELSE {""})
                /\ message.msg.header \in {Modern} \cup (IF message.msg.id THEN {} ELSE {""})
    /\ message.reply # <<>> =>
          /\ message.reply[1] = 404 \/ message.reply[2] = "mismatch" => message.reply[3] = Modern
          /\ message.reply[2] = "version" => message.reply[3] \notin Legacy \cup {Modern, ""}

\* The answer to a batch has one document per URL, in the order of the request
\* and about that URL, whatever the order the crawls ended in and whichever
\* failed (openwebui crawl); a page is left out only if it does not fit in what
\* the documents kept before it leave, and those kept are within the cap.
BatchInOrder ==
    batch.st \in {"answered", "lost"} =>
        LET kept == {i \in DOMAIN batch.reply : batch.reply[i].kind # "too large"}
            spent[n \in 0..Len(batch.reply)] ==     \* by those kept of the first n
                IF n = 0 THEN 0 ELSE spent[n - 1] + (IF n \in kept THEN batch.reply[n].size ELSE 0)
        IN  /\ Len(batch.reply) = Len(batch.urls)
            /\ \A i \in DOMAIN batch.urls :
                  /\ batch.reply[i].url = batch.urls[i]
                  /\ IF i \in kept THEN batch.reply[i] = batch.docs[i]
                     ELSE batch.docs[i].size + spent[i - 1] > MaxResponse
            /\ MaxResponse > 0 => spent[Len(batch.reply)] <= MaxResponse

\* A drain loses nothing that ends within the grace (runServers): a request in
\* flight is cut only when the grace has run out; and probes are told before any
\* listener goes, by a server that outlives the ones they are about.
Drained ==
    /\ ServiceTypeOK
    /\ "cut" \in {message.st, batch.st} => graceOver
    /\ (\E s \in DOMAIN srv : srv[s] \in {"closing", "closed"}) => ~alive
    /\ srv["observability"] \in {"closing", "closed"} => Down("mcp") /\ Down("loader")

\* A signal, or a listener that fails, ends the process (runServers), though a
\* client keeps an event stream open for ever.
Stops ==
    (proc \in {"serving", "draining"} /\ (signaled \/ \E s \in DOMAIN srv : srv[s] = "failed"))
        ~> proc = "exited"
=============================================================================
