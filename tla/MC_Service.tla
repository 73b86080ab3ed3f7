----------------------------- MODULE MC_Service -----------------------------
(* Messages that differ in one field from a modern or a legacy call, from a   *)
(* modern notification, or from a ping.                                       *)
EXTENDS Service

Config(mode, key, noAuth, redis, search) ==
    [mode |-> mode, key |-> key, noAuth |-> noAuth, redis |-> redis, redditMethods |-> TRUE,
     search |-> search, listen |-> Range(Servers)]
MCConfigs ==
    {Config("http", TRUE, FALSE, "down", TRUE), Config("http", FALSE, FALSE, "unset", TRUE),
     Config("stdio", FALSE, FALSE, "unset", TRUE), Config("http", TRUE, FALSE, "malformed", TRUE),
     [Config("http", FALSE, TRUE, "up", TRUE) EXCEPT !.listen = {"mcp"}],
     [Config("stdio", FALSE, FALSE, "up", FALSE) EXCEPT !.redditMethods = FALSE]}

LegacyCall ==
    [origin |-> "native", bearer |-> TRUE, json |-> "ok", id |-> TRUE, header |-> "", meta |-> "",
     method |-> "tools/call", name |-> "fetch_url", mcpMethod |-> "", mcpName |-> ""]
ModernCall == [LegacyCall EXCEPT !.header = Modern, !.meta = Modern, !.mcpMethod = "tools/call", !.mcpName = "fetch_url"]

Versions == {"", "2025-06-18", Modern, "2027-01-01"}
Values ==
    [origin |-> {"native", "foreign"}, bearer |-> BOOLEAN, json |-> {"ok", "parse", "invalid"}, id |-> BOOLEAN,
     header |-> Versions, meta |-> Versions, method |-> {"tools/call", "ping", "bogus"},
     name |-> {"fetch_url", "bogus"}, mcpMethod |-> {"", "tools/call", "tools/list"},
     mcpName |-> {"", "fetch_url", "web_search"}]
Near(m) == {m} \cup UNION {{[m EXCEPT ![f] = v] : v \in Values[f]} : f \in DOMAIN Values}
MCMessages ==
    UNION {Near(m) : m \in {LegacyCall, [LegacyCall EXCEPT !.method = "ping"],
                            ModernCall, [ModernCall EXCEPT !.id = FALSE]}}

MCBatches == {<<>>, <<"u", "v">>, <<"u", "bad">>, <<"u", "v", "u">>}
=============================================================================
