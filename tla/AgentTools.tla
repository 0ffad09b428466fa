----------------------------- MODULE AgentTools -----------------------------
(***************************************************************************)
(* From a line an agent writes to the MCP server to what the daemon does:  *)
(* the JSON-RPC loop and the tool table of hiveguard_mcp.py, its three     *)
(* transports, hg_agent_proxy.py on the server's side of ssh, and the      *)
(* router and the token check of the ui.rest plugin.  Four programs keep a *)
(* table of their own of what may be read; the properties are about their  *)
(* agreement.                                                              *)
(***************************************************************************)
EXTENDS Integers, Sequences, FiniteSets, SequencesExt

CONSTANTS Lines,     \* the lines the agent may write: sequences of messages
          MaxLines,  \* bound on the lines of a session
          MaxChunks, MaxEvents, MaxBytes \* bounds of a stream sample

-----------------------------------------------------------------------------
(* The ui.rest plugin.                                                     *)

READ_ONLY_POSTS ==
  {"/api/agent/logs/query", "/api/agent/logs/stats", "/api/agent/ip", "/api/agent/config/validate"}
READ_DENIED_GETS == {"/api/fail2ban/preview"}

AgentGets ==
  {"/api/agent/overview", "/api/agent/bans", "/api/agent/threats", "/api/agent/logs/sources",
   "/api/agent/journal", "/api/agent/detectors", "/api/agent/catalog", "/api/agent/config"}
agent_routes == ({"GET"} \X AgentGets) \union ({"POST"} \X READ_ONLY_POSTS)

\* The routes that change something.
Mutating ==
  ({"POST"} \X {"/api/bans", "/api/whitelist", "/api/bots/{name}/policy", "/api/fail2ban/import",
                "/api/sigma/rules"})
    \union ({"PUT"} \X {"/api/config", "/api/config/detectors"})
    \union ({"DELETE"} \X {"/api/bans/{cidr}", "/api/whitelist/{cidr}", "/api/sigma/rules/{id}"})
OperatorGets ==
  {"/api/info", "/api/stats", "/api/bans", "/api/whitelist", "/api/peers", "/api/bots", "/api/config",
   "/api/config/detectors", "/api/fail2ban/preview", "/api/sigma/rules", "/api/sigma/rules/{id}",
   "/api/sigma/stats", "/api/threats", "/api/plugins"}
Public == {"GET"} \X {"/api/health", "/metrics"}
Stream == <<"GET", "/api/agent/stream">>
Routes == agent_routes \union Mutating \union ({"GET"} \X OperatorGets) \union Public \union {Stream}

\* May the read-only token call it?
read_token_allows(r) ==
  IF r[1] = "GET" THEN r[2] \notin READ_DENIED_GETS
  ELSE r[1] = "POST" /\ r[2] \in READ_ONLY_POSTS

\* require_auth in front of the router (the stream checks its own header).
require_auth(r, token) ==
  CASE r \in Public -> 200
    [] r \notin Routes -> 404
    [] token = "none" -> 401
    [] token = "read" /\ ~read_token_allows(r) -> 403
    [] OTHER -> 200

-----------------------------------------------------------------------------
(* hg_agent_proxy.py.                                                      *)

READ_POSTS_logs == {"/api/agent/logs/query", "/api/agent/logs/stats", "/api/agent/config/validate"}
READ_POSTS ==
  {"/api/agent/logs/query", "/api/agent/logs/stats", "/api/agent/ip", "/api/agent/config/validate"}
\* The paths under /api/agent/.
AgentPath(p) == p \in AgentGets \union READ_ONLY_POSTS \union {Stream[2]}

\* validate_request: 0 when the request may be forwarded.
validate_request(r) ==
  IF r[1] \notin {"GET", "POST"} \/ ~AgentPath(r[2]) THEN 403
  ELSE IF r[1] = "POST" /\ r[2] \notin READ_POSTS THEN 403
  ELSE 0

\* run: the token is the proxy's own, read for every request; the answer
\* says what the daemon said, or what was refused.
proxy_run(r, token) ==
  IF validate_request(r) # 0 THEN validate_request(r)
  ELSE IF token = "none" THEN 500
  ELSE require_auth(r, token)

-----------------------------------------------------------------------------
(* hiveguard_mcp.py: transports.                                           *)

AGENT_READ_POSTS ==
  {"/api/agent/logs/query", "/api/agent/logs/stats", "/api/agent/ip", "/api/agent/config/validate"}

\* ProxyTransport.check_allowed.
check_allowed(r) == AgentPath(r[2]) /\ (r[1] = "GET" \/ (r[1] = "POST" /\ r[2] \in AGENT_READ_POSTS))

\* A request through a transport: the requests that reach the daemon, and
\* the status; 0 is an ApiError without one (no token, check_allowed).
Sent(reach, status) == [reach |-> reach, status |-> status]
request(cfg, r, auth) ==
  CASE cfg.mode = "proxy" ->
         IF ~check_allowed(r) THEN Sent({}, 0)
         ELSE Sent(IF validate_request(r) = 0 /\ cfg.token # "none" THEN {r} ELSE {},
                   proxy_run(r, cfg.token))
    [] cfg.mode # "proxy" /\ auth /\ cfg.token = "none" -> Sent({}, 0)
    [] OTHER -> Sent({r}, require_auth(r, IF auth THEN cfg.token ELSE "none"))

-----------------------------------------------------------------------------
(* Tools.                                                                  *)

Get(p) == <<"GET", p>>
AgentOnly(cfg) == cfg.mode = "proxy"

\* The tools whose handler makes one request whatever the mode.
SimpleTools ==
  [hg_overview        |-> Get("/api/agent/overview"),
   hg_bans            |-> Get("/api/agent/bans"),
   hg_threats         |-> Get("/api/agent/threats"),
   hg_log_sources     |-> Get("/api/agent/logs/sources"),
   hg_log_query       |-> <<"POST", "/api/agent/logs/query">>,
   hg_log_stats       |-> <<"POST", "/api/agent/logs/stats">>,
   hg_ip              |-> <<"POST", "/api/agent/ip">>,
   hg_journal         |-> Get("/api/agent/journal"),
   hg_detectors       |-> Get("/api/agent/detectors"),
   hg_catalog         |-> Get("/api/agent/catalog"),
   hg_config_validate |-> <<"POST", "/api/agent/config/validate">>,
   hg_stream_sample   |-> Stream,
   hg_ban             |-> <<"POST", "/api/bans">>,
   hg_unban           |-> <<"DELETE", "/api/bans/{cidr}">>,
   hg_whitelist_add   |-> <<"POST", "/api/whitelist">>,
   hg_whitelist_remove |-> <<"DELETE", "/api/whitelist/{cidr}">>,
   hg_config_put      |-> <<"PUT", "/api/config">>]

WriteTools == {"hg_ban", "hg_unban", "hg_whitelist_add", "hg_whitelist_remove", "hg_config_put"}
ModalTools == {"hg_health", "hg_plugins", "hg_whitelist", "hg_config_get", "hg_metrics"}
TOOLS == DOMAIN SimpleTools \union ModalTools
read_only(t) == t \notin WriteTools

Ended(reach, ok, status) == [reach |-> reach, ok |-> ok, status |-> status]
One(cfg, r, auth) ==
  LET s == request(cfg, r, auth) IN Ended(s.reach, s.status = 200, s.status)

\* h_health: in proxy mode the overview; otherwise the public endpoint, and
\* with a token in reach /api/info, whose failure is only noted.
h_health(cfg) ==
  IF AgentOnly(cfg) THEN One(cfg, Get("/api/agent/overview"), TRUE)
  ELSE LET h == One(cfg, Get("/api/health"), FALSE)
       IN  IF h.ok /\ (cfg.mode = "curl" \/ cfg.token # "none")
           THEN Ended(h.reach \union request(cfg, Get("/api/info"), TRUE).reach, TRUE, 200) ELSE h

h_plugins(cfg) ==
  One(cfg, IF AgentOnly(cfg) THEN Get("/api/agent/overview") ELSE Get("/api/plugins"), TRUE)

h_whitelist(cfg) ==
  IF AgentOnly(cfg) THEN Ended({}, FALSE, 0) ELSE One(cfg, Get("/api/whitelist"), TRUE)

h_metrics(cfg) ==
  IF AgentOnly(cfg) THEN Ended({}, FALSE, 0) ELSE One(cfg, Get("/metrics"), FALSE)

\* h_config_get: the operator's endpoint, then the agent's if that was
\* refused or missing.
h_config_get(cfg) ==
  IF AgentOnly(cfg) THEN One(cfg, Get("/api/agent/config"), TRUE)
  ELSE LET first == One(cfg, Get("/api/config"), TRUE)
           second == One(cfg, Get("/api/agent/config"), TRUE)
       IN  IF first.ok \/ first.status \notin {403, 404} THEN first
           ELSE Ended(first.reach \union second.reach, second.ok,
                      IF second.ok THEN 200 ELSE first.status)

handler(cfg, t) ==
  CASE t \in DOMAIN SimpleTools -> One(cfg, SimpleTools[t], TRUE)
    [] t = "hg_health" -> h_health(cfg)
    [] t = "hg_plugins" -> h_plugins(cfg)
    [] t = "hg_whitelist" -> h_whitelist(cfg)
    [] t = "hg_config_get" -> h_config_get(cfg)
    [] t = "hg_metrics" -> h_metrics(cfg)

\* m_tools_call: the write gate, the arguments, the handler; whatever fails
\* in it is a result marked isError.
m_tools_call_ungated(cfg, t, args_ok) == IF args_ok THEN handler(cfg, t) ELSE Ended({}, FALSE, 0)
m_tools_call(cfg, t, args_ok) ==
  IF ~read_only(t) /\ ~cfg.allow_write THEN Ended({}, FALSE, 0)
  ELSE IF ~args_ok THEN Ended({}, FALSE, 0)
  ELSE handler(cfg, t)

-----------------------------------------------------------------------------
(* The JSON-RPC loop.                                                      *)

\* A message: its kind ("object", or "other": not an object), whether it has
\* an id, its method ("" when it has none), whether it is an answer, and for
\* tools/call the tool and whether its arguments fit the schema.
Message == [kind : {"object", "other"}, id : 0..3, method : STRING, answer : BOOLEAN,
            params : BOOLEAN, tool : STRING, args : BOOLEAN]

VARIABLES cfg,    \* mode, allow_write, token, fixed when the server starts
          inbox,  \* lines not read yet
          outbox, \* lines written: answers, or lists of answers
          read,   \* history: lines read
          done,   \* history: what reached the daemon, by which tool
          initialized

agent_vars == <<cfg, inbox, outbox, read, done, initialized>>

Methods == {"initialize", "ping", "tools/list", "prompts/list", "resources/list",
            "resources/templates/list", "logging/setLevel"}
Notifications == {"notifications/initialized", "notifications/cancelled"}

Answer(id, what) == [id |-> id, what |-> what]
NoAnswer == <<>>

\* dispatch: at most one answer, none for a notification.
dispatch(m) ==
  IF m.kind = "other" THEN <<Answer(0, "invalid")>>
  ELSE IF m.method = "" THEN
    IF m.answer \/ m.id = 0 THEN NoAnswer ELSE <<Answer(m.id, "invalid")>>
  ELSE IF m.id = 0 THEN NoAnswer
  ELSE IF ~m.params THEN <<Answer(m.id, "error")>>
  ELSE IF m.method \in Methods \union Notifications THEN <<Answer(m.id, "result")>>
  ELSE IF m.method = "tools/call" /\ m.tool \in TOOLS THEN <<Answer(m.id, "result")>>
  ELSE <<Answer(m.id, "error")>>

\* A tool runs whether or not its call wants an answer.
Runs(m) == m.kind = "object" /\ m.method = "tools/call" /\ m.params /\ m.tool \in TOOLS
Effect(m) ==
  IF ~Runs(m) THEN {}
  ELSE {[tool |-> m.tool, req |-> r, write |-> cfg.allow_write, status |-> require_auth(r, cfg.token)]
          : r \in m_tools_call(cfg, m.tool, m.args).reach}

\* handle_line: a line is blank, unreadable, one message, or a batch.
handle_line_first(line) == IF line.msgs = <<>> THEN NoAnswer ELSE dispatch(line.msgs[1])
handle_line(line) ==
  CASE line.form = "blank" -> NoAnswer
    [] line.form = "garbage" -> <<Answer(0, "invalid")>>
    [] line.form = "batch" /\ line.msgs = <<>> -> <<Answer(0, "invalid")>>
    [] OTHER -> FlattenSeq([n \in DOMAIN line.msgs |-> dispatch(line.msgs[n])])

AgentInit ==
  /\ cfg \in [mode : {"http", "curl", "proxy"}, allow_write : BOOLEAN, token : {"none", "read", "admin"}]
  /\ inbox = <<>> /\ outbox = <<>> /\ read = <<>> /\ done = {} /\ initialized = FALSE

\* The agent writes a line.
write_line(line) ==
  /\ Len(inbox) + Len(read) < MaxLines
  /\ inbox' = Append(inbox, line)
  /\ UNCHANGED <<cfg, outbox, read, done, initialized>>

\* serve: one line is read, handled to its end and answered by at most one
\* line before the next is read.
serve ==
  /\ inbox # <<>>
  /\ LET line == Head(inbox) answers == handle_line(line)
     IN  /\ outbox' = IF answers = <<>> THEN outbox ELSE Append(outbox, answers)
         /\ done' = done \union UNION {Effect(line.msgs[n]) : n \in DOMAIN line.msgs}
         /\ initialized' = (initialized \/ \E n \in DOMAIN line.msgs :
              line.msgs[n].method = "notifications/initialized" /\ line.msgs[n].params)
         /\ read' = Append(read, line)
  /\ inbox' = Tail(inbox) /\ UNCHANGED cfg

AgentNext == serve \/ \E l \in Lines : write_line(l)

-----------------------------------------------------------------------------
(* A stream sample: HttpTransport.stream, and the proxy's copy of it.      *)

\* What the daemon sent: events of a length in bytes, cut into chunks at
\* any byte.  An event is complete once its blank line has been read.
VARIABLES sent,   \* the lengths of the events, in order
          cuts,   \* bytes read so far
          sample  \* at: "reading" or "done"; events; truncated; partial
sample_vars == <<sent, cuts, sample>>

Upto(s, n) == FoldLeft(LAMBDA a, b : a + b, 0, SubSeq(s, 1, n))
\* SseParser.feed: the events complete in the first b bytes.
complete(s, b) == Cardinality({n \in DOMAIN s : Upto(s, n) <= b})
\* SseParser.finish: what is left of an event is made an event too.
finish(s, b) == IF b \in {Upto(s, n) : n \in 0..Len(s)} THEN 0 ELSE 1

SampleInit ==
  /\ sent \in UNION {[1..n -> 1..2] : n \in 0..MaxEvents + 1} /\ cuts = 0
  /\ sample = [at |-> "reading", events |-> 0, truncated |-> FALSE, partial |-> FALSE]

\* One chunk; the bounds are looked at after it.
read_chunk(b) ==
  /\ sample.at = "reading" /\ cuts + b <= Upto(sent, Len(sent))
  /\ cuts' = cuts + b
  /\ LET got == complete(sent, cuts')
         over == got >= MaxEvents \/ cuts' >= MaxBytes
     IN  sample' = [sample EXCEPT !.events = got, !.truncated = over,
                                  !.at = IF over THEN "cut" ELSE @]
  /\ UNCHANGED sent

\* The deadline, a read error, the end of the stream, or a bound.
end_sample_silent ==
  /\ sample.at \in {"reading", "cut"}
  /\ sample' = [sample EXCEPT !.at = "done",
                              !.events = IF @ > MaxEvents THEN MaxEvents ELSE @, !.truncated = FALSE]
  /\ UNCHANGED <<sent, cuts>>
end_sample ==
  /\ sample.at \in {"reading", "cut"}
  /\ LET rest == IF sample.truncated THEN 0 ELSE finish(sent, cuts)
         all == sample.events + rest
     IN  sample' = [at |-> "done", events |-> IF all > MaxEvents THEN MaxEvents ELSE all,
                    truncated |-> sample.truncated \/ all > MaxEvents,
                    partial |-> rest = 1 /\ all <= MaxEvents]
  /\ UNCHANGED <<sent, cuts>>

SampleNext == end_sample \/ \E b \in 1..MaxChunks : read_chunk(b)

-----------------------------------------------------------------------------
(* Properties.                                                             *)

Requests(line) ==
  IF line.form \in {"blank", "garbage"} \/ line.msgs = <<>> THEN <<>>
  ELSE SelectSeq(line.msgs, LAMBDA m : m.kind = "object" /\ m.method # "" /\ m.id # 0)

\* Every request of every line read is answered exactly once, with its id,
\* in the order of the requests; a notification never is (dispatch,
\* handle_line, serve).
AnsweredOnce ==
  LET asked == FlattenSeq([n \in DOMAIN read |-> Requests(read[n])])
      answered == SelectSeq(FlattenSeq(outbox), LAMBDA a : a.id # 0 /\ a.what # "invalid")
  IN  [n \in DOMAIN asked |-> asked[n].id] = [n \in DOMAIN answered |-> answered[n].id]

\* Whatever an agent writes, a mutating endpoint is reached only by a tool
\* listed as writing, with writes switched on, not through the proxy, and
\* does its work only for the admin token: four tables in four places
\* (TOOLS, HG_MCP_ALLOW_WRITE, READ_POSTS, READ_ONLY_POSTS) agree.
WritesGranted ==
  \A d \in done : d.req \in Mutating =>
    /\ d.tool \in WriteTools /\ d.write /\ cfg.mode # "proxy"
    /\ d.status = 200 => cfg.token = "admin"

\* A read tool works in every mode with the read token as with the admin
\* token: no table refuses what the tool needs.  Through the proxy two
\* tools say that they are not available, and ask nothing.
ReadToolsServed ==
  \A t \in TOOLS : (read_only(t) /\ cfg.token # "none") =>
    LET e == handler(cfg, t)
    IN  IF AgentOnly(cfg) /\ t \in {"hg_whitelist", "hg_metrics"} THEN e.reach = {} ELSE e.ok

\* A sample never shows more than was asked for, shows the events in order
\* from the first one, and when it shows fewer complete events than it
\* read, it says that it was cut.
SampleHonest ==
  sample.at = "done" =>
    /\ sample.events <= MaxEvents
    /\ sample.events < complete(sent, cuts) + (IF sample.partial THEN 1 ELSE 0) => sample.truncated
=============================================================================
