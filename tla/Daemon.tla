------------------------------- MODULE Daemon -------------------------------
(***************************************************************************)
(* The life of the daemon process (daemon/main.rs run_daemon).             *)
(*   Boot: the document of config.yaml is loaded and checked, its plugins  *)
(*     are resolved and made (host/loader.rs), the firewall is set up.     *)
(*     The same document may have been checked before by the API           *)
(*     (agent_api.rs), which must not read a secret.                       *)
(*   Life: the tasks of a daemon that is up, the supervisor of its log     *)
(*     sources, the signal, the orderly stop.                              *)
(***************************************************************************)
EXTENDS Integers, Sequences, SequencesExt, FiniteSets

CONSTANTS Documents,   \* what config.yaml may hold, see Document
          Sources,     \* the log sources of a daemon that is up
          MaxEvents,   \* events read from the sources
          MaxExits     \* how often the run of one source returns

Kinds == {"log_source", "notifier", "enforcer", "cti", "sink", "detector", "scoring", "ui"}

\* An entry of plugins: as the registry, the environment and the plugin's
\* schema see it.  secret: the placeholder in its config, if any - in place
\* (present, or at a path PUT does not allow), absent, or malformed.
\* fault: where the config breaks the schema - nowhere, in a field of its own,
\* in the placeholder's field once it is replaced by its value, or in an
\* enclosing object as long as the placeholder is not replaced.
Entry == [kind : Kinds, id : Nat, linked : BOOLEAN, optional : BOOLEAN, api : BOOLEAN,
          secret : {"none", "present", "elsewhere", "absent", "malformed"},
          fault : {"none", "own", "value", "enclosing"}]

\* bots, prefixes, ...: what validate looks at, in its order.
Settings == [bots : BOOLEAN, prefix : 0 .. 129, ttl : Nat, data_dir : BOOLEAN,
             whitelist : BOOLEAN, threshold : Nat, ban_duration : Nat \cup {-1},
             backend : {"nftables", "ipset", "observe_only", "cloudflare"}]

Permanent == -1

VARIABLES doc,         \* the document
          gone,        \* a secret was there when the document was checked and is not now
          boot,        \* how far the start is, or why it ended
          loaded,      \* LoadedPlugins: the entries made so far, in order
          chosen       \* the enforcer and the scoring engine in use

boot_vars == <<doc, gone, boot, loaded, chosen>>

BootInit ==
  /\ doc \in Documents /\ gone \in BOOLEAN
  /\ boot = "load" /\ loaded = <<>> /\ chosen = <<>>

-----------------------------------------------------------------------------
(* What is checked about a document, and when.                             *)

check_threshold(n) == n # 0

check_ban_duration(d) == d = Permanent \/ d # 0

\* HiveGuardConfig::validate
validate(s) ==
  /\ s.bots
  /\ s.prefix <= 128
  /\ s.ttl # 0
  /\ s.data_dir
  /\ s.whitelist
  /\ check_threshold(s.threshold)
  /\ check_ban_duration(s.ban_duration)
  /\ s.backend \in {"nftables", "ipset", "observe_only"}

\* HiveGuardConfig::load
load_ok(d) == d.parses /\ validate(d.settings)

skipped(e) == ~ e.linked /\ e.optional

\* parse_placeholders: the syntax only.
parse_placeholders(e) == e.secret # "malformed"

\* schema_violations of the config as written, but those at a placeholder.
violations(e) == {e.fault} \cap {"own", "enclosing"}

\* Loader::check_unresolved of one entry.
entry_unversioned(e) == skipped(e) \/ (e.linked /\ parse_placeholders(e) /\ violations(e) = {})
entry_checked(e) ==
  skipped(e) \/ (e.linked /\ e.api /\ parse_placeholders(e) /\ violations(e) = {})

check_unresolved(d) == \A i \in DOMAIN d.plugins : entry_checked(d.plugins[i])

check_config_document(d) == d.parses /\ validate(d.settings) /\ check_unresolved(d)

\* placeholder_policy: put_errors is empty.
placeholder_policy(d) == \A i \in DOMAIN d.plugins :
                           skipped(d.plugins[i]) \/ d.plugins[i].secret \in {"none", "present"}

has(d, kind) == \E i \in DOMAIN d.plugins : d.plugins[i].kind = kind

linked_or_optional(d) == \A i \in DOMAIN d.plugins : d.plugins[i].linked \/ d.plugins[i].optional

\* POST /api/agent/config/validate answers valid.
validate_config(d) ==
  /\ ~ d.marker /\ d.parses
  /\ d.plugins # <<>> /\ has(d, "enforcer") /\ has(d, "scoring")
  /\ linked_or_optional(d)
  /\ check_config_document(d)

\* SecretResolver::resolve
secret_found(e) == \/ e.secret \in {"none", "elsewhere"}
                   \/ e.secret = "present" /\ ~ gone

\* Loader::resolve_one: "skip", "ok", or the error.
resolve_one(e) ==
  IF skipped(e)                       THEN "skip"
  ELSE IF ~ e.linked                  THEN "failed: unknown plugin"
  ELSE IF ~ e.api                     THEN "failed: api version"
  ELSE IF ~ secret_found(e)           THEN "failed: secret"
  ELSE IF e.fault \in {"own", "value"} THEN "failed: schema"
  ELSE "ok"

Refused(d) == {i \in DOMAIN d.plugins : resolve_one(d.plugins[i]) \notin {"ok", "skip"}}

Resolved(d) == SelectSeq(d.plugins, LAMBDA e : resolve_one(e) = "ok")

resolve(d) == IF Refused(d) = {} THEN "ok"
              ELSE resolve_one(d.plugins[CHOOSE i \in Refused(d) : \A j \in Refused(d) : i <= j])

-----------------------------------------------------------------------------
(* The start, one action per step of run_daemon.  Any failure ends the     *)
(* process; what was made before is dropped with it.                       *)

Ended(why) == boot' = why /\ UNCHANGED <<doc, gone, loaded, chosen>>

load == /\ boot = "load"
        /\ Ended(IF load_ok(doc) THEN "state" ELSE "failed: config")

recover_state == boot = "state" /\ \E next \in {"resolve", "failed: state"} : Ended(next)

\* load_categorized resolves every entry before it makes the first plugin.
resolve_all == /\ boot = "resolve"
               /\ Ended(IF resolve(doc) = "ok" THEN "make" ELSE resolve(doc))

\* build_context and instantiate_into
instantiate == /\ boot = "make" /\ Len(loaded) < Len(Resolved(doc))
               /\ \/ /\ loaded' = Append(loaded, Resolved(doc)[Len(loaded) + 1])
                     /\ UNCHANGED <<doc, gone, boot, chosen>>
                  \/ /\ boot' = "failed: init" /\ loaded' = <<>>
                     /\ UNCHANGED <<doc, gone, chosen>>

OfKind(kind) == SelectSeq(loaded, LAMBDA e : e.kind = kind)

\* The first enforcer wins.
pick_enforcer ==
  /\ boot = "make" /\ Len(loaded) = Len(Resolved(doc))
  /\ IF OfKind("enforcer") = <<>> THEN Ended("failed: no enforcer")
     ELSE /\ chosen' = <<OfKind("enforcer")[1]>> /\ boot' = "setup"
          /\ UNCHANGED <<doc, gone, loaded>>

\* enforcer.setup, then init_whitelist_and_sync
setup == boot = "setup" /\ \E next \in {"sync", "failed: setup"} : Ended(next)

sync_firewall == boot = "sync" /\ \E next \in {"score", "failed: sync"} : Ended(next)

\* The last scoring engine wins (scoring_engines.pop()).
pick_scoring ==
  /\ boot = "score"
  /\ IF OfKind("scoring") = <<>> THEN Ended("failed: no scoring")
     ELSE /\ chosen' = Append(chosen, Last(OfKind("scoring"))) /\ boot' = "up"
          /\ UNCHANGED <<doc, gone, loaded>>

BootNext == \/ load \/ recover_state \/ resolve_all \/ instantiate
            \/ pick_enforcer \/ setup \/ sync_firewall \/ pick_scoring

-----------------------------------------------------------------------------
(* The checks of the API against the start.                                *)

FromOutside == {"failed: state", "failed: init", "failed: setup", "failed: sync"}
Missing(kind) == \A i \in DOMAIN doc.plugins : doc.plugins[i].kind = kind => skipped(doc.plugins[i])

\* A document the API calls valid is not refused at the next start for what
\* the API could see: the start fails only where the outside does (state,
\* plugin, firewall), for a secret, for the value of a secret, or because
\* the only enforcer or scoring engine named is optional and not linked.
ValidStarts ==
  validate_config(doc) =>
    \/ boot \in {"load", "state", "resolve", "make", "setup", "sync", "score", "up"} \cup FromOutside
    \/ boot = "failed: secret" /\ (gone \/ ~ placeholder_policy(doc))
    \/ boot = "failed: schema" /\ \E i \in DOMAIN doc.plugins : doc.plugins[i].fault = "value"
    \/ boot = "failed: no enforcer" /\ Missing("enforcer")
    \/ boot = "failed: no scoring" /\ Missing("scoring")

\* A daemon that is up has every plugin of its document that is linked, in
\* the order of the document, each checked against its schema with its
\* secrets in place; of several enforcers the first is in use and of several
\* scoring engines the last.
UpComplete ==
  boot = "up" =>
    /\ load_ok(doc)
    /\ loaded = SelectSeq(doc.plugins, LAMBDA e : ~ skipped(e))
    /\ \A i \in DOMAIN loaded : secret_found(loaded[i]) /\ loaded[i].fault \in {"none", "enclosing"}
    /\ Len(chosen) = 2
    /\ \E i \in DOMAIN loaded :
         chosen[1] = loaded[i] /\ \A j \in 1 .. i - 1 : loaded[j].kind # "enforcer"
    /\ \E i \in DOMAIN loaded :
         chosen[2] = loaded[i] /\ \A j \in i + 1 .. Len(loaded) : loaded[j].kind # "scoring"

-----------------------------------------------------------------------------
(* A daemon that is up.  The queue holds the events the sources sent; the  *)
(* pipeline takes them one by one and may change the state.                *)

VARIABLES signal,      \* watch channel of the shutdown: a signal came
          main,        \* where run_daemon is
          src,         \* [Sources -> [pc, delay]] the supervisor of each source
          exits,       \* [Sources -> how often its run returned]
          queue,       \* events in the channel
          input,       \* the receiving end of the channel is open
          read,        \* events the sources sent so far
          background,  \* snapshot_task
          dirty,       \* state that no snapshot holds
          late         \* waits of main that timed out

life_vars == <<signal, main, src, exits, queue, input, read, background, dirty, late>>

MaxDelay == 30

LifeInit ==
  /\ signal = FALSE /\ main = "up"
  /\ src = [s \in Sources |-> [pc |-> "start", delay |-> 1]]
  /\ exits = [s \in Sources |-> 0]
  /\ queue = 0 /\ input = TRUE /\ read = 0
  /\ background = "running" /\ dirty = FALSE /\ late = {}

Stopping(s) == signal \/ ~ input

SetSrc(s, pc) == src' = [src EXCEPT ![s].pc = pc]

\* The loop condition of spawn_log_source_monitored.
source_starts_anyway(s) ==
  /\ main # "gone" /\ src[s].pc = "start" /\ SetSrc(s, "running")
  /\ UNCHANGED <<signal, main, exits, queue, input, read, background, dirty, late>>
source_starts(s) ==
  /\ main # "gone" /\ src[s].pc = "start"
  /\ SetSrc(s, IF Stopping(s) THEN "stopped" ELSE "running")
  /\ UNCHANGED <<signal, main, exits, queue, input, read, background, dirty, late>>

\* The source reads an event and sends it.
emit(s) == /\ main # "gone" /\ src[s].pc = "running" /\ input /\ read < MaxEvents
           /\ queue' = queue + 1 /\ read' = read + 1
           /\ UNCHANGED <<signal, main, src, exits, input, background, dirty, late>>

\* plugin.run returns, fails or panics; long: it ran for a minute or more.
\* A source asked to stop returns too, one that does not listen may not.
source_returns(s, long) ==
  /\ main # "gone" /\ src[s].pc = "running"
  /\ IF Stopping(s) THEN SetSrc(s, "stopped") /\ UNCHANGED exits
     ELSE /\ exits[s] < MaxExits
          /\ exits' = [exits EXCEPT ![s] = @ + 1]
          /\ src' = [src EXCEPT ![s] = [pc |-> "waits", delay |-> IF long THEN 1 ELSE @.delay]]
  /\ UNCHANGED <<signal, main, queue, input, read, background, dirty, late>>

backoff(d) == IF 2 * d < MaxDelay THEN 2 * d ELSE MaxDelay

\* The select after an exit: stop, or the delay is over.
source_waited(s) ==
  /\ main # "gone" /\ src[s].pc = "waits"
  /\ \/ Stopping(s) /\ SetSrc(s, "stopped")
     \/ src' = [src EXCEPT ![s] = [pc |-> "start", delay |-> backoff(@.delay)]]
  /\ UNCHANGED <<signal, main, exits, queue, input, read, background, dirty, late>>

\* The pipeline handles an event, before the stop and while it drains.
process == /\ main \in {"up", "drain"} /\ queue > 0
           /\ queue' = queue - 1
           /\ dirty' \in {dirty, TRUE}
           /\ UNCHANGED <<signal, main, src, exits, input, read, background, late>>

\* SIGTERM or Ctrl+C
terminated == /\ ~ signal /\ signal' = TRUE
              /\ UNCHANGED <<main, src, exits, queue, input, read, background, dirty, late>>

\* snapshot_task: on its timer, and once more when it is told to stop.
snapshot_task ==
  /\ main # "gone" /\ background = "running"
  /\ dirty' \in {FALSE, dirty}
  /\ background' = IF signal THEN "stopped" ELSE background
  /\ UNCHANGED <<signal, main, src, exits, queue, input, read, late>>

\* The select of run_daemon: pipeline.close_input()
close_input == /\ main = "up" /\ signal
               /\ main' = "drain" /\ input' = FALSE
               /\ UNCHANGED <<signal, src, exits, queue, read, background, dirty, late>>

Goes(next) == main' = next /\ UNCHANGED <<signal, src, exits, queue, input, read, background, dirty>>

\* pipeline.run returns on the closed and empty channel, or the wait ends;
\* the event in hand when the signal came may be cut short (see Pipeline).
drained_early == main = "drain" /\ Goes("join") /\ UNCHANGED late
drained == /\ main = "drain"
           /\ \/ queue = 0 /\ UNCHANGED late
              \/ queue > 0 /\ late' = late \cup {"drain"}
           /\ Goes("join")

\* Every source and task is waited for, a few seconds each.
join_patient == /\ main = "join" /\ \A s \in Sources : src[s].pc = "stopped"
                /\ Goes("final") /\ UNCHANGED late
join == /\ main = "join"
        /\ LET behind == {s \in Sources : src[s].pc # "stopped"}
                           \cup {t \in {"snapshot_task"} : background # "stopped"}
           IN late' = late \cup behind
        /\ Goes("final")

\* take_snapshot and flush_wal; a failure is logged.
final_snapshot == /\ main = "final"
                  /\ main' = "gone" /\ dirty' \in {FALSE, dirty}
                  /\ late' = IF dirty' THEN late \cup {"snapshot"} ELSE late
                  /\ UNCHANGED <<signal, src, exits, queue, input, read, background>>

Stop == close_input \/ drained \/ join \/ final_snapshot

supervise(s) == source_starts(s) \/ source_waited(s)

LifeNext ==
  \/ \E s \in Sources : supervise(s) \/ emit(s) \/ \E long \in BOOLEAN : source_returns(s, long)
  \/ process \/ terminated \/ snapshot_task \/ Stop

\* When the daemon is gone nothing it was told is left behind unless a wait
\* ran out: the queue was worked off, the state is in the snapshot.
StopClean ==
  main = "gone" => /\ queue = 0 \/ "drain" \in late
                   /\ ~ dirty \/ "snapshot" \in late
                   /\ \A s \in Sources : src[s].pc = "stopped" \/ s \in late

\* A source that returned is started again unless the daemon stops, after a
\* delay that doubles up to its cap; no source starts once input is closed.
SourcesSupervised ==
  [][\A s \in Sources :
       /\ src'[s].delay <= MaxDelay
       /\ (src[s].pc = "waits" /\ src'[s].pc = "stopped") => (signal \/ ~ input)
       /\ (src[s].pc # "running" /\ src'[s].pc = "running") => (~ signal /\ input)]_life_vars

\* A daemon told to stop ends, whatever its sources do.
DaemonEnds == signal ~> main = "gone"

\* A source that returned runs again or the daemon stops.
SourcesReturn == \A s \in Sources : src[s].pc = "waits" ~> src[s].pc = "running" \/ signal
=============================================================================
