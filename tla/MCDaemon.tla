----------------------------- MODULE MCDaemon -------------------------------
(***************************************************************************)
(* The daemon process on small instances: its start and its stop, the      *)
(* event pipeline, and what the REST interface keeps.  Each behaviour runs *)
(* one of them, named by part.                                             *)
(***************************************************************************)
EXTENDS Pipeline, UiApi

VARIABLES part,
  doc, gone, boot, loaded, chosen,
  signal, main, src, exits, queue, input, read, background, dirty, late \* Daemon

\* a trusted source, a bot, a data-centre host whose signals name it and the
\* network around it, and a plain source; 9 is the network of 1 and 2
Sig(s, v) == [subject |-> s, severity |-> v]
Ev(ip, tr, dc, bl, f) ==
  [ip |-> ip, trusted |-> tr, datacenter |-> dc, block |-> bl, found |-> f]
Events ==
  {Ev(1, TRUE, FALSE, FALSE, <<Sig(1, 2)>>), Ev(1, FALSE, FALSE, TRUE, <<>>),
   Ev(2, FALSE, TRUE, FALSE, <<Sig(2, 1), Sig(9, 1)>>), Ev(1, FALSE, FALSE, FALSE, <<Sig(1, 1)>>)}

MCaddr == 1 :> 1 @@ 2 :> 2 @@ 9 :> 1
MCprefix_len == 1 :> 32 @@ 2 :> 32 @@ 9 :> 24
MCcovers == {<<1, 1>>, <<2, 2>>, <<9, 1>>, <<9, 2>>}

-----------------------------------------------------------------------------
(* Documents of up to two entries beside an enforcer or a scoring engine,   *)
(* and the settings that validate refuses.                                  *)

Good == [bots |-> TRUE, prefix |-> 24, ttl |-> 1, data_dir |-> TRUE, whitelist |-> TRUE,
         threshold |-> 1, ban_duration |-> -1, backend |-> "nftables"]
MCSettings == {Good, [Good EXCEPT !.threshold = 0], [Good EXCEPT !.ban_duration = 0],
               [Good EXCEPT !.backend = "cloudflare"]}
Plugin(k, i) == [kind |-> k, id |-> i, linked |-> TRUE, optional |-> FALSE, api |-> TRUE,
                 secret |-> "none", fault |-> "none"]
Core ==
  {Plugin("enforcer", 1), Plugin("enforcer", 2), Plugin("scoring", 1), Plugin("scoring", 2),
   [Plugin("enforcer", 3) EXCEPT !.linked = FALSE, !.optional = TRUE],
   [Plugin("scoring", 3) EXCEPT !.linked = FALSE, !.optional = TRUE]}
MCEntries ==
  Core \cup
  {[Plugin("ui", 1) EXCEPT !.linked = FALSE], [Plugin("ui", 2) EXCEPT !.api = FALSE],
   [Plugin("sink", 1) EXCEPT !.fault = "own"]}
  \cup {[Plugin("notifier", 1) EXCEPT !.secret = s, !.fault = f] :
          s \in {"present", "absent", "elsewhere", "malformed"}, f \in {"none", "value", "enclosing"}}
MCDocument(m, y, s, p) == [marker |-> m, parses |-> y, settings |-> s, plugins |-> p]
MCDocuments ==
  {MCDocument(FALSE, TRUE, Good, p) :
     p \in UNION {[1..n -> MCEntries] : n \in 0..2}
            \cup (MCEntries \X Core \X Core) \cup (Core \X Core \X MCEntries)}
  \cup {MCDocument(m, y, s, <<Plugin("enforcer", 1), Plugin("scoring", 1)>>) :
          m, y \in BOOLEAN, s \in MCSettings}

DM == INSTANCE Daemon
        WITH Documents <- MCDocuments, Sources <- {"s1"}, MaxEvents <- 2, MaxExits <- 2

-----------------------------------------------------------------------------
Conf(x, v, m) == [text |-> x, valid |-> v, masked |-> m, marked |-> FALSE]
MCDocs == {Conf("p", TRUE, FALSE), Conf("s", TRUE, TRUE), Conf("i", FALSE, FALSE)}

-----------------------------------------------------------------------------
boot_vars == <<doc, gone, boot, loaded, chosen>>
life_vars == <<signal, main, src, exits, queue, input, read, background, dirty, late>>
mc_vars == <<part, vars, boot_vars, life_vars, ban_vars, slot_vars, scan_vars,
          config_vars, sigma_vars, push_vars>>

Parts == {"pipeline", "boot", "life", "bans", "slots", "scans", "config", "sigma",
          "push"}

\* Every part but the running one starts in one state.
MCInit ==
  /\ part \in Parts
  /\ Init
  /\ IF part = "boot" THEN DM!BootInit
     ELSE /\ doc = MCDocument(FALSE, TRUE, Good, <<>>) /\ gone = FALSE
          /\ boot = "load" /\ loaded = <<>> /\ chosen = <<>>
  /\ DM!LifeInit
  /\ BanInit /\ ban_list \in SUBSET {"s1"} /\ (part # "bans" => ban_list = {})
  /\ SlotInit /\ ScanInit /\ SigmaInit /\ PushInit
  /\ ConfigInit /\ (part # "config" => file.text = "p")

MCNext ==
  /\ UNCHANGED part
  /\ IF part = "pipeline" THEN Next ELSE UNCHANGED vars
  /\ IF part = "boot" THEN DM!BootNext ELSE UNCHANGED boot_vars
  /\ IF part = "life" THEN DM!LifeNext ELSE UNCHANGED life_vars
  /\ IF part = "bans" THEN BanNext ELSE UNCHANGED ban_vars
  /\ IF part = "slots" THEN SlotNext ELSE UNCHANGED slot_vars
  /\ IF part = "scans" THEN ScanNext ELSE UNCHANGED scan_vars
  /\ IF part = "config" THEN ConfigNext ELSE UNCHANGED config_vars
  /\ IF part = "sigma" THEN SigmaNext ELSE UNCHANGED sigma_vars
  /\ IF part = "push" THEN PushNext ELSE UNCHANGED push_vars

\* The fairness of the modules; of the daemon, its main function goes on
\* (every wait of it has a timeout) and a supervisor's delay ends; of the
\* interface, the ticker ticks and a notification is delivered.
Fairness ==
  /\ WF_vars(part = "pipeline" /\ Step)
  /\ WF_life_vars(part = "life" /\ DM!Stop)
  /\ \A s \in {"s1"} : WF_life_vars(part = "life" /\ DM!supervise(s))
  /\ WF_ban_vars(part = "bans" /\ sync_agent_ban_events)
  /\ \A t \in {"a", "t"} : WF_ban_vars(part = "bans" /\ BanStep(t))

MCSpec == MCInit /\ [][MCNext]_mc_vars /\ Fairness

-----------------------------------------------------------------------------
\* The conjuncts are stated and explained in the modules.

(* main.rs, loader.rs: a document that the interface calls valid starts     *)
(* unless something outside fails, a daemon that is up has what its document*)
(* names, and it leaves nothing behind unless a wait ran out.               *)
DaemonSound ==
  [](DM!ValidStarts /\ DM!UpComplete /\ DM!StopClean) /\ DM!SourcesSupervised

(* main.rs, plugin_supervisor.rs: a daemon told to stop ends, whatever its  *)
(* sources do, and a source that returned runs again.                       *)
DaemonEnds == DM!DaemonEnds /\ DM!SourcesReturn

(* ui_api.rs: the ticker brings the streams to the ban list.                *)
StreamsCatchUp == part = "bans" => BaselineCatchesUp
=============================================================================
