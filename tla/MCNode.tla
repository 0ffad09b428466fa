------------------------------- MODULE MCNode -------------------------------
(***************************************************************************)
(* What is on a node beside the running daemon's services, on small        *)
(* instances.  A behaviour runs the one named by part:                     *)
(*   ban_store  two-bit addresses of two families (the default route,      *)
(*              nested networks, a sibling, a network written with host    *)
(*              bits, one IPv6 key);                                       *)
(*   upgrade    three subjects, one ban logged and one fault meanwhile;    *)
(*   fresh      the first installation;                                    *)
(*   migration  documents of one and two items, and one of all items;      *)
(*   control    two subjects and two jails with bans that end and that     *)
(*              last, one fault;                                           *)
(*   jails      up to three of four jail files;                            *)
(*   agent      two of twenty lines, every mode and token;                 *)
(*   sample     streams of up to four events of one or two bytes.          *)
(***************************************************************************)
EXTENDS BanStore, Upgrade, TLC

VARIABLES part,
  legacy, out, exit,                                             \* Migration
  clock, held, protected, rows, job, asked, lost, files, jails,  \* Control
  cfg, inbox, outbox, read, done, initialized, stream, cuts, sample \* AgentTools

V4(b1, b2, l) == [addr |-> [fam |-> "v4", bits |-> <<b1, b2>>], len |-> l]
V6(b1, b2, l) == [addr |-> [fam |-> "v6", bits |-> <<b1, b2>>], len |-> l]

MCKeys == {V4(0, 0, 0), V4(1, 0, 1), V4(1, 1, 1), V4(1, 0, 2), V4(0, 1, 2), V6(1, 0, 1)}
MCTime == 0..1

-----------------------------------------------------------------------------
(* Legacy documents: an item alone with all, none, all but one and one of  *)
(* its fields; an item with few of them beside a second SSH detector or    *)
(* the enforcer; and every item at once.                                   *)

MG == INSTANCE Migration WITH LegacyDocs <- {}

Values(f) ==
  CASE f \in {"enabled", "use_journald"}                 -> {"yes", "no"}
    [] f \in {"window", "ban_duration", "batch_interval"} -> {"ok", "junk"}
    [] f = "backend"                                     -> {"nftables", "ipset", "observe", "other"}
    [] f = "type" -> {"slack", "teams", "pagerduty", "telegram", "email", "webhook", "other"}
    [] OTHER                                             -> {"ok"}
Plain(f) == CHOOSE v \in Values(f) : v \in {"yes", "ok", "ipset", "slack"}

\* At most two fields at a time take another value than the plain one.
Settings(fs) ==
  {[f \in fs |-> IF f = g THEN v ELSE IF f = h THEN w ELSE Plain(f)] :
     <<g, v>> \in UNION {{g} \X Values(g) : g \in fs}, <<h, w>> \in UNION {{h} \X Values(h) : h \in fs}}
  \cup {[f \in fs |-> Plain(f)]}

Alone(i) == LET F == MG!Fields[i] IN {F, {}} \cup {F \ {f} : f \in F} \cup {{f} : f \in F}
Few == {"enabled", "threshold", "window", "url", "host", "path", "backend"}

MCLegacyDocs ==
  UNION {{[items |-> i :> s, rest |-> {}] : s \in UNION {Settings(fs) : fs \in Alone(i)}} :
           i \in MG!Items}
  \cup UNION {{[items |-> i :> s @@ j :> t, rest |-> {}] :
                 s \in Settings(MG!Fields[i] \cap Few), t \in Settings(MG!Fields[j] \cap Few)} :
              i \in MG!Items, j \in {"ssh_user_enum", "enforcement"}}
  \cup {[items |-> [i \in MG!Items |-> [f \in MG!Fields[i] |-> Plain(f)]], rest |-> r] :
          r \in {{"other"}, {"other", "plugins"}}}

M == INSTANCE Migration WITH LegacyDocs <- MCLegacyDocs

-----------------------------------------------------------------------------
Jail(name, kvs) == <<name, kvs>>
MCFiles ==
  {<<Jail("DEFAULT", [bantime |-> 60])>>, <<Jail("sshd", [maxretry |-> 3])>>,
   <<Jail("DEFAULT", [maxretry |-> 9]), Jail("sshd", [bantime |-> 7])>>,
   <<Jail("nginx", <<>>), Jail("DEFAULT", [bantime |-> 8])>>}

CT == INSTANCE Control
        WITH Ips <- {1, 2}, Jails <- {"sshd", "nginx"}, DEFAULT_BAN <- 2, MaxClock <- 3,
             MaxBans <- 1, MaxFaults <- 1, Files <- MCFiles, bans <- held, faults <- lost

Msg(id, method, tool, args) ==
  [kind |-> "object", id |-> id, method |-> method, answer |-> FALSE, params |-> TRUE,
   tool |-> tool, args |-> args]
Line(m) == [form |-> "one", msgs |-> <<m>>]
Call(id, tool) == Msg(id, "tools/call", tool, TRUE)
Ping == Msg(1, "ping", "", TRUE)
MCLines ==
  {[form |-> f, msgs |-> <<>>] : f \in {"blank", "garbage", "batch"}}
  \cup {Line(m) : m \in
    {Msg(1, "initialize", "", TRUE), Msg(0, "notifications/initialized", "", TRUE),
     Msg(2, "nope", "", TRUE), [Msg(3, "", "", TRUE) EXCEPT !.answer = TRUE],
     Msg(3, "", "", TRUE), [Ping EXCEPT !.params = FALSE], [Ping EXCEPT !.kind = "other"],
     Call(2, "hg_ban"), Call(0, "hg_unban"), Msg(2, "tools/call", "hg_config_put", FALSE),
     Call(2, "no_tool"), Call(1, "hg_config_get"), Call(1, "hg_health"),
     Call(1, "hg_whitelist"), Call(1, "hg_log_query")}}
  \cup {[form |-> "batch", msgs |-> <<Call(3, "hg_whitelist_add"), [Ping EXCEPT !.id = 0], Ping>>],
        [form |-> "batch", msgs |-> <<[Ping EXCEPT !.id = 0]>>]}

AT == INSTANCE AgentTools
        WITH Lines <- MCLines, MaxLines <- 2, MaxChunks <- 3, MaxEvents <- 3, MaxBytes <- 6,
             sent <- stream

-----------------------------------------------------------------------------
mg_vars == <<legacy, out, exit>>
ct_vars == <<clock, held, protected, rows, job, asked, lost>>
jail_vars == <<files, jails>>
at_vars == <<cfg, inbox, outbox, read, done, initialized>>
sample_vars == <<stream, cuts, sample>>
all_vars == <<part, store_vars, upgrade_vars, fresh_vars, mg_vars, ct_vars, jail_vars, at_vars,
             sample_vars>>

Parts == {"ban_store", "upgrade", "fresh", "migration", "control", "jails", "agent", "sample"}

\* Every part but the running one starts in one state.
MCInit ==
  /\ part \in Parts
  /\ StoreInit
  \* a ban of the longer lifetime, which a peer may have sent
  /\ UpgradeInit /\ data.snap.bans = [s \in {"a", "b", "ssh"} |-> IF s = "a" THEN 2 ELSE 0]
             /\ (defect.kind = "none" => defect.visible)
             /\ (part # "upgrade" => defect.kind = "none" /\ data.snap.peer = {})
  /\ FreshInit /\ (part # "fresh" => present = {})
  /\ IF part = "migration" THEN M!MigrationInit
     ELSE legacy = [items |-> <<>>, rest |-> {}] /\ out = <<>> /\ exit = 0
  /\ CT!ControlInit /\ protected \subseteq {2} /\ held[2] = CT!Never
                    /\ rows[CT!Row("nginx", 2)] = CT!Never
                    /\ rows[CT!Row("nginx", 1)] # 4 /\ rows[CT!Row("sshd", 2)] # CT!Permanent
                    /\ (part # "control" => protected = {} /\ held[1] = CT!Never
                                              /\ \A r \in DOMAIN rows : rows[r] = CT!Never)
  /\ CT!JailInit
  /\ AT!AgentInit
  /\ part # "agent" => cfg = [mode |-> "http", allow_write |-> FALSE, token |-> "none"]
  /\ AT!SampleInit /\ (part # "sample" => stream = <<>>)

MCNext ==
  /\ UNCHANGED part
  /\ IF part = "ban_store" THEN StoreNext ELSE UNCHANGED store_vars
  /\ IF part = "upgrade" THEN UpgradeNext ELSE UNCHANGED upgrade_vars
  /\ IF part = "fresh" THEN FreshNext ELSE UNCHANGED fresh_vars
  /\ IF part = "migration" THEN M!MigrationNext ELSE UNCHANGED mg_vars
  /\ IF part = "control" THEN CT!ControlNext ELSE UNCHANGED ct_vars
  /\ IF part = "jails" THEN CT!JailNext ELSE UNCHANGED jail_vars
  /\ IF part = "agent" THEN AT!AgentNext ELSE UNCHANGED at_vars
  /\ IF part = "sample" THEN AT!SampleNext ELSE UNCHANGED sample_vars

\* The fairness of Upgrade.
MCFairness ==
  /\ WF_upgrade_vars(part = "upgrade" /\ Install)
  /\ WF_upgrade_vars(part = "upgrade" /\ raise(FALSE))
  /\ WF_upgrade_vars(part = "upgrade" /\ Guardian)
  /\ WF_upgrade_vars(part = "upgrade" /\ Rollback)
  /\ WF_upgrade_vars(part = "upgrade" /\ rollback_raise(FALSE))
  /\ WF_upgrade_vars(part = "upgrade" /\ DaemonEnforce)

MCSpec == MCInit /\ [][MCNext]_all_vars /\ MCFairness

-----------------------------------------------------------------------------
\* The conjuncts are stated and explained in the modules.

(* migrate-config, fail2ban_import: every setting and every ban of another  *)
(* format is carried over or accounted for, and no import over REST         *)
(* shortens a ban.                                                          *)
CarriedOver ==
  /\ [](M!SettingsAccounted /\ M!EntriesExact /\ CT!JailsMerged /\ CT!ImportAccounted)
  /\ CT!RestNeverShortens

(* hiveguard_mcp.py, hg_agent_proxy.py, auth.rs: requests are answered once,*)
(* read tools are served in every mode, writes only where they are granted, *)
(* and a sample says when it was cut.                                       *)
AgentServed ==
  /\ AT!AnsweredOnce /\ AT!WritesGranted /\ AT!SampleHonest
  /\ part = "agent" => AT!ReadToolsServed
=============================================================================
