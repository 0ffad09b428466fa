----------------------------- MODULE Migration ------------------------------
(***************************************************************************)
(* hiveguard-migrate-config: a configuration of the form before plugins    *)
(* (legacy.rs) is converted to a list of plugin entries (convert.rs).      *)
(*                                                                         *)
(* A legacy document gives some items (sections, or the parts of a         *)
(* section) some of their fields.  The config of a generated entry is      *)
(* modelled by where its slots come from: a set of <<item, field>>.        *)
(***************************************************************************)
EXTENDS Integers, Sequences, SequencesExt, FiniteSets, Functions, TLC

CONSTANT LegacyDocs    \* [items : [SUBSET Items -> settings], rest : SUBSET STRING]

-----------------------------------------------------------------------------
(* legacy.rs: the fields of every item.                                    *)

Timed == {"enabled", "threshold", "window", "ban_duration"}

source_fields ==
  [ssh |-> {"use_journald", "auth_log_path"},
   nginx |-> {"access_log", "error_log", "non_wordpress"},
   postfix |-> {"log_path"},
   custom |-> {"path", "pattern", "detector", "threshold", "window"}]

detector_fields ==
  [ssh_bruteforce |-> Timed, ssh_user_enum |-> Timed,
   http_4xx_flood |-> Timed, smtp_bruteforce |-> Timed, port_scan |-> Timed,
   path_probe |-> {"enabled", "paths", "ban_duration"},
   http_login_bruteforce |-> Timed \cup {"paths"},
   scanner_fingerprint |-> {"enabled", "scanners", "ban_duration"},
   distributed_slow |-> {"enabled", "subnet_threshold", "window", "ban_duration", "ban_scope"},
   honeypot |-> {"enabled", "paths", "ban_duration", "severity"},
   entropy |-> {"enabled", "score_threshold", "benign_penalty",
                "error_response_multiplier", "min_entropy", "max_entropy"},
   timing |-> {"enabled", "window", "min_samples", "stddev_threshold_ms"}]

enforcement_fields ==
  [enforcement |-> {"backend", "nftables_set_name", "nftables_table", "ipset_name", "batch_interval"}]

cti_fields ==
  [geoip |-> {"enabled", "license_key", "trusted_asns", "datacenter_multiplier",
              "update_interval_days", "database_path", "data_dir"},
   abuseipdb |-> {"enabled", "api_key", "confidence_threshold", "ban_on_first_hit",
                  "cache_ttl_hours", "max_cache_entries"},
   spamhaus |-> {"enabled", "custom_resolver", "confidence_threshold", "ban_on_first_hit"},
   tor |-> {"enabled", "refresh_interval_secs", "ban_on_first_hit"},
   otx |-> {"enabled", "api_key", "min_pulse_count", "ban_on_first_hit", "cache_ttl_hours"}]

\* One alerting destination; its name and type are not optional settings here.
destination_fields ==
  [destination |-> {"type", "url", "events", "min_severity", "cooldown_secs", "auth_header",
                    "payload_template", "http_method", "content_type", "channel", "username",
                    "icon_emoji", "routing_key", "bot_token", "chat_id"}]

siem_fields ==
  [sigma |-> {"enabled", "rules_dir", "hot_reload"},
   syslog_exporter |-> {"enabled", "host", "protocol", "format", "tls", "leef_separator"},
   elasticsearch |-> {"enabled", "host", "index_prefix", "api_key", "username", "password",
                      "bulk_size", "flush_interval_secs", "ilm_enabled", "tls_verify", "dlq_dir"},
   splunk |-> {"enabled", "url", "host", "token", "index", "sourcetype", "tls_verify",
               "batch_size", "flush_interval_secs"},
   datadog |-> {"enabled", "api_key", "site", "service", "tags", "batch_size", "flush_interval_secs"}]

Fields == source_fields @@ detector_fields @@ enforcement_fields
            @@ cti_fields @@ destination_fields @@ siem_fields

Items == DOMAIN Fields

\* The order in which convert visits the items.
Order == <<"ssh", "nginx", "postfix", "custom", "ssh_bruteforce", "ssh_user_enum", "path_probe",
           "http_4xx_flood", "http_login_bruteforce", "scanner_fingerprint", "smtp_bruteforce",
           "port_scan", "distributed_slow", "honeypot", "entropy", "timing", "enforcement",
           "geoip", "abuseipdb", "spamhaus", "tor", "otx", "destination", "sigma",
           "syslog_exporter", "elasticsearch", "splunk", "datadog">>

-----------------------------------------------------------------------------
(* convert.rs.  A value is "ok", "junk" (a duration that does not parse),  *)
(* "yes" / "no" for a flag, or the name of a backend or a kind.            *)

Has(s, f) == f \in DOMAIN s

\* enabled.unwrap_or(default)
on(s, default) == IF Has(s, "enabled") THEN s.enabled = "yes" ELSE default

parse_duration_secs(v) == v # "junk"

\* insert_secs: a duration that does not parse is left out without a word.
insert_secs(s, times) == {f \in times \cap DOMAIN s : parse_duration_secs(s[f])}

\* What becomes of an item: the id of its entry, the fields that are copied,
\* those that are durations, and those a warning is given for.
Row(id, keeps, times, warns) == [id |-> id, keeps |-> keeps, times |-> times, warns |-> warns]

Entry(i, s, row) ==
  [id |-> row.id, config |-> {<<i, f>> : f \in (row.keeps \cap DOMAIN s) \cup insert_secs(s, row.times)}]

Windows == {"window", "ban_duration"}

\* Sources have no switch: what is there is converted.
ssh_source(s) ==
  IF Has(s, "use_journald") => s.use_journald = "yes"
  THEN <<Entry("ssh", s, Row("source.journald", {"use_journald"}, {}, {}))>>
  ELSE <<Entry("ssh", s, Row("source.file.ssh", {"use_journald", "auth_log_path"}, {}, {}))>>

nginx_source(s) ==
  (IF Has(s, "access_log")
   THEN <<Entry("nginx", s, Row("source.file.nginx", {"access_log"}, {}, {}))>> ELSE <<>>)
  \o
  (IF Has(s, "error_log")
   THEN <<Entry("nginx", s, Row("source.file.nginx", {"error_log"}, {}, {}))>> ELSE <<>>)

source_rows ==
  [postfix |-> Row("source.file.postfix", {"log_path"}, {}, {}),
   custom |-> Row("source.file.custom", {"path", "pattern", "detector"}, {}, {"threshold", "window"})]

\* The two SSH detectors share one plugin.
ssh_detector(items) ==
  LET own == Row("detector.ssh_bruteforce", {"threshold"}, Windows, {})
      Of(i) == Entry(i, items[i], own)
      enum == "ssh_user_enum" \in DOMAIN items /\ on(items["ssh_user_enum"], TRUE)
      Folded == IF enum THEN Of("ssh_user_enum").config ELSE {}
  IN IF "ssh_bruteforce" \in DOMAIN items
     THEN IF on(items["ssh_bruteforce"], TRUE)
          THEN <<[Of("ssh_bruteforce") EXCEPT !.config = @ \cup Folded]>> ELSE <<>>
     ELSE IF enum THEN <<Of("ssh_user_enum")>> ELSE <<>>

http_rows_without_window ==
  [path_probe |-> Row("detector.path_probe", {"paths"}, {"ban_duration"}, {}),
   http_4xx_flood |-> Row("detector.http_4xx_flood", {"threshold"}, {"ban_duration"}, {}),
   http_login_bruteforce |-> Row("detector.http_login_bruteforce", {"threshold", "paths"}, Windows, {}),
   scanner_fingerprint |-> Row("detector.scanner_fingerprint", {"scanners"}, {"ban_duration"}, {})]

http_rows ==
  [path_probe |-> Row("detector.path_probe", {"paths"}, {"ban_duration"}, {}),
   http_4xx_flood |-> Row("detector.http_4xx_flood", {"threshold"}, Windows, {}),
   http_login_bruteforce |-> Row("detector.http_login_bruteforce", {"threshold", "paths"}, Windows, {}),
   scanner_fingerprint |-> Row("detector.scanner_fingerprint", {"scanners"}, {"ban_duration"}, {})]

network_rows ==
  [smtp_bruteforce |-> Row("detector.smtp_bruteforce", {"threshold"}, Windows, {}),
   port_scan |-> Row("detector.port_scan", {"threshold"}, Windows, {}),
   distributed_slow |-> Row("detector.distributed_slow", {"subnet_threshold", "ban_scope"}, Windows, {}),
   honeypot |-> Row("detector.honeypot", {"paths", "severity"}, {"ban_duration"}, {})]

analysis_rows ==
  [entropy |-> Row("detector.entropy", {"score_threshold", "benign_penalty",
                     "error_response_multiplier", "min_entropy", "max_entropy"}, {}, {}),
   timing |-> Row("detector.timing", {"min_samples", "stddev_threshold_ms"}, {"window"}, {})]

detector_rows == http_rows @@ network_rows @@ analysis_rows

\* convert_enforcement: exactly one entry, an unknown backend only observes.
enforcement_row(s) ==
  LET backend == IF Has(s, "backend") THEN s.backend ELSE "nftables"
  IN CASE backend = "nftables" -> Row("enforcer.nftables",
                                      {"backend", "nftables_table", "nftables_set_name"},
                                      {"batch_interval"}, {})
       [] backend = "ipset"    -> Row("enforcer.ipset", {"backend", "ipset_name"}, {}, {})
       [] backend = "observe"  -> Row("enforcer.observe", {"backend"}, {}, {})
       [] OTHER                -> Row("enforcer.observe", {}, {}, {"backend"})

cti_rows ==
  [geoip |-> Row("cti.geoip", {"database_path", "data_dir", "trusted_asns"}, {},
                 {"license_key", "datacenter_multiplier", "update_interval_days"}),
   abuseipdb |-> Row("cti.abuseipdb", {"api_key", "confidence_threshold", "ban_on_first_hit",
                                       "cache_ttl_hours", "max_cache_entries"}, {}, {}),
   spamhaus |-> Row("cti.spamhaus", {"custom_resolver", "confidence_threshold", "ban_on_first_hit"}, {}, {}),
   tor |-> Row("cti.tor", {"refresh_interval_secs", "ban_on_first_hit"}, {}, {}),
   otx |-> Row("cti.otx", {"api_key", "min_pulse_count", "ban_on_first_hit"}, {}, {"cache_ttl_hours"})]

\* convert_alerting, by the type of the destination; no type means webhook.
destination_row(s) ==
  LET kind == IF Has(s, "type") THEN s.type ELSE "webhook"
  IN CASE kind = "slack"     -> Row("notifier.slack", {"type", "url", "channel", "username", "icon_emoji"}, {}, {})
       [] kind = "teams"     -> Row("notifier.teams", {"type", "url"}, {}, {})
       [] kind = "discord"   -> Row("notifier.discord", {"type", "url"}, {}, {})
       [] kind = "pagerduty" -> Row("notifier.pagerduty",
                                    {"type", IF Has(s, "routing_key") THEN "routing_key" ELSE "url"}, {}, {})
       [] kind = "telegram"  -> Row("notifier.telegram", {"type", "bot_token", "chat_id"}, {}, {})
       [] kind = "email"     -> Row("notifier.email", {"type"}, {}, {})
       [] kind = "webhook"   -> Row("notifier.webhook",
                                    {"type", "url", "http_method", "content_type", "auth_header",
                                     "events", "payload_template"}, {}, {"min_severity", "cooldown_secs"})
       [] OTHER              -> Row("notifier.webhook", {"url"}, {}, {"type"})

siem_rows ==
  [syslog_exporter |-> Row("sink.syslog", {"host", "protocol"}, {}, {"format", "leef_separator", "tls"}),
   elasticsearch |-> Row("sink.elastic", {"host", "index_prefix", "api_key", "username", "password",
                                          "bulk_size", "flush_interval_secs"}, {}, {}),
   datadog |-> Row("sink.datadog", {"site", "api_key", "service", "tags"}, {}, {})]

\* The host of Splunk may be given as its url.
splunk_row(s) == Row("sink.splunk", {IF Has(s, "host") THEN "host" ELSE "url",
                                     "token", "index", "sourcetype"}, {}, {})

sigma_row == Row("detector.sigma", {"rules_dir", "hot_reload"}, {}, {})

\* The row of an item that becomes an entry of its own, and its default.
row_of(i, s) == CASE i \in DOMAIN source_rows   -> source_rows[i]
                  [] i \in DOMAIN detector_rows -> detector_rows[i]
                  [] i = "enforcement"          -> enforcement_row(s)
                  [] i \in DOMAIN cti_rows      -> cti_rows[i]
                  [] i = "destination"          -> destination_row(s)
                  [] i = "sigma"                -> sigma_row
                  [] i = "splunk"               -> splunk_row(s)
                  [] OTHER                      -> siem_rows[i]

default_on(i) == i \notin DOMAIN cti_fields \cup DOMAIN siem_fields

Special == {"ssh", "nginx", "ssh_bruteforce", "ssh_user_enum"}

entries_of(i, items) ==
  CASE i = "ssh"            -> ssh_source(items[i])
    [] i = "nginx"          -> nginx_source(items[i])
    [] i = "ssh_bruteforce" -> ssh_detector(items)
    [] i = "ssh_user_enum"  -> IF "ssh_bruteforce" \in DOMAIN items THEN <<>> ELSE ssh_detector(items)
    [] OTHER -> IF on(items[i], default_on(i)) THEN <<Entry(i, items[i], row_of(i, items[i]))>> ELSE <<>>

\* Warnings about fields of an item that is converted, whatever it becomes.
warned(i, s) ==
  CASE i = "nginx"     -> {"non_wordpress"} \cap DOMAIN s
    [] i \in Special   -> {}
    [] OTHER           -> IF on(s, default_on(i)) THEN row_of(i, s).warns \cap DOMAIN s ELSE {}

generated(items) ==
  FoldLeft(LAMBDA acc, i : IF i \in DOMAIN items THEN acc \o entries_of(i, items) ELSE acc, <<>>, Order)

\* The document written: the list of plugins - the generated one, unless the
\* legacy document had a key of that name, which is written last and wins.
convert(d) ==
  [plugins |-> IF "plugins" \in d.rest THEN "legacy" ELSE generated(d.items),
   report |-> generated(d.items),
   warnings |-> UNION {{<<i, f>> : f \in warned(i, d.items[i])} : i \in DOMAIN d.items},
   rest |-> d.rest]

-----------------------------------------------------------------------------
VARIABLES legacy,      \* the input
          out,         \* what the last run wrote, <<>> before
          exit         \* its exit code

migration_vars == <<legacy, out, exit>>

MigrationInit == legacy \in LegacyDocs /\ out = <<>> /\ exit = 0

\* main: the file is written whether or not the schemas agree (exit code 2).
migrate == /\ out = <<>>
           /\ out' = <<convert(legacy)>> /\ exit' \in {0, 2}
           /\ UNCHANGED legacy

MigrationNext == migrate

\* Fields the tool knows, does not copy and does not warn about: those of
\* other backends, other notifiers and the file of a journald source, and
\* some of the exporters.
Chat == {"channel", "username", "icon_emoji", "routing_key", "bot_token", "chat_id"}
Silent(i, s) ==
  CASE i = "ssh"           -> {"auth_log_path"}
    [] i = "destination"   -> IF Has(s, "type") /\ s.type # "webhook" THEN Fields[i] \ {"type"} ELSE Chat
    [] i = "elasticsearch" -> {"ilm_enabled", "tls_verify", "dlq_dir"}
    [] i = "splunk"        -> {"tls_verify", "batch_size", "flush_interval_secs"}
                                \cup (IF Has(s, "host") THEN {"url"} ELSE {})
    [] i = "datadog"       -> {"batch_size", "flush_interval_secs"}
    [] i = "enforcement"   -> IF Has(s, "backend") /\ s.backend # "nftables"
                              THEN Fields[i] \ {"backend"} ELSE {"ipset_name"}
    [] OTHER               -> {}

Configs(plugins) == UNION {plugins[k].config : k \in DOMAIN plugins}
Disabled(i) == ~ on(legacy.items[i], default_on(i))

\* The one setting that is lost because of another item: user enumeration
\* next to an SSH detector that is switched off.
Shadowed(i) == /\ i = "ssh_user_enum" /\ "ssh_bruteforce" \in DOMAIN legacy.items
               /\ Disabled("ssh_bruteforce")

\* Every field of an item that is switched on reaches the config of an entry
\* or a warning, except durations that do not parse, the fields of
\* Silent, and user enumeration beside a disabled SSH detector.
SettingsAccounted ==
  \A k \in DOMAIN out, i \in DOMAIN legacy.items :
    \A f \in DOMAIN legacy.items[i] \ ({"enabled"} \cup Silent(i, legacy.items[i])) :
      \/ <<i, f>> \in Configs(out[k].report) \cup out[k].warnings
      \/ legacy.items[i][f] = "junk" \/ Disabled(i) \/ Shadowed(i)

\* A setting reaches at most one entry, no entry is made of an item that is
\* switched off, and the list written is the one reported unless the legacy
\* document has a list of plugins of its own.
EntriesExact ==
  \A k \in DOMAIN out :
    /\ \A p, q \in DOMAIN out[k].report :
         p # q => out[k].report[p].config \cap out[k].report[q].config = {}
    /\ \A p \in DOMAIN out[k].report : \A c \in out[k].report[p].config :
         c[1] \in DOMAIN legacy.items /\ ~ Disabled(c[1])
    /\ ("plugins" \notin legacy.rest) => out[k].plugins = out[k].report
=============================================================================
