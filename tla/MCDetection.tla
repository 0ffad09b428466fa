---------------------------- MODULE MCDetection ----------------------------
(***************************************************************************)
(* The stateful detectors and the bot registry on small instances.  Each   *)
(* behaviour runs one of them, named by part; the others stay where they   *)
(* start.                                                                  *)
(***************************************************************************)
EXTENDS Integers, TLC

VARIABLES part,
  detector, clock, deques, events, signal, spent,            \* SlidingWindow
  flood_clock, counters, requests, signals,                  \* HttpFlood
  scan_clock, tiers, scan_signal,                            \* PortScan
  probe_clock, ips, paths, probe_signal,                     \* WebshellProbe
  campaign_clock, keys, pending, sent,                       \* Campaign
  rules, stats, unknown_bots, answer,                        \* BotRegistry
  time, running, seen_cur, seen_prev, generation_started, candidates, order,
  on, below_since, flag, published, failures                 \* DistributedCrawl

\* two addresses of one subnet
Subnet == 1 :> 9 @@ 2 :> 9

SW == INSTANCE SlidingWindow
        WITH Ip <- {1, 2}, network <- Subnet, threshold <- 2, window <- 2,
             enum_threshold <- 2, enum_window <- 1,
             subnet_threshold <- 3, subnet_min_distinct_ips <- 2, subnet_cap <- 4,
             min_samples <- 3, stddev_threshold <- 1,
             Lag <- 1, MaxTime <- 3, MaxEvents <- 4

HF == INSTANCE HttpFlood
        WITH clock <- flood_clock,
             Ip <- {1, 2}, network <- Subnet, window <- 2,
             ip_threshold <- 2, subnet_threshold <- 2,
             Lag <- 1, MaxTime <- 8, MaxEvents <- 4

PS == INSTANCE PortScan
        WITH clock <- scan_clock, signal <- scan_signal,
             Ip <- {1, 2}, network <- Subnet, Port <- {1, 2}, window <- 1, threshold <- 2,
             long_window <- 2, long_threshold <- 2, long_subnet_threshold <- 2,
             long_subnet_min_ips <- 2, subnet_cap <- 3, max_tracked_ips <- 1,
             Lag <- 1, MaxTime <- 2

\* a shell by name, also in mixed case, an upload, and two pages that are no probe
Path(d, s, c, e) == [dir |-> d, stem |-> s, class |-> c, ext |-> e, slash |-> FALSE]
Requests ==
  {[path |-> Path("/", "wso", "shell_word", "php"), status |-> "2xx", ua |-> ""],
   [path |-> Path("/", "wso", "shell_word", "PhP"), status |-> "4xx", ua |-> "x"],
   [path |-> Path("/wp-content/uploads/", "a", "plain", "php"), status |-> "2xx", ua |-> "x"],
   [path |-> Path("/", "index", "plain", "php"), status |-> "2xx", ua |-> "x"],
   [path |-> Path("/", "index", "plain", "html"), status |-> "2xx", ua |-> "x"]}
Legit == {[kind |-> "exact", stem |-> "index"], [kind |-> "segment", dir |-> "/wp-admin/"],
          [kind |-> "basename", stem |-> "xmlrpc"]}

WS == INSTANCE WebshellProbe
        WITH clock <- probe_clock, signal <- probe_signal,
             Ip <- {1, 2, 3}, Request <- Requests, legit <- Legit, window <- 1,
             min_distinct_paths <- 2, score_threshold <- 10, shared_path_min_ips <- 1,
             max_tracked_ips <- 2, max_tracked_paths <- 1, MAX_PATHS_PER_IP <- 2,
             Lag <- 0, MaxTime <- 2

CA == INSTANCE Campaign
        WITH clock <- campaign_clock,
             Ip <- {1, 2, 3}, UserAgent <- {"ua1", "ua2"}, Vhost <- {"v"}, window <- 1,
             min_distinct_ips <- 2, min_requests <- 2, hot_duration <- 1,
             vhost_min_distinct_ips <- 2, retro_ban <- TRUE, max_retro_bans <- 2,
             retro_batch <- 1, max_keys <- 2, max_hits_per_key <- 2,
             MAX_FLAGGED_PER_KEY <- 3, MAX_PENDING <- 4, Lag <- 0, MaxTime <- 2

Agent(names, k) == [names |-> names, key |-> k, bot |-> TRUE]
BR == INSTANCE BotRegistry
        WITH UserAgent <- {Agent({"goog"}, "goog"), Agent({"acme"}, "acme"),
                           Agent({"acme", "goog"}, "acme"), Agent({"zed"}, "zed")},
             ConfigRules <- <<[name |-> "goog", policy |-> "allow"]>>,
             MAX_UNKNOWN_BOTS <- 1, MaxCount <- 1

DC == INSTANCE DistributedCrawl
        WITH now <- time,
             Ip <- {1, 2, 3}, window <- 0, fresh_ip_memory <- 2, fresh_ip_threshold <- 1,
             off_threshold <- 1, cooldown <- 1, max_tracked_ips <- 2, ORDER_SLACK <- 0,
             MaxTime <- 1, MaxFailures <- 1, MaxOrder <- 3

sw_vars == <<detector, clock, deques, events, signal, spent>>
hf_vars == <<flood_clock, counters, requests, signals>>
ps_vars == <<scan_clock, tiers, scan_signal>>
ws_vars == <<probe_clock, ips, paths, probe_signal>>
ca_vars == <<campaign_clock, keys, pending, sent>>
br_vars == <<rules, stats, unknown_bots, answer>>
dc_vars == <<time, running, seen_cur, seen_prev, generation_started, candidates, order,
             on, below_since, flag, published, failures>>
vars == <<part, sw_vars, hf_vars, ps_vars, ws_vars, ca_vars, br_vars, dc_vars>>

Parts == {"windows", "flood", "portscan", "webshell", "campaign", "bots", "crawl"}

Init ==
  /\ part \in Parts
  /\ SW!Init /\ HF!Init /\ PS!Init /\ WS!Init /\ CA!Init /\ BR!Init /\ DC!Init
  /\ part # "windows" => detector = "timing"

Next ==
  /\ UNCHANGED part
  /\ IF part = "windows" THEN SW!Next ELSE UNCHANGED sw_vars
  /\ IF part = "flood" THEN HF!Next ELSE UNCHANGED hf_vars
  /\ IF part = "portscan" THEN PS!Next ELSE UNCHANGED ps_vars
  /\ IF part = "webshell" THEN WS!Next ELSE UNCHANGED ws_vars
  /\ IF part = "campaign" THEN CA!Next ELSE UNCHANGED ca_vars
  /\ IF part = "bots" THEN BR!Next ELSE UNCHANGED br_vars
  /\ IF part = "crawl" THEN DC!Next ELSE UNCHANGED dc_vars

\* The task of the crawl detector ticks, and evaluates when it does.
Fairness == WF_dc_vars(part = "crawl" /\ DC!Evaluate) /\ WF_dc_vars(part = "crawl" /\ DC!tick)

Spec == Init /\ [][Next]_vars /\ Fairness

-----------------------------------------------------------------------------
\* The conjuncts are stated and explained in the modules of the detectors.

(* Every signal stands for enough recent and distinct evidence of its own   *)
(* subject, which no other signal of the window has used, and a claim about *)
(* several sources rests on several sources.  No User-Agent exempts its     *)
(* sender, an accepted bot policy is the one in force, and the attack state *)
(* changes by its thresholds and its cooldown alone, on fresh sources.      *)
SignalsBacked ==
  /\ [](BR!NeverExempt /\ BR!PolicyTakesEffect)
  /\ [](SW!SignalBacked /\ SW!CountedOnce /\ HF!SignalBacked /\ PS!ScanBacked /\ WS!ProbesDistinct)
  /\ WS!BonusNeedsOthers /\ CA!HotBacked
  /\ []DC!GaugeTruthful /\ DC!CooldownRespected /\ DC!ReturningNotFresh

(* No burst passes unnoticed, in whatever order it was logged, and no       *)
(* participant of a campaign is flagged without a signal.                   *)
NoBurstMissed == SW!BurstsNoticed /\ HF!FloodNoticed /\ CA!FlaggedSignalled

(* The tables keep their limits and their counts, and a full one forgets    *)
(* the entry it should: not the scanner it watches, the least recent probe, *)
(* no running campaign.                                                     *)
TablesKept ==
  /\ [](PS!MemoryBounded /\ WS!TablesBounded /\ CA!CountsMatch /\ DC!SeenBounded)
  /\ PS!ScannerKept /\ WS!LeastRecentEvicted /\ CA!HotKeptLongest

(* distributed_crawl: the flag file comes back while the attack lasts.      *)
FlagReasserted == DC!FlagReasserted
=============================================================================
