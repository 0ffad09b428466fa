------------------------------ MODULE PortScan ------------------------------
(***************************************************************************)
(* The port-scan detector (detectors/port_scan.rs): distinct ports per     *)
(* source in a short and a long window, and per IPv4 subnet in the long    *)
(* window, each tier tracking at most max_tracked_ips keys.                *)
(***************************************************************************)
EXTENDS Integers, Sequences, FiniteSets, FiniteSetsExt, SequencesExt, Functions

CONSTANTS Ip, network, Port, window, threshold, long_window, long_threshold,
          long_subnet_threshold, long_subnet_min_ips,
          subnet_cap,        \* long_subnet_threshold * 4 + 64 in the code
          max_tracked_ips, Lag, MaxTime

VARIABLES
  clock,   \* the newest timestamp so far
  tiers,   \* [tier -> partial function from keys to lists of (port, ip, ts)]
  signal   \* what the last call of process returned

vars == <<clock, tiers, signal>>

Tier == {"port_access", "long_access", "long_subnet_access"}
None == [tier |-> "none"]
WindowOf(t) == IF t = "port_access" THEN window ELSE long_window

Init ==
  /\ clock = 0
  /\ tiers = [t \in Tier |-> << >>]
  /\ signal = None

Entries(ts, t, k) == IF k \in DOMAIN ts[t] THEN ts[t][k] ELSE <<>>
Store(ts, t, k, es) == [ts EXCEPT ![t] = (k :> es) @@ @]
Drop(ts, t, k) == [ts EXCEPT ![t] = Restrict(@, DOMAIN @ \ {k})]
Live(es, w, now) == SelectSeq(es, LAMBDA x : x.ts > now - w)

sweep(ts, now) ==
  [t \in Tier |-> Restrict(ts[t],
     {k \in DOMAIN ts[t] : Live(ts[t][k], WindowOf(t), now) # <<>>})]

cleanup_old_entries(ts, k, now) ==
  LET kept == Live(Entries(ts, "port_access", k), window, now)
  IN  IF k \notin DOMAIN ts["port_access"] THEN ts
      ELSE IF kept = <<>> THEN Drop(ts, "port_access", k)
      ELSE Store(ts, "port_access", k, kept)

\* a full tier is swept once before a new key is refused
Full(ts, t, k) ==
  k \notin DOMAIN ts[t] /\ Cardinality(DOMAIN ts[t]) >= max_tracked_ips
admit(ts, t, k, now) ==
  LET swept == IF Full(ts, t, k) THEN sweep(ts, now) ELSE ts
  IN  [tiers |-> swept, ok |-> ~Full(swept, t, k)]

Signal(t, k, e, es) == [tier |-> t, subject |-> k, ts |-> e.ts, entries |-> ToSet(es)]
Result(ts, out) == [tiers |-> ts, out |-> out]
ports(es) == {es[i].port : i \in DOMAIN es}
ips(es) == {es[i].ip : i \in DOMAIN es}

long_tier_stale(ts, k, e) ==
  LET a == admit(ts, "long_access", k, e.ts)
      es == Append(SelectSeq(Entries(a.tiers, "long_access", k),
                             LAMBDA x : x.port # e.port), e)
  IN  IF long_threshold = 0 THEN Result(ts, None)
      ELSE IF ~a.ok THEN Result(a.tiers, None)
      ELSE IF Len(es) < long_threshold
           THEN Result(Store(a.tiers, "long_access", k, es), None)
      ELSE Result(Drop(a.tiers, "long_access", k), Signal("long_access", k, e, es))
long_tier(ts, k, e) ==
  LET a == admit(ts, "long_access", k, e.ts)
      es == Append(SelectSeq(Entries(a.tiers, "long_access", k),
                     LAMBDA x : x.ts > e.ts - long_window /\ x.port # e.port), e)
  IN  IF long_threshold = 0 THEN Result(ts, None)
      ELSE IF ~a.ok THEN Result(a.tiers, None)
      ELSE IF Len(es) < long_threshold
           THEN Result(Store(a.tiers, "long_access", k, es), None)
      ELSE Result(Drop(a.tiers, "long_access", k), Signal("long_access", k, e, es))

long_subnet_tier(ts, e) ==
  LET k == network[e.ip]
      a == admit(ts, "long_subnet_access", k, e.ts)
      all == Append(SelectSeq(Entries(a.tiers, "long_subnet_access", k),
               LAMBDA x : x.ts > e.ts - long_window
                          /\ ~(x.port = e.port /\ x.ip = e.ip)), e)
      es == SubSeq(all, Max({1, Len(all) - subnet_cap + 1}), Len(all))
  IN  IF long_subnet_threshold = 0 THEN Result(ts, None)
      ELSE IF ~a.ok THEN Result(a.tiers, None)
      ELSE IF \/ Cardinality(ports(es)) < long_subnet_threshold
              \/ Cardinality(ips(es)) < long_subnet_min_ips
           THEN Result(Store(a.tiers, "long_subnet_access", k, es), None)
      ELSE Result(Drop(a.tiers, "long_subnet_access", k),
                  Signal("long_subnet_access", k, e, es))

\* the subnet tier sees every event and its wider signal wins; the short
\* tier's ban covers the long one
scanned(e, swept) ==
  LET ip == e.ip
      ts == e.ts
      clean == cleanup_old_entries(IF swept THEN sweep(tiers, ts) ELSE tiers, ip, ts)
      sub == long_subnet_tier(clean, e)
      a == admit(sub.tiers, "port_access", ip, ts)
      es == Append(SelectSeq(Entries(a.tiers, "port_access", ip),
                             LAMBDA x : x.port # e.port), e)
      stored == Store(a.tiers, "port_access", ip, es)
      fired == Drop(Store(a.tiers, "port_access", ip, <<>>), "long_access", ip)
      slow(t) == IF sub.out # None THEN Result(t, sub.out) ELSE long_tier(t, ip, e)
  IN  IF ~a.ok THEN slow(a.tiers)
      ELSE IF Len(es) >= threshold
           THEN Result(fired, IF sub.out # None THEN sub.out
                              ELSE Signal("port_access", ip, e, es))
      ELSE slow(stored)

process(ip, port, ts, swept) ==
  /\ clock' = Max({clock, ts})
  /\ \E r \in {scanned([ip |-> ip, port |-> port, ts |-> ts], swept)} :
       tiers' = r.tiers /\ signal' = r.out

Next ==
  \E ip \in Ip, port \in Port, ts \in Max({0, clock - Lag})..MaxTime,
     swept \in BOOLEAN : process(ip, port, ts, swept)

Spec == Init /\ [][Next]_vars

-----------------------------------------------------------------------------

(* Whatever scans the host, no tier tracks more than max_tracked_ips keys,  *)
(* and a key's list never holds two entries for one port (and address).     *)
MemoryBounded ==
  \A t \in Tier :
    /\ Cardinality(DOMAIN tiers[t]) <= max_tracked_ips
    /\ \A k \in DOMAIN tiers[t] : \A i, j \in DOMAIN tiers[t][k] :
         (i # j /\ tiers[t][k][i].port = tiers[t][k][j].port) =>
            t = "long_subnet_access" /\ tiers[t][k][i].ip # tiers[t][k][j].ip

(* A signal is backed by that many distinct ports inside its tier's own     *)
(* window, all probed by members of the subject it names.                   *)
ScanBacked ==
  signal # None =>
    LET probed == {x.port : x \in signal.entries}
        sources == {x.ip : x \in signal.entries}
    IN  /\ \A x \in signal.entries :
             /\ signal.subject \in {x.ip, network[x.ip]}
             /\ x.ts > signal.ts - WindowOf(signal.tier)
        /\ CASE signal.tier = "port_access" -> Cardinality(probed) >= threshold
             [] signal.tier = "long_access" -> Cardinality(probed) >= long_threshold
             [] signal.tier = "long_subnet_access" ->
                  /\ Cardinality(probed) >= long_subnet_threshold
                  /\ Cardinality(sources) >= long_subnet_min_ips

(* A full tier turns new sources away but never forgets one it is watching: *)
(* an entry leaves only by expiring, by being seen again, or with a signal. *)
ScannerKept ==
  [][\A t \in Tier : \A k \in DOMAIN tiers[t] : \A i \in DOMAIN tiers[t][k] :
       LET x == tiers[t][k][i]
       IN  \/ \E j \in DOMAIN Entries(tiers', t, k) : Entries(tiers', t, k)[j] = x
           \/ x.port \in ports(Entries(tiers', t, k))
           \/ x.ts <= clock' - WindowOf(t)
           \/ signal' # None]_vars

=============================================================================
