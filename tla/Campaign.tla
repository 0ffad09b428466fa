------------------------------ MODULE Campaign ------------------------------
(***************************************************************************)
(* The distributed-login campaign detector (detectors/campaign.rs): hits   *)
(* per client fingerprint and per virtual host, a hot period once enough   *)
(* distinct sources share one, and a bounded queue of retroactive signals  *)
(* for the participants seen before the campaign was recognised.           *)
(***************************************************************************)
EXTENDS Integers, Sequences, FiniteSets, FiniteSetsExt, SequencesExt, Functions

CONSTANTS
  Ip, UserAgent, Vhost,   \* the fingerprints and the hosts, disjoint
  window, min_distinct_ips, min_requests, hot_duration, vhost_min_distinct_ips,
  retro_ban, max_retro_bans, retro_batch, max_keys, max_hits_per_key,
  MAX_FLAGGED_PER_KEY, MAX_PENDING, Lag, MaxTime

VARIABLES
  clock,
  keys,      \* partial function: fingerprint or host -> its KeyState
  pending,   \* participants whose retroactive signal is still queued
  sent       \* every source signalled so far (history)

vars == <<clock, keys, pending, sent>>

Cold == 0 - 1   \* hot_until: None
KeyState_new(now) ==
  [hits |-> <<>>, ip_counts |-> << >>, last_seen |-> now, hot_until |-> Cold, flagged |-> {}]

Init == clock = 0 /\ keys = << >> /\ pending = <<>> /\ sent = {}

min_ips(k) == IF k \in UserAgent THEN min_distinct_ips ELSE vhost_min_distinct_ips
is_hot(s, now) == s.hot_until >= now

pop_front(s) ==
  LET ip == Head(s.hits).ip
      less == [s.ip_counts EXCEPT ![ip] = @ - 1]
  IN  [s EXCEPT !.hits = Tail(@),
                !.ip_counts = Restrict(less, {i \in DOMAIN less : less[i] > 0})]

RECURSIVE prune(_, _)
prune(s, cutoff) ==
  IF s.hits # <<>> /\ Head(s.hits).t < cutoff THEN prune(pop_front(s), cutoff) ELSE s

sweep(ks, now) ==
  Restrict(ks, {k \in DOMAIN ks : is_hot(ks[k], now) \/ now - ks[k].last_seen < window})

\* idle keys go first, then the least recently seen, a hot one last of all
Victims_any(ks, now) == DOMAIN ks
Victims(ks, now) ==
  {v \in DOMAIN ks : \A k \in DOMAIN ks :
     IF is_hot(ks[v], now) = is_hot(ks[k], now)
     THEN ks[v].last_seen <= ks[k].last_seen
     ELSE is_hot(ks[k], now)}
make_room(ks, k, now) ==
  LET swept == sweep(ks, now)
  IN  IF k \in DOMAIN ks \/ Cardinality(DOMAIN ks) < max_keys THEN {ks}
      ELSE IF Cardinality(DOMAIN swept) < max_keys THEN {swept}
      ELSE {Restrict(swept, DOMAIN swept \ {v}) : v \in Victims(swept, now)}

\* the key's state once the hit is counted and an expired hot period is over
counted(s, ip, now) ==
  LET p == prune(s, now - window)
      q == IF Len(p.hits) >= max_hits_per_key THEN pop_front(p) ELSE p
      n == IF ip \in DOMAIN q.ip_counts THEN q.ip_counts[ip] + 1 ELSE 1
      c == [q EXCEPT !.hits = Append(@, [t |-> now, ip |-> ip]),
                     !.ip_counts = (ip :> n) @@ @,
                     !.last_seen = now]
  IN  IF c.hot_until # Cold /\ ~is_hot(c, now)
      THEN [c EXCEPT !.hot_until = Cold, !.flagged = {}] ELSE c

\* up to max_retro_bans of the other participants, in no particular order
Participants(s, ip) ==
  LET others == DOMAIN s.ip_counts \ {ip}
      n == Min({Cardinality(others), max_retro_bans,
                Max({0, MAX_FLAGGED_PER_KEY - Cardinality(s.flagged \cup {ip})})})
  IN  IF retro_ban THEN {p \in [1..n -> others] : IsInjective(p)} ELSE {<<>>}

triggered(s, k) ==
  Cardinality(DOMAIN s.ip_counts) >= min_ips(k) /\ Len(s.hits) >= min_requests

\* every outcome of one hit: the keys, the queue and the signal it raises
hit(ks, k, pend, ip, now) ==
  UNION {LET s == counted(IF k \in DOMAIN room THEN room[k] ELSE KeyState_new(now), ip, now)
             Stored(x) == (k :> x) @@ room
             hot == [s EXCEPT !.hot_until = now + hot_duration]
         IN  IF is_hot(s, now)
             THEN {IF Cardinality(s.flagged) < MAX_FLAGGED_PER_KEY /\ ip \notin s.flagged
                   THEN [keys |-> Stored([hot EXCEPT !.flagged = @ \cup {ip}]),
                         pending |-> pend, out |-> {ip}]
                   ELSE [keys |-> Stored(hot), pending |-> pend, out |-> {}]}
             ELSE IF ~triggered(s, k)
             THEN {[keys |-> Stored(s), pending |-> pend, out |-> {}]}
             ELSE {[keys |-> Stored([hot EXCEPT !.flagged = @ \cup {ip} \cup Range(p)]),
                    pending |-> pend \o SubSeq(p, 1, Min({Len(p), MAX_PENDING - Len(pend)})),
                    out |-> {ip}] : p \in Participants(s, ip)}
        : room \in make_room(ks, k, now)}

\* the retroactive signals that leave with every event, whatever its type
drained == SubSeq(pending, 1, Min({retro_batch, Len(pending)}))
queued == SubSeq(pending, Len(drained) + 1, Len(pending))

process_multi ==
  /\ pending' = queued
  /\ sent' = sent \cup Range(drained)
  /\ UNCHANGED <<clock, keys>>

process_http(ip, ua, vhost, now, swept) ==
  /\ clock' = Max({clock, now})
  /\ \E a \in hit(IF swept THEN sweep(keys, now) ELSE keys, ua, queued, ip, now) :
     \E b \in IF vhost_min_distinct_ips = 0
              THEN {[a EXCEPT !.out = {}]} ELSE hit(a.keys, vhost, a.pending, ip, now) :
       /\ keys' = b.keys
       /\ pending' = b.pending
       /\ sent' = sent \cup Range(drained) \cup a.out \cup b.out

Next ==
  \/ process_multi
  \/ \E ip \in Ip, ua \in UserAgent, vhost \in Vhost,
        now \in Max({0, clock - Lag})..MaxTime, swept \in BOOLEAN :
       process_http(ip, ua, vhost, now, swept)

Spec == Init /\ [][Next]_vars

-----------------------------------------------------------------------------

(* ip_counts, which decides how many distinct sources a campaign has, is    *)
(* exactly the multiplicity of each source among the remembered hits, over  *)
(* every mix of new hits, expiry and the cap on hits per key.               *)
CountsMatch ==
  \A k \in DOMAIN keys :
    LET s == keys[k]
        Of(ip) == {i \in DOMAIN s.hits : s.hits[i].ip = ip}
    IN  /\ DOMAIN s.ip_counts = {s.hits[i].ip : i \in DOMAIN s.hits}
        /\ \A ip \in DOMAIN s.ip_counts : s.ip_counts[ip] = Cardinality(Of(ip))
        /\ Len(s.hits) <= max_hits_per_key

(* A source marked as already signalled really was, or its signal is still  *)
(* queued: being flagged never silences a participant (as long as the       *)
(* global queue has room).                                                  *)
FlaggedSignalled ==
  \A k \in DOMAIN keys : keys[k].flagged \subseteq sent \cup Range(pending)

(* A key turns hot only when enough distinct sources and requests are in    *)
(* its window; a hot key that is seen again stays hot.                      *)
HotBacked ==
  [][\A k \in DOMAIN keys' :
       LET s == keys'[k]
           late == {i \in DOMAIN s.hits : s.hits[i].t < s.last_seen - window}
           was_hot == k \in DOMAIN keys /\ is_hot(keys[k], s.last_seen)
       IN  s.hot_until # Cold /\ ~was_hot =>
             /\ Cardinality({s.hits[i].ip : i \in DOMAIN s.hits}) >= min_ips(k)
             /\ Len(s.hits) >= min_requests
             /\ Lag = 0 => late = {}]_vars

(* Room for a new key is never made at the expense of a running campaign    *)
(* while a quiet key could go instead.                                      *)
HotKeptLongest ==
  [][\A gone \in DOMAIN keys \ DOMAIN keys' : \A kept \in DOMAIN keys \cap DOMAIN keys' :
       is_hot(keys[gone], clock') =>
         is_hot(keys[kept], clock') \/ keys[kept] # keys'[kept]]_vars

=============================================================================
