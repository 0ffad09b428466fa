--------------------------- MODULE WebshellProbe ---------------------------
(***************************************************************************)
(* The webshell-probing detector (detectors/webshell_probe.rs): distinct   *)
(* suspicious PHP paths per source, weighted, with a bonus for a path that *)
(* other sources probed too.  Both tables evict their least recently seen  *)
(* entries when full.  Scores are counted in half points.                  *)
(***************************************************************************)
EXTENDS Integers, Sequences, FiniteSets, FiniteSetsExt, SequencesExt, Functions

CONSTANTS
  Ip, Request,      \* the sources, and [path, status, ua] requests they make
  legit,            \* the configured rules: [kind, value]
  window, min_distinct_paths, score_threshold, shared_path_min_ips,
  max_tracked_ips, max_tracked_paths, MAX_PATHS_PER_IP, Lag, MaxTime

VARIABLES clock, ips, paths, signal
vars == <<clock, ips, paths, signal>>

None == [subject |-> 0]
Init == clock = 0 /\ ips = << >> /\ paths = << >> /\ signal = None

-----------------------------------------------------------------------------
(* A request path is [dir, stem, class, ext, slash]: its directory, its     *)
(* file stem, what the stem looks like, its extension as written and        *)
(* whether a slash follows it.                                              *)

Lower(ext) == IF ext = "PhP" THEN "php" ELSE ext
php_like(ext) == Lower(ext) \in {"php", "php7", "phtml", "phar", "pht", "phps"}

classify_php_path(p) ==
  [norm |-> [dir |-> p.dir, stem |-> p.stem, ext |-> Lower(p.ext)],
   unusual_ext |-> p.ext # "php" \/ p.slash,
   suspicious_name |-> p.class \in {"digits", "random_mixed", "shell_word"},
   in_uploads |-> p.dir = "/wp-content/uploads/"]

InContent(dir) == dir \in {"/wp-content/", "/wp-content/uploads/"}

is_legit(norm) ==
  \E r \in legit :
    CASE r.kind = "segment" -> norm.dir = r.dir
      [] r.kind = "exact" -> norm.dir = "/" /\ <<norm.stem, norm.ext>> = <<r.stem, "php">>
      [] r.kind = "basename" -> /\ <<norm.stem, norm.ext>> = <<r.stem, "php">>
                                /\ ~InContent(norm.dir)

points(php, r, shared_bonus) ==
    (IF r.status = "2xx" THEN 1 ELSE 2)
  + (IF r.ua = "" THEN 2 ELSE 0)
  + (IF php.unusual_ext THEN 3 ELSE 0)
  + (IF php.suspicious_name THEN 2 ELSE 0)
  + (IF php.in_uploads THEN 4 ELSE 0)
  + shared_bonus

-----------------------------------------------------------------------------

sweep(map, now) ==
  Restrict(map, {k \in DOMAIN map : map[k].last_seen >= now - window})

\* the max(len / 10, 1) least recently seen entries; ties are unspecified
evict_newest(map) ==
  {Restrict(map, DOMAIN map \ {k}) : k \in
     {k \in DOMAIN map : \A o \in DOMAIN map : map[k].last_seen >= map[o].last_seen}}
evict_oldest(map) ==
  LET n == Max({Cardinality(DOMAIN map) \div 10, 1})
      Oldest(old) == \A k \in old, o \in DOMAIN map \ old :
                       map[k].last_seen <= map[o].last_seen
  IN  {Restrict(map, DOMAIN map \ old) : old \in
         {old \in kSubset(n, DOMAIN map) : Oldest(old)}}

Swept(map, k, max, now) ==
  IF k \in DOMAIN map \/ Cardinality(DOMAIN map) < max THEN map ELSE sweep(map, now)
room_for(map, k, max, now) ==
  LET swept == Swept(map, k, max, now)
  IN  IF k \in DOMAIN swept \/ Cardinality(DOMAIN swept) < max
      THEN {swept} ELSE evict_oldest(swept)

others(ps, ip) == Cardinality(ToSet(ps) \ {ip})

\* the sources remembered for a path, before and after this probe
Known(map, h, now) ==
  IF h \in DOMAIN map /\ map[h].last_seen >= now - window THEN map[h].ips ELSE <<>>
remember(ps, ip) ==
  IF ip \in ToSet(ps) THEN ps
  ELSE Append(IF Len(ps) >= shared_path_min_ips + 1 THEN Tail(ps) ELSE ps, ip)

RECURSIVE expire_front(_, _)
expire_front(q, cutoff) ==
  IF q # <<>> /\ Head(q).t < cutoff THEN expire_front(Tail(q), cutoff) ELSE q

Sum(q) == FoldSeq(LAMBDA x, acc : x.points + acc, 0, q)
fires(q) == Len(q) >= min_distinct_paths /\ Sum(q) >= score_threshold

\* the source's paths after this probe, and the signal it raises
count(q, ip, norm, pts, now) ==
  LET q2 == Append(IF Len(q) >= MAX_PATHS_PER_IP THEN Tail(q) ELSE q,
                   [h |-> norm, points |-> pts, t |-> now])
  IN  IF \E i \in DOMAIN q : q[i].h = norm THEN [q |-> q, out |-> None]
      ELSE IF fires(q2)
           THEN [q |-> <<>>, out |-> [subject |-> ip, paths |-> q2, ts |-> now]]
      ELSE [q |-> q2, out |-> None]

process(ip, r, now, swept) ==
  LET php == classify_php_path(r.path)
      h == php.norm
      all == IF swept THEN <<sweep(ips, now), sweep(paths, now)>> ELSE <<ips, paths>>
      full == shared_path_min_ips > 0 /\ h \notin DOMAIN all[2]
              /\ Cardinality(DOMAIN all[2]) >= max_tracked_paths
      seen == IF full THEN sweep(all[1], now) ELSE all[1]
      crowded == ip \notin DOMAIN seen /\ Cardinality(DOMAIN seen) >= max_tracked_ips
  IN  /\ php_like(r.path.ext)
      /\ ~is_legit(h)
      /\ clock' = Max({clock, now})
      /\ \E pm \in IF shared_path_min_ips > 0
                   THEN room_for(all[2], h, max_tracked_paths, now) ELSE {all[2]},
            im \in room_for(seen, ip, max_tracked_ips, now) :
           LET ps == Known(pm, h, now)
               bonus == IF shared_path_min_ips > 0
                           /\ others(ps, ip) >= shared_path_min_ips THEN 2 ELSE 0
               q == expire_front(IF ip \in DOMAIN im THEN im[ip].paths ELSE <<>>,
                                 now - window)
               rest == IF crowded THEN sweep(pm, now) ELSE pm
           IN  /\ paths' = IF shared_path_min_ips = 0 THEN rest
                           ELSE (h :> [ips |-> remember(ps, ip), last_seen |-> now]) @@ rest
               /\ \E c \in {count(q, ip, h, points(php, r, bonus), now)} :
                    /\ ips' = (ip :> [paths |-> c.q, last_seen |-> now]) @@ im
                    /\ signal' = c.out

Next ==
  \E ip \in Ip, r \in Request, now \in Max({0, clock - Lag})..MaxTime, swept \in BOOLEAN :
    process(ip, r, now, swept)

Spec == Init /\ [][Next]_vars

-----------------------------------------------------------------------------

(* Neither table outgrows its limit, and a path never remembers more than   *)
(* shared_path_min_ips + 1 distinct sources.                                *)
TablesBounded ==
  /\ Cardinality(DOMAIN ips) <= max_tracked_ips
  /\ Cardinality(DOMAIN paths) <= max_tracked_paths
  /\ \A h \in DOMAIN paths : /\ Len(paths[h].ips) <= shared_path_min_ips + 1
                             /\ IsInjective(paths[h].ips)
  /\ \A ip \in DOMAIN ips : ips[ip].paths = <<>> \/ ~fires(ips[ip].paths)

(* A signal names a source that probed min_distinct_paths different paths,  *)
(* counted once however often, in whatever case or with whatever trailing   *)
(* slash they were requested; none is older than the window by more than    *)
(* the reordering of the events.                                            *)
ProbesDistinct ==
  signal # None =>
    /\ Cardinality({signal.paths[i].h : i \in DOMAIN signal.paths}) >= min_distinct_paths
    /\ Sum(signal.paths) >= score_threshold
    /\ \A i \in DOMAIN signal.paths : signal.paths[i].t >= signal.ts - window - Lag

(* When the table of sources is full it is the least recently seen that is  *)
(* forgotten: a source that stays active is not displaced by a newcomer.    *)
LeastRecentEvicted ==
  [][\A gone \in DOMAIN ips \ DOMAIN ips' : \A kept \in DOMAIN ips \cap DOMAIN ips' :
       ips[kept].last_seen = ips'[kept].last_seen =>
         ips[gone].last_seen <= ips[kept].last_seen]_vars

(* The shared-path bonus needs other sources: whoever is alone in probing a *)
(* path is scored without it, however often that source repeats itself.     *)
BonusNeedsOthers ==
  [][\A ip \in DOMAIN ips' : \A i \in DOMAIN ips'[ip].paths :
       LET x == ips'[ip].paths[i]
           before == IF ip \in DOMAIN ips THEN ToSet(ips[ip].paths) ELSE {}
       IN  (x \notin before /\ (\A h \in DOMAIN paths : h = x.h =>
                                   Cardinality(ToSet(paths[h].ips) \ {ip}) < shared_path_min_ips))
           => \E r \in Request : /\ classify_php_path(r.path).norm = x.h
                                 /\ x.points = points(classify_php_path(r.path), r, 0)]_vars

=============================================================================
