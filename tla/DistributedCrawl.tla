-------------------------- MODULE DistributedCrawl --------------------------
(***************************************************************************)
(* The distributed-crawl detector (detectors/distributed_crawl.rs), the    *)
(* plugin that turns its state into a flag file for the web server         *)
(* (plugins/detector-distributed-crawl) and the published attack state     *)
(* (detectors/attack_state.rs).  It never bans.  The pipeline records      *)
(* events while a ticker evaluates the window; the process may stop or     *)
(* die, and writing or removing the flag file may fail.                    *)
(***************************************************************************)
EXTENDS Integers, Sequences, FiniteSets, FiniteSetsExt, SequencesExt, Functions

CONSTANTS
  Ip, window, fresh_ip_memory, fresh_ip_threshold, off_threshold, cooldown,
  max_tracked_ips, ORDER_SLACK,   \* the 1024 of the compaction rule
  MaxTime, MaxFailures, MaxOrder  \* bounds of the model

VARIABLES
  now,
  running,                          \* the process and its ticker are up
  seen_cur, seen_prev, generation_started,
  candidates, order,                \* fresh sources in the window, insertion order
  on, below_since,
  flag,                             \* the flag file exists
  published,                        \* attack_state: none, or the state shown
  failures                          \* file operations that failed so far

detector == <<seen_cur, seen_prev, generation_started, candidates, order, on, below_since>>
vars == <<now, running, seen_cur, seen_prev, generation_started, candidates, order,
          on, below_since, flag, published, failures>>

None == 0 - 1

Fresh ==
  /\ seen_cur = {} /\ seen_prev = {} /\ generation_started = None
  /\ candidates = << >> /\ order = <<>>
  /\ on = FALSE /\ below_since = None

\* a previous life of the process left its flag behind
Init ==
  /\ now = 0 /\ failures = 0
  /\ running = FALSE /\ published = "none"
  /\ flag = TRUE
  /\ Fresh

-----------------------------------------------------------------------------

Rotates(t) ==
  \/ t - (IF generation_started = None THEN t ELSE generation_started)
       >= fresh_ip_memory \div 2
  \/ Cardinality(seen_cur) >= max_tracked_ips \div 2
mark_seen(key, t) ==
  /\ seen_prev' = IF Rotates(t) THEN seen_cur ELSE seen_prev
  /\ seen_cur' = (IF Rotates(t) THEN {} ELSE seen_cur) \cup {key}
  /\ generation_started' = IF Rotates(t) \/ generation_started = None
                           THEN t ELSE generation_started
known_rotated(key, t) == key \in (IF Rotates(t) THEN {} ELSE seen_cur \cup seen_prev)
known(key, t) == key \in seen_cur \cup (IF Rotates(t) THEN {} ELSE seen_prev)

Current(c, o) == o.ip \in DOMAIN c /\ c[o.ip] = o.t
drop_oldest(c, q) ==
  LET live == {i \in DOMAIN q : Current(c, q[i])}
      cut == IF live = {} THEN Len(q) ELSE Min(live)
  IN  [candidates |-> IF live = {} THEN c ELSE Restrict(c, DOMAIN c \ {q[cut].ip}),
       order |-> SubSeq(q, cut + 1, Len(q))]

\* an event of the source; a static asset shows a browser, not a crawler
record(key, t, asset) ==
  LET full == Cardinality(DOMAIN candidates) >= max_tracked_ips
      room == IF full THEN drop_oldest(candidates, order)
              ELSE [candidates |-> candidates, order |-> order]
      fresh == asset = "watched" /\ ~known(key, t) /\ key \notin DOMAIN candidates
  IN  /\ running /\ Len(order) < MaxOrder
      /\ mark_seen(key, t)
      /\ IF asset = "static"
         THEN /\ candidates' = Restrict(candidates, DOMAIN candidates \ {key})
              /\ order' = order
         ELSE IF fresh
         THEN /\ candidates' = (key :> t) @@ room.candidates
              /\ order' = Append(room.order, [t |-> t, ip |-> key])
         ELSE UNCHANGED <<candidates, order>>
      /\ UNCHANGED <<now, running, on, below_since, flag, published, failures>>

-----------------------------------------------------------------------------

RECURSIVE expire(_, _, _)
expire(c, q, cutoff) ==
  IF q = <<>> \/ Head(q).t >= cutoff THEN [candidates |-> c, order |-> q]
  ELSE expire(IF Current(c, Head(q)) THEN Restrict(c, DOMAIN c \ {Head(q).ip}) ELSE c,
              Tail(q), cutoff)
compact(w) ==
  IF Len(w.order) > 2 * Cardinality(DOMAIN w.candidates) + ORDER_SLACK
  THEN [w EXCEPT !.order = SelectSeq(@, LAMBDA o : Current(w.candidates, o))] ELSE w

hysteresis(fresh_ips) ==
  LET since == IF below_since = None THEN now ELSE below_since
  IN  IF ~on THEN [on |-> fresh_ips > fresh_ip_threshold,
                   since |-> IF fresh_ips > fresh_ip_threshold THEN None ELSE below_since]
      ELSE IF fresh_ips >= off_threshold THEN [on |-> TRUE, since |-> None]
      ELSE IF now - since >= cooldown THEN [on |-> FALSE, since |-> None]
      ELSE [on |-> TRUE, since |-> since]

Fails(ok) ==
  /\ ok \/ failures < MaxFailures
  /\ failures' = failures + IF ok THEN 0 ELSE 1
write_flag(ok) == Fails(ok) /\ flag' = (flag \/ ok)
remove_flag(ok) == Fails(ok) /\ flag' = (flag /\ ~ok)

\* StateSink::apply: the flag follows a transition, and is put back on a
\* later tick when it is missing
apply_once(was, is, ok) ==
  CASE ~was /\ is -> published' = "on" /\ write_flag(ok)
    [] was /\ ~is -> published' = "off" /\ remove_flag(ok)
    [] OTHER -> UNCHANGED <<published, flag, failures>>
apply(was, is, ok) ==
  CASE ~was /\ is -> published' = "on" /\ write_flag(ok)
    [] was /\ ~is -> published' = "off" /\ remove_flag(ok)
    [] was /\ is /\ ~flag -> UNCHANGED published /\ write_flag(ok)
    [] OTHER -> ok /\ UNCHANGED <<published, flag, failures>>

evaluate(ok) ==
  /\ running
  /\ \E w \in {compact(expire(candidates, order, now - window))} :
     \E h \in {hysteresis(Cardinality(DOMAIN w.candidates))} :
       /\ candidates' = w.candidates /\ order' = w.order
       /\ on' = h.on /\ below_since' = h.since
       /\ apply(on, h.on, ok)
  /\ UNCHANGED <<now, running, seen_cur, seen_prev, generation_started>>

startup(ok) ==
  /\ ~running /\ running' = TRUE
  /\ published' = "off"
  /\ remove_flag(ok)
  /\ UNCHANGED <<now, detector>>

shutdown(ok) ==
  /\ running /\ running' = FALSE
  /\ published' = "none"
  /\ remove_flag(ok)
  /\ seen_cur' = {} /\ seen_prev' = {} /\ generation_started' = None
  /\ candidates' = << >> /\ order' = <<>> /\ on' = FALSE /\ below_since' = None
  /\ UNCHANGED now

crash ==
  /\ running /\ running' = FALSE
  /\ published' = "none"
  /\ seen_cur' = {} /\ seen_prev' = {} /\ generation_started' = None
  /\ candidates' = << >> /\ order' = <<>> /\ on' = FALSE /\ below_since' = None
  /\ UNCHANGED <<now, flag, failures>>

\* someone else deletes the file
lose_flag ==
  /\ flag /\ flag' = FALSE
  /\ UNCHANGED <<now, running, detector, published, failures>>

tick ==
  /\ now < MaxTime /\ now' = now + 1
  /\ UNCHANGED <<running, detector, flag, published, failures>>

Record == \E key \in Ip, asset \in {"static", "watched", "other"} : record(key, now, asset)
Evaluate == \E ok \in BOOLEAN : evaluate(ok)

Next ==
  \/ Record
  \/ Evaluate
  \/ \E ok \in BOOLEAN : startup(ok)
  \/ \E ok \in BOOLEAN : shutdown(ok)
  \/ crash
  \/ lose_flag
  \/ tick

Spec == Init /\ [][Next]_vars

-----------------------------------------------------------------------------

(* What is published agrees with the state machine: the gauge is on exactly *)
(* while the detector considers the site under attack.                      *)
GaugeTruthful == running => (published = "on") = on

(* The attack state is left only after the count stayed below off_threshold *)
(* for the whole cooldown, and entered only above fresh_ip_threshold.       *)
CooldownRespected ==
  [][running /\ running' =>
       /\ (on /\ ~on') => /\ Cardinality(DOMAIN candidates') < off_threshold
                          /\ \/ cooldown = 0
                             \/ below_since # None /\ now - below_since >= cooldown
       /\ (~on /\ on') => Cardinality(DOMAIN candidates') > fresh_ip_threshold]_vars

(* A source already seen in the current or the previous generation is not   *)
(* counted as fresh, and the seen-sets stay within their bound.             *)
ReturningNotFresh ==
  [][\A ip \in DOMAIN candidates' \ DOMAIN candidates :
       running => /\ ip \notin seen_cur
                  /\ ip \in seen_prev => Rotates(now)]_vars
SeenBounded ==
  Cardinality(seen_cur) <= Max({1, max_tracked_ips \div 2})
  /\ Cardinality(DOMAIN candidates) <= max_tracked_ips

(* While the attack lasts the flag file comes back, whether a write failed  *)
(* or something deleted the file.                                           *)
FlagReasserted == [](running /\ on => <>(flag \/ ~on \/ ~running))

=============================================================================
