--------------------------- MODULE SlidingWindow ---------------------------
(***************************************************************************)
(* The detectors that count the events of a source in a sliding window:    *)
(* ssh_bruteforce (two windows, keyed by address prefix), smtp_bruteforce  *)
(* and http_4xx_flood (one window, keyed by address), http_login_bruteforce*)
(* (a subnet window in front of a per-address one) and timing.             *)
(*                                                                         *)
(* The pipeline hands events to a detector one at a time, but their        *)
(* timestamps come from the log lines of several sources: an event may be  *)
(* up to Lag older than the newest one already seen.                       *)
(***************************************************************************)
EXTENDS Integers, Sequences, FiniteSets, FiniteSetsExt, SequencesExt

CONSTANTS
  Ip,                       \* source addresses
  network,                  \* [Ip -> truncated prefix], netkey.rs
  threshold, window,        \* the main window
  enum_threshold, enum_window,
  subnet_threshold, subnet_min_distinct_ips,
  subnet_cap,               \* subnet_threshold * 4 + 64 in the code
  min_samples, stddev_threshold,
  Lag, MaxTime, MaxEvents   \* bounds: lateness, clock, events

VARIABLES
  detector,                 \* which detector is running
  clock,                    \* the newest timestamp so far
  deques,                   \* [table -> [key -> sequence of counted events]]
  events,                   \* every event processed
  signal,                   \* what the last call of process returned
  spent                     \* <<table, event>> counted in an earlier signal

vars == <<detector, clock, deques, events, signal, spent>>

Detectors == {"ssh_bruteforce", "smtp_bruteforce", "http_4xx_flood",
              "http_login_bruteforce", "timing"}
Tables == {"failures", "enum_failures", "subnet_hits"}
Keys == Ip \cup {network[ip] : ip \in Ip}
None == [kind |-> "none"]

source_key(ip) == network[ip]
subnet_of(ip) == network[ip]

Init ==
  /\ detector \in Detectors
  /\ clock = 0
  /\ deques = [t \in Tables |-> [k \in Keys |-> <<>>]]
  /\ events = <<>>
  /\ signal = None
  /\ spent = {}

\* pop_front while the oldest entry is stale or the deque is too long
prune_front(dq, w, now, cap) ==
  LET stop == {k \in 0..Len(dq) :
                 /\ k < Len(dq) => dq[k + 1].ts >= now - w
                 /\ Len(dq) - k <= cap}
  IN  SubSeq(dq, Min(stop) + 1, Len(dq))
prune_window_strict(dq, w, now) == prune_front(dq, w - 1, now, Len(dq))
prune_window(dq, w, now) == prune_front(dq, w, now, Len(dq))

Signal(t, subject, e, dq) ==
  [kind |-> t, subject |-> subject, ts |-> e.ts, entries |-> ToSet(dq)]

Put(ds, t, k, dq) == [ds EXCEPT ![t][k] = dq]

\* one window: push, prune, fire and clear at the threshold
window_check(ds, t, k, e, w, n) ==
  LET dq == prune_window(Append(ds[t][k], e), w, e.ts)
  IN  IF Len(dq) >= n
      THEN [ds |-> Put(ds, t, k, <<>>), out |-> Signal(t, k, e, dq)]
      ELSE [ds |-> Put(ds, t, k, dq), out |-> None]

ssh_bruteforce(ds, e) ==
  LET k == source_key(e.ip)
      main == window_check(ds, "failures", k, e, window, threshold)
  IN  IF main.out # None \/ ~e.invalid_user THEN main
      ELSE window_check(main.ds, "enum_failures", k, e, enum_window,
                        enum_threshold)

smtp_bruteforce(ds, e) ==
  window_check(ds, "failures", e.ip, e, window, threshold)

http_4xx_flood(ds, e) ==
  window_check(ds, "failures", e.ip, e, window, threshold)

\* every 4096th event drops the deques whose last entry is stale
maybe_sweep(ds, now) ==
  [t \in Tables |-> [k \in Keys |->
     IF ds[t][k] # <<>> /\ Last(ds[t][k]).ts >= now - window
     THEN ds[t][k] ELSE <<>>]]

Addresses(dq) == {dq[i].ip : i \in DOMAIN dq}
subnet_check(ds, e) ==
  LET k == subnet_of(e.ip)
      dq == prune_front(Append(ds["subnet_hits"][k], e), window, e.ts, subnet_cap)
      hot == /\ Len(dq) >= subnet_threshold
             /\ Cardinality(Addresses(dq)) >= subnet_min_distinct_ips
  IN  [ds |-> Put(ds, "subnet_hits", k, IF hot THEN <<>> ELSE dq),
       out |-> IF hot THEN Signal("subnet_hits", k, e, dq) ELSE None]

\* a subnet signal hides the event from the per-address window, which is
\* never cleared: above the threshold every further attempt signals
http_login_bruteforce(ds, e, sweep) ==
  LET swept == IF sweep THEN maybe_sweep(ds, e.ts) ELSE ds
      sub == subnet_check(swept, e)
      dq == prune_window(Append(sub.ds["failures"][e.ip], e), window, e.ts)
  IN  IF sub.out # None THEN sub
      ELSE [ds |-> Put(sub.ds, "failures", e.ip, dq),
            out |-> IF Len(dq) >= threshold
                    THEN Signal("failures", e.ip, e, dq) ELSE None]

\* n^2 * variance of the n intervals between the sorted timestamps
Spread(dq) ==
  LET ts == SortSeq([i \in DOMAIN dq |-> dq[i].ts], <)
      d == [i \in 1..(Len(ts) - 1) |-> ts[i + 1] - ts[i]]
      sum(f) == FoldLeft(LAMBDA a, b : a + b, 0, f)
  IN  Len(d) * sum([i \in DOMAIN d |-> d[i] * d[i]]) - sum(d) * sum(d)
inter_arrival_stddev_below(dq) ==
  /\ Len(dq) >= 2
  /\ Spread(dq) < (stddev_threshold * (Len(dq) - 1)) ^ 2

timing(ds, e) ==
  LET kept == SelectSeq(ds["failures"][e.ip], LAMBDA x : x.ts > e.ts - window)
      dq == Append(kept, e)
  IN  [ds |-> Put(ds, "failures", e.ip, dq),
       out |-> IF Len(dq) >= min_samples /\ inter_arrival_stddev_below(dq)
               THEN Signal("failures", e.ip, e, dq) ELSE None]

Result(e, sweep) ==
  CASE detector = "ssh_bruteforce" -> ssh_bruteforce(deques, e)
    [] detector = "smtp_bruteforce" -> smtp_bruteforce(deques, e)
    [] detector = "http_4xx_flood" -> http_4xx_flood(deques, e)
    [] detector = "http_login_bruteforce" -> http_login_bruteforce(deques, e, sweep)
    [] detector = "timing" -> timing(deques, e)

process(ip, ts, invalid_user, sweep) ==
  /\ Len(events) < MaxEvents
  /\ invalid_user => detector = "ssh_bruteforce"
  /\ sweep => detector = "http_login_bruteforce"
  /\ LET e == [id |-> Len(events) + 1, ip |-> ip, ts |-> ts,
               invalid_user |-> invalid_user]
         r == Result(e, sweep)
     IN  /\ events' = Append(events, e)
         /\ clock' = Max({clock, ts})
         /\ deques' = r.ds
         /\ signal' = r.out
         /\ spent' = IF signal = None THEN spent
                     ELSE spent \cup ({signal.kind} \X {x.id : x \in signal.entries})
  /\ UNCHANGED detector

Next ==
  \E ip \in Ip, ts \in Max({0, clock - Lag})..MaxTime,
     invalid_user, sweep \in BOOLEAN : process(ip, ts, invalid_user, sweep)

Spec == Init /\ [][Next]_vars

-----------------------------------------------------------------------------

Needed(s) ==
  CASE detector = "timing" -> min_samples
    [] s.kind = "failures" -> threshold
    [] s.kind = "enum_failures" -> enum_threshold
    [] s.kind = "subnet_hits" -> subnet_threshold
WindowOf(t) == IF t = "enum_failures" THEN enum_window ELSE window
Member(ip, subject) == subject = ip \/ subject = network[ip]

(* A signal rests on enough events, all of its own subject, and none older  *)
(* than the window plus the lateness of the input, although only the front  *)
(* of a deque is ever pruned; a subnet is named only when enough of its     *)
(* addresses took part (http_login_bruteforce.rs, subnet_check).            *)
SignalBacked ==
  signal # None =>
    /\ Cardinality(signal.entries) >= Needed(signal)
    /\ \A x \in signal.entries :
         /\ Member(x.ip, signal.subject)
         /\ x.ts >= signal.ts - WindowOf(signal.kind) - Lag
         /\ signal.kind = "enum_failures" => x.invalid_user
    /\ signal.kind = "subnet_hits" =>
         Cardinality({x.ip : x \in signal.entries}) >= subnet_min_distinct_ips

(* The brute-force and flood detectors clear a window when it fires, so no  *)
(* event is counted in two signals of the same window.                      *)
CountedOnce ==
  (signal # None /\ detector \notin {"timing", "http_login_bruteforce"}) =>
    \A x \in signal.entries : <<signal.kind, x.id>> \notin spent

OfKey(k) == {x \in ToSet(events) : Member(x.ip, k)}
Consumed(x) ==
  \/ <<"failures", x.id>> \in spent
  \/ signal # None /\ signal.kind = "failures" /\ x \in signal.entries
CountingKeys ==
  IF detector = "ssh_bruteforce" THEN {network[ip] : ip \in Ip} ELSE Ip

(* No burst goes unnoticed: a source never has a threshold's worth of       *)
(* unconsumed failures inside one window, whatever order they were logged   *)
(* in.                                                                      *)
BurstsNoticed ==
  detector \in {"ssh_bruteforce", "smtp_bruteforce", "http_4xx_flood"} =>
    \A k \in CountingKeys :
      Cardinality({x \in OfKey(k) :
                     /\ ~Consumed(x)
                     /\ \A y \in OfKey(k) : x.ts >= y.ts - window}) < threshold

=============================================================================
