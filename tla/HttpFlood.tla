----------------------------- MODULE HttpFlood -----------------------------
(***************************************************************************)
(* The volumetric detector (detectors/http_flood.rs): tumbling-window      *)
(* request counters per address and per subnet.  Timestamps come from log  *)
(* lines and may be up to Lag behind the newest one.                       *)
(***************************************************************************)
EXTENDS Integers, Sequences, FiniteSets, FiniteSetsExt, SequencesExt, Functions

CONSTANTS Ip, network, window, ip_threshold, subnet_threshold,
          Lag, MaxTime, MaxEvents

VARIABLES
  clock,      \* the newest timestamp so far
  counters,   \* partial function: address or subnet -> window counter
  requests,   \* the counted requests, oldest first
  signals     \* the signals raised, oldest first

vars == <<clock, counters, requests, signals>>

ip_to_subnet(ip) == network[ip]

Init == clock = 0 /\ counters = << >> /\ requests = <<>> /\ signals = <<>>

WindowCounter(cs, k, ts) ==
  IF k \in DOMAIN cs THEN cs[k] ELSE [window_start |-> ts, count |-> 0]

bump(c, ts) ==
  IF ts - c.window_start >= window
  THEN [window_start |-> ts, count |-> 1]
  ELSE [c EXCEPT !.count = @ + 1]

\* a threshold of 0 switches a tier off; it fires when the count reaches it
counted(cs, k, ts, threshold) ==
  IF threshold = 0 THEN cs
  ELSE (k :> bump(WindowCounter(cs, k, ts), ts)) @@ cs
fires(cs, k, threshold) == threshold > 0 /\ cs[k].count = threshold

maybe_sweep(cs, now) ==
  Restrict(cs, {k \in DOMAIN cs : now - cs[k].window_start < 4 * window})

process(ip, ts, ignored_path, sweep) ==
  LET subnet == ip_to_subnet(ip)
      swept == IF sweep THEN maybe_sweep(counters, ts) ELSE counters
      sub == counted(swept, subnet, ts, subnet_threshold)
      host == counted(sub, ip, ts, ip_threshold)
      raise(k) == signals' = Append(signals,
                    [subject |-> k, ts |-> ts, at |-> Len(requests) + 1])
  IN
  /\ Len(requests) < MaxEvents
  /\ clock' = Max({clock, ts})
  /\ IF ignored_path THEN UNCHANGED <<counters, requests, signals>>
     ELSE /\ requests' = Append(requests, [ip |-> ip, ts |-> ts])
          /\ IF fires(sub, subnet, subnet_threshold)
             THEN counters' = sub /\ raise(subnet)
             ELSE /\ counters' = host
                  /\ IF fires(host, ip, ip_threshold)
                     THEN raise(ip) ELSE UNCHANGED signals

Next ==
  \E ip \in Ip, ts \in Max({0, clock - Lag})..MaxTime, ignored, sweep \in BOOLEAN :
    process(ip, ts, ignored, sweep)

Spec == Init /\ [][Next]_vars

-----------------------------------------------------------------------------

Member(ip, k) == k \in {ip, network[ip]}
Threshold(k) == IF k \in Ip THEN ip_threshold ELSE subnet_threshold
\* positions of the requests of k
Of(k) == {i \in DOMAIN requests : Member(requests[i].ip, k)}

(* Every signal stands for its own threshold of requests: those of its      *)
(* subject since the subject's previous signal, less than a window (plus    *)
(* lateness) apart.                                                         *)
SignalBacked ==
  \A n \in DOMAIN signals :
    LET s == signals[n]
        before == {0} \cup {signals[m].at : m \in {m \in 1..(n - 1) :
                                     signals[m].subject = s.subject}}
        fresh == {i \in Of(s.subject) : Max(before) < i /\ i <= s.at}
        recent == {i \in fresh : requests[i].ts > s.ts - window - Lag}
    IN  Cardinality(recent) >= Threshold(s.subject)

\* k, or the subnet around it, was signalled at one of the requests in S or
\* shortly before it
Reported(k, S) ==
  \E n \in DOMAIN signals :
    /\ signals[n].subject = k \/ (k \in Ip /\ signals[n].subject = network[k])
    /\ signals[n].ts > Min({requests[i].ts : i \in S}) - window - Lag

(* A flood is noticed wherever it falls on the tumbling windows: 2n - 1     *)
(* requests inside one window's length never pass without a signal.         *)
FloodNoticed ==
  \A k \in Ip \cup {network[ip] : ip \in Ip} :
    \A S \in kSubset(2 * Threshold(k) - 1, Of(k)) :
      LET ts == {requests[i].ts : i \in S}
          gapless == \A i \in Of(k) : Min(S) < i /\ i < Max(S) =>
                       requests[i].ts - Min(ts) < window /\ Max(ts) - requests[i].ts < window
      IN  (Max(ts) - Min(ts) < window /\ gapless) => Reported(k, S)

=============================================================================
