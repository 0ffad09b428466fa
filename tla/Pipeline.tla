------------------------------ MODULE Pipeline ------------------------------
(***************************************************************************)
(* The event pipeline of the daemon (pipeline.rs) with the default scoring *)
(* engine (plugins/scoring-default): one task takes events from a channel, *)
(* turns them into signals, accumulates these per source and issues bans.  *)
(* Between its awaits the whitelist and the ban store change, a            *)
(* reputation lookup answers or not, persisting or enforcing may fail, and *)
(* shutdown drops the task wherever it is suspended.                       *)
(***************************************************************************)
EXTENDS Integers, Sequences, FiniteSets, Functions, TLC

CONSTANTS
  Event,        \* [ip, trusted, datacenter, block, found], found a sequence of signals
  CtiSeverity,  \* severities a reputation provider may report
  Protectable,  \* entries an operator may add to the whitelist
  addr,         \* [subject -> the address its evidence is filed under]
  prefix_len,   \* [subject -> Nat]
  covers,       \* the pairs <<net, address>> with the address in the net
  ban_severity_threshold, accumulation_window, boost,
  BOT_SIGNAL_INTERVAL, BOT_SIGNAL_TRACKED_MAX,
  MaxEvents, MaxSignals, MaxTime, MaxFaults

\* A detector names subjects that have an address; validate refuses a threshold of 0.
ASSUME EventAssumption ==
  /\ \A e \in Event : /\ e.ip \in DOMAIN addr
                      /\ e.found \in Seq([subject : DOMAIN addr, severity : Nat])
  /\ CtiSeverity \subseteq Nat /\ boost \in Nat
ASSUME ScoringAssumption ==
  ban_severity_threshold \in Nat \ {0} /\ accumulation_window \in Nat

VARIABLES
  now, inbox, arrived, stopping,
  pc, event, todo, via,      \* the task: where it is and what it carries
  decision,
  buckets,                   \* [address -> the set of signals accumulated]
  bot_signal_last,           \* partial function: address -> last bot-policy signal
  bans, whitelist,           \* the state manager's, seen through its lock
  faults,
  next_id, spent,            \* history: signal numbers; those a decision used up
  issued, announced, dropped \* history: decisions added, announced, cut short

carried == <<pc, event, todo, via, decision>>
history == <<next_id, spent, issued, announced, dropped>>
vars == <<now, inbox, arrived, stopping, pc, event, todo, via, decision, buckets,
          bot_signal_last, bans, whitelist, faults,
          next_id, spent, issued, announced, dropped>>

NoEvent == [ip |-> 0]
NoDecision == [subject |-> 0]

Init ==
  /\ now = 0 /\ inbox = 0 /\ arrived = 0 /\ stopping = FALSE
  /\ pc = "recv" /\ event = NoEvent /\ todo = <<>> /\ via = "detectors"
  /\ decision = NoDecision
  /\ buckets = [a \in Range(addr) |-> {}]
  /\ bot_signal_last = << >>
  /\ bans = {} /\ whitelist = {} /\ faults = 0
  /\ next_id = 1 /\ spent = {} /\ issued = {} /\ announced = <<>> /\ dropped = {}

Fault(ok) == (ok \/ faults < MaxFaults) /\ faults' = faults + IF ok THEN 0 ELSE 1

-----------------------------------------------------------------------------
(* Scoring (plugins/scoring-default)                                        *)

prune_signals(b) == {s \in b : s.ts >= now - accumulation_window}
\* the sum of the severities: every signal has as many units as its severity
Units(b) == UNION {{s} \X (1..s.severity) : s \in b}
total_severity(b) == Cardinality(Units(b))
widest(b) ==
  CHOOSE s \in {x.subject : x \in b} : \A x \in b : prefix_len[s] <= prefix_len[x.subject]

record(a, s) == buckets[a] \cup {s}

\* what evaluate leaves in the bucket, and the decision it reaches
evaluate_kept(b) ==
  IF total_severity(b) < ban_severity_threshold
  THEN [bucket |-> b, out |-> NoDecision]
  ELSE [bucket |-> b, out |-> [subject |-> widest(b), evidence |-> b]]
evaluate(b) ==
  IF total_severity(b) < ban_severity_threshold
  THEN [bucket |-> b, out |-> NoDecision]
  ELSE [bucket |-> {}, out |-> [subject |-> widest(b), evidence |-> b]]

-----------------------------------------------------------------------------
(* The task                                                                 *)

\* one bot-policy signal per source and interval, from a bounded map
Recent(last) == {a \in DOMAIN last : now - last[a] < BOT_SIGNAL_INTERVAL}
bot_room(last) ==
  IF Cardinality(DOMAIN last) < BOT_SIGNAL_TRACKED_MAX THEN last
  ELSE IF Cardinality(Recent(last)) < BOT_SIGNAL_TRACKED_MAX
       THEN Restrict(last, Recent(last)) ELSE << >>
bot_limited(e) == e.ip \in Recent(bot_signal_last)
block_signal(e) == [subject |-> e.ip, severity |-> ban_severity_threshold, ts |-> now, id |-> 0]

InNet(net, ip) == <<net, ip>> \in covers
Boosted(e, s) ==
  IF e.datacenter /\ InNet(s.subject, e.ip) THEN [s EXCEPT !.severity = @ + boost] ELSE s
Stamped(e, ss) ==
  [i \in DOMAIN ss |-> Boosted(e, [subject |-> ss[i].subject, severity |-> ss[i].severity,
                                   ts |-> now, id |-> 0])]

recv(e) ==
  /\ pc = "recv" /\ inbox > 0
  /\ inbox' = inbox - 1
  /\ IF e.trusted
     THEN UNCHANGED <<carried, bot_signal_last>>
     ELSE /\ event' = e /\ pc' = "cti" /\ via' = "detectors"
          /\ IF e.block /\ ~bot_limited(e)
             THEN /\ todo' = <<block_signal(e)>>
                  /\ bot_signal_last' = (e.ip :> now) @@ bot_room(bot_signal_last)
             ELSE todo' = <<>> /\ UNCHANGED bot_signal_last
          /\ UNCHANGED decision
  /\ UNCHANGED <<now, arrived, stopping, buckets, bans, whitelist, faults, history>>

\* the reputation lookup: its signal goes through scoring before the others
enrich ==
  /\ pc = "cti"
  /\ \/ pc' = "detect" /\ UNCHANGED <<via, todo>>
     \/ \E severity \in CtiSeverity :
          /\ todo' = <<[subject |-> event.ip, severity |-> severity, ts |-> now, id |-> 0]>>
                     \o todo
          /\ via' = "cti" /\ pc' = "check"
  /\ UNCHANGED <<now, inbox, arrived, stopping, event, decision, buckets, bot_signal_last,
                 bans, whitelist, faults, history>>

detect ==
  /\ pc = "detect"
  /\ todo' = todo \o Stamped(event, event.found)
  /\ via' = "detectors" /\ pc' = "check"
  /\ UNCHANGED <<now, inbox, arrived, stopping, event, decision, buckets, bot_signal_last,
                 bans, whitelist, faults, history>>

AfterSignal_detect == "detect"
AfterSignal == IF via = "cti" THEN "detect" ELSE "check"

Meet(m, n) == \E ip \in Range(addr) : InNet(m, ip) /\ InNet(n, ip)
overlaps(subject) == \E w \in whitelist : Meet(w, subject)

score_unless_whitelisted ==
  /\ pc = "check" /\ todo # <<>> /\ next_id <= MaxSignals
  /\ LET s == [Head(todo) EXCEPT !.id = next_id]
         a == addr[s.subject]
         r == evaluate(prune_signals(record(a, s)))
     IN  IF overlaps(s.subject)
         THEN /\ pc' = AfterSignal
              /\ UNCHANGED <<decision, buckets, next_id, spent>>
         ELSE /\ next_id' = next_id + 1
              /\ buckets' = [buckets EXCEPT ![a] = r.bucket]
              /\ decision' = r.out
              /\ spent' = spent \cup IF r.out = NoDecision THEN {}
                                     ELSE {<<x.id, next_id>> : x \in r.out.evidence}
              /\ pc' = IF r.out = NoDecision THEN AfterSignal ELSE "admit"
  /\ todo' = Tail(todo)
  /\ UNCHANGED <<now, inbox, arrived, stopping, event, via, bot_signal_last, bans, whitelist,
                 faults, issued, announced, dropped>>

event_done ==
  /\ pc = "check" /\ todo = <<>>
  /\ pc' = "recv" /\ event' = NoEvent
  /\ UNCHANGED <<now, inbox, arrived, stopping, todo, via, decision, buckets,
                 bot_signal_last, bans, whitelist, faults, history>>

CoveredBy(subject) ==
  {b \in bans : \A ip \in Range(addr) : InNet(subject, ip) => InNet(b, ip)}

\* Pipeline::admit: one critical section.  A ban of the same subject is at most
\* extended and one that covers it and lasts longer is enough; only a brand-new
\* ban is enforced and announced.
Admitted(new) ==
  /\ pc = "admit"
  /\ IF new
     THEN /\ bans' = bans \cup {decision.subject}
          /\ issued' = issued \cup {next_id} /\ pc' = "enforce"
     ELSE pc' = AfterSignal /\ UNCHANGED <<bans, issued>>
  /\ UNCHANGED <<now, inbox, arrived, stopping, event, todo, via, decision, buckets,
                 bot_signal_last, whitelist, next_id, spent, announced, dropped>>
admit(ok, lasting) ==
  /\ Fault(ok)
  /\ Admitted(/\ ok /\ ~overlaps(decision.subject)
              /\ decision.subject \notin bans
              /\ ~(lasting /\ CoveredBy(decision.subject) # {}))

apply_ban(ok) ==
  /\ pc = "enforce" /\ Fault(ok)
  /\ pc' = "announce"
  /\ UNCHANGED <<now, inbox, arrived, stopping, event, todo, via, decision, buckets,
                 bot_signal_last, bans, whitelist, history>>

\* the exporter, the sinks and the alert queue; their failures are only logged
announce ==
  /\ pc = "announce"
  /\ announced' = Append(announced, next_id)
  /\ pc' = AfterSignal /\ decision' = NoDecision
  /\ UNCHANGED <<now, inbox, arrived, stopping, event, todo, via, buckets,
                 bot_signal_last, bans, whitelist, faults,
                 next_id, spent, issued, dropped>>

-----------------------------------------------------------------------------
(* Shutdown (main.rs): the running future is dropped, the channel closed    *)
(* and the rest of it drained until the five seconds are over.              *)

Dropping ==
  /\ dropped' = dropped \cup IF pc \in {"enforce", "announce"} THEN {next_id} ELSE {}
  /\ event' = NoEvent /\ todo' = <<>> /\ decision' = NoDecision
  /\ UNCHANGED <<now, arrived, via, buckets, bot_signal_last, bans, whitelist,
                 faults, next_id, spent, issued, announced>>

shutdown ==
  /\ ~stopping /\ pc # "stopped"
  /\ stopping' = TRUE /\ pc' = "recv"
  /\ Dropping /\ UNCHANGED inbox
drain_timeout ==
  /\ stopping /\ pc # "stopped"
  /\ pc' = "stopped"
  /\ Dropping /\ UNCHANGED <<inbox, stopping>>
drained ==
  /\ stopping /\ pc = "recv" /\ inbox = 0
  /\ pc' = "stopped"
  /\ UNCHANGED <<now, inbox, arrived, stopping, event, todo, via, decision, buckets,
                 bot_signal_last, bans, whitelist, faults, history>>

(* The rest of the daemon                                                   *)

environment ==
  /\ \/ /\ arrived < MaxEvents /\ ~stopping
        /\ arrived' = arrived + 1 /\ inbox' = inbox + 1
        /\ UNCHANGED <<now, bans, whitelist>>
     \/ /\ now < MaxTime /\ now' = now + 1
        /\ UNCHANGED <<arrived, inbox, bans, whitelist>>
     \/ \E w \in Protectable \ whitelist :
          /\ whitelist' = whitelist \cup {w}
          /\ bans' = {b \in bans : ~Meet(w, b)}
          /\ UNCHANGED <<now, arrived, inbox>>
     \/ \E b \in bans :
          /\ bans' = bans \ {b}
          /\ UNCHANGED <<now, arrived, inbox, whitelist>>
  /\ UNCHANGED <<stopping, carried, buckets, bot_signal_last, faults, history>>

Step ==
  \/ \E e \in Event : recv(e)
  \/ enrich \/ detect \/ score_unless_whitelisted \/ event_done
  \/ \E ok, lasting \in BOOLEAN : admit(ok, lasting)
  \/ \E ok \in BOOLEAN : apply_ban(ok)
  \/ announce \/ drained

Next == Step \/ shutdown \/ drain_timeout \/ environment

Spec == Init /\ [][Next]_vars

-----------------------------------------------------------------------------

(* Evidence is spent once: no signal counts towards two bans, and no        *)
(* accumulated bucket is left at or above the threshold, so a source that   *)
(* has reached it was decided upon the moment it did.                       *)
EvidenceSpentOnce ==
  /\ \A p, q \in spent : p[1] = q[1] => p[2] = q[2]
  /\ \A a \in DOMAIN buckets :
       /\ total_severity(prune_signals(buckets[a])) < ban_severity_threshold
       /\ \A s \in buckets[a], p \in spent : s.id # p[1]

(* Only a ban that was really new is enforced and announced, exactly once,  *)
(* and each is announced unless shutdown cut its event short.               *)
AnnouncedOnce ==
  /\ \A i, j \in DOMAIN announced : announced[i] = announced[j] => i = j
  /\ Range(announced) \subseteq issued
  /\ pc \notin {"enforce", "announce"} =>
       issued = Range(announced) \cup dropped

(* A subject that holds an active ban is not banned, enforced and announced *)
(* a second time, whatever happened between its evaluation and admission.   *)
NoDuplicateBan ==
  [][pc = "admit" /\ pc' = "enforce" => bans' # bans]_vars

(* Together: what was detected is decided upon when it is enough, once, and *)
(* what was decided is enforced and announced once.                         *)
DecidedOnce == [](EvidenceSpentOnce /\ AnnouncedOnce) /\ NoDuplicateBan

(* Whatever the whitelist, a failing store or a failing firewall do to a    *)
(* signal, the task gets past it: every event queued is taken, unless the   *)
(* shutdown time limit ends the drain first.                                *)
QueueDrained == []<>(inbox = 0 \/ pc = "stopped" \/ next_id > MaxSignals)

=============================================================================
