---------------------------- MODULE DaemonProofs ----------------------------
(***************************************************************************)
(* The daemon's pipeline and its interface.  A signal counts towards one   *)
(* ban, a source is decided upon the moment its evidence suffices, and a   *)
(* decision is enforced and announced once: for any events, whatever the   *)
(* whitelist, the store, the firewall and the clock do between the awaits  *)
(* of the task, and wherever shutdown drops it.  What the REST plugin      *)
(* keeps between requests is kept right, for any number of requests,       *)
(* clients and rules: each part has an invariant of its own, since they    *)
(* share no state.                                                         *)
(***************************************************************************)
EXTENDS Pipeline, UiApi, FiniteSetTheorems, TLAPS

\* First-order reasoning is left to Zenon; a leaf on numbers, sequences or records cites SMT.
USE Zenon

Finding == [subject : DOMAIN addr, severity : Nat]
Signal == [subject : DOMAIN addr, severity : Nat, ts : Nat, id : Nat]

Typed ==
  /\ now \in Nat /\ next_id \in Nat
  /\ pc \in {"recv", "cti", "detect", "check", "admit", "enforce", "announce", "stopped"}
  /\ pc \notin {"recv", "stopped"} => event \in Event
  /\ todo \in Seq(Signal)
  /\ buckets \in [Range(addr) -> SUBSET Signal]
  /\ spent \subseteq Nat \X Nat
  /\ issued \subseteq Nat /\ dropped \subseteq Nat /\ announced \in Seq(Nat)

\* Every bucket is finite in its units, and below the threshold once pruned.
Undecided ==
  \A a \in Range(addr) :
    /\ IsFiniteSet(Units(buckets[a]))
    /\ total_severity(prune_signals(buckets[a])) < ban_severity_threshold

\* Numbers are given out in order, a signal is in one bucket, and no number that
\* was spent is in any.
Numbered ==
  /\ \A a \in Range(addr) : \A s \in buckets[a] : s.id < next_id
  /\ \A a, b \in Range(addr) : \A s \in buckets[a], t \in buckets[b] : s.id = t.id => a = b
  /\ \A p \in spent : p[1] < next_id
  /\ \A p, q \in spent : p[1] = q[1] => p[2] = q[2]
  /\ \A a \in Range(addr) : \A s \in buckets[a], p \in spent : s.id # p[1]

\* The decision being carried is the newest one; the others are announced or dropped.
Decided ==
  /\ \A i \in issued : i <= next_id
  /\ \A i, j \in DOMAIN announced : announced[i] = announced[j] => i = j
  /\ pc = "admit" => next_id \notin issued
  /\ IF pc \in {"enforce", "announce"}
     THEN /\ issued = Range(announced) \cup dropped \cup {next_id}
          /\ next_id \notin Range(announced)
     ELSE issued = Range(announced) \cup dropped

IInv == Typed /\ Undecided /\ Numbered /\ Decided

-----------------------------------------------------------------------------
(* Scoring. *)

\* A bucket with fewer signals has fewer units.
LEMMA FewerUnits ==
  ASSUME NEW b, NEW c, b \subseteq c, IsFiniteSet(Units(c))
  PROVE  /\ IsFiniteSet(Units(b))
         /\ total_severity(b) \in Nat /\ total_severity(c) \in Nat
         /\ total_severity(b) <= total_severity(c)
<1>1. Units(b) \subseteq Units(c)
  BY DEF Units
<1> QED
  BY <1>1, FS_Subset, FS_CardinalityType DEF total_severity

LEMMA NoUnits == IsFiniteSet(Units({})) /\ total_severity({}) = 0
<1>1. Units({}) = {}
  BY DEF Units
<1> QED
  BY <1>1, FS_EmptySet DEF total_severity

\* Recording a signal keeps a bucket finite.
LEMMA OneMore ==
  ASSUME NEW b, NEW s \in Signal, IsFiniteSet(Units(b))
  PROVE  IsFiniteSet(Units(b \cup {s}))
<1> DEFINE own == {s} \X (1..s.severity)
<1>1. Units(b \cup {s}) = Units(b) \cup own
  BY DEF Units
<1>2. s.severity \in Nat
  BY DEF Signal
<1>3. IsFiniteSet(1..s.severity)
  BY <1>2, FS_Interval, SMT
<1>4. IsFiniteSet({s})
  BY FS_Singleton
<1>5. IsFiniteSet(own)
  BY <1>3, <1>4, FS_Product
<1> HIDE DEF own
<1> QED
  BY <1>1, <1>5, FS_Union

\* As time passes a bucket loses weight only.
LEMMA PrunedLater ==
  ASSUME Typed, Undecided, now' \in Nat, now <= now', UNCHANGED buckets
  PROVE  Undecided'
<1> SUFFICES ASSUME NEW a \in Range(addr)
             PROVE  /\ IsFiniteSet(Units(buckets[a]))
                    /\ total_severity(prune_signals(buckets[a])') < ban_severity_threshold
  BY DEF Undecided, total_severity, Units
<1>1. IsFiniteSet(Units(buckets[a]))
  BY DEF Undecided
<1>2. prune_signals(buckets[a])' \subseteq prune_signals(buckets[a])
  BY ScoringAssumption, SMT DEF prune_signals, Typed, Signal
<1>3. prune_signals(buckets[a]) \subseteq buckets[a]
  BY DEF prune_signals
<1>4. IsFiniteSet(Units(prune_signals(buckets[a])))
  BY <1>1, <1>3, FewerUnits
<1> DEFINE b == prune_signals(buckets[a])'
           c == prune_signals(buckets[a])
<1>5. total_severity(c) < ban_severity_threshold
  BY DEF Undecided
<1> HIDE DEF b, c
<1>6. /\ total_severity(b) \in Nat /\ total_severity(c) \in Nat
      /\ total_severity(b) <= total_severity(c)
  BY <1>2, <1>4, FewerUnits DEF b, c
<1> QED
  BY <1>1, <1>5, <1>6, ScoringAssumption, SMT DEF b

-----------------------------------------------------------------------------
(* The steps of the task.  All but score_unless_whitelisted leave the       *)
(* evidence as it is.                                                       *)

LEMMA SameEvidence ==
  ASSUME IInv, UNCHANGED <<now, buckets, next_id, spent>>
  PROVE  Undecided' /\ Numbered'
<1>1. Undecided'
  BY PrunedLater, SMT DEF IInv, Typed
<1>2. Numbered'
  BY DEF IInv, Numbered
<1> QED
  BY <1>1, <1>2

\* Steps that neither take up a decision nor put one down.
LEMMA SameDecisions ==
  ASSUME IInv, UNCHANGED <<next_id, issued, announced, dropped>>,
         pc' \notin {"admit", "enforce", "announce"}, pc \notin {"enforce", "announce"}
  PROVE  Decided'
  BY DEF IInv, Decided

LEMMA SignalTyped ==
  ASSUME NEW sub \in DOMAIN addr, NEW sev \in Nat, NEW t \in Nat, NEW n \in Nat
  PROVE  [subject |-> sub, severity |-> sev, ts |-> t, id |-> n] \in Signal
  BY DEF Signal

LEMMA Recv ==
  ASSUME IInv, NEW e \in Event, recv(e)
  PROVE  IInv'
<1>1. /\ UNCHANGED <<now, buckets, next_id, spent, issued, announced, dropped>>
      /\ pc = "recv"
      /\ \/ UNCHANGED <<pc, event, todo>>
         \/ /\ event' = e /\ pc' = "cti"
            /\ todo' = <<block_signal(e)>> \/ todo' = <<>>
  BY DEF recv, carried, history
<1>2. block_signal(e) \in Signal
  BY EventAssumption, ScoringAssumption, SignalTyped DEF block_signal, IInv, Typed
<1>3. Typed'
  <2>1. todo' \in Seq(Signal)
    <3>1. <<block_signal(e)>> \in Seq(Signal) /\ <<>> \in Seq(Signal)
      BY <1>2, SMT
    <3> QED
      BY <1>1, <3>1 DEF IInv, Typed
  <2> QED
    BY <1>1, <2>1 DEF IInv, Typed
<1>4. Decided'
  BY <1>1, SameDecisions
<1> QED
  BY <1>1, <1>3, <1>4, SameEvidence DEF IInv

LEMMA Enrich ==
  ASSUME IInv, enrich
  PROVE  IInv'
<1> DEFINE sig(v) == [subject |-> event.ip, severity |-> v, ts |-> now, id |-> 0]
<1>1. /\ UNCHANGED <<now, event, buckets, next_id, spent, issued, announced, dropped>>
      /\ pc = "cti" /\ pc' \in {"detect", "check"}
      /\ todo' = todo \/ \E v \in CtiSeverity : todo' = <<sig(v)>> \o todo
  BY DEF enrich, history
<1>2. \A v \in CtiSeverity : sig(v) \in Signal
  BY <1>1, EventAssumption, SignalTyped DEF IInv, Typed
<1> HIDE DEF sig
<1>3. todo' \in Seq(Signal)
  <2>1. todo \in Seq(Signal)
    BY DEF IInv, Typed
  <2>2. \A x \in Signal : <<x>> \in Seq(Signal)
    BY SMT
  <2>3. \A q, r \in Seq(Signal) : q \o r \in Seq(Signal)
    BY SMT
  <2> QED
    BY <1>1, <1>2, <2>1, <2>2, <2>3
<1>4. Typed'
  BY <1>1, <1>3 DEF IInv, Typed
<1>5. Decided'
  BY <1>1, SameDecisions
<1> QED
  BY <1>1, <1>4, <1>5, SameEvidence DEF IInv

LEMMA Detect ==
  ASSUME IInv, detect
  PROVE  IInv'
<1>1. /\ UNCHANGED <<now, event, buckets, next_id, spent, issued, announced, dropped>>
      /\ pc = "detect" /\ pc' = "check" /\ todo' = todo \o Stamped(event, event.found)
  BY DEF detect, history
<1>2. event \in Event /\ event.found \in Seq(Finding)
  BY <1>1, EventAssumption DEF IInv, Typed, Finding
<1>3. ASSUME NEW i \in DOMAIN event.found
      PROVE  Stamped(event, event.found)[i] \in Signal
  <2> DEFINE s == [subject |-> event.found[i].subject, severity |-> event.found[i].severity,
                   ts |-> now, id |-> 0]
  <2>0. event.found[i] \in Finding
    BY <1>2, <1>3, SMT
  <2>1. s \in Signal
    BY <2>0, SignalTyped DEF IInv, Typed, Finding
  <2>2. s.severity + boost \in Nat
    BY <2>1, EventAssumption, SMT DEF Signal
  <2> HIDE DEF s
  <2>3. Boosted(event, s) \in Signal
    BY <2>1, <2>2 DEF Boosted, Signal
  <2> QED
    BY <2>3 DEF Stamped, s
<1>4. Stamped(event, event.found) \in Seq(Signal)
  <2>1. DOMAIN event.found = 1..Len(event.found) /\ Len(event.found) \in Nat
    BY <1>2, SMT
  <2>2. DOMAIN Stamped(event, event.found) = DOMAIN event.found
    BY DEF Stamped
  <2>3. Stamped(event, event.found) \in [1..Len(event.found) -> Signal]
    <3> DEFINE f == Stamped(event, event.found)
    <3>1. f = [i \in DOMAIN event.found |-> f[i]]
      BY DEF Stamped
    <3> HIDE DEF f
    <3> QED
      BY <1>3, <2>1, <3>1 DEF f
  <2> QED
    BY <2>1, <2>3, SMT
<1>5. Typed'
  <2>1. todo' \in Seq(Signal)
    BY <1>1, <1>4, SMT DEF IInv, Typed
  <2> QED
    BY <1>1, <2>1 DEF IInv, Typed
<1>6. Decided'
  BY <1>1, SameDecisions
<1> QED
  BY <1>1, <1>5, <1>6, SameEvidence DEF IInv

LEMMA EventDone ==
  ASSUME IInv, event_done \/ drained
  PROVE  IInv'
<1>1. /\ UNCHANGED <<now, todo, buckets, next_id, spent, issued, announced, dropped>>
      /\ pc \in {"check", "recv"} /\ pc' \in {"recv", "stopped"}
  BY DEF event_done, drained, history
<1>2. Typed'
  BY <1>1 DEF IInv, Typed
<1>3. Decided'
  BY <1>1, SameDecisions
<1> QED
  BY <1>1, <1>2, <1>3, SameEvidence DEF IInv

\* Scoring one signal.  The signal gets a number of its own; if the bucket now
\* suffices it is emptied and what was in it is spent, all under that number.
LEMMA Score ==
  ASSUME IInv, score_unless_whitelisted
  PROVE  IInv'
<1> DEFINE s == [Head(todo) EXCEPT !.id = next_id]
           a == addr[s.subject]
           b == prune_signals(buckets[a] \cup {s})
           uses == {<<x.id, next_id>> : x \in b}
<1>1. pc = "check" /\ todo # <<>> /\ todo' = Tail(todo)
      /\ UNCHANGED <<now, event, issued, announced, dropped>>
  BY DEF score_unless_whitelisted
<1>2. /\ todo' \in Seq(Signal) /\ Head(todo) \in Signal
  BY <1>1, SMT DEF IInv, Typed
<1>3. s \in Signal /\ s.id = next_id /\ a \in Range(addr)
  BY <1>2 DEF Signal, Range, IInv, Typed
<1>4. CASE UNCHANGED <<buckets, next_id, spent>> /\ pc' = AfterSignal
  <2>1. Typed'
    BY <1>1, <1>2, <1>4 DEF IInv, Typed, AfterSignal
  <2>2. Decided'
    BY <1>1, <1>4, SameDecisions DEF AfterSignal
  <2> QED
    BY <1>1, <1>4, <2>1, <2>2, SameEvidence DEF IInv
<1>5. CASE /\ next_id' = next_id + 1 /\ pc' \in {"detect", "check", "admit"}
           /\ \/ /\ total_severity(b) < ban_severity_threshold
                 /\ buckets' = [buckets EXCEPT ![a] = b] /\ spent' = spent
              \/ /\ buckets' = [buckets EXCEPT ![a] = {}]
                 /\ spent' = spent \/ spent' = spent \cup uses
  <2>0. b \subseteq buckets[a] \cup {s} /\ prune_signals(b) = b /\ prune_signals({}) = {}
    BY DEF prune_signals
  <2>t. buckets \in [Range(addr) -> SUBSET Signal] /\ next_id \in Nat /\ b \subseteq Signal
    BY <1>3, <2>0 DEF IInv, Typed
  <2> HIDE DEF b, s, a
  <2>n. \A x \in b : x.id \in Nat /\ x.id <= next_id
    BY <1>3, <2>0, <2>t, SMT DEF IInv, Numbered, Signal
  <2>1. Typed'
    <3>1. uses \subseteq Nat \X Nat
      BY <2>n, <2>t, SMT
    <3> HIDE DEF uses
    <3> QED
      BY <1>1, <1>2, <1>3, <1>5, <2>t, <3>1, SMT DEF IInv, Typed
  <2>2. Undecided'
    <3>1. IsFiniteSet(Units(buckets[a] \cup {s}))
      BY <1>3, OneMore DEF IInv, Undecided
    <3>2. IsFiniteSet(Units(b))
      BY <2>0, <3>1, FewerUnits
    <3> SUFFICES ASSUME NEW d \in Range(addr)
                 PROVE  /\ IsFiniteSet(Units(buckets'[d]))
                        /\ total_severity(prune_signals(buckets'[d])) < ban_severity_threshold
      BY <1>1 DEF Undecided, total_severity, Units, prune_signals
    <3>3. CASE d # a
      BY <1>3, <1>5, <2>t, <3>3 DEF IInv, Undecided
    <3>4. CASE d = a
      <4>1. \/ buckets'[d] = b /\ total_severity(b) < ban_severity_threshold
            \/ buckets'[d] = {}
        BY <1>3, <1>5, <2>t, <3>4
      <4>2. CASE buckets'[d] = b /\ total_severity(b) < ban_severity_threshold
        BY <2>0, <3>2, <4>2
      <4>3. CASE buckets'[d] = {}
        <5>1. prune_signals(buckets'[d]) = {}
          BY <2>0, <4>3
        <5> QED
          BY <4>3, <5>1, NoUnits, ScoringAssumption, SMT
      <4> QED
        BY <4>1, <4>2, <4>3
    <3> QED
      BY <3>3, <3>4
  <2>3. Numbered'
    <3>1. \A d \in Range(addr) : buckets'[d] \subseteq buckets[d] \cup b
      BY <1>3, <1>5, <2>t
    <3>2. \A d \in Range(addr) : d # a => buckets'[d] = buckets[d]
      BY <1>3, <1>5, <2>t
    <3>3. buckets'[a] \subseteq b
      BY <1>3, <1>5, <2>t
    <3>4. spent' = spent \/ (spent' = spent \cup uses /\ buckets'[a] = {})
      <4> HIDE DEF uses
      <4> QED
        BY <1>3, <1>5, <2>t
    <3>5. \A x \in b : x \in buckets[a] \/ x.id = next_id
      BY <1>3, <2>0
    <3>6. ASSUME NEW d \in Range(addr), NEW x \in buckets'[d]
          PROVE  x.id \in Nat /\ x.id < next_id'
      BY <1>5, <2>n, <2>t, <3>2, <3>3, <3>6, SMT DEF IInv, Numbered, Signal
    <3>7. ASSUME NEW d \in Range(addr), NEW e \in Range(addr),
                 NEW x \in buckets'[d], NEW y \in buckets'[e], x.id = y.id
          PROVE  d = e
      BY <2>t, <3>2, <3>3, <3>5, <3>7, SMT DEF IInv, Numbered, Signal
    <3>8. ASSUME NEW p \in spent'
          PROVE  p[1] < next_id'
      BY <1>5, <2>n, <2>t, <3>4, <3>8, SMT DEF IInv, Numbered, Typed
    <3>9. ASSUME NEW p \in spent, NEW q \in uses
          PROVE  p[1] # q[1]
      <4>1. PICK x \in b : q[1] = x.id
        BY SMT
      <4>2. p[1] \in Nat /\ p[1] < next_id
        BY DEF IInv, Numbered, Typed
      <4>3. x \in buckets[a] => x.id # p[1]
        BY <1>3 DEF IInv, Numbered
      <4> HIDE DEF uses
      <4> QED
        BY <2>t, <3>5, <4>1, <4>2, <4>3, SMT
    <3>10. ASSUME NEW p \in spent', NEW q \in spent', p[1] = q[1]
           PROVE  p[2] = q[2]
      <4>1. ASSUME NEW r \in uses
            PROVE  r[2] = next_id
        BY SMT
      <4> HIDE DEF uses
      <4> QED
        BY <3>4, <3>9, <3>10, <4>1 DEF IInv, Numbered
    <3>11. ASSUME NEW d \in Range(addr), NEW x \in buckets'[d], NEW p \in spent'
           PROVE  x.id # p[1]
      <4>1. CASE d = a
        <5>1. p \in spent /\ x \in b
          BY <3>3, <3>4, <3>11, <4>1
        <5>2. p[1] \in Nat /\ p[1] < next_id /\ next_id \in Nat
          BY <5>1 DEF IInv, Numbered, Typed
        <5>3. CASE x \in buckets[a]
          BY <1>3, <5>1, <5>3 DEF IInv, Numbered
        <5>4. CASE x.id = next_id
          BY <5>2, <5>4, SMT
        <5> QED
          BY <3>5, <5>1, <5>3, <5>4
      <4>2. CASE d # a /\ p \in spent
        BY <3>2, <3>11, <4>2, SMT DEF IInv, Numbered
      <4>3. CASE d # a /\ p \in uses
        <5>1. PICK y \in b : p[1] = y.id
          BY <4>3, SMT
        <5>2. x \in buckets[d] /\ x.id < next_id /\ x.id \in Nat
          BY <2>t, <3>2, <3>11, <4>3, SMT DEF IInv, Numbered, Signal
        <5> QED
          BY <1>3, <2>t, <3>5, <4>3, <5>1, <5>2, SMT DEF IInv, Numbered
      <4> QED
        BY <3>4, <3>11, <4>1, <4>2, <4>3
    <3> QED
      BY <3>6, <3>7, <3>8, <3>10, <3>11 DEF Numbered
  <2>4. Decided'
    <3>1. \A i \in issued : i <= next_id /\ i \in Nat
      BY DEF IInv, Decided, Typed
    <3> QED
      BY <1>1, <1>5, <2>t, <3>1, SMT DEF IInv, Decided
  <2> QED
    BY <2>1, <2>2, <2>3, <2>4 DEF IInv
<1> QED
  <2>1. CASE overlaps(s.subject)
    BY <1>4, <2>1 DEF score_unless_whitelisted
  <2>2. CASE ~overlaps(s.subject)
    BY <1>5, <2>2 DEF score_unless_whitelisted, evaluate, record, AfterSignal
  <2> QED
    BY <2>1, <2>2

LEMMA Admit ==
  ASSUME IInv, NEW ok \in BOOLEAN, NEW lasting \in BOOLEAN, admit(ok, lasting)
  PROVE  /\ IInv'
         /\ pc' = "enforce" => bans' # bans
<1>1. /\ pc = "admit" /\ UNCHANGED <<now, event, todo, buckets, next_id, spent, announced, dropped>>
      /\ \/ /\ decision.subject \notin bans /\ bans' = bans \cup {decision.subject}
            /\ issued' = issued \cup {next_id} /\ pc' = "enforce"
         \/ pc' = AfterSignal /\ UNCHANGED issued
  BY DEF admit, Admitted
<1>2. Typed'
  BY <1>1 DEF IInv, Typed, AfterSignal
<1>3. Decided'
  <2>1. /\ issued = Range(announced) \cup dropped /\ next_id \notin issued
        /\ next_id \in Nat /\ issued \subseteq Nat
    BY <1>1 DEF IInv, Decided, Typed
  <2> QED
    BY <1>1, <2>1, SMT DEF IInv, Decided, AfterSignal
<1> QED
  BY <1>1, <1>2, <1>3, SameEvidence DEF IInv, AfterSignal

LEMMA ApplyBan ==
  ASSUME IInv, NEW ok \in BOOLEAN, apply_ban(ok)
  PROVE  IInv'
<1>1. /\ pc = "enforce" /\ pc' = "announce"
      /\ UNCHANGED <<now, event, todo, buckets, next_id, spent, issued, announced, dropped>>
  BY DEF apply_ban, history
<1>2. Typed'
  BY <1>1 DEF IInv, Typed
<1>3. Decided'
  BY <1>1 DEF IInv, Decided
<1> QED
  BY <1>1, <1>2, <1>3, SameEvidence DEF IInv

LEMMA Announce ==
  ASSUME IInv, announce
  PROVE  IInv'
<1>1. /\ pc = "announce" /\ pc' = AfterSignal /\ announced' = Append(announced, next_id)
      /\ UNCHANGED <<now, event, todo, buckets, next_id, spent, issued, dropped>>
  BY DEF announce
<1>2. /\ announced \in Seq(Nat) /\ next_id \in Nat
      /\ next_id \notin Range(announced)
      /\ issued = Range(announced) \cup dropped \cup {next_id}
  BY <1>1 DEF IInv, Typed, Decided
<1>3. Typed'
  BY <1>1, <1>2, SMT DEF IInv, Typed, AfterSignal
<1>4. /\ Range(announced') = Range(announced) \cup {next_id}
      /\ \A i, j \in DOMAIN announced' : announced'[i] = announced'[j] => i = j
  <2>1. /\ DOMAIN announced = 1..Len(announced) /\ Len(announced) \in Nat
        /\ DOMAIN announced' = 1..(Len(announced) + 1)
        /\ \A i \in 1..Len(announced) : announced'[i] = announced[i]
        /\ announced'[Len(announced) + 1] = next_id
    BY <1>1, <1>2, SMT
  <2>2. \A i, j \in DOMAIN announced : announced[i] = announced[j] => i = j
    BY DEF IInv, Decided
  <2>3. \A i \in DOMAIN announced : announced[i] # next_id
    BY <1>2 DEF Range
  <2>4. Range(announced') = Range(announced) \cup {next_id}
    BY <2>1, SMT DEF Range
  <2> QED
    BY <2>1, <2>2, <2>3, <2>4, SMT
<1>5. Decided'
  BY <1>1, <1>2, <1>4 DEF IInv, Decided, AfterSignal
<1> QED
  BY <1>1, <1>3, <1>5, SameEvidence DEF IInv

-----------------------------------------------------------------------------
(* Shutdown and the rest of the daemon. *)

LEMMA Shutdown ==
  ASSUME IInv, shutdown \/ drain_timeout
  PROVE  IInv'
<1>1. /\ pc' \in {"recv", "stopped"} /\ todo' = <<>>
      /\ dropped' = dropped \cup (IF pc \in {"enforce", "announce"} THEN {next_id} ELSE {})
      /\ UNCHANGED <<now, buckets, next_id, spent, issued, announced>>
  BY DEF shutdown, drain_timeout, Dropping
<1>2. Typed'
  BY <1>1, SMT DEF IInv, Typed
<1>3. Decided'
  BY <1>1 DEF IInv, Decided
<1> QED
  BY <1>1, <1>2, <1>3, SameEvidence DEF IInv

LEMMA Environment ==
  ASSUME IInv, environment
  PROVE  IInv' /\ pc' = pc
<1>1. /\ UNCHANGED <<pc, event, todo, buckets, next_id, spent, issued, announced, dropped>>
      /\ now' = now \/ now' = now + 1
  BY DEF environment, carried, history
<1>2. Typed'
  BY <1>1, SMT DEF IInv, Typed
<1>3. Undecided'
  BY <1>1, PrunedLater, SMT DEF IInv, Typed
<1>4. Numbered' /\ Decided'
  BY <1>1 DEF IInv, Numbered, Decided
<1> QED
  BY <1>1, <1>2, <1>3, <1>4 DEF IInv

-----------------------------------------------------------------------------
LEMMA InitIInv == Init => IInv
<1> SUFFICES ASSUME Init PROVE IInv
  OBVIOUS
<1>1. Typed
  BY SMT DEF Init, Typed
<1>2. Undecided
  <2> SUFFICES ASSUME NEW a \in Range(addr)
               PROVE  /\ IsFiniteSet(Units({}))
                      /\ total_severity(prune_signals({})) < ban_severity_threshold
    BY DEF Init, Undecided
  <2>1. prune_signals({}) = {}
    BY DEF prune_signals
  <2> QED
    BY <2>1, NoUnits, ScoringAssumption, SMT
<1>3. Numbered /\ Decided
  BY SMT DEF Init, Numbered, Decided, Range
<1> QED
  BY <1>1, <1>2, <1>3 DEF IInv

LEMMA NextIInv ==
  ASSUME IInv, [Next]_vars
  PROVE  /\ IInv'
         /\ [pc = "admit" /\ pc' = "enforce" => bans' # bans]_vars
<1>1. CASE UNCHANGED vars
  <2>1. Typed' /\ Numbered' /\ Decided'
    BY <1>1 DEF vars, IInv, Typed, Numbered, Decided
  <2>2. Undecided'
    BY <1>1, PrunedLater, SMT DEF vars, IInv, Typed
  <2> QED
    BY <1>1, <2>1, <2>2 DEF IInv
<1>2. CASE \E ok, lasting \in BOOLEAN : admit(ok, lasting)
  BY <1>2, Admit
<1>3. CASE Next /\ ~ \E ok, lasting \in BOOLEAN : admit(ok, lasting)
  <2>1. IInv'
    BY <1>3, Recv, Enrich, Detect, Score, EventDone, ApplyBan, Announce, Shutdown, Environment
       DEF Next, Step
  <2>2. ~(pc = "admit" /\ pc' = "enforce")
    BY <1>3, Environment
       DEF Next, Step, recv, enrich, detect, score_unless_whitelisted, event_done, apply_ban,
           announce, drained, shutdown, drain_timeout
  <2> QED
    BY <2>1, <2>2
<1> QED
  BY <1>1, <1>2, <1>3

\* No signal counts towards two bans and no bucket is left at the threshold
\* (record, evaluate); a new ban is enforced and announced once unless shutdown
\* cut it short, and a subject that holds a ban is not banned again
\* (Pipeline::admit): whatever happens between the awaits of the pipeline.
THEOREM DecisionsAreMadeOnce == Spec => DecidedOnce
<1>1. IInv => EvidenceSpentOnce /\ AnnouncedOnce
  <2> SUFFICES ASSUME IInv PROVE EvidenceSpentOnce /\ AnnouncedOnce
    OBVIOUS
  <2>1. DOMAIN buckets = Range(addr)
    BY DEF IInv, Typed
  <2>2. EvidenceSpentOnce
    BY <2>1 DEF IInv, Undecided, Numbered, EvidenceSpentOnce
  <2>3. AnnouncedOnce
    BY DEF IInv, Decided, AnnouncedOnce
  <2> QED
    BY <2>2, <2>3
<1> QED
  BY <1>1, InitIInv, NextIInv, PTL DEF Spec, DecidedOnce, NoDuplicateBan

-----------------------------------------------------------------------------
(* The stream slots. *)

Busy == {c \in Streams : request[c] # "none"}
Served == {c \in Streams : request[c] = "open"}

SlotInv == request \in [Streams -> {"none", "refused", "open"}] /\ SlotsExact

\* Slots are counted over a finite set, and what is served holds a slot.
LEMMA SlotFacts ==
  ASSUME request \in [Streams -> {"none", "refused", "open"}]
  PROVE  /\ IsFiniteSet(Busy) /\ Cardinality(Busy) \in Nat
         /\ IsFiniteSet(Served) /\ Cardinality(Served) \in Nat
         /\ Cardinality(Served) <= Cardinality(Busy)
<1>1. Busy \in SUBSET Streams /\ Served \in SUBSET Busy
  BY DEF Busy, Served
<1>2. IsFiniteSet(Busy)
  BY <1>1, FS_Subset, UiAssumption DEF UiAssumption
<1>3. IsFiniteSet(Served) /\ Cardinality(Served) <= Cardinality(Busy)
  BY <1>1, <1>2, FS_Subset
<1> QED
  BY <1>2, <1>3, FS_CardinalityType

LEMMA SlotStart == SlotInit => SlotInv
<1> SUFFICES ASSUME SlotInit PROVE SlotInv
  OBVIOUS
<1>1. Busy = {} /\ Served = {}
  BY DEF SlotInit, Busy, Served
<1>2. Cardinality(Busy) = 0 /\ Cardinality(Served) = 0
  BY <1>1, FS_EmptySet
<1>3. 0 <= MaxStreams
  <2>1. MaxStreams \in Nat
    BY UiAssumption DEF UiAssumption
  <2> QED
    BY <2>1, SMT
<1> QED
  BY <1>2, <1>3 DEF SlotInit, SlotInv, SlotsExact, Busy, Served

LEMMA SlotStep == SlotInv /\ [SlotNext]_slot_vars => SlotInv'
<1> SUFFICES ASSUME SlotInv, [SlotNext]_slot_vars PROVE SlotInv'
  OBVIOUS
<1>1. request \in [Streams -> {"none", "refused", "open"}]
  BY DEF SlotInv
<1>2. active = Cardinality(Busy) /\ Cardinality(Served) <= MaxStreams
  BY DEF SlotInv, SlotsExact, Busy, Served
<1>3. MaxStreams \in Nat
  BY UiAssumption DEF UiAssumption
<1>4. /\ IsFiniteSet(Busy) /\ Cardinality(Busy) \in Nat
      /\ IsFiniteSet(Served) /\ Cardinality(Served) \in Nat
      /\ Cardinality(Served) <= Cardinality(Busy)
  BY <1>1, SlotFacts
<1>5. SUFFICES /\ request' \in [Streams -> {"none", "refused", "open"}]
               /\ Cardinality(Served') <= MaxStreams /\ active' = Cardinality(Busy')
  BY DEF SlotInv, SlotsExact, Busy, Served
<1>6. ASSUME NEW c \in Streams, sse_handler(c)
      PROVE  /\ request' \in [Streams -> {"none", "refused", "open"}]
             /\ Cardinality(Served') <= MaxStreams /\ active' = Cardinality(Busy')
  <2>1. request[c] = "none" /\ active' = active + 1
    BY <1>6 DEF sse_handler
  <2>2. request' = [request EXCEPT ![c] = IF active >= MaxStreams THEN "refused" ELSE "open"]
    BY <1>6 DEF sse_handler
  <2>3. request' \in [Streams -> {"none", "refused", "open"}]
    BY <1>1, <2>2
  <2>4. Busy' = Busy \cup {c} /\ c \notin Busy
    BY <1>1, <2>1, <2>2 DEF Busy
  <2>5. active' = Cardinality(Busy')
    BY <1>2, <1>4, <2>1, <2>4, FS_AddElement
  <2>6. CASE active >= MaxStreams
    <3>1. Served' = Served
      BY <1>1, <2>1, <2>2, <2>6 DEF Served
    <3> QED
      BY <1>2, <2>3, <2>5, <3>1
  <2>7. CASE ~(active >= MaxStreams)
    <3>1. Served' = Served \cup {c} /\ c \notin Served
      BY <1>1, <2>1, <2>2, <2>7 DEF Served
    <3>2. Cardinality(Served') = Cardinality(Served) + 1
      BY <1>4, <3>1, FS_AddElement
    <3>3. Cardinality(Served) + 1 <= MaxStreams
      BY <1>2, <1>3, <1>4, <2>7, SMT
    <3> QED
      BY <2>3, <2>5, <3>2, <3>3
  <2> QED
    BY <2>6, <2>7
<1>7. ASSUME NEW c \in Streams, drop_slot(c)
      PROVE  /\ request' \in [Streams -> {"none", "refused", "open"}]
             /\ Cardinality(Served') <= MaxStreams /\ active' = Cardinality(Busy')
  <2>1. request[c] # "none" /\ active' = active - 1 /\ request' = [request EXCEPT ![c] = "none"]
    BY <1>7 DEF drop_slot, slot_dropped
  <2>2. request' \in [Streams -> {"none", "refused", "open"}]
    BY <1>1, <2>1
  <2>3. Busy' = Busy \ {c} /\ c \in Busy
    BY <1>1, <2>1 DEF Busy
  <2>4. active' = Cardinality(Busy')
    BY <1>2, <1>4, <2>1, <2>3, FS_RemoveElement
  <2>5. Served' \in SUBSET Served
    BY <1>1, <2>1 DEF Served
  <2>6. Cardinality(Served') <= Cardinality(Served) /\ Cardinality(Served') \in Nat
    BY <1>4, <2>5, FS_Subset, FS_CardinalityType
  <2>7. Cardinality(Served') <= MaxStreams
    BY <1>2, <1>3, <1>4, <2>6, SMT
  <2> QED
    BY <2>2, <2>4, <2>7
<1>8. CASE UNCHANGED slot_vars
  BY <1>1, <1>2, <1>8 DEF slot_vars, Busy, Served
<1> QED
  BY <1>6, <1>7, <1>8 DEF SlotNext

-----------------------------------------------------------------------------
(* The scan slots. *)

ScanState == [pc : {"idle", "child", "thread", "mapping"}, client : BOOLEAN, permit : BOOLEAN]

Permits == {t \in Tasks : scan[t].permit}
Reading == {t \in Tasks : scan[t].pc \in {"thread", "child"}}

\* A file is read only under a permit, and an idle task holds none.
ScanInv ==
  /\ scan \in [Tasks -> ScanState] /\ free \in Nat
  /\ free + Cardinality(Permits) = MaxScans
  /\ \A t \in Tasks : /\ scan[t].pc \in {"thread", "child"} => scan[t].permit
                      /\ scan[t].pc = "idle" => ~scan[t].permit

LEMMA ScanStart == ScanInit => ScanInv
<1> SUFFICES ASSUME ScanInit PROVE ScanInv
  OBVIOUS
<1> DEFINE none == [pc |-> "idle", client |-> FALSE, permit |-> FALSE]
<1>1. scan = [t \in Tasks |-> none] /\ free = MaxScans
  BY DEF ScanInit
<1>2. none \in ScanState /\ none.pc = "idle" /\ ~none.permit
  BY DEF ScanState
<1> HIDE DEF none
<1>3. \A t \in Tasks : scan[t] = none
  BY <1>1
<1>4. Permits = {}
  BY <1>2, <1>3 DEF Permits
<1>5. MaxScans \in Nat /\ MaxScans + 0 = MaxScans
  <2>1. MaxScans \in Nat
    BY UiAssumption DEF UiAssumption
  <2> QED
    BY <2>1, SMT
<1>6. scan \in [Tasks -> ScanState]
  BY <1>1, <1>2
<1>7. "idle" \notin {"thread", "child"}
  OBVIOUS
<1> QED
  BY <1>1, <1>2, <1>3, <1>4, <1>5, <1>6, <1>7, FS_EmptySet DEF ScanInv

\* A step of one task that takes a permit from the semaphore, gives one back or
\* keeps what it holds.
LEMMA ScanMove ==
  ASSUME ScanInv, NEW t \in Tasks, scan' \in [Tasks -> ScanState],
         \A u \in Tasks : u # t => scan'[u] = scan[u],
         scan'[t].pc \in {"thread", "child"} => scan'[t].permit,
         scan'[t].pc = "idle" => ~scan'[t].permit,
         \/ scan'[t].permit = scan[t].permit /\ free' = free
         \/ scan'[t].permit /\ ~scan[t].permit /\ free > 0 /\ free' = free - 1
         \/ ~scan'[t].permit /\ scan[t].permit /\ free' = free + 1
  PROVE  ScanInv'
<1>1. IsFiniteSet(Permits) /\ Cardinality(Permits) \in Nat
  <2>1. Permits \in SUBSET Tasks /\ IsFiniteSet(Tasks)
    BY UiAssumption DEF Permits, UiAssumption
  <2> QED
    BY <2>1, FS_Subset, FS_CardinalityType
<1>2. free \in Nat /\ free + Cardinality(Permits) = MaxScans /\ MaxScans \in Nat
  BY UiAssumption DEF ScanInv, UiAssumption
<1>3. \A u \in Tasks : /\ scan'[u].pc \in {"thread", "child"} => scan'[u].permit
                       /\ scan'[u].pc = "idle" => ~scan'[u].permit
  BY DEF ScanInv
<1>4. SUFFICES free' \in Nat /\ free' + Cardinality(Permits') = MaxScans
  BY <1>3 DEF ScanInv
<1>5. CASE scan'[t].permit = scan[t].permit /\ free' = free
  <2>1. Permits' = Permits
    BY <1>5 DEF Permits
  <2> QED
    BY <1>2, <1>5, <2>1
<1>6. CASE scan'[t].permit /\ ~scan[t].permit /\ free > 0 /\ free' = free - 1
  <2>1. Permits' = Permits \cup {t} /\ t \notin Permits
    BY <1>6 DEF Permits
  <2>2. Cardinality(Permits') = Cardinality(Permits) + 1
    BY <1>1, <2>1, FS_AddElement
  <2> QED
    BY <1>1, <1>2, <1>6, <2>2, SMT
<1>7. CASE ~scan'[t].permit /\ scan[t].permit /\ free' = free + 1
  <2>1. Permits' = Permits \ {t} /\ t \in Permits
    BY <1>7 DEF Permits
  <2>2. Cardinality(Permits') = Cardinality(Permits) - 1
    BY <1>1, <2>1, FS_RemoveElement
  <2> QED
    BY <1>1, <1>2, <1>7, <2>2, SMT
<1> QED
  BY <1>5, <1>6, <1>7

\* The new state of one task, whichever fields were written.
LEMMA ScanPut ==
  ASSUME scan \in [Tasks -> ScanState], NEW t \in Tasks, NEW r \in ScanState,
         scan' = [scan EXCEPT ![t] = r]
  PROVE  scan' \in [Tasks -> ScanState] /\ scan'[t] = r /\ \A u \in Tasks : u # t => scan'[u] = scan[u]
OBVIOUS

LEMMA ScanStep == ScanInv /\ [ScanNext]_scan_vars => ScanInv'
<1> SUFFICES ASSUME ScanInv, [ScanNext]_scan_vars PROVE ScanInv'
  OBVIOUS
<1> DEFINE Rec(p, c, m) == [pc |-> p, client |-> c, permit |-> m]
<1>1. scan \in [Tasks -> ScanState] /\ free \in Nat
  BY DEF ScanInv
<1>2. \A p \in {"idle", "child", "thread", "mapping"}, c \in BOOLEAN, m \in BOOLEAN :
        /\ Rec(p, c, m) \in ScanState /\ Rec(p, c, m).pc = p /\ Rec(p, c, m).permit = m
  BY DEF ScanState
<1>3. \A t \in Tasks : /\ scan[t].pc \in {"idle", "child", "thread", "mapping"}
                       /\ scan[t].client \in BOOLEAN /\ scan[t].permit \in BOOLEAN
                       /\ scan[t] = Rec(scan[t].pc, scan[t].client, scan[t].permit)
  BY <1>1, SMT DEF ScanState
<1>4. \A t \in Tasks : /\ scan[t].pc \in {"thread", "child"} => scan[t].permit
                       /\ scan[t].pc = "idle" => ~scan[t].permit
  BY DEF ScanInv
<1>5. ASSUME NEW t \in Tasks, scan_idle(t), Returned(t)
      PROVE  ScanInv'
  <2>1. scan' = [scan EXCEPT ![t] = Rec("idle", FALSE, FALSE)]
    BY <1>5 DEF scan_idle
  <2>2. Rec("idle", FALSE, FALSE) \in ScanState
    BY <1>2
  <2>3. /\ scan' \in [Tasks -> ScanState] /\ scan'[t] = Rec("idle", FALSE, FALSE)
        /\ \A u \in Tasks : u # t => scan'[u] = scan[u]
    BY <1>1, <2>1, <2>2, ScanPut
  <2>4. scan'[t].pc = "idle" /\ ~scan'[t].permit
    BY <1>2, <2>3
  <2>5. \/ ~scan[t].permit /\ free' = free
        \/ scan[t].permit /\ free' = free + 1
    <3>1. free' = free + (IF scan[t].permit THEN 1 ELSE 0)
      BY <1>5 DEF Returned
    <3> QED
      BY <1>1, <3>1, SMT
  <2>6. ~scan[t].permit => scan'[t].permit = scan[t].permit
    <3>1. Rec("idle", FALSE, FALSE).permit = FALSE /\ scan[t].permit \in BOOLEAN
      BY <1>2, <1>3
    <3>2. scan'[t].permit = FALSE
      BY <2>3, <3>1
    <3> QED
      BY <3>1, <3>2
  <2>7. "idle" \notin {"thread", "child"}
    OBVIOUS
  <2> HIDE DEF Rec
  <2> QED
    BY <2>3, <2>4, <2>5, <2>6, <2>7, ScanMove
<1>6. ASSUME NEW t \in Tasks, query(t) \/ journal(t)
      PROVE  ScanInv'
  <2>1. PICK p \in {"thread", "child"} : scan' = [scan EXCEPT ![t] = Rec(p, TRUE, TRUE)]
    BY <1>6 DEF query, journal
  <2>2. Rec(p, TRUE, TRUE) \in ScanState /\ Rec(p, TRUE, TRUE).permit /\ Rec(p, TRUE, TRUE).pc = p
    BY <1>2
  <2>3. scan[t].pc = "idle" /\ free > 0 /\ free' = free - 1
    BY <1>6 DEF query, journal
  <2>4. ~scan[t].permit
    BY <1>4, <2>3
  <2> HIDE DEF Rec
  <2>5. /\ scan' \in [Tasks -> ScanState] /\ scan'[t] = Rec(p, TRUE, TRUE)
        /\ \A u \in Tasks : u # t => scan'[u] = scan[u]
    BY <1>1, <2>1, <2>2, ScanPut
  <2>6. scan'[t].permit /\ scan'[t].pc # "idle"
    BY <2>2, <2>5
  <2> QED
    BY <2>3, <2>4, <2>5, <2>6, ScanMove
<1>7. ASSUME NEW t \in Tasks, journal_mapped(t)
      PROVE  ScanInv'
  <2> DEFINE r == Rec("mapping", scan[t].client, scan[t].permit)
  <2>1. scan[t].pc = "child" /\ free' = free
    BY <1>7 DEF journal_mapped
  <2>2. [scan[t] EXCEPT !.pc = "mapping"] = r
    <3>1. scan[t] \in ScanState
      BY <1>1
    <3> QED
      BY <3>1, SMT DEF ScanState
  <2>3. scan' = [scan EXCEPT ![t] = r]
    BY <1>7, <2>2 DEF journal_mapped
  <2>4. r \in ScanState /\ r.pc = "mapping" /\ r.permit = scan[t].permit
    BY <1>2, <1>3
  <2> HIDE DEF Rec, r
  <2>5. /\ scan' \in [Tasks -> ScanState] /\ scan'[t] = r
        /\ \A u \in Tasks : u # t => scan'[u] = scan[u]
    BY <1>1, <2>3, <2>4, ScanPut
  <2>6. scan'[t].pc \notin {"thread", "child"} /\ scan'[t].pc # "idle"
    BY <2>4, <2>5
  <2>7. scan'[t].permit = scan[t].permit
    BY <2>4, <2>5
  <2> QED
    BY <2>1, <2>5, <2>6, <2>7, ScanMove
<1>8. ASSUME NEW t \in Tasks, cancel(t)
      PROVE  ScanInv'
  <2>1. scan[t].pc # "idle" /\ client_left(t)
    BY <1>8 DEF cancel
  <2>2. CASE scan[t].pc = "thread"
    <3> DEFINE r == [scan[t] EXCEPT !.client = FALSE]
    <3>1. free' = free /\ scan' = [scan EXCEPT ![t].client = FALSE]
      BY <2>1, <2>2 DEF client_left
    <3>2. scan[t] \in ScanState
      BY <1>1
    <3>3. scan' = [scan EXCEPT ![t] = r]
      BY <3>1
    <3>4. r \in ScanState /\ r.pc = "thread" /\ r.permit = scan[t].permit
      BY <2>2, <3>2 DEF ScanState
    <3>5. scan[t].permit
      BY <1>4, <2>2
    <3> HIDE DEF Rec, r
    <3>6. /\ scan' \in [Tasks -> ScanState] /\ scan'[t] = r
          /\ \A u \in Tasks : u # t => scan'[u] = scan[u]
      BY <1>1, <3>3, <3>4, ScanPut
    <3>7. scan'[t].pc # "idle" /\ scan'[t].permit = scan[t].permit
      BY <3>4, <3>6
    <3> QED
      BY <3>1, <3>5, <3>6, <3>7, ScanMove
  <2>3. CASE scan[t].pc = "child"
    BY <1>5, <2>1, <2>3 DEF client_left
  <2>4. CASE scan[t].pc \notin {"thread", "child"}
    <3> DEFINE r == [scan[t] EXCEPT !.client = FALSE, !.permit = FALSE]
    <3>1. /\ scan' = [scan EXCEPT ![t] = r]
          /\ free' = free + (IF scan[t].permit THEN 1 ELSE 0)
      BY <2>1, <2>4 DEF client_left, Returned
    <3>2. scan[t].pc = "mapping"
      BY <1>3, <2>1, <2>4
    <3>3. scan[t] \in ScanState
      BY <1>1
    <3>4. r \in ScanState /\ r.pc = "mapping" /\ r.permit = FALSE
      BY <3>2, <3>3 DEF ScanState
    <3>5. \/ ~scan[t].permit /\ free' = free
          \/ scan[t].permit /\ free' = free + 1
      BY <1>1, <3>1, SMT
    <3> HIDE DEF Rec, r
    <3>6. /\ scan' \in [Tasks -> ScanState] /\ scan'[t] = r
          /\ \A u \in Tasks : u # t => scan'[u] = scan[u]
      BY <1>1, <3>1, <3>4, ScanPut
    <3>7. scan'[t].pc \notin {"thread", "child"} /\ scan'[t].permit = FALSE
      BY <3>4, <3>6
    <3>8. ~scan[t].permit => scan'[t].permit = scan[t].permit
      BY <1>3, <3>7
    <3> QED
      BY <3>5, <3>6, <3>7, <3>8, ScanMove
  <2> QED
    BY <2>2, <2>3, <2>4
<1>9. CASE UNCHANGED scan_vars
  BY <1>9 DEF scan_vars, ScanInv, Permits
<1> QED
  BY <1>5, <1>6, <1>7, <1>8, <1>9 DEF ScanNext, journal_failed, run_blocking_ends

\* Permits are never negative, so no more files are read than there were permits.
LEMMA ScanSuffices == ScanInv => ScansBounded
<1> SUFFICES ASSUME ScanInv PROVE ScansBounded
  OBVIOUS
<1>1. Reading \in SUBSET Permits /\ Permits \in SUBSET Tasks /\ IsFiniteSet(Tasks)
  BY UiAssumption DEF Reading, Permits, ScanInv, UiAssumption
<1>2. IsFiniteSet(Permits) /\ Cardinality(Permits) \in Nat
  BY <1>1, FS_Subset, FS_CardinalityType
<1>3. Cardinality(Reading) <= Cardinality(Permits) /\ Cardinality(Reading) \in Nat
  BY <1>1, <1>2, FS_Subset, FS_CardinalityType
<1>4. free \in Nat /\ free + Cardinality(Permits) = MaxScans
  BY DEF ScanInv
<1>5. Cardinality(Reading) <= MaxScans
  BY <1>2, <1>3, <1>4, SMT
<1> QED
  BY <1>4, <1>5 DEF ScansBounded, Reading, Permits

-----------------------------------------------------------------------------
(* config.yaml. *)

Accepted(d) == d.valid /\ ~d.marked

\* What waits to be written was accepted, and so was what waits to be renamed.
ConfigInv ==
  /\ temp = [t \in Tasks |-> temp[t]] /\ put = [t \in Tasks |-> put[t]]
  /\ \A t \in Tasks : /\ put[t] = [pc |-> put[t].pc, doc |-> put[t].doc]
                      /\ put[t].pc = "write" => Accepted(put[t].doc)
                      /\ put[t].pc = "rename" => Accepted(temp[t])
  /\ Accepted(file)

LEMMA ConfigStart == ConfigInit => ConfigInv
<1> SUFFICES ASSUME ConfigInit PROVE ConfigInv
  OBVIOUS
<1>1. Accepted(file)
  BY DEF ConfigInit, Accepted
<1>2. temp = [t \in Tasks |-> NoDoc] /\ put = [t \in Tasks |-> NoPut]
  BY DEF ConfigInit
<1>3. temp = [t \in Tasks |-> temp[t]] /\ put = [t \in Tasks |-> put[t]]
  BY <1>2
<1>4. NoPut = [pc |-> NoPut.pc, doc |-> NoPut.doc] /\ NoPut.pc = "idle"
  BY DEF NoPut
<1> QED
  BY <1>1, <1>2, <1>3, <1>4 DEF ConfigInv

LEMMA ConfigStep == ConfigInv /\ [ConfigNext]_config_vars => ConfigInv'
<1> SUFFICES ASSUME ConfigInv, [ConfigNext]_config_vars PROVE ConfigInv'
  OBVIOUS
<1>1. temp = [t \in Tasks |-> temp[t]] /\ put = [t \in Tasks |-> put[t]] /\ Accepted(file)
  BY DEF ConfigInv
<1>2. \A t \in Tasks : /\ put[t] = [pc |-> put[t].pc, doc |-> put[t].doc]
                       /\ put[t].pc = "write" => Accepted(put[t].doc)
                       /\ put[t].pc = "rename" => Accepted(temp[t])
  BY DEF ConfigInv
<1>3. NoPut = [pc |-> NoPut.pc, doc |-> NoPut.doc] /\ NoPut.pc = "idle"
  BY DEF NoPut
<1>4. ASSUME NEW t \in Tasks, put_config(t) PROVE ConfigInv'
  <2>1. PICK d : put_accepts(d) /\ put' = [put EXCEPT ![t] = [pc |-> "write", doc |-> d]]
    BY <1>4 DEF put_config
  <2>2. file' = file /\ temp' = temp
    BY <1>4 DEF put_config
  <2> DEFINE p == [pc |-> "write", doc |-> d]
  <2>3. p = [pc |-> p.pc, doc |-> p.doc] /\ p.pc = "write" /\ p.doc = d
    OBVIOUS
  <2>4. Accepted(d)
    BY <2>1 DEF put_accepts, Accepted
  <2> HIDE DEF p
  <2>5. put' = [put EXCEPT ![t] = p]
    BY <2>1 DEF p
  <2>6. put' = [u \in Tasks |-> put'[u]]
    BY <1>1, <2>5
  <2>7. \A u \in Tasks : put'[u] = IF u = t THEN p ELSE put[u]
    BY <1>1, <2>5
  <2> QED
    BY <1>1, <1>2, <2>2, <2>3, <2>4, <2>6, <2>7 DEF ConfigInv, Accepted
<1>5. ASSUME NEW t \in Tasks, write_temp(t) PROVE ConfigInv'
  <2>1. put[t].pc = "write" /\ file' = file
    BY <1>5 DEF write_temp
  <2>2. CASE temp' = [temp EXCEPT ![t] = put[t].doc] /\ put' = [put EXCEPT ![t].pc = "rename"]
    <3> DEFINE p == [put[t] EXCEPT !.pc = "rename"]
    <3>1. put[t] = [pc |-> put[t].pc, doc |-> put[t].doc]
      BY <1>2
    <3>2. p = [pc |-> p.pc, doc |-> p.doc] /\ p.pc = "rename"
      BY <3>1, SMT
    <3>3. put' = [put EXCEPT ![t] = p]
      BY <2>2
    <3> HIDE DEF p
    <3>4. put' = [u \in Tasks |-> put'[u]] /\ temp' = [u \in Tasks |-> temp'[u]]
      BY <1>1, <2>2, <3>3
    <3>5. \A u \in Tasks : put'[u] = IF u = t THEN p ELSE put[u]
      BY <1>1, <3>3
    <3>6. \A u \in Tasks : temp'[u] = IF u = t THEN put[t].doc ELSE temp[u]
      BY <1>1, <2>2
    <3>7. Accepted(put[t].doc)
      BY <1>2, <2>1
    <3> QED
      BY <1>1, <1>2, <2>1, <3>2, <3>4, <3>5, <3>6, <3>7 DEF ConfigInv, Accepted
  <2>3. CASE put' = [put EXCEPT ![t] = NoPut] /\ UNCHANGED temp
    <3>1. put' = [u \in Tasks |-> put'[u]]
      BY <1>1, <2>3
    <3>2. \A u \in Tasks : put'[u] = IF u = t THEN NoPut ELSE put[u]
      BY <1>1, <2>3
    <3> QED
      BY <1>1, <1>2, <1>3, <2>1, <2>3, <3>1, <3>2 DEF ConfigInv, Accepted
  <2> QED
    BY <1>5, <2>2, <2>3 DEF write_temp
<1>6. ASSUME NEW t \in Tasks, rename_temp(t) PROVE ConfigInv'
  <2>1. put[t].pc = "rename" /\ file' = temp[t]
    BY <1>6 DEF rename_temp
  <2>2. temp' = [temp EXCEPT ![t] = NoDoc] /\ put' = [put EXCEPT ![t] = NoPut]
    BY <1>6 DEF rename_temp
  <2>3. put' = [u \in Tasks |-> put'[u]] /\ temp' = [u \in Tasks |-> temp'[u]]
    BY <1>1, <2>2
  <2>4. \A u \in Tasks : put'[u] = IF u = t THEN NoPut ELSE put[u]
    BY <1>1, <2>2
  <2>5. \A u \in Tasks : temp'[u] = IF u = t THEN NoDoc ELSE temp[u]
    BY <1>1, <2>2
  <2>6. Accepted(file')
    BY <1>2, <2>1
  <2> QED
    BY <1>2, <1>3, <2>3, <2>4, <2>5, <2>6 DEF ConfigInv, Accepted
<1>7. CASE config_crash
  <2>1. /\ put' = [t \in Tasks |-> NoPut] /\ temp' = [t \in Tasks |-> NoDoc] /\ file' = file
    BY <1>7 DEF config_crash
  <2>2. put' = [u \in Tasks |-> put'[u]] /\ temp' = [u \in Tasks |-> temp'[u]]
    BY <2>1
  <2> QED
    BY <1>1, <1>3, <2>1, <2>2 DEF ConfigInv, Accepted
<1>8. CASE get_config
  BY <1>1, <1>2, <1>8 DEF get_config, ConfigInv, Accepted
<1>9. CASE UNCHANGED config_vars
  BY <1>1, <1>2, <1>9 DEF config_vars, ConfigInv, Accepted
<1> QED
  BY <1>4, <1>5, <1>6, <1>7, <1>8, <1>9 DEF ConfigNext

LEMMA ConfigSuffices == ConfigInv => ConfigSound
<1> SUFFICES ASSUME ConfigInv PROVE ConfigSound
  OBVIOUS
<1>1. file.valid /\ ~file.marked
  BY DEF ConfigInv, Accepted
<1>2. NoDoc.valid = FALSE
  BY DEF NoDoc
<1>3. file # NoDoc
  BY <1>1, <1>2
<1> QED
  BY <1>1, <1>3 DEF ConfigSound

-----------------------------------------------------------------------------
(* The rules in force. *)

Rule == [id : RuleIds, rev : {1, 2}]
Unique(rs) == \A i, j \in DOMAIN rs : rs[i].id = rs[j].id => i = j

SigmaInv ==
  /\ rules \in Seq(Rule) /\ Unique(rules)
  /\ edit = [t \in Tasks |-> edit[t]]
  /\ \A t \in Tasks : edit[t].pc = "store" => edit[t].rules \in Seq(Rule) /\ Unique(edit[t].rules)

\* In a finite set of numbers every place is taken.
LEMMA Places ==
  ASSUME NEW S \in SUBSET Nat, IsFiniteSet(S)
  PROVE  \A k \in 1 .. Cardinality(S) : \E i \in S : Cardinality({j \in S : j < i}) = k - 1
<1> DEFINE P(i) == {j \in S : j < i}
           n == Cardinality(S)
           rank == [i \in S |-> Cardinality(P(i)) + 1]
<1>1. n \in Nat
  BY FS_CardinalityType
<1>2. ASSUME NEW i \in S
      PROVE  IsFiniteSet(P(i)) /\ Cardinality(P(i)) \in Nat /\ Cardinality(P(i)) + 1 \in 1 .. n
  <2>1. i \notin P(i)
    <3>1. ~(i < i)
      BY SMT
    <3> QED
      BY <3>1
  <2>2. P(i) \in SUBSET S /\ P(i) # S
    BY <2>1
  <2>3. IsFiniteSet(P(i)) /\ Cardinality(P(i)) <= n /\ Cardinality(P(i)) # n
    BY <2>2, FS_Subset
  <2>4. Cardinality(P(i)) \in Nat
    BY <2>3, FS_CardinalityType
  <2> HIDE DEF P, n
  <2> QED
    BY <1>1, <2>3, <2>4, SMT
<1>3. ASSUME NEW i \in S, NEW j \in S, i < j
      PROVE  Cardinality(P(i)) # Cardinality(P(j))
  <2>1. (\A k \in S : k < i => k < j) /\ ~(i < i)
    BY <1>3, SMT
  <2>2. P(i) \in SUBSET P(j) /\ i \in P(j) /\ i \notin P(i)
    BY <1>3, <2>1
  <2>3. IsFiniteSet(P(j))
    BY <1>2
  <2> QED
    BY <2>2, <2>3, FS_Subset
<1>4. ASSUME NEW i \in S, NEW j \in S, Cardinality(P(i)) = Cardinality(P(j))
      PROVE  i = j
  <2>1. i # j => i < j \/ j < i
    BY SMT
  <2> HIDE DEF P
  <2> QED
    BY <1>3, <1>4, <2>1
<1>5. rank \in Injection(S, 1 .. n)
  <2>1. rank \in [S -> 1 .. n]
    BY <1>2
  <2>2. \A i \in S : rank[i] = Cardinality(P(i)) + 1
    OBVIOUS
  <2> HIDE DEF rank, n, P
  <2>3. ASSUME NEW i \in S, NEW j \in S, rank[i] = rank[j]
        PROVE  i = j
    <3>1. Cardinality(P(i)) \in Nat /\ Cardinality(P(j)) \in Nat
      BY <1>2
    <3>2. Cardinality(P(i)) = Cardinality(P(j))
      BY <2>2, <2>3, <3>1, SMT
    <3> QED
      BY <1>4, <3>2
  <2> QED
    BY <2>1, <2>3 DEF Injection, IsInjective
<1>6. IsFiniteSet(1 .. n) /\ Cardinality(1 .. n) = n
  BY <1>1, FS_Interval, SMT
<1>7. rank \in Surjection(S, 1 .. n)
  BY <1>5, <1>6, FS_Injection
<1> SUFFICES ASSUME NEW k \in 1 .. n PROVE \E i \in S : Cardinality(P(i)) = k - 1
  OBVIOUS
<1>8. PICK i \in S : rank[i] = k
  BY <1>7 DEF Surjection
<1>9. Cardinality(P(i)) \in Nat /\ Cardinality(P(i)) + 1 = k
  BY <1>2, <1>8
<1> HIDE DEF P
<1>10. Cardinality(P(i)) = k - 1
  BY <1>9, SMT
<1> QED
  BY <1>10

\* What is left after a deletion is a list of rules, none of them twice.
LEMMA WithoutUnique ==
  ASSUME NEW rs \in Seq(Rule), Unique(rs), NEW id
  PROVE  without(rs, id) \in Seq(Rule) /\ Unique(without(rs, id))
<1> DEFINE keep == {i \in DOMAIN rs : rs[i].id # id}
           at(k) == CHOOSE i \in keep : Cardinality({j \in keep : j < i}) = k - 1
           out == [k \in 1 .. Cardinality(keep) |-> rs[at(k)]]
<1>1. without(rs, id) = out
  BY DEF without
<1>2. DOMAIN rs = 1 .. Len(rs) /\ Len(rs) \in Nat /\ \A i \in DOMAIN rs : rs[i] \in Rule
  BY SMT
<1>3. 1 .. Len(rs) \in SUBSET Nat /\ IsFiniteSet(1 .. Len(rs))
  <2>1. 1 .. Len(rs) \in SUBSET Nat
    BY <1>2, SMT
  <2> QED
    BY <1>2, <2>1, FS_Interval, SMT
<1>4. keep \in SUBSET Nat /\ keep \in SUBSET DOMAIN rs /\ IsFiniteSet(keep)
  BY <1>2, <1>3, FS_Subset
<1>5. Cardinality(keep) \in Nat
  BY <1>4, FS_CardinalityType
<1>6. \A k \in 1 .. Cardinality(keep) : at(k) \in keep /\ Cardinality({j \in keep : j < at(k)}) = k - 1
  <2> HIDE DEF keep
  <2>1. \A k \in 1 .. Cardinality(keep) : \E i \in keep : Cardinality({j \in keep : j < i}) = k - 1
    BY <1>4, Places
  <2> QED
    BY <2>1
<1>7. \A k \in 1 .. Cardinality(keep) : out[k] = rs[at(k)] /\ out[k] \in Rule
  BY <1>2, <1>4, <1>6
<1>8. out \in Seq(Rule) /\ DOMAIN out = 1 .. Cardinality(keep)
  <2>1. out \in [1 .. Cardinality(keep) -> Rule]
    BY <1>7
  <2> HIDE DEF out, keep
  <2> QED
    BY <1>5, <2>1, SMT
<1>9. ASSUME NEW k \in 1 .. Cardinality(keep), NEW l \in 1 .. Cardinality(keep), out[k].id = out[l].id
      PROVE  k = l
  <2>1. at(k) = at(l)
    BY <1>4, <1>6, <1>7, <1>9 DEF Unique
  <2>2. k - 1 = l - 1
    BY <1>6, <2>1
  <2> QED
    BY <2>2, SMT
<1>10. Unique(out)
  <2> HIDE DEF out, keep
  <2> QED
    BY <1>8, <1>9 DEF Unique
<1> QED
  BY <1>1, <1>8, <1>10

\* A rule that is there is replaced, and appended only when it is not.
LEMMA UpsertUnique ==
  ASSUME NEW rs \in Seq(Rule), Unique(rs), NEW r \in Rule
  PROVE  upsert_sigma_rule(rs, r) \in Seq(Rule) /\ Unique(upsert_sigma_rule(rs, r))
<1>1. DOMAIN rs = 1 .. Len(rs) /\ Len(rs) \in Nat /\ \A i \in DOMAIN rs : rs[i] \in Rule
  BY SMT
<1>2. CASE \E i \in DOMAIN rs : rs[i].id = r.id
  <2> DEFINE out == [i \in DOMAIN rs |-> IF rs[i].id = r.id THEN r ELSE rs[i]]
  <2>1. upsert_sigma_rule(rs, r) = out
    BY <1>2 DEF upsert_sigma_rule
  <2>2. out \in [1 .. Len(rs) -> Rule]
    BY <1>1
  <2>3. \A i \in DOMAIN rs : out[i].id = rs[i].id
    OBVIOUS
  <2>4. DOMAIN out = DOMAIN rs
    OBVIOUS
  <2> HIDE DEF out
  <2>5. out \in Seq(Rule)
    BY <1>1, <2>2, SMT
  <2> QED
    BY <2>1, <2>3, <2>4, <2>5 DEF Unique
<1>3. CASE ~\E i \in DOMAIN rs : rs[i].id = r.id
  <2> DEFINE out == Append(rs, r)
  <2>1. upsert_sigma_rule(rs, r) = out
    BY <1>3 DEF upsert_sigma_rule
  <2>2. out \in Seq(Rule) /\ DOMAIN out = DOMAIN rs \cup {Len(rs) + 1}
    BY <1>1, SMT
  <2>3. out[Len(rs) + 1] = r /\ \A i \in DOMAIN rs : out[i] = rs[i]
    BY <1>1, SMT
  <2> HIDE DEF out
  <2>4. ASSUME NEW i \in DOMAIN out, NEW j \in DOMAIN out, out[i].id = out[j].id
        PROVE  i = j
    <3>1. CASE i \in DOMAIN rs /\ j \in DOMAIN rs
      BY <2>3, <2>4, <3>1 DEF Unique
    <3>2. CASE i = Len(rs) + 1 /\ j \in DOMAIN rs
      BY <1>3, <2>3, <2>4, <3>2
    <3>3. CASE i \in DOMAIN rs /\ j = Len(rs) + 1
      BY <1>3, <2>3, <2>4, <3>3
    <3> QED
      BY <2>2, <3>1, <3>2, <3>3
  <2>5. Unique(out)
    BY <2>4 DEF Unique
  <2> QED
    BY <2>1, <2>2, <2>5
<1> QED
  BY <1>2, <1>3

LEMMA SigmaStart == SigmaInit => SigmaInv
<1> SUFFICES ASSUME SigmaInit PROVE SigmaInv
  OBVIOUS
<1>1. <<>> \in Seq(Rule) /\ DOMAIN <<>> = {}
  BY SMT
<1>2. NoEdit.pc = "idle"
  BY DEF NoEdit
<1> QED
  BY <1>1, <1>2 DEF SigmaInit, SigmaInv, Unique

LEMMA SigmaStep == SigmaInv /\ [SigmaNext]_sigma_vars => SigmaInv'
<1> SUFFICES ASSUME SigmaInv, [SigmaNext]_sigma_vars PROVE SigmaInv'
  OBVIOUS
<1>1. rules \in Seq(Rule) /\ Unique(rules) /\ edit = [t \in Tasks |-> edit[t]]
  BY DEF SigmaInv
<1>2. \A t \in Tasks : edit[t].pc = "store" => edit[t].rules \in Seq(Rule) /\ Unique(edit[t].rules)
  BY DEF SigmaInv
<1>3. ASSUME NEW t \in Tasks, sigma_load(t) PROVE SigmaInv'
  <2>1. rules' = rules
    BY <1>3 DEF sigma_load
  <2>2. PICK rs : /\ edit' = [edit EXCEPT ![t] = [pc |-> "store", rules |-> rs]]
                  /\ rs \in Seq(Rule) /\ Unique(rs)
    BY <1>1, <1>3, UpsertUnique, WithoutUnique DEF sigma_load, Rule
  <2> DEFINE e == [pc |-> "store", rules |-> rs]
  <2>3. e.rules = rs
    OBVIOUS
  <2> HIDE DEF e
  <2>4. edit' = [u \in Tasks |-> edit'[u]] /\ \A u \in Tasks : edit'[u] = IF u = t THEN e ELSE edit[u]
    BY <1>1, <2>2 DEF e
  <2>5. \A u \in Tasks : edit'[u].pc = "store" => edit'[u].rules \in Seq(Rule) /\ Unique(edit'[u].rules)
    BY <1>2, <2>2, <2>3, <2>4
  <2>6. rules' \in Seq(Rule) /\ Unique(rules')
    BY <1>1, <2>1
  <2> QED
    BY <2>4, <2>5, <2>6 DEF SigmaInv, Unique
<1>4. ASSUME NEW t \in Tasks, sigma_store(t) PROVE SigmaInv'
  <2>1. edit[t].pc = "store" /\ rules' = edit[t].rules /\ edit' = [edit EXCEPT ![t] = NoEdit]
    BY <1>4 DEF sigma_store
  <2>2. NoEdit.pc = "idle"
    BY DEF NoEdit
  <2>3. edit' = [u \in Tasks |-> edit'[u]] /\ \A u \in Tasks : edit'[u] = IF u = t THEN NoEdit ELSE edit[u]
    BY <1>1, <2>1
  <2>4. \A u \in Tasks : edit'[u].pc = "store" => edit'[u].rules \in Seq(Rule) /\ Unique(edit'[u].rules)
    BY <1>2, <2>2, <2>3
  <2>5. rules' \in Seq(Rule) /\ Unique(rules')
    BY <1>2, <2>1
  <2> QED
    BY <2>3, <2>4, <2>5 DEF SigmaInv, Unique
<1>5. CASE UNCHANGED sigma_vars
  BY <1>1, <1>2, <1>5 DEF sigma_vars, SigmaInv, Unique
<1> QED
  BY <1>3, <1>4, <1>5 DEF SigmaNext

LEMMA SigmaSuffices == SigmaInv => RulesUnique
BY DEF SigmaInv, RulesUnique, Unique

-----------------------------------------------------------------------------
(* The limit of the push endpoint. *)

\* The requests taken in a tick, none outside the run.
Took == [i \in Int |-> IF i \in 0 .. MaxTicks THEN taken[i] ELSE 0]

\* The window and what was taken in its two ticks, and in the two before it.
PushInv ==
  /\ clock \in 0 .. MaxTicks /\ taken \in [0 .. MaxTicks -> Nat]
  /\ window \in [start : 0 .. clock, count : 0 .. MaxPush]
  /\ Took[window.start] + Took[window.start + 1] = window.count
  /\ \A i \in Int : i > clock \/ i > window.start + 1 => Took[i] = 0
  /\ Took[window.start - 2] + Took[window.start - 1] <= MaxPush
  /\ \A i \in Int : Took[i] + Took[i + 1] + Took[i + 2] <= 2 * MaxPush

LEMMA PushConstants == MaxPush \in Nat /\ MaxTicks \in Nat
BY UiAssumption DEF UiAssumption

LEMMA PushStart == PushInit => PushInv
<1> SUFFICES ASSUME PushInit PROVE PushInv
  OBVIOUS
<1>1. MaxPush \in Nat /\ MaxTicks \in Nat
  BY PushConstants
<1>2. clock = 0 /\ window = [start |-> 0, count |-> 0] /\ taken = [i \in 0..MaxTicks |-> 0]
  BY DEF PushInit
<1>3. \A i \in Int : Took[i] = 0
  BY <1>2 DEF Took
<1>4. clock \in 0 .. MaxTicks /\ taken \in [0 .. MaxTicks -> Nat]
  BY <1>1, <1>2, SMT
<1>5. window \in [start : 0 .. clock, count : 0 .. MaxPush] /\ window.start = 0 /\ window.count = 0
  BY <1>1, <1>2, SMT
<1>6. Took[0] + Took[0 + 1] = 0 /\ Took[0 - 2] + Took[0 - 1] <= MaxPush
  BY <1>1, <1>3, SMT
<1>7. \A i \in Int : Took[i] + Took[i + 1] + Took[i + 2] <= 2 * MaxPush
  BY <1>1, <1>3, SMT
<1> QED
  BY <1>3, <1>4, <1>5, <1>6, <1>7 DEF PushInv

LEMMA PushStep == PushInv /\ [PushNext]_push_vars => PushInv'
<1> SUFFICES ASSUME PushInv, [PushNext]_push_vars PROVE PushInv'
  OBVIOUS
<1>1. MaxPush \in Nat /\ MaxTicks \in Nat
  BY PushConstants
<1>2. /\ clock \in 0 .. MaxTicks /\ taken \in [0 .. MaxTicks -> Nat]
      /\ window \in [start : 0 .. clock, count : 0 .. MaxPush]
  BY DEF PushInv
<1>3. /\ Took[window.start] + Took[window.start + 1] = window.count
      /\ \A i \in Int : i > clock \/ i > window.start + 1 => Took[i] = 0
      /\ Took[window.start - 2] + Took[window.start - 1] <= MaxPush
      /\ \A i \in Int : Took[i] + Took[i + 1] + Took[i + 2] <= 2 * MaxPush
  BY DEF PushInv
<1>4. Took \in [Int -> Nat]
  BY <1>1, <1>2, SMT DEF Took
<1>5. window.start \in 0 .. clock /\ window.count \in 0 .. MaxPush
  BY <1>2
<1>6. CASE tick
  <2>1. clock < MaxTicks /\ clock' = clock + 1 /\ window' = window /\ taken' = taken
    BY <1>6 DEF tick
  <2>2. Took' = Took
    BY <2>1 DEF Took
  <2>3. clock' \in 0 .. MaxTicks /\ window' \in [start : 0 .. clock', count : 0 .. MaxPush]
    BY <1>1, <1>2, <2>1, SMT
  <2>4. \A i \in Int : i > clock' \/ i > window.start + 1 => i > clock \/ i > window.start + 1
    BY <1>2, <2>1, SMT
  <2> QED
    BY <1>2, <1>3, <2>1, <2>2, <2>3, <2>4 DEF PushInv
<1>7. CASE UNCHANGED push_vars
  <2>1. clock' = clock /\ window' = window /\ taken' = taken
    BY <1>7 DEF push_vars
  <2>2. Took' = Took
    BY <2>1 DEF Took
  <2> QED
    BY <1>2, <1>3, <2>1, <2>2 DEF PushInv
<1>8. CASE post_ingest_logs
  <2> DEFINE w == push_rate_limit_ok(window)
             more == IF w.count < MaxPush THEN 1 ELSE 0
             s == w.start
             n == w.count
  <2>1. /\ window' = [w EXCEPT !.count = @ + more] /\ clock' = clock
        /\ taken' = [taken EXCEPT ![clock] = @ + more]
    BY <1>8 DEF post_ingest_logs
  <2>2. w \in [start : 0 .. clock, count : 0 .. MaxPush]
    <3>1. 0 \in 0 .. MaxPush /\ clock \in 0 .. clock
      BY <1>1, <1>2, SMT
    <3> QED
      BY <1>2, <3>1 DEF push_rate_limit_ok
  <2>3. /\ Took[s] + Took[s + 1] = n /\ clock <= s + 1 /\ \A i \in Int : i > clock => Took[i] = 0
        /\ Took[s - 2] + Took[s - 1] <= MaxPush
    <3>1. CASE clock - window.start >= 2
      <4>1. s = clock /\ n = 0
        BY <3>1 DEF push_rate_limit_ok
      <4> DEFINE a == window.start
      <4>5. a \in Int /\ clock \in Int /\ clock >= a + 2
        BY <1>2, <1>5, <3>1, SMT
      <4>6. \A i \in Int : i > a + 1 => Took[i] = 0
        BY <1>3
      <4>7. Took[a] + Took[a + 1] <= MaxPush
        BY <1>1, <1>3, <1>5, SMT
      <4> HIDE DEF a
      <4>2. Took[clock] = 0 /\ Took[clock + 1] = 0
        BY <4>5, <4>6, SMT
      <4>3. Took[clock - 2] + Took[clock - 1] <= MaxPush
        <5>1. CASE clock = a + 2
          <6>1. clock - 2 = a /\ clock - 1 = a + 1
            BY <4>5, <5>1, SMT
          <6> QED
            BY <4>7, <6>1
        <5>2. CASE clock = a + 3
          <6>1. clock - 2 = a + 1 /\ clock - 1 > a + 1 /\ clock - 1 \in Int /\ a + 1 \in Int
            BY <4>5, <5>2, SMT
          <6>2. Took[clock - 1] = 0 /\ Took[a] \in Nat /\ Took[a + 1] \in Nat
            BY <1>4, <4>5, <4>6, <6>1
          <6> QED
            BY <1>1, <4>7, <6>1, <6>2, SMT
        <5>3. CASE clock > a + 3
          <6>1. clock - 2 > a + 1 /\ clock - 1 > a + 1 /\ clock - 1 \in Int /\ clock - 2 \in Int
            BY <4>5, <5>3, SMT
          <6>2. Took[clock - 1] = 0 /\ Took[clock - 2] = 0
            BY <4>6, <6>1
          <6> QED
            BY <1>1, <6>2, SMT
        <5> QED
          BY <4>5, <5>1, <5>2, <5>3, SMT
      <4> HIDE DEF s, n, w
      <4>4. clock <= s + 1 /\ Took[s] + Took[s + 1] = n
        BY <1>2, <4>1, <4>2, SMT
      <4> QED
        BY <1>3, <4>1, <4>3, <4>4
    <3>2. CASE ~(clock - window.start >= 2)
      <4>1. s = window.start /\ n = window.count
        BY <3>2 DEF push_rate_limit_ok
      <4>2. clock <= window.start + 1
        BY <1>2, <1>5, <3>2, SMT
      <4> QED
        BY <1>3, <4>1, <4>2
    <3> QED
      BY <3>1, <3>2
  <2>4. s \in 0 .. clock /\ n \in 0 .. MaxPush
    BY <2>2
  <2>5. more \in {0, 1} /\ n + more <= MaxPush
    <3> HIDE DEF w
    <3> QED
      BY <1>1, <2>4, SMT
  <2>6. window'.start = s /\ window'.count = n + more
    BY <2>1, <2>2
  <2>7. window' \in [start : 0 .. clock', count : 0 .. MaxPush]
    <3>1. n + more \in 0 .. MaxPush
      <4> HIDE DEF w, n, more
      <4> QED
        BY <1>1, <2>4, <2>5, SMT
    <3> HIDE DEF more
    <3> QED
      BY <2>1, <2>2, <3>1
  <2> HIDE DEF w, s, n, more
  <2>8. taken' \in [0 .. MaxTicks -> Nat]
    BY <1>2, <2>1, <2>5, SMT
  <2>9. \A i \in Int : Took'[i] = IF i = clock THEN Took[i] + more ELSE Took[i]
    BY <1>2, <2>1, <2>5, SMT DEF Took
  <2>10. Took'[s] + Took'[s + 1] = n + more
    <3>1. clock = s \/ clock = s + 1
      BY <1>2, <2>3, <2>4, SMT
    <3>2. s \in Int /\ s + 1 \in Int /\ Took[s] \in Nat /\ Took[s + 1] \in Nat /\ n \in Int
      BY <1>4, <2>4, SMT
    <3>3. CASE clock = s
      <4>1. Took'[s] = Took[s] + more /\ Took'[s + 1] = Took[s + 1]
        BY <2>9, <3>2, <3>3, SMT
      <4> QED
        BY <2>3, <2>5, <3>2, <4>1, SMT
    <3>4. CASE clock = s + 1
      <4>1. Took'[s] = Took[s] /\ Took'[s + 1] = Took[s + 1] + more
        BY <2>9, <3>2, <3>4, SMT
      <4> QED
        BY <2>3, <2>5, <3>2, <4>1, SMT
    <3> QED
      BY <3>1, <3>3, <3>4
  <2>11. \A i \in Int : i > clock \/ i > s + 1 => Took'[i] = 0
    BY <1>2, <2>3, <2>4, <2>9, SMT
  <2>12. Took'[s - 2] = Took[s - 2] /\ Took'[s - 1] = Took[s - 1]
    BY <1>2, <2>4, <2>9, SMT
  <2>13. ASSUME NEW i \in Int
         PROVE  Took'[i] + Took'[i + 1] + Took'[i + 2] <= 2 * MaxPush
    <3>1. \A j \in Int : Took'[j] \in Nat
      BY <1>4, <2>5, <2>9, SMT
    <3>2. Took'[s] <= MaxPush /\ Took'[s + 1] <= MaxPush /\ Took'[s] + Took'[s + 1] <= MaxPush
      BY <1>1, <2>4, <2>5, <2>10, <3>1, SMT
    <3>3. Took'[s - 2] + Took'[s - 1] <= MaxPush /\ Took'[s + 2] = 0 /\ Took'[s + 3] = 0
      BY <2>3, <2>4, <2>11, <2>12, SMT
    <3>4. CASE i = s - 2
      BY <1>1, <2>4, <3>1, <3>2, <3>3, <3>4, SMT
    <3>5. CASE i = s - 1
      BY <1>1, <2>4, <3>1, <3>2, <3>3, <3>5, SMT
    <3>6. CASE i = s \/ i = s + 1
      BY <1>1, <2>4, <3>1, <3>2, <3>3, <3>6, SMT
    <3>7. CASE i < s - 2
      <4>1. Took'[i] = Took[i] /\ Took'[i + 1] = Took[i + 1] /\ Took'[i + 2] = Took[i + 2]
        BY <1>2, <2>4, <2>9, <3>7, SMT
      <4> QED
        BY <1>3, <4>1
    <3>8. CASE i > s + 1
      BY <1>1, <2>4, <2>11, <3>8, SMT
    <3> QED
      BY <2>4, <3>4, <3>5, <3>6, <3>7, <3>8, SMT
  <2>14. Took'[s - 2] + Took'[s - 1] <= MaxPush
    BY <2>3, <2>12
  <2> QED
    BY <1>2, <2>1, <2>6, <2>7, <2>8, <2>10, <2>11, <2>13, <2>14 DEF PushInv
<1> QED
  BY <1>6, <1>7, <1>8 DEF PushNext

LEMMA PushSuffices == PushInv => PushBounded
<1> SUFFICES ASSUME PushInv, NEW i \in 0 .. (MaxTicks - 2)
             PROVE  taken[i] + taken[i + 1] + taken[i + 2] <= 2 * MaxPush
  BY DEF PushBounded
<1>1. MaxTicks \in Nat
  BY PushConstants
<1>2. Took[i] + Took[i + 1] + Took[i + 2] <= 2 * MaxPush
  <2>1. i \in Int
    BY SMT
  <2> QED
    BY <2>1 DEF PushInv
<1> QED
  BY <1>1, <1>2, SMT DEF Took

-----------------------------------------------------------------------------
(* The bans as the streams tell of them. *)

Added(s) == [kind |-> "ban_added", subject |-> s]
Removed(s) == [kind |-> "ban_removed", subject |-> s]
BanEvent == [kind : {"ban_added", "ban_removed"}, subject : Subjects]
View == (SUBSET Subjects) \cup {NoView}

BanInv ==
  /\ ban_list \in SUBSET Subjects /\ last \in View
  /\ task \in [BanTasks \cup {Ticker} -> [pc : {"idle", "copy", "emit"}, snap : SUBSET Subjects]]
  /\ stream \in [open : BOOLEAN, view : View, q : Seq(BanEvent), lost : BOOLEAN, told : BOOLEAN]
  /\ stream.open /\ stream.view # NoView => last # NoView
  /\ StreamsAddUp

LEMMA NoViewIsNone == NoView \notin SUBSET Subjects
BY UiAssumption DEF UiAssumption, NoView

\* Of two events about a subject the kind tells which.
LEMMA EventKinds ==
  /\ \A s \in Subjects : Added(s) \in BanEvent /\ Removed(s) \in BanEvent /\ Added(s) # Removed(s)
  /\ \A s : Added(s).subject = s /\ Removed(s).subject = s
  /\ \A e \in BanEvent : e = Added(e.subject) \/ e = Removed(e.subject)
<1>1. \A s \in Subjects : Added(s) \in BanEvent /\ Removed(s) \in BanEvent
  BY DEF Added, Removed, BanEvent
<1>2. \A s : Added(s).kind = "ban_added" /\ Removed(s).kind = "ban_removed"
  BY DEF Added, Removed
<1>3. \A s : Added(s).subject = s /\ Removed(s).subject = s
  BY DEF Added, Removed
<1>4. \A e \in BanEvent : e = Added(e.subject) \/ e = Removed(e.subject)
  BY SMT DEF BanEvent, Added, Removed
<1> QED
  BY <1>1, <1>2, <1>3, <1>4

\* A finite set in a sequence: each element has one place.
LEMMA InSequence ==
  ASSUME NEW S, IsFiniteSet(S)
  PROVE  /\ InSomeOrder(S) \in Seq(S)
         /\ \A x \in S : \E i \in DOMAIN InSomeOrder(S) : InSomeOrder(S)[i] = x
         /\ \A i, j \in DOMAIN InSomeOrder(S) : InSomeOrder(S)[i] = InSomeOrder(S)[j] => i = j
<1> DEFINE n == Cardinality(S)
           f == InSomeOrder(S)
<1>1. n \in Nat /\ ExistsBijection(1 .. n, S)
  BY FS_CardinalityType
<1>2. \E g \in [1 .. n -> S] : IsInjective(g)
  BY <1>1 DEF ExistsBijection, Bijection, Injection
<1>3. f \in [1 .. n -> S] /\ IsInjective(f)
  BY <1>2 DEF InSomeOrder
<1>4. IsFiniteSet(1 .. n) /\ Cardinality(1 .. n) = n
  BY <1>1, FS_Interval, SMT
<1>5. f \in Injection(1 .. n, S)
  BY <1>3 DEF Injection
<1> HIDE DEF f
<1>6. f \in Surjection(1 .. n, S)
  BY <1>4, <1>5, FS_Injection
<1>7. DOMAIN f = 1 .. n
  BY <1>3
<1>8. \A x \in S : \E i \in DOMAIN f : f[i] = x
  BY <1>6, <1>7 DEF Surjection
<1>9. f \in Seq(S)
  <2> HIDE DEF n
  <2> QED
    BY <1>1, <1>3, SMT
<1>10. \A i, j \in DOMAIN f : f[i] = f[j] => i = j
  BY <1>3 DEF IsInjective
<1> QED
  BY <1>8, <1>9, <1>10 DEF f

\* The events of a comparison: one for each subject in which the lists differ.
LEMMA EventsOfDiff ==
  ASSUME NEW old \in SUBSET Subjects, NEW new \in SUBSET Subjects
  PROVE  /\ BanEvents(old, new) \in Seq(BanEvent)
         /\ \A s \in new \ old : \E i \in DOMAIN BanEvents(old, new) :
              /\ BanEvents(old, new)[i] = Added(s)
              /\ \A j \in DOMAIN BanEvents(old, new) : BanEvents(old, new)[j].subject = s => j = i
         /\ \A s \in old \ new : \E i \in DOMAIN BanEvents(old, new) :
              /\ BanEvents(old, new)[i] = Removed(s)
              /\ \A j \in DOMAIN BanEvents(old, new) : BanEvents(old, new)[j].subject = s => j = i
         /\ \A s : (s \in old <=> s \in new) =>
              \A j \in DOMAIN BanEvents(old, new) : BanEvents(old, new)[j].subject # s
<1> DEFINE E == {Added(s) : s \in new \ old} \cup {Removed(s) : s \in old \ new}
           f == InSomeOrder(E)
           to == [e \in E |-> e.subject]
<1>1. BanEvents(old, new) = f
  BY DEF BanEvents, Added, Removed
<1>2. E \subseteq BanEvent
  BY EventKinds
<1>3. \A e \in E : \/ e = Added(e.subject) /\ e.subject \in new \ old
                   \/ e = Removed(e.subject) /\ e.subject \in old \ new
  BY EventKinds
<1>4. ASSUME NEW d \in E, NEW e \in E, d.subject = e.subject
      PROVE  d = e
  <2> HIDE DEF E
  <2>1. \/ d = Added(d.subject) /\ d.subject \in new \ old
        \/ d = Removed(d.subject) /\ d.subject \in old \ new
    BY <1>3
  <2>2. \/ e = Added(e.subject) /\ e.subject \in new \ old
        \/ e = Removed(e.subject) /\ e.subject \in old \ new
    BY <1>3
  <2> QED
    BY <1>4, <2>1, <2>2
<1>5. IsFiniteSet(E)
  <2>1. to \in [E -> Subjects]
    BY <1>3
  <2>2. to \in Injection(E, Subjects)
    BY <1>4, <2>1 DEF Injection, IsInjective
  <2>3. IsFiniteSet(Subjects)
    BY UiAssumption DEF UiAssumption
  <2> QED
    BY <2>2, <2>3, FS_Injection
<1>6. /\ f \in Seq(E)
      /\ \A e \in E : \E i \in DOMAIN f : f[i] = e
      /\ \A i, j \in DOMAIN f : f[i] = f[j] => i = j
  BY <1>5, InSequence
<1>7. \A s \in new \ old : Added(s) \in E
  OBVIOUS
<1>8. \A s \in old \ new : Removed(s) \in E
  OBVIOUS
<1> HIDE DEF E, f
<1>9. f \in Seq(BanEvent) /\ \A i \in DOMAIN f : f[i] \in E
  <2>1. \A i \in DOMAIN f : f[i] \in E
    BY <1>6, SMT
  <2>2. DOMAIN f = 1 .. Len(f) /\ Len(f) \in Nat /\ f = [i \in 1 .. Len(f) |-> f[i]]
    BY <1>6, SMT
  <2>3. f \in [1 .. Len(f) -> BanEvent]
    BY <1>2, <2>1, <2>2
  <2>4. f \in Seq(BanEvent)
    BY <2>2, <2>3, SMT
  <2> QED
    BY <2>1, <2>4
<1>10. ASSUME NEW e \in E
       PROVE  \E i \in DOMAIN f : f[i] = e /\ \A j \in DOMAIN f : f[j].subject = e.subject => j = i
  <2>1. PICK i \in DOMAIN f : f[i] = e
    BY <1>6
  <2>2. \A j \in DOMAIN f : f[j].subject = e.subject => f[j] = f[i]
    BY <1>4, <1>9, <2>1
  <2> QED
    BY <1>6, <2>1, <2>2
<1>11. \A s \in new \ old : \E i \in DOMAIN f :
         f[i] = Added(s) /\ \A j \in DOMAIN f : f[j].subject = s => j = i
  <2> SUFFICES ASSUME NEW s \in new \ old
               PROVE  \E i \in DOMAIN f : f[i] = Added(s) /\ \A j \in DOMAIN f : f[j].subject = s => j = i
    OBVIOUS
  <2> DEFINE e == Added(s)
  <2>1. e \in E /\ e.subject = s
    BY <1>7, EventKinds
  <2>2. \E i \in DOMAIN f : f[i] = e /\ \A j \in DOMAIN f : f[j].subject = e.subject => j = i
    BY <1>10, <2>1
  <2> QED
    BY <2>1, <2>2
<1>12. \A s \in old \ new : \E i \in DOMAIN f :
         f[i] = Removed(s) /\ \A j \in DOMAIN f : f[j].subject = s => j = i
  <2> SUFFICES ASSUME NEW s \in old \ new
               PROVE  \E i \in DOMAIN f : f[i] = Removed(s) /\ \A j \in DOMAIN f : f[j].subject = s => j = i
    OBVIOUS
  <2> DEFINE e == Removed(s)
  <2>1. e \in E /\ e.subject = s
    BY <1>8, EventKinds
  <2>2. \E i \in DOMAIN f : f[i] = e /\ \A j \in DOMAIN f : f[j].subject = e.subject => j = i
    BY <1>10, <2>1
  <2> QED
    BY <2>1, <2>2
<1>13. \A s : (s \in old <=> s \in new) => \A j \in DOMAIN f : f[j].subject # s
  BY <1>3, <1>9
<1> QED
  BY <1>1, <1>9, <1>11, <1>12, <1>13

\* Appending the events of a comparison turns the list they start from into the new one.
LEMMA AppliedDiff ==
  ASSUME NEW view, NEW q \in Seq(BanEvent), NEW new \in SUBSET Subjects
  PROVE  Applied(view, q \o BanEvents(Applied(view, q), new)) = new
<1> DEFINE old == Applied(view, q)
           f == BanEvents(old, new)
           c == q \o f
           m == Len(q)
<1>0. old \in SUBSET Subjects
  BY DEF Applied
<1> HIDE DEF old
<1>1. /\ f \in Seq(BanEvent)
      /\ \A s \in new \ old : \E i \in DOMAIN f :
           f[i] = Added(s) /\ \A j \in DOMAIN f : f[j].subject = s => j = i
      /\ \A s \in old \ new : \E i \in DOMAIN f :
           f[i] = Removed(s) /\ \A j \in DOMAIN f : f[j].subject = s => j = i
      /\ \A s : (s \in old <=> s \in new) => \A j \in DOMAIN f : f[j].subject # s
  BY <1>0, EventsOfDiff
<1> HIDE DEF f
<1>2. /\ m \in Nat /\ DOMAIN q = 1 .. m /\ c \in Seq(BanEvent)
      /\ DOMAIN f = 1 .. Len(f) /\ Len(f) \in Nat /\ DOMAIN c = 1 .. (m + Len(f))
  BY <1>1, SMT
<1>3. \A i \in DOMAIN q : i \in DOMAIN c /\ c[i] = q[i] /\ i <= m
  BY <1>1, <1>2, SMT
<1>4. \A j \in DOMAIN f : m + j \in DOMAIN c /\ c[m + j] = f[j] /\ m + j > m
  BY <1>1, <1>2, SMT
<1>5. \A i \in DOMAIN c : i \in DOMAIN q \/ \E j \in DOMAIN f : i = m + j
  <2>1. \A i \in DOMAIN c : ~(i \in DOMAIN q) => i - m \in DOMAIN f /\ i = m + (i - m)
    BY <1>2, SMT
  <2> QED
    BY <2>1
<1>6. /\ \A i \in DOMAIN q, j \in DOMAIN f : m + j > i /\ ~(i > m + j)
      /\ \A i, j \in DOMAIN f : (m + j > m + i <=> j > i) /\ (m + j = m + i => j = i)
  BY <1>2, SMT
<1> HIDE DEF c, m
<1> SUFFICES ASSUME NEW s \in Subjects PROVE s \in Applied(view, c) <=> s \in new
  <2>1. Applied(view, c) \in SUBSET Subjects
    BY DEF Applied
  <2> QED
    BY <2>1 DEF c, f, old
<1>7. CASE s \in new \ old
  <2>1. PICK i \in DOMAIN f : f[i] = Added(s) /\ \A j \in DOMAIN f : f[j].subject = s => j = i
    BY <1>1, <1>7
  <2>2. m + i \in DOMAIN c /\ c[m + i] = [kind |-> "ban_added", subject |-> s]
    BY <1>4, <2>1 DEF Added
  <2>3. \A j \in DOMAIN c : j > m + i => c[j].subject # s
    <3> SUFFICES ASSUME NEW j \in DOMAIN c, j > m + i, c[j].subject = s PROVE FALSE
      OBVIOUS
    <3>1. j \notin DOMAIN q
      BY <1>6
    <3>2. PICK k \in DOMAIN f : j = m + k
      BY <1>5, <3>1
    <3>3. f[k].subject = s /\ k > i
      BY <1>4, <1>6, <3>2
    <3>4. k = i
      BY <2>1, <3>3
    <3>5. i \in Nat
      BY <1>2, SMT
    <3> QED
      BY <3>3, <3>4, <3>5, SMTT(40)
  <2> QED
    BY <1>7, <2>2, <2>3 DEF Applied
<1>8. CASE s \in old \ new
  <2>1. PICK i \in DOMAIN f : f[i] = Removed(s) /\ \A j \in DOMAIN f : f[j].subject = s => j = i
    BY <1>1, <1>8
  <2>2. m + i \in DOMAIN c /\ c[m + i] = Removed(s) /\ c[m + i].subject = s
    BY <1>4, <2>1, EventKinds
  <2>3. ASSUME NEW j \in DOMAIN c, c[j] = Added(s), \A k \in DOMAIN c : k > j => c[k].subject # s
        PROVE  FALSE
    <3>1. CASE j \in DOMAIN q
      BY <1>6, <2>2, <2>3, <3>1
    <3>2. CASE j \notin DOMAIN q
      <4>1. PICK k \in DOMAIN f : j = m + k
        BY <1>5, <3>2
      <4>2. f[k] = Added(s)
        BY <1>4, <2>3, <4>1
      <4>3. f[k].subject = s
        BY <4>2, EventKinds
      <4>4. k = i
        BY <2>1, <4>3
      <4> QED
        BY <2>1, <4>2, <4>4, EventKinds
    <3> QED
      BY <3>1, <3>2
  <2>4. s \notin Applied(view, c)
    BY <2>2, <2>3 DEF Applied, Added
  <2> QED
    BY <1>8, <2>4
<1>9. CASE s \in old <=> s \in new
  <2>1. \A j \in DOMAIN f : f[j].subject # s
    BY <1>1, <1>9
  <2>2. \A j \in DOMAIN c : c[j].subject = s => j \in DOMAIN q
    BY <1>4, <1>5, <2>1
  <2>3. (\A i \in DOMAIN c : c[i].subject # s) <=> (\A i \in DOMAIN q : q[i].subject # s)
    BY <1>3, <2>2
  <2>4. ASSUME NEW i \in DOMAIN c, c[i] = Added(s), \A j \in DOMAIN c : j > i => c[j].subject # s
        PROVE  i \in DOMAIN q /\ q[i] = Added(s) /\ \A j \in DOMAIN q : j > i => q[j].subject # s
    <3>1. i \in DOMAIN q
      BY <2>2, <2>4, EventKinds
    <3> QED
      BY <1>3, <2>4, <3>1
  <2>5. ASSUME NEW i \in DOMAIN q, q[i] = Added(s), \A j \in DOMAIN q : j > i => q[j].subject # s
        PROVE  i \in DOMAIN c /\ c[i] = Added(s) /\ \A j \in DOMAIN c : j > i => c[j].subject # s
    BY <1>3, <2>2, <2>5
  <2>6. s \in Applied(view, c) <=> s \in Applied(view, q)
    BY <2>3, <2>4, <2>5 DEF Applied, Added
  <2> QED
    BY <1>9, <2>6 DEF old
<1> QED
  BY <1>7, <1>8, <1>9

\* Taking the next event leaves what all events amount to.
LEMMA AppliedNext ==
  ASSUME NEW view \in SUBSET Subjects, NEW q \in Seq(BanEvent), q # <<>>
  PROVE  /\ ApplyEvent(view, Head(q)) \in SUBSET Subjects
         /\ Applied(ApplyEvent(view, Head(q)), Tail(q)) = Applied(view, q)
<1> DEFINE e == Head(q)
           r == Tail(q)
           v == ApplyEvent(view, e)
<1>1. /\ e \in BanEvent /\ e = q[1] /\ 1 \in DOMAIN q /\ r \in Seq(BanEvent)
      /\ \A i \in DOMAIN q : i # 1 => i - 1 \in DOMAIN r /\ i > 1 /\ i = (i - 1) + 1
      /\ \A i \in DOMAIN r : i + 1 \in DOMAIN q /\ r[i] = q[i + 1] /\ i + 1 > 1
      /\ \A i, j \in DOMAIN r : j + 1 > i + 1 <=> j > i
  <2>1. /\ Len(q) \in Nat \ {0} /\ DOMAIN q = 1 .. Len(q) /\ q[1] \in BanEvent /\ e = q[1]
        /\ r \in Seq(BanEvent) /\ Len(r) = Len(q) - 1 /\ DOMAIN r = 1 .. Len(q) - 1
        /\ \A i \in 1 .. Len(q) - 1 : r[i] = q[i + 1]
    BY SMT
  <2> HIDE DEF e, r
  <2>2. 1 \in DOMAIN q
    BY <2>1, SMT
  <2>3. ASSUME NEW i \in DOMAIN q, i # 1
        PROVE  i - 1 \in DOMAIN r /\ i > 1 /\ i = (i - 1) + 1
    <3>1. i \in Nat /\ i >= 1 /\ i <= Len(q)
      BY <2>1, SMT
    <3>2. i > 1 /\ i = (i - 1) + 1 /\ i - 1 \in 1 .. Len(q) - 1
      BY <2>1, <2>3, <3>1, SMT
    <3> QED
      BY <2>1, <3>2
  <2>4. \A i \in DOMAIN r : i + 1 \in DOMAIN q /\ i + 1 > 1
    BY <2>1, SMT
  <2>5. \A i, j \in DOMAIN r : j + 1 > i + 1 <=> j > i
    BY <2>1, SMT
  <2> QED
    BY <2>1, <2>2, <2>3, <2>4, <2>5
<1>2. view # NoView
  BY NoViewIsNone
<1>3. v = IF e.kind = "ban_added" THEN view \cup {e.subject} ELSE view \ {e.subject}
  BY <1>2 DEF ApplyEvent
<1>4. e.subject \in Subjects /\ (e = Added(e.subject) \/ e = Removed(e.subject))
  BY <1>1, EventKinds DEF BanEvent
<1>5. v \in SUBSET Subjects
  BY <1>3, <1>4
<1>6. /\ e = Added(e.subject) => v = view \cup {e.subject}
      /\ e = Removed(e.subject) => v = view \ {e.subject}
  <2>1. \A s : Added(s).kind = "ban_added" /\ Removed(s).kind = "ban_removed"
    BY DEF Added, Removed
  <2> HIDE DEF e, v
  <2> QED
    BY <1>3, <2>1
<1>7. \A i \in DOMAIN q : i = 1 \/ \E j \in DOMAIN r : i = j + 1
  BY <1>1
<1> HIDE DEF e, r, v
<1>8. ASSUME NEW s \in Subjects
      PROVE  s \in Applied(v, r) <=> s \in Applied(view, q)
  <2>1. CASE \E i \in DOMAIN r : r[i].subject = s
    <3>1. ~(\A i \in DOMAIN r : r[i].subject # s) /\ ~(\A i \in DOMAIN q : q[i].subject # s)
      BY <1>1, <2>1
    <3>2. ASSUME NEW i \in DOMAIN r, r[i] = Added(s), \A j \in DOMAIN r : j > i => r[j].subject # s
          PROVE  \E k \in DOMAIN q : q[k] = Added(s) /\ \A j \in DOMAIN q : j > k => q[j].subject # s
      <4>1. i + 1 \in DOMAIN q /\ q[i + 1] = Added(s)
        BY <1>1, <3>2
      <4>2. ASSUME NEW j \in DOMAIN q, j > i + 1 PROVE q[j].subject # s
        <5>1. j # 1
          <6>1. i \in Nat
            BY <1>1, SMT
          <6> QED
            BY <4>2, <6>1, SMT
        <5>2. PICK k \in DOMAIN r : j = k + 1
          BY <1>7, <5>1
        <5> QED
          BY <1>1, <3>2, <4>2, <5>2
      <4> QED
        BY <4>1, <4>2
    <3>3. ASSUME NEW k \in DOMAIN q, q[k] = Added(s), \A j \in DOMAIN q : j > k => q[j].subject # s
          PROVE  \E i \in DOMAIN r : r[i] = Added(s) /\ \A j \in DOMAIN r : j > i => r[j].subject # s
      <4>1. k # 1
        BY <1>1, <2>1, <3>3
      <4>2. PICK i \in DOMAIN r : k = i + 1
        BY <1>7, <4>1
      <4> QED
        BY <1>1, <3>3, <4>2
    <3> QED
      BY <3>1, <3>2, <3>3 DEF Applied, Added
  <2>2. CASE \A i \in DOMAIN r : r[i].subject # s
    <3>1. s \in Applied(v, r) <=> s \in v
      <4>1. \A i \in DOMAIN r : r[i] # Added(s)
        BY <2>2, EventKinds
      <4> QED
        BY <2>2, <4>1 DEF Applied, Added
    <3>2. ASSUME NEW i \in DOMAIN q, i # 1 PROVE q[i].subject # s
      <4>1. PICK j \in DOMAIN r : i = j + 1
        BY <1>7, <3>2
      <4> QED
        BY <1>1, <2>2, <4>1
    <3>3. \A i \in DOMAIN q : i > 1 => q[i].subject # s
      <4>1. ~(1 > 1)
        BY SMT
      <4> QED
        BY <3>2, <4>1
    <3>4. CASE e.subject # s
      <4>1. \A i \in DOMAIN q : q[i].subject # s
        BY <1>1, <3>2, <3>4
      <4>2. \A i \in DOMAIN q : q[i] # Added(s)
        BY <4>1, EventKinds
      <4>3. s \in Applied(view, q) <=> s \in view
        BY <4>1, <4>2 DEF Applied, Added
      <4>4. s \in v <=> s \in view
        BY <1>4, <1>6, <3>4
      <4> QED
        BY <3>1, <4>3, <4>4
    <3>5. CASE e = Added(s)
      <4>1. s \in Applied(view, q)
        BY <1>1, <3>3, <3>5 DEF Applied, Added
      <4>2. s \in v
        BY <1>6, <3>5, EventKinds
      <4> QED
        BY <3>1, <4>1, <4>2
    <3>6. CASE e = Removed(s)
      <4>1. \A i \in DOMAIN q : q[i] # Added(s)
        BY <1>1, <3>2, <3>6, EventKinds, ZenonT(60)
      <4>2. q[1].subject = s
        BY <1>1, <3>6, EventKinds
      <4>3. s \notin Applied(view, q)
        BY <1>1, <4>1, <4>2 DEF Applied, Added
      <4>4. s \notin v
        BY <1>6, <3>6, EventKinds
      <4> QED
        BY <3>1, <4>3, <4>4
    <3> QED
      BY <1>4, <3>4, <3>5, <3>6
  <2> QED
    BY <2>1, <2>2
<1>9. Applied(v, r) \in SUBSET Subjects /\ Applied(view, q) \in SUBSET Subjects
  BY DEF Applied
<1>10. Applied(v, r) = Applied(view, q)
  BY <1>8, <1>9
<1> QED
  BY <1>5, <1>10 DEF e, r, v

LEMMA BanStart == BanInit => BanInv
<1> SUFFICES ASSUME BanInit PROVE BanInv
  OBVIOUS
<1>1. ban_list \in SUBSET Subjects /\ last = NoView /\ stream = Closed
  BY DEF BanInit
<1>2. Idle \in [pc : {"idle", "copy", "emit"}, snap : SUBSET Subjects]
  BY DEF Idle
<1>3. task \in [BanTasks \cup {Ticker} -> [pc : {"idle", "copy", "emit"}, snap : SUBSET Subjects]]
  BY <1>2 DEF BanInit
<1>4. <<>> \in Seq(BanEvent)
  BY SMT
<1>5. Closed \in [open : BOOLEAN, view : View, q : Seq(BanEvent), lost : BOOLEAN, told : BOOLEAN]
  BY <1>4 DEF Closed, View
<1>6. ~Closed.open
  BY DEF Closed
<1> QED
  BY <1>1, <1>3, <1>5, <1>6 DEF BanInv, StreamsAddUp, View

\* What a delivery leaves of a stream.
LEMMA Delivered ==
  ASSUME NEW c \in [open : BOOLEAN, view : View, q : Seq(BanEvent), lost : BOOLEAN, told : BOOLEAN],
         NEW evs \in Seq(BanEvent)
  PROVE  /\ Deliver(c, evs) \in [open : BOOLEAN, view : View, q : Seq(BanEvent), lost : BOOLEAN, told : BOOLEAN]
         /\ Deliver(c, evs).open = c.open /\ Deliver(c, evs).view = c.view
         /\ c.open /\ ~Deliver(c, evs).lost => ~c.lost /\ Deliver(c, evs).q = c.q \o evs
<1> DEFINE all == c.q \o evs
           over == Len(all) > Capacity
           rest == IF over THEN SubSeq(all, Len(all) - Capacity + 1, Len(all)) ELSE all
           d == [c EXCEPT !.q = rest, !.lost = @ \/ over]
<1>1. Capacity \in Nat /\ c.q \in Seq(BanEvent)
  BY UiAssumption DEF UiAssumption
<1>2. rest \in Seq(BanEvent)
  <2>1. all \in Seq(BanEvent) /\ Len(all) \in Nat
    BY <1>1, SMT
  <2> HIDE DEF all
  <2>2. over => SubSeq(all, Len(all) - Capacity + 1, Len(all)) \in Seq(BanEvent)
    <3> SUFFICES ASSUME over PROVE SubSeq(all, Len(all) - Capacity + 1, Len(all)) \in Seq(BanEvent)
      OBVIOUS
    <3>1. Len(all) - Capacity + 1 \in 1 .. Len(all) + 1
      BY <1>1, <2>1, SMT
    <3> QED
      BY <2>1, <3>1, SMT
  <2> QED
    BY <2>1, <2>2
<1>3. Deliver(c, evs) = IF ~c.open THEN c ELSE d
  BY DEF Deliver
<1>4. over \in BOOLEAN
  BY SMT
<1>5. ~over => rest = all
  OBVIOUS
<1> HIDE DEF rest, over
<1>6. /\ d \in [open : BOOLEAN, view : View, q : Seq(BanEvent), lost : BOOLEAN, told : BOOLEAN]
      /\ d.open = c.open /\ d.view = c.view /\ d.q = rest /\ d.lost = (c.lost \/ over)
  BY <1>2, <1>4
<1> HIDE DEF d
<1> QED
  BY <1>3, <1>5, <1>6

LEMMA BanStepped == BanInv /\ [BanNext]_ban_vars => BanInv'
<1> SUFFICES ASSUME BanInv, [BanNext]_ban_vars PROVE BanInv'
  OBVIOUS
<1> DEFINE T == BanTasks \cup {Ticker}
           TS == [pc : {"idle", "copy", "emit"}, snap : SUBSET Subjects]
           SS == [open : BOOLEAN, view : View, q : Seq(BanEvent), lost : BOOLEAN, told : BOOLEAN]
<1>1. /\ ban_list \in SUBSET Subjects /\ last \in View /\ task \in [T -> TS] /\ stream \in SS
      /\ stream.open /\ stream.view # NoView => last # NoView
      /\ StreamsAddUp
  BY DEF BanInv
<1>2. Idle \in TS /\ Telling \in TS
  BY DEF Idle, Telling
<1>3. ASSUME last' = last, stream' = stream, ban_list' \in SUBSET Subjects, task' \in [T -> TS]
      PROVE  BanInv'
  <2>1. StreamsAddUp'
    <3>1. stream'.open /\ ~stream'.lost /\ stream'.view # NoView
            => Applied(stream'.view, stream'.q) = last'
      BY <1>1, <1>3 DEF StreamsAddUp
    <3> QED
      BY <3>1 DEF StreamsAddUp, Applied
  <2> HIDE DEF TS, SS
  <2>2. last' \in View /\ stream' \in SS /\ (stream'.open /\ stream'.view # NoView => last' # NoView)
    BY <1>1, <1>3
  <2> QED
    BY <1>3, <2>1, <2>2 DEF BanInv, TS, SS, View
<1> HIDE DEF TS, SS
<1>4. ASSUME NEW t \in T, NEW after \in SUBSET Subjects, NEW next \in {Idle, Telling},
             Change(t, after, next)
      PROVE  BanInv'
  <2>1. task' \in [T -> TS]
    BY <1>1, <1>2, <1>4 DEF Change
  <2> QED
    BY <1>3, <1>4, <2>1 DEF Change
<1>5. ASSUME NEW t \in BanTasks, add_ban(t) \/ remove_ban(t) \/ add_whitelist(t) \/ elsewhere(t)
      PROVE  BanInv'
  <2>1. CASE add_ban(t)
    BY <1>1, <1>4, <2>1 DEF add_ban
  <2>2. CASE remove_ban(t)
    BY <1>1, <1>4, <2>2 DEF remove_ban
  <2>3. CASE add_whitelist(t)
    BY <1>1, <1>4, <2>3 DEF add_whitelist
  <2>4. CASE elsewhere(t)
    BY <1>1, <1>4, <2>4 DEF elsewhere
  <2> QED
    BY <1>5, <2>1, <2>2, <2>3, <2>4
<1>6. ASSUME NEW t \in T, Start(t) PROVE BanInv'
  <2>1. task' \in [T -> TS]
    BY <1>1, <1>2, <1>6 DEF Start
  <2> QED
    BY <1>1, <1>3, <1>6, <2>1 DEF Start
<1>7. ASSUME NEW t \in T, list_bans_inner(t) PROVE BanInv'
  <2>1. [pc |-> "emit", snap |-> ban_list] \in TS
    BY <1>1 DEF TS
  <2>2. task' = [task EXCEPT ![t] = [pc |-> "emit", snap |-> ban_list]]
    BY <1>7 DEF list_bans_inner
  <2>3. task' \in [T -> TS]
    BY <1>1, <2>1, <2>2
  <2> QED
    BY <1>1, <1>3, <1>7, <2>3 DEF list_bans_inner
<1>8. ASSUME NEW t \in T, emit_ban_diff(t) PROVE BanInv'
  <2> DEFINE snap == task[t].snap
             evs == IF last = NoView THEN <<>> ELSE BanEvents(last, snap)
  <2>1. stream' = Deliver(stream, evs) /\ last' = snap /\ task' = [task EXCEPT ![t] = Idle]
        /\ ban_list' = ban_list
    BY <1>8 DEF emit_ban_diff, baseline
  <2>2. snap \in SUBSET Subjects
    BY <1>1 DEF TS
  <2>3. snap # NoView /\ snap \in View
    BY <2>2, NoViewIsNone DEF View
  <2>4. last # NoView => last \in SUBSET Subjects
    BY <1>1 DEF View
  <2>5. evs \in Seq(BanEvent)
    <3>1. <<>> \in Seq(BanEvent)
      BY SMT
    <3> QED
      BY <2>2, <2>4, <3>1, EventsOfDiff
  <2> HIDE DEF snap
  <2>6. /\ stream' \in SS /\ stream'.open = stream.open /\ stream'.view = stream.view
        /\ stream.open /\ ~stream'.lost => ~stream.lost /\ stream'.q = stream.q \o evs
    BY <1>1, <2>1, <2>5, Delivered, ZenonT(60) DEF SS
  <2>7. ASSUME stream'.open, ~stream'.lost, stream'.view # NoView
        PROVE  Applied(stream'.view, stream'.q) = last'
    <3>1. last # NoView /\ stream'.q = stream.q \o BanEvents(last, snap)
      BY <1>1, <2>6, <2>7
    <3>2. Applied(stream.view, stream.q) = last
      BY <1>1, <2>6, <2>7 DEF StreamsAddUp
    <3>3. stream.q \in Seq(BanEvent)
      BY <1>1 DEF SS
    <3>4. Applied(stream.view, stream.q \o BanEvents(last, snap)) = snap
      <4> DEFINE v == stream.view
                 q == stream.q
      <4>1. last \in SUBSET Subjects /\ q \in Seq(BanEvent) /\ Applied(v, q) = last
        BY <2>4, <3>1, <3>2, <3>3
      <4> HIDE DEF v, q
      <4>2. Applied(v, q \o BanEvents(last, snap)) = snap
        BY <2>2, <4>1, AppliedDiff
      <4> QED
        BY <4>2 DEF v, q
    <3> QED
      BY <2>1, <2>6, <3>1, <3>4
  <2>8. StreamsAddUp'
    BY <2>7 DEF StreamsAddUp, Applied
  <2>9. task' \in [T -> TS]
    BY <1>1, <1>2, <2>1
  <2> QED
    BY <1>1, <2>1, <2>3, <2>6, <2>8, <2>9 DEF BanInv, TS, SS
<1>9. CASE subscribe_agent
  <2>1. stream' = [Closed EXCEPT !.open = TRUE, !.view = last] /\ UNCHANGED <<ban_list, task, last>>
    BY <1>9 DEF subscribe_agent
  <2>2. <<>> \in Seq(BanEvent) /\ DOMAIN <<>> = {}
    BY SMT
  <2>3. stream' \in SS /\ stream'.view = last /\ stream'.q = <<>>
    BY <1>1, <2>1, <2>2 DEF SS, Closed
  <2>4. ASSUME last # NoView PROVE Applied(last, <<>>) = last
    <3>1. last \in SUBSET Subjects
      BY <1>1, <2>4 DEF View
    <3> QED
      BY <2>2, <3>1 DEF Applied
  <2>5. stream'.open /\ ~stream'.lost /\ stream'.view # NoView => Applied(stream'.view, stream'.q) = last'
    BY <2>1, <2>3, <2>4
  <2>6. StreamsAddUp'
    BY <2>5 DEF StreamsAddUp, Applied
  <2> QED
    BY <1>1, <2>1, <2>3, <2>6 DEF BanInv, TS, SS
<1>10. CASE disconnect
  <2>1. stream' = Closed /\ UNCHANGED <<ban_list, task, last>>
    BY <1>10 DEF disconnect
  <2>2. <<>> \in Seq(BanEvent)
    BY SMT
  <2>3. stream' \in SS /\ ~stream'.open
    BY <2>1, <2>2 DEF SS, Closed, View
  <2> QED
    BY <1>1, <2>1, <2>3 DEF BanInv, StreamsAddUp, TS, SS
<1>11. CASE agent_event_stream
  <2>1. stream.q # <<>> /\ UNCHANGED <<ban_list, task, last>>
    BY <1>11 DEF agent_event_stream
  <2>2. CASE stream.lost /\ ~stream.told
    <3>1. stream' = [stream EXCEPT !.told = TRUE]
      BY <1>11, <2>2 DEF agent_event_stream
    <3>2. /\ stream' \in SS /\ stream'.open = stream.open /\ stream'.view = stream.view
          /\ stream'.lost = stream.lost
      BY <1>1, <3>1 DEF SS
    <3>3. StreamsAddUp'
      BY <2>2, <3>2 DEF StreamsAddUp
    <3> QED
      BY <1>1, <2>1, <3>2, <3>3 DEF BanInv, TS, SS
  <2>3. CASE ~(stream.lost /\ ~stream.told)
    <3> DEFINE v == ApplyEvent(stream.view, Head(stream.q))
               r == Tail(stream.q)
    <3>1. stream' = [stream EXCEPT !.view = v, !.q = r]
      BY <1>11, <2>3 DEF agent_event_stream
    <3>2. stream.q \in Seq(BanEvent) /\ stream.view \in View
      BY <1>1 DEF SS
    <3>3. r \in Seq(BanEvent)
      BY <2>1, <3>2, SMT
    <3>4. stream.view = NoView => v = NoView
      BY DEF ApplyEvent
    <3>5. ASSUME stream.view # NoView
          PROVE  v \in SUBSET Subjects /\ Applied(v, r) = Applied(stream.view, stream.q)
      <4>1. stream.view \in SUBSET Subjects
        BY <3>2, <3>5 DEF View
      <4> QED
        BY <2>1, <3>2, <4>1, AppliedNext
    <3>6. v \in View
      BY <3>4, <3>5 DEF View
    <3> HIDE DEF v, r
    <3>7. /\ stream' \in SS /\ stream'.open = stream.open /\ stream'.view = v /\ stream'.q = r
          /\ stream'.lost = stream.lost
      BY <1>1, <3>1, <3>3, <3>6 DEF SS
    <3>8. stream'.open /\ ~stream'.lost /\ stream'.view # NoView => Applied(stream'.view, stream'.q) = last'
      BY <1>1, <2>1, <3>4, <3>5, <3>7 DEF StreamsAddUp
    <3>9. StreamsAddUp'
      BY <3>8 DEF StreamsAddUp, Applied
    <3>10. stream'.open /\ stream'.view # NoView => last' # NoView
      BY <1>1, <2>1, <3>4, <3>7
    <3> QED
      BY <1>1, <2>1, <3>7, <3>9, <3>10 DEF BanInv, TS, SS
  <2> QED
    BY <2>2, <2>3
<1>12. CASE UNCHANGED ban_vars
  BY <1>1, <1>3, <1>12 DEF ban_vars, TS
<1> QED
  BY <1>5, <1>6, <1>7, <1>8, <1>9, <1>10, <1>11, <1>12
  DEF BanNext, BanStep, on_ban, sync_agent_ban_events

-----------------------------------------------------------------------------

\* What the REST plugin and the daemon's side of it keep is kept right, whatever requests
\* overlap: the events a client was sent add up to the list that was last compared, stream
\* and scan slots are given back and never overdrawn, config.yaml is at every moment a whole
\* accepted document without the marker, no rule identifier is in force twice, and three
\* ticks see at most two limits of pushes (DaemonUiApi, AgentBanEvents, StreamSlot,
\* put_config, upsert_sigma_rule, push_rate_limit_ok).
THEOREM InterfaceIsSound == UiSpec => []UiSound
<1>1. SlotSpec => []SlotsExact
  <2>1. SlotInv => SlotsExact
    BY DEF SlotInv
  <2> QED
    BY <2>1, SlotStart, SlotStep, PTL DEF SlotSpec
<1>2. ScanSpec => []ScansBounded
  BY ScanStart, ScanStep, ScanSuffices, PTL DEF ScanSpec
<1>3. ConfigSpec => []ConfigSound
  BY ConfigStart, ConfigStep, ConfigSuffices, PTL DEF ConfigSpec
<1>4. SigmaSpec => []RulesUnique
  BY SigmaStart, SigmaStep, SigmaSuffices, PTL DEF SigmaSpec
<1>5. PushSpec => []PushBounded
  BY PushStart, PushStep, PushSuffices, PTL DEF PushSpec
<1>6. BanSpec => []StreamsAddUp
  <2>1. BanInv => StreamsAddUp
    BY DEF BanInv
  <2> QED
    BY <2>1, BanStart, BanStepped, PTL DEF BanSpec
<1> QED
  BY <1>1, <1>2, <1>3, <1>4, <1>5, <1>6, PTL DEF UiSpec, UiSound

=============================================================================
