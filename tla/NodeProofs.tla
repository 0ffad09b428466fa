---------------------------- MODULE NodeProofs -----------------------------
(***************************************************************************)
(* The parts of a node beside its daemon's stores and pipeline.            *)
(* AlertDispatcher keeps its promises for every number of notifiers and    *)
(* alerts, every cooldown and every depth of the queue; an upgrade and a   *)
(* first installation keep the promises of UpgradeSafe for every set of    *)
(* subjects and every number of bans and faults.                           *)
(***************************************************************************)
EXTENDS AlertDispatcher, Upgrade, WellFoundedInduction, TLAPS

\* First-order reasoning is left to Zenon; a leaf on numbers, sequences or records cites SMT.
USE Zenon

Pending ==
  [event : Alert, notifier_idx : Notifier, attempt : Nat, next_try : Nat, due : BOOLEAN]

Fate == {"untold", "unsupported", "suppressed", "delivered", "pending", "exhausted", "evicted"}

TypeOK ==
  /\ channel \in Seq(Alert) /\ alerts \in Seq(Keys) /\ Len(alerts) <= MaxAlerts
  /\ retry_queue \in Seq(Pending) /\ still \in Seq(Pending)
  /\ at \in {"select", "event", "retry", "stopped"}
  /\ idx \in Nat \ {0} /\ (at = "event" => event \in 1..Len(alerts))
  /\ cool \in [Notifier -> [Keys -> Nat]] /\ since \in [Notifier -> [Keys -> Nat]]
  /\ fate \in [Alert -> [Notifier -> Fate]] /\ tries \in [Alert -> [Notifier -> Nat]]

\* What was told and what is still to be told: an alert that was not sent yet,
\* or that is still in the channel, was offered to nobody; the one that
\* handle_new_event is at, to none of the notifiers from idx on.
Untold(a) == \A m \in Notifier : fate[a][m] = "untold"

Fresh ==
  /\ \A i \in DOMAIN channel : channel[i] \in 1..Len(alerts) /\ Untold(channel[i])
  /\ \A i, j \in DOMAIN channel : channel[i] = channel[j] => i = j
  /\ \A a \in Alert : a > Len(alerts) => Untold(a)
  /\ at = "event" =>
       /\ \A i \in DOMAIN channel : channel[i] # event
       /\ \A m \in Notifier : m >= idx => fate[event][m] = "untold"

SameCase(p, r) == p.event = r.event /\ p.notifier_idx = r.notifier_idx

Distinct(s) == \A i, j \in DOMAIN s : SameCase(s[i], s[j]) => i = j

\* What waits is on record as pending, was tried as often as it says, and has
\* an attempt left.
Filed(p, sent, fates, calls) ==
  /\ p.event <= sent
  /\ fates[p.event][p.notifier_idx] = "pending"
  /\ calls[p.event][p.notifier_idx] = p.attempt
  /\ p.attempt < MAX_ATTEMPTS

Waits(s, a, m) == \E i \in DOMAIN s : s[i].event = a /\ s[i].notifier_idx = m

\* The two queues hold exactly what is on record as pending, once each.
Queued ==
  /\ \A i \in DOMAIN retry_queue : Filed(retry_queue[i], Len(alerts), fate, tries)
  /\ \A i \in DOMAIN still : Filed(still[i], Len(alerts), fate, tries)
  /\ Distinct(retry_queue) /\ Distinct(still)
  /\ \A i \in DOMAIN retry_queue, j \in DOMAIN still : ~SameCase(retry_queue[i], still[j])
  /\ \A a \in Alert, m \in Notifier :
       fate[a][m] = "pending" => Waits(retry_queue, a, m) \/ Waits(still, a, m)

Counted ==
  \A a \in Alert, m \in Notifier :
    tries[a][m] <= MAX_ATTEMPTS /\ (fate[a][m] = "untold" => tries[a][m] = 0)

Bounded == QueueBounded /\ (at # "retry" => still = <<>>)

\* last_sent and the time since the last delivery tell the same.
Window == \A m \in Notifier, k \in Keys : since[m][k] + cool[m][k] = Cooldown

IInv == TypeOK /\ Fresh /\ Queued /\ Counted /\ Bounded /\ Window

-----------------------------------------------------------------------------
(* Sequences. *)

\* pop_front: what is left when the head of a queue is taken.
LEMMA TailFacts ==
  ASSUME NEW S, NEW s \in Seq(S), s # <<>>
  PROVE  /\ Len(s) \in Nat /\ Len(s) >= 1 /\ 1 \in DOMAIN s
         /\ Head(s) = s[1] /\ Head(s) \in S
         /\ Tail(s) \in Seq(S) /\ Len(Tail(s)) = Len(s) - 1
         /\ \A i \in DOMAIN Tail(s) : i \in Nat /\ i + 1 \in DOMAIN s /\ Tail(s)[i] = s[i + 1]
         /\ \A i \in DOMAIN s : i # 1 => i - 1 \in DOMAIN Tail(s)
  BY SMT

\* push_back: what a queue holds when an element is added.
LEMMA AppendFacts ==
  ASSUME NEW S, NEW s \in Seq(S), NEW e \in S
  PROVE  /\ Append(s, e) \in Seq(S) /\ Len(Append(s, e)) = Len(s) + 1 /\ Len(s) \in Nat
         /\ Len(s) + 1 \in DOMAIN Append(s, e) /\ Append(s, e)[Len(s) + 1] = e
         /\ \A i \in DOMAIN s : i \in DOMAIN Append(s, e) /\ i # Len(s) + 1 /\ Append(s, e)[i] = s[i]
         /\ \A i \in DOMAIN Append(s, e) : i = Len(s) + 1 \/ i \in DOMAIN s
  BY SMT

\* A queue whose elements are replaced one by one is a queue of the same length.
LEMMA MapFacts ==
  ASSUME NEW S, NEW s \in Seq(S), NEW t \in [DOMAIN s -> S]
  PROVE  t \in Seq(S) /\ Len(t) = Len(s)
<1>1. Len(s) \in Nat /\ DOMAIN s = 1..Len(s)
  BY SMT
<1> QED
  BY <1>1, SMT

\* One entry of a table of two keys is written.
LEMMA TableFacts ==
  ASSUME NEW A, NEW B, NEW V, NEW f \in [A -> [B -> V]], NEW a \in A, NEW b \in B, NEW v \in V
  PROVE  /\ [f EXCEPT ![a][b] = v] \in [A -> [B -> V]]
         /\ \A x \in A, y \in B :
              [f EXCEPT ![a][b] = v][x][y] = IF x = a /\ y = b THEN v ELSE f[x][y]
  OBVIOUS

\* A call of notify is counted where it is made.
LEMMA TriedFacts ==
  ASSUME tries \in [Alert -> [Notifier -> Nat]], NEW a \in Alert, NEW m \in Notifier, Tried(a, m)
  PROVE  /\ tries' \in [Alert -> [Notifier -> Nat]]
         /\ \A x \in Alert, y \in Notifier :
              tries'[x][y] = IF x = a /\ y = m THEN tries[a][m] + 1 ELSE tries[x][y]
<1>1. tries[a][m] + 1 \in Nat
  BY SMT
<1> DEFINE v == tries[a][m] + 1
<1>2. tries' = [tries EXCEPT ![a][m] = v]
  BY DEF Tried
<1>3. v \in Nat
  BY <1>1
<1> HIDE DEF v
<1>4. /\ [tries EXCEPT ![a][m] = v] \in [Alert -> [Notifier -> Nat]]
      /\ \A x \in Alert, y \in Notifier :
           [tries EXCEPT ![a][m] = v][x][y] = IF x = a /\ y = m THEN v ELSE tries[x][y]
  BY <1>3, TableFacts, ZenonT(120)
<1> QED
  BY <1>2, <1>4 DEF v

\* PendingAlert builds an element of the queues.
LEMMA PendingTyped ==
  ASSUME NEW e \in Alert, NEW m \in Notifier, NEW attempt \in Nat, NEW delay \in Nat
  PROVE  /\ PendingAlert(e, m, attempt, delay) \in Pending
         /\ PendingAlert(e, m, attempt, delay).event = e
         /\ PendingAlert(e, m, attempt, delay).notifier_idx = m
         /\ PendingAlert(e, m, attempt, delay).attempt = attempt
  BY DEF PendingAlert, Pending

-----------------------------------------------------------------------------
(* The state keeps its type. *)

\* What Tick and retry_due write over the queues.
Later(s) == [i \in DOMAIN s |-> [s[i] EXCEPT !.next_try = Less(@)]]
Marked(s) == [i \in DOMAIN s |-> [s[i] EXCEPT !.due = (s[i].next_try = 0)]]

\* Time passing, and fixing what is due, changes no element's alert, notifier or attempt.
LEMMA RewriteFacts ==
  ASSUME NEW s \in Seq(Pending), NEW t, t = Later(s) \/ t = Marked(s)
  PROVE  /\ t \in Seq(Pending) /\ Len(t) = Len(s) /\ DOMAIN t = DOMAIN s
         /\ \A i \in DOMAIN s : /\ t[i].event = s[i].event /\ t[i].attempt = s[i].attempt
                               /\ t[i].notifier_idx = s[i].notifier_idx
<1>1. \A i \in DOMAIN s : s[i] \in Pending
  BY SMT
<1>2. \A p \in Pending : /\ [p EXCEPT !.next_try = Less(@)] \in Pending
                         /\ [p EXCEPT !.due = (p.next_try = 0)] \in Pending
  <2>1. SUFFICES ASSUME NEW p \in Pending
                 PROVE  /\ [p EXCEPT !.next_try = Less(@)] \in Pending
                        /\ [p EXCEPT !.due = (p.next_try = 0)] \in Pending
    OBVIOUS
  <2>2. Less(p.next_try) \in Nat
    BY SMT DEF Pending, Less
  <2>3. (p.next_try = 0) \in BOOLEAN
    OBVIOUS
  <2> QED
    BY <2>2, <2>3 DEF Pending
<1>3. t \in [DOMAIN s -> Pending]
  BY <1>1, <1>2 DEF Later, Marked
<1>4. t \in Seq(Pending) /\ Len(t) = Len(s)
  BY <1>3, MapFacts
<1>5. \A i \in DOMAIN s : /\ t[i].event = s[i].event /\ t[i].attempt = s[i].attempt
                          /\ t[i].notifier_idx = s[i].notifier_idx
  BY <1>1, SMT DEF Later, Marked, Pending
<1> QED
  BY <1>3, <1>4, <1>5

\* handle_new_event and process_retry_queue keep the state of the dispatcher well formed.
LEMMA TypeInductive == TypeOK /\ Fresh /\ [Next]_vars => TypeOK'
<1> SUFFICES ASSUME TypeOK, Fresh, [Next]_vars PROVE TypeOK'
  OBVIOUS
<1> USE AlertAssumption
<1>1. CASE UNCHANGED vars
  BY <1>1 DEF vars, TypeOK
<1>2. ASSUME NEW k \in Keys, send(k) PROVE TypeOK'
  <2>1. alerts' \in Seq(Keys) /\ Len(alerts') = Len(alerts) + 1 /\ Len(alerts) \in Nat
    BY <1>2, AppendFacts DEF TypeOK, send
  <2>2. Len(alerts) + 1 \in Alert
    BY <1>2, <2>1, SMT DEF send, Alert
  <2>3. channel' \in Seq(Alert)
    BY <1>2, <2>2, AppendFacts DEF send, TypeOK
  <2> QED
    BY <1>2, <2>1, <2>3, SMTT(30) DEF send, TypeOK
<1>3. CASE Tick
  <2>1. retry_queue' \in Seq(Pending) /\ still' \in Seq(Pending)
    BY <1>3, RewriteFacts DEF Tick, Later, TypeOK
  <2>2. \A m \in Notifier, k \in Keys : cool[m][k] \in Nat /\ since[m][k] \in Nat
    BY DEF TypeOK
  <2>3. \A t \in Nat : Less(t) \in Nat
    BY SMT DEF Less
  <2>4. cool' \in [Notifier -> [Keys -> Nat]]
    BY <1>3, <2>2, <2>3 DEF Tick
  <2>5. since' \in [Notifier -> [Keys -> Nat]]
    BY <1>3, <2>2, SMT DEF Tick
  <2> QED
    BY <1>3, <2>1, <2>4, <2>5 DEF Tick, TypeOK
<1>4. CASE signal_shutdown \/ stop \/ event_done
  BY <1>4 DEF signal_shutdown, stop, event_done, TypeOK
<1>5. CASE receive
  <2>1. Head(channel) = channel[1] /\ 1 \in DOMAIN channel /\ Tail(channel) \in Seq(Alert)
    BY <1>5, TailFacts DEF receive, TypeOK
  <2>2. event' \in 1..Len(alerts)
    BY <1>5, <2>1 DEF receive, Fresh
  <2> QED
    BY <1>5, <2>1, <2>2, SMTT(40) DEF receive, TypeOK
<1>6. CASE retry_due
  <2>1. retry_queue' \in Seq(Pending)
    BY <1>6, RewriteFacts DEF retry_due, Marked, TypeOK
  <2> QED
    BY <1>6, <2>1, SMTT(30) DEF retry_due, TypeOK
<1>7. ASSUME at = "event", idx <= N
      PROVE  /\ event \in Alert /\ idx \in Notifier /\ alerts[event] \in Keys
             /\ idx + 1 \in Nat \ {0}
  <2>1. event \in 1..Len(alerts) /\ Len(alerts) \in Nat /\ Len(alerts) <= MaxAlerts
    BY <1>7, SMT DEF TypeOK
  <2>2. event \in Alert /\ alerts[event] \in Keys
    BY <2>1, SMT DEF Alert, TypeOK
  <2>3. idx \in Notifier /\ idx + 1 \in Nat \ {0}
    BY <1>7, SMT DEF Notifier, TypeOK
  <2> QED
    BY <2>2, <2>3
<1>8. ASSUME NEW f \in {"unsupported", "suppressed"}, offer_skipped(f) PROVE TypeOK'
  <2>1. fate' \in [Alert -> [Notifier -> Fate]]
    BY <1>7, <1>8 DEF offer_skipped, Becomes, TypeOK, Fate
  <2> QED
    BY <1>7, <1>8, <2>1 DEF offer_skipped, TypeOK
<1>9. CASE offer_delivered
  <2>1. fate' \in [Alert -> [Notifier -> Fate]]
    BY <1>7, <1>9 DEF offer_delivered, Offers, Delivered, TypeOK, Fate
  <2>2. tries' \in [Alert -> [Notifier -> Nat]]
    BY <1>7, <1>9, TriedFacts DEF offer_delivered, Offers, TypeOK
  <2>3. cool' \in [Notifier -> [Keys -> Nat]] /\ since' \in [Notifier -> [Keys -> Nat]]
    BY <1>7, <1>9 DEF offer_delivered, Offers, record, Delivered, TypeOK
  <2> QED
    BY <1>7, <1>9, <2>1, <2>2, <2>3 DEF offer_delivered, Offers, TypeOK
<1>10. CASE offer_failed
  <2> DEFINE new == PendingAlert(event, idx, 1, RETRY_DELAYS[1])
             kept == IF Len(retry_queue) >= queue_depth /\ retry_queue # <<>>
                     THEN Tail(retry_queue) ELSE retry_queue
  <2>1. new \in Pending
    <3>1. RETRY_DELAYS[1] \in Nat /\ 1 \in Nat
      BY SMT
    <3> QED
      BY <1>7, <1>10, <3>1, PendingTyped DEF offer_failed, Offers
  <2>2. kept \in Seq(Pending)
    BY TailFacts DEF TypeOK
  <2>3. retry_queue' = Append(kept, new)
    BY <1>10 DEF offer_failed
  <2>4. retry_queue' \in Seq(Pending)
    <3> HIDE DEF new, kept
    <3> QED
      BY <2>1, <2>2, <2>3, AppendFacts
  <2>5. fate' \in [Alert -> [Notifier -> Fate]]
    BY <1>10 DEF offer_failed, TypeOK, Fate
  <2>6. tries' \in [Alert -> [Notifier -> Nat]]
    BY <1>7, <1>10, TriedFacts DEF offer_failed, Offers, TypeOK
  <2> QED
    BY <1>7, <1>10, <2>4, <2>5, <2>6 DEF offer_failed, Offers, TypeOK
<1>11. ASSUME Popped
       PROVE  /\ Head(retry_queue) \in Pending /\ retry_queue' \in Seq(Pending)
              /\ Head(retry_queue).event \in Alert /\ Head(retry_queue).notifier_idx \in Notifier
              /\ Head(retry_queue).attempt \in Nat
  <2>1. Head(retry_queue) \in Pending /\ Tail(retry_queue) \in Seq(Pending)
    BY <1>11, TailFacts DEF Popped, TypeOK
  <2> QED
    BY <1>11, <2>1 DEF Popped, Pending
<1>12. CASE retry_not_due
  <2>1. still' \in Seq(Pending)
    BY <1>11, <1>12, AppendFacts DEF retry_not_due, TypeOK
  <2> QED
    BY <1>11, <1>12, <2>1 DEF retry_not_due, Popped, TypeOK
<1>13. CASE retry_suppressed
  <2>1. fate' \in [Alert -> [Notifier -> Fate]]
    BY <1>11, <1>13 DEF retry_suppressed, Becomes, TypeOK, Fate
  <2> QED
    BY <1>11, <1>13, <2>1 DEF retry_suppressed, Popped, TypeOK
<1>14. CASE retry_delivered
  <2>1. fate' \in [Alert -> [Notifier -> Fate]]
    BY <1>11, <1>14 DEF retry_delivered, Retries, Delivered, TypeOK, Fate
  <2>2. tries' \in [Alert -> [Notifier -> Nat]]
    BY <1>11, <1>14, TriedFacts DEF retry_delivered, Retries, TypeOK
  <2>3. cool' \in [Notifier -> [Keys -> Nat]] /\ since' \in [Notifier -> [Keys -> Nat]]
    BY <1>11, <1>14 DEF retry_delivered, Retries, record, Delivered, TypeOK
  <2> QED
    BY <1>11, <1>14, <2>1, <2>2, <2>3 DEF retry_delivered, Retries, Popped, TypeOK
<1>15. CASE retry_failed
  <2> DEFINE p == Head(retry_queue)
             next == p.attempt + 1
             delay == IF next + 1 \in DOMAIN RETRY_DELAYS THEN RETRY_DELAYS[next + 1] ELSE RETRY_DELAYS[4]
  <2>0. p.event \in Alert /\ p.notifier_idx \in Notifier /\ p.attempt \in Nat
    BY <1>11, <1>15 DEF retry_failed, Retries
  <2>1. next \in Nat /\ delay \in Nat
    <3>1. next \in Nat
      BY <2>0, SMT
    <3> HIDE DEF p, next
    <3> QED
      BY <3>1, SMT
  <2>2. PendingAlert(p.event, p.notifier_idx, next, delay) \in Pending
    <3> HIDE DEF p, next, delay
    <3> QED
      BY <2>0, <2>1, PendingTyped
  <2>3. still' = still \/ still' = Append(still, PendingAlert(p.event, p.notifier_idx, next, delay))
    BY <1>15 DEF retry_failed
  <2>4. still' \in Seq(Pending)
    <3> DEFINE new == PendingAlert(p.event, p.notifier_idx, next, delay)
    <3>1. new \in Pending /\ (still' = still \/ still' = Append(still, new))
      BY <2>2, <2>3
    <3> HIDE DEF new
    <3>2. Append(still, new) \in Seq(Pending)
      BY <3>1, AppendFacts DEF TypeOK
    <3> QED
      BY <3>1, <3>2 DEF TypeOK
  <2>5. fate' \in [Alert -> [Notifier -> Fate]]
    BY <1>11, <1>15 DEF retry_failed, Retries, Becomes, TypeOK, Fate
  <2>6. tries' \in [Alert -> [Notifier -> Nat]]
    BY <1>11, <1>15, TriedFacts DEF retry_failed, Retries, TypeOK
  <2> QED
    BY <1>11, <1>15, <2>4, <2>5, <2>6 DEF retry_failed, Retries, Popped, TypeOK
<1>16. CASE retry_done
  BY <1>16 DEF retry_done, TypeOK
<1> QED
  BY <1>1, <1>2, <1>3, <1>4, <1>5, <1>6, <1>8, <1>9, <1>10, <1>12, <1>13, <1>14, <1>15, <1>16
     DEF Next, Dispatch

-----------------------------------------------------------------------------
(* What was not told yet. *)

\* A step that takes nothing from the channel, and tells at most the alert and
\* the notifier that handle_new_event is at.
LEMMA FreshKept ==
  ASSUME TypeOK, Fresh, UNCHANGED <<channel, alerts>>,
         at' = "event" => at = "event" /\ event' = event /\ idx' >= idx /\ idx' \in Nat,
         \A a \in Alert, m \in Notifier :
           fate[a][m] = "untold" =>
             fate'[a][m] = "untold" \/ (at = "event" /\ a = event /\ m = idx /\ (at' = "event" => m < idx'))
  PROVE  Fresh'
<1> USE AlertAssumption
<1>1. Len(alerts) \in Nat /\ \A a \in 1..Len(alerts) : a \in Alert
  BY SMT DEF TypeOK, Alert
<1>2. \A a \in Alert : Untold(a) /\ (at = "event" => a # event) => Untold(a)'
  BY DEF Untold
<1>3. \A i \in DOMAIN channel : channel[i] \in 1..Len(alerts) /\ Untold(channel[i])'
  BY <1>1, <1>2 DEF Fresh
<1>4. \A a \in Alert : a > Len(alerts) => Untold(a)'
  BY <1>1, <1>2, SMT DEF Fresh, TypeOK
<1>5. ASSUME at' = "event", NEW m \in Notifier, m >= idx' PROVE fate'[event'][m] = "untold"
  <2>1. event \in Alert /\ event' = event /\ at = "event"
    BY <1>1, <1>5 DEF TypeOK
  <2>2. m \in Nat /\ idx \in Nat /\ m >= idx /\ ~(m < idx')
    <3>1. idx' \in Nat /\ idx' >= idx /\ m >= idx'
      BY <1>5
    <3>2. m \in Nat /\ idx \in Nat
      BY SMT DEF TypeOK, Notifier
    <3> HIDE AlertAssumption
    <3> QED
      BY <3>1, <3>2, SMT
  <2> QED
    BY <1>5, <2>1, <2>2 DEF Fresh
<1>6. \A i \in DOMAIN channel' : channel'[i] \in 1..Len(alerts') /\ Untold(channel[i])'
  BY <1>3
<1> QED
  BY <1>4, <1>5, <1>6 DEF Fresh, Untold

\* One fate is decided.
LEMMA FateFacts ==
  ASSUME TypeOK, NEW a \in Alert, NEW m \in Notifier, NEW f \in Fate,
         Becomes(a, m, f)
  PROVE  \A x \in Alert, y \in Notifier :
           fate'[x][y] = IF x = a /\ y = m THEN f ELSE fate[x][y]
<1>1. fate \in [Alert -> [Notifier -> Fate]] /\ fate' = [fate EXCEPT ![a][m] = f]
  BY DEF TypeOK, Becomes
<1> QED
  BY <1>1, TableFacts, SMT

\* A delivery decides one fate, and starts the cooldown of one key.
LEMMA DeliveredFacts ==
  ASSUME TypeOK, NEW a \in Alert, NEW m \in Notifier, alerts[a] \in Keys, Delivered(a, m)
  PROVE  /\ \A x \in Alert, y \in Notifier :
              fate'[x][y] = IF x = a /\ y = m THEN "delivered" ELSE fate[x][y]
         /\ \A y \in Notifier, k \in Keys :
              since'[y][k] = IF y = m /\ k = alerts[a] THEN 0 ELSE since[y][k]
<1>1. "delivered" \in Fate /\ Becomes(a, m, "delivered")
  BY DEF Delivered, Becomes, Fate
<1>2. since' = [since EXCEPT ![m][alerts[a]] = 0] /\ since \in [Notifier -> [Keys -> Nat]] /\ 0 \in Nat
  BY DEF Delivered, TypeOK
<1>3. \A y \in Notifier, k \in Keys :
        since'[y][k] = IF y = m /\ k = alerts[a] THEN 0 ELSE since[y][k]
  BY <1>2, TableFacts, SMT
<1>4. \A x \in Alert, y \in Notifier : fate'[x][y] = IF x = a /\ y = m THEN "delivered" ELSE fate[x][y]
  BY <1>1, FateFacts, SMT
<1> QED
  BY <1>3, <1>4

\* Where handle_new_event is.
LEMMA AtEvent ==
  ASSUME TypeOK, Fresh, at = "event", idx <= N
  PROVE  /\ event \in Alert /\ event <= Len(alerts) /\ idx \in Notifier
         /\ alerts[event] \in Keys /\ fate[event][idx] = "untold" /\ idx + 1 >= idx /\ idx < idx + 1
         /\ idx + 1 \in Nat
<1> USE AlertAssumption
<1>1. event \in 1..Len(alerts) /\ Len(alerts) \in Nat /\ Len(alerts) <= MaxAlerts
  BY SMT DEF TypeOK
<1>2. event \in Alert /\ alerts[event] \in Keys /\ event <= Len(alerts)
  BY <1>1, SMT DEF Alert, TypeOK
<1>3. idx \in Notifier /\ idx + 1 >= idx /\ idx < idx + 1 /\ idx >= idx /\ idx + 1 \in Nat
  BY SMT DEF Notifier, TypeOK
<1> QED
  BY <1>2, <1>3 DEF Fresh

\* What process_retry_queue, or the eviction, takes from the queue.
LEMMA AtHead ==
  ASSUME TypeOK, Queued, retry_queue # <<>>
  PROVE  /\ Head(retry_queue) \in Pending /\ Filed(Head(retry_queue), Len(alerts), fate, tries)
         /\ Head(retry_queue).event \in Alert /\ Head(retry_queue).notifier_idx \in Notifier
         /\ Head(retry_queue).attempt \in Nat
         /\ Tail(retry_queue) \in Seq(Pending) /\ alerts[Head(retry_queue).event] \in Keys
<1>1. /\ Head(retry_queue) \in Pending /\ Head(retry_queue) = retry_queue[1]
      /\ 1 \in DOMAIN retry_queue /\ Tail(retry_queue) \in Seq(Pending)
  BY TailFacts DEF TypeOK
<1>2. /\ Head(retry_queue).event \in Alert /\ Head(retry_queue).notifier_idx \in Notifier
      /\ Head(retry_queue).attempt \in Nat
  BY <1>1 DEF Pending
<1>3. Filed(Head(retry_queue), Len(alerts), fate, tries)
  BY <1>1 DEF Queued
<1>4. Head(retry_queue).event \in 1..Len(alerts)
  BY <1>2, <1>3, AlertAssumption, SMT DEF Filed, Alert, TypeOK
<1> QED
  BY <1>1, <1>2, <1>3, <1>4, SMT DEF TypeOK
\* Alerts are offered in the order of the channel, each to every notifier once.
LEMMA FreshInductive == TypeOK /\ Fresh /\ Queued /\ [Next]_vars => Fresh'
<1> SUFFICES ASSUME TypeOK, Fresh, Queued, [Next]_vars PROVE Fresh'
  OBVIOUS
<1> DEFINE Same == UNCHANGED <<channel, alerts>> /\ (at' = "event" => at = "event" /\ event' = event)
           Told == \A a \in Alert, m \in Notifier :
                     fate[a][m] = "untold" =>
                       fate'[a][m] = "untold" \/ (at = "event" /\ a = event /\ m = idx /\ (at' = "event" => m < idx'))
           Onward == at' = "event" => idx' >= idx /\ idx' \in Nat
<1>0. Same /\ Told /\ Onward => Fresh'
  BY FreshKept
<1>1. idx >= idx /\ idx \in Nat
  BY SMT DEF TypeOK
<1>2. ASSUME NEW k \in Keys, send(k) PROVE Fresh'
  <2>1. Len(alerts') = Len(alerts) + 1 /\ Len(alerts) \in Nat
    BY <1>2, AppendFacts DEF TypeOK, send
  <2>2. Len(alerts) + 1 \in Alert /\ Len(alerts) + 1 > Len(alerts)
    BY <1>2, <2>1, AlertAssumption, SMT DEF send, Alert
  <2>3. fate' = fate
    BY <1>2 DEF send
  <2>4. Untold(Len(alerts) + 1)
    BY <2>2 DEF Fresh
  <2>5. \A i \in DOMAIN channel : channel[i] \in 1..Len(alerts) /\ channel[i] # Len(alerts) + 1
                                 /\ channel[i] \in 1..Len(alerts') /\ channel[i] \in Alert
    <3>1. \A i \in DOMAIN channel : channel[i] \in 1..Len(alerts) /\ channel[i] \in Alert
      BY SMT DEF Fresh, TypeOK
    <3> QED
      BY <3>1, <2>1, SMT
  <2>6. \A i \in DOMAIN channel' : \/ i \in DOMAIN channel /\ channel'[i] = channel[i]
                                   \/ i = Len(channel) + 1 /\ channel'[i] = Len(alerts) + 1
    <3>1. channel' = channel \/ channel' = Append(channel, Len(alerts) + 1)
      BY <1>2 DEF send
    <3>2. \A i \in DOMAIN Append(channel, Len(alerts) + 1) :
            \/ i \in DOMAIN channel /\ Append(channel, Len(alerts) + 1)[i] = channel[i]
            \/ i = Len(channel) + 1 /\ Append(channel, Len(alerts) + 1)[i] = Len(alerts) + 1
      BY <2>2, AppendFacts, SMT DEF TypeOK
    <3>3. CASE channel' = channel
      BY <3>3
    <3>4. CASE channel' = Append(channel, Len(alerts) + 1)
      BY <3>2, <3>4
    <3> QED
      BY <3>1, <3>3, <3>4
  <2>7. \A i \in DOMAIN channel' : channel'[i] \in 1..Len(alerts') /\ Untold(channel'[i])
    <3>1. Len(alerts) + 1 \in 1..Len(alerts')
      BY <2>1, SMT
    <3>2. \A i \in DOMAIN channel : Untold(channel[i])
      BY DEF Fresh
    <3> QED
      BY <2>4, <2>5, <2>6, <3>1, <3>2
  <2>8. \A i, j \in DOMAIN channel' : channel'[i] = channel'[j] => i = j
    BY <2>5, <2>6 DEF Fresh
  <2>9. \A a \in Alert : a > Len(alerts') => Untold(a)
    <3>1. \A a \in Alert : a > Len(alerts') => a > Len(alerts)
      BY <2>1, AlertAssumption, SMT DEF Alert
    <3> QED
      BY <3>1 DEF Fresh
  <2>10. at' = "event" => \A i \in DOMAIN channel' : channel'[i] # event'
    <3>1. at = "event" => event # Len(alerts) + 1
      BY <2>1, SMT DEF TypeOK
    <3>2. at' = at /\ event' = event
      BY <1>2 DEF send
    <3> QED
      BY <2>6, <3>1, <3>2 DEF Fresh
  <2>11. at' = "event" => \A m \in Notifier : m >= idx' => fate'[event'][m] = "untold"
    BY <1>2 DEF send, Fresh
  <2> QED
    BY <2>3, <2>7, <2>8, <2>9, <2>10, <2>11 DEF Fresh, Untold
<1>3. CASE UNCHANGED vars \/ Tick \/ signal_shutdown \/ stop \/ event_done
           \/ retry_due \/ retry_not_due \/ retry_done
  <2>1. Same /\ UNCHANGED <<fate, idx>>
    BY <1>3 DEF vars, Tick, signal_shutdown, stop, event_done, retry_due, retry_not_due, retry_done, Popped
  <2> QED
    BY <1>0, <1>1, <2>1
<1>4. CASE receive
  <2>1. /\ Head(channel) = channel[1] /\ 1 \in DOMAIN channel
        /\ \A i \in DOMAIN Tail(channel) : /\ i \in Nat /\ i + 1 \in DOMAIN channel
                                           /\ Tail(channel)[i] = channel[i + 1]
    BY <1>4, TailFacts DEF receive, TypeOK
  <2>2. channel' = Tail(channel) /\ event' = channel[1] /\ UNCHANGED <<alerts, fate>>
    BY <1>4, <2>1 DEF receive
  <2>3. \A i \in DOMAIN channel' : /\ i + 1 \in DOMAIN channel /\ channel'[i] = channel[i + 1]
                                 /\ i + 1 # 1
    BY <2>1, <2>2, SMT
  <2>4. \A i \in DOMAIN channel' : channel'[i] \in 1..Len(alerts') /\ Untold(channel'[i])
    BY <2>2, <2>3 DEF Fresh
  <2>5. \A i, j \in DOMAIN channel' : channel'[i] = channel'[j] => i = j
    <3>1. \A i, j \in DOMAIN channel' : channel'[i] = channel'[j] => i + 1 = j + 1
      BY <2>3, ZenonT(40) DEF Fresh
    <3>2. \A i \in DOMAIN channel' : i \in Nat
      BY <2>1, <2>2
    <3> QED
      BY <3>1, <3>2, SMT
  <2>6. \A a \in Alert : a > Len(alerts') => Untold(a)
    BY <2>2 DEF Fresh
  <2>7. \A i \in DOMAIN channel' : channel'[i] # event'
    BY <2>1, <2>2, <2>3 DEF Fresh
  <2>8. \A m \in Notifier : fate'[event'][m] = "untold"
    BY <2>1, <2>2 DEF Fresh, Untold
  <2> QED
    BY <2>2, <2>4, <2>5, <2>6, <2>7, <2>8 DEF Fresh, Untold
<1>5. ASSUME NEW f \in {"unsupported", "suppressed"}, offer_skipped(f) PROVE Fresh'
  <2>1. Same /\ Onward /\ at = "event" /\ idx' = idx + 1 /\ idx < idx' /\ event \in Alert /\ idx \in Notifier
    BY <1>5, AtEvent DEF offer_skipped
  <2>2. Told
    <3>1. f \in Fate /\ Becomes(event, idx, f)
      BY <1>5 DEF offer_skipped, Fate
    <3> QED
      BY <2>1, <3>1, FateFacts, SMT
  <2> QED
    BY <1>0, <2>1, <2>2
<1>6. CASE offer_delivered
  <2>1. Same /\ Onward /\ at = "event" /\ idx' = idx + 1 /\ idx < idx' /\ event \in Alert /\ idx \in Notifier
    BY <1>6, AtEvent DEF offer_delivered, Offers
  <2>2. Told
    <3>1. alerts[event] \in Keys /\ Delivered(event, idx)
      BY <1>6, AtEvent DEF offer_delivered, Offers
    <3> QED
      BY <2>1, <3>1, DeliveredFacts, SMT
  <2> QED
    BY <1>0, <2>1, <2>2
<1>7. CASE offer_failed
  <2>1. Same /\ Onward /\ at = "event" /\ idx' = idx + 1 /\ idx < idx' /\ event \in Alert /\ idx \in Notifier
    BY <1>7, AtEvent DEF offer_failed, Offers
  <2>2. \A a \in Alert, m \in Notifier :
          \/ fate'[a][m] = fate[a][m]
          \/ a = event /\ m = idx
          \/ retry_queue # <<>> /\ a = Head(retry_queue).event /\ m = Head(retry_queue).notifier_idx
    BY <1>7 DEF offer_failed
  <2>3. retry_queue # <<>> => fate[Head(retry_queue).event][Head(retry_queue).notifier_idx] = "pending"
    BY AtHead DEF Filed
  <2>4. Told
    BY <2>1, <2>2, <2>3
  <2> QED
    BY <1>0, <2>1, <2>4
<1>8. CASE retry_suppressed \/ retry_delivered \/ retry_failed
  <2>1. Same /\ UNCHANGED idx /\ retry_queue # <<>>
    BY <1>8 DEF retry_suppressed, retry_delivered, retry_failed, Retries, Popped
  <2> DEFINE p == Head(retry_queue)
  <2>2. PICK f \in Fate : Becomes(p.event, p.notifier_idx, f)
    BY <1>8 DEF retry_suppressed, retry_delivered, retry_failed, Delivered, Becomes, Fate
  <2>3. p.event \in Alert /\ p.notifier_idx \in Notifier /\ fate[p.event][p.notifier_idx] = "pending"
    BY <2>1, AtHead DEF Filed
  <2> HIDE DEF p
  <2>4. Told
    BY <2>2, <2>3, FateFacts, SMT
  <2> QED
    BY <1>0, <1>1, <2>1, <2>4
<1> QED
  BY <1>2, <1>3, <1>4, <1>5, <1>6, <1>7, <1>8 DEF Next, Dispatch

-----------------------------------------------------------------------------
(* The two queues and the record of what is pending. *)

\* Taking the head of a queue takes one case from it, and nothing else.
LEMMA PopFacts ==
  ASSUME NEW s \in Seq(Pending), s # <<>>, Distinct(s)
  PROVE  /\ Distinct(Tail(s))
         /\ \A i \in DOMAIN Tail(s) : /\ ~SameCase(Tail(s)[i], Head(s))
                                     /\ \E j \in DOMAIN s : Tail(s)[i] = s[j]
         /\ \A a \in Alert, m \in Notifier :
              Waits(s, a, m) => \/ Waits(Tail(s), a, m)
                                \/ a = Head(s).event /\ m = Head(s).notifier_idx
<1>1. /\ 1 \in DOMAIN s /\ Head(s) = s[1]
      /\ \A i \in DOMAIN Tail(s) : i \in Nat /\ i + 1 \in DOMAIN s /\ Tail(s)[i] = s[i + 1]
      /\ \A i \in DOMAIN s : i # 1 => i - 1 \in DOMAIN Tail(s)
  BY TailFacts
<1>2. \A i \in DOMAIN Tail(s) : i + 1 # 1
  <2>1. \A i \in DOMAIN Tail(s) : i \in Nat /\ i # 0
    BY TailFacts, SMT
  <2> QED
    BY <2>1, SMT
<1>3. Distinct(Tail(s))
  <2>1. \A i, j \in DOMAIN Tail(s) : SameCase(Tail(s)[i], Tail(s)[j]) => i + 1 = j + 1
    BY <1>1 DEF Distinct
  <2> QED
    BY <1>1, <2>1, SMT DEF Distinct
<1>4. \A i \in DOMAIN Tail(s) : /\ ~SameCase(Tail(s)[i], Head(s))
                               /\ \E j \in DOMAIN s : Tail(s)[i] = s[j]
  BY <1>1, <1>2 DEF Distinct
<1>5. ASSUME NEW i \in DOMAIN s, i # 1 PROVE \E j \in DOMAIN Tail(s) : Tail(s)[j] = s[i]
  <2>1. i - 1 \in DOMAIN Tail(s) /\ (i - 1) + 1 = i
    BY <1>1, <1>5, SMT
  <2> QED
    BY <1>1, <2>1
<1>6. \A a \in Alert, m \in Notifier :
        Waits(s, a, m) => \/ Waits(Tail(s), a, m)
                          \/ a = Head(s).event /\ m = Head(s).notifier_idx
  BY <1>1, <1>5, ZenonT(40) DEF Waits
<1> QED
  BY <1>3, <1>4, <1>6

\* Adding to a queue adds one case to it, and takes nothing away.
LEMMA PushFacts ==
  ASSUME NEW s \in Seq(Pending), Distinct(s), NEW e \in Pending,
         \A i \in DOMAIN s : ~SameCase(s[i], e)
  PROVE  /\ Distinct(Append(s, e))
         /\ \A i \in DOMAIN Append(s, e) : \/ Append(s, e)[i] = e
                                          \/ \E j \in DOMAIN s : Append(s, e)[i] = s[j]
         /\ \A a \in Alert, m \in Notifier :
              Waits(s, a, m) \/ (a = e.event /\ m = e.notifier_idx) => Waits(Append(s, e), a, m)
<1> DEFINE t == Append(s, e)
           z == Len(s) + 1
<1>1. /\ z \in DOMAIN t /\ t[z] = e
      /\ \A i \in DOMAIN s : i \in DOMAIN t /\ i # z /\ t[i] = s[i]
      /\ \A i \in DOMAIN t : i = z \/ i \in DOMAIN s
  BY AppendFacts
<1> HIDE DEF t, z
<1>2. Distinct(t)
  <2>1. \A i \in DOMAIN s : ~SameCase(e, s[i])
    BY DEF SameCase
  <2> QED
    BY <1>1, <2>1 DEF Distinct
<1>3. \A i \in DOMAIN t : t[i] = e \/ \E j \in DOMAIN s : t[i] = s[j]
  BY <1>1
<1>4. \A a \in Alert, m \in Notifier :
        Waits(s, a, m) \/ (a = e.event /\ m = e.notifier_idx) => Waits(t, a, m)
  BY <1>1 DEF Waits
<1> QED
  BY <1>2, <1>3, <1>4 DEF t

\* Rewriting the times in a queue keeps its cases.
LEMMA RewriteQueue ==
  ASSUME NEW s \in Seq(Pending), NEW t, t = Later(s) \/ t = Marked(s),
         Distinct(s), \A i \in DOMAIN s : Filed(s[i], Len(alerts), fate, tries)
  PROVE  /\ Distinct(t) /\ DOMAIN t = DOMAIN s /\ \A i \in DOMAIN t : Filed(t[i], Len(alerts), fate, tries)
         /\ \A i \in DOMAIN s : t[i].event = s[i].event /\ t[i].notifier_idx = s[i].notifier_idx
         /\ \A a \in Alert, m \in Notifier : Waits(s, a, m) => Waits(t, a, m)
<1>1. /\ DOMAIN t = DOMAIN s
      /\ \A i \in DOMAIN s : /\ t[i].event = s[i].event /\ t[i].attempt = s[i].attempt
                            /\ t[i].notifier_idx = s[i].notifier_idx
  BY RewriteFacts
<1>2. Distinct(t)
  BY <1>1 DEF Distinct, SameCase
<1>3. \A i \in DOMAIN t : Filed(t[i], Len(alerts), fate, tries)
  BY <1>1 DEF Filed
<1>4. \A a \in Alert, m \in Notifier : Waits(s, a, m) => Waits(t, a, m)
  BY <1>1 DEF Waits
<1> QED
  BY <1>1, <1>2, <1>3, <1>4
\* Only one case is written.
Elsewhere(a, m) ==
  \A x \in Alert, y \in Notifier :
    ~(x = a /\ y = m) => fate'[x][y] = fate[x][y] /\ tries'[x][y] = tries[x][y]

\* What is on file stays on file when only the fate and the calls of another
\* case are written.
LEMMA FiledKept ==
  ASSUME TypeOK, Len(alerts') \in Nat, Len(alerts') >= Len(alerts),
         NEW a \in Alert, NEW m \in Notifier, Elsewhere(a, m),
         NEW p \in Pending, Filed(p, Len(alerts), fate, tries),
         ~(p.event = a /\ p.notifier_idx = m)
  PROVE  Filed(p, Len(alerts'), fate', tries')
<1>1. p.event \in Alert /\ p.notifier_idx \in Notifier
  BY DEF Pending
<1>2. p.event \in Nat /\ Len(alerts) \in Nat
  <2>1. p.event \in Nat
    BY <1>1, SMT DEF Alert
  <2>2. Len(alerts) \in Nat
    BY SMT DEF TypeOK
  <2> QED
    BY <2>1, <2>2
<1>3. p.event <= Len(alerts')
  BY <1>2, SMT DEF Filed
<1> QED
  BY <1>1, <1>3 DEF Filed, Elsewhere

\* handle_new_event decides one case, which was not decided before, and queues
\* nothing: the queues are as exact as they were.
LEMMA DecidedQueued ==
  ASSUME TypeOK, Queued, UNCHANGED <<alerts, retry_queue, still>>,
         NEW a \in Alert, NEW m \in Notifier, fate[a][m] = "untold", fate'[a][m] # "pending",
         Elsewhere(a, m)
  PROVE  Queued'
<1>1. \A p \in Pending : Filed(p, Len(alerts), fate, tries) => Filed(p, Len(alerts'), fate', tries')
  <2>1. SUFFICES ASSUME NEW p \in Pending, Filed(p, Len(alerts), fate, tries)
                 PROVE  Filed(p, Len(alerts'), fate', tries')
    OBVIOUS
  <2>2. ~(p.event = a /\ p.notifier_idx = m)
    BY <2>1 DEF Filed
  <2>3. Len(alerts') \in Nat /\ Len(alerts') >= Len(alerts)
    BY SMT DEF TypeOK
  <2> QED
    BY <2>1, <2>2, <2>3, FiledKept
<1>2. \A i \in DOMAIN retry_queue : Filed(retry_queue[i], Len(alerts'), fate', tries')
  BY <1>1, SMT DEF Queued, TypeOK
<1>3. \A i \in DOMAIN still : Filed(still[i], Len(alerts'), fate', tries')
  BY <1>1, SMT DEF Queued, TypeOK
<1>4. \A x \in Alert, y \in Notifier : fate'[x][y] = "pending" => fate[x][y] = "pending"
  BY DEF Elsewhere
<1>5. /\ Distinct(retry_queue) /\ Distinct(still)
      /\ \A i \in DOMAIN retry_queue, j \in DOMAIN still : ~SameCase(retry_queue[i], still[j])
      /\ \A x \in Alert, y \in Notifier :
           fate'[x][y] = "pending" => Waits(retry_queue, x, y) \/ Waits(still, x, y)
  BY <1>4 DEF Queued
<1> QED
  BY <1>2, <1>3, <1>5, SMT DEF Queued, Distinct, Waits

\* process_retry_queue takes the head p of the queue: the rest stays on file,
\* and what it appends to still_pending is p's case again, or nothing.
LEMMA PoppedQueued ==
  ASSUME TypeOK, Queued, Popped, NEW e \in Pending, SameCase(e, Head(retry_queue)),
         still' = still \/ still' = Append(still, e),
         Elsewhere(e.event, e.notifier_idx),
         still' = still => fate'[e.event][e.notifier_idx] # "pending",
         still' # still => Filed(e, Len(alerts'), fate', tries')
  PROVE  Queued'
<1> DEFINE q == retry_queue
           p == Head(retry_queue)
<1>1. q \in Seq(Pending) /\ q # <<>> /\ Distinct(q) /\ retry_queue' = Tail(q) /\ alerts' = alerts
  BY DEF Popped, TypeOK, Queued
<1>2. /\ Distinct(Tail(q))
      /\ \A i \in DOMAIN Tail(q) : ~SameCase(Tail(q)[i], p) /\ \E j \in DOMAIN q : Tail(q)[i] = q[j]
      /\ \A a \in Alert, m \in Notifier :
           Waits(q, a, m) => Waits(Tail(q), a, m) \/ (a = p.event /\ m = p.notifier_idx)
  BY <1>1, PopFacts
<1>3. /\ \A j \in DOMAIN still : ~SameCase(p, still[j])
      /\ still \in Seq(Pending) /\ Distinct(still)
  <2>1. p = q[1] /\ 1 \in DOMAIN q
    BY <1>1, TailFacts
  <2> QED
    BY <2>1, ZenonT(40) DEF Queued, TypeOK
<1> HIDE DEF p, q
<1>4. /\ p.event = e.event /\ p.notifier_idx = e.notifier_idx
      /\ e.event \in Alert /\ e.notifier_idx \in Notifier
  BY DEF SameCase, p, Pending
<1>5. \A r \in Pending : Filed(r, Len(alerts), fate, tries) /\ ~SameCase(r, p)
                         => Filed(r, Len(alerts'), fate', tries')
  <2>1. SUFFICES ASSUME NEW r \in Pending, Filed(r, Len(alerts), fate, tries), ~SameCase(r, p)
                 PROVE  Filed(r, Len(alerts'), fate', tries')
    OBVIOUS
  <2>2. ~(r.event = e.event /\ r.notifier_idx = e.notifier_idx)
    BY <1>4, <2>1 DEF SameCase
  <2>3. Len(alerts') \in Nat /\ Len(alerts') >= Len(alerts)
    BY <1>1, SMT DEF TypeOK
  <2> QED
    BY <1>4, <2>1, <2>2, <2>3, FiledKept
<1>6. \A i \in DOMAIN Tail(q) : Filed(Tail(q)[i], Len(alerts'), fate', tries')
  BY <1>1, <1>2, <1>5, SMT DEF Queued, q
<1>7. \A i \in DOMAIN still : Filed(still[i], Len(alerts'), fate', tries') /\ ~SameCase(still[i], e)
  BY <1>3, <1>4, <1>5, SMTT(40) DEF Queued, SameCase
<1>8. \A i \in DOMAIN Tail(q), j \in DOMAIN still : ~SameCase(Tail(q)[i], still[j])
  BY <1>2 DEF Queued, q
<1>9. \A a \in Alert, m \in Notifier :
        fate'[a][m] = "pending" =>
          Waits(Tail(q), a, m) \/ Waits(still, a, m) \/ (a = e.event /\ m = e.notifier_idx)
  BY <1>2, <1>4 DEF Queued, q, Elsewhere
<1>10. CASE still' = still
  <2>1. \A a \in Alert, m \in Notifier :
          fate'[a][m] = "pending" => Waits(Tail(q), a, m) \/ Waits(still, a, m)
    BY <1>9, <1>10
  <2> QED
    BY <1>1, <1>2, <1>3, <1>6, <1>7, <1>8, <1>10, <2>1, SMTT(40) DEF Queued, Distinct, Waits
<1>11. CASE still' = Append(still, e) /\ still' # still
  <2>1. /\ Distinct(Append(still, e))
        /\ \A i \in DOMAIN Append(still, e) : \/ Append(still, e)[i] = e
                                             \/ \E j \in DOMAIN still : Append(still, e)[i] = still[j]
        /\ \A a \in Alert, m \in Notifier :
             Waits(still, a, m) \/ (a = e.event /\ m = e.notifier_idx) => Waits(Append(still, e), a, m)
    BY <1>3, <1>7, PushFacts
  <2> DEFINE t == Append(still, e)
  <2> HIDE DEF t
  <2>2. \A i \in DOMAIN t : Filed(t[i], Len(alerts'), fate', tries')
    BY <1>7, <1>11, <2>1 DEF t
  <2>3. \A i \in DOMAIN Tail(q), j \in DOMAIN t : ~SameCase(Tail(q)[i], t[j])
    <3>1. \A i \in DOMAIN Tail(q) : ~SameCase(Tail(q)[i], e)
      BY <1>2, <1>4 DEF SameCase
    <3> QED
      BY <1>8, <2>1, <3>1 DEF t
  <2>4. \A a \in Alert, m \in Notifier :
          fate'[a][m] = "pending" => Waits(Tail(q), a, m) \/ Waits(t, a, m)
    BY <1>9, <2>1 DEF t
  <2>5. Distinct(t) /\ still' = t
    BY <1>11, <2>1 DEF t
  <2> QED
    BY <1>1, <1>2, <1>6, <2>2, <2>3, <2>4, <2>5, SMTT(270) DEF Queued, Distinct, Waits
<1> QED
  BY <1>10, <1>11
\* A failed delivery of handle_new_event is queued once, in the place of the
\* oldest if the queue is full; what is evicted is on record as evicted.
LEMMA FailedQueued ==
  ASSUME TypeOK, Fresh, Queued, Counted, Bounded, offer_failed
  PROVE  Queued'
<1> DEFINE q    == retry_queue
           full == Len(q) >= queue_depth /\ q # <<>>
           kept == IF full THEN Tail(q) ELSE q
           new  == PendingAlert(event, idx, 1, RETRY_DELAYS[1])
           Evicted(x, y) == full /\ x = Head(q).event /\ y = Head(q).notifier_idx
<1>1. /\ event \in Alert /\ event <= Len(alerts) /\ idx \in Notifier /\ fate[event][idx] = "untold"
      /\ at = "event"
  BY AtEvent DEF offer_failed, Offers
<1>2. still = <<>> /\ still' = <<>> /\ alerts' = alerts
  BY <1>1 DEF Bounded, offer_failed
<1>3. new \in Pending /\ new.event = event /\ new.notifier_idx = idx /\ new.attempt = 1
  <2>1. RETRY_DELAYS[1] \in Nat /\ 1 \in Nat
    BY AlertAssumption, SMT
  <2> QED
    BY <1>1, <2>1, PendingTyped, SMT
<1>4. retry_queue' = Append(kept, new)
  BY DEF offer_failed
<1>5. \A x \in Alert, y \in Notifier :
        fate'[x][y] = IF x = event /\ y = idx THEN "pending"
                      ELSE IF Evicted(x, y) THEN "evicted" ELSE fate[x][y]
  BY DEF offer_failed
<1>6. \A x \in Alert, y \in Notifier :
        tries'[x][y] = IF x = event /\ y = idx THEN tries[event][idx] + 1 ELSE tries[x][y]
  BY <1>1, TriedFacts DEF offer_failed, TypeOK
<1>7. /\ kept \in Seq(Pending) /\ Distinct(kept)
      /\ \A i \in DOMAIN kept : /\ \E j \in DOMAIN q : kept[i] = q[j]
                               /\ ~Evicted(kept[i].event, kept[i].notifier_idx)
      /\ \A a \in Alert, m \in Notifier : Waits(q, a, m) => Waits(kept, a, m) \/ Evicted(a, m)
  <2>1. q \in Seq(Pending) /\ Distinct(q)
    BY DEF TypeOK, Queued
  <2>2. CASE full
    BY <2>1, <2>2, TailFacts, PopFacts DEF SameCase
  <2>3. CASE ~full
    BY <2>1, <2>3
  <2> QED
    BY <2>2, <2>3
<1> HIDE DEF full, kept, new, Evicted
<1>8. \A i \in DOMAIN kept : kept[i] \in Pending /\ Filed(kept[i], Len(alerts), fate, tries)
  BY <1>7, SMT DEF Queued, q
<1>9. \A i \in DOMAIN kept : ~(kept[i].event = event /\ kept[i].notifier_idx = idx)
  BY <1>1, <1>8 DEF Filed
<1>10. \A i \in DOMAIN kept : Filed(kept[i], Len(alerts'), fate', tries')
  <2>1. SUFFICES ASSUME NEW i \in DOMAIN kept PROVE Filed(kept[i], Len(alerts'), fate', tries')
    OBVIOUS
  <2> DEFINE x == kept[i].event
             y == kept[i].notifier_idx
  <2>2. x \in Alert /\ y \in Notifier
    BY <1>8 DEF Pending
  <2>3. fate'[x][y] = fate[x][y] /\ tries'[x][y] = tries[x][y]
    BY <1>5, <1>6, <1>7, <1>9, <2>2
  <2> QED
    BY <1>2, <1>8, <2>3 DEF Filed
<1>11. Filed(new, Len(alerts'), fate', tries')
  <2>1. fate'[event][idx] = "pending" /\ tries'[event][idx] = 1
    BY <1>1, <1>5, <1>6, SMT DEF Counted
  <2>2. 1 < MAX_ATTEMPTS
    BY AlertAssumption
  <2> QED
    BY <1>1, <1>2, <1>3, <2>1, <2>2 DEF Filed
<1>12. \A i \in DOMAIN kept : ~SameCase(kept[i], new)
  BY <1>3, <1>9 DEF SameCase
<1>13. /\ Distinct(Append(kept, new))
       /\ \A i \in DOMAIN Append(kept, new) : \/ Append(kept, new)[i] = new
                                             \/ \E j \in DOMAIN kept : Append(kept, new)[i] = kept[j]
       /\ \A a \in Alert, m \in Notifier :
            Waits(kept, a, m) \/ (a = event /\ m = idx) => Waits(Append(kept, new), a, m)
  BY <1>3, <1>7, <1>12, PushFacts
<1> DEFINE t == Append(kept, new)
<1> HIDE DEF t
<1>14. \A i \in DOMAIN t : Filed(t[i], Len(alerts'), fate', tries')
  BY <1>10, <1>11, <1>13 DEF t
<1>15. \A a \in Alert, m \in Notifier : fate'[a][m] = "pending" => Waits(t, a, m)
  <2>1. SUFFICES ASSUME NEW a \in Alert, NEW m \in Notifier, fate'[a][m] = "pending",
                        ~(a = event /\ m = idx)
                 PROVE  Waits(t, a, m)
    BY <1>13 DEF t
  <2>2. fate[a][m] = "pending" /\ ~Evicted(a, m)
    BY <1>5, <2>1
  <2>3. Waits(q, a, m)
    BY <1>2, <2>2, SMTT(40) DEF Queued, Waits, q
  <2> QED
    BY <1>7, <1>13, <2>2, <2>3 DEF t
<1>16. retry_queue' = t /\ Distinct(t)
  BY <1>4, <1>13 DEF t
<1> QED
  BY <1>2, <1>14, <1>15, <1>16, SMT DEF Queued, Distinct, Waits
\* Through every step of the dispatcher and of time, the queues hold exactly the
\* pending cases, once each.
LEMMA QueuedInductive == TypeOK /\ Fresh /\ Queued /\ Counted /\ Bounded /\ [Next]_vars => Queued'
<1> SUFFICES ASSUME TypeOK, Fresh, Queued, Counted, Bounded, [Next]_vars PROVE Queued'
  OBVIOUS
<1>1. CASE UNCHANGED vars \/ signal_shutdown \/ stop \/ receive \/ event_done
  <2>1. UNCHANGED <<retry_queue, still, alerts, fate, tries>>
    BY <1>1 DEF vars, signal_shutdown, stop, receive, event_done
  <2> QED
    BY <2>1 DEF Queued, Distinct, Waits
<1>2. ASSUME NEW k \in Keys, send(k) PROVE Queued'
  <2>1. UNCHANGED <<retry_queue, still, fate, tries>>
    BY <1>2 DEF send
  <2>2. Len(alerts') = Len(alerts) + 1 /\ Len(alerts) \in Nat
    BY <1>2, AppendFacts DEF TypeOK, send
  <2>3. \A p \in Pending : Filed(p, Len(alerts), fate, tries) => Filed(p, Len(alerts'), fate, tries)
    <3>1. \A p \in Pending : p.event \in Nat
      BY SMT DEF Pending, Alert
    <3> QED
      BY <2>2, <3>1, SMT DEF Filed
  <2>4. \A i \in DOMAIN retry_queue : Filed(retry_queue[i], Len(alerts'), fate, tries)
    BY <2>3, SMT DEF Queued, TypeOK
  <2>5. \A i \in DOMAIN still : Filed(still[i], Len(alerts'), fate, tries)
    BY <2>3, SMT DEF Queued, TypeOK
  <2> QED
    BY <2>1, <2>4, <2>5 DEF Queued, Distinct, Waits
<1>3. CASE Tick
  <2>1. retry_queue' = Later(retry_queue) /\ still' = Later(still) /\ UNCHANGED <<alerts, fate, tries>>
    BY <1>3 DEF Tick, Later
  <2>2. /\ Distinct(Later(retry_queue)) /\ DOMAIN Later(retry_queue) = DOMAIN retry_queue
        /\ \A i \in DOMAIN retry_queue : Filed(Later(retry_queue)[i], Len(alerts), fate, tries)
        /\ \A i \in DOMAIN retry_queue : SameCase(Later(retry_queue)[i], retry_queue[i])
        /\ \A a \in Alert, m \in Notifier : Waits(retry_queue, a, m) => Waits(Later(retry_queue), a, m)
    BY RewriteQueue, ZenonT(40) DEF TypeOK, Queued, SameCase
  <2>3. /\ Distinct(Later(still)) /\ DOMAIN Later(still) = DOMAIN still
        /\ \A i \in DOMAIN still : Filed(Later(still)[i], Len(alerts), fate, tries)
        /\ \A i \in DOMAIN still : SameCase(Later(still)[i], still[i])
        /\ \A a \in Alert, m \in Notifier : Waits(still, a, m) => Waits(Later(still), a, m)
    BY RewriteQueue, ZenonT(40) DEF TypeOK, Queued, SameCase
  <2>4. \A i \in DOMAIN retry_queue', j \in DOMAIN still' : ~SameCase(retry_queue'[i], still'[j])
    BY <2>1, <2>2, <2>3, SMTT(40) DEF Queued, SameCase
  <2>5. \A a \in Alert, m \in Notifier :
          fate'[a][m] = "pending" => Waits(Later(retry_queue), a, m) \/ Waits(Later(still), a, m)
    BY <2>1, <2>2, <2>3 DEF Queued
  <2> DEFINE q == Later(retry_queue)
             t == Later(still)
  <2>6. /\ \A i \in DOMAIN q : Filed(q[i], Len(alerts'), fate', tries')
        /\ \A i \in DOMAIN t : Filed(t[i], Len(alerts'), fate', tries')
    BY <2>1, <2>2, <2>3
  <2>7. retry_queue' = q /\ still' = t /\ Distinct(q) /\ Distinct(t)
    BY <2>1, <2>2, <2>3
  <2> HIDE DEF q, t
  <2>8. \A a \in Alert, m \in Notifier : fate'[a][m] = "pending" => Waits(q, a, m) \/ Waits(t, a, m)
    BY <2>5 DEF q, t
  <2> QED
    BY <2>4, <2>6, <2>7, <2>8, SMTT(40) DEF Queued, Distinct, Waits
<1>4. CASE retry_due
  <2>1. /\ retry_queue' = Marked(retry_queue) /\ still = <<>> /\ still' = <<>>
        /\ UNCHANGED <<alerts, fate, tries>>
    BY <1>4 DEF retry_due, Marked, Bounded
  <2> DEFINE q == Marked(retry_queue)
  <2>2. /\ Distinct(q) /\ DOMAIN q = DOMAIN retry_queue
        /\ \A i \in DOMAIN q : Filed(q[i], Len(alerts), fate, tries)
        /\ \A a \in Alert, m \in Notifier : Waits(retry_queue, a, m) => Waits(q, a, m)
    BY RewriteQueue DEF TypeOK, Queued
  <2> HIDE DEF q
  <2>3. \A a \in Alert, m \in Notifier : fate[a][m] = "pending" => Waits(q, a, m)
    BY <2>1, <2>2, SMT DEF Queued, Waits
  <2>4. retry_queue' = q
    BY <2>1 DEF q
  <2> QED
    BY <2>1, <2>2, <2>3, <2>4, SMTT(40) DEF Queued, Distinct, Waits
<1>5. ASSUME NEW f \in {"unsupported", "suppressed"}, offer_skipped(f) PROVE Queued'
  <2>1. /\ event \in Alert /\ idx \in Notifier /\ fate[event][idx] = "untold"
        /\ UNCHANGED <<alerts, retry_queue, still, tries>>
    BY <1>5, AtEvent DEF offer_skipped
  <2>2. f \in Fate /\ f # "pending" /\ Becomes(event, idx, f)
    BY <1>5 DEF offer_skipped, Fate
  <2>3. \A x \in Alert, y \in Notifier :
          fate'[x][y] = IF x = event /\ y = idx THEN f ELSE fate[x][y]
    BY <2>1, <2>2, FateFacts, SMT
  <2>4. Elsewhere(event, idx) /\ fate'[event][idx] # "pending"
    BY <2>1, <2>2, <2>3 DEF Elsewhere
  <2> QED
    BY <2>1, <2>4, DecidedQueued
<1>6. CASE offer_delivered
  <2>1. /\ event \in Alert /\ idx \in Notifier /\ fate[event][idx] = "untold"
        /\ UNCHANGED <<alerts, retry_queue, still>>
    BY <1>6, AtEvent DEF offer_delivered, Offers
  <2>2. alerts[event] \in Keys /\ Delivered(event, idx)
    BY <1>6, AtEvent DEF offer_delivered, Offers
  <2>3. \A x \in Alert, y \in Notifier :
          fate'[x][y] = IF x = event /\ y = idx THEN "delivered" ELSE fate[x][y]
    BY <2>1, <2>2, DeliveredFacts
  <2>4. \A x \in Alert, y \in Notifier : ~(x = event /\ y = idx) => tries'[x][y] = tries[x][y]
    BY <1>6, <2>1, TriedFacts, SMT DEF offer_delivered, TypeOK
  <2>5. Elsewhere(event, idx) /\ fate'[event][idx] # "pending"
    BY <2>1, <2>3, <2>4 DEF Elsewhere
  <2> QED
    BY <2>1, <2>5, DecidedQueued
<1>7. CASE offer_failed
  BY <1>7, FailedQueued
<1> DEFINE p == Head(retry_queue)
<1>8. ASSUME Popped
      PROVE  /\ p \in Pending /\ p.event \in Alert /\ p.notifier_idx \in Notifier
             /\ p.attempt \in Nat /\ Filed(p, Len(alerts), fate, tries) /\ alerts' = alerts
             /\ SameCase(p, p)
  BY <1>8, AtHead DEF Popped, SameCase
<1>9. CASE retry_not_due
  <2>1. Popped /\ still' = Append(still, p) /\ UNCHANGED <<fate, tries>>
    BY <1>9 DEF retry_not_due
  <2>2. still' # still
    <3>1. still \in Seq(Pending) /\ p \in Pending
      BY <1>8, <2>1 DEF TypeOK
    <3>2. Len(Append(still, p)) = Len(still) + 1 /\ Len(still) \in Nat
      BY <3>1, AppendFacts
    <3> QED
      BY <2>1, <3>2, SMT
  <2>3. Elsewhere(p.event, p.notifier_idx) /\ Filed(p, Len(alerts'), fate', tries')
    BY <1>8, <2>1 DEF Elsewhere
  <2> QED
    BY <1>8, <2>1, <2>2, <2>3, PoppedQueued
<1>10. CASE retry_suppressed
  <2>1. Popped /\ still' = still /\ UNCHANGED tries
    BY <1>10 DEF retry_suppressed
  <2>2. "suppressed" \in Fate /\ Becomes(p.event, p.notifier_idx, "suppressed")
    BY <1>10 DEF retry_suppressed, Fate
  <2>3. \A x \in Alert, y \in Notifier :
          fate'[x][y] = IF x = p.event /\ y = p.notifier_idx THEN "suppressed" ELSE fate[x][y]
    BY <1>8, <2>1, <2>2, FateFacts, SMTT(40)
  <2>4. Elsewhere(p.event, p.notifier_idx) /\ fate'[p.event][p.notifier_idx] # "pending"
    BY <1>8, <2>1, <2>3 DEF Elsewhere
  <2> QED
    BY <1>8, <2>1, <2>4, PoppedQueued
<1>11. CASE retry_delivered
  <2>1. Popped /\ still' = still /\ Tried(p.event, p.notifier_idx)
    BY <1>11 DEF retry_delivered, Retries
  <2>2. alerts[p.event] \in Keys /\ Delivered(p.event, p.notifier_idx)
    BY <1>11, AtHead DEF retry_delivered, Retries, Popped
  <2>3. \A x \in Alert, y \in Notifier :
          fate'[x][y] = IF x = p.event /\ y = p.notifier_idx THEN "delivered" ELSE fate[x][y]
    BY <1>8, <2>1, <2>2, DeliveredFacts, SMT
  <2>4. \A x \in Alert, y \in Notifier :
          ~(x = p.event /\ y = p.notifier_idx) => tries'[x][y] = tries[x][y]
    BY <1>8, <2>1, TriedFacts, SMT DEF TypeOK
  <2>5. Elsewhere(p.event, p.notifier_idx) /\ fate'[p.event][p.notifier_idx] # "pending"
    BY <1>8, <2>1, <2>3, <2>4 DEF Elsewhere
  <2> QED
    BY <1>8, <2>1, <2>5, PoppedQueued
<1>12. CASE retry_failed
  <2> DEFINE next == p.attempt + 1
             last == next >= MAX_ATTEMPTS
             delay == IF next + 1 \in DOMAIN RETRY_DELAYS THEN RETRY_DELAYS[next + 1] ELSE RETRY_DELAYS[4]
             new == PendingAlert(p.event, p.notifier_idx, next, delay)
             f == IF last THEN "exhausted" ELSE "pending"
  <2>1. Popped /\ Tried(p.event, p.notifier_idx) /\ still' = (IF last THEN still ELSE Append(still, new))
    BY <1>12 DEF retry_failed, Retries
  <2>2. f \in Fate /\ Becomes(p.event, p.notifier_idx, f)
    BY <1>12 DEF retry_failed, Fate
  <2>3. next \in Nat /\ delay \in Nat
    BY <1>8, <2>1, AlertAssumption, SMTT(30)
  <2>4. new \in Pending /\ new.event = p.event /\ new.notifier_idx = p.notifier_idx /\ new.attempt = next
    BY <1>8, <2>1, <2>3, PendingTyped, SMTT(120)
  <2>5. \A x \in Alert, y \in Notifier :
          fate'[x][y] = IF x = p.event /\ y = p.notifier_idx THEN f ELSE fate[x][y]
    BY <1>8, <2>1, <2>2, FateFacts, SMTT(120)
  <2>6. \A x \in Alert, y \in Notifier :
          tries'[x][y] = IF x = p.event /\ y = p.notifier_idx
                         THEN tries[p.event][p.notifier_idx] + 1 ELSE tries[x][y]
    BY <1>8, <2>1, TriedFacts, ZenonT(60) DEF TypeOK
  <2> HIDE DEF new
  <2>7. Elsewhere(new.event, new.notifier_idx) /\ SameCase(new, p)
    BY <2>4, <2>5, <2>6, ZenonT(60) DEF Elsewhere, SameCase
  <2>8. /\ fate'[new.event][new.notifier_idx] = f
        /\ tries'[new.event][new.notifier_idx] = next /\ new.event <= Len(alerts')
    BY <1>8, <2>1, <2>4, <2>5, <2>6, SMTT(40) DEF Filed
  <2>9. CASE last
    BY <2>1, <2>4, <2>7, <2>8, <2>9, PoppedQueued
  <2>10. CASE ~last
    <3>1. next < MAX_ATTEMPTS
      BY <2>3, <2>10, AlertAssumption, SMT
    <3>2. Filed(new, Len(alerts'), fate', tries')
      BY <2>4, <2>8, <2>10, <3>1 DEF Filed
    <3>3. still' = Append(still, new) /\ still' # still
      <4>1. still \in Seq(Pending)
        BY DEF TypeOK
      <4>2. Len(Append(still, new)) = Len(still) + 1 /\ Len(still) \in Nat
        BY <2>4, <4>1, AppendFacts
      <4> QED
        BY <2>1, <2>10, <4>2, SMT
    <3> QED
      BY <2>1, <2>4, <2>7, <3>2, <3>3, PoppedQueued
  <2> QED
    BY <2>9, <2>10
<1>13. CASE retry_done
  <2>1. retry_queue = <<>> /\ retry_queue' = still /\ still' = <<>> /\ UNCHANGED <<alerts, fate, tries>>
    BY <1>13 DEF retry_done
  <2> QED
    BY <2>1, SMTT(40) DEF Queued, Distinct, Waits
<1> QED
  BY <1>1, <1>2, <1>3, <1>4, <1>5, <1>6, <1>7, <1>9, <1>10, <1>11, <1>12, <1>13 DEF Next, Dispatch

-----------------------------------------------------------------------------
(* Attempts, the length of the queues, and the cooldown. *)

\* The calls of one case are counted up only while attempts are left.
LEMMA CallCounted ==
  ASSUME TypeOK, Counted, NEW a \in Alert, NEW m \in Notifier, Tried(a, m),
         tries[a][m] < MAX_ATTEMPTS, fate'[a][m] # "untold",
         \A x \in Alert, y \in Notifier :
           fate'[x][y] = "untold" /\ ~(x = a /\ y = m) => fate[x][y] = "untold"
  PROVE  Counted'
<1>1. \A x \in Alert, y \in Notifier :
        tries'[x][y] = IF x = a /\ y = m THEN tries[a][m] + 1 ELSE tries[x][y]
  BY TriedFacts, ZenonT(60) DEF TypeOK
<1>2. tries[a][m] + 1 <= MAX_ATTEMPTS
  BY AlertAssumption, SMT DEF TypeOK
<1> QED
  BY <1>1, <1>2, SMT DEF Counted

\* No notifier is called more than MAX_ATTEMPTS times for one alert.
LEMMA CountedInductive == TypeOK /\ Fresh /\ Queued /\ Counted /\ [Next]_vars => Counted'
<1> SUFFICES ASSUME TypeOK, Fresh, Queued, Counted, [Next]_vars PROVE Counted'
  OBVIOUS
<1>1. CASE UNCHANGED <<fate, tries>>
  BY <1>1 DEF Counted
<1>2. ASSUME NEW f \in {"unsupported", "suppressed"}, offer_skipped(f) PROVE Counted'
  <2>1. event \in Alert /\ idx \in Notifier /\ UNCHANGED tries
    BY <1>2, AtEvent DEF offer_skipped
  <2>2. f \in Fate /\ f # "untold" /\ Becomes(event, idx, f)
    BY <1>2 DEF offer_skipped, Fate
  <2>3. \A x \in Alert, y \in Notifier : fate'[x][y] = "untold" => fate[x][y] = "untold"
    BY <2>1, <2>2, FateFacts, SMT
  <2> QED
    BY <2>1, <2>3 DEF Counted
<1>3. ASSUME Offers
      PROVE  /\ event \in Alert /\ idx \in Notifier /\ tries[event][idx] < MAX_ATTEMPTS
             /\ fate[event][idx] = "untold" /\ alerts[event] \in Keys
  <2>1. /\ event \in Alert /\ idx \in Notifier /\ fate[event][idx] = "untold"
        /\ alerts[event] \in Keys
    BY <1>3, AtEvent DEF Offers
  <2>2. tries[event][idx] = 0 /\ 0 < MAX_ATTEMPTS
    BY <2>1, AlertAssumption, SMT DEF Counted
  <2> QED
    BY <2>1, <2>2
<1>4. CASE offer_delivered
  <2>1. \A x \in Alert, y \in Notifier :
          fate'[x][y] = IF x = event /\ y = idx THEN "delivered" ELSE fate[x][y]
    BY <1>3, <1>4, DeliveredFacts, ZenonT(60) DEF offer_delivered
  <2>2. Tried(event, idx)
    BY <1>4 DEF offer_delivered
  <2> QED
    BY <1>3, <1>4, <2>1, <2>2, CallCounted, SMT DEF offer_delivered
<1>5. CASE offer_failed
  <2>1. /\ \A x \in Alert, y \in Notifier : fate'[x][y] = "untold" => fate[x][y] = "untold"
        /\ \A x \in Alert, y \in Notifier : x = event /\ y = idx => fate'[x][y] = "pending"
    BY <1>5 DEF offer_failed
  <2>2. Tried(event, idx) /\ Offers
    BY <1>5 DEF offer_failed
  <2> QED
    BY <1>3, <2>1, <2>2, CallCounted, ZenonT(60)
<1> DEFINE p == Head(retry_queue)
<1>6. ASSUME Popped
      PROVE  /\ p.event \in Alert /\ p.notifier_idx \in Notifier /\ alerts[p.event] \in Keys
             /\ tries[p.event][p.notifier_idx] < MAX_ATTEMPTS
  BY <1>6, AtHead DEF Popped, Filed
<1>7. CASE retry_suppressed
  <2>1. "suppressed" \in Fate /\ Becomes(p.event, p.notifier_idx, "suppressed")
    BY <1>7 DEF retry_suppressed, Fate
  <2>2. Popped /\ UNCHANGED tries
    BY <1>7 DEF retry_suppressed
  <2>3. \A x \in Alert, y \in Notifier : fate'[x][y] = "untold" => fate[x][y] = "untold"
    BY <1>6, <2>1, <2>2, FateFacts, SMT
  <2> QED
    BY <2>2, <2>3 DEF Counted
<1>8. CASE retry_delivered
  <2>1. Popped /\ Tried(p.event, p.notifier_idx) /\ Delivered(p.event, p.notifier_idx)
    BY <1>8 DEF retry_delivered, Retries
  <2>2. \A x \in Alert, y \in Notifier :
          fate'[x][y] = IF x = p.event /\ y = p.notifier_idx THEN "delivered" ELSE fate[x][y]
    BY <1>6, <2>1, DeliveredFacts, SMT
  <2> QED
    BY <1>6, <2>1, <2>2, CallCounted, SMT
<1>9. CASE retry_failed
  <2>1. Popped /\ Tried(p.event, p.notifier_idx)
    BY <1>9 DEF retry_failed, Retries
  <2>2. PICK f \in {"exhausted", "pending"} : Becomes(p.event, p.notifier_idx, f)
    BY <1>9 DEF retry_failed
  <2>3. \A x \in Alert, y \in Notifier :
          fate'[x][y] = IF x = p.event /\ y = p.notifier_idx THEN f ELSE fate[x][y]
    <3>1. f \in Fate
      BY DEF Fate
    <3> QED
      BY <1>6, <2>1, <2>2, <3>1, FateFacts, SMT
  <2>4. f # "untold"
    OBVIOUS
  <2> QED
    BY <1>6, <2>1, <2>3, <2>4, CallCounted, SMT
<1>10. CASE UNCHANGED vars \/ Tick \/ signal_shutdown \/ stop \/ receive \/ event_done
            \/ retry_due \/ retry_not_due \/ retry_done
  BY <1>1, <1>10 DEF vars, Tick, signal_shutdown, stop, receive, event_done, retry_due,
                     retry_not_due, retry_done
<1>11. ASSUME NEW k \in Keys, send(k) PROVE Counted'
  BY <1>1, <1>11 DEF send
<1> QED
  BY <1>2, <1>4, <1>5, <1>7, <1>8, <1>9, <1>10, <1>11 DEF Next, Dispatch
\* The queue grows only where offer_failed has made room, and never while
\* process_retry_queue moves it over.
LEMMA BoundedInductive == TypeOK /\ Bounded /\ [Next]_vars => Bounded'
<1> SUFFICES ASSUME TypeOK, Bounded, [Next]_vars PROVE Bounded'
  OBVIOUS
<1> DEFINE depth == IF queue_depth = 0 THEN 1 ELSE queue_depth
<1>1. /\ Len(retry_queue) \in Nat /\ Len(still) \in Nat /\ depth \in Nat /\ depth >= 1
      /\ depth >= queue_depth /\ Len(retry_queue) + Len(still) <= depth
  BY AlertAssumption, SMTT(40) DEF TypeOK, Bounded, QueueBounded
<1>2. CASE UNCHANGED <<retry_queue, still>> /\ (at' = at \/ (at' # "retry" /\ at # "retry"))
  BY <1>2 DEF Bounded, QueueBounded
<1>3. CASE UNCHANGED vars \/ signal_shutdown \/ stop \/ receive \/ event_done \/ offer_delivered
  BY <1>2, <1>3 DEF vars, signal_shutdown, stop, receive, event_done, offer_delivered
<1>4. ASSUME NEW k \in Keys, send(k) PROVE Bounded'
  BY <1>2, <1>4 DEF send
<1>5. ASSUME NEW f \in {"unsupported", "suppressed"}, offer_skipped(f) PROVE Bounded'
  BY <1>2, <1>5 DEF offer_skipped
<1>6. CASE Tick
  <2>1. retry_queue' = Later(retry_queue) /\ still' = Later(still) /\ at' = at
    BY <1>6 DEF Tick, Later
  <2>2. Len(Later(retry_queue)) = Len(retry_queue) /\ Len(Later(still)) = Len(still)
    BY RewriteFacts DEF TypeOK
  <2>3. at # "retry" => Later(still) = <<>>
    <3>1. at # "retry" => Len(Later(still)) = 0 /\ Later(still) \in Seq(Pending)
      BY <2>2, RewriteFacts DEF TypeOK, Bounded
    <3> QED
      BY <3>1, SMT
  <2> QED
    BY <2>1, <2>2, <2>3 DEF Bounded, QueueBounded
<1>7. CASE retry_due
  <2>1. retry_queue' = Marked(retry_queue) /\ still' = <<>> /\ still = <<>> /\ at' = "retry"
    BY <1>7 DEF retry_due, Marked, Bounded
  <2>2. Len(Marked(retry_queue)) = Len(retry_queue)
    BY RewriteFacts DEF TypeOK
  <2> QED
    BY <2>1, <2>2 DEF Bounded, QueueBounded
<1>8. CASE offer_failed
  <2> DEFINE full == Len(retry_queue) >= queue_depth /\ retry_queue # <<>>
             kept == IF full THEN Tail(retry_queue) ELSE retry_queue
             new == PendingAlert(event, idx, 1, RETRY_DELAYS[1])
  <2>1. at' = "event" /\ still = <<>> /\ still' = <<>> /\ retry_queue' = Append(kept, new)
    BY <1>8 DEF offer_failed, Offers, Bounded
  <2>2. kept \in Seq(Pending) /\ Len(kept) \in Nat /\ Len(kept) + 1 <= depth
    <3>1. CASE full
      <4>1. Tail(retry_queue) \in Seq(Pending) /\ Len(Tail(retry_queue)) = Len(retry_queue) - 1
            /\ Len(retry_queue) >= 1
        BY <3>1, TailFacts DEF TypeOK
      <4> QED
        BY <1>1, <3>1, <4>1, SMT
    <3>2. CASE ~full
      <4>1. retry_queue = <<>> => Len(retry_queue) = 0
        BY SMT
      <4>2. Len(retry_queue) < queue_depth \/ Len(retry_queue) = 0
        BY <1>1, <3>2, <4>1, AlertAssumption, SMT
      <4> QED
        BY <1>1, <3>2, <4>2, AlertAssumption, SMT DEF TypeOK
    <3> QED
      BY <3>1, <3>2
  <2> HIDE DEF kept, new, depth
  <2>3. Len(retry_queue') = Len(kept) + 1
    BY <2>1, <2>2, SMT DEF kept
  <2>4. Len(retry_queue') + Len(still') <= depth
    BY <2>1, <2>2, <2>3, SMT
  <2> QED
    BY <2>1, <2>4 DEF Bounded, QueueBounded, depth
<1>9. ASSUME Popped PROVE Len(retry_queue') = Len(retry_queue) - 1 /\ at' = "retry"
  BY <1>9, TailFacts DEF Popped, TypeOK
<1>10. ASSUME Popped, Len(still') = Len(still) \/ Len(still') = Len(still) + 1 PROVE Bounded'
  BY <1>1, <1>9, <1>10, SMT DEF Bounded, QueueBounded
<1>11. CASE retry_not_due
  BY <1>10, <1>11, SMT DEF retry_not_due, TypeOK
<1>12. CASE retry_suppressed \/ retry_delivered
  BY <1>10, <1>12 DEF retry_suppressed, retry_delivered, Retries
<1>13. CASE retry_failed
  <2>1. Popped /\ (still' = still \/ \E e : still' = Append(still, e))
    BY <1>13 DEF retry_failed, Retries
  <2>2. Len(still') = Len(still) \/ Len(still') = Len(still) + 1
    BY <2>1, SMT DEF TypeOK
  <2> QED
    BY <1>10, <2>1, <2>2
<1>14. CASE retry_done
  BY <1>1, <1>14, SMT DEF retry_done, Bounded, QueueBounded
<1> QED
  BY <1>3, <1>4, <1>5, <1>6, <1>7, <1>8, <1>11, <1>12, <1>13, <1>14 DEF Next, Dispatch

\* A delivery that records its instant starts the window it is measured by.
LEMMA DeliveryWindow ==
  ASSUME TypeOK, Window, NEW a \in Alert, NEW m \in Notifier, alerts[a] \in Keys,
         Delivered(a, m), record(m, alerts[a])
  PROVE  Window'
<1>1. \A y \in Notifier, k \in Keys :
        since'[y][k] = IF y = m /\ k = alerts[a] THEN 0 ELSE since[y][k]
  BY DeliveredFacts, SMT
<1>2. cool' = [cool EXCEPT ![m][alerts[a]] = Cooldown] /\ cool \in [Notifier -> [Keys -> Nat]]
      /\ Cooldown \in Nat
  BY AlertAssumption DEF record, TypeOK
<1>3. \A y \in Notifier, k \in Keys :
        cool'[y][k] = IF y = m /\ k = alerts[a] THEN Cooldown ELSE cool[y][k]
  BY <1>2, TableFacts, SMT
<1>4. 0 + Cooldown = Cooldown
  BY <1>2, SMT
<1> QED
  BY <1>1, <1>3, <1>4, SMT DEF Window

\* last_sent says for every key how long ago its last delivery was.
LEMMA WindowInductive == TypeOK /\ Fresh /\ Queued /\ Window /\ [Next]_vars => Window'
<1> SUFFICES ASSUME TypeOK, Fresh, Queued, Window, [Next]_vars PROVE Window'
  OBVIOUS
<1>1. CASE UNCHANGED <<cool, since>>
  BY <1>1 DEF Window
<1>2. CASE Tick
  <2>1. SUFFICES ASSUME NEW m \in Notifier, NEW k \in Keys
                 PROVE  since'[m][k] + cool'[m][k] = Cooldown
    BY DEF Window
  <2>2. cool'[m][k] = Less(cool[m][k])
    BY <1>2 DEF Tick
  <2>3. since'[m][k] = IF since[m][k] < Cooldown THEN since[m][k] + 1 ELSE Cooldown
    BY <1>2 DEF Tick
  <2>4. since[m][k] \in Nat /\ cool[m][k] \in Nat /\ since[m][k] + cool[m][k] = Cooldown
    BY DEF TypeOK, Window
  <2> QED
    BY <2>2, <2>3, <2>4, AlertAssumption, SMT DEF Less
<1>3. CASE offer_delivered
  <2>1. Offers /\ Delivered(event, idx) /\ record(idx, alerts[event])
    BY <1>3 DEF offer_delivered
  <2> QED
    BY <2>1, AtEvent, DeliveryWindow DEF Offers
<1>4. CASE retry_delivered
  <2> DEFINE p == Head(retry_queue)
  <2>1. retry_queue # <<>> /\ Delivered(p.event, p.notifier_idx) /\ record(p.notifier_idx, alerts[p.event])
    BY <1>4 DEF retry_delivered, Retries, Popped
  <2> QED
    BY <2>1, AtHead, DeliveryWindow
<1>5. CASE UNCHANGED vars \/ signal_shutdown \/ stop \/ receive \/ event_done \/ offer_failed
           \/ retry_due \/ retry_not_due \/ retry_suppressed \/ retry_failed \/ retry_done
  BY <1>1, <1>5 DEF vars, signal_shutdown, stop, receive, event_done, offer_failed, retry_due,
                    retry_not_due, retry_suppressed, retry_failed, retry_done
<1>6. ASSUME NEW k \in Keys, send(k) PROVE Window'
  BY <1>1, <1>6 DEF send
<1>7. ASSUME NEW f \in {"unsupported", "suppressed"}, offer_skipped(f) PROVE Window'
  BY <1>1, <1>7 DEF offer_skipped
<1> QED
  BY <1>2, <1>3, <1>4, <1>5, <1>6, <1>7 DEF Next, Dispatch

-----------------------------------------------------------------------------
(* The promises. *)

\* The dispatcher starts in order.
LEMMA InitInvariant == Init => IInv
<1> SUFFICES ASSUME Init PROVE IInv
  OBVIOUS
<1> USE AlertAssumption
<1>1. TypeOK
  <2>1. /\ channel \in Seq(Alert) /\ alerts \in Seq(Keys) /\ Len(alerts) <= MaxAlerts
        /\ retry_queue \in Seq(Pending) /\ still \in Seq(Pending) /\ at = "select" /\ idx = 1
    BY SMT DEF Init
  <2>2. /\ cool \in [Notifier -> [Keys -> Nat]] /\ since \in [Notifier -> [Keys -> Nat]]
        /\ tries \in [Alert -> [Notifier -> Nat]]
    BY DEF Init
  <2>3. fate \in [Alert -> [Notifier -> Fate]]
    BY DEF Init, Fate
  <2> QED
    BY <2>1, <2>2, <2>3, SMT DEF TypeOK
<1>2. Fresh
  BY SMT DEF Init, Fresh, Untold
<1>3. Queued
  BY SMT DEF Init, Queued, Distinct
<1>4. Counted
  BY SMT DEF Init, Counted
<1>5. Bounded
  BY SMT DEF Init, Bounded, QueueBounded
<1>6. Window
  BY SMT DEF Init, Window
<1> QED
  BY <1>1, <1>2, <1>3, <1>4, <1>5, <1>6 DEF IInv

\* Every step of the dispatcher keeps it in order.
LEMMA NextInvariant == IInv /\ [Next]_vars => IInv'
<1>1. IInv /\ [Next]_vars => TypeOK' /\ Fresh'
  BY TypeInductive, FreshInductive DEF IInv
<1>2. IInv /\ [Next]_vars => Queued' /\ Counted'
  BY QueuedInductive, CountedInductive DEF IInv
<1>3. IInv /\ [Next]_vars => Bounded' /\ Window'
  BY BoundedInductive, WindowInductive DEF IInv
<1> QED
  BY <1>1, <1>2, <1>3 DEF IInv

\* A queue that holds exactly the pending cases, once each, accounts for every
\* alert and notifier.
LEMMA QueuedAccounts == TypeOK /\ Queued => EveryAlertAccounted
<1> SUFFICES ASSUME TypeOK, Queued, NEW a \in Alert, NEW m \in Notifier
             PROVE  LET S == {i \in 1..(Len(retry_queue) + Len(still)) :
                                LET p == (retry_queue \o still)[i]
                                IN  p.event = a /\ p.notifier_idx = m}
                    IN  IF fate[a][m] = "pending" THEN \E i \in S : S = {i} ELSE S = {}
  BY DEF EveryAlertAccounted
<1> DEFINE q == retry_queue
           l == Len(retry_queue)
           k == Len(still)
           both == retry_queue \o still
           Mine(i) == both[i].event = a /\ both[i].notifier_idx = m
           mine == {i \in 1..(l + k) : Mine(i)}
<1>1. /\ l \in Nat /\ k \in Nat /\ DOMAIN q = 1..l /\ DOMAIN still = 1..k
      /\ \A i \in 1..l : both[i] = q[i]
      /\ \A i \in 1..(l + k) : i > l => both[i] = still[i - l]
  BY SMT DEF TypeOK
<1> HIDE DEF l, k, both, q
<1>2. \A i \in 1..(l + k) : i \in 1..l \/ (i > l /\ i - l \in 1..k)
  BY <1>1, SMT
<1>3. \A i \in 1..(l + k) : \/ i \in DOMAIN q /\ both[i] = q[i]
                            \/ i > l /\ i - l \in DOMAIN still /\ both[i] = still[i - l]
  BY <1>1, <1>2
<1>4. \A i, j \in mine : i = j
  <2>1. SUFFICES ASSUME NEW i \in 1..(l + k), NEW j \in 1..(l + k), Mine(i), Mine(j) PROVE i = j
    OBVIOUS
  <2>2. SameCase(both[i], both[j]) /\ SameCase(both[j], both[i])
    BY <2>1 DEF SameCase
  <2>3. CASE i \in DOMAIN q /\ both[i] = q[i] /\ j \in DOMAIN q /\ both[j] = q[j]
    BY <2>2, <2>3 DEF Queued, Distinct, q
  <2>4. CASE i > l /\ i - l \in DOMAIN still /\ both[i] = still[i - l]
             /\ j > l /\ j - l \in DOMAIN still /\ both[j] = still[j - l]
    <3>1. i - l = j - l
      BY <2>2, <2>4 DEF Queued, Distinct
    <3> QED
      BY <1>1, <3>1, SMT
  <2>5. ~(i \in DOMAIN q /\ both[i] = q[i] /\ j - l \in DOMAIN still /\ both[j] = still[j - l])
    BY <2>2 DEF Queued, q
  <2>6. ~(j \in DOMAIN q /\ both[j] = q[j] /\ i - l \in DOMAIN still /\ both[i] = still[i - l])
    BY <2>2 DEF Queued, q
  <2> QED
    BY <1>3, <2>3, <2>4, <2>5, <2>6
<1>5. fate[a][m] # "pending" => mine = {}
  <2>1. SUFFICES ASSUME NEW i \in 1..(l + k), Mine(i) PROVE fate[a][m] = "pending"
    OBVIOUS
  <2>2. Filed(both[i], Len(alerts), fate, tries)
    BY <1>3 DEF Queued, q
  <2> QED
    BY <2>1, <2>2 DEF Filed
<1>6. fate[a][m] = "pending" => \E i \in 1..(l + k) : Mine(i)
  <2>1. SUFFICES ASSUME fate[a][m] = "pending" PROVE \E i \in 1..(l + k) : Mine(i)
    OBVIOUS
  <2>2. Waits(q, a, m) \/ Waits(still, a, m)
    BY <2>1 DEF Queued, q
  <2>3. CASE Waits(q, a, m)
    <3>1. PICK i \in DOMAIN q : q[i].event = a /\ q[i].notifier_idx = m
      BY <2>3 DEF Waits
    <3>2. i \in 1..(l + k) /\ both[i] = q[i]
      BY <1>1, SMT
    <3> QED
      BY <3>1, <3>2
  <2>4. CASE Waits(still, a, m)
    <3>1. PICK i \in DOMAIN still : still[i].event = a /\ still[i].notifier_idx = m
      BY <2>4 DEF Waits
    <3>2. l + i \in 1..(l + k) /\ l + i > l /\ (l + i) - l = i
      BY <1>1, SMT
    <3>3. both[l + i] = still[i]
      BY <1>1, <3>2
    <3> QED
      BY <3>1, <3>2, <3>3
  <2> QED
    BY <2>2, <2>3, <2>4
<1>7. CASE fate[a][m] = "pending"
  <2>1. PICK i \in 1..(l + k) : Mine(i)
    BY <1>6, <1>7
  <2>2. mine = {i}
    BY <1>4, <2>1
  <2> QED
    BY <1>7, <2>1, <2>2 DEF l, k, both
<1>8. CASE fate[a][m] # "pending"
  BY <1>5, <1>8 DEF l, k, both
<1> QED
  BY <1>7, <1>8

\* on_cooldown is asked before every delivery, so a delivery finds the window over.
LEMMA DeliveredAfterWindow ==
  ASSUME IInv, [Next]_vars, NEW a \in Alert, NEW m \in Notifier,
         fate[a][m] # "delivered", fate'[a][m] = "delivered"
  PROVE  since[m][alerts[a]] = Cooldown
<1> USE DEF IInv
<1>1. ASSUME NEW x \in Alert, NEW y \in Notifier, alerts[x] \in Keys, Delivered(x, y),
             ~on_cooldown(y, alerts[x])
      PROVE  since[m][alerts[a]] = Cooldown
  <2>1. x = a /\ y = m
    BY <1>1, DeliveredFacts, SMT
  <2>2. since[m][alerts[a]] + cool[m][alerts[a]] = Cooldown
    BY <1>1, <2>1 DEF Window
  <2>3. cool[m][alerts[a]] \in Nat /\ ~(cool[m][alerts[a]] > 0) /\ since[m][alerts[a]] \in Nat
    BY <1>1, <2>1 DEF TypeOK, on_cooldown
  <2> QED
    BY <2>2, <2>3, AlertAssumption, SMT
<1>2. ASSUME NEW x \in Alert, NEW y \in Notifier, NEW f \in Fate, f # "delivered",
             Becomes(x, y, f)
      PROVE  FALSE
  BY <1>2, FateFacts, SMT
<1>3. CASE offer_delivered
  <2>1. Offers /\ Delivered(event, idx) /\ ~on_cooldown(idx, alerts[event])
    BY <1>3 DEF offer_delivered, Offers
  <2> QED
    BY <1>1, <2>1, AtEvent DEF Offers
<1> DEFINE p == Head(retry_queue)
<1>4. ASSUME Popped PROVE p.event \in Alert /\ p.notifier_idx \in Notifier /\ alerts[p.event] \in Keys
  BY <1>4, AtHead DEF Popped
<1>5. CASE retry_delivered
  <2>1. Popped /\ Delivered(p.event, p.notifier_idx) /\ ~on_cooldown(p.notifier_idx, alerts[p.event])
    BY <1>5 DEF retry_delivered, Retries
  <2> QED
    BY <1>1, <1>4, <2>1
<1>6. CASE retry_suppressed \/ retry_failed
  <2>1. Popped
    BY <1>6 DEF retry_suppressed, retry_failed, Retries
  <2>2. PICK f \in {"suppressed", "exhausted", "pending"} :
          Becomes(p.event, p.notifier_idx, f)
    BY <1>6 DEF retry_suppressed, retry_failed
  <2>3. f \in Fate /\ f # "delivered"
    BY DEF Fate
  <2> HIDE DEF p
  <2> QED
    BY <1>2, <1>4, <2>1, <2>2, <2>3
<1>7. ASSUME NEW f \in {"unsupported", "suppressed"}, offer_skipped(f) PROVE FALSE
  <2>1. f \in Fate /\ f # "delivered" /\ Becomes(event, idx, f)
    BY <1>7 DEF offer_skipped, Fate
  <2> QED
    BY <1>2, <1>7, <2>1, AtEvent DEF offer_skipped
<1>8. CASE offer_failed
  BY <1>8 DEF offer_failed
<1>9. CASE UNCHANGED vars \/ Tick \/ signal_shutdown \/ stop \/ receive \/ event_done
           \/ retry_due \/ retry_not_due \/ retry_done \/ \E k \in Keys : send(k)
  BY <1>9 DEF vars, Tick, signal_shutdown, stop, receive, event_done, retry_due, retry_not_due,
              retry_done, send
<1> QED
  BY <1>3, <1>5, <1>6, <1>7, <1>8, <1>9 DEF Next, Dispatch

\* The dispatcher keeps its promises, for every number of notifiers, keys and
\* alerts, every queue depth and cooldown: handle_new_event and
\* process_retry_queue lose no alert without a trace, keep the queue and the
\* attempts within their bounds, and tell nobody twice within a window.
THEOREM AlertsAreAccounted == Spec => AlertsAccounted
<1>1. IInv => QueueBounded /\ AttemptsBounded /\ EveryAlertAccounted
  <2>1. IInv => QueueBounded /\ AttemptsBounded
    BY DEF IInv, Bounded, Counted, AttemptsBounded
  <2> QED
    BY <2>1, QueuedAccounts DEF IInv
<1>2. IInv /\ [Next]_vars =>
        [\A a \in Alert, n \in Notifier :
           fate[a][n] # "delivered" /\ fate'[a][n] = "delivered"
             => since[n][alerts[a]] = Cooldown]_vars
  BY DeliveredAfterWindow
<1> QED
  BY <1>1, <1>2, InitInvariant, NextInvariant, PTL DEF Spec, AlertsAccounted, OncePerWindow
-----------------------------------------------------------------------------
(* The upgrade.  materialize is the last value of a recursive function over *)
(* the log; what is needed of it is that a longer log is applied to the     *)
(* result of the shorter one.                                               *)

Upto(f, snapshot, entries, n) ==
  f = [k \in 0..n |-> IF k = 0 THEN snapshot ELSE Apply(f[k - 1], entries[k])]

\* The recursion of materialize has a solution for every log.
LEMMA UptoExists ==
  ASSUME NEW snapshot, NEW entries, NEW n \in Nat
  PROVE  \E f : Upto(f, snapshot, entries, n)
<1> DEFINE Bad == {m \in Nat : ~\E f : Upto(f, snapshot, entries, m)}
<1>1. ASSUME Bad # {} PROVE FALSE
  <2>1. PICK m \in Bad : \A y \in Bad : ~(<<y, m>> \in OpToRel(<, Nat))
    BY <1>1, WFMin, NatLessThanWellFounded, Bad \subseteq Nat
  <2>2. m \in Nat /\ ~\E f : Upto(f, snapshot, entries, m)
    OBVIOUS
  <2>3. CASE m = 0
    <3>1. Upto([k \in 0..m |-> snapshot], snapshot, entries, m)
      BY <2>3, SMT DEF Upto
    <3> QED
      BY <2>2, <3>1
  <2>4. CASE m # 0
    <3>1. m - 1 \in Nat /\ m - 1 < m
      BY <2>2, <2>4, SMT
    <3>2. m - 1 \notin Bad
      BY <2>1, <2>2, <3>1 DEF OpToRel
    <3>3. PICK g : Upto(g, snapshot, entries, m - 1)
      BY <3>1, <3>2
    <3> DEFINE h == [k \in 0..m |-> IF k = 0 THEN snapshot ELSE Apply(g[k - 1], entries[k])]
    <3>4. \A k \in 0..m-1 : h[k] = g[k]
      <4>1. \A k \in 0..m-1 : k \in 0..m
        BY <2>2, SMT
      <4> QED
        BY <3>3, <4>1 DEF Upto
    <3>5. \A k \in 0..m : k # 0 => k - 1 \in 0..m-1
      BY <2>2, SMT
    <3>6. Upto(h, snapshot, entries, m)
      <4>1. \A k \in 0..m : k # 0 => h[k - 1] = g[k - 1]
        BY <3>4, <3>5
      <4> QED
        BY <4>1 DEF Upto
    <3> QED
      BY <2>2, <3>6
  <2> QED
    BY <2>3, <2>4
<1> QED
  BY <1>1

\* Two solutions agree where their logs do.
LEMMA UptoUnique ==
  ASSUME NEW snapshot, NEW v, NEW w, NEW n \in Nat, NEW m \in Nat, n <= m,
         \A k \in 1..n : v[k] = w[k],
         NEW f, Upto(f, snapshot, v, n), NEW g, Upto(g, snapshot, w, m)
  PROVE  f[n] = g[n]
<1> DEFINE Bad == {k \in Nat : k <= n /\ f[k] # g[k]}
<1>1. ASSUME Bad # {} PROVE FALSE
  <2>1. PICK i \in Bad : \A y \in Bad : ~(<<y, i>> \in OpToRel(<, Nat))
    BY <1>1, WFMin, NatLessThanWellFounded, Bad \subseteq Nat
  <2>2. i \in Nat /\ i <= n /\ f[i] # g[i]
    OBVIOUS
  <2>3. i \in 0..n /\ i \in 0..m
    BY <2>2, SMT
  <2>4. /\ f[i] = IF i = 0 THEN snapshot ELSE Apply(f[i - 1], v[i])
        /\ g[i] = IF i = 0 THEN snapshot ELSE Apply(g[i - 1], w[i])
    BY <2>3 DEF Upto
  <2>5. i # 0
    BY <2>2, <2>4
  <2>6. i - 1 \in Nat /\ i - 1 < i /\ i - 1 <= n /\ i \in 1..n
    BY <2>2, <2>5, SMT
  <2>7. f[i - 1] = g[i - 1]
    BY <2>1, <2>2, <2>6 DEF OpToRel
  <2> QED
    BY <2>2, <2>4, <2>5, <2>6, <2>7
<1>2. n <= n
  BY SMT
<1> QED
  BY <1>1, <1>2

LEMMA MaterializeIs ==
  ASSUME NEW snapshot, NEW entries, Len(entries) \in Nat
  PROVE  \E f : Upto(f, snapshot, entries, Len(entries))
                /\ materialize(snapshot, entries) = f[Len(entries)]
<1> DEFINE F(f) == [k \in 0..Len(entries) |-> IF k = 0 THEN snapshot ELSE Apply(f[k - 1], entries[k])]
           H == CHOOSE f : f = F(f)
<1>1. \E f : f = F(f)
  <2>1. PICK f : Upto(f, snapshot, entries, Len(entries))
    BY UptoExists
  <2> QED
    BY <2>1 DEF Upto
<1>2. H = F(H)
  <2> HIDE DEF F
  <2> QED
    BY <1>1
<1>3. materialize(snapshot, entries) = H[Len(entries)]
  BY DEF materialize
<1> HIDE DEF H
<1> QED
  BY <1>2, <1>3 DEF Upto

\* An empty log leaves the snapshot, and an entry is applied to what the log
\* before it gives.
LEMMA MaterializeFacts ==
  /\ \A snapshot : materialize(snapshot, <<>>) = snapshot
  /\ \A snapshot, e, S : \A w \in Seq(S) : e \in S =>
       materialize(snapshot, Append(w, e)) = Apply(materialize(snapshot, w), e)
<1>1. ASSUME NEW snapshot PROVE materialize(snapshot, <<>>) = snapshot
  <2>1. Len(<<>>) = 0 /\ 0 \in Nat /\ 0 \in 0..0
    BY SMT
  <2>2. PICK f : Upto(f, snapshot, <<>>, 0) /\ materialize(snapshot, <<>>) = f[0]
    BY <2>1, MaterializeIs
  <2> QED
    BY <2>1, <2>2 DEF Upto
<1>2. ASSUME NEW snapshot, NEW e, NEW S, NEW w \in Seq(S), e \in S
      PROVE  materialize(snapshot, Append(w, e)) = Apply(materialize(snapshot, w), e)
  <2> DEFINE v == Append(w, e)
             n == Len(w)
             m == Len(v)
  <2>1. /\ n \in Nat /\ m \in Nat /\ n <= m
        /\ \A k \in 1..n : w[k] = v[k]
        /\ v[m] = e /\ m \in 0..m /\ m # 0 /\ m - 1 = n
    BY <1>2, SMT
  <2> HIDE DEF v, n, m
  <2>2. PICK f : Upto(f, snapshot, w, n) /\ materialize(snapshot, w) = f[n]
    BY <2>1, MaterializeIs DEF n
  <2>3. PICK g : Upto(g, snapshot, v, m) /\ materialize(snapshot, v) = g[m]
    BY <2>1, MaterializeIs DEF m
  <2>4. f[n] = g[n]
    <3>1. n <= m /\ n \in Nat /\ m \in Nat /\ (\A k \in 1..n : w[k] = v[k])
      BY <2>1
    <3>2. Upto(f, snapshot, w, n) /\ Upto(g, snapshot, v, m)
      BY <2>2, <2>3
    <3> QED
      BY <3>1, <3>2, UptoUnique, SMTT(20)
  <2>5. g[m] = Apply(g[n], e)
    BY <2>1, <2>3 DEF Upto
  <2> QED
    BY <2>2, <2>3, <2>4, <2>5 DEF v
<1> QED
  BY <1>1, <1>2

-----------------------------------------------------------------------------
(* The invariant. *)

WalEntry ==
  [op : {"AddBan"}, s : Subjects, life : 0..2, peer : BOOLEAN]
  \union [op : {"RevokeBan", "AddCrdtBan", "TombstoneCrdtBan"}, s : Subjects]
Database == [snap : EffectiveState, wal : Seq(WalEntry), ok : BOOLEAN]
Table == [nets : SUBSET Subjects, complete : BOOLEAN, duplicates : BOOLEAN, foreign : BOOLEAN,
          chains : SUBSET {"input", "prerouting"}]

\* The steps of a rollback between the stop of the service and its start.
Halted == {"export", "inspect", "snapshot", "wal", "binary", "firewall", "start"}
\* The steps that may follow the export.
Exported == {"inspect", "snapshot", "wal", "binary", "firewall", "start", "confirm"}
\* The installer's steps after the durable marker.
Durable == {"replace", "start", "observe", "persisted", "commit", "cancel", "done", "rollback"}

Typed ==
  /\ binary \in {"old", "new"} /\ service \in {"old", "new", "stopped", "failed"}
  /\ data \in Database /\ kernel \in Table
  /\ backup \in [data : Database, live : EffectiveState, complete : BOOLEAN]
  /\ rb \in [who : {"none", "installer", "guardian", "operator"},
             pc : {"off", "check", "stop"} \union Halted \union {"confirm"}, export : Database]
  /\ inst \in Steps \union {"rollback", "failed", "killed", "done"}
  /\ Current \in EffectiveState /\ Baseline \in EffectiveState

\* Who holds the deployment lock, and what each step may rely on.
Locked ==
  /\ (rb.pc = "off") <=> (rb.who = "none")
  /\ (rb.who = "installer") <=> (inst = "rollback")
  /\ rb.who \in {"guardian", "operator"} => inst \in {"failed", "killed", "done"}
  /\ rb.pc \in Halted => service = "stopped"
  /\ ~Running => data.wal = <<>>
  /\ rb.pc \in Exported => rb.export.wal = <<>>

Saved ==
  /\ binary = "new" \/ inst \in Durable => "rollback-ready" \in markers
  /\ inst = "ready" \/ "rollback-ready" \in markers => backup.complete
  /\ CommitFinal

Earned ==
  /\ inst \in {"persisted", "commit"} => Kept /\ service = "new"
  /\ inst = "commit" => data.ok
  /\ rb.pc \in Exported => Banned(Baseline) \ unbanned \subseteq Banned(rb.export.snap)
  /\ rb.pc = "confirm" /\ service = "old" => data.ok

FreshInv ==
  /\ fresh \in {"observe", "done"} => owned = Paths
  /\ enabled \in BOOLEAN /\ (enabled => fresh \in {"observe", "done"})

UpgradeInv == Typed /\ Locked /\ Saved /\ Earned

-----------------------------------------------------------------------------
(* What the steps that change the database do. *)

\* An entry the daemon logs keeps the state well formed, and takes away no ban
\* but the one an operator revokes.
LEMMA LoggedFacts ==
  ASSUME NEW st \in EffectiveState, NEW e \in WalEntry
  PROVE  /\ Apply(st, e) \in EffectiveState
         /\ (e.op = "AddBan" => e.life > 0) =>
              \A s \in Subjects :
                st.bans[s] > 0 /\ ~(e.op = "RevokeBan" /\ e.s = s) => Apply(st, e).bans[s] > 0
<1>0. /\ st.bans \in [Subjects -> 0..2] /\ st.peer \in SUBSET Subjects
      /\ st.whitelist \in SUBSET Subjects /\ st.crdt \in [Subjects -> {"none", "live", "tomb"}]
      /\ st.revocations \in SUBSET Subjects
  BY DEF EffectiveState
<1>1. CASE e.op = "AddBan"
  <2>1. e \in [op : {"AddBan"}, s : Subjects, life : 0..2, peer : BOOLEAN]
    BY <1>1, SMT DEF WalEntry
  <2>2. e.s \in Subjects /\ e.life \in 0..2
    BY <2>1
  <2>3. Apply(st, e) = [st EXCEPT !.bans[e.s] = e.life,
                           !.peer = IF e.peer THEN @ \union {e.s} ELSE @ \ {e.s}]
    BY <1>1 DEF Apply
  <2>4. Apply(st, e).bans = [st.bans EXCEPT ![e.s] = e.life]
    BY <2>3, SMT DEF EffectiveState
  <2>5. Apply(st, e) \in EffectiveState
    <3> DEFINE b == [st.bans EXCEPT ![e.s] = e.life]
               p == IF e.peer THEN st.peer \union {e.s} ELSE st.peer \ {e.s}
    <3>1. b \in [Subjects -> 0..2] /\ p \in SUBSET Subjects
      BY <1>0, <2>2
    <3>2. Apply(st, e) = [st EXCEPT !.bans = b, !.peer = p]
      BY <2>3
    <3> HIDE DEF b, p
    <3> QED
      BY <3>1, <3>2 DEF EffectiveState
  <2> QED
    BY <1>0, <1>1, <2>2, <2>4, <2>5
<1>2. CASE e.op = "RevokeBan"
  <2>1. e.s \in Subjects
    BY DEF WalEntry
  <2>2. Apply(st, e) = [st EXCEPT !.bans[e.s] = 0, !.revocations = @ \union {e.s}]
    BY <1>2 DEF Apply
  <2>3. Apply(st, e).bans = [st.bans EXCEPT ![e.s] = 0] /\ Apply(st, e) \in EffectiveState
    <3> DEFINE b == [st.bans EXCEPT ![e.s] = 0]
               r == st.revocations \union {e.s}
    <3>1. b \in [Subjects -> 0..2] /\ r \in SUBSET Subjects
      BY <1>0, <2>1, SMT
    <3>2. Apply(st, e) = [st EXCEPT !.bans = b, !.revocations = r]
      BY <2>2
    <3> HIDE DEF b, r
    <3>3. Apply(st, e).bans = b /\ Apply(st, e) \in EffectiveState
      BY <3>1, <3>2 DEF EffectiveState
    <3> QED
      BY <3>3 DEF b
  <2> QED
    BY <1>0, <1>2, <2>1, <2>3
<1>3. CASE e.op \in {"AddCrdtBan", "TombstoneCrdtBan"}
  <2>1. e.s \in Subjects
    BY DEF WalEntry
  <2> DEFINE c == IF e.op = "AddCrdtBan" \/ st.crdt[e.s] # "none"
                  THEN IF e.op = "AddCrdtBan" THEN "live" ELSE "tomb" ELSE "none"
  <2>2. Apply(st, e) = [st EXCEPT !.crdt[e.s] = c]
    BY <1>0, <1>3, <2>1, SMT DEF Apply, EffectiveState
  <2>3. c \in {"none", "live", "tomb"}
    OBVIOUS
  <2> HIDE DEF c
  <2>4. Apply(st, e).bans = st.bans /\ Apply(st, e) \in EffectiveState
    BY <1>0, <2>1, <2>2, <2>3, SMT DEF EffectiveState
  <2> QED
    BY <2>4
<1> QED
  BY <1>1, <1>2, <1>3 DEF WalEntry

LEMMA DaemonLogs ==
  ASSUME Typed, NEW e \in Logged, DaemonLog(e)
  PROVE  /\ data' \in Database /\ data'.ok = data.ok
         /\ Current' \in EffectiveState
         /\ \A s \in Subjects : Current.bans[s] > 0 /\ s \notin unbanned' => Current'.bans[s] > 0
         /\ unbanned \subseteq unbanned'
         /\ kernel' \in Table /\ kernel.nets \ unbanned' \subseteq kernel'.nets
<1>1. /\ data \in Database /\ kernel \in Table /\ Current \in EffectiveState
  BY DEF Typed
<1>2. e \in WalEntry /\ (e.op = "AddBan" => e.life > 0)
  BY <1>1, SMT DEF Logged, WalEntry, Banned
<1>3. data.wal \in Seq(WalEntry)
  BY <1>1 DEF Database
<1>4. /\ data'.snap = data.snap /\ data'.wal = Append(data.wal, e) /\ data'.ok = data.ok
      /\ data' \in Database
  <2>1. Append(data.wal, e) \in Seq(WalEntry)
    BY <1>2, <1>3, SMT
  <2> QED
    BY <1>1, <2>1 DEF DaemonLog, Database
<1>5. Current' = Apply(Current, e)
  <2>1. materialize(data.snap, Append(data.wal, e)) = Apply(materialize(data.snap, data.wal), e)
    BY <1>2, <1>3, MaterializeFacts
  <2> QED
    BY <1>4, <2>1 DEF Current
<1>6. /\ unbanned \subseteq unbanned'
      /\ e.op = "RevokeBan" => e.s \in unbanned'
  BY DEF DaemonLog
<1>7. kernel' \in Table /\ kernel.nets \ unbanned' \subseteq kernel'.nets
  <2>1. CASE e.op = "RevokeBan"
    <3>1. kernel' = [kernel EXCEPT !.nets = @ \ {e.s}]
      BY <2>1 DEF DaemonLog
    <3>2. kernel'.nets = kernel.nets \ {e.s} /\ kernel' \in Table
      BY <1>1, <3>1, SMT DEF Table
    <3> QED
      BY <1>6, <2>1, <3>2
  <2>2. CASE e.op # "RevokeBan"
    BY <1>1, <2>2 DEF DaemonLog
  <2> QED
    BY <2>1, <2>2
<1> QED
  BY <1>1, <1>2, <1>4, <1>5, <1>6, <1>7, LoggedFacts

\* The start of an executable.
LEMMA StartedFacts ==
  ASSUME Typed, NEW v \in {"old", "new"}, Started(v), v = "old" => data.wal = <<>>
  PROVE  /\ data' \in Database /\ data'.wal = <<>> /\ kernel' \in Table
         /\ service' \in {"failed", v}
         /\ Current' \in EffectiveState
         /\ v = "old" /\ service' = "old" => data'.ok
<1>1. /\ data \in Database /\ kernel \in Table /\ Current \in EffectiveState
  BY DEF Typed
<1>2. CASE v = "old" /\ config
  BY <1>1, <1>2 DEF Started, Current
<1>3. CASE ~(v = "old" /\ config)
  <2> DEFINE bad == IF v = "new" THEN defect.kind ELSE "none"
             st == CASE bad = "loses" -> [Current EXCEPT !.bans[Victim] = 0]
                     [] bad = "shortens" -> [Current EXCEPT !.bans[Victim] = IF @ = 2 THEN 1 ELSE @]
                     [] OTHER -> Current
  <2>1. /\ service' = IF bad = "crashes" THEN "failed" ELSE v
        /\ data' = [snap |-> st, wal |-> <<>>, ok |-> bad # "damages"]
        /\ kernel' = Synced(st, v)
    BY <1>3 DEF Started
  <2>2. st \in EffectiveState
    <3> DEFINE c == Current
               x == Victim
    <3>0. c \in EffectiveState
      BY <1>1
    <3>1. st = CASE bad = "loses" -> [c EXCEPT !.bans[x] = 0]
                 [] bad = "shortens" -> [c EXCEPT !.bans[x] = IF @ = 2 THEN 1 ELSE @]
                 [] OTHER -> c
      OBVIOUS
    <3>2. c.bans \in [Subjects -> 0..2]
      BY <3>0 DEF EffectiveState
    <3> HIDE DEF c, x, bad, st
    <3> DEFINE lost == [c.bans EXCEPT ![x] = 0]
               less == [c.bans EXCEPT ![x] = IF @ = 2 THEN 1 ELSE @]
    <3>3. lost \in [Subjects -> 0..2] /\ less \in [Subjects -> 0..2]
      <4>1. 0 \in 0..2 /\ 1 \in 0..2
        BY SMT
      <4> QED
        BY <3>2, <4>1
    <3>4. \/ st = [c EXCEPT !.bans = lost] \/ st = [c EXCEPT !.bans = less] \/ st = c
      BY <3>1
    <3> HIDE DEF lost, less
    <3> QED
      BY <3>0, <3>3, <3>4 DEF EffectiveState
  <2>3. <<>> \in Seq(WalEntry) /\ (bad # "damages") \in BOOLEAN
    BY SMT
  <2>4. data' \in Database /\ data'.snap = st /\ data'.wal = <<>> /\ data'.ok = (bad # "damages")
    <3> HIDE DEF st, bad
    <3> QED
      BY <2>1, <2>2, <2>3 DEF Database
  <2>5. Current' \in EffectiveState
    <3>1. Current' = materialize(st, <<>>)
      BY <2>4 DEF Current
    <3> HIDE DEF st
    <3> QED
      BY <2>2, <3>1, MaterializeFacts
  <2>6. kernel' \in Table
    <3> HIDE DEF st
    <3> QED
      BY <1>1, <2>1 DEF Synced, Table, Banned
  <2>7. service' \in {"failed", v} /\ (v = "old" => data'.ok)
    <3>1. v = "old" => bad = "none"
      OBVIOUS
    <3> HIDE DEF bad
    <3> QED
      BY <2>1, <2>4, <3>1
  <2> HIDE DEF st, bad
  <2> QED
    BY <2>4, <2>5, <2>6, <2>7
<1> QED
  BY <1>2, <1>3

\* A stopping daemon loses nothing.
LEMMA StopFacts ==
  ASSUME Typed, Locked, stop_service
  PROVE  /\ data' \in Database /\ data'.wal = <<>> /\ data'.ok = data.ok
         /\ service' = "stopped" /\ Current' = Current
<1>1. data \in Database /\ Current \in EffectiveState
  BY DEF Typed
<1>2. CASE Running
  <2>1. data' = [data EXCEPT !.snap = Current, !.wal = <<>>]
    BY <1>2 DEF stop_service
  <2> DEFINE c == Current
  <2>2. c \in EffectiveState /\ data' = [data EXCEPT !.snap = c, !.wal = <<>>]
    BY <1>1, <2>1
  <2> HIDE DEF c
  <2> <<>> \in Seq(WalEntry)
    BY SMT
  <2>3. data' \in Database /\ data'.snap = c /\ data'.wal = <<>> /\ data'.ok = data.ok
    BY <1>1, <2>2 DEF Database
  <2>4. Current' = c
    BY <2>3, MaterializeFacts DEF Current
  <2> QED
    BY <2>3, <2>4 DEF stop_service, c
<1>3. CASE ~Running
  BY <1>1, <1>3 DEF stop_service, Locked, Current
<1> QED
  BY <1>2, <1>3

\* A state that preserves another one holds its bans.
LEMMA PreservedKept ==
  ASSUME NEW before \in EffectiveState, NEW after \in EffectiveState, assert_preserved(before, after)
  PROVE  \A s \in Subjects : before.bans[s] > 0 => after.bans[s] > 0
<1>1. before.bans \in [Subjects -> 0..2] /\ after.bans \in [Subjects -> 0..2]
  BY DEF EffectiveState
<1> QED
  BY <1>1, SMT DEF assert_preserved, Banned

LEMMA ExportFacts ==
  ASSUME NEW st \in EffectiveState
  PROVE  export_legacy(st) \in Database /\ Banned(export_legacy(st).snap) = Banned(st)
         /\ export_legacy(st).wal = <<>>
<1>1. <<>> \in Seq(WalEntry)
  BY SMT
<1>2. [st EXCEPT !.revocations = {}] \in EffectiveState /\ [st EXCEPT !.revocations = {}].bans = st.bans
  BY DEF EffectiveState
<1> QED
  BY <1>1, <1>2 DEF export_legacy, Database, Banned

\* The end of a rollback gives the lock back.
LEMMA EndedFacts ==
  ASSUME UpgradeInv, rb.pc # "off", Ended, UNCHANGED <<binary, markers, backup, unbanned>>,
         data' \in Database, kernel' \in Table, Current' \in EffectiveState,
         service' \in {"old", "new", "stopped", "failed"}, ~Running' => data'.wal = <<>>
  PROVE  UpgradeInv'
<1>1. /\ rb'.pc = "off" /\ rb'.who = "none" /\ rb'.export = rb.export
      /\ rb' \in [who : {"none", "installer", "guardian", "operator"},
                  pc : {"off", "check", "stop"} \union Halted \union {"confirm"}, export : Database]
  BY DEF UpgradeInv, Ended, Typed
<1>2. Baseline' = Baseline
  BY DEF Baseline
<1>3. inst \in {"rollback", "failed", "killed", "done"} /\ inst' \in {"failed", "killed", "done"}
      /\ (inst' \in {"failed", inst})
  BY DEF UpgradeInv, Ended, Typed, Locked
<1>4. Typed'
  BY <1>1, <1>2, <1>3 DEF UpgradeInv, Typed
<1>5. Locked'
  BY <1>1, <1>3 DEF UpgradeInv, Locked, Halted, Exported
<1>6. Saved'
  BY <1>1, <1>3 DEF UpgradeInv, Saved, CommitFinal, Durable
<1>7. Earned'
  BY <1>1, <1>3 DEF UpgradeInv, Earned, Exported
<1> QED
  BY <1>4, <1>5, <1>6, <1>7 DEF UpgradeInv

LEMMA UpgradeStep ==
  ASSUME UpgradeInv, UpgradeNext
  PROVE  UpgradeInv'
<1> USE DEF UpgradeInv
<1>1. CASE preflight
  <2>1. UNCHANGED <<Current, Baseline, Running, Kept>>
    BY <1>1 DEF preflight, Env, Current, Baseline, Running, Kept
  <2>2. Typed'
    BY <1>1, <2>1 DEF preflight, Env, Typed, Steps, Halted
  <2>3. Locked'
    BY <1>1, <2>1 DEF preflight, Env, Typed, Locked, Alive, Steps, Halted, Exported
  <2>4. Saved'
    BY <1>1 DEF preflight, Env, Typed, Locked, Saved, CommitFinal, Durable, Alive, Steps
  <2>5. Earned'
    BY <1>1, <2>1 DEF preflight, Env, Typed, Locked, Earned, Exported, Halted, Banned
  <2> QED
    BY <2>2, <2>3, <2>4, <2>5
<1>2. CASE arm_guardian
  <2>1. UNCHANGED <<Current, Baseline, Running, Kept>> /\ backup'.data = backup.data
    <3>1. backup'.data = backup.data /\ data' = data /\ service' = service /\ kernel' = kernel
          /\ unbanned' = unbanned
      BY <1>2 DEF arm_guardian, Env, Typed
    <3> QED
      BY <3>1 DEF Current, Baseline, Running, Kept
  <2>2. Typed'
    BY <1>2, <2>1 DEF arm_guardian, Env, Typed, Steps, Halted
  <2>3. Locked'
    BY <1>2, <2>1 DEF arm_guardian, Env, Typed, Locked, Alive, Steps, Halted, Exported
  <2>4. Saved'
    BY <1>2 DEF arm_guardian, Env, Typed, Locked, Saved, CommitFinal, Durable, Alive, Steps
  <2>5. Earned'
    BY <1>2, <2>1 DEF arm_guardian, Env, Typed, Locked, Earned, Exported, Halted, Banned
  <2> QED
    BY <2>2, <2>3, <2>4, <2>5
<1>3. CASE install_stop
  <2>1. /\ data' \in Database /\ data'.wal = <<>> /\ data'.ok = data.ok
        /\ service' = "stopped" /\ Current' = Current /\ ~Running'
    BY <1>3, StopFacts DEF install_stop, Running
  <2>2. inst = "stop" /\ inst' = "backup" /\ UNCHANGED <<binary, kernel, markers, backup, rb, unbanned>>
    BY <1>3 DEF install_stop, Env
  <2>3. Baseline' = Baseline
    BY <2>2 DEF Baseline
  <2>4. rb.pc = "off" /\ rb.who = "none"
    BY <2>2 DEF Typed, Locked
  <2>5. Typed'
    BY <2>1, <2>2, <2>3 DEF Typed, Steps
  <2>6. Locked'
    BY <2>1, <2>2, <2>4 DEF Locked, Halted, Exported
  <2>7. Saved'
    BY <2>2, <2>4 DEF Saved, CommitFinal, Durable
  <2>8. Earned'
    BY <2>2, <2>4 DEF Earned, Exported
  <2> QED
    BY <2>5, <2>6, <2>7, <2>8
<1>4. CASE copy_backup
  <2>1. /\ inst = "backup" /\ inst' = "ready" /\ backup' = [backup EXCEPT !.data = data, !.complete = TRUE]
        /\ UNCHANGED <<binary, service, data, kernel, markers, rb, unbanned>>
    BY <1>4 DEF copy_backup, Env
  <2>2. /\ backup'.data = data /\ backup'.complete
        /\ backup' \in [data : Database, live : EffectiveState, complete : BOOLEAN]
    BY <2>1 DEF Typed
  <2>3. Current' = Current /\ Baseline' = Current /\ Running' = Running
    BY <2>1, <2>2 DEF Current, Baseline, Running
  <2>4. rb.pc = "off" /\ rb.who = "none"
    BY <2>1 DEF Typed, Locked
  <2>5. Typed'
    BY <2>1, <2>2, <2>3 DEF Typed, Steps
  <2>6. Locked'
    BY <2>1, <2>3, <2>4 DEF Locked, Halted, Exported
  <2>7. Saved'
    BY <2>1, <2>2, <2>4 DEF Saved, CommitFinal, Durable
  <2>8. Earned'
    BY <2>1, <2>4 DEF Earned, Exported
  <2> QED
    BY <2>5, <2>6, <2>7, <2>8
<1>5. CASE mark_ready
  <2>1. UNCHANGED <<Current, Baseline, Running, Kept>>
    BY <1>5 DEF mark_ready, Env, Current, Baseline, Running, Kept
  <2>2. Typed'
    BY <1>5, <2>1 DEF mark_ready, Env, Typed, Steps, Halted
  <2>3. Locked'
    BY <1>5, <2>1 DEF mark_ready, Env, Typed, Locked, Alive, Steps, Halted, Exported
  <2>4. Saved'
    BY <1>5 DEF mark_ready, Env, Typed, Locked, Saved, CommitFinal, Durable, Alive, Steps
  <2>5. Earned'
    BY <1>5, <2>1 DEF mark_ready, Env, Typed, Locked, Earned, Exported, Halted, Banned
  <2> QED
    BY <2>2, <2>3, <2>4, <2>5
<1>6. CASE replace_binary
  <2>1. UNCHANGED <<Current, Baseline, Running, Kept>>
    BY <1>6 DEF replace_binary, Env, Current, Baseline, Running, Kept
  <2>2. Typed'
    BY <1>6, <2>1 DEF replace_binary, Env, Typed, Steps, Halted
  <2>3. Locked'
    BY <1>6, <2>1 DEF replace_binary, Env, Typed, Locked, Alive, Steps, Halted, Exported
  <2>4. Saved'
    BY <1>6 DEF replace_binary, Env, Typed, Locked, Saved, CommitFinal, Durable, Alive, Steps
  <2>5. Earned'
    BY <1>6, <2>1 DEF replace_binary, Env, Typed, Locked, Earned, Exported, Halted, Banned
  <2> QED
    BY <2>2, <2>3, <2>4, <2>5
<1>7. CASE start_new
  <2>1. /\ inst = "start" /\ inst' = "observe" /\ Started("new")
        /\ UNCHANGED <<binary, markers, backup, rb, unbanned>>
    BY <1>7 DEF start_new, Env
  <2>2. /\ data' \in Database /\ data'.wal = <<>> /\ kernel' \in Table
        /\ service' \in {"failed", "new"} /\ Current' \in EffectiveState
    BY <2>1, StartedFacts
  <2>3. Baseline' = Baseline
    BY <2>1 DEF Baseline
  <2>4. rb.pc = "off" /\ rb.who = "none"
    BY <2>1 DEF Typed, Locked
  <2>5. Typed'
    BY <2>1, <2>2, <2>3 DEF Typed, Steps
  <2>6. Locked'
    BY <2>1, <2>2, <2>4 DEF Locked, Halted, Exported
  <2>7. Saved'
    BY <2>1, <2>4 DEF Saved, CommitFinal, Durable
  <2>8. Earned'
    BY <2>1, <2>4 DEF Earned, Exported
  <2> QED
    BY <2>5, <2>6, <2>7, <2>8
<1>8. CASE observe
  <2>1. UNCHANGED <<Current, Baseline, Running, Kept>> /\ backup'.data = backup.data
    <3>1. backup'.data = backup.data /\ data' = data /\ service' = service /\ kernel' = kernel
          /\ unbanned' = unbanned
      BY <1>8 DEF observe, Env, Typed
    <3> QED
      BY <3>1 DEF Current, Baseline, Running, Kept
  <2>2. Typed'
    BY <1>8, <2>1 DEF observe, Env, Typed, Steps, Halted
  <2>3. Locked'
    BY <1>8, <2>1 DEF observe, Env, Typed, Locked, Alive, Steps, Halted, Exported
  <2>4. Saved'
    BY <1>8 DEF observe, Env, Typed, Locked, Saved, CommitFinal, Durable, Alive, Steps
  <2>5. Kept /\ service = "new"
    <3>1. service = "new" /\ assert_preserved(Baseline, Current) /\ assert_coverage(Current, kernel)
      BY <1>8 DEF observe, observe_ok
    <3>2. Baseline \in EffectiveState /\ Current \in EffectiveState
      BY DEF Typed
    <3> QED
      BY <3>1, <3>2, PreservedKept DEF Kept, assert_coverage, Banned
  <2>6. Earned'
    BY <1>8, <2>1, <2>5 DEF observe, Env, Typed, Locked, Earned, Exported, Halted, Banned
  <2> QED
    BY <2>2, <2>3, <2>4, <2>6
<1>9. CASE check_persisted
  <2>1. UNCHANGED <<Current, Baseline, Running, Kept>>
    BY <1>9 DEF check_persisted, Env, Current, Baseline, Running, Kept
  <2>2. Typed'
    BY <1>9, <2>1 DEF check_persisted, Env, Typed, Steps, Halted
  <2>3. Locked'
    BY <1>9, <2>1 DEF check_persisted, Env, Typed, Locked, Alive, Steps, Halted, Exported
  <2>4. Saved'
    BY <1>9 DEF check_persisted, Env, Typed, Locked, Saved, CommitFinal, Durable, Alive, Steps
  <2>5. data.ok
    BY <1>9 DEF check_persisted, persisted_ok, verify, inspect
  <2>6. Earned'
    BY <1>9, <2>1, <2>5 DEF check_persisted, Env, Typed, Locked, Earned, Exported, Halted, Banned
  <2> QED
    BY <2>2, <2>3, <2>4, <2>6
<1>10. CASE commit
  <2>1. UNCHANGED <<Current, Baseline, Running, Kept>>
    BY <1>10 DEF commit, Env, Current, Baseline, Running, Kept
  <2>2. Typed'
    BY <1>10, <2>1 DEF commit, Env, Typed, Steps, Halted
  <2>3. Locked'
    BY <1>10, <2>1 DEF commit, Env, Typed, Locked, Alive, Steps, Halted, Exported
  <2>4. Saved'
    BY <1>10 DEF commit, Env, Typed, Locked, Saved, CommitFinal, Durable, Alive, Steps
  <2>5. Earned'
    BY <1>10, <2>1 DEF commit, Env, Typed, Locked, Earned, Exported, Halted, Banned
  <2> QED
    BY <2>2, <2>3, <2>4, <2>5
<1>11. CASE cancel_timer
  <2>1. UNCHANGED <<Current, Baseline, Running, Kept>>
    BY <1>11 DEF cancel_timer, Env, Current, Baseline, Running, Kept
  <2>2. Typed'
    BY <1>11, <2>1 DEF cancel_timer, Env, Typed, Steps, Halted
  <2>3. Locked'
    BY <1>11, <2>1 DEF cancel_timer, Env, Typed, Locked, Alive, Steps, Halted, Exported
  <2>4. Saved'
    BY <1>11 DEF cancel_timer, Env, Typed, Locked, Saved, CommitFinal, Durable, Alive, Steps
  <2>5. Earned'
    BY <1>11, <2>1 DEF cancel_timer, Env, Typed, Locked, Earned, Exported, Halted, Banned
  <2> QED
    BY <2>2, <2>3, <2>4, <2>5
<1>12. CASE \E f \in BOOLEAN : raise(f)
  <2>1. PICK f \in BOOLEAN : raise(f)
    BY <1>12
  <2>2. /\ inst \in Steps \ {"cancel"}
        /\ UNCHANGED <<binary, markers, backup, unbanned>>
    BY <2>1 DEF raise, Env
  <2>3. Baseline' = Baseline /\ rb.pc = "off" /\ rb.who = "none"
    BY <2>2 DEF Baseline, Typed, Locked, Steps
  <2>4. CASE inst \in {"preflight", "arm"} /\ inst' = "failed" /\ UNCHANGED <<service, data, kernel, rb>>
    <3>1. Current' = Current /\ Running' = Running
      BY <2>4 DEF Current, Running
    <3>2. Typed' /\ Locked'
      BY <2>2, <2>3, <2>4, <3>1 DEF Typed, Locked, Steps, Halted, Exported
    <3>3. Saved' /\ Earned'
      BY <2>2, <2>3, <2>4 DEF Saved, Earned, CommitFinal, Durable, Exported
    <3> QED
      BY <3>2, <3>3
  <2>5. CASE /\ inst \in {"stop", "backup", "ready"} /\ inst' = "failed" /\ UNCHANGED rb
             /\ IF Running THEN UNCHANGED <<service, data, kernel>> ELSE Started("old")
    <3>1. /\ data' \in Database /\ kernel' \in Table /\ Current' \in EffectiveState
          /\ service' \in {"old", "new", "stopped", "failed"}
          /\ ~Running' => data'.wal = <<>>
      <4>1. CASE Running
        BY <2>5, <4>1 DEF Typed, Locked, Current, Running
      <4>2. CASE ~Running
        BY <2>5, <4>2, StartedFacts DEF Locked
      <4> QED
        BY <4>1, <4>2
    <3>2. Typed' /\ Locked'
      BY <2>2, <2>3, <2>5, <3>1 DEF Typed, Locked, Steps, Halted, Exported
    <3>3. Saved' /\ Earned'
      BY <2>2, <2>3, <2>5 DEF Saved, Earned, CommitFinal, Durable, Exported
    <3> QED
      BY <3>2, <3>3
  <2>6. CASE /\ inst \in {"replace", "start", "observe", "persisted", "commit"}
             /\ inst' = "rollback" /\ rb' = [rb EXCEPT !.who = "installer", !.pc = "check"]
             /\ UNCHANGED <<service, data, kernel>>
    <3>1. Current' = Current /\ Running' = Running
      BY <2>6 DEF Current, Running
    <3>2. rb'.who = "installer" /\ rb'.pc = "check" /\ rb'.export = rb.export
      BY <2>6 DEF Typed
    <3>3. Typed'
      BY <2>2, <2>3, <2>6, <3>1 DEF Typed, Steps, Halted
    <3>4. Locked'
      BY <2>2, <2>3, <2>6, <3>1, <3>2 DEF Locked, Steps, Halted, Exported
    <3>5. Saved' /\ Earned'
      BY <2>2, <2>3, <2>6, <3>2 DEF Saved, Earned, CommitFinal, Durable, Exported
    <3> QED
      BY <3>3, <3>4, <3>5
  <2> QED
    BY <2>1, <2>4, <2>5, <2>6 DEF raise
<1>13. CASE kill
  <2>1. UNCHANGED <<Current, Baseline, Running, Kept>>
    BY <1>13 DEF kill, Killed, Env, Current, Baseline, Running, Kept
  <2>2. Typed'
    BY <1>13, <2>1 DEF kill, Killed, Env, Typed, Steps, Halted
  <2>3. Locked'
    BY <1>13, <2>1 DEF kill, Killed, Env, Typed, Locked, Alive, Steps, Halted, Exported
  <2>4. Saved'
    BY <1>13 DEF kill, Killed, Env, Typed, Locked, Saved, CommitFinal, Durable, Alive, Steps
  <2>5. Earned'
    BY <1>13, <2>1 DEF kill, Killed, Env, Typed, Locked, Earned, Exported, Halted, Banned
  <2> QED
    BY <2>2, <2>3, <2>4, <2>5
<1>14. CASE guardian_fires
  <2>1. UNCHANGED <<binary, service, data, kernel, markers, backup, inst, rb, unbanned>>
    BY <1>14 DEF guardian_fires, Env
  <2>2. UNCHANGED <<Current, Baseline, Running, Kept>>
    BY <2>1 DEF Current, Baseline, Running, Kept
  <2>3. Typed'
    BY <2>1, <2>2, ZenonT(60) DEF Typed
  <2>4. Locked' /\ Saved'
    BY <2>1, <2>2 DEF Locked, Saved, CommitFinal
  <2>5. Earned'
    BY <2>1, <2>2 DEF Earned, Banned
  <2> QED
    BY <2>3, <2>4, <2>5
<1>15. CASE guardian_stops
  <2>1. UNCHANGED <<Current, Baseline, Running, Kept>>
    BY <1>15 DEF guardian_stops, Killed, Env, Current, Baseline, Running, Kept
  <2>2. Typed'
    BY <1>15, <2>1 DEF guardian_stops, Killed, Env, Typed, Steps, Halted
  <2>3. Locked'
    BY <1>15, <2>1 DEF guardian_stops, Killed, Env, Typed, Locked, Alive, Steps, Halted, Exported
  <2>4. Saved'
    BY <1>15 DEF guardian_stops, Killed, Env, Typed, Locked, Saved, CommitFinal, Durable, Alive, Steps
  <2>5. Earned'
    BY <1>15, <2>1 DEF guardian_stops, Killed, Env, Typed, Locked, Earned, Exported, Halted, Banned
  <2> QED
    BY <2>2, <2>3, <2>4, <2>5
<1>16. CASE guardian_locks
  <2>1. UNCHANGED <<Current, Baseline, Running, Kept>>
    BY <1>16 DEF guardian_locks, LockFree, Env, Current, Baseline, Running, Kept
  <2>2. Typed'
    BY <1>16, <2>1 DEF guardian_locks, LockFree, Env, Typed, Steps, Halted
  <2>3. Locked'
    BY <1>16, <2>1 DEF guardian_locks, LockFree, Env, Typed, Locked, Alive, Steps, Halted, Exported
  <2>4. Saved'
    BY <1>16 DEF guardian_locks, LockFree, Env, Typed, Locked, Saved, CommitFinal, Durable, Alive, Steps
  <2>5. Earned'
    BY <1>16, <2>1 DEF guardian_locks, LockFree, Env, Typed, Locked, Earned, Exported, Halted, Banned
  <2> QED
    BY <2>2, <2>3, <2>4, <2>5
<1>17. CASE operator_rollback
  <2>1. UNCHANGED <<Current, Baseline, Running, Kept>>
    BY <1>17 DEF operator_rollback, LockFree, Env, Current, Baseline, Running, Kept
  <2>2. Typed'
    BY <1>17, <2>1 DEF operator_rollback, LockFree, Env, Typed, Steps, Halted
  <2>3. Locked'
    BY <1>17, <2>1 DEF operator_rollback, LockFree, Env, Typed, Locked, Alive, Steps, Halted, Exported
  <2>4. Saved'
    BY <1>17 DEF operator_rollback, LockFree, Env, Typed, Locked, Saved, CommitFinal, Durable, Alive, Steps
  <2>5. Earned'
    BY <1>17, <2>1 DEF operator_rollback, LockFree, Env, Typed, Locked, Earned, Exported, Halted, Banned
  <2> QED
    BY <2>2, <2>3, <2>4, <2>5
<1>18. CASE rollback_check
  <2>1. UNCHANGED <<binary, markers, backup, unbanned>> /\ rb.pc = "check"
    BY <1>18 DEF rollback_check, Env
  <2>2. Baseline' = Baseline
    BY <2>1 DEF Baseline
  <2>3. CASE Goto("stop") /\ ~nothing_to_do /\ UNCHANGED <<service, data, kernel>>
    <3>1. /\ rb'.pc = "stop" /\ rb'.who = rb.who /\ inst' = inst
          /\ rb' \in [who : {"none", "installer", "guardian", "operator"},
                      pc : {"off", "check", "stop"} \union Halted \union {"confirm"}, export : Database]
      BY <2>3 DEF Goto, Typed
    <3>2. Current' = Current /\ Running' = Running
      BY <2>3 DEF Current, Running
    <3>3. Typed' /\ Locked'
      BY <2>1, <2>2, <2>3, <3>1, <3>2 DEF Typed, Locked, Halted, Exported
    <3>4. Saved'
      BY <2>1, <2>3, <3>1 DEF Saved, CommitFinal, Durable, nothing_to_do
    <3>5. Kept' = Kept
      BY <2>1, <2>2, <2>3, <3>2 DEF Kept
    <3>6. Earned'
      BY <2>1, <2>3, <3>1, <3>5 DEF Earned, Exported
    <3> QED
      BY <3>3, <3>4, <3>6
  <2>4. CASE Ended /\ UNCHANGED <<service, data, kernel>>
    <3>1. /\ data' \in Database /\ kernel' \in Table /\ Current' \in EffectiveState
          /\ service' \in {"old", "new", "stopped", "failed"}
          /\ ~Running' => data'.wal = <<>>
      BY <2>4 DEF Typed, Locked, Current, Running
    <3> QED
      BY <2>1, <2>4, <3>1, EndedFacts
  <2>5. CASE Ended /\ (IF Running THEN UNCHANGED <<service, data, kernel>> ELSE Started("old"))
    <3>1. /\ data' \in Database /\ kernel' \in Table /\ Current' \in EffectiveState
          /\ service' \in {"old", "new", "stopped", "failed"}
          /\ ~Running' => data'.wal = <<>>
      <4>1. CASE Running
        BY <2>5, <4>1 DEF Typed, Locked, Current, Running
      <4>2. CASE ~Running
        BY <2>5, <4>2, StartedFacts DEF Locked
      <4> QED
        BY <4>1, <4>2
    <3> QED
      BY <2>1, <2>5, <3>1, EndedFacts
  <2> QED
    BY <1>18, <2>3, <2>4, <2>5 DEF rollback_check
<1>19. CASE rollback_stop
  <2>1. /\ data' \in Database /\ data'.wal = <<>> /\ data'.ok = data.ok
        /\ service' = "stopped" /\ Current' = Current /\ ~Running'
    BY <1>19, StopFacts DEF rollback_stop, Running
  <2>2. /\ rb.pc = "stop" /\ inst' = inst /\ UNCHANGED <<binary, kernel, markers, backup, unbanned>>
        /\ rb'.pc = "export" /\ rb'.who = rb.who
        /\ rb' \in [who : {"none", "installer", "guardian", "operator"},
                    pc : {"off", "check", "stop"} \union Halted \union {"confirm"}, export : Database]
    BY <1>19 DEF rollback_stop, Goto, Env, Typed, Halted
  <2>3. Baseline' = Baseline
    BY <2>2 DEF Baseline
  <2>4. Typed'
    BY <2>1, <2>2, <2>3 DEF Typed
  <2>5. Locked'
    BY <2>1, <2>2 DEF Locked, Halted, Exported
  <2>6. Saved'
    BY <2>2 DEF Saved, CommitFinal
  <2>7. inst \notin {"persisted", "commit"}
    BY <2>2 DEF Typed, Locked
  <2>8. Earned'
    BY <2>2, <2>7 DEF Earned, Exported
  <2> QED
    BY <2>4, <2>5, <2>6, <2>8
<1>20. CASE rollback_export
  <2> DEFINE usable == verify(data, FALSE) /\ assert_preserved(Baseline, Current)
             st == IF usable THEN Current ELSE Baseline
  <2>1. /\ rb.pc = "export" /\ UNCHANGED <<binary, service, data, kernel, markers, backup, inst, unbanned>>
        /\ rb' = [rb EXCEPT !.pc = "inspect", !.export = export_legacy(st)]
    BY <1>20 DEF rollback_export, Env
  <2>2. UNCHANGED <<Current, Baseline, Running>>
    BY <2>1 DEF Current, Baseline, Running
  <2>3. st \in EffectiveState /\ \A s \in Subjects : Baseline.bans[s] > 0 => st.bans[s] > 0
    <3>1. Baseline \in EffectiveState /\ Current \in EffectiveState
      BY DEF Typed
    <3> QED
      BY <3>1, PreservedKept
  <2> HIDE DEF st
  <2>4. /\ export_legacy(st) \in Database /\ Banned(export_legacy(st).snap) = Banned(st)
        /\ export_legacy(st).wal = <<>>
    BY <2>3, ExportFacts
  <2>5. rb'.pc = "inspect" /\ rb'.who = rb.who /\ rb'.export = export_legacy(st)
    BY <2>1 DEF Typed
  <2>6. Typed'
    BY <2>1, <2>2, <2>4 DEF Typed, Halted
  <2>7. Locked'
    BY <2>1, <2>2, <2>4, <2>5 DEF Locked, Halted, Exported
  <2>8. Saved'
    BY <2>1, <2>5 DEF Saved, CommitFinal
  <2>9. inst \notin {"persisted", "commit"}
    BY <2>1 DEF Typed, Locked
  <2>10. Banned(Baseline) \ unbanned \subseteq Banned(rb'.export.snap)
    BY <2>3, <2>4, <2>5 DEF Banned
  <2>11. Earned'
    BY <2>1, <2>2, <2>5, <2>9, <2>10 DEF Earned, Banned
  <2> QED
    BY <2>6, <2>7, <2>8, <2>11
<1>21. CASE rollback_inspect
  <2>1. UNCHANGED <<Current, Baseline, Running, Kept>>
    BY <1>21 DEF rollback_inspect, Goto, Env, Current, Baseline, Running, Kept
  <2>2. Typed'
    BY <1>21, <2>1 DEF rollback_inspect, Goto, Env, Typed, Steps, Halted
  <2>3. Locked'
    BY <1>21, <2>1 DEF rollback_inspect, Goto, Env, Typed, Locked, Alive, Steps, Halted, Exported
  <2>4. Saved'
    BY <1>21 DEF rollback_inspect, Goto, Env, Typed, Locked, Saved, CommitFinal, Durable, Alive, Steps
  <2>5. Earned'
    BY <1>21, <2>1 DEF rollback_inspect, Goto, Env, Typed, Locked, Earned, Exported, Halted, Banned
  <2> QED
    BY <2>2, <2>3, <2>4, <2>5
<1>22. CASE rollback_snapshot
  <2>1. /\ rb.pc = "snapshot" /\ inst' = inst /\ rb'.pc = "wal" /\ rb'.who = rb.who
        /\ rb'.export = rb.export
        /\ rb' \in [who : {"none", "installer", "guardian", "operator"},
                    pc : {"off", "check", "stop"} \union Halted \union {"confirm"}, export : Database]
    BY <1>22 DEF rollback_snapshot, Goto, Typed, Halted
  <2>2. UNCHANGED <<binary, service, kernel, markers, backup, unbanned>>
    BY <1>22 DEF rollback_snapshot, Env
  <2>3. /\ data' \in Database /\ data'.wal = data.wal /\ data'.snap = rb.export.snap
        /\ data.wal = <<>> /\ Baseline' = Baseline
    <3>1. data' = [data EXCEPT !.snap = rb.export.snap, !.ok = data.ok \/ data.wal = <<>>]
      BY <1>22 DEF rollback_snapshot
    <3>2. data \in Database /\ rb.export.snap \in EffectiveState
      BY DEF Typed, Database
    <3>3. data.ok \in BOOLEAN /\ (data.ok \/ data.wal = <<>>) \in BOOLEAN
      BY <3>2 DEF Database
    <3>4. data' \in Database /\ data'.wal = data.wal /\ data'.snap = rb.export.snap
      BY <3>1, <3>2, <3>3 DEF Database
    <3>5. data.wal = <<>>
      BY <2>1 DEF Locked, Halted, Exported, Running
    <3> QED
      BY <2>2, <3>4, <3>5 DEF Baseline
  <2>4. Current' \in EffectiveState
    <3>1. Current' = rb.export.snap
      BY <2>3, MaterializeFacts DEF Current
    <3> QED
      BY <3>1 DEF Typed, Database
  <2>5. Typed'
    BY <2>1, <2>2, <2>3, <2>4 DEF Typed
  <2>6. Locked'
    BY <2>1, <2>2, <2>3, <2>4 DEF Locked, Halted, Exported, Running
  <2>7. Saved'
    BY <2>1, <2>2 DEF Saved, CommitFinal
  <2>8. inst \notin {"persisted", "commit"}
    BY <2>1 DEF Typed, Locked
  <2>9. Earned'
    BY <2>1, <2>2, <2>3, <2>4, <2>8 DEF Earned, Exported, Banned
  <2> QED
    BY <2>5, <2>6, <2>7, <2>9
<1>23. CASE rollback_wal
  <2>1. /\ rb.pc = "wal" /\ inst' = inst /\ rb'.pc = "binary" /\ rb'.who = rb.who
        /\ rb'.export = rb.export
        /\ rb' \in [who : {"none", "installer", "guardian", "operator"},
                    pc : {"off", "check", "stop"} \union Halted \union {"confirm"}, export : Database]
    BY <1>23 DEF rollback_wal, Goto, Typed, Halted
  <2>2. UNCHANGED <<binary, service, kernel, markers, backup, unbanned>>
    BY <1>23 DEF rollback_wal, Env
  <2>3. data' = rb.export /\ data' \in Database /\ data'.wal = <<>> /\ Baseline' = Baseline
    BY <1>23, <2>1, <2>2 DEF rollback_wal, Typed, Locked, Exported, Baseline
  <2>4. Current' \in EffectiveState
    <3>1. Current' = rb.export.snap
      BY <2>3, MaterializeFacts DEF Current
    <3> QED
      BY <3>1 DEF Typed, Database
  <2>5. Typed'
    BY <2>1, <2>2, <2>3, <2>4 DEF Typed
  <2>6. Locked'
    BY <2>1, <2>2, <2>3, <2>4 DEF Locked, Halted, Exported, Running
  <2>7. Saved'
    BY <2>1, <2>2 DEF Saved, CommitFinal
  <2>8. inst \notin {"persisted", "commit"}
    BY <2>1 DEF Typed, Locked
  <2>9. Earned'
    BY <2>1, <2>2, <2>3, <2>4, <2>8 DEF Earned, Exported, Banned
  <2> QED
    BY <2>5, <2>6, <2>7, <2>9
<1>24. CASE rollback_binary
  <2>1. UNCHANGED <<Current, Baseline, Running, Kept>>
    BY <1>24 DEF rollback_binary, Goto, Env, Current, Baseline, Running, Kept
  <2>2. Typed'
    BY <1>24, <2>1 DEF rollback_binary, Goto, Env, Typed, Steps, Halted
  <2>3. Locked'
    BY <1>24, <2>1 DEF rollback_binary, Goto, Env, Typed, Locked, Alive, Steps, Halted, Exported
  <2>4. Saved'
    BY <1>24 DEF rollback_binary, Goto, Env, Typed, Locked, Saved, CommitFinal, Durable, Alive, Steps
  <2>5. Earned'
    BY <1>24, <2>1 DEF rollback_binary, Goto, Env, Typed, Locked, Earned, Exported, Halted, Banned
  <2> QED
    BY <2>2, <2>3, <2>4, <2>5
<1>25. CASE rollback_firewall
  <2>1. /\ rb.pc = "firewall" /\ inst' = inst /\ rb'.pc = "start" /\ rb'.who = rb.who
        /\ rb'.export = rb.export
        /\ rb' \in [who : {"none", "installer", "guardian", "operator"},
                    pc : {"off", "check", "stop"} \union Halted \union {"confirm"}, export : Database]
    BY <1>25 DEF rollback_firewall, Goto, Typed, Halted
  <2>2. UNCHANGED <<binary, service, data, markers, backup, unbanned>>
    BY <1>25 DEF rollback_firewall, Env
  <2>3. UNCHANGED <<Current, Baseline>>
    BY <2>2 DEF Current, Baseline
  <2>4. kernel' \in Table
    <3>1. kernel' = firewall_restore(rb.export.snap, kernel) /\ kernel \in Table
      BY <1>25 DEF rollback_firewall, Typed
    <3> QED
      BY <3>1 DEF firewall_restore, Table, Banned
  <2>5. Typed'
    BY <2>1, <2>2, <2>3, <2>4 DEF Typed
  <2>6. Locked'
    BY <2>1, <2>2, <2>3, <2>4 DEF Locked, Halted, Exported, Running
  <2>7. Saved'
    BY <2>1, <2>2 DEF Saved, CommitFinal
  <2>8. inst \notin {"persisted", "commit"}
    BY <2>1 DEF Typed, Locked
  <2>9. Earned'
    BY <2>1, <2>2, <2>3, <2>4, <2>8 DEF Earned, Exported, Banned
  <2> QED
    BY <2>5, <2>6, <2>7, <2>9
<1>26. CASE rollback_start
  <2>1. /\ rb.pc = "start" /\ inst' = inst /\ rb'.pc = "confirm" /\ rb'.who = rb.who
        /\ rb'.export = rb.export
        /\ rb' \in [who : {"none", "installer", "guardian", "operator"},
                    pc : {"off", "check", "stop"} \union Halted \union {"confirm"}, export : Database]
    BY <1>26 DEF rollback_start, Goto, Typed, Halted
  <2>2. UNCHANGED <<binary, markers, backup, unbanned>> /\ Started("old")
    BY <1>26 DEF rollback_start, Env
  <2>3. data.wal = <<>>
    BY <2>1 DEF Locked, Halted, Exported, Running
  <2>4. /\ data' \in Database /\ data'.wal = <<>> /\ kernel' \in Table
        /\ service' \in {"failed", "old"} /\ Current' \in EffectiveState
        /\ service' = "old" => data'.ok
    BY <2>2, <2>3, StartedFacts
  <2>5. Baseline' = Baseline
    BY <2>2 DEF Baseline
  <2>6. Typed'
    BY <2>1, <2>2, <2>4, <2>5 DEF Typed
  <2>7. Locked'
    BY <2>1, <2>4 DEF Locked, Halted, Exported
  <2>8. Saved'
    BY <2>1, <2>2 DEF Saved, CommitFinal
  <2>9. inst \notin {"persisted", "commit"}
    BY <2>1 DEF Typed, Locked
  <2>10. Earned'
    BY <2>1, <2>2, <2>4, <2>5, <2>9 DEF Earned, Exported, Banned
  <2> QED
    BY <2>6, <2>7, <2>8, <2>10
<1>27. CASE rollback_confirm
  <2>1. UNCHANGED <<Current, Baseline, Running, Kept>>
    BY <1>27 DEF rollback_confirm, Ended, Env, Current, Baseline, Running, Kept
  <2>2. Typed'
    BY <1>27, <2>1 DEF rollback_confirm, Ended, Env, Typed, Steps, Halted
  <2>3. Locked'
    BY <1>27, <2>1 DEF rollback_confirm, Ended, Env, Typed, Locked, Alive, Steps, Halted, Exported
  <2>4. Saved'
    BY <1>27 DEF rollback_confirm, Ended, Env, Typed, Locked, Saved, CommitFinal, Durable, Alive, Steps
  <2>5. Earned'
    BY <1>27, <2>1 DEF rollback_confirm, Ended, Env, Typed, Locked, Earned, Exported, Halted, Banned
  <2> QED
    BY <2>2, <2>3, <2>4, <2>5
<1>28. CASE \E f \in BOOLEAN : rollback_raise(f)
  <2>1. UNCHANGED <<Current, Baseline, Running, Kept>>
    BY <1>28 DEF rollback_raise, Ended, Env, Current, Baseline, Running, Kept
  <2>2. Typed'
    BY <1>28, <2>1, ZenonT(60) DEF rollback_raise, Ended, Env, Typed, Steps, Halted
  <2>3. Locked'
    BY <1>28, <2>1 DEF rollback_raise, Ended, Env, Typed, Locked, Alive, Steps, Halted, Exported
  <2>4. Saved'
    BY <1>28 DEF rollback_raise, Ended, Env, Typed, Locked, Saved, CommitFinal, Durable, Alive, Steps
  <2>5. Earned'
    BY <1>28, <2>1 DEF rollback_raise, Ended, Env, Typed, Locked, Earned, Exported, Halted, Banned
  <2> QED
    BY <2>2, <2>3, <2>4, <2>5
<1>29. CASE \E e \in Logged : DaemonLog(e)
  <2>1. PICK e \in Logged : DaemonLog(e)
    BY <1>29
  <2>2. Running /\ UNCHANGED <<binary, service, markers, backup, inst, rb>>
    BY <2>1 DEF DaemonLog
  <2>3. /\ data' \in Database /\ data'.ok = data.ok /\ Current' \in EffectiveState
        /\ \A s \in Subjects : Current.bans[s] > 0 /\ s \notin unbanned' => Current'.bans[s] > 0
        /\ unbanned \subseteq unbanned'
        /\ kernel' \in Table /\ kernel.nets \ unbanned' \subseteq kernel'.nets
    BY <2>1, DaemonLogs
  <2>4. Baseline' = Baseline /\ Running'
    BY <2>2 DEF Baseline, Running
  <2>5. Typed'
    BY <2>2, <2>3, <2>4 DEF Typed
  <2>6. Locked'
    BY <2>2, <2>4 DEF Locked
  <2>7. Saved'
    BY <2>2 DEF Saved, CommitFinal
  <2>8. Kept => Kept'
    BY <2>3, <2>4 DEF Kept, Banned
  <2>9. Earned'
    BY <2>2, <2>3, <2>4, <2>8 DEF Earned, Banned
  <2> QED
    BY <2>5, <2>6, <2>7, <2>9
<1>30. CASE DaemonEnforce
  <2>1. /\ UNCHANGED <<binary, service, data, markers, backup, inst, rb, unbanned>>
        /\ kernel' \in Table /\ kernel.nets \subseteq kernel'.nets
    BY <1>30 DEF DaemonEnforce, Typed, Table, Banned
  <2>2. UNCHANGED <<Current, Baseline, Running>>
    BY <2>1 DEF Current, Baseline, Running
  <2>3. Typed'
    BY <2>1, <2>2 DEF Typed
  <2>6. Locked' /\ Saved'
    BY <2>1, <2>2 DEF Locked, Saved, CommitFinal
  <2>4. Kept => Kept'
    BY <2>1, <2>2 DEF Kept, Banned
  <2>5. Earned'
    BY <2>1, <2>2, <2>4 DEF Earned, Banned
  <2> QED
    BY <2>3, <2>5, <2>6
<1>31. CASE ForeignRule
  <2>1. /\ UNCHANGED <<binary, service, data, markers, backup, inst, rb, unbanned>>
        /\ kernel' \in Table /\ kernel.nets \subseteq kernel'.nets
    BY <1>31 DEF ForeignRule, Typed, Table, Banned
  <2>2. UNCHANGED <<Current, Baseline, Running>>
    BY <2>1 DEF Current, Baseline, Running
  <2>3. Typed'
    BY <2>1, <2>2 DEF Typed
  <2>6. Locked' /\ Saved'
    BY <2>1, <2>2 DEF Locked, Saved, CommitFinal
  <2>4. Kept => Kept'
    BY <2>1, <2>2 DEF Kept, Banned
  <2>5. Earned'
    BY <2>1, <2>2, <2>4 DEF Earned, Banned
  <2> QED
    BY <2>3, <2>5, <2>6
<1>32. CASE SetPrerouting
  <2>1. /\ UNCHANGED <<binary, service, data, markers, backup, inst, rb, unbanned>>
        /\ kernel' \in Table /\ kernel.nets \subseteq kernel'.nets
    BY <1>32 DEF SetPrerouting, Typed, Table, Banned
  <2>2. UNCHANGED <<Current, Baseline, Running>>
    BY <2>1 DEF Current, Baseline, Running
  <2>3. Typed'
    BY <2>1, <2>2 DEF Typed
  <2>6. Locked' /\ Saved'
    BY <2>1, <2>2 DEF Locked, Saved, CommitFinal
  <2>4. Kept => Kept'
    BY <2>1, <2>2 DEF Kept, Banned
  <2>5. Earned'
    BY <2>1, <2>2, <2>4 DEF Earned, Banned
  <2> QED
    BY <2>3, <2>5, <2>6
<1> QED
  BY <1>1, <1>2, <1>3, <1>4, <1>5, <1>6, <1>7, <1>8, <1>9, <1>10, <1>11, <1>12, <1>13, <1>14, <1>15, <1>16, <1>17, <1>18, <1>19, <1>20, <1>21, <1>22, <1>23, <1>24, <1>25, <1>26, <1>27, <1>28, <1>29, <1>30, <1>31, <1>32
     DEF UpgradeNext, Install, Guardian, Rollback

LEMMA UpgradeStarts ==
  ASSUME UpgradeInit
  PROVE  UpgradeInv
<1>1. PICK bans \in [Subjects -> 0..2], peer \in SUBSET Subjects :
        data = [snap |-> [bans |-> bans, peer |-> peer \cap {s \in Subjects : bans[s] > 0},
                          whitelist |-> {Ssh}, crdt |-> [s \in Subjects |-> "none"],
                          revocations |-> {}],
                wal |-> <<>>, ok |-> TRUE]
  BY DEF UpgradeInit
<1>2. <<>> \in Seq(WalEntry)
  BY SMT
<1>3. data \in Database /\ data.snap \in EffectiveState /\ data.wal = <<>>
  BY <1>1, <1>2, UpgradeAssumption DEF Database, EffectiveState
<1>4. /\ binary = "old" /\ service = "old" /\ markers = {} /\ inst = "preflight"
      /\ backup = [data |-> data, live |-> data.snap, complete |-> FALSE]
      /\ rb = [who |-> "none", pc |-> "off", export |-> data]
      /\ kernel = [nets |-> Banned(data.snap), complete |-> TRUE, duplicates |-> FALSE,
                   foreign |-> FALSE, chains |-> {"input"}]
  BY DEF UpgradeInit
<1>5. Current \in EffectiveState /\ Baseline \in EffectiveState
  BY <1>3, <1>4, MaterializeFacts DEF Current, Baseline
<1>6. Typed
  BY <1>3, <1>4, <1>5 DEF Typed, Table, Steps, Banned
<1>7. Locked
  BY <1>3, <1>4 DEF Locked, Halted, Exported
<1>8. Saved
  BY <1>4 DEF Saved, CommitFinal, Durable
<1>9. Earned
  BY <1>4 DEF Earned, Exported
<1> QED
  BY <1>6, <1>7, <1>8, <1>9 DEF UpgradeInv

\* A verdict is written by two steps only, and each has looked.
LEMMA VerdictStep ==
  ASSUME UpgradeInv, UpgradeNext
  PROVE  /\ "committed" \in markers' \ markers => Kept /\ data.ok /\ service = "new"
         /\ "rolled-back" \in markers' \ markers => Kept /\ data.ok /\ service = "old"
<1>1. CASE commit
  BY <1>1 DEF commit, UpgradeInv, Earned
<1>2. CASE rollback_confirm
  <2>1. /\ rb.pc = "confirm" /\ service = "old" /\ assert_preserved(rb.export.snap, Current)
        /\ assert_coverage(rb.export.snap, kernel) /\ markers' = markers \union {"rolled-back"}
    BY <1>2 DEF rollback_confirm
  <2>2. /\ data.ok /\ Banned(Baseline) \ unbanned \subseteq Banned(rb.export.snap)
    BY <2>1 DEF UpgradeInv, Earned, Exported
  <2>3. rb.export.snap \in EffectiveState /\ Current \in EffectiveState
    BY DEF UpgradeInv, Typed, Database
  <2>4. \A s \in Subjects : rb.export.snap.bans[s] > 0 => Current.bans[s] > 0
    BY <2>1, <2>3, PreservedKept
  <2>5. Kept
    BY <2>1, <2>2, <2>4 DEF Kept, Banned, assert_coverage
  <2> QED
    BY <2>1, <2>2, <2>5
<1>3. CASE mark_ready
  BY <1>3 DEF mark_ready
<1>4. CASE UNCHANGED markers
  BY <1>4
<1>5. commit \/ rollback_confirm \/ mark_ready \/ UNCHANGED markers
  BY DEF UpgradeNext, Install, Guardian, Rollback, preflight, arm_guardian, install_stop, copy_backup,
         replace_binary, start_new, observe, check_persisted, cancel_timer, raise, kill,
         guardian_fires, guardian_stops, guardian_locks, operator_rollback, rollback_check,
         rollback_stop, rollback_export, rollback_inspect, rollback_snapshot, rollback_wal,
         rollback_binary, rollback_firewall, rollback_start, rollback_raise, DaemonLog,
         DaemonEnforce, ForeignRule, SetPrerouting
<1> QED
  BY <1>1, <1>2, <1>3, <1>4, <1>5

LEMMA UpgradeStutters ==
  ASSUME UpgradeInv, UNCHANGED upgrade_vars
  PROVE  UpgradeInv'
<1>1. UNCHANGED <<binary, service, data, kernel, markers, backup, inst, rb, unbanned>>
  BY DEF upgrade_vars
<1>2. UNCHANGED <<Current, Baseline, Running, Kept>>
  BY <1>1 DEF Current, Baseline, Running, Kept
<1>3. Typed'
  BY <1>1, <1>2, ZenonT(60) DEF UpgradeInv, Typed
<1>4. Locked' /\ Saved'
  BY <1>1, <1>2 DEF UpgradeInv, Locked, Saved, CommitFinal
<1>5. Earned'
  BY <1>1, <1>2 DEF UpgradeInv, Earned, Banned
<1> QED
  BY <1>3, <1>4, <1>5 DEF UpgradeInv

\* A first installation makes every path before it enables the unit.
LEMMA FreshStep ==
  ASSUME FreshInv, FreshNext
  PROVE  FreshInv'
<1>1. "unit" \in Paths
  <2>1. 5 \in 1..5 /\ Made[5] = "unit"
    BY SMT DEF Made
  <2> QED
    BY <2>1 DEF Paths
<1>2. CASE fresh_check \/ fresh_recheck \/ fresh_observe
  <2>1. fresh \notin {"observe", "done"} => enabled = FALSE
    BY DEF FreshInv
  <2>2. CASE fresh_check \/ fresh_recheck
    <3>1. fresh \notin {"observe", "done"} /\ fresh' \notin {"observe", "done"} /\ enabled' = enabled
      BY <2>2 DEF fresh_check, fresh_recheck
    <3>2. enabled' = FALSE
      BY <2>1, <3>1
    <3> QED
      BY <3>1, <3>2 DEF FreshInv
  <2>3. CASE fresh_observe
    BY <2>3 DEF FreshInv, fresh_observe
  <2> QED
    BY <1>2, <2>2, <2>3
<1>3. CASE fresh_make
  BY <1>3 DEF FreshInv, fresh_make
<1>4. CASE fresh_enable
  BY <1>4 DEF FreshInv, fresh_enable
<1>5. CASE fresh_raise
  BY <1>1, <1>5 DEF FreshInv, fresh_raise
<1>6. CASE \E p \in Paths : OtherAdmin(p)
  <2>1. UNCHANGED <<fresh, owned, enabled>>
    BY <1>6 DEF OtherAdmin
  <2> QED
    BY <2>1 DEF FreshInv
<1> QED
  BY <1>2, <1>3, <1>4, <1>5, <1>6 DEF FreshNext

\* The executable is replaced only over a durable backup and files are restored only
\* while the service is down; no guardian undoes a committed upgrade; a verdict is
\* written only when every ban survived that no operator removed; and a first
\* installation that finishes made every path itself (upgrade.py, fresh_install.py).
\* For any subjects, any number of bans logged and of faults, and any defect of the
\* new executable, however the installer, the guardian, an operator's rollback and
\* the daemon interleave.
THEOREM UpgradesAreSafe == InstallSpec => UpgradeSafe
<1> DEFINE Inv == UpgradeInv /\ FreshInv
           Step == [/\ "committed" \in markers' \ markers => Kept /\ data.ok /\ service = "new"
                    /\ "rolled-back" \in markers' \ markers
                         => Kept /\ data.ok /\ service = "old"]_upgrade_vars
<1>1. InstallInit => Inv
  <2>1. FreshInit => FreshInv
    BY DEF FreshInit, FreshInv
  <2> QED
    BY <2>1, UpgradeStarts DEF InstallInit
<1>2. Inv /\ [InstallNext]_<<upgrade_vars, fresh_vars>> => Inv' /\ Step
  <2> SUFFICES ASSUME Inv, [InstallNext]_<<upgrade_vars, fresh_vars>> PROVE Inv' /\ Step
    OBVIOUS
  <2>1. CASE UpgradeNext /\ UNCHANGED fresh_vars
    <3>1. FreshInv'
      BY <2>1 DEF fresh_vars, FreshInv
    <3> QED
      BY <2>1, <3>1, UpgradeStep, VerdictStep
  <2>2. CASE FreshNext /\ UNCHANGED upgrade_vars
    BY <2>2, FreshStep, UpgradeStutters
  <2>3. CASE UNCHANGED <<upgrade_vars, fresh_vars>>
    <3>1. FreshInv'
      BY <2>3 DEF fresh_vars, FreshInv
    <3> QED
      BY <2>3, <3>1, UpgradeStutters
  <2> QED
    BY <2>1, <2>2, <2>3 DEF InstallNext
<1>3. Inv => ReplacedWithBackup /\ CommitFinal /\ FreshOwnsAll
  BY DEF UpgradeInv, Saved, Locked, Halted, FreshInv, ReplacedWithBackup, FreshOwnsAll
<1> QED
  BY <1>1, <1>2, <1>3, PTL DEF InstallSpec, UpgradeSafe, VerdictEarned
=============================================================================
