-------------------------- MODULE AlertDispatcher --------------------------
(***************************************************************************)
(* hiveguard-host/src/dispatcher.rs: one task that takes alerts from a     *)
(* bounded channel, offers each to the notifiers that support it, skips    *)
(* those on cooldown, and keeps failed deliveries in a bounded queue.      *)
(* Producers and the passing of time interleave with every delivery.       *)
(* Instants are kept as the time left until them, in units of Tick.        *)
(***************************************************************************)
EXTENDS Naturals, Sequences

CONSTANTS N,                 \* notifiers 1..N, in the order of the vector
          Keys,              \* values of dedup_key
          supports,          \* the pairs <<notifier, key>> with NotifierPlugin::supports
          RETRY_DELAYS,      \* sequence of four delays
          MAX_ATTEMPTS,
          Cooldown,          \* config.cooldown_secs
          queue_depth,
          channel_capacity,
          MaxAlerts          \* bound on the alerts sent

VARIABLES channel,      \* alerts sent and not yet received
          retry_queue,  \* Seq of PendingAlert
          still,        \* still_pending, during process_retry_queue
          at,           \* what the task does: "select", "event", "retry", "stopped"
          event,        \* the alert handle_new_event is at
          idx,          \* the notifier it is at
          cool,         \* notifier, key -> time left of the cooldown (last_sent)
          since,        \* history: notifier, key -> time since the last delivery
          shutdown,     \* the shutdown signal
          alerts,       \* the keys of the alerts sent; an alert is its place here
          fate,         \* history: alert, notifier -> "untold", "unsupported", "suppressed",
                        \* "delivered", "pending", "exhausted" or "evicted"
          tries         \* history: alert, notifier -> number of calls of notify

ASSUME AlertAssumption ==
  /\ N \in Nat /\ MaxAlerts \in Nat /\ MAX_ATTEMPTS \in Nat /\ MAX_ATTEMPTS > 1
  /\ Cooldown \in Nat /\ queue_depth \in Nat /\ channel_capacity \in Nat
  /\ RETRY_DELAYS \in [1..4 -> Nat]

vars == <<channel, retry_queue, still, at, event, idx, cool, since, shutdown, alerts, fate, tries>>

Alert == 1..MaxAlerts
Notifier == 1..N

Init ==
  /\ channel = <<>> /\ retry_queue = <<>> /\ still = <<>>
  /\ at = "select" /\ event = 1 /\ idx = 1
  /\ cool = [n \in Notifier |-> [k \in Keys |-> 0]]
  /\ since = [n \in Notifier |-> [k \in Keys |-> Cooldown]]
  /\ shutdown = FALSE /\ alerts = <<>>
  /\ fate = [a \in Alert |-> [n \in Notifier |-> "untold"]]
  /\ tries = [a \in Alert |-> [n \in Notifier |-> 0]]

-----------------------------------------------------------------------------
(* The environment. *)

\* AlertDispatcherHandle::send: try_send drops the alert when the channel is
\* full or closed.
send(key) ==
  /\ Len(alerts) < MaxAlerts
  /\ alerts' = Append(alerts, key)
  /\ channel' = IF at = "stopped" \/ Len(channel) >= channel_capacity THEN channel
                ELSE Append(channel, Len(alerts) + 1)
  /\ UNCHANGED <<retry_queue, still, at, event, idx, cool, since, shutdown, fate, tries>>

Less(t) == IF t = 0 THEN 0 ELSE t - 1

Tick ==
  /\ retry_queue' = [i \in DOMAIN retry_queue |->
                       [retry_queue[i] EXCEPT !.next_try = Less(@)]]
  /\ still' = [i \in DOMAIN still |-> [still[i] EXCEPT !.next_try = Less(@)]]
  /\ cool' = [n \in Notifier |-> [k \in Keys |-> Less(cool[n][k])]]
  /\ since' = [n \in Notifier |-> [k \in Keys |->
                 IF since[n][k] < Cooldown THEN since[n][k] + 1 ELSE Cooldown]]
  /\ UNCHANGED <<channel, at, event, idx, shutdown, alerts, fate, tries>>

signal_shutdown ==
  /\ shutdown' = TRUE
  /\ UNCHANGED <<channel, retry_queue, still, at, event, idx, cool, since, alerts, fate, tries>>

-----------------------------------------------------------------------------
(* The select of run: biased, shutdown first, then alerts, then retries. *)

stop ==
  /\ at = "select" /\ shutdown
  /\ at' = "stopped"
  /\ UNCHANGED <<channel, retry_queue, still, event, idx, cool, since, shutdown, alerts, fate, tries>>

receive ==
  /\ at = "select" /\ ~shutdown /\ channel # <<>>
  /\ at' = "event" /\ event' = Head(channel) /\ channel' = Tail(channel) /\ idx' = 1
  /\ UNCHANGED <<retry_queue, still, cool, since, shutdown, alerts, fate, tries>>

\* Mutant of retry_due: no timer, retries wait for the next alert.
retry_due_on_alert ==
  /\ at = "select" /\ ~shutdown /\ channel # <<>>
  /\ retry_queue # <<>> /\ Head(retry_queue).next_try = 0
  /\ at' = "retry" /\ still' = <<>>
  /\ retry_queue' = [i \in DOMAIN retry_queue |->
                       [retry_queue[i] EXCEPT !.due = (retry_queue[i].next_try = 0)]]
  /\ UNCHANGED <<channel, event, idx, cool, since, shutdown, alerts, fate, tries>>

\* The sleep is that of the front of the queue.  process_retry_queue reads the
\* time once: what is due is fixed here.
retry_due ==
  /\ at = "select" /\ ~shutdown /\ channel = <<>>
  /\ retry_queue # <<>> /\ Head(retry_queue).next_try = 0
  /\ at' = "retry" /\ still' = <<>>
  /\ retry_queue' = [i \in DOMAIN retry_queue |->
                       [retry_queue[i] EXCEPT !.due = (retry_queue[i].next_try = 0)]]
  /\ UNCHANGED <<channel, event, idx, cool, since, shutdown, alerts, fate, tries>>

-----------------------------------------------------------------------------
on_cooldown(n, key) == cool[n][key] > 0

record(n, key) == cool' = [cool EXCEPT ![n][key] = Cooldown]

Delivered(a, n) ==
  /\ fate' = [fate EXCEPT ![a][n] = "delivered"]
  /\ since' = [since EXCEPT ![n][alerts[a]] = 0]

Tried(a, n) == tries' = [tries EXCEPT ![a][n] = @ + 1]

Becomes(a, n, f) == fate' = [fate EXCEPT ![a][n] = f]

PendingAlert(e, n, attempt, delay) ==
  [event |-> e, notifier_idx |-> n, attempt |-> attempt, next_try |-> delay, due |-> FALSE]

\* handle_new_event, at one notifier.
offer_skipped(f) ==
  /\ at = "event" /\ idx <= N
  /\ f = IF <<idx, alerts[event]>> \notin supports THEN "unsupported"
         ELSE IF on_cooldown(idx, alerts[event]) THEN "suppressed" ELSE "none"
  /\ f # "none"
  /\ Becomes(event, idx, f)
  /\ idx' = idx + 1
  /\ UNCHANGED <<channel, retry_queue, still, at, event, cool, since, shutdown, alerts, tries>>

Offers ==
  at = "event" /\ idx <= N /\ <<idx, alerts[event]>> \in supports /\ ~on_cooldown(idx, alerts[event])

offer_delivered ==
  /\ Offers
  /\ record(idx, alerts[event])
  /\ Tried(event, idx) /\ Delivered(event, idx)
  /\ idx' = idx + 1
  /\ UNCHANGED <<channel, retry_queue, still, at, event, shutdown, alerts>>

\* pop_front takes nothing from an empty queue: with queue_depth 0 one alert waits.
offer_failed ==
  /\ Offers
  /\ LET new  == PendingAlert(event, idx, 1, RETRY_DELAYS[1])
         full == Len(retry_queue) >= queue_depth /\ retry_queue # <<>>
         old  == Head(retry_queue)
     IN  /\ retry_queue' = Append(IF full THEN Tail(retry_queue) ELSE retry_queue, new)
         /\ fate' = [a \in Alert |-> [n \in Notifier |->
                       IF a = event /\ n = idx THEN "pending"
                       ELSE IF full /\ a = old.event /\ n = old.notifier_idx THEN "evicted"
                       ELSE fate[a][n]]]
  /\ Tried(event, idx)
  /\ idx' = idx + 1
  /\ UNCHANGED <<channel, still, at, event, cool, since, shutdown, alerts>>

event_done ==
  /\ at = "event" /\ idx > N
  /\ at' = "select"
  /\ UNCHANGED <<channel, retry_queue, still, event, idx, cool, since, shutdown, alerts, fate, tries>>

-----------------------------------------------------------------------------
(* process_retry_queue, one pending alert at a time. *)

\* The pending alert popped from the front of the queue.
Popped ==
  /\ at = "retry" /\ retry_queue # <<>>
  /\ retry_queue' = Tail(retry_queue)
  /\ UNCHANGED <<channel, at, event, idx, shutdown, alerts>>

retry_not_due ==
  LET p == Head(retry_queue)
  IN
    /\ Popped /\ ~p.due
    /\ still' = Append(still, p)
    /\ UNCHANGED <<cool, since, fate, tries>>

retry_suppressed ==
  LET p == Head(retry_queue)
  IN
    /\ Popped /\ p.due /\ on_cooldown(p.notifier_idx, alerts[p.event])
    /\ Becomes(p.event, p.notifier_idx, "suppressed")
    /\ UNCHANGED <<still, cool, since, tries>>

\* Mutant of Retries: the cooldown is not looked at again.
Retries_any(p) == Popped /\ p.due

Retries(p) == Popped /\ p.due /\ ~on_cooldown(p.notifier_idx, alerts[p.event])

retry_delivered ==
  LET p == Head(retry_queue)
  IN
    /\ Retries(p)
    /\ record(p.notifier_idx, alerts[p.event])
    /\ Tried(p.event, p.notifier_idx) /\ Delivered(p.event, p.notifier_idx)
    /\ UNCHANGED still

\* RETRY_DELAYS[next_attempt] is the entry next_attempt + 1 of the sequence.
retry_failed ==
  LET p == Head(retry_queue)
  IN
    /\ Retries(p)
    /\ LET next == p.attempt + 1
           last == next >= MAX_ATTEMPTS
           delay == IF next + 1 \in DOMAIN RETRY_DELAYS THEN RETRY_DELAYS[next + 1] ELSE RETRY_DELAYS[4]
       IN  /\ still' = IF last THEN still
                       ELSE Append(still, PendingAlert(p.event, p.notifier_idx, next, delay))
           /\ Becomes(p.event, p.notifier_idx, IF last THEN "exhausted" ELSE "pending")
    /\ Tried(p.event, p.notifier_idx)
    /\ UNCHANGED <<cool, since>>

retry_done ==
  /\ at = "retry" /\ retry_queue = <<>>
  /\ at' = "select" /\ retry_queue' = still /\ still' = <<>>
  /\ UNCHANGED <<channel, event, idx, cool, since, shutdown, alerts, fate, tries>>

Dispatch ==
  \/ stop \/ receive \/ retry_due
  \/ \E f \in {"unsupported", "suppressed"} : offer_skipped(f)
  \/ offer_delivered \/ offer_failed \/ event_done
  \/ retry_not_due \/ retry_suppressed \/ retry_delivered \/ retry_failed \/ retry_done

Next == Dispatch \/ Tick \/ signal_shutdown \/ \E k \in Keys : send(k)

\* The task is scheduled, every call of a notifier returns, and time passes.
Spec == Init /\ [][Next]_vars /\ WF_vars(Dispatch) /\ WF_vars(Tick)

-----------------------------------------------------------------------------
\* "Has not received the same dedup_key() within the cooldown window"
\* (dispatcher.rs:6): whichever of a new alert and a retry gets through first,
\* the other is not delivered to the same notifier before the window is over.
OncePerWindow ==
  [][\A a \in Alert, n \in Notifier :
       fate[a][n] # "delivered" /\ fate'[a][n] = "delivered"
         => since[n][alerts[a]] = Cooldown]_vars

\* No alert is lost without a trace: for every notifier it was offered to, an
\* alert is waiting in the queue exactly as long as it was neither delivered,
\* suppressed, exhausted nor evicted, and it waits there once.
EveryAlertAccounted ==
  \A a \in Alert, n \in Notifier :
    LET mine == {i \in 1..(Len(retry_queue) + Len(still)) :
                   LET p == (retry_queue \o still)[i] IN p.event = a /\ p.notifier_idx = n}
    IN  IF fate[a][n] = "pending" THEN \E i \in mine : mine = {i} ELSE mine = {}

\* "bounded retry queue": at most queue_depth alerts wait, those that
\* process_retry_queue has set aside included (one alert if queue_depth is 0).
QueueBounded ==
  Len(retry_queue) + Len(still) <= IF queue_depth = 0 THEN 1 ELSE queue_depth

\* "4 attempts max": no notifier is called more often for one alert.
AttemptsBounded ==
  \A a \in Alert, n \in Notifier : tries[a][n] <= MAX_ATTEMPTS

\* The dispatcher's promises together: no alert is lost without a trace, the
\* retry queue and the number of attempts are bounded, and handle_new_event and
\* process_retry_queue tell nobody twice within a window.
AlertsAccounted ==
  [](QueueBounded /\ AttemptsBounded /\ EveryAlertAccounted) /\ OncePerWindow

\* Every failed delivery is settled: the alert is delivered, suppressed,
\* exhausted or evicted, unless the dispatcher stops.
EventuallySettled ==
  \A a \in Alert, n \in Notifier :
    fate[a][n] = "pending" ~> (fate[a][n] # "pending" \/ at = "stopped")
=============================================================================
