----------------------------- MODULE QueueSources -----------------------------
(***************************************************************************)
(* The consumers of hiveguard-queue: Kafka, RabbitMQ, NATS JetStream,      *)
(* Kinesis and CloudWatch, with the plugins that start them.  They differ  *)
(* in what the other side remembers (an offset, acknowledged messages, a   *)
(* position the daemon keeps in a file) and in what they do when a send or *)
(* a request fails.  A lane is a shard of Kinesis or a log group of        *)
(* CloudWatch, with a task of its own; the others have one task.           *)
(***************************************************************************)
EXTENDS Integers, Sequences, FiniteSets, Functions

CONSTANTS Kinds,                 \* the consumers to consider
          MaxLanes,              \* shards or log groups
          MaxMessages,           \* messages on all lanes (bound)
          MaxOthers,             \* ... and on each lane but the first (bound)
          MaxTime,               \* timestamps of CloudWatch (bound)
          batch_size,            \* max_messages, limit
          Capacity,              \* of the event channel
          backpressure_threshold,
          StartPositions,        \* of Kinesis
          MaxFaults              \* failures, kills and stops (bound)

ASSUME QueueAssumption ==
  /\ Kinds \subseteq {"kafka", "rabbitmq", "jetstream", "kinesis", "cloudwatch"}
  /\ MaxLanes \in Nat \ {0} /\ batch_size \in Nat \ {0} /\ MaxTime \in Nat

VARIABLES
  kind, start_position,
  log,         \* lane -> what was published: its body and its timestamp
  acked,       \* RabbitMQ, JetStream: the messages the broker has done with
  out,         \* ... and those it has given to the consumer
  saved,       \* lane -> the broker's offset, or the position in the checkpoint file
  cp,          \* lane -> the checkpoint in memory
  task,        \* lane -> the consumer task
  used, closed,        \* the event channel
  stopping, up, faults,
  forwarded, excused, refused  \* history

event_channel == <<used, closed>>
process == <<stopping, up>>
history == <<forwarded, excused, refused>>
queue_vars == <<kind, start_position, log, acked, out, saved, cp, task, used, closed,
                stopping, up, faults, forwarded, excused, refused>>

Polling == {"kinesis", "cloudwatch"}
Lane == IF kind \in Polling THEN 1 .. MaxLanes ELSE {1}
All == 1 .. MaxLanes
Msgs(l) == 1 .. Len(log[l])
Published == FoldFunctionOnSet(LAMBDA q, n : Len(q) + n, 0, log, All)

\* "line" parses to an event; "noise" does not; "binary" is not UTF-8.  The message
\* is done with all the same, but Kinesis takes no sequence number from "binary".
\* CloudWatch takes the timestamp of an event whatever its text is.
Body == CASE kind = "kinesis" -> {"line", "binary"}
          [] kind = "cloudwatch" -> {"line"}
          [] OTHER -> {"line", "noise"}

\* pos: the last message read (Kafka, Kinesis); seen: those returned in this poll
\* (CloudWatch), the last page being the one without a token.
NewTask == [at |-> "start", batch |-> <<>>, pos |-> 0, seen |-> {}, last |-> FALSE]

QueueInit ==
  /\ kind \in Kinds /\ start_position \in StartPositions
  /\ kind # "kinesis" => start_position = "TrimHorizon"
  /\ log = [l \in All |-> <<>>] /\ acked = {} /\ out = {}
  /\ saved = [l \in All |-> 0] /\ cp = saved
  /\ task = [l \in All |-> NewTask]
  /\ used = 0 /\ closed = FALSE /\ stopping = FALSE /\ up = TRUE /\ faults = 0
  /\ forwarded = {} /\ excused = {} /\ refused = {}

Fault == faults < MaxFaults /\ faults' = faults + 1
Ready(l, where) == up /\ l \in Lane /\ task[l].at = where
Goto(l, where) == task' = [task EXCEPT ![l].at = where]
Const == UNCHANGED <<kind, start_position, log>>
Same == Const /\ UNCHANGED <<event_channel, process>>

-----------------------------------------------------------------------------
(* Producers, the pipeline at the other end of the channel, the process. *)

publish(l, b, t) ==
  /\ l \in Lane /\ Published < MaxMessages /\ (l = 1 \/ Len(log[l]) < MaxOthers)
  /\ t \in (IF kind = "cloudwatch" THEN 1 .. MaxTime ELSE {0})
  /\ log' = [log EXCEPT ![l] = Append(@, [body |-> b, ts |-> t])]
  \* an event older than what was read already is never asked for
  /\ excused' = IF kind = "cloudwatch" /\ t <= cp[l]
                THEN excused \cup {<<l, Len(log[l]) + 1>>} ELSE excused
  /\ UNCHANGED <<kind, start_position, acked, out, saved, cp, task, event_channel, process,
                 faults, forwarded, refused>>

take_event ==
  /\ used > 0 /\ used' = used - 1
  /\ Const /\ UNCHANGED <<acked, out, saved, cp, task, closed, process, faults, history>>

\* The receiver is dropped: its permits are returned.
close_channel ==
  /\ up /\ ~closed /\ Fault
  /\ closed' = TRUE /\ used' = 0
  /\ Const /\ UNCHANGED <<acked, out, saved, cp, task, process, history>>

signal_stop ==
  /\ up /\ ~stopping /\ Fault /\ stopping' = TRUE
  /\ Const /\ UNCHANGED <<acked, out, saved, cp, task, event_channel, up, history>>

\* The process ends: connections drop, unacknowledged messages go back.
End ==
  /\ up /\ up' = FALSE /\ task' = [l \in All |-> NewTask]
  /\ out' = {} /\ used' = 0 /\ closed' = FALSE /\ stopping' = FALSE
  /\ Const /\ UNCHANGED <<acked, saved, cp, history>>

kill == Fault /\ End
exit == stopping /\ (\A l \in Lane : task[l].at \in {"stopped", "dead"}) /\ UNCHANGED faults /\ End

\* KinesisCheckpoints::load, CloudWatchCheckpoints::load
restart ==
  /\ ~up /\ up' = TRUE /\ cp' = saved
  /\ Const /\ UNCHANGED <<acked, out, saved, task, event_channel, stopping, faults, history>>

-----------------------------------------------------------------------------
(* start, and the beginning of the task it spawns. *)

\* Where the task begins to read.  Without a position of its own Kafka begins with
\* the earliest message ("auto.offset.reset"), Kinesis as configured.
Begin(l) ==
  IF kind = "kinesis" /\ cp[l] = 0 /\ start_position = "Latest" THEN Len(log[l])
  ELSE IF kind = "kinesis" THEN cp[l] ELSE saved[l]

start_source(l) ==
  /\ Ready(l, "start") /\ ~stopping
  /\ task' = [task EXCEPT ![l] = [NewTask EXCEPT !.at = "idle", !.pos = Begin(l)]]
  /\ excused' = IF kind = "kinesis" /\ cp[l] = 0
                THEN excused \cup {<<l, i>> : i \in 1 .. Begin(l)} ELSE excused
  /\ UNCHANGED <<acked, out, saved, cp, faults, forwarded, refused>> /\ Same

\* The connection, or the first shard iterator, fails inside the spawned task: the
\* task ends and nobody looks at it.  (An error of `start` itself is retried by
\* the supervisor: no step.)
start_failed(l) ==
  /\ Ready(l, "start") /\ ~stopping /\ kind \in {"rabbitmq", "jetstream", "kinesis"} /\ Fault
  /\ Goto(l, "dead")
  /\ UNCHANGED <<acked, out, saved, cp, history>> /\ Same

start_stopped(l) ==
  /\ Ready(l, "start") /\ stopping /\ Goto(l, "stopped")
  /\ UNCHANGED <<acked, out, saved, cp, faults, history>> /\ Same

\* Every loop looks at the stop signal when it is about to wait or to ask again;
\* JetStream also between two messages.
stop_task(l) ==
  /\ stopping
  /\ Ready(l, "idle") \/ (Ready(l, "send") /\ kind = "jetstream")
  /\ task' = [task EXCEPT ![l].at = "stopped", ![l].batch = <<>>]
  /\ out' = {}
  /\ UNCHANGED <<acked, saved, cp, faults, history>> /\ Same

-----------------------------------------------------------------------------
(* Reading. *)

Take(S, n) == {i \in S : Cardinality({j \in S : j < i}) < n}
InOrder(S) == [k \in 1 .. Cardinality(S) |-> CHOOSE i \in S : Cardinality({j \in S : j < i}) = k - 1]

\* Kafka: consumer.recv
recv(l) ==
  /\ kind = "kafka" /\ Ready(l, "idle") /\ task[l].pos < Len(log[l])
  /\ task' = [task EXCEPT ![l].at = "send", ![l].batch = <<task[l].pos + 1>>, ![l].pos = @ + 1]
  /\ UNCHANGED <<acked, out, saved, cp, faults, history>> /\ Same

\* The group is rebalanced: reading goes on from the committed offset.
rebalance(l) ==
  /\ kind = "kafka" /\ up /\ l \in Lane /\ task[l].at \in {"idle", "send", "ack"} /\ Fault
  /\ task' = [task EXCEPT ![l].pos = saved[l]]
  /\ UNCHANGED <<acked, out, saved, cp, history>> /\ Same

recv_error_ends(l) ==
  /\ kind \in {"kafka", "jetstream"} /\ Ready(l, "idle") /\ Fault
  /\ Goto(l, "dead")
  /\ UNCHANGED <<acked, out, saved, cp, history>> /\ Same

\* A failed recv or fetch is logged and tried again.
recv_error(l) ==
  /\ kind \in {"kafka", "jetstream"} /\ Ready(l, "idle") /\ Fault
  /\ UNCHANGED <<acked, out, saved, cp, task, history>> /\ Same

\* RabbitMQ: the broker has given out up to prefetch_count messages; the loop takes
\* one of them.
next_delivery(l) ==
  /\ kind = "rabbitmq" /\ Ready(l, "idle")
  /\ \E i \in Msgs(l) \ (acked \cup out) :
       /\ out' = out \cup {i}
       /\ task' = [task EXCEPT ![l].at = "send", ![l].batch = <<i>>]
  /\ UNCHANGED <<acked, saved, cp, faults, history>> /\ Same

\* RabbitMQ: a delivery error or the end of the stream ends the loop.
delivery_error(l) ==
  /\ kind = "rabbitmq" /\ Ready(l, "idle") /\ Fault
  /\ Goto(l, "dead") /\ out' = {}
  /\ UNCHANGED <<acked, saved, cp, history>> /\ Same

\* JetStream: fetch, smaller when the channel is nearly full.
fetch(l) ==
  /\ kind = "jetstream" /\ Ready(l, "idle")
  /\ LET n == IF Capacity - used < Capacity \div 5 THEN 1 ELSE batch_size
         S == Take(Msgs(l) \ (acked \cup out), n)
     IN  /\ S # {}
         /\ task' = [task EXCEPT ![l].at = "send", ![l].batch = InOrder(S)]
         /\ out' = out \cup S
  /\ UNCHANGED <<acked, saved, cp, faults, history>> /\ Same

\* JetStream: the server gives up waiting for an acknowledgement.
ack_wait_over(i) ==
  /\ kind = "jetstream" /\ i \in out
  /\ \/ task[1].batch = <<>> /\ UNCHANGED faults
     \/ task[1].batch # <<>> /\ Fault
  /\ out' = out \ {i}
  /\ UNCHANGED <<acked, saved, cp, task, history>> /\ Same

\* Kinesis: GetRecords
get_records(l) ==
  /\ kind = "kinesis" /\ Ready(l, "idle")
  /\ LET S == Take({i \in Msgs(l) : i > task[l].pos}, batch_size)
     IN  /\ S # {}
         /\ task' = [task EXCEPT ![l].at = "send", ![l].batch = InOrder(S),
                                 ![l].pos = @ + Cardinality(S)]
  /\ UNCHANGED <<acked, out, saved, cp, faults, history>> /\ Same

\* Kinesis: GetRecords fails and re_acquire_iterator goes back to the checkpoint, or
\* to the oldest record.
re_acquire_iterator(l) ==
  /\ kind = "kinesis" /\ Ready(l, "idle") /\ Fault
  /\ task' = [task EXCEPT ![l].pos = cp[l]]
  /\ UNCHANGED <<acked, out, saved, cp, history>> /\ Same

\* Kinesis: that fails too; without an iterator the shard counts as sealed.
re_acquire_failed(l) ==
  /\ kind = "kinesis" /\ Ready(l, "idle") /\ Fault
  /\ Goto(l, "dead")
  /\ UNCHANGED <<acked, out, saved, cp, history>> /\ Same

\* CloudWatch: the start of a poll, "last processed event's timestamp + 1 ms".
start_time(l) == IF cp[l] = 0 THEN 0 ELSE cp[l] + 1

Before(l, i, j) == \/ log[l][i].ts < log[l][j].ts
                   \/ log[l][i].ts = log[l][j].ts /\ i < j
Page(l) ==
  LET S == {i \in Msgs(l) : log[l][i].ts >= start_time(l) /\ \A j \in task[l].seen : Before(l, j, i)}
  IN  [first |-> {i \in S : Cardinality({j \in S : Before(l, j, i)}) < batch_size},
       last |-> Cardinality(S) <= batch_size]
ByTime(l, S) ==
  [k \in 1 .. Cardinality(S) |-> CHOOSE i \in S : Cardinality({j \in S : Before(l, j, i)}) = k - 1]

\* CloudWatch: FilterLogEvents, the first page or the next one.
filter_log_events(l) ==
  /\ kind = "cloudwatch" /\ (Ready(l, "idle") \/ Ready(l, "page"))
  /\ Page(l).first # {} \/ task[l].at = "page"
  /\ task' = [task EXCEPT ![l].at = "send", ![l].batch = ByTime(l, Page(l).first),
                          ![l].last = Page(l).last]
  /\ UNCHANGED <<acked, out, saved, cp, faults, history>> /\ Same

\* CloudWatch: a request fails; what the poll has seen is forgotten.
poll_error(l) ==
  /\ kind = "cloudwatch" /\ (Ready(l, "idle") \/ Ready(l, "page")) /\ Fault
  /\ task' = [task EXCEPT ![l].at = "idle", ![l].seen = {}]
  /\ UNCHANGED <<acked, out, saved, cp, history>> /\ Same

-----------------------------------------------------------------------------
(* Processing a message: parse, send, acknowledge. *)

Current(l) == Head(task[l].batch)
IsLine(l) == log[l][Current(l)].body = "line"
HasCurrent(l) == Ready(l, "send") /\ task[l].batch # <<>>

\* The state after the message: Kafka, RabbitMQ and JetStream settle it at once,
\* the pollers go on with the batch.
Handled(l) ==
  IF kind \in Polling
  THEN [task EXCEPT ![l].batch = Tail(@), ![l].seen = @ \cup {Current(l)}]
  ELSE [task EXCEPT ![l].at = "ack"]

\* Only Kafka and JetStream look at the room that is left: for the others a full
\* channel is a send that has not happened yet.
Counts == kind \in {"kafka", "jetstream"}

\* Kafka waits until the channel has room enough; every send waits for a place.
forward(l) ==
  /\ HasCurrent(l) /\ IsLine(l) /\ ~closed
  /\ Capacity - used >= (IF kind = "kafka" THEN backpressure_threshold ELSE 1)
  /\ used' = IF Counts THEN used + 1 ELSE used
  /\ forwarded' = forwarded \cup {<<l, Current(l)>>}
  /\ task' = Handled(l)
  /\ Const /\ UNCHANGED <<acked, out, saved, cp, closed, process, faults, excused, refused>>

\* Nothing to send.  RabbitMQ rejects what is not UTF-8 without putting it back.
ignore(l) ==
  /\ HasCurrent(l) /\ ~IsLine(l)
  /\ (kind = "kafka" => Capacity - used >= backpressure_threshold)
  /\ task' = Handled(l)
  /\ UNCHANGED <<acked, out, saved, cp, faults, history>> /\ Same

\* The pipeline is gone.  Kafka and Kinesis end without a commit, RabbitMQ puts
\* the message back.
refused_end(l) ==
  /\ kind \in {"kafka", "rabbitmq", "kinesis"}
  /\ HasCurrent(l) /\ IsLine(l) /\ closed
  /\ task' = [task EXCEPT ![l].at = "dead", ![l].batch = <<>>]
  /\ out' = {}
  /\ UNCHANGED <<acked, saved, cp, faults, history>> /\ Same

\* JetStream: process_message only logs it, and the message is acknowledged.
refused_ack(l) ==
  /\ kind = "jetstream" /\ HasCurrent(l) /\ IsLine(l) /\ closed
  /\ task' = Handled(l) /\ refused' = refused \cup {<<l, Current(l)>>}
  /\ UNCHANGED <<acked, out, saved, cp, faults, forwarded, excused>> /\ Same

\* CloudWatch: poll_log_group returns the timestamp of the event it could not send.
refused_poll(l) ==
  /\ kind = "cloudwatch" /\ HasCurrent(l) /\ IsLine(l) /\ closed
  /\ task' = [task EXCEPT ![l].batch = <<>>, ![l].last = TRUE, ![l].seen = @ \cup {Current(l)}]
  /\ refused' = refused \cup {<<l, Current(l)>>}
  /\ UNCHANGED <<acked, out, saved, cp, faults, forwarded, excused>> /\ Same

\* Kafka: commit_message, sent without waiting: it takes effect or is lost.
commit_message(l) ==
  /\ kind = "kafka" /\ Ready(l, "ack")
  /\ saved' \in {saved, [saved EXCEPT ![l] = Current(l)]}
  /\ task' = [task EXCEPT ![l].at = "idle", ![l].batch = <<>>]
  /\ UNCHANGED <<acked, out, cp, faults, history>> /\ Same

\* RabbitMQ and JetStream: the acknowledgement arrives, or fails and is only logged;
\* the message is then given out again, by RabbitMQ when the connection ends.
ack(l) ==
  /\ kind \in {"rabbitmq", "jetstream"} /\ Ready(l, "ack")
  /\ \/ acked' = acked \cup {Current(l)} /\ out' = out \ {Current(l)} /\ UNCHANGED faults
     \/ Fault /\ UNCHANGED <<acked, out>>
  /\ task' = [task EXCEPT ![l].batch = Tail(@),
                          ![l].at = IF Len(task[l].batch) = 1 THEN "idle" ELSE "send"]
  /\ UNCHANGED <<saved, cp, history>> /\ Same

-----------------------------------------------------------------------------
(* The checkpoint of a batch. *)

save_own_lane(l, p) == saved' = [k \in All |-> IF k = l THEN p ELSE 0] /\ UNCHANGED faults

\* atomic_write_json of the whole map, or an error that is only logged.
save(l, p) ==
  \/ saved' = [cp EXCEPT ![l] = p] /\ UNCHANGED faults
  \/ Fault /\ UNCHANGED saved

\* Kinesis: the sequence number of the last record that is UTF-8.
last_seq_saved(l) ==
  LET S == {i \in task[l].seen : log[l][i].body # "binary"}
  IN  /\ cp' = IF S = {} THEN cp ELSE [cp EXCEPT ![l] = CHOOSE i \in S : \A j \in S : j <= i]
      /\ IF S = {} THEN UNCHANGED <<saved, faults>>
         ELSE save(l, cp'[l])

records_done(l) ==
  /\ kind = "kinesis" /\ Ready(l, "send") /\ task[l].batch = <<>>
  /\ last_seq_saved(l)
  /\ task' = [task EXCEPT ![l].at = "idle", ![l].seen = {}]
  /\ Same /\ UNCHANGED <<acked, out, history>>

\* CloudWatch: more pages, or the end of the poll.
page_done(l) ==
  /\ kind = "cloudwatch" /\ Ready(l, "send") /\ task[l].batch = <<>> /\ ~task[l].last
  /\ Goto(l, "page")
  /\ Same /\ UNCHANGED <<acked, out, saved, cp, faults, history>>

max_timestamp(l) ==
  LET S == {log[l][i].ts : i \in task[l].seen} IN CHOOSE t \in S : \A s \in S : s <= t

poll_done(l) ==
  /\ kind = "cloudwatch" /\ Ready(l, "send") /\ task[l].batch = <<>> /\ task[l].last
  /\ task' = [task EXCEPT ![l].at = "idle", ![l].seen = {}]
  /\ cp' = [cp EXCEPT ![l] = max_timestamp(l)]
  /\ save(l, max_timestamp(l))
  \* what arrived behind the reading point is not asked for again
  /\ excused' = excused \cup
       {<<l, i>> : i \in {j \in Msgs(l) \ task[l].seen : log[l][j].ts <= max_timestamp(l)}}
  /\ Same /\ UNCHANGED <<acked, out, forwarded, refused>>

-----------------------------------------------------------------------------
Consumer(l) ==
  \/ start_source(l) \/ start_stopped(l) \/ stop_task(l)
  \/ recv(l) \/ next_delivery(l) \/ fetch(l) \/ get_records(l) \/ filter_log_events(l)
  \/ forward(l) \/ ignore(l) \/ refused_end(l) \/ refused_ack(l) \/ refused_poll(l)
  \/ commit_message(l) \/ ack(l) \/ records_done(l) \/ page_done(l) \/ poll_done(l)

Trouble(l) ==
  \/ start_failed(l) \/ rebalance(l) \/ recv_error(l) \/ delivery_error(l)
  \/ re_acquire_iterator(l) \/ re_acquire_failed(l) \/ poll_error(l)

QueueNext ==
  \/ \E l \in All, b \in Body, t \in 0 .. MaxTime : publish(l, b, t)
  \/ \E l \in All : Consumer(l) \/ Trouble(l)
  \/ \E i \in 1 .. MaxMessages : ack_wait_over(i)
  \/ take_event \/ close_channel \/ signal_stop \/ kill \/ exit \/ restart

\* Tasks are scheduled, requests that do not fail are answered, the pipeline takes
\* events, an unacknowledged message is given out again, the daemon is restarted.
QueueFairness ==
  /\ \A l \in All : WF_queue_vars(Consumer(l))
  /\ \A i \in 1 .. MaxMessages : WF_queue_vars(ack_wait_over(i))
  /\ WF_queue_vars(take_event) /\ WF_queue_vars(exit) /\ WF_queue_vars(restart)

QueueSpec == QueueInit /\ [][QueueNext]_queue_vars /\ QueueFairness

-----------------------------------------------------------------------------
\* The messages a new session will not be given again.
Settled(l) ==
  CASE kind \in {"kafka", "kinesis"} -> 1 .. saved[l]
    [] kind \in {"rabbitmq", "jetstream"} -> acked
    [] kind = "cloudwatch" -> {i \in Msgs(l) : saved[l] > 0 /\ log[l][i].ts <= saved[l]}
Lines(l) == {i \in Msgs(l) : log[l][i].body = "line"}
Forwarded(l) == {i \in Msgs(l) : <<l, i>> \in forwarded \cup excused}
Refused(l) == {i \in Msgs(l) : <<l, i>> \in refused}

\* At-least-once (kafka.rs:6, rabbitmq.rs:6, nats.rs:9): whatever crashes, lost
\* commits, rebalances and errors happen, a message that will not be given again
\* was sent to the pipeline, except that JetStream and CloudWatch also give up
\* those that were refused because the pipeline had ended.
AtLeastOnce ==
  \A l \in Lane : Settled(l) \cap Lines(l) \subseteq Forwarded(l) \cup Refused(l)

\* "a daemon restart does not re-process already-seen records" (checkpoint.rs:4):
\* what is about to be sent is not settled; Kafka may repeat after a rebalance.
NotReprocessed ==
  \A l \in Lane : kind # "kafka" /\ task[l].at = "send" /\ task[l].batch # <<>> =>
    Current(l) \notin Settled(l)

\* The tasks of all shards or log groups share one checkpoint file: no task takes
\* back the position of another one, or its own.
CheckpointsAdvance ==
  [][(kind \in Polling) => \A l \in All : saved'[l] >= saved[l]]_queue_vars

\* Together: what will not be given again was sent to the pipeline, what is sent is
\* not settled, and no task takes back a position in the shared checkpoint file.
QueueFaithful == [](AtLeastOnce /\ NotReprocessed) /\ CheckpointsAdvance

\* A consumer that was not stopped forwards everything, whatever requests failed;
\* RabbitMQ, JetStream and Kinesis only if their task has not ended.
QueueCaughtUp ==
  <>[](\A l \in Lane :
         \/ Lines(l) \subseteq Forwarded(l) \cup Refused(l)
         \/ stopping \/ closed
         \/ task[l].at = "dead" /\ kind \in {"rabbitmq", "jetstream", "kinesis"})
=============================================================================
