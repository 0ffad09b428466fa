----------------------------- MODULE MCSources -----------------------------
(***************************************************************************)
(* The sources of log lines.  The file source: lines of two bytes, chunks  *)
(* that end in the middle of one, and a backlog of more than two lines     *)
(* skipped.  The five queue consumers: two lanes, three messages in all,   *)
(* of which the second lane has at most one, and two failures.  A          *)
(* behaviour runs the source named by part.                                *)
(***************************************************************************)
EXTENDS QueueSources, TLC

VARIABLES part,
  seek_to_end, file, exists, file_saved, offset, at, batch, shutdown, file_closed,
  rotations, file_faults, delivered, file_excused, old, stale, missed, garbled,
  sent                                                                  \* FileSource

FS == INSTANCE FileSource
        WITH saved <- file_saved, closed <- file_closed, faults <- file_faults,
             excused <- file_excused,
             L <- 2, max_chunk_bytes <- 3, max_lag_bytes <- 4, SeekModes <- BOOLEAN,
             MaxLines <- 3, MaxRotations <- 1, MaxFaults <- 1

fs_vars == <<seek_to_end, file, exists, file_saved, offset, at, batch, shutdown, file_closed,
             rotations, file_faults, delivered, file_excused, old, stale, missed, garbled, sent>>
vars == <<part, fs_vars, queue_vars>>

Tailing == part = "file"
Consuming == part = "queue"

Init ==
  /\ part \in {"file", "queue"}
  /\ FS!Init /\ QueueInit
  /\ Tailing => kind = "kafka"
  /\ Consuming => seek_to_end

Next ==
  /\ UNCHANGED part
  /\ IF Tailing THEN FS!Next ELSE UNCHANGED fs_vars
  /\ IF Consuming THEN QueueNext ELSE UNCHANGED queue_vars

\* the fairness of FileSource and of QueueSources
Fairness ==
  /\ WF_fs_vars(Tailing /\ FS!Source) /\ SF_fs_vars(Tailing /\ FS!stop)
  /\ WF_fs_vars(Tailing /\ FS!run_failed) /\ WF_fs_vars(Tailing /\ FS!restart)
  /\ WF_fs_vars(Tailing /\ FS!create)
  /\ \A l \in 1..2 : WF_queue_vars(Consuming /\ Consumer(l))
  /\ \A i \in 1..3 : WF_queue_vars(Consuming /\ ack_wait_over(i))
  /\ WF_queue_vars(Consuming /\ take_event) /\ WF_queue_vars(Consuming /\ exit)
  /\ WF_queue_vars(Consuming /\ restart)

Spec == Init /\ [][Next]_vars /\ Fairness

-----------------------------------------------------------------------------
\* The conjuncts are stated and explained in FileSource and QueueSources.

(* file: every whole line before the offset was delivered or accounted for, *)
(* the offset on disk covers delivered lines only, no line is delivered     *)
(* twice while a run lasts and the parser sees whole lines.                 *)
FileFaithful ==
  FS!NothingSkipped /\ FS!SavedIsDelivered /\ FS!NoRedelivery /\ FS!WholeRecords

(* A source that was not stopped delivers everything in the end.            *)
CaughtUp == FS!CaughtUp /\ QueueCaughtUp
=============================================================================
