----------------------------- MODULE FileSource -----------------------------
(***************************************************************************)
(* plugins/source-file: a task that tails a log file, delivers its lines   *)
(* to the pipeline and keeps its offset on disk, under the supervisor of   *)
(* daemon/plugin_supervisor.rs.  The file is written byte by byte, rotated *)
(* and truncated by others; the process may be killed.                     *)
(*                                                                         *)
(* Lines are numbered in the order they are written and are L bytes long,  *)
(* the last of which is the newline.  A file is the number of its first    *)
(* line and its length.  Every line parses to one event.                   *)
(***************************************************************************)
EXTENDS Integers, FiniteSets

CONSTANTS L,               \* bytes of a line
          max_chunk_bytes, max_lag_bytes,
          SeekModes,       \* the settings of seek_to_end to consider
          MaxLines,        \* bound on the lines written
          MaxRotations,    \* bound on renames and truncations of the file
          MaxFaults        \* bound on kills and on checkpoints that fail

Lines == 1..MaxLines

VARIABLES
  seek_to_end,
  file,       \* [first, len]: the file now at the path
  exists,     \* there is a file at the path
  saved,      \* the number in the .offset file; 0 if there is none to parse
  offset,     \* FileWatcher::offset
  at,         \* "dead", "run" (supervisor loop), "backoff", "wait" (the select of
              \* run_file_source), "send" (a batch), "more" (read again), "stopped"
  batch,      \* [start: offset before the batch, from: its first line, next: next line to send,
              \*  left: lines to send, part: the next one is a fragment, more,
              \*  turned: the read found a shorter file]
  shutdown,   \* the CancellationToken
  closed,     \* the pipeline has closed the channel
  rotations, faults,
  delivered,  \* history: the lines sent to the pipeline
  excused,    \* history: lines skipped on purpose: at a first start, or for lag
  old,        \* history: why the offset is not about the file at the path: it was
              \* "replaced" since, or the offset was "rewound" to before a rotation
              \* the source had noticed; "no" if it is about that file
  stale,      \* history: the same of the saved offset
  missed,     \* history: lines of a new file taken for lines of the old one
  garbled,    \* history: the parser was given a part of a line
  sent        \* history: lines sent since `run` started and not taken back

disk == <<file, exists>>
control == <<at, batch, shutdown, closed>>
history == <<delivered, excused, old, stale, missed, garbled, sent>>
vars == <<seek_to_end, disk, saved, offset, control, rotations, faults, history>>

NoBatch == [start |-> 0, from |-> 0, next |-> 0, left |-> 0, part |-> FALSE, more |-> FALSE,
            turned |-> FALSE]

\* The lines that end within bytes a+1..b of the file, and the number of the
\* next one the writers will begin.
LinesIn(f, a, b) == {f.first + k : k \in (a \div L) .. ((b \div L) - 1)}
NextLine == file.first + ((file.len + L - 1) \div L)

Most(a, b) == IF a > b THEN a ELSE b

Init ==
  /\ file = [first |-> 1, len |-> 0] /\ exists = TRUE
  /\ saved = 0 /\ offset = 0 /\ at = "run" /\ batch = NoBatch
  /\ shutdown = FALSE /\ closed = FALSE /\ rotations = 0 /\ faults = 0
  /\ delivered = {} /\ excused = {} /\ old = "no" /\ stale = "no"
  /\ missed = {} /\ garbled = FALSE /\ sent = {} /\ seek_to_end \in SeekModes

-----------------------------------------------------------------------------
(* The writers and logrotate. *)

write_byte ==
  /\ exists
  /\ (file.len % L = 0) => NextLine <= MaxLines
  /\ file' = [file EXCEPT !.len = @ + 1]
  /\ UNCHANGED <<seek_to_end, exists, saved, offset, control, rotations, faults, history>>

\* The file at the path is another one from here on.
Replace ==
  /\ rotations < MaxRotations /\ rotations' = rotations + 1
  /\ file' = [first |-> NextLine, len |-> 0]
  /\ old' = "replaced" /\ stale' = "replaced"
  /\ UNCHANGED <<seek_to_end, saved, offset, control, faults, delivered, excused, missed, garbled, sent>>

rename == exists /\ exists' = FALSE /\ Replace

create ==
  /\ ~exists /\ exists' = TRUE
  /\ UNCHANGED <<seek_to_end, file, saved, offset, control, rotations, faults, history>>

copytruncate == exists /\ Replace /\ UNCHANGED exists

-----------------------------------------------------------------------------
(* read_new_lines_blocking.  Bytes that arrive during the read are left to *)
(* the next one; a rename during it leaves the old file open.              *)

\* The outcome of a read from offset o of file f that starts at byte s and has
\* already passed over the first n bytes: whole lines until the chunk is full.
Chunk(o, s, n, f) ==
  LET ends == {b \in s + n .. f.len : b % L = 0 /\ b > s + n}
      full == {b \in ends : b - s >= max_chunk_bytes}
      new_offset == IF n >= max_chunk_bytes \/ ends = {} THEN s + n
                    ELSE IF full # {} THEN CHOOSE b \in full : \A c \in full : b <= c
                    ELSE CHOOSE b \in ends : \A c \in ends : c <= b
  IN  [start |-> o, next |-> f.first + ((s + n) \div L),
       left  |-> Cardinality({b \in ends : b <= new_offset}),
       part  |-> (s + n) % L # 0 /\ new_offset > s + n,
       to    |-> new_offset,
       more  |-> new_offset - s >= max_chunk_bytes /\ new_offset < f.len]

Empty(o, to) == [start |-> o, next |-> 0, left |-> 0, part |-> FALSE, to |-> to, more |-> FALSE]

\* The offset moves to the tail when the backlog exceeds the limit.  The u64
\* difference new_start - start_offset is non-zero also when it wraps.
start_offset(o, f) == IF f.len < o THEN 0 ELSE o
tail_offset(f) == Most(0, f.len - Most(max_chunk_bytes, 1))
lags(o, f) == max_lag_bytes > 0 /\ f.len - start_offset(o, f) > max_lag_bytes
skips(o, f) == lags(o, f) /\ tail_offset(f) # start_offset(o, f)

read_new_lines(o, f) ==
  LET s == IF lags(o, f) THEN tail_offset(f) ELSE start_offset(o, f)
      end == s + (L - (s % L))        \* just after the first newline from s on
  IN  IF f.len = s THEN Empty(o, s)
      ELSE IF ~skips(o, f) THEN Chunk(o, s, 0, f)
      ELSE IF end > f.len THEN Empty(o, s)
      ELSE Chunk(o, s, end - s, f)

\* The lines a read passes over on purpose.
Skipped(o, f) ==
  LET s == tail_offset(f)
      end == s + (L - (s % L))
      resume == IF end > f.len THEN s + L - 1 ELSE end
  IN  IF skips(o, f) THEN LinesIn(f, start_offset(o, f), resume) ELSE {}

-----------------------------------------------------------------------------
(* checkpoint_offset: fs::write truncates the file before it writes it, and *)
(* a failure is only logged.                                                *)

Still == UNCHANGED <<seek_to_end, disk, rotations, shutdown, closed>>
Fault == faults < MaxFaults /\ faults' = faults + 1

checkpoint_offset(o, about) ==
  \/ saved' = o /\ stale' = about /\ UNCHANGED faults
  \/ Fault /\ saved' \in {saved, 0} /\ UNCHANGED stale

\* The 30 seconds may or may not have passed.
checkpoint_if_due(o, about) ==
  checkpoint_offset(o, about) \/ UNCHANGED <<saved, stale, faults>>

-----------------------------------------------------------------------------
(* The supervisor, and the start of run_file_source. *)

Ended == shutdown \/ closed

supervise_stop ==
  /\ at \in {"run", "backoff"} /\ Ended
  /\ at' = "stopped"
  /\ UNCHANGED <<saved, offset, batch, faults, history>> /\ Still

supervise_retry ==
  /\ at = "backoff" /\ ~Ended
  /\ at' = "run"
  /\ UNCHANGED <<saved, offset, batch, faults, history>> /\ Still

\* The file is missing, or it cannot be watched.
run_failed ==
  /\ at = "run" /\ ~Ended
  /\ (exists /\ Fault) \/ (~exists /\ UNCHANGED faults)
  /\ at' = "backoff"
  /\ UNCHANGED <<saved, offset, batch, history>> /\ Still

run_resumed ==
  /\ at = "run" /\ ~Ended /\ exists /\ saved > 0
  /\ offset' = saved /\ old' = stale /\ sent' = {}
  /\ at' = "wait"
  /\ UNCHANGED <<saved, batch, faults, delivered, excused, stale, missed, garbled>> /\ Still

run_fresh ==
  /\ at = "run" /\ ~Ended /\ exists /\ saved = 0
  /\ offset' = IF seek_to_end THEN file.len ELSE 0
  /\ excused' = excused \cup LinesIn(file, 0, offset' + L - 1)
  /\ old' = "no" /\ sent' = {}
  /\ at' = "wait"
  /\ UNCHANGED <<saved, batch, faults, delivered, stale, missed, garbled>> /\ Still

-----------------------------------------------------------------------------
(* drain_to_eof: read a chunk, send its lines, and again while there is more. *)

Reads == at = "more" \/ at = "wait"

read_missing ==
  /\ Reads /\ ~exists
  /\ at' = "wait" /\ checkpoint_if_due(offset, old)
  /\ UNCHANGED <<offset, batch, delivered, excused, old, missed, garbled, sent>> /\ Still

\* An I/O error before the first line; the source goes on unless the sink is gone.
read_failed ==
  /\ Reads /\ exists /\ Fault
  /\ at' = IF closed THEN "stopped" ELSE "wait"
  /\ \/ saved' = offset /\ stale' = old
     \/ UNCHANGED <<saved, stale>>
  /\ UNCHANGED <<offset, batch, delivered, excused, old, missed, garbled, sent>> /\ Still

\* What read_new_lines returns when an I/O error ends the loop after k lines.
Cut(r, k) == [r EXCEPT !.left = k, !.to = @ - (r.left - k) * L, !.more = FALSE]
Cuts(r) == {Cut(r, k) : k \in (IF r.part THEN 1 ELSE 0) .. r.left - 1}

ReadInto(r) ==
  /\ batch' = [start |-> r.start, from |-> r.next, next |-> r.next, left |-> r.left,
               part |-> r.part, more |-> r.more, turned |-> file.len < offset]
  /\ offset' = r.to
  /\ excused' = excused \cup Skipped(offset, file)
  /\ missed' = IF old # "no" /\ file.len >= offset
               THEN missed \cup LinesIn(file, 0, offset + L - 1) ELSE missed
  /\ at' = "send" /\ old' = "no"
  /\ UNCHANGED <<saved, delivered, stale, garbled, sent>> /\ Still

read_chunk ==
  /\ Reads /\ exists
  /\ ReadInto(read_new_lines(offset, file)) /\ UNCHANGED faults

read_cut ==
  /\ Reads /\ exists /\ Fault
  /\ \E r \in Cuts(read_new_lines(offset, file)) : ReadInto(r)

send_line ==
  /\ at = "send" /\ batch.left > 0 /\ ~closed
  /\ delivered' = IF batch.part THEN delivered ELSE delivered \cup {batch.next}
  /\ garbled' = (garbled \/ batch.part)
  /\ sent' = sent \cup {batch.next}
  /\ batch' = [batch EXCEPT !.next = @ + 1, !.left = @ - 1, !.part = FALSE]
  /\ UNCHANGED <<saved, offset, at, faults, excused, old, stale, missed>> /\ Still

\* The lines of the batch already sent will be sent again.
Rewound == IF old = "no" /\ batch.turned THEN "rewound" ELSE old
TakeBack ==
  /\ offset' = batch.start
  /\ sent' = {l \in sent : l < batch.from}
  /\ old' = Rewound

send_stopped ==
  /\ at = "send" /\ batch.left > 0 /\ shutdown
  /\ TakeBack
  /\ at' = "wait" /\ batch' = NoBatch /\ checkpoint_if_due(batch.start, Rewound)
  /\ UNCHANGED <<delivered, excused, missed, garbled>> /\ Still

send_closed_keeps_offset ==
  /\ at = "send" /\ batch.left > 0 /\ closed
  /\ at' = "stopped" /\ batch' = NoBatch /\ checkpoint_offset(offset, old)
  /\ UNCHANGED <<offset, delivered, excused, old, missed, garbled, sent>> /\ Still

send_closed ==
  /\ at = "send" /\ batch.left > 0 /\ closed
  /\ TakeBack
  /\ at' = "stopped" /\ batch' = NoBatch /\ checkpoint_offset(batch.start, Rewound)
  /\ UNCHANGED <<delivered, excused, missed, garbled>> /\ Still

batch_done_more ==
  /\ at = "send" /\ batch.left = 0 /\ batch.more /\ ~shutdown
  /\ at' = "more" /\ batch' = NoBatch
  /\ UNCHANGED <<saved, offset, faults, history>> /\ Still

batch_done ==
  /\ at = "send" /\ batch.left = 0 /\ (~batch.more \/ shutdown)
  /\ at' = "wait" /\ batch' = NoBatch /\ checkpoint_if_due(offset, old)
  /\ UNCHANGED <<offset, delivered, excused, old, missed, garbled, sent>> /\ Still

stop ==
  /\ at = "wait" /\ Ended
  /\ at' = "stopped" /\ checkpoint_offset(offset, old)
  /\ UNCHANGED <<offset, batch, delivered, excused, old, missed, garbled, sent>> /\ Still
-----------------------------------------------------------------------------
(* The process: shutdown, the end of the pipeline, death and new start. *)

signal_shutdown ==
  /\ ~shutdown /\ at # "dead" /\ Fault /\ shutdown' = TRUE
  /\ UNCHANGED <<seek_to_end, disk, rotations, saved, offset, at, batch, closed, history>>

close_channel ==
  /\ ~closed /\ at # "dead" /\ Fault /\ closed' = TRUE
  /\ UNCHANGED <<seek_to_end, disk, rotations, saved, offset, at, batch, shutdown, history>>

kill ==
  /\ at # "dead" /\ Fault
  /\ at' = "dead" /\ offset' = 0 /\ batch' = NoBatch /\ shutdown' = FALSE /\ closed' = FALSE
  /\ UNCHANGED <<seek_to_end, disk, rotations, saved, history>>

restart ==
  /\ at = "dead" /\ at' = "run"
  /\ UNCHANGED <<saved, offset, batch, faults, history>> /\ Still

start_again ==
  /\ at = "stopped"
  /\ at' = "run" /\ offset' = 0 /\ shutdown' = FALSE /\ closed' = FALSE
  /\ UNCHANGED <<seek_to_end, disk, rotations, saved, batch, faults, history>>

Source ==
  \/ supervise_stop \/ supervise_retry \/ run_resumed \/ run_fresh
  \/ read_missing \/ read_chunk \/ send_line \/ send_stopped \/ send_closed
  \/ batch_done_more \/ batch_done \/ stop

Next ==
  \/ write_byte \/ rename \/ create \/ copytruncate
  \/ Source \/ run_failed \/ read_failed \/ read_cut
  \/ signal_shutdown \/ close_channel \/ kill \/ restart \/ start_again

\* The task is scheduled, its timer ticks, the pipeline takes events; a killed
\* daemon is restarted; logrotate creates the file it has moved away.  select! is
\* not biased, so a shutdown is seen sooner or later (SF).
Fairness == WF_vars(Source) /\ SF_vars(stop) /\ WF_vars(run_failed) /\ WF_vars(restart) /\ WF_vars(create)

Spec == Init /\ [][Next]_vars /\ Fairness

-----------------------------------------------------------------------------
Accounted == delivered \cup excused \cup missed

\* Between two batches every whole line before the offset was delivered, except
\* those the source skips on purpose or a rotation hid from it
\* (drain_to_eof, read_new_lines_blocking).
NothingSkipped ==
  at \in {"wait", "more"} /\ old = "no" => LinesIn(file, 0, offset) \subseteq Accounted

\* The offset on disk never covers a line that was not delivered: what a crash or
\* a shutdown in the middle of a batch loses is read again ("Never checkpoint
\* undelivered lines from this batch", drain_to_eof).
SavedIsDelivered ==
  stale = "no" => LinesIn(file, 0, saved) \subseteq Accounted

\* While one `run` lasts no line is delivered twice: the offset only goes back
\* with the lines it takes back, provided the skip to the tail cannot go
\* backwards (read_new_lines_blocking, new_start - start_offset).
NoRedelivery ==
  (max_lag_bytes = 0 \/ max_chunk_bytes <= max_lag_bytes) /\ at = "send" /\ batch.left > 0
    => batch.next \notin sent

\* Once writers, rotations and faults cease, every whole line of the file has been
\* delivered or skipped on purpose, whatever notifications were lost (the poll of
\* run_file_source, the supervisor's restarts).
CaughtUp ==
  <>[](at = "stopped" \/ LinesIn(file, 0, file.len) \subseteq Accounted)

\* The parser only sees whole lines, also after a skip to the tail
\* (read_new_lines_blocking), unless the source began in the middle of a line: at
\* a start at the end of the file, inside a line longer than a chunk, or where a
\* rotation was not noticed.
WholeRecords ==
  ~seek_to_end /\ L <= max_chunk_bytes /\ missed = {} => ~garbled
=============================================================================
