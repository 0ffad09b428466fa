------------------------------- MODULE LogScan -------------------------------
(***************************************************************************)
(* The backward scan of the agent interface (daemon/agent_logs.rs): the    *)
(* live file from its end in chunks, then its rotated copies, under one    *)
(* byte budget, until the start of the window is reached; and the query    *)
(* and the time series that are built from the lines it visits.  The       *)
(* writer of the log may rotate the files at any moment.  The statistics,  *)
(* excerpts and pages of the interface follow in a second part.            *)
(*                                                                         *)
(* A line is [id, time, own, size]: when it was written, whether it shows  *)
(* that time, and its bytes with the newline.  Every line matches the      *)
(* filter, and none exceeds MAX_CARRY.                                     *)
(***************************************************************************)
EXTENDS Integers, Sequences, SequencesExt, FiniteSets, FiniteSetsExt, Folds

CONSTANTS Logs,      \* what the disk may hold: sequences of files, the live one first
          Gz,        \* the rotated copies that are compressed
          Window,    \* the pairs <<since, until>> that are asked for
          Budgets, CHUNK, OLDER_STREAK_STOP, GZ_SKIP_FACTOR, Limit, MaxRotations

VARIABLES disk,      \* the files, each a sequence of lines, oldest line first
          rotations,
          w,         \* [since, until, budget]
          pc,        \* "open", "file", "list", "next" or "done"
          fd,        \* [lines, pos, handled]: the plain file being read
          listed, n, \* how many rotated copies were found, and the one at hand
          out,       \* [bytes, budget_hit, reached_since, oldest]
          walk,      \* [inherited, from, older_streak]
          visits     \* what the visitor was given: [line, ts, from, fwd]

vars == <<disk, rotations, w, pc, fd, listed, n, out, walk, visits>>

None == 0
NoWalk == [inherited |-> None, from |-> None, older_streak |-> 0]
Size(lines) == FoldLeft(LAMBDA a, l : a + l.size, 0, lines)
Start(lines, k) == Size(SubSeq(lines, 1, k - 1))
Oldest(o, t) == IF o = None THEN t ELSE Min({o, t})

Init ==
  /\ disk \in Logs /\ rotations = 0
  /\ \E x \in Window, b \in Budgets : w = [since |-> x[1], until |-> x[2], budget |-> b]
  /\ pc = "open" /\ fd = [lines |-> <<>>, pos |-> 0, handled |-> 0]
  /\ listed = 0 /\ n = 0
  /\ out = [bytes |-> 0, budget_hit |-> FALSE, reached_since |-> FALSE, oldest |-> None]
  /\ walk = NoWalk /\ visits = <<>>

\* The environment: logrotate renames every file to the next name.
rotate ==
  /\ rotations < MaxRotations /\ pc # "done"
  /\ disk' = <<<<>>>> \o disk /\ rotations' = rotations + 1
  /\ UNCHANGED <<w, pc, fd, listed, n, out, walk, visits>>

-----------------------------------------------------------------------------
(* One line of a plain file.  a is [out, walk, visits, stop], f the file.   *)

\* A line in the window ends a streak of older ones.
streak(l, s) == IF l.own THEN 0 ELSE s

handle_line(a, l, f) ==
  LET seen == IF l.own THEN [a EXCEPT !.out.oldest = Oldest(@, l.time),
                                      !.walk.inherited = l.time, !.walk.from = f]
              ELSE a
      eff == seen.walk.inherited
      older == [seen EXCEPT !.walk.older_streak = @ + (IF l.own THEN 1 ELSE 0)]
      over == l.own /\ older.walk.older_streak >= OLDER_STREAK_STOP
  IN  IF a.stop THEN a
      ELSE IF eff # None /\ eff > w.until THEN seen
      ELSE IF eff # None /\ eff < w.since
      THEN [older EXCEPT !.stop = over, !.out.reached_since = over]
      ELSE [seen EXCEPT !.walk.older_streak = streak(l, @),
                        !.visits = Append(@, [line |-> l.id, ts |-> eff, from |-> seen.walk.from,
                                              file |-> f, fwd |-> FALSE])]

Open(lines) == fd' = [lines |-> lines, pos |-> Size(lines), handled |-> 0]

\* After a file: the live one is followed by the listing, a rotated one by the next, with a
\* fresh state.
EndOfFile(st) ==
  IF n = 0 THEN pc' = "list" /\ walk' = st ELSE pc' = "next" /\ walk' = NoWalk

\* scan_source opens the live file, or fails.
open_live ==
  /\ pc = "open" /\ pc' = "file" /\ Open(disk[1])
  /\ UNCHANGED <<disk, rotations, w, listed, n, out, walk, visits>>

Want(remaining) == Min({CHUNK, fd.pos, remaining})

\* Lines whose preceding newline has been read, newest first.
Complete(pos) ==
  LET k == Len(fd.lines) - fd.handled
      first == Min({i \in 1..(k + 1) : i = k + 1 \/ pos = 0 \/ Start(fd.lines, i) > pos})
  IN  Reverse(SubSeq(fd.lines, first, k))

\* One round of the loop of scan_file.
scan_file ==
  /\ pc = "file" /\ UNCHANGED <<disk, rotations, w, listed, n>>
  /\ LET remaining == w.budget - out.bytes
         want == Want(remaining)
     IN  IF fd.pos = 0
         THEN EndOfFile(walk) /\ UNCHANGED <<fd, out, visits>>
         ELSE IF remaining <= 0
         THEN EndOfFile(walk) /\ out' = [out EXCEPT !.budget_hit = TRUE] /\ UNCHANGED <<fd, visits>>
         ELSE \E ls \in {Complete(fd.pos - want)} :
              \E a \in {FoldLeft(LAMBDA acc, l : handle_line(acc, l, n),
                                 [out |-> [out EXCEPT !.bytes = @ + want], walk |-> walk,
                                  visits |-> visits, stop |-> FALSE], ls)} :
                /\ out' = a.out /\ visits' = a.visits
                /\ IF a.stop
                   THEN EndOfFile(a.walk) /\ UNCHANGED fd
                   ELSE /\ fd' = [fd EXCEPT !.pos = @ - want, !.handled = @ + Len(ls)]
                        /\ walk' = a.walk /\ UNCHANGED pc

\* A read error ends the walk; of the live file, the request too.
read_error ==
  /\ pc = "file" /\ n > 0 /\ pc' = "done"
  /\ UNCHANGED <<disk, rotations, w, fd, listed, n, out, walk, visits>>

-----------------------------------------------------------------------------
(* Rotated copies. *)

rotated_files ==
  /\ pc = "list" /\ listed' = Len(disk) - 1 /\ pc' = "next"
  /\ UNCHANGED <<disk, rotations, w, fd, n, out, walk, visits>>

\* One line of a gzip file, oldest first.  Its own walk starts empty.
handle_gz(a, l, f) ==
  LET seen == [a EXCEPT !.out.bytes = @ + l.size,
                        !.out.oldest = IF l.own THEN Oldest(@, l.time) ELSE @,
                        !.inherited = IF l.own THEN l.time ELSE @]
      eff == seen.inherited
      newer == seen.newer_streak + 1
  IN  IF a.stop THEN a
      ELSE IF a.out.bytes + l.size > w.budget
      THEN [a EXCEPT !.stop = TRUE, !.out.budget_hit = TRUE]
      ELSE IF eff # None /\ eff < w.since THEN [seen EXCEPT !.saw_older = TRUE]
      ELSE IF eff # None /\ eff > w.until
      THEN IF l.own THEN [seen EXCEPT !.newer_streak = newer, !.stop = newer >= OLDER_STREAK_STOP]
           ELSE seen
      ELSE [seen EXCEPT !.newer_streak = IF eff = None THEN @ ELSE 0,
                        !.visits = Append(@, [line |-> l.id, ts |-> eff, from |-> f,
                                              file |-> f, fwd |-> TRUE])]

\* The oldest part that does not fit the budget is skipped, with the line it ends in.
Unskipped(lines, skip) ==
  SelectSeq([i \in DOMAIN lines |-> <<lines[i], Start(lines, i)>>],
            LAMBDA x : skip = 0 \/ x[2] > skip)

scan_gz(lines, f) ==
  LET remaining == w.budget - out.bytes
      skip == IF Size(lines) > remaining THEN Size(lines) - remaining ELSE 0
      a == FoldLeft(LAMBDA acc, x : handle_gz(acc, x[1], f),
                    [out |-> out, inherited |-> None, newer_streak |-> 0, saw_older |-> FALSE,
                     visits |-> visits, stop |-> FALSE], Unskipped(lines, skip))
  IN  IF remaining <= 0 \/ skip > remaining * GZ_SKIP_FACTOR
      THEN [out |-> [out EXCEPT !.budget_hit = TRUE], visits |-> visits]
      ELSE [out |-> [a.out EXCEPT !.reached_since = @ \/ a.saw_older,
                                  !.budget_hit = @ \/ (~a.saw_older /\ skip > 0)],
            visits |-> a.visits]

\* The files are opened by name, whatever has moved there since the listing.
next_rotated ==
  /\ pc = "next" /\ UNCHANGED <<disk, rotations, w, listed>>
  /\ IF n = listed \/ out.reached_since \/ out.budget_hit
     THEN pc' = "done" /\ UNCHANGED <<fd, n, out, walk, visits>>
     ELSE LET lines == disk[n + 2]
              stale == \A l \in Range(lines) : l.time < w.since   \* by its mtime
          IN  /\ n' = n + 1
              /\ IF stale
                 THEN /\ out' = [out EXCEPT !.reached_since = TRUE] /\ pc' = "done"
                      /\ UNCHANGED <<fd, walk, visits>>
                 ELSE IF n + 1 \in Gz
                 THEN /\ \E r \in {scan_gz(lines, n + 1)} : out' = r.out /\ visits' = r.visits
                      /\ walk' = NoWalk /\ UNCHANGED <<fd, pc>>
                 ELSE /\ Open(lines) /\ pc' = "file" /\ UNCHANGED <<out, walk, visits>>

Next == open_live \/ scan_file \/ read_error \/ rotated_files \/ next_rotated \/ rotate

Spec == Init /\ [][Next]_vars

-----------------------------------------------------------------------------
(* What is answered. *)

\* The visitor of run_query: the newest matches, at most Limit, a forward segment turned
\* round when it ends.
Segment(seg, free) == IF Len(seg) > free THEN SubSeq(seg, Len(seg) - free + 1, Len(seg)) ELSE seg

run_query(vs) ==
  LET files == {v.file : v \in Range(vs)}
      add(got, f) ==
        LET seg == SelectSeq(vs, LAMBDA v : v.file = f)
            free == Limit - Len(got)
        IN  got \o IF f \in Gz THEN Reverse(Segment(seg, free))
                     ELSE SubSeq(seg, 1, Min({free, Len(seg)}))
  IN  Reverse(FoldLeft(add, <<>>, SetToSortSeq(files, <)))


coverage_complete == out.reached_since

bucket_coverage_whole(t, len) ==
  IF coverage_complete \/ out.oldest # None THEN "full" ELSE "none"

\* "full", "partial" or "none", for the bucket [t, t + len).
bucket_coverage(t, len) ==
  IF coverage_complete THEN "full"
  ELSE IF out.oldest = None THEN "none"
  ELSE IF t >= out.oldest THEN "full"
  ELSE IF t + len > out.oldest THEN "partial" ELSE "none"

-----------------------------------------------------------------------------

Lines == UNION {Range(disk[i]) : i \in DOMAIN disk}
InWindow == {l \in Lines : l.own /\ w.since <= l.time /\ l.time <= w.until}
Visited == {v.line : v \in Range(visits)}
Sorted(lines) == \A i, j \in DOMAIN lines : i < j => lines[i].time <= lines[j].time
InOrder == \A l, m \in Lines : l.id < m.id => l.time <= m.time

(* A scan never reads more bytes than its budget, whatever mixture of plain *)
(* and compressed files it meets (max_scan_bytes).                          *)
BudgetRespected == out.bytes <= w.budget

(* coverage_complete is true only when no line of the window was left out,  *)
(* although the budget may end anywhere, the files may be rotated under the *)
(* scan, and lines of plain files may stand out of order (a compressed file *)
(* is trusted at its first older line).                                     *)
CoverageHonest ==
  pc = "done" /\ coverage_complete /\ (\A i \in Gz : i + 1 \in DOMAIN disk => Sorted(disk[i + 1]))
    => \A l \in InWindow : l.id \in Visited

(* The answer of a query is the newest matches, each once and in the order  *)
(* in which they were written, across plain and compressed files (unless a  *)
(* rotation gave the scan the same file under two names).                   *)
NewestInOrder ==
  pc = "done" /\ rotations = 0 => \E items \in {run_query(visits)} :
    /\ Len(items) = Min({Limit, Cardinality(Visited)})
    /\ \A i \in DOMAIN items : \A j \in DOMAIN items : i < j => items[i].line < items[j].line
    /\ \A l \in Visited : \A i \in DOMAIN items :
         l < items[i].line \/ \E j \in DOMAIN items : items[j].line = l

(* In a log whose lines are in order, a bucket reported as covered and      *)
(* later than the oldest line read has lost no line: a count is never a     *)
(* misleading zero.                                                         *)
CoveredBucketsExact ==
  pc = "done" /\ InOrder => \A l \in InWindow :
    bucket_coverage(l.time, 1) = "full" /\ l.time # out.oldest => l.id \in Visited

-----------------------------------------------------------------------------
(***************************************************************************)
(* Answers from records that were read (agent_logs.rs, ui_api.rs):         *)
(* statistics under caps, a journal excerpt, pages of bans, and the ring   *)
(* of recent signals.  The records arrive one at a time; every answer is a *)
(* function of those so far.  A record is [key, val, ts, hit]: the group   *)
(* it counts for (None without one), a field of it, its time (None when it *)
(* shows none) and whether it passes the filter of the request.            *)
(***************************************************************************)
CONSTANTS Record, MaxRecords,
          MAX_GROUPS, DISTINCT_CAP, GLOBAL_DISTINCT_BUDGET, Top,
          JOURNAL_FETCH_CAP, JournalLimit,
          THREAT_BUFFER_SIZE

VARIABLES records,     \* in the order in which they are visited
          ring         \* DaemonUiApi.recent_threats: the newest first

view_vars == <<records, ring>>

ViewInit == records = <<>> /\ ring = <<>>

\* The buffer gives up its oldest entry when it is full.
evict_newest(r) == IF Len(r) > THREAT_BUFFER_SIZE THEN SubSeq(r, 2, Len(r)) ELSE r
evict(r) == IF Len(r) > THREAT_BUFFER_SIZE THEN SubSeq(r, 1, THREAT_BUFFER_SIZE) ELSE r

record_signal(r) == ring' = evict(<<r>> \o ring)

visit == /\ Len(records) < MaxRecords
         /\ \E r \in Record : records' = Append(records, r) /\ record_signal(r)

ViewNext == visit

-----------------------------------------------------------------------------
(* run_stats: a fold over the lines that pass the filter. *)

\* A counter of distinct values, bounded by itself and by what all of them share.
NoCount == [map |-> <<>>, capped |-> FALSE]

Add(c, v, budget) ==
  IF v \in DOMAIN c.map THEN [c |-> [c EXCEPT !.map[v] = @ + 1], budget |-> budget]
  ELSE IF Cardinality(DOMAIN c.map) < DISTINCT_CAP /\ budget > 0
  THEN [c |-> [c EXCEPT !.map = [x \in DOMAIN @ \cup {v} |-> IF x = v THEN 1 ELSE @[x]]],
        budget |-> budget - 1]
  ELSE [c |-> [c EXCEPT !.capped = TRUE], budget |-> budget]

Earlier(a, b) == IF a = None THEN b ELSE IF b = None THEN a ELSE Min({a, b})
Later(a, b) == IF a = None THEN b ELSE IF b = None THEN a ELSE Max({a, b})

touch_times(acc, ts) == [acc EXCEPT !.first = Earlier(@, ts), !.last = Later(@, ts)]

NoGroup == [count |-> 0, first |-> None, last |-> None, profile |-> NoCount]
NoStats == [matched |-> 0, no_key |-> 0, other |-> 0, groups |-> <<>>, series |-> <<>>,
            budget |-> GLOBAL_DISTINCT_BUDGET]

Counted(f, k) == [x \in DOMAIN f \cup {k} |-> (IF x \in DOMAIN f THEN f[x] ELSE 0) + (IF x = k THEN 1 ELSE 0)]

\* The groups that may be opened.
has_room_off(st, k) == k \in DOMAIN st.groups \/ Cardinality(DOMAIN st.groups) <= MAX_GROUPS
has_room(st, k) == k \in DOMAIN st.groups \/ Cardinality(DOMAIN st.groups) < MAX_GROUPS

stats_line(st, r) ==
  LET m == [st EXCEPT !.matched = @ + 1, !.series = IF r.ts = None THEN @ ELSE Counted(@, r.ts)]
      old == IF r.key \in DOMAIN m.groups THEN m.groups[r.key] ELSE NoGroup
      p == Add(old.profile, r.val, m.budget)
      acc == touch_times([old EXCEPT !.count = @ + 1, !.profile = p.c], r.ts)
  IN  IF ~r.hit THEN st
      ELSE IF r.key = None THEN [m EXCEPT !.no_key = @ + 1]
      ELSE IF ~has_room(m, r.key) THEN [m EXCEPT !.other = @ + 1]
      ELSE [m EXCEPT !.budget = p.budget,
                     !.groups = [x \in DOMAIN @ \cup {r.key} |-> IF x = r.key THEN acc ELSE @[x]]]

\* The groups with the highest counts, ties by key.
ByCount(groups) ==
  LET ranked == SetToSortSeq(DOMAIN groups,
                  LAMBDA a, b : \/ groups[a].count > groups[b].count
                                \/ groups[a].count = groups[b].count /\ a < b)
  IN  SubSeq(ranked, 1, Min({Top, Len(ranked)}))

run_stats(rs) == FoldLeft(stats_line, NoStats, rs)

-----------------------------------------------------------------------------
(* The journal: journalctl hands over its newest fetch_cap entries. *)

fetch_cap(grep) == IF grep THEN JOURNAL_FETCH_CAP ELSE Min({JournalLimit + 1, JOURNAL_FETCH_CAP})

Newest(s, k) == SubSeq(s, Len(s) - Min({k, Len(s)}) + 1, Len(s))

build_journal_response(entries, grep) ==
  LET fetched == Newest(entries, fetch_cap(grep))
      matching == SelectSeq(fetched, LAMBDA r : ~grep \/ r.hit)
      items == Newest(matching, JournalLimit)
  IN  [items |-> items, matched |-> Len(matching),
       truncated |-> Len(matching) > Len(items) \/ Len(fetched) >= fetch_cap(grep)]

-----------------------------------------------------------------------------
(* Pages: counts over all that match, then sorted, then cut. *)

Page(s, offset, limit) == SubSeq(s, offset + 1, Min({Len(s), offset + limit}))

\* The store lists the bans in one order; the sort is stable.
filter_bans(rs, offset, limit) ==
  LET matched == SelectSeq([i \in DOMAIN rs |-> [i |-> i, r |-> rs[i]]], LAMBDA x : x.r.hit)
      sorted == SortSeq(matched, LAMBDA a, b : \/ a.r.ts > b.r.ts
                                               \/ a.r.ts = b.r.ts /\ a.i < b.i)
  IN  [matched |-> Len(matched), items |-> Page(sorted, offset, limit)]

\* The default window is the last hour; a signal without a readable time is in every window.
filter_threats(since, offset, limit) ==
  LET matched == SelectSeq(ring, LAMBDA r : r.hit /\ (r.ts = None \/ r.ts >= since))
  IN  [buffered |-> Len(ring), matched |-> Len(matched), items |-> Page(matched, offset, limit)]

-----------------------------------------------------------------------------

Hits == SelectSeq(records, LAMBDA r : r.hit)
Of(k) == SelectSeq(Hits, LAMBDA r : r.key = k)

\* Although groups and distinct values are capped, nothing is counted wrongly: every line
\* that matched is in exactly one of the groups, "other" and "no_key", a group that is shown
\* has all its lines, and a number of distinct values that is not marked as capped is exact
\* (run_stats, Capped).
StatsExact ==
  \E st \in {run_stats(records)} :
    /\ st.matched = Len(Hits)
    /\ st.matched = st.no_key + st.other + MapThenSumSet(LAMBDA k : st.groups[k].count, DOMAIN st.groups)
    /\ Cardinality(DOMAIN st.groups) <= MAX_GROUPS
    /\ \A k \in DOMAIN st.groups :
         LET g == st.groups[k]
             vals == {r.val : r \in Range(Of(k))}
         IN  /\ g.count = Len(Of(k))
             /\ IF g.profile.capped THEN DOMAIN g.profile.map \subseteq vals
                ELSE DOMAIN g.profile.map = vals
    /\ \A k \in DOMAIN st.groups : k \notin Range(ByCount(st.groups)) =>
         \A j \in Range(ByCount(st.groups)) : st.groups[j].count >= st.groups[k].count

\* An excerpt that is not marked as truncated holds every entry that matches, and any holds
\* the newest ones (build_journal_response, fetch_cap).
JournalHonest ==
  \A grep \in BOOLEAN :
    \E j \in {build_journal_response(records, grep)} :
      LET all == SelectSeq(records, LAMBDA r : ~grep \/ r.hit)
      IN  /\ ~j.truncated => j.items = all
          /\ j.items = Newest(all, Len(j.items))

\* A client that follows offset by limit over an unchanged list sees every match once, and
\* matched tells it when to stop, for bans and for signals (filter_bans, filter_threats).
PagesComplete ==
  \A limit \in 1..2 :
    LET b == filter_bans(records, 0, limit).matched
        m == filter_threats(1, 0, limit).matched
        page(k) == filter_bans(records, k * limit, limit).items
        tpage(k) == filter_threats(1, k * limit, limit).items
        join(p(_), total) == FlattenSeq([k \in 1..((total + limit - 1) \div limit) |-> p(k - 1)])
    IN  /\ {x.i : x \in Range(join(page, b))} = {i \in DOMAIN records : records[i].hit}
        /\ Len(join(page, b)) = b
        /\ Len(join(tpage, m)) = m

\* The ring holds the latest signals, the newest first, whatever was evicted.
RingNewest == ring = Reverse(Newest(records, THREAT_BUFFER_SIZE))
=============================================================================
