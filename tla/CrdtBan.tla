------------------------------ MODULE CrdtBan ------------------------------
(***************************************************************************)
(* hiveguard-core/src/crdt.rs: the replicated ban record of one subject.   *)
(* Each replica keeps the record as StateManager::add_crdt_ban does (the   *)
(* first one is stored, later ones are merged in) and its own hybrid       *)
(* logical clock, which a restart creates afresh from the system clock.    *)
(* The reason and the evidence hash are always chosen together: they are   *)
(* one value, content.                                                     *)
(***************************************************************************)
EXTENDS HlcTimestamp, FiniteSets

CONSTANTS Severity,
          Content,
          Extension,   \* arguments of extend_ban
          BAN_MS,      \* the default ban, 24 hours
          NoRecord,
          MaxUpdates   \* bound on the number of updates

ASSUME CrdtAssumption ==
  Severity \subseteq Nat /\ Extension \subseteq Nat /\ BAN_MS \in Nat

VARIABLES rec,      \* node -> its record, or NoRecord
          hlc,      \* node -> its clock
          seen,     \* history: the updates each record includes
          voted,    \* history: the nodes that voted to tombstone
          updates   \* number of updates so far

vars == <<rec, hlc, seen, voted, updates>>

CrdtBanRecord ==
  [first_seen : HlcTimestamp, ban_until : HlcTimestamp, severity : Nat,
   reporters : SUBSET Nodes, content : Content, tombstone_reporters : SUBSET Nodes,
   tombstone : BOOLEAN, last_modified : HlcTimestamp]

\* A replica without a record is told apart from every record.
ASSUME NoRecordAssumption == NoRecord \notin CrdtBanRecord

Higher(a, b) == IF a > b THEN a ELSE b

Quorate(voters) == \E m, n \in voters : m # n

\* CrdtBanRecord::new, stamped ts by the reporter.
new(i, severity, content, ts) ==
  [first_seen |-> ts, ban_until |-> Stamp(ts.wall_time_ms + BAN_MS, 0, ts.node_id_hash),
   severity |-> severity, reporters |-> {i}, content |-> content,
   tombstone_reporters |-> {}, tombstone |-> FALSE, last_modified |-> ts]

\* Mutant of merge: the end of the local ban is kept.
merge_keeps_local_end(a, b) ==
  LET voters == a.tombstone_reporters \cup b.tombstone_reporters
  IN  [first_seen |-> Earlier(a.first_seen, b.first_seen),
       ban_until |-> a.ban_until,
       severity |-> Higher(a.severity, b.severity),
       reporters |-> a.reporters \cup b.reporters,
       content |-> IF Before(a.last_modified, b.last_modified) THEN b.content ELSE a.content,
       tombstone_reporters |-> voters,
       tombstone |-> Quorate(voters),
       last_modified |-> Later(a.last_modified, b.last_modified)]

\* CrdtBanRecord::merge, of two records of the same subject.
merge(a, b) ==
  LET voters == a.tombstone_reporters \cup b.tombstone_reporters
  IN  [first_seen |-> Earlier(a.first_seen, b.first_seen),
       ban_until |-> Later(a.ban_until, b.ban_until),
       severity |-> Higher(a.severity, b.severity),
       reporters |-> a.reporters \cup b.reporters,
       content |-> IF Before(a.last_modified, b.last_modified) THEN b.content ELSE a.content,
       tombstone_reporters |-> voters,
       tombstone |-> Quorate(voters),
       last_modified |-> Later(a.last_modified, b.last_modified)]

\* Mutant of tombstoned: one vote is enough.
tombstoned_alone(r, i, ts) ==
  LET voters == r.tombstone_reporters \cup {i}
  IN  [first_seen |-> r.first_seen, ban_until |-> r.ban_until, severity |-> r.severity,
       reporters |-> r.reporters, content |-> r.content, tombstone_reporters |-> voters,
       tombstone |-> TRUE, last_modified |-> ts]

\* CrdtBanRecord::tombstone: the vote of node i.
tombstoned(r, i, ts) ==
  LET voters == r.tombstone_reporters \cup {i}
  IN  [first_seen |-> r.first_seen, ban_until |-> r.ban_until, severity |-> r.severity,
       reporters |-> r.reporters, content |-> r.content, tombstone_reporters |-> voters,
       tombstone |-> Quorate(voters), last_modified |-> ts]

\* CrdtBanRecord::extend_ban.
extended(r, ms, ts) ==
  [first_seen |-> r.first_seen,
   ban_until |-> Stamp(r.ban_until.wall_time_ms + ms, r.ban_until.counter, r.ban_until.node_id_hash),
   severity |-> r.severity, reporters |-> r.reporters, content |-> r.content,
   tombstone_reporters |-> r.tombstone_reporters, tombstone |-> r.tombstone,
   last_modified |-> ts]

\* StateManager::add_crdt_ban.
Include(old, r) == IF old = NoRecord THEN r ELSE merge(old, r)

Init ==
  /\ rec = [i \in Nodes |-> NoRecord]
  /\ \E now \in [Nodes -> Time] : hlc = [i \in Nodes |-> fresh(Hash[i], now[i])]
  /\ seen = [i \in Nodes |-> {}]
  /\ voted = {}
  /\ updates = 0

\* Node i ticks its clock, stores r and has thereby made the update u.
Store(i, now, r, u) ==
  /\ updates < MaxUpdates
  /\ updates' = updates + 1
  /\ hlc' = [hlc EXCEPT ![i] = tick(hlc[i], now)]
  /\ rec' = [rec EXCEPT ![i] = r]
  /\ seen' = [seen EXCEPT ![i] = seen[i] \cup {u}]

Report(i, severity, content, now) ==
  LET u == new(i, severity, content, tick(hlc[i], now))
  IN  /\ Store(i, now, Include(rec[i], u), u)
      /\ UNCHANGED voted

Tombstone(i, now) ==
  LET u == tombstoned(rec[i], i, tick(hlc[i], now))
  IN  /\ rec[i] # NoRecord
      /\ Store(i, now, u, u)
      /\ voted' = voted \cup {i}

Extend(i, ms, now) ==
  LET u == extended(rec[i], ms, tick(hlc[i], now))
  IN  /\ rec[i] # NoRecord
      /\ Store(i, now, u, u)
      /\ UNCHANGED voted

\* Node i is sent the record of node j, in any order and any number of times.
Exchange(i, j) ==
  /\ rec[j] # NoRecord
  /\ rec' = [rec EXCEPT ![i] = Include(rec[i], rec[j])]
  /\ seen' = [seen EXCEPT ![i] = seen[i] \cup seen[j]]
  /\ UNCHANGED <<hlc, voted, updates>>

\* A restarted process makes a new clock (HlcTimestamp::now); the record is in
\* the snapshot.
Restart(i, now) ==
  /\ hlc' = [hlc EXCEPT ![i] = fresh(Hash[i], now)]
  /\ UNCHANGED <<rec, seen, voted, updates>>

Next ==
  \E i \in Nodes :
    \/ \E now \in Time :
         \/ \E severity \in Severity, content \in Content : Report(i, severity, content, now)
         \/ Tombstone(i, now)
         \/ \E ms \in Extension : Extend(i, ms, now)
         \/ Restart(i, now)
    \/ \E j \in Nodes : Exchange(i, j)

Spec == Init /\ [][Next]_vars

-----------------------------------------------------------------------------
TypeOK ==
  /\ rec \in [Nodes -> CrdtBanRecord \cup {NoRecord}]
  /\ hlc \in [Nodes -> HlcTimestamp]
  /\ seen \in [Nodes -> SUBSET CrdtBanRecord]
  /\ voted \subseteq Nodes
  /\ updates \in Nat

\* What the record says about the ban, whoever modified it last.
Core(r) ==
  <<r.first_seen, r.ban_until, r.severity, r.reporters, r.tombstone_reporters, r.tombstone>>

\* Strong eventual consistency of the merge (crdt.rs:10): two replicas that have
\* received the same updates, in any order, grouping and multiplicity and across
\* restarts, agree on the ban.
Converged ==
  \A i, j \in Nodes :
    seen[i] = seen[j] /\ seen[i] # {} => Core(rec[i]) = Core(rec[j])

\* A ban is cancelled at a replica exactly when two different nodes' votes have
\* reached it ("Prevents a single compromised node from cancelling all bans",
\* crdt.rs:44), and every vote counted was cast.
TombstoneExact ==
  \A i \in Nodes : rec[i] # NoRecord =>
    LET votes == UNION {u.tombstone_reporters : u \in seen[i]}
    IN  votes \subseteq voted /\ (rec[i].tombstone <=> Quorate(votes))

=============================================================================
