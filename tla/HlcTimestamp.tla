---------------------------- MODULE HlcTimestamp ----------------------------
(***************************************************************************)
(* hiveguard-core/src/hlc.rs: hybrid logical clock timestamps and the two  *)
(* ways of advancing them.  A timestamp is a wall-clock reading, a counter *)
(* and the hash of the node.  The system clock is read in every operation  *)
(* and may have jumped; it is the parameter now.                           *)
(***************************************************************************)
EXTENDS Naturals

CONSTANTS MAX_SKEW_MS,
          Nodes,
          Hash,        \* node -> hash_node_id
          Time         \* readings of the system clocks

ASSUME SkewAssumption == MAX_SKEW_MS \in Nat
ASSUME HlcAssumption == Hash \in [Nodes -> Nat] /\ Time \subseteq Nat

HlcTimestamp == [wall_time_ms : Nat, counter : Nat, node_id_hash : Nat]

\* Ord::cmp: wall time, then counter, then node.
Before(a, b) ==
  \/ a.wall_time_ms < b.wall_time_ms
  \/ /\ a.wall_time_ms = b.wall_time_ms
     /\ \/ a.counter < b.counter
        \/ a.counter = b.counter /\ a.node_id_hash < b.node_id_hash

NotAfter(a, b) == ~Before(b, a)

Later(a, b) == IF Before(b, a) THEN a ELSE b
Earlier(a, b) == IF Before(b, a) THEN b ELSE a

Stamp(wall, counter, hash) == [wall_time_ms |-> wall, counter |-> counter, node_id_hash |-> hash]

\* HlcTimestamp::now.
fresh(hash, now) == Stamp(now, 0, hash)

\* HlcTimestamp::tick.
tick(h, now) ==
  IF now > h.wall_time_ms
  THEN Stamp(now, 0, h.node_id_hash)
  ELSE Stamp(h.wall_time_ms, h.counter + 1, h.node_id_hash)

\* The wall time of a remote timestamp, clamped to the skew allowed here.
clamped(remote, now) ==
  IF remote.wall_time_ms > now + MAX_SKEW_MS THEN now + MAX_SKEW_MS ELSE remote.wall_time_ms

\* Mutant of update: equal wall times keep the local counter.
update_local_counter(h, remote, now) ==
  LET rw == clamped(remote, now)
  IN  CASE now > h.wall_time_ms /\ now > rw -> Stamp(now, 0, h.node_id_hash)
        [] rw > h.wall_time_ms -> Stamp(rw, remote.counter + 1, h.node_id_hash)
        [] OTHER -> Stamp(h.wall_time_ms, h.counter + 1, h.node_id_hash)

\* HlcTimestamp::update.
update(h, remote, now) ==
  LET rw      == clamped(remote, now)
      highest == IF remote.counter > h.counter THEN remote.counter ELSE h.counter
  IN  IF now > h.wall_time_ms /\ now > rw THEN Stamp(now, 0, h.node_id_hash)
      ELSE IF h.wall_time_ms = rw THEN Stamp(rw, highest + 1, h.node_id_hash)
      ELSE IF rw > h.wall_time_ms THEN Stamp(rw, remote.counter + 1, h.node_id_hash)
      ELSE Stamp(h.wall_time_ms, h.counter + 1, h.node_id_hash)
=============================================================================
