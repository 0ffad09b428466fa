------------------------------ MODULE BanStore ------------------------------
(***************************************************************************)
(* hiveguard-core/src/ban_store.rs: InMemoryBanStore.  A map from networks *)
(* to ban records, and beside it the number of bans of each prefix length  *)
(* of each family, which the two lookups use to skip lengths that hold no  *)
(* ban.  A lookup is right only while the counts agree with the map, and   *)
(* the counts are maintained by hand in four places.                       *)
(***************************************************************************)
EXTENDS IpNet, FiniteSets

CONSTANTS Keys,     \* the networks callers use: finite, closed under trunc
          Instants, \* the instants 0..n of the run
          NoBan,    \* "no entry under this key"
          Forever   \* expires_at = None

ASSUME KeysAssumption ==
  /\ Keys \subseteq Net
  /\ IsFiniteSet(Keys)
ASSUME TimeAssumption == Instants \subseteq Nat
ASSUME SentinelAssumption ==
  NoBan \notin Instants /\ NoBan # Forever /\ NoBan \notin Keys /\ Forever \notin Instants

VARIABLES bans,    \* HashMap<IpNet, BanRecord>; a record is its expires_at
          counts   \* v4_prefix_counts and v6_prefix_counts

store_vars == <<bans, counts>>

Expiry == Instants \cup {Forever}

Stored == {n \in Keys : bans[n] # NoBan}

StoreInit ==
  /\ bans = [n \in Keys |-> NoBan]
  /\ counts = [f \in Family |-> [l \in 0..W |-> 0]]

inc_prefix(c, n) == [c EXCEPT ![n.addr.fam][n.len] = @ + 1]

\* saturating_sub(1)
dec_prefix(c, n) == [c EXCEPT ![n.addr.fam][n.len] = IF @ = 0 THEN 0 ELSE @ - 1]

\* Overwriting an entry leaves the count alone.
add_ban(n, exp) ==
  /\ bans' = [bans EXCEPT ![n] = exp]
  /\ counts' = IF bans[n] = NoBan THEN inc_prefix(counts, n) ELSE counts

remove_ban(n) ==
  /\ bans' = [bans EXCEPT ![n] = NoBan]
  /\ counts' = IF bans[n] # NoBan THEN dec_prefix(counts, n) ELSE counts

Expired(exp, now) == exp # Forever /\ exp <= now

rebuild_prefix_counts(keys) ==
  [f \in Family |-> [l \in 0..W |->
     Cardinality({n \in keys : n.addr.fam = f /\ n.len = l})]]

\* retain() drops the expired records; the counts are rebuilt only when some
\* record went.
cleanup_expired(now) ==
  LET kept == {n \in Stored : ~Expired(bans[n], now)}
  IN  /\ bans' = [n \in Keys |-> IF n \in kept THEN bans[n] ELSE NoBan]
      /\ counts' = IF kept # Stored THEN rebuild_prefix_counts(kept) ELSE counts

StoreNext ==
  \/ \E n \in Keys, exp \in Expiry : add_ban(n, exp)
  \/ \E n \in Keys : remove_ban(n)
  \/ \E now \in Instants : cleanup_expired(now)

StoreSpec == StoreInit /\ [][StoreNext]_store_vars

-----------------------------------------------------------------------------
(* The two lookups.                                                        *)

\* The prefix of address a (or of the address of a network) of length l.
Prefix(a, l) == trunc([addr |-> a, len |-> l])

\* Mutant of covering_bans: the subject's own length is left out.
covering_bans_strict(subject) ==
  {Prefix(subject.addr, l) : l \in {l \in 0..subject.len : l < subject.len /\ counts[subject.addr.fam][l] > 0}}
    \cap Stored

\* covering_bans: every stored ban whose key is a prefix of the subject, among
\* the lengths whose count is not zero.
covering_bans(subject) ==
  {Prefix(subject.addr, l) : l \in {l \in 0..subject.len : counts[subject.addr.fam][l] > 0}}
    \cap Stored

\* is_banned: from the longest length with a non-zero count to the shortest, the
\* first key that is stored; NoBan when there is none.  Expiry is not looked at.
is_banned(a) ==
  LET hits == {l \in 0..W : counts[a.fam][l] > 0 /\ Prefix(a, l) \in Stored}
  IN  IF hits = {} THEN NoBan
      ELSE Prefix(a, CHOOSE l \in hits : \A k \in hits : k <= l)

-----------------------------------------------------------------------------
StoreTyped ==
  /\ bans \in [Keys -> Expiry \cup {NoBan}]
  /\ counts \in [Family -> [0..W -> Nat]]

Counted(f, l) == {n \in Stored : n.addr.fam = f /\ n.len = l}

\* The counts agree with the map after any sequence of insertions, overwrites,
\* removals of present and absent keys, and clean-ups; in particular the
\* saturating subtraction of dec_prefix never has to saturate.
CountsExact ==
  \A f \in Family, l \in 0..W : counts[f][l] = Cardinality(Counted(f, l))

\* covering_bans, which skips the prefix lengths whose count is zero, still
\* finds every stored (truncated) network that contains the subject's block.
CoveringComplete ==
  \A s \in Keys :
    covering_bans(s) = {n \in Stored : n = trunc(n) /\ net_covers(n, s)}

\* is_banned answers "not banned" only when no stored network contains the
\* address, and otherwise the most specific stored network that does.
LookupMostSpecific ==
  \A a \in Addr :
    LET covering == {n \in Stored : n = trunc(n) /\ contains(n, a)}
    IN  /\ is_banned(a) = NoBan <=> covering = {}
        /\ covering # {} =>
             is_banned(a) \in covering /\ \A n \in covering : n.len <= is_banned(a).len

\* Whatever reads the store agrees with a scan of it: is_banned finds the most
\* specific ban, and what the enforcer sends to the kernel for the stored bans
\* (build_sync_batch, dedup_overlapping) blocks exactly the same addresses and
\* has no two overlapping intervals, which nft would refuse.
ViewsExact ==
  LET sent_nets == dedup_overlapping(Stored)
  IN  /\ LookupMostSpecific
      /\ Blocked(sent_nets) = Blocked(Stored)
      /\ \A m, n \in sent_nets : m # n => ~nets_overlap(m, n)
=============================================================================
