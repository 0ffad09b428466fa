----------------------------- MODULE BanProofs -----------------------------
(***************************************************************************)
(* The homes of a ban.  In InMemoryBanStore the prefix-length counts agree *)
(* with the map, for every set of keys, every address width and            *)
(* every set of instants.  The inductive invariant is exact counting,      *)
(* which makes "the count is zero" mean "no ban of this length": both      *)
(* lookups rely on it when they skip a length.  In the replicated record,  *)
(* for any number of replicas, updates and restarts, everything but the    *)
(* content and the modification stamp is determined by the set of updates  *)
(* it includes.  On its way from node to node a ban is nobody's word but   *)
(* its own detector's, counted once and within limits.                     *)
(***************************************************************************)
EXTENDS BanStore, CrdtBan, Gossip, NetProofs, FiniteSetTheorems, TLAPS

\* First-order reasoning is left to Zenon; a leaf on numbers, sequences or records cites SMT.
USE Zenon

CountsInv == StoreTyped /\ CountsExact

LEMMA CountedFinite ==
  ASSUME NEW f, NEW l
  PROVE  IsFiniteSet(Counted(f, l))
BY KeysAssumption, FS_Subset, Counted(f, l) \subseteq Keys DEF Counted, Stored

LEMMA KeyParts ==
  ASSUME NEW n \in Keys
  PROVE  n.addr.fam \in Family /\ n.len \in 0..W
BY KeysAssumption DEF Net, Addr

LEMMA NoBanIsNoExpiry == NoBan \notin Expiry
BY SentinelAssumption DEF Expiry

LEMMA CountsStart == StoreInit => CountsInv
<1> SUFFICES ASSUME StoreInit PROVE CountsInv
  OBVIOUS
<1>1. StoreTyped
  BY DEF StoreInit, StoreTyped
<1>2. \A f, l : Counted(f, l) = {}
  BY DEF StoreInit, Counted, Stored
<1>3. CountsExact
  BY <1>2, FS_EmptySet DEF StoreInit, CountsExact
<1> QED
  BY <1>1, <1>3 DEF CountsInv

\* Inserting a new key adds exactly that key to exactly one counted set.
LEMMA AddInv ==
  ASSUME CountsInv, NEW n \in Keys, NEW exp \in Expiry, add_ban(n, exp)
  PROVE  CountsInv'
<1> USE KeyParts, NoBanIsNoExpiry
<1>1. StoreTyped'
  <2>1. bans' \in [Keys -> Expiry \cup {NoBan}]
    BY DEF CountsInv, StoreTyped, add_ban
  <2>2. counts[n.addr.fam] \in [0..W -> Nat] /\ counts[n.addr.fam][n.len] \in Nat
    BY DEF CountsInv, StoreTyped
  <2>3. inc_prefix(counts, n) \in [Family -> [0..W -> Nat]]
    BY <2>2, SMT DEF CountsInv, StoreTyped, inc_prefix
  <2> QED
    BY <2>1, <2>3 DEF CountsInv, StoreTyped, add_ban
<1>2. Stored' = Stored \cup {n}
  BY DEF CountsInv, StoreTyped, add_ban, Stored
<1>3. ASSUME NEW f \in Family, NEW l \in 0..W
      PROVE  counts'[f][l] = Cardinality(Counted(f, l)')
  <2>1. CASE bans[n] = NoBan /\ n.addr.fam = f /\ n.len = l
    <3>1. Counted(f, l)' = Counted(f, l) \cup {n} /\ n \notin Counted(f, l)
      BY <1>2, <2>1 DEF Counted, Stored
    <3>2. Cardinality(Counted(f, l)') = Cardinality(Counted(f, l)) + 1
      BY <3>1, CountedFinite, FS_AddElement
    <3>3. counts'[f][l] = counts[f][l] + 1
      BY <2>1 DEF CountsInv, StoreTyped, add_ban, inc_prefix
    <3> QED
      BY <3>2, <3>3 DEF CountsInv, CountsExact
  <2>2. CASE ~(bans[n] = NoBan /\ n.addr.fam = f /\ n.len = l)
    <3>1. Counted(f, l)' = Counted(f, l)
      BY <1>2, <2>2 DEF Counted, Stored
    <3>2. counts'[f][l] = counts[f][l]
      BY <2>2 DEF CountsInv, StoreTyped, add_ban, inc_prefix
    <3> QED
      BY <3>1, <3>2 DEF CountsInv, CountsExact
  <2> QED
    BY <2>1, <2>2
<1> QED
  BY <1>1, <1>3 DEF CountsInv, CountsExact

\* Removing a stored key takes it out of its counted set, which therefore was
\* not empty: the saturating subtraction subtracts one.
LEMMA RemoveInv ==
  ASSUME CountsInv, NEW n \in Keys, remove_ban(n)
  PROVE  CountsInv'
<1> USE KeyParts
<1>1. StoreTyped'
  <2>1. bans' \in [Keys -> Expiry \cup {NoBan}]
    BY DEF CountsInv, StoreTyped, remove_ban
  <2>2. counts[n.addr.fam] \in [0..W -> Nat] /\ counts[n.addr.fam][n.len] \in Nat
    BY DEF CountsInv, StoreTyped
  <2>3. dec_prefix(counts, n) \in [Family -> [0..W -> Nat]]
    BY <2>2, SMT DEF CountsInv, StoreTyped, dec_prefix
  <2> QED
    BY <2>1, <2>3 DEF CountsInv, StoreTyped, remove_ban
<1>2. Stored' = Stored \ {n}
  BY DEF CountsInv, StoreTyped, remove_ban, Stored
<1>3. ASSUME NEW f \in Family, NEW l \in 0..W
      PROVE  counts'[f][l] = Cardinality(Counted(f, l)')
  <2>1. CASE bans[n] # NoBan /\ n.addr.fam = f /\ n.len = l
    <3>1. Counted(f, l)' = Counted(f, l) \ {n} /\ n \in Counted(f, l)
      BY <1>2, <2>1 DEF Counted, Stored
    <3>2. Cardinality(Counted(f, l)') = Cardinality(Counted(f, l)) - 1
      BY <3>1, CountedFinite, FS_RemoveElement
    <3>3. counts[f][l] = Cardinality(Counted(f, l)) /\ counts[f][l] \in Nat
      BY DEF CountsInv, StoreTyped, CountsExact
    <3>4. counts[f][l] # 0
      BY <3>1, <3>3, CountedFinite, FS_EmptySet
    <3>5. counts'[f][l] = counts[f][l] - 1
      BY <2>1, <3>4 DEF CountsInv, StoreTyped, remove_ban, dec_prefix
    <3> QED
      BY <3>2, <3>3, <3>5
  <2>2. CASE ~(bans[n] # NoBan /\ n.addr.fam = f /\ n.len = l)
    <3>1. Counted(f, l)' = Counted(f, l)
      BY <1>2, <2>2 DEF Counted, Stored
    <3>2. counts'[f][l] = counts[f][l]
      BY <2>2 DEF CountsInv, StoreTyped, remove_ban, dec_prefix
    <3> QED
      BY <3>1, <3>2 DEF CountsInv, CountsExact
  <2> QED
    BY <2>1, <2>2
<1> QED
  BY <1>1, <1>3 DEF CountsInv, CountsExact

LEMMA CleanupInv ==
  ASSUME CountsInv, NEW now \in Instants, cleanup_expired(now)
  PROVE  CountsInv'
<1> DEFINE kept == {n \in Stored : ~Expired(bans[n], now)}
<1>1. kept \subseteq Keys /\ Stored' = kept
  BY DEF cleanup_expired, Stored, CountsInv, StoreTyped
<1>2. bans' \in [Keys -> Expiry \cup {NoBan}]
  BY DEF cleanup_expired, CountsInv, StoreTyped
<1>3. CASE kept = Stored
  BY <1>1, <1>2, <1>3, ZenonT(40) DEF cleanup_expired, CountsInv, StoreTyped, CountsExact, Counted
<1>4. CASE kept # Stored
  <2>1. counts' = rebuild_prefix_counts(kept)
    BY <1>4 DEF cleanup_expired
  <2>2. \A f \in Family, l \in 0..W :
          /\ counts'[f][l] = Cardinality({n \in kept : n.addr.fam = f /\ n.len = l})
          /\ Counted(f, l)' = {n \in kept : n.addr.fam = f /\ n.len = l}
    BY <2>1, <1>1 DEF rebuild_prefix_counts, Counted
  <2>3. \A f \in Family, l \in 0..W :
          Cardinality({n \in kept : n.addr.fam = f /\ n.len = l}) \in Nat
    BY <1>1, KeysAssumption, FS_Subset, FS_CardinalityType
  <2>4. counts' \in [Family -> [0..W -> Nat]]
    BY <2>1, <2>3 DEF rebuild_prefix_counts
  <2>5. CountsExact'
    <3> HIDE DEF kept
    <3> SUFFICES ASSUME NEW f \in Family, NEW l \in 0..W
                 PROVE  counts'[f][l] = Cardinality(Counted(f, l)')
      BY DEF CountsExact
    <3> QED
      BY <2>2
  <2>6. StoreTyped'
    BY <1>2, <2>4 DEF StoreTyped
  <2> QED
    BY <2>5, <2>6 DEF CountsInv
<1> QED
  BY <1>3, <1>4

\* The counts agree with the map after every sequence of operations of
\* InMemoryBanStore, whatever the keys and the instants.
THEOREM CountsAreExact == StoreSpec => []CountsInv
<1>1. StoreInit => CountsInv
  BY CountsStart
<1>2. CountsInv /\ [StoreNext]_store_vars => CountsInv'
  <2> SUFFICES ASSUME CountsInv, [StoreNext]_store_vars
               PROVE  CountsInv'
    OBVIOUS
  <2>1. ASSUME NEW n \in Keys, NEW exp \in Expiry, add_ban(n, exp)
        PROVE  CountsInv'
    BY <2>1, AddInv
  <2>2. ASSUME NEW n \in Keys, remove_ban(n)
        PROVE  CountsInv'
    BY <2>2, RemoveInv
  <2>3. ASSUME NEW now \in Instants, cleanup_expired(now)
        PROVE  CountsInv'
    BY <2>3, CleanupInv
  <2>4. CASE UNCHANGED store_vars
    BY <2>4 DEF store_vars, CountsInv, StoreTyped, CountsExact, Counted, Stored
  <2> QED
    BY <2>1, <2>2, <2>3, <2>4 DEF StoreNext
<1> QED
  BY <1>1, <1>2, PTL DEF StoreSpec

\* A length whose count is zero holds no ban.
LEMMA ZeroMeansNone ==
  ASSUME CountsInv, NEW n \in Stored
  PROVE  counts[n.addr.fam][n.len] > 0
<1>1. n \in Keys /\ n.addr.fam \in Family /\ n.len \in 0..W
  BY KeyParts DEF Stored
<1>2. counts[n.addr.fam][n.len] = Cardinality(Counted(n.addr.fam, n.len))
  BY <1>1 DEF CountsInv, CountsExact
<1>3. n \in Counted(n.addr.fam, n.len)
  BY DEF Counted
<1>4. Cardinality(Counted(n.addr.fam, n.len)) # 0
  BY <1>3, CountedFinite, FS_EmptySet
<1>5. counts[n.addr.fam][n.len] \in Nat
  BY <1>1 DEF CountsInv, StoreTyped
<1> QED
  BY <1>2, <1>4, <1>5, SMT

\* The prefix of length l of a's address is the one truncated network of that
\* length that contains it.
LEMMA PrefixIsUnique ==
  ASSUME NEW a \in Addr, NEW n \in Net, n = trunc(n)
  PROVE  contains(n, a) <=> n = Prefix(a, n.len)
<1> DEFINE masked(x) == [i \in 1..W |-> IF i <= n.len THEN x[i] ELSE 0]
<1>1. n = [addr |-> [fam |-> n.addr.fam, bits |-> masked(n.addr.bits)], len |-> n.len]
  BY DEF trunc
<1>2. Prefix(a, n.len) = [addr |-> [fam |-> a.fam, bits |-> masked(a.bits)], len |-> n.len]
  BY DEF trunc, Prefix
<1>3. contains(n, a) => masked(n.addr.bits) = masked(a.bits)
  BY WAssumption, SMT DEF contains, Net
<1>4. masked(n.addr.bits) = masked(a.bits) =>
        \A i \in 1..n.len : n.addr.bits[i] = a.bits[i]
  <2> SUFFICES ASSUME masked(n.addr.bits) = masked(a.bits), NEW i \in 1..n.len
               PROVE  n.addr.bits[i] = a.bits[i]
    OBVIOUS
  <2>1. i \in 1..W /\ i <= n.len
    BY WAssumption, SMT DEF Net
  <2>2. masked(n.addr.bits)[i] = n.addr.bits[i] /\ masked(a.bits)[i] = a.bits[i]
    BY <2>1
  <2> QED
    BY <2>2
<1> HIDE DEF masked
<1>5. ASSUME contains(n, a)
      PROVE  n = Prefix(a, n.len)
  BY <1>5, <1>1, <1>2, <1>3 DEF contains
<1>6. ASSUME n = Prefix(a, n.len)
      PROVE  contains(n, a)
  <2>1. n.addr.fam = a.fam /\ n.addr.bits = masked(a.bits)
    BY <1>6, <1>2, SMT
  <2>2. n.addr.bits = masked(n.addr.bits)
    BY <1>1, SMT
  <2> QED
    BY <2>1, <2>2, <1>4 DEF contains
<1> QED
  BY <1>5, <1>6

LEMMA InvCovering ==
  ASSUME CountsInv
  PROVE  CoveringComplete
<1> SUFFICES ASSUME NEW s \in Keys
             PROVE  covering_bans(s) = {n \in Stored : n = trunc(n) /\ net_covers(n, s)}
  BY DEF CoveringComplete
<1>1. s \in Net /\ s.addr \in Addr /\ s.len \in 0..W
  BY KeysAssumption DEF Net
<1>2. ASSUME NEW n \in covering_bans(s)
      PROVE  n \in Stored /\ n = trunc(n) /\ net_covers(n, s)
  <2>1. PICK l \in 0..s.len : n = Prefix(s.addr, l) /\ n \in Stored
    BY <1>2 DEF covering_bans
  <2>2. n \in Net
    BY <2>1, KeysAssumption DEF Stored
  <2>3. n.len = l
    BY <2>1 DEF Prefix, trunc
  <2>4. n = trunc(n)
    BY <2>1, <2>3 DEF Prefix, trunc
  <2>5. contains(n, s.addr)
    BY <1>1, <2>1, <2>2, <2>3, <2>4, PrefixIsUnique
  <2> QED
    BY <1>1, <2>1, <2>3, <2>4, <2>5, SMT DEF net_covers
<1>3. ASSUME NEW n \in Stored, n = trunc(n), net_covers(n, s)
      PROVE  n \in covering_bans(s)
  <2>1. n \in Net /\ n.len \in 0..W
    BY KeysAssumption DEF Stored, Net
  <2>2. n = Prefix(s.addr, n.len) /\ n.addr.fam = s.addr.fam
    BY <1>1, <1>3, <2>1, PrefixIsUnique DEF net_covers, contains
  <2>3. n.len \in 0..s.len
    BY <1>1, <1>3, <2>1, SMT DEF net_covers
  <2>4. counts[s.addr.fam][n.len] > 0
    BY <2>2, ZeroMeansNone
  <2> QED
    BY <2>2, <2>3, <2>4 DEF covering_bans
<1> QED
  BY <1>2, <1>3

\* covering_bans, although it looks only at the prefix lengths whose count is
\* positive, returns every stored truncated network that covers the subject, at
\* any time: the answer admit_ban bases "already covered" on.
THEOREM CoveringIsComplete == StoreSpec => []CoveringComplete
<1>1. CountsInv => CoveringComplete
  BY InvCovering
<1> QED
  BY <1>1, CountsAreExact, PTL

\* is_banned stops at the longest prefix of the address that is stored.
LEMMA InvLookup ==
  ASSUME CountsInv
  PROVE  LookupMostSpecific
<1> SUFFICES ASSUME NEW a \in Addr
             PROVE  LET covering == {n \in Stored : n = trunc(n) /\ contains(n, a)}
                    IN  /\ is_banned(a) = NoBan <=> covering = {}
                        /\ covering # {} =>
                             /\ is_banned(a) \in covering
                             /\ \A n \in covering : n.len <= is_banned(a).len
  BY DEF LookupMostSpecific
<1> DEFINE covering == {n \in Stored : n = trunc(n) /\ contains(n, a)}
           hits == {l \in 0..W : counts[a.fam][l] > 0 /\ Prefix(a, l) \in Stored}
           longest == CHOOSE l \in hits : \A k \in hits : k <= l
<1>1. is_banned(a) = IF hits = {} THEN NoBan ELSE Prefix(a, longest)
  BY DEF is_banned
<1>2. ASSUME NEW n \in covering
      PROVE  n.len \in hits /\ n = Prefix(a, n.len)
  <2>1. n \in Net /\ n.len \in 0..W
    BY KeysAssumption DEF Stored, Net
  <2>2. n = Prefix(a, n.len) /\ n.addr.fam = a.fam
    BY <2>1, PrefixIsUnique DEF contains
  <2> QED
    BY <2>1, <2>2, ZeroMeansNone
<1>3. ASSUME NEW l \in hits
      PROVE  Prefix(a, l) \in covering /\ Prefix(a, l).len = l
  <2>1. Prefix(a, l) \in Net /\ Prefix(a, l).len = l
    BY KeysAssumption DEF Stored, Prefix, trunc
  <2>2. Prefix(a, l) = trunc(Prefix(a, l))
    BY WAssumption DEF Prefix, trunc
  <2>3. contains(Prefix(a, l), a)
    BY <2>1, <2>2, PrefixIsUnique
  <2> QED
    BY <2>2, <2>1, <2>3
<1>4. hits # {} => longest \in hits /\ \A k \in hits : k <= longest
  <2> HIDE DEF longest
  <2> SUFFICES ASSUME hits # {}
               PROVE  \E l \in hits : \A k \in hits : k <= l
    BY DEF longest
  <2> DEFINE T == {W - l : l \in hits}
  <2>1. T \subseteq Nat /\ T # {}
    BY WAssumption, SMT
  <2>2. PICK x \in T : \A y \in T : x <= y
    <3> HIDE DEF T
    <3> QED
      BY <2>1, LeastNat
  <2>3. PICK l \in hits : x = W - l
    OBVIOUS
  <2>4. ASSUME NEW k \in hits
        PROVE  k <= l
    <3>1. k \in 0..W /\ l \in 0..W /\ W - k \in T
      OBVIOUS
    <3> HIDE DEF T, hits
    <3> QED
      BY <2>2, <2>3, <3>1, WAssumption, SMT
  <2> QED
    BY <2>4
<1> HIDE DEF hits, longest
<1>5. CASE hits = {}
  <2>1. covering = {}
    BY <1>2, <1>5
  <2> QED
    BY <1>1, <1>5, <2>1
<1>6. CASE hits # {}
  <2>1. is_banned(a) = Prefix(a, longest) /\ Prefix(a, longest) \in covering
    BY <1>1, <1>3, <1>4, <1>6
  <2>2. Prefix(a, longest) # NoBan
    BY <2>1, SentinelAssumption DEF Stored
  <2>3. \A n \in covering : n.len <= Prefix(a, longest).len
    BY <1>2, <1>3, <1>4, <1>6
  <2> HIDE DEF covering
  <2> QED
    BY <2>1, <2>2, <2>3 DEF covering
<1> QED
  BY <1>5, <1>6

-----------------------------------------------------------------------------
(* What dedup_overlapping keeps does not overlap.                          *)

LEMMA BeforeTransitive ==
  ASSUME NEW m \in Net, NEW k \in Net, NEW n \in Net, NetBefore(m, k), NetBefore(k, n)
  PROVE  NetBefore(m, n)
<1>1. CASE m.addr.fam # k.addr.fam \/ k.addr.fam # n.addr.fam
  BY <1>1, NetParts, FamilyAssumption DEF NetBefore
<1>2. CASE m.addr.fam = k.addr.fam /\ k.addr.fam = n.addr.fam
  <2>1. CASE m.addr.bits = k.addr.bits \/ k.addr.bits = n.addr.bits
    BY <1>2, <2>1, NetParts, SMT DEF NetBefore
  <2>2. CASE m.addr.bits # k.addr.bits /\ k.addr.bits # n.addr.bits
    <3>1. PICK i \in 1..W : /\ m.addr.bits[i] < k.addr.bits[i]
                            /\ \A j \in 1..i-1 : m.addr.bits[j] = k.addr.bits[j]
      BY <1>2, <2>2 DEF NetBefore
    <3>2. PICK p \in 1..W : /\ k.addr.bits[p] < n.addr.bits[p]
                            /\ \A j \in 1..p-1 : k.addr.bits[j] = n.addr.bits[j]
      BY <1>2, <2>2 DEF NetBefore
    <3> DEFINE q == IF i < p THEN i ELSE p
    <3>3. q \in 1..W /\ \A j \in 1..q-1 : m.addr.bits[j] = n.addr.bits[j]
      BY <3>1, <3>2, SMT
    <3>4. m.addr.bits[q] < n.addr.bits[q]
      BY <3>1, <3>2, NetParts, SMT
    <3> HIDE DEF q
    <3> QED
      BY <1>2, <3>3, <3>4 DEF NetBefore
  <2> QED
    BY <2>1, <2>2
<1> QED
  BY <1>1, <1>2

\* A finite set of networks has a first one.
LEMMA FirstNet ==
  ASSUME NEW N, N \subseteq Net, N # {}, IsFiniteSet(N)
  PROVE  \E k \in N : \A j \in N : ~NetBefore(j, k)
<1> DEFINE Below(k) == {j \in N : NetBefore(j, k)}
           T == {Cardinality(Below(k)) : k \in N}
<1>1. \A k \in N : IsFiniteSet(Below(k)) /\ Cardinality(Below(k)) \in Nat
  BY FS_Subset, FS_CardinalityType
<1>2. PICK k \in N : \A j \in N : Cardinality(Below(k)) <= Cardinality(Below(j))
  <2> HIDE DEF Below
  <2>1. T \subseteq Nat /\ T # {}
    BY <1>1
  <2>2. PICK x \in T : \A y \in T : x <= y
    <3> HIDE DEF T
    <3> QED
      BY <2>1, LeastNat
  <2> QED
    BY <2>2
<1>3. ASSUME NEW j \in N, NetBefore(j, k)
      PROVE  FALSE
  <2>1. Below(j) \subseteq Below(k)
    BY <1>3, BeforeTransitive
  <2>2. j \in Below(k) /\ j \notin Below(j)
    BY <1>3, BeforeIrreflexive
  <2>3. Below(j) # Below(k)
    BY <2>2
  <2> HIDE DEF Below
  <2>4. Cardinality(Below(j)) < Cardinality(Below(k))
    BY <1>1, <2>1, <2>3, FS_Subset, SMT
  <2> QED
    BY <1>1, <1>2, <2>4, SMT
<1> QED
  BY <1>2, <1>3

\* No network of the result of dedup_overlapping lies in another: the first one
\* inside m would have had m as the last network pushed before it.
LEMMA DedupNested ==
  ASSUME NEW nets, nets \subseteq Net, IsFiniteSet(nets),
         NEW m \in dedup_overlapping(nets), NEW n \in dedup_overlapping(nets),
         m # n, net_covers(m, n)
  PROVE  FALSE
<1> DEFINE S == {trunc(x) : x \in nets}
           K == dedup_overlapping(nets)
           N == {k \in K : k # m /\ net_covers(m, k)}
<1>1. /\ \A k \in S : Truncated(k)
      /\ K \subseteq S /\ Pushed(S, K)
  BY DedupPushed
<1>2. IsFiniteSet(S)
  <2> DEFINE f == [x \in nets |-> trunc(x)]
  <2>1. f \in Surjection(nets, S)
    BY DEF Surjection
  <2> HIDE DEF f
  <2> QED
    BY <2>1, FS_Surjection
<1> HIDE DEF S, K
<1>3. N \subseteq Net /\ N # {} /\ IsFiniteSet(N)
  <2>1. N \subseteq S
    BY <1>1
  <2>2. N \subseteq Net
    BY <1>1 DEF Truncated
  <2>3. n \in N
    BY DEF K
  <2> QED
    BY <1>2, <2>1, <2>2, <2>3, FS_Subset
<1>4. PICK k \in N : \A j \in N : ~NetBefore(j, k)
  <2> HIDE DEF N
  <2> QED
    BY <1>3, FirstNet
<1>5. m \in K /\ Truncated(m) /\ m \in Net
  BY <1>1 DEF K, Truncated
<1>6. Truncated(k) /\ k \in Net /\ k \in S /\ NetBefore(m, k)
  BY <1>1, <1>4, <1>5, CoversBefore DEF Truncated
<1>7. ASSUME NEW l \in K, NetBefore(l, k), l # m
      PROVE  NetBefore(l, m)
  <2>1. Truncated(l) /\ l \in Net
    BY <1>1 DEF Truncated
  <2>2. NetBefore(m, l) => net_covers(m, l)
    BY <1>4, <1>5, <1>6, <1>7, <2>1, CoversBetween
  <2>3. ~NetBefore(m, l)
    BY <1>4, <1>7, <2>2
  <2> QED
    BY <1>5, <1>7, <2>1, <2>3, BeforeTotal
<1>8. IsLast(m, k, K)
  BY <1>5, <1>6, <1>7 DEF IsLast
<1> QED
  BY <1>1, <1>4, <1>5, <1>6, <1>8 DEF Pushed

\* The intervals dedup_overlapping hands to nft never overlap: "nftables interval
\* sets reject overlapping ranges".
THEOREM DedupDisjoint ==
  ASSUME NEW nets, nets \subseteq Net, IsFiniteSet(nets),
         NEW m \in dedup_overlapping(nets), NEW n \in dedup_overlapping(nets), m # n
  PROVE  ~nets_overlap(m, n)
<1>1. m \in Net /\ n \in Net
  BY DedupPushed DEF Truncated
<1>2. ~net_covers(m, n) /\ ~net_covers(n, m)
  BY DedupNested
<1>3. nets_overlap(m, n) => net_covers(m, n) \/ net_covers(n, m)
  BY <1>1, NetParts, SMT DEF nets_overlap, net_covers, contains
<1> QED
  BY <1>2, <1>3

\* Whatever reads the ban store is right about it at any time: is_banned returns
\* the most specific ban, and the intervals sync_full sends to nft are disjoint
\* and block the addresses of the stored bans, no more and no fewer.
THEOREM ViewsAreExact == StoreSpec => []ViewsExact
<1>1. ASSUME CountsInv
      PROVE  ViewsExact
  <2>1. Stored \subseteq Net /\ IsFiniteSet(Stored)
    BY KeysAssumption, FS_Subset, Stored \subseteq Keys DEF Stored
  <2>2. Blocked(dedup_overlapping(Stored)) = Blocked(Stored)
    BY <2>1, DedupBlocksSame
  <2>3. \A m, n \in dedup_overlapping(Stored) : m # n => ~nets_overlap(m, n)
    BY <2>1, DedupDisjoint
  <2> QED
    BY <1>1, <2>2, <2>3, InvLookup DEF ViewsExact
<1> QED
  BY <1>1, CountsAreExact, PTL

-----------------------------------------------------------------------------
(* The replicated record. *)

USE SkewAssumption, HlcAssumption, CrdtAssumption

\* r is what the updates S amount to: its fields are the extrema and the unions
\* of theirs.
Joins(r, S) ==
  /\ \A u \in S : NotAfter(r.first_seen, u.first_seen)
  /\ \E u \in S : u.first_seen = r.first_seen
  /\ \A u \in S : NotAfter(u.ban_until, r.ban_until)
  /\ \E u \in S : u.ban_until = r.ban_until
  /\ \A u \in S : u.severity <= r.severity
  /\ \E u \in S : u.severity = r.severity
  /\ r.reporters = UNION {u.reporters : u \in S}
  /\ r.tombstone_reporters = UNION {u.tombstone_reporters : u \in S}
  /\ r.tombstone = Quorate(r.tombstone_reporters)

Inv ==
  /\ TypeOK
  /\ \A i \in Nodes : rec[i] = NoRecord <=> seen[i] = {}
  /\ \A i \in Nodes : rec[i] # NoRecord => Joins(rec[i], seen[i])
  /\ \A i \in Nodes : \A u \in seen[i] : u.tombstone_reporters \subseteq voted

-----------------------------------------------------------------------------
(* The order of timestamps. *)

LEMMA NotAfterOrder ==
  ASSUME NEW a \in HlcTimestamp, NEW b \in HlcTimestamp, NEW c \in HlcTimestamp
  PROVE  /\ NotAfter(a, a)
         /\ NotAfter(a, b) /\ NotAfter(b, c) => NotAfter(a, c)
         /\ NotAfter(a, b) /\ NotAfter(b, a) => a = b
  BY SMT DEF HlcTimestamp, NotAfter, Before

LEMMA Extrema ==
  ASSUME NEW a \in HlcTimestamp, NEW b \in HlcTimestamp
  PROVE  /\ Later(a, b) \in {a, b} /\ NotAfter(a, Later(a, b)) /\ NotAfter(b, Later(a, b))
         /\ Earlier(a, b) \in {a, b} /\ NotAfter(Earlier(a, b), a) /\ NotAfter(Earlier(a, b), b)
  BY SMT DEF HlcTimestamp, NotAfter, Before, Later, Earlier

LEMMA TickType ==
  ASSUME NEW h \in HlcTimestamp, NEW now \in Time
  PROVE  tick(h, now) \in HlcTimestamp
  BY SMT DEF HlcTimestamp, tick, Stamp

LEMMA QuorateType == \A V : Quorate(V) \in BOOLEAN
  BY DEF Quorate

-----------------------------------------------------------------------------
(* The operations on records. *)

LEMMA MergeType ==
  ASSUME NEW a \in CrdtBanRecord, NEW b \in CrdtBanRecord
  PROVE  merge(a, b) \in CrdtBanRecord
  <1>1. /\ Later(a.ban_until, b.ban_until) \in HlcTimestamp
        /\ Later(a.last_modified, b.last_modified) \in HlcTimestamp
        /\ Earlier(a.first_seen, b.first_seen) \in HlcTimestamp
    BY DEF CrdtBanRecord, Later, Earlier
  <1>2. Higher(a.severity, b.severity) \in Nat
    BY DEF CrdtBanRecord, Higher
  <1> QED
    BY <1>1, <1>2, QuorateType DEF CrdtBanRecord, merge

\* Merging what S and T amount to gives what S and T together amount to.
LEMMA MergeJoins ==
  ASSUME NEW S \in SUBSET CrdtBanRecord, NEW T \in SUBSET CrdtBanRecord,
         NEW a \in CrdtBanRecord, NEW b \in CrdtBanRecord, Joins(a, S), Joins(b, T)
  PROVE  Joins(merge(a, b), S \cup T)
  <1> DEFINE m == merge(a, b)
  <1>0. /\ a.first_seen \in HlcTimestamp /\ b.first_seen \in HlcTimestamp
        /\ a.ban_until \in HlcTimestamp /\ b.ban_until \in HlcTimestamp
        /\ a.severity \in Nat /\ b.severity \in Nat
        /\ \A u \in S \cup T : /\ u.first_seen \in HlcTimestamp
                               /\ u.ban_until \in HlcTimestamp /\ u.severity \in Nat
    BY DEF CrdtBanRecord
  <1>1. /\ m.first_seen = Earlier(a.first_seen, b.first_seen)
        /\ m.ban_until = Later(a.ban_until, b.ban_until)
        /\ m.severity = Higher(a.severity, b.severity)
        /\ m.reporters = a.reporters \cup b.reporters
        /\ m.tombstone_reporters = a.tombstone_reporters \cup b.tombstone_reporters
        /\ m.tombstone = Quorate(m.tombstone_reporters)
    BY DEF merge
  <1> HIDE DEF m
  <1>a. /\ m.first_seen \in {a.first_seen, b.first_seen} /\ m.first_seen \in HlcTimestamp
        /\ NotAfter(m.first_seen, a.first_seen) /\ NotAfter(m.first_seen, b.first_seen)
    BY <1>0, <1>1, Extrema, ZenonT(40)
  <1>b. /\ m.ban_until \in {a.ban_until, b.ban_until} /\ m.ban_until \in HlcTimestamp
        /\ NotAfter(a.ban_until, m.ban_until) /\ NotAfter(b.ban_until, m.ban_until)
    BY <1>0, <1>1, Extrema, ZenonT(40)
  <1>2. \A u \in S \cup T : NotAfter(m.first_seen, u.first_seen)
    <2> TAKE u \in S \cup T
    <2>1. CASE u \in S
      <3>1. NotAfter(a.first_seen, u.first_seen)
        BY <2>1 DEF Joins
      <3> QED
        BY <3>1, <1>0, <1>a, NotAfterOrder
    <2>2. CASE u \in T
      <3>1. NotAfter(b.first_seen, u.first_seen)
        BY <2>2 DEF Joins
      <3> QED
        BY <3>1, <1>0, <1>a, NotAfterOrder
    <2> QED
      BY <2>1, <2>2
  <1>3. \E u \in S \cup T : u.first_seen = m.first_seen
    BY <1>a DEF Joins
  <1>4. \A u \in S \cup T : NotAfter(u.ban_until, m.ban_until)
    <2> TAKE u \in S \cup T
    <2>1. CASE u \in S
      <3>1. NotAfter(u.ban_until, a.ban_until)
        BY <2>1 DEF Joins
      <3> QED
        BY <3>1, <1>0, <1>b, NotAfterOrder, ZenonT(40)
    <2>2. CASE u \in T
      <3>1. NotAfter(u.ban_until, b.ban_until)
        BY <2>2 DEF Joins
      <3> QED
        BY <3>1, <1>0, <1>b, NotAfterOrder
    <2> QED
      BY <2>1, <2>2
  <1>5. \E u \in S \cup T : u.ban_until = m.ban_until
    BY <1>b DEF Joins
  <1>6. \A u \in S \cup T : u.severity <= m.severity
    BY <1>0, <1>1, SMT DEF Joins, Higher
  <1>7. \E u \in S \cup T : u.severity = m.severity
    BY <1>0, <1>1 DEF Joins, Higher
  <1>8. m.reporters = UNION {u.reporters : u \in S \cup T}
    BY <1>1, SMT DEF Joins
  <1>9. m.tombstone_reporters = UNION {u.tombstone_reporters : u \in S \cup T}
    BY <1>1, SMT DEF Joins
  <1> QED
    BY <1>1, <1>2, <1>3, <1>4, <1>5, <1>6, <1>7, <1>8, <1>9 DEF Joins, m

LEMMA SingleJoins ==
  ASSUME NEW u \in CrdtBanRecord, u.tombstone = Quorate(u.tombstone_reporters)
  PROVE  Joins(u, {u})
  <1>1. /\ u.first_seen \in HlcTimestamp /\ u.ban_until \in HlcTimestamp /\ u.severity \in Nat
    BY DEF CrdtBanRecord
  <1>2. UNION {v.reporters : v \in {u}} = u.reporters
    OBVIOUS
  <1>3. UNION {v.tombstone_reporters : v \in {u}} = u.tombstone_reporters
    OBVIOUS
  <1> QED
    BY <1>1, <1>2, <1>3, NotAfterOrder, SMT DEF Joins

LEMMA NewRecord ==
  ASSUME NEW i \in Nodes, NEW s \in Severity, NEW c \in Content, NEW ts \in HlcTimestamp
  PROVE  /\ new(i, s, c, ts) \in CrdtBanRecord
         /\ new(i, s, c, ts).tombstone_reporters = {}
         /\ Joins(new(i, s, c, ts), {new(i, s, c, ts)})
  <1>1. new(i, s, c, ts) \in CrdtBanRecord
    BY SMT DEF new, CrdtBanRecord, HlcTimestamp, Stamp
  <1>2. /\ new(i, s, c, ts).tombstone_reporters = {}
        /\ new(i, s, c, ts).tombstone = FALSE
    BY DEF new
  <1>3. Quorate({}) = FALSE
    BY DEF Quorate
  <1> QED
    BY <1>1, <1>2, <1>3, SingleJoins

\* A vote, and an extension, amount to the record's updates and themselves.
LEMMA VoteJoins ==
  ASSUME NEW r \in CrdtBanRecord, NEW S \in SUBSET CrdtBanRecord, Joins(r, S),
         NEW i \in Nodes, NEW ts \in HlcTimestamp
  PROVE  /\ tombstoned(r, i, ts) \in CrdtBanRecord
         /\ Joins(tombstoned(r, i, ts), S \cup {tombstoned(r, i, ts)})
  <1> DEFINE u == tombstoned(r, i, ts)
  <1>1. u \in CrdtBanRecord
    BY QuorateType DEF tombstoned, CrdtBanRecord
  <1>2. /\ u.first_seen = r.first_seen /\ u.ban_until = r.ban_until
        /\ u.severity = r.severity /\ u.reporters = r.reporters
        /\ u.tombstone_reporters = r.tombstone_reporters \cup {i}
        /\ u.tombstone = Quorate(u.tombstone_reporters)
    BY DEF tombstoned
  <1>3. r.first_seen \in HlcTimestamp /\ r.ban_until \in HlcTimestamp /\ r.severity \in Nat
    BY DEF CrdtBanRecord
  <1> HIDE DEF u
  <1>4. u.reporters = UNION {v.reporters : v \in S \cup {u}}
    BY <1>2, ZenonT(40) DEF Joins
  <1>5. u.tombstone_reporters = UNION {v.tombstone_reporters : v \in S \cup {u}}
    BY <1>2, SMT DEF Joins
  <1>6. Joins(u, S \cup {u})
    BY <1>2, <1>3, <1>4, <1>5, NotAfterOrder DEF Joins
  <1> QED
    BY <1>1, <1>6 DEF u

LEMMA ExtensionJoins ==
  ASSUME NEW r \in CrdtBanRecord, NEW S \in SUBSET CrdtBanRecord, Joins(r, S),
         NEW ms \in Extension, NEW ts \in HlcTimestamp
  PROVE  /\ extended(r, ms, ts) \in CrdtBanRecord
         /\ extended(r, ms, ts).tombstone_reporters = r.tombstone_reporters
         /\ Joins(extended(r, ms, ts), S \cup {extended(r, ms, ts)})
  <1> DEFINE u == extended(r, ms, ts)
  <1>0. r.first_seen \in HlcTimestamp /\ r.ban_until \in HlcTimestamp /\ r.severity \in Nat
    BY DEF CrdtBanRecord
  <1>1. u.ban_until \in HlcTimestamp /\ NotAfter(r.ban_until, u.ban_until)
    BY <1>0, SMT DEF extended, Stamp, HlcTimestamp, NotAfter, Before
  <1>2. /\ u.first_seen = r.first_seen
        /\ u.severity = r.severity /\ u.reporters = r.reporters
        /\ u.tombstone_reporters = r.tombstone_reporters
        /\ u.tombstone = r.tombstone
    BY DEF extended
  <1>3. u \in CrdtBanRecord
    BY <1>1 DEF extended, CrdtBanRecord
  <1> HIDE DEF u
  <1>4. u.reporters = UNION {v.reporters : v \in S \cup {u}}
    BY <1>2 DEF Joins
  <1>5. u.tombstone_reporters = UNION {v.tombstone_reporters : v \in S \cup {u}}
    BY <1>2 DEF Joins
  <1>6. \A v \in S \cup {u} : NotAfter(v.ban_until, u.ban_until)
    <2>1. \A v \in S : v.ban_until \in HlcTimestamp
      BY DEF CrdtBanRecord
    <2> QED
      BY <1>0, <1>1, <2>1, NotAfterOrder, SMT DEF Joins
  <1>7. Joins(u, S \cup {u})
    BY <1>0, <1>2, <1>4, <1>5, <1>6, NotAfterOrder DEF Joins
  <1> QED
    BY <1>2, <1>3, <1>7 DEF u

-----------------------------------------------------------------------------
(* The invariant. *)

LEMMA InitInv == Init => Inv
  <1> SUFFICES ASSUME Init PROVE Inv
    OBVIOUS
  <1>1. TypeOK
    <2>1. PICK now \in [Nodes -> Time] : hlc = [i \in Nodes |-> fresh(Hash[i], now[i])]
      BY DEF Init
    <2>2. \A i \in Nodes : fresh(Hash[i], now[i]) \in HlcTimestamp
      BY DEF fresh, Stamp, HlcTimestamp
    <2> QED
      BY <2>1, <2>2 DEF Init, TypeOK
  <1> QED
    BY <1>1 DEF Init, Inv

\* A replica now has r, which its updates and S amount to.
LEMMA StoreInv ==
  ASSUME Inv, NEW i \in Nodes, NEW r \in CrdtBanRecord, NEW S \in SUBSET CrdtBanRecord,
         S # {}, Joins(r, seen[i] \cup S),
         rec' = [rec EXCEPT ![i] = r], seen' = [seen EXCEPT ![i] = seen[i] \cup S],
         hlc' \in [Nodes -> HlcTimestamp], updates' \in Nat,
         voted \subseteq voted', voted' \subseteq Nodes,
         \A u \in S : u.tombstone_reporters \subseteq voted'
  PROVE  Inv'
  <1>1. TypeOK'
    BY DEF Inv, TypeOK
  <1>2. \A k \in Nodes : /\ rec'[k] = IF k = i THEN r ELSE rec[k]
                         /\ seen'[k] = IF k = i THEN seen[i] \cup S ELSE seen[k]
    BY DEF Inv, TypeOK
  <1>3. \A k \in Nodes : (rec[k] = NoRecord <=> seen[k] = {})'
    BY <1>2, NoRecordAssumption, SMT DEF Inv
  <1>4. \A k \in Nodes : (rec[k] # NoRecord => Joins(rec[k], seen[k]))'
    BY <1>2 DEF Inv
  <1>5. \A k \in Nodes : (\A u \in seen[k] : u.tombstone_reporters \subseteq voted)'
    BY <1>2, SMT DEF Inv
  <1> QED
    BY <1>1, <1>3, <1>4, <1>5 DEF Inv

LEMMA IncludeJoins ==
  ASSUME Inv, NEW i \in Nodes, NEW u \in CrdtBanRecord, NEW S \in SUBSET CrdtBanRecord,
         Joins(u, S)
  PROVE  /\ Include(rec[i], u) \in CrdtBanRecord
         /\ Joins(Include(rec[i], u), seen[i] \cup S)
  <1>1. CASE rec[i] = NoRecord
    <2>1. seen[i] \cup S = S
      BY <1>1 DEF Inv
    <2> QED
      BY <1>1, <2>1 DEF Include
  <1>2. CASE rec[i] # NoRecord
    <2>1. rec[i] \in CrdtBanRecord /\ seen[i] \in SUBSET CrdtBanRecord /\ Joins(rec[i], seen[i])
      BY <1>2 DEF Inv, TypeOK
    <2> QED
      BY <1>2, <2>1, MergeJoins, MergeType DEF Include
  <1> QED
    BY <1>1, <1>2

LEMMA NextInv == Inv /\ [Next]_vars => Inv'
  <1> SUFFICES ASSUME Inv, [Next]_vars PROVE Inv'
    OBVIOUS
  <1>0. ASSUME NEW i \in Nodes, NEW now \in Time
        PROVE  /\ tick(hlc[i], now) \in HlcTimestamp
               /\ [hlc EXCEPT ![i] = tick(hlc[i], now)] \in [Nodes -> HlcTimestamp]
    <2>1. hlc[i] \in HlcTimestamp /\ hlc \in [Nodes -> HlcTimestamp]
      BY DEF Inv, TypeOK
    <2>2. tick(hlc[i], now) \in HlcTimestamp
      BY <2>1, TickType
    <2> QED
      BY <2>1, <2>2
  <1>t. updates \in Nat /\ updates + 1 \in Nat /\ voted \subseteq Nodes
    BY SMT DEF Inv, TypeOK
  <1>1. ASSUME NEW i \in Nodes, NEW now \in Time, NEW s \in Severity, NEW c \in Content,
               Report(i, s, c, now)
        PROVE  Inv'
    <2> DEFINE u == new(i, s, c, tick(hlc[i], now))
    <2>1. u \in CrdtBanRecord /\ u.tombstone_reporters = {} /\ Joins(u, {u})
      BY <1>0, NewRecord
    <2>2. /\ rec' = [rec EXCEPT ![i] = Include(rec[i], u)]
          /\ seen' = [seen EXCEPT ![i] = seen[i] \cup {u}]
          /\ hlc' = [hlc EXCEPT ![i] = tick(hlc[i], now)]
          /\ updates' = updates + 1 /\ voted' = voted
      BY <1>1 DEF Report, Store
    <2> HIDE DEF u
    <2>3. Include(rec[i], u) \in CrdtBanRecord /\ Joins(Include(rec[i], u), seen[i] \cup {u})
      BY <2>1, IncludeJoins
    <2>5. {u} # {} /\ {u} \in SUBSET CrdtBanRecord
      BY <2>1
    <2>6. voted \subseteq voted' /\ voted' \subseteq Nodes /\ updates' \in Nat
      BY <1>t, <2>2
    <2>7. \A v \in {u} : v.tombstone_reporters \subseteq voted'
      BY <2>1
    <2>8. hlc' \in [Nodes -> HlcTimestamp]
      BY <1>0, <2>2
    <2> QED
      BY <2>2, <2>3, <2>5, <2>6, <2>7, <2>8, StoreInv
  <1>2. ASSUME NEW i \in Nodes, NEW now \in Time, Tombstone(i, now)
        PROVE  Inv'
    <2> DEFINE u == tombstoned(rec[i], i, tick(hlc[i], now))
    <2>1. /\ rec' = [rec EXCEPT ![i] = u]
          /\ seen' = [seen EXCEPT ![i] = seen[i] \cup {u}]
          /\ hlc' = [hlc EXCEPT ![i] = tick(hlc[i], now)]
          /\ updates' = updates + 1 /\ voted' = voted \cup {i} /\ rec[i] # NoRecord
      BY <1>2 DEF Tombstone, Store
    <2>2. /\ rec[i] \in CrdtBanRecord /\ seen[i] \in SUBSET CrdtBanRecord
          /\ Joins(rec[i], seen[i])
      BY <2>1 DEF Inv, TypeOK
    <2>3. u \in CrdtBanRecord /\ Joins(u, seen[i] \cup {u})
      BY <1>0, <2>2, VoteJoins
    <2>4. u.tombstone_reporters \subseteq voted \cup {i}
      <3>1. u.tombstone_reporters = rec[i].tombstone_reporters \cup {i}
        BY DEF tombstoned
      <3>2. rec[i].tombstone_reporters \subseteq voted
        BY <2>2, SMT DEF Inv, Joins
      <3> QED
        BY <3>1, <3>2
    <2> HIDE DEF u
    <2>5. {u} # {} /\ {u} \in SUBSET CrdtBanRecord
      BY <2>3
    <2>6. voted \subseteq voted' /\ voted' \subseteq Nodes /\ updates' \in Nat
      BY <1>t, <2>1
    <2>7. \A v \in {u} : v.tombstone_reporters \subseteq voted'
      BY <2>1, <2>3, <2>4
    <2>8. hlc' \in [Nodes -> HlcTimestamp]
      BY <1>0, <2>1
    <2> QED
      BY <2>1, <2>3, <2>5, <2>6, <2>7, <2>8, StoreInv
  <1>3. ASSUME NEW i \in Nodes, NEW now \in Time, NEW ms \in Extension, Extend(i, ms, now)
        PROVE  Inv'
    <2> DEFINE u == extended(rec[i], ms, tick(hlc[i], now))
    <2>1. /\ rec' = [rec EXCEPT ![i] = u]
          /\ seen' = [seen EXCEPT ![i] = seen[i] \cup {u}]
          /\ hlc' = [hlc EXCEPT ![i] = tick(hlc[i], now)]
          /\ updates' = updates + 1 /\ voted' = voted /\ rec[i] # NoRecord
      BY <1>3 DEF Extend, Store
    <2>2. /\ rec[i] \in CrdtBanRecord /\ seen[i] \in SUBSET CrdtBanRecord
          /\ Joins(rec[i], seen[i])
      BY <2>1 DEF Inv, TypeOK
    <2>3. /\ u \in CrdtBanRecord /\ u.tombstone_reporters = rec[i].tombstone_reporters
          /\ Joins(u, seen[i] \cup {u})
      <3>1. tick(hlc[i], now) \in HlcTimestamp
        BY <1>0
      <3> QED
        BY <2>2, <3>1, ExtensionJoins, ZenonT(30)
    <2>4. rec[i].tombstone_reporters \subseteq voted
      BY <2>2, SMT DEF Inv, Joins
    <2> HIDE DEF u
    <2>5. {u} # {} /\ {u} \in SUBSET CrdtBanRecord
      BY <2>3
    <2>6. voted \subseteq voted' /\ voted' \subseteq Nodes /\ updates' \in Nat
      BY <1>t, <2>1
    <2>7. \A v \in {u} : v.tombstone_reporters \subseteq voted'
      BY <2>1, <2>3, <2>4
    <2>8. hlc' \in [Nodes -> HlcTimestamp]
      BY <1>0, <2>1
    <2> QED
      BY <2>1, <2>3, <2>5, <2>6, <2>7, <2>8, StoreInv
  <1>4. ASSUME NEW i \in Nodes, NEW j \in Nodes, Exchange(i, j)
        PROVE  Inv'
    <2>1. /\ rec[j] \in CrdtBanRecord /\ seen[j] \in SUBSET CrdtBanRecord
          /\ Joins(rec[j], seen[j]) /\ seen[j] # {}
          /\ \A u \in seen[j] : u.tombstone_reporters \subseteq voted
      BY <1>4 DEF Exchange, Inv, TypeOK
    <2>2. /\ Include(rec[i], rec[j]) \in CrdtBanRecord
          /\ Joins(Include(rec[i], rec[j]), seen[i] \cup seen[j])
      BY <2>1, IncludeJoins
    <2>3. /\ rec' = [rec EXCEPT ![i] = Include(rec[i], rec[j])]
          /\ seen' = [seen EXCEPT ![i] = seen[i] \cup seen[j]]
          /\ hlc' \in [Nodes -> HlcTimestamp] /\ updates' = updates /\ voted' = voted
      BY <1>4 DEF Exchange, Inv, TypeOK
    <2> QED
      BY <1>t, <2>1, <2>2, <2>3, StoreInv
  <1>5. ASSUME NEW i \in Nodes, NEW now \in Time, Restart(i, now)
        PROVE  Inv'
    <2>1. fresh(Hash[i], now) \in HlcTimestamp
      BY DEF fresh, Stamp, HlcTimestamp
    <2> QED
      BY <1>5, <2>1 DEF Restart, Inv, TypeOK
  <1>6. ASSUME UNCHANGED vars PROVE Inv'
    BY <1>6 DEF vars, Inv, TypeOK
  <1> QED
    BY <1>1, <1>2, <1>3, <1>4, <1>5, <1>6 DEF Next

LEMMA InvInvariant == Spec => []Inv
  BY InitInv, NextInv, PTL DEF Spec

-----------------------------------------------------------------------------
\* What a set of updates amounts to is unique: the order in which a replica
\* received them leaves no trace.
LEMMA JoinUnique ==
  ASSUME NEW S \in SUBSET CrdtBanRecord, NEW a \in CrdtBanRecord, NEW b \in CrdtBanRecord,
         Joins(a, S), Joins(b, S)
  PROVE  Core(a) = Core(b)
  <1>1. \A u \in S \cup {a, b} : /\ u.first_seen \in HlcTimestamp
                                /\ u.ban_until \in HlcTimestamp /\ u.severity \in Nat
    BY DEF CrdtBanRecord
  <1>2. NotAfter(a.first_seen, b.first_seen) /\ NotAfter(b.first_seen, a.first_seen)
    BY DEF Joins
  <1>3. NotAfter(a.ban_until, b.ban_until) /\ NotAfter(b.ban_until, a.ban_until)
    BY DEF Joins
  <1>4. a.severity <= b.severity /\ b.severity <= a.severity
    BY DEF Joins
  <1>5. a.first_seen = b.first_seen /\ a.ban_until = b.ban_until
    BY <1>1, <1>2, <1>3, NotAfterOrder
  <1>6. a.severity = b.severity
    BY <1>1, <1>4, SMT
  <1> QED
    BY <1>5, <1>6 DEF Joins, Core

\* Replicas that have received the same updates agree on the ban
\* (CrdtBanRecord::merge, tombstone and extend_ban; add_crdt_ban).
THEOREM Converges == Spec => []Converged
  <1>1. Inv => Converged
    <2> SUFFICES ASSUME Inv, NEW i \in Nodes, NEW j \in Nodes, seen[i] = seen[j], seen[i] # {}
                 PROVE  Core(rec[i]) = Core(rec[j])
      BY DEF Converged
    <2> QED
      BY JoinUnique, ZenonT(40) DEF Inv, TypeOK
  <1> QED
    BY <1>1, InvInvariant, PTL

\* A ban is cancelled at a replica exactly when the votes of two different nodes
\* have reached it, and every vote it counts was cast (TOMBSTONE_QUORUM).
THEOREM TombstoneIsExact == Spec => []TombstoneExact
  <1>1. Inv => TombstoneExact
    <2> SUFFICES ASSUME Inv, NEW i \in Nodes, rec[i] # NoRecord
                 PROVE  LET votes == UNION {u.tombstone_reporters : u \in seen[i]}
                        IN  votes \subseteq voted /\ (rec[i].tombstone <=> Quorate(votes))
      BY DEF TombstoneExact
    <2>1. Joins(rec[i], seen[i]) /\ \A u \in seen[i] : u.tombstone_reporters \subseteq voted
      BY DEF Inv
    <2>2. rec[i].tombstone_reporters = UNION {u.tombstone_reporters : u \in seen[i]}
      BY <2>1 DEF Joins
    <2>3. rec[i].tombstone = Quorate(rec[i].tombstone_reporters)
      BY <2>1 DEF Joins
    <2>4. UNION {u.tombstone_reporters : u \in seen[i]} \subseteq voted
      BY <2>1
    <2> QED
      BY <2>2, <2>3, <2>4
  <1> QED
    BY <1>1, InvInvariant, PTL

-----------------------------------------------------------------------------
(* How bans and reports spread.  The recursive functions behind a sum and   *)
(* behind repeated penalties exist, and induction follows the order in      *)
(* which they remove the elements of their set.                             *)

First(s) == CHOOSE x \in s : TRUE

LEMMA FirstRemoved ==
  ASSUME NEW S, IsFiniteSet(S), NEW s \in SUBSET S, s # {}
  PROVE  /\ First(s) \in S /\ s \ {First(s)} \in SUBSET S
         /\ Cardinality(s) \in Nat /\ Cardinality(s \ {First(s)}) = Cardinality(s) - 1
         /\ Cardinality(s \ {First(s)}) \in Nat
<1>1. First(s) \in s
  BY DEF First
<1>2. IsFiniteSet(s) /\ IsFiniteSet(s \ {First(s)})
  BY FS_Subset
<1>3. Cardinality(s \ {First(s)}) = Cardinality(s) - 1
  BY <1>1, <1>2, FS_RemoveElement
<1> QED
  BY <1>1, <1>2, <1>3, FS_CardinalityType

\* h is the fold of step over the subsets of S.
Unfolds(h, S, base, step) ==
  h = [s \in SUBSET S |-> IF s = {} THEN base ELSE step[<<First(s), h[s \ {First(s)}]>>]]

LEMMA FoldExists ==
  ASSUME NEW S, IsFiniteSet(S), NEW V, NEW base \in V, NEW step \in [S \X V -> V]
  PROVE  \E h \in [SUBSET S -> V] : Unfolds(h, S, base, step)
<1> DEFINE Sub(n) == {s \in SUBSET S : Cardinality(s) <= n}
           Value(h, s) == IF s = {} THEN base ELSE step[<<First(s), h[s \ {First(s)}]>>]
           G(h, n) == h \in [Sub(n) -> V] /\ \A s \in Sub(n) : h[s] = Value(h, s)
           Bad == {n \in Nat : ~\E h : G(h, n)}
<1>1. ASSUME Bad # {} PROVE FALSE
  <2>1. PICK m \in Bad : \A y \in Bad : ~(<<y, m>> \in OpToRel(<, Nat))
    BY <1>1, WFMin, NatLessThanWellFounded, Bad \subseteq Nat
  <2>2. m \in Nat /\ ~\E h : G(h, m)
    OBVIOUS
  <2>3. CASE m = 0
    <3> DEFINE h0 == [s \in Sub(m) |-> base]
    <3>1. ASSUME NEW s \in Sub(m) PROVE s = {}
      <4>1. s # {} => Cardinality(s \ {First(s)}) \in Nat /\ Cardinality(s \ {First(s)}) = Cardinality(s) - 1 /\ Cardinality(s) \in Nat
        BY FirstRemoved
      <4>2. Cardinality(s) <= 0
        BY <2>3
      <4> QED
        BY <4>1, <4>2, SMT
    <3>2. G(h0, m)
      BY <3>1
    <3> QED
      BY <3>2, <2>2
  <2>4. CASE m # 0
    <3>1. m - 1 \in Nat /\ m - 1 < m
      BY <2>2, <2>4, SMT
    <3>2. m - 1 \notin Bad
      BY <3>1, <2>1, <2>2 DEF OpToRel
    <3>3. PICK h : G(h, m - 1)
      BY <3>1, <3>2
    <3> DEFINE k == [s \in Sub(m) |-> Value(h, s)]
    <3>4. ASSUME NEW s \in Sub(m), s # {} PROVE s \ {First(s)} \in Sub(m - 1) /\ s \ {First(s)} \in Sub(m) /\ First(s) \in S
      <4>1. s \in SUBSET S /\ Cardinality(s) <= m
        OBVIOUS
      <4>2. /\ First(s) \in S /\ s \ {First(s)} \in SUBSET S
            /\ Cardinality(s) \in Nat /\ Cardinality(s \ {First(s)}) = Cardinality(s) - 1
        BY <3>4, <4>1, FirstRemoved
      <4>3. Cardinality(s \ {First(s)}) <= m - 1 /\ Cardinality(s \ {First(s)}) <= m
        BY <4>1, <4>2, <2>2, SMT
      <4> QED
        BY <4>2, <4>3
    <3>5. k \in [Sub(m) -> V]
      <4>1. ASSUME NEW s \in Sub(m) PROVE Value(h, s) \in V
        <5>1. CASE s = {}
          BY <5>1
        <5>2. CASE s # {}
          <6>1. h[s \ {First(s)}] \in V /\ First(s) \in S
            BY <5>2, <3>3, <3>4
          <6>2. step[<<First(s), h[s \ {First(s)}]>>] \in V
            BY <6>1
          <6> QED
            BY <5>2, <6>2
        <5> QED
          BY <5>1, <5>2
      <4> HIDE DEF Value, Sub
      <4> QED
        BY <4>1
    <3>6. ASSUME NEW s \in Sub(m) PROVE k[s] = Value(k, s)
      <4>1. CASE s = {}
        BY <4>1
      <4>2. CASE s # {}
        <5>1. s \ {First(s)} \in Sub(m - 1) /\ s \ {First(s)} \in Sub(m)
          BY <4>2, <3>4
        <5>2. k[s \ {First(s)}] = Value(h, s \ {First(s)})
          BY <5>1
        <5>3. h[s \ {First(s)}] = Value(h, s \ {First(s)})
          BY <5>1, <3>3
        <5>4. k[s] = Value(h, s)
          OBVIOUS
        <5> HIDE DEF k
        <5> QED
          BY <5>2, <5>3, <5>4
      <4> QED
        BY <4>1, <4>2
    <3>7. G(k, m)
      BY <3>5, <3>6
    <3> QED
      BY <3>7, <2>2
  <2> QED
    BY <2>3, <2>4
<1>2. Cardinality(S) \in Nat
  BY FS_CardinalityType
<1>3. PICK h : G(h, Cardinality(S))
  BY <1>1, <1>2
<1>4. Sub(Cardinality(S)) = SUBSET S
  <2>1. \A s \in SUBSET S : Cardinality(s) <= Cardinality(S)
    BY FS_Subset
  <2> QED
    BY <2>1
<1>5. h \in [SUBSET S -> V] /\ \A s \in SUBSET S : h[s] = Value(h, s)
  BY <1>3, <1>4
<1> QED
  BY <1>5 DEF Unfolds

\* Induction along the order in which a fold removes the elements.
LEMMA FoldInduction ==
  ASSUME NEW S, IsFiniteSet(S), NEW T, {} \in T,
         \A s \in SUBSET S : s # {} /\ s \ {First(s)} \in T => s \in T
  PROVE  SUBSET S \subseteq T
<1> DEFINE Bad == {n \in Nat : \E s \in SUBSET S : Cardinality(s) = n /\ s \notin T}
<1>1. ASSUME Bad # {} PROVE FALSE
  <2>1. PICK m \in Bad : \A y \in Bad : ~(<<y, m>> \in OpToRel(<, Nat))
    <3>1. Bad \subseteq Nat
      OBVIOUS
    <3> HIDE DEF Bad
    <3> QED
      BY <1>1, <3>1, WFMin, NatLessThanWellFounded
  <2>2. PICK s \in SUBSET S : Cardinality(s) = m /\ s \notin T
    BY <2>1
  <2>3. s # {}
    BY <2>2
  <2>4. /\ s \ {First(s)} \in SUBSET S
        /\ Cardinality(s) \in Nat /\ Cardinality(s \ {First(s)}) = Cardinality(s) - 1
        /\ Cardinality(s \ {First(s)}) \in Nat
    BY <2>3, FirstRemoved
  <2>5. Cardinality(s \ {First(s)}) < m
    BY <2>4, <2>2, SMT
  <2>6. Cardinality(s \ {First(s)}) \notin Bad
    BY <2>1, <2>2, <2>4, <2>5 DEF OpToRel
  <2>7. s \ {First(s)} \in T
    BY <2>4, <2>6
  <2> QED
    BY <2>2, <2>3, <2>7
<1>2. \A s \in SUBSET S : Cardinality(s) \in Nat
  BY FS_Subset, FS_CardinalityType
<1> QED
  BY <1>1, <1>2

\* The sum of f, term by term.
SumsUp(h, f, S) ==
  /\ h \in [SUBSET S -> Nat] /\ SumFunction(f) = h[S]
  /\ \A s \in SUBSET S : h[s] = IF s = {} THEN 0 ELSE f[First(s)] + h[s \ {First(s)}]

LEMMA SumUnfolds ==
  ASSUME NEW S, IsFiniteSet(S), NEW f \in [S -> Nat]
  PROVE  \E h : SumsUp(h, f, S)
<1> DEFINE step == [p \in S \X Nat |-> f[p[1]] + p[2]]
           F(h) == [s \in SUBSET S |-> IF s = {} THEN 0 ELSE f[First(s)] + h[s \ {First(s)}]]
           H == CHOOSE h : h = F(h)
<1>1. step \in [S \X Nat -> Nat]
  <2>1. \A p \in S \X Nat : f[p[1]] + p[2] \in Nat
    BY SMT
  <2> QED
    BY <2>1
<1>2. PICK h : Unfolds(h, S, 0, step) /\ h \in [SUBSET S -> Nat]
  BY <1>1, FoldExists, 0 \in Nat
<1>3. h = F(h)
  <2>1. ASSUME NEW s \in SUBSET S, s # {}
        PROVE  step[<<First(s), h[s \ {First(s)}]>>] = f[First(s)] + h[s \ {First(s)}]
    <3>1. First(s) \in S /\ s \ {First(s)} \in SUBSET S
      BY <2>1, FirstRemoved
    <3>2. <<First(s), h[s \ {First(s)}]>> \in S \X Nat
      BY <3>1, <1>2
    <3> QED
      BY <3>2
  <2> HIDE DEF step
  <2> QED
    BY <1>2, <2>1 DEF Unfolds
<1>4. H = F(H)
  <2> HIDE DEF F
  <2> QED
    BY <1>3
<1> HIDE DEF H
<1>5. /\ H = [s \in SUBSET S |-> H[s]]
      /\ \A s \in SUBSET S : H[s] = IF s = {} THEN 0 ELSE f[First(s)] + H[s \ {First(s)}]
  BY <1>4
<1>6. SUBSET S \subseteq {s \in SUBSET S : H[s] \in Nat}
  <2> DEFINE T == {s \in SUBSET S : H[s] \in Nat}
  <2>1. {} \in T
    <3>1. {} \in SUBSET S
      OBVIOUS
    <3>2. H[{}] = 0
      BY <1>5, <3>1
    <3> QED
      BY <3>1, <3>2, 0 \in Nat
  <2>2. ASSUME NEW s \in SUBSET S, s # {}, s \ {First(s)} \in T
        PROVE  s \in T
    <3>1. H[s \ {First(s)}] \in Nat /\ f[First(s)] \in Nat
      BY <2>2, FirstRemoved
    <3>2. f[First(s)] + H[s \ {First(s)}] \in Nat
      BY <3>1, SMT
    <3> QED
      BY <1>5, <2>2, <3>2
  <2> HIDE DEF T
  <2>3. SUBSET S \subseteq T
    BY <2>1, <2>2, FoldInduction
  <2> QED
    BY <2>3 DEF T
<1>7. SumFunction(f) = H[S]
  <2>1. DOMAIN f = S
    OBVIOUS
  <2> QED
    BY <2>1 DEF SumFunction, SumFunctionOnSet, FoldFunctionOnSet, MapThenFoldSet, First, H
<1>8. H \in [SUBSET S -> Nat]
  BY <1>5, <1>6
<1> QED
  BY <1>5, <1>7, <1>8 DEF SumsUp

\* A sum of terms that are at most c times others is at most c times their sum.
LEMMA SumCompared ==
  ASSUME NEW S, IsFiniteSet(S), NEW f \in [S -> Nat], NEW g \in [S -> Nat], NEW c \in Nat,
         \A x \in S : f[x] <= g[x] * c
  PROVE  SumFunction(f) <= c * SumFunction(g)
<1>1. PICK h : SumsUp(h, f, S)
  BY SumUnfolds
<1>2. PICK k : SumsUp(k, g, S)
  BY SumUnfolds
<1> DEFINE T == {s \in SUBSET S : h[s] <= c * k[s]}
<1>3. {} \in T
  <2>1. h[{}] = 0 /\ k[{}] = 0
    BY <1>1, <1>2 DEF SumsUp
  <2>2. 0 <= c * 0
    BY SMT
  <2> QED
    BY <2>1, <2>2
<1>4. ASSUME NEW s \in SUBSET S, s # {}, s \ {First(s)} \in T
      PROVE  s \in T
  <2> DEFINE x == First(s)
             r == s \ {First(s)}
  <2>1. x \in S /\ r \in SUBSET S /\ h[r] <= c * k[r]
    BY <1>4, FirstRemoved
  <2>2. h[s] = f[x] + h[r] /\ k[s] = g[x] + k[r]
    BY <1>1, <1>2, <1>4 DEF SumsUp
  <2>3. f[x] \in Nat /\ g[x] \in Nat /\ h[r] \in Nat /\ k[r] \in Nat /\ f[x] <= g[x] * c
    BY <1>1, <1>2, <2>1 DEF SumsUp
  <2> HIDE DEF x, r
  <2>4. f[x] + h[r] <= c * (g[x] + k[r])
    BY <2>1, <2>3, SMT
  <2> QED
    BY <2>2, <2>4
<1> HIDE DEF T
<1>5. SUBSET S \subseteq T
  BY <1>3, <1>4, FoldInduction
<1>6. h[S] <= c * k[S]
  BY <1>5 DEF T
<1> QED
  BY <1>1, <1>2, <1>6 DEF SumsUp

LEMMA PairExtremes ==
  ASSUME NEW a \in Int, NEW b \in Int
  PROVE  /\ Max({a, b}) \in {a, b} /\ Max({a, b}) >= a /\ Max({a, b}) >= b
         /\ Min({a, b}) \in {a, b} /\ Min({a, b}) <= a /\ Min({a, b}) <= b
<1>1. \E x \in {a, b} : \A y \in {a, b} : x >= y
  BY SMT
<1>2. \E x \in {a, b} : \A y \in {a, b} : x <= y
  BY SMT
<1> QED
  BY <1>1, <1>2 DEF Max, Min

LEMMA PenaltyInRange ==
  ASSUME NEW score \in 0 .. 10
  PROVE  penalize_minority_reporter(score) \in 0 .. 10
<1> DEFINE a == (score * 9) \div 10
<1>1. a \in Int /\ 1 \in Int /\ a <= 10
  BY SMT
<1>2. Max({a, 1}) \in {a, 1} /\ Max({a, 1}) >= 1
  <2> HIDE DEF a
  <2> QED
    BY <1>1, PairExtremes
<1>3. Max({a, 1}) \in 0 .. 10
  <2> HIDE DEF a
  <2> QED
    BY <1>1, <1>2, SMT
<1> QED
  BY <1>3 DEF penalize_minority_reporter

\* Any number of penalties keeps a score in its range.
LEMMA PenaltiesInRange ==
  ASSUME NEW S, IsFiniteSet(S), NEW score \in 0 .. 10
  PROVE  penalized(score, S) \in 0 .. 10
<1> DEFINE step == [p \in S \X (0 .. 10) |-> penalize_minority_reporter(p[2])]
           F(h) == [s \in SUBSET S |-> IF s = {} THEN score
                                       ELSE penalize_minority_reporter(h[s \ {First(s)}])]
           H == CHOOSE h : h = F(h)
<1>1. step \in [S \X (0 .. 10) -> 0 .. 10]
  <2>1. \A p \in S \X (0 .. 10) : penalize_minority_reporter(p[2]) \in 0 .. 10
    BY PenaltyInRange
  <2> QED
    BY <2>1
<1>2. PICK h \in [SUBSET S -> 0 .. 10] : Unfolds(h, S, score, step)
  BY <1>1, FoldExists
<1>3. h = F(h)
  <2>1. ASSUME NEW s \in SUBSET S, s # {}
        PROVE  step[<<First(s), h[s \ {First(s)}]>>]
                 = penalize_minority_reporter(h[s \ {First(s)}])
    <3>1. First(s) \in S /\ s \ {First(s)} \in SUBSET S
      BY <2>1, FirstRemoved
    <3>2. <<First(s), h[s \ {First(s)}]>> \in S \X (0 .. 10)
      BY <3>1, <1>2
    <3> QED
      BY <3>2
  <2> HIDE DEF step
  <2> QED
    BY <1>2, <2>1 DEF Unfolds
<1>4. H = F(H)
  <2> HIDE DEF F
  <2> QED
    BY <1>3
<1>5. penalized(score, S) = H[S]
  <2>1. H = CHOOSE g : g = [s \in SUBSET S |-> IF s = {} THEN score
                               ELSE penalize_minority_reporter(g[s \ {CHOOSE x \in s : TRUE}])]
    BY DEF First
  <2>2. DOMAIN [i \in S |-> i] = S
    OBVIOUS
  <2> QED
    BY <2>1, <2>2 DEF penalized, FoldFunction, FoldFunctionOnSet, MapThenFoldSet
<1> HIDE DEF H
<1>6. \A s \in SUBSET S : H[s] = IF s = {} THEN score
                                 ELSE penalize_minority_reporter(H[s \ {First(s)}])
  BY <1>4
<1> DEFINE T == {s \in SUBSET S : H[s] \in 0 .. 10}
<1>7. {} \in T
  <2>1. {} \in SUBSET S
    OBVIOUS
  <2> QED
    BY <1>6, <2>1
<1>8. ASSUME NEW s \in SUBSET S, s # {}, s \ {First(s)} \in T
      PROVE  s \in T
  BY <1>6, <1>8, PenaltyInRange
<1> HIDE DEF T
<1>9. SUBSET S \subseteq T
  BY <1>7, <1>8, FoldInduction
<1>10. S \in T
  BY <1>9
<1> QED
  BY <1>5, <1>10 DEF T

-----------------------------------------------------------------------------
(* The trust scores. *)

TrustTyped ==
  /\ trust_scores \in [NodeId -> [score : 0 .. 10, tp : Nat, fp : Nat, bonus : -1 .. 2]]
  /\ ip_reports \in [Ip -> SUBSET (NodeId \X Weight)]

\* A bounded set of weights has a highest one.
LEMMA HighestWeight ==
  ASSUME NEW T \in SUBSET Weight, T # {}
  PROVE  Max(T) \in T /\ Max(T) <= Max(Weight) /\ Max(Weight) \in Nat
<1>1. PICK w \in Weight : \A v \in Weight : v <= w
  BY GossipAssumption
<1>2. Weight \subseteq Nat
  BY GossipAssumption
<1>3. Max(Weight) \in Weight /\ \A v \in Weight : Max(Weight) >= v
  <2>1. \A v \in Weight : w >= v
    BY <1>1, <1>2, SMT
  <2> QED
    BY <2>1 DEF Max
<1> DEFINE U == {u \in Nat : \A t \in T : t <= u}
<1>4. PICK m \in U : \A y \in U : ~(<<y, m>> \in OpToRel(<, Nat))
  <2>1. w \in U
    BY <1>1, <1>2
  <2>2. U \subseteq Nat
    OBVIOUS
  <2> HIDE DEF U
  <2> QED
    BY <2>1, <2>2, WFMin, NatLessThanWellFounded
<1>5. m \in T
  <2> SUFFICES ASSUME m \notin T PROVE FALSE
    OBVIOUS
  <2>1. m \in Nat /\ \A t \in T : t \in Nat /\ t <= m /\ t # m
    BY <1>2, <1>4
  <2>2. PICK t \in T : TRUE
    OBVIOUS
  <2>3. m - 1 \in Nat /\ m - 1 < m /\ \A x \in T : x <= m - 1
    BY <2>1, <2>2, SMT
  <2>4. m - 1 \in U
    BY <2>3
  <2> QED
    BY <1>4, <2>1, <2>3, <2>4 DEF OpToRel
<1>6. \A t \in T : m >= t
  <2>1. m \in Nat /\ \A t \in T : t \in Nat /\ t <= m
    BY <1>2, <1>4
  <2> QED
    BY <2>1, SMT
<1>7. Max(T) \in T
  BY <1>5, <1>6 DEF Max
<1>8. Max(T) \in Nat /\ Max(Weight) \in Nat /\ Max(Weight) >= Max(T)
  BY <1>2, <1>3, <1>7
<1> QED
  BY <1>7, <1>8, SMT

LEMMA SuspicionBounded ==
  ASSUME TrustTyped, NEW i \in Ip
  PROVE  weighted_suspicion_score(i)
           <= Max(Weight) * SumFunction([n \in Reporters(i) |-> trust_scores[n].score])
<1> DEFINE R == Reporters(i)
           f == [n \in R |-> trust_scores[n].score * Highest(i, n)]
           g == [n \in R |-> trust_scores[n].score]
<1>1. R \in SUBSET NodeId /\ ip_reports[i] \in SUBSET (NodeId \X Weight)
  <2>1. ip_reports[i] \in SUBSET (NodeId \X Weight)
    BY DEF TrustTyped
  <2>2. \A r \in ip_reports[i] : r[1] \in NodeId
    BY <2>1
  <2> QED
    BY <2>1, <2>2 DEF Reporters
<1>2. IsFiniteSet(R)
  BY <1>1, GossipAssumption, FS_Subset
<1>3. ASSUME NEW n \in R
      PROVE  /\ Highest(i, n) \in Nat /\ Highest(i, n) <= Max(Weight) /\ Max(Weight) \in Nat
             /\ trust_scores[n].score \in Nat
  <2> DEFINE T == {r[2] : r \in {q \in ip_reports[i] : q[1] = n}}
  <2>1. T \in SUBSET Weight
    BY <1>1
  <2>2. T # {}
    BY DEF Reporters
  <2>3. Max(T) \in T /\ Max(T) <= Max(Weight) /\ Max(Weight) \in Nat
    <3> HIDE DEF T
    <3> QED
      BY <2>1, <2>2, HighestWeight
  <2>4. Max(T) \in Nat
    <3> HIDE DEF T
    <3> QED
      BY <2>1, <2>3, GossipAssumption
  <2>5. n \in NodeId
    BY <1>1
  <2>6. trust_scores[n].score \in 0 .. 10
    BY <2>5 DEF TrustTyped
  <2>7. trust_scores[n].score \in Nat
    BY <2>6, SMT
  <2>8. Highest(i, n) = Max(T)
    BY DEF Highest
  <2> QED
    BY <2>3, <2>4, <2>7, <2>8
<1>4. Max(Weight) \in Nat
  <2>1. Weight \in SUBSET Weight /\ Weight # {}
    BY GossipAssumption
  <2> QED
    BY <2>1, HighestWeight
<1>5. ASSUME NEW n \in R
      PROVE  /\ trust_scores[n].score * Highest(i, n) \in Nat
             /\ trust_scores[n].score * Highest(i, n) <= trust_scores[n].score * Max(Weight)
  <2>1. /\ Highest(i, n) \in Nat /\ Highest(i, n) <= Max(Weight) /\ Max(Weight) \in Nat
        /\ trust_scores[n].score \in Nat
    BY <1>3
  <2> QED
    BY <2>1, SMT
<1>6. f \in [R -> Nat] /\ g \in [R -> Nat] /\ \A n \in R : f[n] <= g[n] * Max(Weight)
  BY <1>3, <1>5
<1>7. weighted_suspicion_score(i) = SumFunction(f)
  BY DEF weighted_suspicion_score
<1> HIDE DEF f
<1>8. SumFunction(f) <= Max(Weight) * SumFunction(g)
  <2> HIDE DEF g, R
  <2> QED
    BY <1>2, <1>4, <1>6, SumCompared
<1> QED
  BY <1>7, <1>8

TrustRecord == [score : 0 .. 10, tp : Nat, fp : Nat, bonus : -1 .. 2]

LEMMA ScoreComputed ==
  ASSUME NEW tp \in Nat, NEW fp \in Nat, NEW bonus \in 0 .. 2
  PROVE  calculate_score(tp, fp, bonus) \in 0 .. 10
<1> DEFINE q == (10 * tp) \div (tp + fp + 1)
<1>1. q \in Nat
  <2>1. 10 * tp \in Nat /\ tp + fp + 1 \in Nat /\ tp + fp + 1 > 0
    BY SMT
  <2>2. \A a, b \in Nat : b > 0 => a \div b \in Nat
    BY SMT
  <2> QED
    BY <2>1, <2>2
<1> HIDE DEF q
<1>2. q + bonus \in Nat /\ q + bonus \in Int /\ 10 \in Int
  BY <1>1, SMT
<1>3. Min({q + bonus, 10}) \in {q + bonus, 10} /\ Min({q + bonus, 10}) <= 10
  BY <1>2, PairExtremes
<1>4. Min({q + bonus, 10}) \in 0 .. 10
  BY <1>2, <1>3, SMT
<1> QED
  BY <1>4 DEF calculate_score, q

LEMMA TrustKept ==
  ASSUME TrustTyped, [TrustNext]_trust_vars
  PROVE  TrustTyped'
<1> DEFINE N == TrustRecord
<1>0. /\ trust_scores \in [NodeId -> TrustRecord]
      /\ ip_reports \in [Ip -> SUBSET (NodeId \X Weight)]
  BY DEF TrustTyped, TrustRecord
<1>1. ASSUME NEW n \in NodeId, NEW r \in TrustRecord, register(n, r)
      PROVE  TrustTyped'
  BY <1>0, <1>1 DEF register, TrustTyped, TrustRecord
<1>2. TrustScore_new \in TrustRecord /\ founder \in TrustRecord
  BY SMT DEF TrustScore_new, founder, TrustRecord
<1>3. ASSUME NEW n \in NodeId, age(n)
      PROVE  TrustTyped'
  <2>1. trust_scores[n] \in TrustRecord /\ trust_scores[n].bonus >= 0 /\ trust_scores[n].bonus < 2
    BY <1>0, <1>3 DEF age, Registered
  <2>2. [trust_scores[n] EXCEPT !.bonus = @ + 1] \in TrustRecord
    BY <2>1, SMT DEF TrustRecord
  <2>3. trust_scores' = [trust_scores EXCEPT ![n] = [trust_scores[n] EXCEPT !.bonus = @ + 1]]
    BY <1>0, <1>3, SMT DEF age
  <2>4. trust_scores' \in [NodeId -> TrustRecord]
    BY <1>0, <2>2, <2>3
  <2> QED
    BY <1>0, <1>3, <2>4 DEF age, TrustTyped, TrustRecord
<1>4. ASSUME NEW n \in NodeId, NEW a \in 0 .. 1, NEW b \in 0 .. 1, record(n, a, b)
      PROVE  TrustTyped'
  <2> DEFINE t == trust_scores[n]
             u == [score |-> calculate_score(t.tp + a, t.fp + b, t.bonus),
                   tp |-> t.tp + a, fp |-> t.fp + b, bonus |-> t.bonus]
  <2>1. t.tp \in Nat /\ t.fp \in Nat /\ t.bonus \in -1 .. 2 /\ t.bonus >= 0
    BY <1>0, <1>4 DEF record, Registered, TrustRecord
  <2>2. trust_scores' = [trust_scores EXCEPT ![n] = u] /\ ip_reports' = ip_reports
    BY <1>4 DEF record
  <2>3. t.tp + a \in Nat /\ t.fp + b \in Nat /\ t.bonus \in 0 .. 2
    <3> HIDE DEF t
    <3> QED
      BY <2>1, SMT
  <2>4. calculate_score(t.tp + a, t.fp + b, t.bonus) \in 0 .. 10
    <3> HIDE DEF t
    <3> QED
      BY <2>3, ScoreComputed
  <2>5. u \in TrustRecord
    <3> HIDE DEF t
    <3> QED
      BY <2>1, <2>3, <2>4 DEF TrustRecord
  <2> HIDE DEF u
  <2>6. trust_scores' \in [NodeId -> TrustRecord]
    BY <1>0, <2>2, <2>5
  <2> QED
    BY <1>0, <2>2, <2>6 DEF TrustTyped, TrustRecord
<1>5. ASSUME NEW i \in Ip, NEW n \in NodeId, NEW w \in Weight, record_ban_report(i, n, w)
      PROVE  TrustTyped'
  <2>1. ip_reports[i] \cup {<<n, w>>} \in SUBSET (NodeId \X Weight)
    <3>1. ip_reports[i] \in SUBSET (NodeId \X Weight) /\ <<n, w>> \in NodeId \X Weight
      BY <1>0
    <3> QED
      BY <3>1
  <2>2. ip_reports' = [ip_reports EXCEPT ![i] = ip_reports[i] \cup {<<n, w>>}] /\ trust_scores' = trust_scores
    BY <1>5 DEF record_ban_report
  <2>3. ip_reports' \in [Ip -> SUBSET (NodeId \X Weight)]
    BY <1>0, <2>1, <2>2
  <2> QED
    BY <1>0, <2>2, <2>3 DEF TrustTyped, TrustRecord
<1>6. ASSUME NEW i \in Ip, clear_reports(i)
      PROVE  TrustTyped'
  <2>1. {} \in SUBSET (NodeId \X Weight)
    OBVIOUS
  <2>2. ip_reports' = [ip_reports EXCEPT ![i] = {}] /\ trust_scores' = trust_scores
    BY <1>6 DEF clear_reports
  <2>3. ip_reports' \in [Ip -> SUBSET (NodeId \X Weight)]
    BY <1>0, <2>1, <2>2
  <2> QED
    BY <1>0, <2>2, <2>3 DEF TrustTyped, TrustRecord
<1>7. ASSUME drain_isolated_reports(2)
      PROVE  TrustTyped'
  <2> DEFINE isolated == Isolated(2)
             against(n) == {i \in isolated : n \in Reporters(i)}
             u(n) == IF Registered(n)
                     THEN [trust_scores[n] EXCEPT !.score = penalized(@, against(n))]
                     ELSE trust_scores[n]
  <2>1. trust_scores' = [n \in NodeId |-> u(n)]
    BY <1>7 DEF drain_isolated_reports
  <2>2. ip_reports' = [i \in Ip |-> IF i \in isolated THEN {} ELSE ip_reports[i]]
    BY <1>7 DEF drain_isolated_reports
  <2>3. ASSUME NEW n \in NodeId
        PROVE  u(n) \in TrustRecord
    <3>1. trust_scores[n] \in TrustRecord /\ trust_scores[n].score \in 0 .. 10
      BY <1>0 DEF TrustRecord
    <3>2. against(n) \in SUBSET Ip
      BY DEF Isolated
    <3>3. IsFiniteSet(against(n))
      BY <3>2, FS_Subset, GossipAssumption
    <3> HIDE DEF against
    <3>4. penalized(trust_scores[n].score, against(n)) \in 0 .. 10
      BY <3>1, <3>3, PenaltiesInRange
    <3>5. [trust_scores[n] EXCEPT !.score = penalized(trust_scores[n].score, against(n))] \in TrustRecord
      BY <3>1, <3>4 DEF TrustRecord
    <3> QED
      BY <3>1, <3>5
  <2> HIDE DEF u
  <2>4. trust_scores' \in [NodeId -> TrustRecord]
    BY <2>1, <2>3
  <2>5. ip_reports' \in [Ip -> SUBSET (NodeId \X Weight)]
    BY <1>0, <2>2
  <2> QED
    BY <2>4, <2>5 DEF TrustTyped, TrustRecord
<1>8. CASE UNCHANGED trust_vars
  BY <1>0, <1>8 DEF trust_vars, TrustTyped, TrustRecord
<1>9. 0 \in 0 .. 1 /\ 1 \in 0 .. 1
  BY SMT
<1>10. CASE TrustNext
  BY <1>10, <1>1, <1>2, <1>3, <1>4, <1>5, <1>6, <1>7, <1>9 DEF TrustNext
<1> QED
  BY <1>8, <1>10

-----------------------------------------------------------------------------
(* Anti-entropy. *)

EntropyInv == announcing \subseteq local /\ NoEcho

LEMMA SignedOwn ==
  ASSUME EntropyInv, NEW kind, NEW S \in SUBSET local, send_signed_bans(kind, S)
  PROVE  signing'.records \subseteq local
BY DEF EntropyInv, NoEcho, send_signed_bans

LEMMA SentOrThere ==
  ASSUME NEW type, NEW S, NEW m \in Send(type, S)
  PROVE  m \in msgs \/ (m.type = type /\ m.subjects = S)
<1>1. m \in msgs \/ m = [type |-> type, subjects |-> S]
  BY DEF Send
<1>2. [type |-> type, subjects |-> S].type = type /\ [type |-> type, subjects |-> S].subjects = S
  OBVIOUS
<1> QED
  BY <1>1, <1>2

LEMMA EntropyKept ==
  ASSUME EntropyInv, [EntropyNext]_entropy_vars
  PROVE  EntropyInv'
<1> USE DEF EntropyInv, NoEcho
<1>1. ASSUME NEW s, ban(s) PROVE EntropyInv'
  BY <1>1 DEF ban
<1>2. ASSUME NEW s, on_local_ban(s) PROVE EntropyInv'
  <2>1. announced_form({s}) \in SUBSET local /\ local' = local /\ msgs' = msgs
        /\ announcing' = announcing \ {s}
    BY <1>2 DEF on_local_ban, announced_form
  <2>2. signing'.records \subseteq local
    BY <1>2, <2>1, SignedOwn DEF on_local_ban
  <2> QED
    BY <2>1, <2>2
<1>3. ASSUME NEW s, replicate(s) PROVE EntropyInv'
  BY <1>3 DEF replicate
<1>4. ASSUME NEW s, expire(s) PROVE EntropyInv'
  BY <1>4 DEF expire
<1>5. ASSUME signed PROVE EntropyInv'
  <2>1. msgs' = Send("DiffResponse", signing.records) /\ signing' = NoJob
        /\ local' = local /\ announcing' = announcing
    BY <1>5 DEF signed
  <2>2. NoJob.records = {}
    BY DEF NoJob
  <2>3. \A m \in msgs' : m.type = "DiffResponse" => m.subjects \subseteq local
    <3> SUFFICES ASSUME NEW m \in msgs', m.type = "DiffResponse" PROVE m.subjects \subseteq local
      OBVIOUS
    <3> HIDE DEF NoEcho, EntropyInv
    <3> DEFINE R == signing.records
    <3>1. m \in Send("DiffResponse", R)
      BY <2>1
    <3> HIDE DEF R
    <3>2. m \in msgs \/ m.subjects = R
      BY <3>1, SentOrThere
    <3> QED
      BY <3>2 DEF NoEcho, EntropyInv, R
  <2> QED
    BY <2>1, <2>2, <2>3
<1>6. ASSUME offer_digest PROVE EntropyInv'
  <2>1. msgs' = Send("DigestExchange", local \cup replica) /\ signing' = signing
        /\ local' = local /\ announcing' = announcing
    BY <1>6 DEF offer_digest
  <2>2. \A m \in msgs' : m.type = "DiffResponse" => m.subjects \subseteq local
    BY <2>1, SentOrThere, "DigestExchange" # "DiffResponse"
  <2> QED
    BY <2>1, <2>2
<1>7. ASSUME NEW m \in msgs, handle_diff_request(m) PROVE EntropyInv'
  <2> DEFINE missing == Offerable(m.subjects)
             page == rotated_page(missing)
  <2>1. page \in SUBSET local
    BY DEF rotated_page, Offerable, announced_form
  <2>2. /\ UNCHANGED signing \/ send_signed_bans("diff", page)
        /\ msgs' = msgs \ {m} /\ local' = local /\ announcing' = announcing
    BY <1>7 DEF handle_diff_request
  <2> HIDE DEF page
  <2>3. signing'.records \subseteq local
    BY <2>1, <2>2, SignedOwn
  <2> QED
    BY <2>2, <2>3
<1>8. ASSUME NEW m \in msgs, handle_digest_exchange(m) PROVE EntropyInv'
  <2>1. /\ msgs' \subseteq msgs \cup Send("DiffRequest", held)
        /\ signing' = signing /\ local' = local /\ announcing' = announcing
    BY <1>8 DEF handle_digest_exchange
  <2>2. \A x \in msgs' : x.type = "DiffResponse" => x.subjects \subseteq local
    BY <2>1, SentOrThere, "DiffRequest" # "DiffResponse"
  <2> QED
    BY <2>1, <2>2
<1>9. ASSUME NEW m \in msgs, ingest_remote_bans(m) PROVE EntropyInv'
  BY <1>9 DEF ingest_remote_bans
<1>10. ASSUME NEW m \in msgs, lose(m) PROVE EntropyInv'
  BY <1>10 DEF lose
<1>11. CASE UNCHANGED entropy_vars
  BY <1>11 DEF entropy_vars
<1>12. CASE EntropyNext
  <2> HIDE DEF EntropyInv
  <2> QED
    BY <1>12, <1>1, <1>2, <1>3, <1>4, <1>5, <1>6, <1>7, <1>8, <1>9, <1>10 DEF EntropyNext
<1> QED
  BY <1>11, <1>12

-----------------------------------------------------------------------------
(* The limiter.  A call that is still in the window is still recorded,      *)
(* although cleaning up may have dropped its key.                           *)

Calls == Nat \X Nat

LimiterInv ==
  /\ time \in Nat \ {0} /\ tracked \subseteq Key
  /\ entries \in [Key -> SUBSET Calls] /\ allowed \in [Key -> SUBSET Calls]
  /\ \A k \in Key :
       /\ IsFiniteSet(allowed[k]) /\ entries[k] \subseteq allowed[k]
       /\ \A c \in allowed[k] : c[2] <= time /\ (c[2] > time - window => c \in entries[k])
  /\ WindowRespected

LEMMA IdleYield ==
  ASSUME LimiterInv
  PROVE  IdleKeysYield
<1> SUFFICES ASSUME NEW k \in Key, ~Admits(k)
             PROVE  Cardinality({j \in Key : Fresh(entries[j]) # {}}) >= max_keys
  BY DEF IdleKeysYield
<1> DEFINE R == {j \in Key : Fresh(entries[j]) # {}}
<1>1. cleanup \in SUBSET R
  BY DEF cleanup, LimiterInv
<1>2. IsFiniteSet(R) /\ max_keys \in Nat
  BY FS_Subset, GossipAssumption, R \in SUBSET Key
<1>3. ~(Cardinality(cleanup) < max_keys)
  BY DEF Admits, Kept
<1> HIDE DEF R
<1>4. IsFiniteSet(cleanup) /\ Cardinality(cleanup) <= Cardinality(R)
  BY <1>1, <1>2, FS_Subset
<1>5. Cardinality(cleanup) \in Nat /\ Cardinality(R) \in Nat
  BY <1>2, <1>4, FS_CardinalityType
<1>6. Cardinality(R) >= max_keys
  BY <1>2, <1>3, <1>4, <1>5, SMT
<1> QED
  BY <1>6 DEF R

LEMMA TickKept ==
  ASSUME LimiterInv, limiter_tick
  PROVE  LimiterInv'
<1>1. /\ time \in Nat \ {0} /\ time' = time + 1 /\ entries' = entries /\ tracked' = tracked
      /\ allowed' = allowed /\ window \in Nat /\ max_per_window \in Nat
  BY GossipAssumption DEF LimiterInv, limiter_tick
<1>2. ASSUME NEW k \in Key, NEW c \in allowed[k]
      PROVE  c[2] \in Nat /\ c[2] <= time' /\ (c[2] > time' - window => c \in entries[k])
  <2>1. c[2] \in Nat /\ c[2] <= time /\ (c[2] > time - window => c \in entries[k])
    <3>1. c \in Calls
      BY DEF LimiterInv
    <3> QED
      BY <3>1 DEF LimiterInv, Calls
  <2>2. c[2] <= time' /\ (c[2] > time' - window => c[2] > time - window)
    BY <1>1, <2>1, SMT
  <2> QED
    BY <2>1, <2>2
<1>3. ASSUME NEW k \in Key, NEW t \in 1 .. time'
      PROVE  Cardinality({c \in allowed[k] : c[2] > t - window /\ c[2] <= t}) <= max_per_window
  <2> DEFINE A(u) == {c \in allowed[k] : c[2] > u - window /\ c[2] <= u}
  <2>1. CASE t \in 1 .. time
    BY <2>1 DEF LimiterInv, WindowRespected
  <2>2. CASE t \notin 1 .. time
    <3>1. t = time + 1
      BY <1>1, <2>2, SMT
    <3>2. \A c \in allowed[k] : c[2] \in Nat /\ c[2] <= time
      <4>1. \A c \in allowed[k] : c \in Calls
        BY DEF LimiterInv
      <4> QED
        BY <4>1 DEF LimiterInv, Calls
    <3>3. \A x \in Nat : x <= time /\ x > t - window => x > time - window
      BY <1>1, <3>1, SMT
    <3>4. A(t) \in SUBSET A(time)
      BY <3>2, <3>3
    <3>5. IsFiniteSet(A(time))
      BY FS_Subset, A(time) \in SUBSET allowed[k] DEF LimiterInv
    <3>6. time \in 1 .. time
      BY <1>1, SMT
    <3>7. Cardinality(A(time)) <= max_per_window
      BY <3>6 DEF LimiterInv, WindowRespected
    <3> HIDE DEF A
    <3>8. IsFiniteSet(A(t)) /\ Cardinality(A(t)) <= Cardinality(A(time))
      BY <3>4, <3>5, FS_Subset
    <3>9. Cardinality(A(t)) \in Nat /\ Cardinality(A(time)) \in Nat
      BY <3>5, <3>8, FS_CardinalityType
    <3>10. Cardinality(A(t)) <= max_per_window
      BY <1>1, <3>7, <3>8, <3>9, SMT
    <3> QED
      BY <3>10 DEF A
  <2> QED
    BY <2>1, <2>2
<1>4. time' \in Nat \ {0}
  BY <1>1, SMT
<1> QED
  BY <1>1, <1>2, <1>3, <1>4 DEF LimiterInv, WindowRespected

LEMMA RecordKept ==
  ASSUME LimiterInv, NEW k \in Key, check_and_record(k)
  PROVE  LimiterInv'
<1> DEFINE recent == Fresh(entries[k])
           pass == Admits(k) /\ Cardinality(recent) < max_per_window
           call == <<Cardinality(allowed[k]) + 1, time>>
           gained(j) == IF j = k /\ pass THEN {call} ELSE {}
<1>0. /\ time \in Nat \ {0} /\ window \in Nat /\ max_per_window \in Nat
      /\ entries \in [Key -> SUBSET Calls] /\ allowed \in [Key -> SUBSET Calls]
      /\ tracked \subseteq Key
  BY GossipAssumption DEF LimiterInv
<1>1. /\ time' = time
      /\ tracked' = IF Admits(k) THEN Kept(k) \cup {k} ELSE Kept(k)
      /\ entries' = [j \in Key |-> IF j = k /\ Admits(k) THEN recent \cup (IF pass THEN {call} ELSE {})
                                   ELSE IF AtCapacity(k) THEN Fresh(entries[j]) ELSE entries[j]]
      /\ allowed' = IF pass THEN [allowed EXCEPT ![k] = @ \cup {call}] ELSE allowed
  BY DEF check_and_record
<1>2. tracked' \subseteq Key
  BY <1>0, <1>1 DEF Kept, cleanup
<1>3. call \in Calls /\ call[2] = time
  <2>1. Cardinality(allowed[k]) \in Nat
    BY FS_CardinalityType DEF LimiterInv
  <2>2. Cardinality(allowed[k]) + 1 \in Nat
    BY <2>1, SMT
  <2> QED
    BY <1>0, <2>2 DEF Calls
<1> HIDE DEF call
<1>4. ASSUME NEW j \in Key
      PROVE  /\ allowed'[j] = allowed[j] \cup gained(j)
             /\ entries'[j] \subseteq entries[j] \cup gained(j)
             /\ Fresh(entries[j]) \cup gained(j) \subseteq entries'[j]
  <2>1. allowed'[j] = allowed[j] \cup gained(j)
    BY <1>0, <1>1
  <2>2. Fresh(entries[j]) \subseteq entries[j]
    BY DEF Fresh
  <2>3. CASE j = k /\ Admits(k)
    BY <1>1, <2>1, <2>2, <2>3
  <2>4. CASE ~(j = k /\ Admits(k))
    <3>1. gained(j) = {}
      BY <2>4
    <3>2. entries'[j] = Fresh(entries[j]) \/ entries'[j] = entries[j]
      BY <1>1, <2>4
    <3> QED
      BY <2>1, <2>2, <3>1, <3>2
  <2> QED
    BY <2>3, <2>4
<1>5. ASSUME NEW j \in Key
      PROVE  gained(j) \in SUBSET Calls /\ \A c \in gained(j) : c = call
  BY <1>3
<1>6. entries' \in [Key -> SUBSET Calls] /\ allowed' \in [Key -> SUBSET Calls]
  <2>1. entries' = [j \in Key |-> entries'[j]] /\ allowed' = [j \in Key |-> allowed'[j]]
    BY <1>0, <1>1
  <2>2. ASSUME NEW j \in Key PROVE entries'[j] \in SUBSET Calls /\ allowed'[j] \in SUBSET Calls
    <3>1. entries[j] \in SUBSET Calls /\ allowed[j] \in SUBSET Calls
      BY <1>0
    <3> QED
      BY <1>4, <1>5, <3>1
  <2> QED
    BY <2>1, <2>2
<1>7. ASSUME NEW j \in Key
      PROVE  /\ IsFiniteSet(allowed'[j]) /\ entries'[j] \subseteq allowed'[j]
             /\ \A c \in allowed'[j] : c[2] <= time /\ (c[2] > time - window => c \in entries'[j])
  <2>1. IsFiniteSet(allowed'[j])
    <3>1. IsFiniteSet(allowed[j]) /\ IsFiniteSet({call}) /\ IsFiniteSet({})
      BY FS_EmptySet, FS_Singleton DEF LimiterInv
    <3>2. IsFiniteSet(gained(j))
      BY <3>1
    <3> HIDE DEF gained
    <3>3. IsFiniteSet(allowed[j] \cup gained(j))
      BY <3>1, <3>2, FS_Union
    <3> QED
      BY <1>4, <3>3
  <2>2. entries[j] \subseteq allowed[j]
    BY DEF LimiterInv
  <2>3. entries'[j] \subseteq allowed'[j]
    BY <1>4, <2>2
  <2>4. ASSUME NEW c \in allowed'[j]
        PROVE  c[2] <= time /\ (c[2] > time - window => c \in entries'[j])
    <3>1. CASE c \in allowed[j]
      <4>1. c[2] <= time /\ (c[2] > time - window => c \in entries[j])
        BY <3>1 DEF LimiterInv
      <4>2. c[2] > time - window => c \in Fresh(entries[j])
        BY <4>1 DEF Fresh
      <4> QED
        BY <1>4, <4>1, <4>2
    <3>2. CASE c \in gained(j)
      <4>1. c[2] = time
        BY <1>3, <1>5, <3>2
      <4>2. time <= time
        BY <1>0, SMT
      <4> QED
        BY <1>4, <3>2, <4>1, <4>2
    <3> QED
      BY <1>4, <3>1, <3>2
  <2> QED
    BY <2>1, <2>3, <2>4
<1>8. ASSUME NEW j \in Key, NEW t \in 1 .. time
      PROVE  Cardinality({c \in allowed'[j] : c[2] > t - window /\ c[2] <= t}) <= max_per_window
  <2> DEFINE A == {c \in allowed[j] : c[2] > t - window /\ c[2] <= t}
             B == {c \in allowed'[j] : c[2] > t - window /\ c[2] <= t}
  <2>1. Cardinality(A) <= max_per_window
    BY DEF LimiterInv, WindowRespected
  <2>2. IsFiniteSet(A)
    BY FS_Subset, A \in SUBSET allowed[j] DEF LimiterInv
  <2>3. CASE B = A
    BY <2>1, <2>3
  <2>4. CASE B # A
    <3>1. gained(j) # {} /\ B \in SUBSET (A \cup {call}) /\ call[2] <= t
      BY <1>4, <1>5, <2>4
    <3>2. j = k /\ Cardinality(recent) < max_per_window
      BY <3>1
    <3>3. t = time
      BY <1>0, <1>3, <3>1, SMT
    <3>4. A \in SUBSET recent
      BY <3>2, <3>3 DEF LimiterInv, Fresh
    <3>5. IsFiniteSet(recent)
      <4>1. recent \in SUBSET allowed[k]
        BY DEF Fresh, LimiterInv
      <4> QED
        BY <4>1, FS_Subset DEF LimiterInv
    <3> HIDE DEF A, B, recent
    <3>6. Cardinality(A) <= Cardinality(recent)
      BY <3>4, <3>5, FS_Subset
    <3>7. /\ IsFiniteSet(A \cup {call})
          /\ Cardinality(A \cup {call}) = IF call \in A THEN Cardinality(A) ELSE Cardinality(A) + 1
      BY <2>2, FS_AddElement
    <3>8. Cardinality(B) <= Cardinality(A \cup {call}) /\ IsFiniteSet(B)
      BY <3>1, <3>7, FS_Subset
    <3>9. /\ Cardinality(A) \in Nat /\ Cardinality(B) \in Nat /\ Cardinality(recent) \in Nat
          /\ Cardinality(A \cup {call}) \in Nat
      BY <2>2, <3>5, <3>7, <3>8, FS_CardinalityType
    <3>10. Cardinality(B) <= max_per_window
      BY <1>0, <3>2, <3>6, <3>7, <3>8, <3>9, SMT
    <3> QED
      BY <3>10 DEF B
  <2> QED
    BY <2>3, <2>4
<1>9. WindowRespected'
  <2> HIDE DEF gained, recent, pass
  <2> QED
    BY <1>1, <1>8 DEF WindowRespected
<1> HIDE DEF gained, recent, pass
<1> QED
  BY <1>0, <1>1, <1>2, <1>6, <1>7, <1>9 DEF LimiterInv

\* Whatever a peer repeats, its word counts once: a node signs and sends its own bans
\* only, a suspicion is bounded by the trust of its distinct reporters, scores stay in
\* range, and the limiter keeps its limit in every window without keeping idle keys
\* (cluster.rs, gossip.rs, trust.rs, anti_poison.rs).  Any number of nodes, keys,
\* addresses and weights.
THEOREM PeersAreNotAmplified == GossipSpec => []NoAmplification
<1> DEFINE AllInv == EntropyInv /\ TrustTyped /\ LimiterInv
<1>1. GossipInit => AllInv
  <2> SUFFICES ASSUME GossipInit PROVE AllInv
    OBVIOUS
  <2>1. EntropyInv
    BY DEF GossipInit, EntropyInit, EntropyInv, NoEcho, NoJob
  <2>2. TrustTyped
    <3>1. Unregistered \in TrustRecord
      BY SMT DEF Unregistered, TrustRecord
    <3>2. \A i \in Ip : {} \in SUBSET (NodeId \X Weight)
      OBVIOUS
    <3> QED
      BY <3>1, <3>2 DEF GossipInit, TrustInit, TrustTyped, TrustRecord
  <2>3. LimiterInv
    <3>1. IsFiniteSet({}) /\ Cardinality({}) = 0
      BY FS_EmptySet
    <3>2. 1 \in Nat \ {0} /\ 0 <= max_per_window
      BY GossipAssumption, SMT
    <3>3. time = 1 /\ entries = [k \in Key |-> {}] /\ tracked = {} /\ allowed = [k \in Key |-> {}]
      BY DEF GossipInit, LimiterInit
    <3>4. WindowRespected
      <4> SUFFICES ASSUME NEW k \in Key, NEW t \in 1 .. time
                   PROVE  Cardinality({c \in allowed[k] : c[2] > t - window /\ c[2] <= t}) <= max_per_window
        BY DEF WindowRespected
      <4>1. {c \in allowed[k] : c[2] > t - window /\ c[2] <= t} = {}
        BY <3>3
      <4> QED
        BY <4>1, <3>1, <3>2
    <3>5. entries \in [Key -> SUBSET Calls] /\ allowed \in [Key -> SUBSET Calls]
      BY <3>3
    <3>6. \A k \in Key : entries[k] = {} /\ allowed[k] = {}
      BY <3>3
    <3> QED
      BY <3>1, <3>2, <3>3, <3>4, <3>5, <3>6 DEF LimiterInv
  <2> QED
    BY <2>1, <2>2, <2>3
<1>2. AllInv /\ [GossipNext]_gossip_vars => AllInv'
  <2> SUFFICES ASSUME AllInv, [GossipNext]_gossip_vars PROVE AllInv'
    OBVIOUS
  <2>1. [EntropyNext]_entropy_vars /\ [TrustNext]_trust_vars /\ [LimiterNext]_limiter_vars
    BY DEF GossipNext, gossip_vars, entropy_vars, trust_vars, limiter_vars
  <2>2. EntropyInv' /\ TrustTyped'
    BY <2>1, EntropyKept, TrustKept
  <2>3. LimiterInv'
    <3>1. CASE UNCHANGED limiter_vars
      BY <3>1 DEF limiter_vars, LimiterInv, WindowRespected
    <3>2. CASE LimiterNext
      BY <3>2, TickKept, RecordKept DEF LimiterNext
    <3> QED
      BY <2>1, <3>1, <3>2
  <2> QED
    BY <2>2, <2>3
<1>3. AllInv => NoAmplification
  <2> SUFFICES ASSUME AllInv PROVE NoAmplification
    OBVIOUS
  <2>1. NoEcho /\ WindowRespected
    BY DEF EntropyInv, LimiterInv
  <2>2. ScoreInRange
    BY DEF TrustTyped, ScoreInRange
  <2>3. NoSelfAmplification
    BY SuspicionBounded DEF NoSelfAmplification
  <2>4. IdleKeysYield
    BY IdleYield
  <2> QED
    BY <2>1, <2>2, <2>3, <2>4 DEF NoAmplification
<1> QED
  <2> HIDE DEF AllInv
  <2> QED
    BY <1>1, <1>2, <1>3, PTL DEF GossipSpec
=============================================================================
