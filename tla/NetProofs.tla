----------------------------- MODULE NetProofs -----------------------------
(***************************************************************************)
(* The facts about networks that the other proofs and the program's own    *)
(* comments rest on, for every address width: overlapping is exact, and    *)
(* what dedup_overlapping leaves out of the kernel's sets is blocked all   *)
(* the same.  Induction is by a least counterexample: the least position   *)
(* at which two addresses differ, the shortest network that covers one,    *)
(* the first kept network inside another.                                  *)
(***************************************************************************)
EXTENDS IpNet, WellFoundedInduction, TLAPS

\* Every network contains its own address, host bits or not (ipnet's contains
\* compares the prefix only).
LEMMA OwnAddress ==
  ASSUME NEW n \in Net
  PROVE  n.addr \in Addr /\ contains(n, n.addr)
BY DEF Net, contains

\* trunc() yields a network of the same block.
LEMMA TruncSameBlock ==
  ASSUME NEW n \in Net
  PROVE  /\ trunc(n) \in Net
         /\ Block(trunc(n)) = Block(n)
<1> DEFINE bits == [i \in 1..W |-> IF i <= n.len THEN n.addr.bits[i] ELSE 0]
<1>1. bits \in [1..W -> {0, 1}]
  BY DEF Net, Addr
<1>2. trunc(n) = [addr |-> [fam |-> n.addr.fam, bits |-> bits], len |-> n.len]
  BY DEF trunc
<1>3. trunc(n) \in Net
  BY <1>1, <1>2 DEF Net, Addr
<1>4. ASSUME NEW a \in Addr
      PROVE  contains(trunc(n), a) <=> contains(n, a)
  <2>1. \A i \in 1..n.len : bits[i] = n.addr.bits[i]
    BY WAssumption DEF Net
  <2> HIDE DEF bits
  <2> QED
    BY <1>2, <2>1 DEF contains
<1> QED
  BY <1>3, <1>4 DEF Block

\* "Two CIDR blocks either nest or are disjoint, so testing each network
\* address against the other block is exact, not an approximation"
\* (whitelist.rs, overlaps): nets_overlap holds exactly when the two blocks
\* share an address.
THEOREM NetsOverlapExact ==
  ASSUME NEW a \in Net, NEW b \in Net
  PROVE  nets_overlap(a, b) <=> Block(a) \cap Block(b) # {}
<1>1. ASSUME nets_overlap(a, b)
      PROVE  Block(a) \cap Block(b) # {}
  BY <1>1, OwnAddress DEF nets_overlap, Block
<1>2. ASSUME NEW x \in Addr, contains(a, x), contains(b, x)
      PROVE  nets_overlap(a, b)
  <2>1. CASE a.len <= b.len
    BY <1>2, <2>1 DEF contains, nets_overlap, Net
  <2>2. CASE b.len <= a.len
    BY <1>2, <2>2 DEF contains, nets_overlap, Net
  <2> QED
    BY <2>1, <2>2, WAssumption DEF Net
<1> QED
  BY <1>1, <1>2 DEF Block
-----------------------------------------------------------------------------
(* The order of networks.                                                  *)

\* A non-empty set of naturals has a least element.
LEMMA LeastNat ==
  ASSUME NEW T, T \subseteq Nat, T # {}
  PROVE  \E x \in T : \A y \in T : x <= y
<1>1. PICK x \in T : \A y \in T : ~(<<y, x>> \in OpToRel(<, Nat))
  BY WFMin, NatLessThanWellFounded
<1>2. \A y \in T : ~(y < x)
  BY <1>1 DEF OpToRel
<1> QED
  BY <1>2

\* A network without host bits, as trunc() leaves it.
Truncated(n) == n \in Net /\ n = trunc(n)

LEMMA NetParts ==
  ASSUME NEW n \in Net
  PROVE  /\ n.len \in Nat /\ n.len <= W /\ n.addr.fam \in Family
         /\ \A i \in 1..W : n.addr.bits[i] \in {0, 1}
BY WAssumption DEF Net, Addr

LEMMA TruncTruncated ==
  ASSUME NEW n \in Net
  PROVE  Truncated(trunc(n))
<1>1. trunc(n) \in Net
  BY TruncSameBlock
<1>2. trunc(trunc(n)) = trunc(n)
  BY WAssumption DEF trunc
<1> QED
  BY <1>1, <1>2 DEF Truncated

LEMMA HostBits ==
  ASSUME NEW n, Truncated(n), NEW i \in 1..W, i > n.len
  PROVE  n.addr.bits[i] = 0
BY NetParts, WAssumption DEF Truncated, trunc

LEMMA SameBits ==
  ASSUME NEW m \in Net, NEW n \in Net, \A i \in 1..W : m.addr.bits[i] = n.addr.bits[i]
  PROVE  m.addr.bits = n.addr.bits
<1>1. m.addr.bits \in [1..W -> {0, 1}] /\ n.addr.bits \in [1..W -> {0, 1}]
  BY DEF Net, Addr
<1>2. /\ m.addr.bits = [i \in 1..W |-> m.addr.bits[i]]
      /\ n.addr.bits = [i \in 1..W |-> n.addr.bits[i]]
  BY <1>1
<1> QED
  BY <1>2

\* Two networks of equal fields are equal.
LEMMA NetEqual ==
  ASSUME NEW m \in Net, NEW n \in Net, m.addr.fam = n.addr.fam, m.len = n.len,
         \A i \in 1..W : m.addr.bits[i] = n.addr.bits[i]
  PROVE  m = n
<1>1. m.addr.bits = n.addr.bits
  BY SameBits
<1>2. m.addr = n.addr
  BY <1>1 DEF Net, Addr
<1> QED
  BY <1>2 DEF Net

\* The first position where two addresses differ.
LEMMA FirstDifference ==
  ASSUME NEW m \in Net, NEW n \in Net, NEW k \in 1..W, m.addr.bits[k] # n.addr.bits[k]
  PROVE  \E i \in 1..W : /\ i <= k /\ m.addr.bits[i] # n.addr.bits[i]
                         /\ \A j \in 1..i-1 : m.addr.bits[j] = n.addr.bits[j]
<1> DEFINE T == {i \in 1..W : m.addr.bits[i] # n.addr.bits[i]}
<1>1. T \subseteq Nat /\ T # {}
  BY WAssumption
<1>2. PICK i \in T : \A j \in T : i <= j
  BY <1>1, LeastNat
<1>3. \A j \in 1..i-1 : j \in 1..W /\ ~(i <= j)
  BY WAssumption
<1> QED
  BY <1>2, <1>3

LEMMA BeforeIrreflexive ==
  ASSUME NEW n \in Net
  PROVE  ~NetBefore(n, n)
BY NetParts DEF NetBefore

\* Two different networks are ordered.
LEMMA BeforeTotal ==
  ASSUME NEW m \in Net, NEW n \in Net, m # n
  PROVE  NetBefore(m, n) \/ NetBefore(n, m)
<1>1. CASE m.addr.fam # n.addr.fam
  BY <1>1, NetParts, FamilyAssumption DEF NetBefore
<1>2. CASE m.addr.fam = n.addr.fam /\ \E k \in 1..W : m.addr.bits[k] # n.addr.bits[k]
  <2>1. PICK i \in 1..W : /\ m.addr.bits[i] # n.addr.bits[i]
                          /\ \A j \in 1..i-1 : m.addr.bits[j] = n.addr.bits[j]
    BY <1>2, FirstDifference, ZenonT(60)
  <2>2. m.addr.bits[i] < n.addr.bits[i] \/ n.addr.bits[i] < m.addr.bits[i]
    BY <2>1, NetParts
  <2> QED
    BY <1>2, <2>1, <2>2 DEF NetBefore
<1>3. CASE m.addr.fam = n.addr.fam /\ \A k \in 1..W : m.addr.bits[k] = n.addr.bits[k]
  <2>1. m.addr.bits = n.addr.bits
    BY <1>3, SameBits
  <2>2. m.len # n.len
    BY <1>3, NetEqual
  <2> QED
    BY <1>3, <2>1, <2>2, NetParts DEF NetBefore
<1> QED
  BY <1>1, <1>2, <1>3

-----------------------------------------------------------------------------
(* Covering and the order.                                                 *)

LEMMA CoversSelf ==
  ASSUME NEW n \in Net
  PROVE  net_covers(n, n)
BY NetParts DEF net_covers, contains

LEMMA CoversTransitive ==
  ASSUME NEW m \in Net, NEW k \in Net, NEW n \in Net, net_covers(m, k), net_covers(k, n)
  PROVE  net_covers(m, n)
BY NetParts DEF net_covers, contains

LEMMA CoversBlock ==
  ASSUME NEW m \in Net, NEW n \in Net, net_covers(m, n)
  PROVE  Block(n) \subseteq Block(m)
BY NetParts DEF net_covers, contains, Block

\* Of two truncated networks of one length, none covers the other.
LEMMA CoversLonger ==
  ASSUME NEW m, NEW n, Truncated(m), Truncated(n), net_covers(m, n), m # n
  PROVE  m.len < n.len
<1>1. m \in Net /\ n \in Net
  BY DEF Truncated
<1>2. ASSUME m.len = n.len
      PROVE  FALSE
  <2>1. ASSUME NEW i \in 1..W
        PROVE  m.addr.bits[i] = n.addr.bits[i]
    <3>1. CASE i <= m.len
      BY <1>1, <3>1, NetParts DEF net_covers, contains
    <3>2. CASE i > m.len
      BY <1>1, <1>2, <3>2, HostBits
    <3> QED
      BY <1>1, <3>1, <3>2, NetParts
  <2>2. m.addr.fam = n.addr.fam
    BY DEF net_covers, contains
  <2> QED
    BY <1>1, <1>2, <2>1, <2>2, NetEqual
<1> QED
  BY <1>1, <1>2, NetParts DEF net_covers

\* A network comes before the ones inside it.
LEMMA CoversBefore ==
  ASSUME NEW m, NEW n, Truncated(m), Truncated(n), net_covers(m, n), m # n
  PROVE  NetBefore(m, n)
<1>1. m \in Net /\ n \in Net /\ m.addr.fam = n.addr.fam /\ m.len < n.len
  BY CoversLonger DEF Truncated, net_covers, contains
<1>2. CASE \A k \in 1..W : m.addr.bits[k] = n.addr.bits[k]
  BY <1>1, <1>2, SameBits DEF NetBefore
<1>3. CASE \E k \in 1..W : m.addr.bits[k] # n.addr.bits[k]
  <2>1. PICK i \in 1..W : /\ m.addr.bits[i] # n.addr.bits[i]
                          /\ \A j \in 1..i-1 : m.addr.bits[j] = n.addr.bits[j]
    BY <1>1, <1>3, FirstDifference, ZenonT(60)
  <2>2. i > m.len
    BY <1>1, <2>1, NetParts DEF net_covers, contains
  <2>3. m.addr.bits[i] = 0 /\ n.addr.bits[i] \in {0, 1}
    BY <1>1, <2>2, HostBits, NetParts
  <2>4. m.addr.bits[i] < n.addr.bits[i]
    BY <2>1, <2>3
  <2> QED
    BY <1>1, <2>1, <2>4 DEF NetBefore
<1> QED
  BY <1>2, <1>3

\* What lies between a network and one inside it, in the order, is inside it too:
\* the reason why dedup_overlapping need only look at the last network kept.
LEMMA CoversBetween ==
  ASSUME NEW m, NEW k, NEW n, Truncated(m), Truncated(k), Truncated(n),
         net_covers(m, n), NetBefore(m, k), NetBefore(k, n)
  PROVE  net_covers(m, k)
<1>1. m \in Net /\ k \in Net /\ n \in Net
  BY DEF Truncated
<1>2. m.addr.fam = n.addr.fam
  BY DEF net_covers, contains
<1>3. k.addr.fam = m.addr.fam
  BY <1>1, <1>2 DEF NetBefore
<1>4. ASSUME NEW j \in 1..m.len, k.addr.bits[j] # m.addr.bits[j]
      PROVE  FALSE
  <2>1. j \in 1..W
    BY <1>1, NetParts, WAssumption
  <2>2. PICK i \in 1..W : /\ i <= j /\ k.addr.bits[i] # m.addr.bits[i]
                          /\ \A h \in 1..i-1 : k.addr.bits[h] = m.addr.bits[h]
    BY <1>1, <1>4, <2>1, FirstDifference
  <2>3. \A h \in 1..i : m.addr.bits[h] = n.addr.bits[h]
    BY <1>1, <2>2, NetParts DEF net_covers, contains
  <2>4. m.addr.bits[i] < k.addr.bits[i]
    <3>1. PICK p \in 1..W : /\ m.addr.bits[p] < k.addr.bits[p]
                            /\ \A h \in 1..p-1 : m.addr.bits[h] = k.addr.bits[h]
      BY <1>3, <2>2 DEF NetBefore
    <3>2. p = i
      BY <1>1, <2>2, <3>1, NetParts
    <3> QED
      BY <3>1, <3>2
  <2>5. k.addr.bits[i] < n.addr.bits[i]
    <3>1. k.addr.bits[i] # n.addr.bits[i]
      BY <2>2, <2>3
    <3>2. PICK p \in 1..W : /\ k.addr.bits[p] < n.addr.bits[p]
                            /\ \A h \in 1..p-1 : k.addr.bits[h] = n.addr.bits[h]
      BY <1>2, <1>3, <3>1 DEF NetBefore
    <3>3. p = i
      BY <1>1, <2>2, <2>3, <3>1, <3>2, NetParts
    <3> QED
      BY <3>2, <3>3
  <2>6. m.addr.bits[i] = n.addr.bits[i]
    BY <2>3
  <2> QED
    BY <1>1, <2>4, <2>5, <2>6, NetParts
<1>5. ASSUME k.len < m.len
      PROVE  FALSE
  <2>1. ASSUME NEW i \in 1..W
        PROVE  m.addr.bits[i] = k.addr.bits[i]
    <3>1. CASE i <= m.len
      BY <1>1, <1>4, <3>1, NetParts
    <3>2. CASE i > m.len
      BY <1>1, <1>5, <3>2, HostBits, NetParts
    <3> QED
      BY <1>1, <3>1, <3>2, NetParts
  <2>2. m.len < k.len
    BY <1>1, <1>3, <2>1, NetParts DEF NetBefore
  <2> QED
    BY <1>1, <1>5, <2>2, NetParts
<1> QED
  BY <1>1, <1>3, <1>4, <1>5, NetParts DEF net_covers, contains

-----------------------------------------------------------------------------
(* dedup_overlapping.                                                      *)

\* The networks of S that lie in no other one.
Outermost(S) == {n \in S : \A m \in S \ {n} : ~net_covers(m, n)}

\* Whatever lies in a network lies in an outermost one: a shortest.
LEMMA CoveredByOutermost ==
  ASSUME NEW S, \A n \in S : Truncated(n), NEW n \in S, n \notin Outermost(S)
  PROVE  \E m \in Outermost(S) : m # n /\ net_covers(m, n)
<1> DEFINE C == {m \in S : m # n /\ net_covers(m, n)}
           T == {m.len : m \in C}
<1>0. \A m \in S : m \in Net /\ m.len \in Nat
  BY NetParts DEF Truncated
<1>1. T \subseteq Nat /\ T # {}
  BY <1>0 DEF Outermost
<1>2. PICK m \in C : \A k \in C : m.len <= k.len
  <2> HIDE DEF C
  <2>1. PICK x \in T : \A y \in T : x <= y
    <3> HIDE DEF T
    <3> QED
      BY <1>1, LeastNat
  <2> QED
    BY <2>1
<1>3. ASSUME NEW k \in S, k # m, net_covers(k, m)
      PROVE  FALSE
  <2>1. k.len < m.len
    BY <1>2, <1>3, CoversLonger
  <2>2. m.len < n.len
    BY <1>2, CoversLonger
  <2>3. net_covers(k, n)
    BY <1>0, <1>2, <1>3, CoversTransitive
  <2>4. k # n
    BY <1>0, <1>2, <2>1, <2>2
  <2>5. m.len <= k.len
    BY <1>2, <2>3, <2>4
  <2> QED
    BY <1>0, <1>2, <2>1, <2>5
<1> QED
  BY <1>2, <1>3 DEF Outermost

\* The loop has a result: the outermost networks.
LEMMA OutermostPushed ==
  ASSUME NEW S, \A n \in S : Truncated(n)
  PROVE  Pushed(S, Outermost(S))
<1> DEFINE K == Outermost(S)
<1>0. K \subseteq S /\ \A n \in S : n \in Net
  BY DEF Outermost, Truncated
<1>1. ASSUME NEW n \in K, NEW l \in K, IsLast(l, n, K), net_covers(l, n)
      PROVE  FALSE
  <2>1. l # n
    BY <1>0, <1>1, BeforeIrreflexive DEF IsLast
  <2> QED
    BY <1>0, <1>1, <2>1 DEF Outermost
<1>2. ASSUME NEW n \in S, n \notin K
      PROVE  \E l \in K : IsLast(l, n, K) /\ net_covers(l, n)
  <2>1. PICK l \in K : l # n /\ net_covers(l, n)
    BY <1>2, CoveredByOutermost
  <2>2. NetBefore(l, n)
    BY <1>0, <2>1, CoversBefore
  <2>3. ASSUME NEW m \in K, NetBefore(m, n), m # l
        PROVE  NetBefore(m, l)
    <3>1. ~NetBefore(l, m)
      <4>1. NetBefore(l, m) => net_covers(l, m)
        BY <1>0, <2>1, <2>3, CoversBetween
      <4>2. ~net_covers(l, m)
        BY <1>0, <2>3 DEF Outermost
      <4> QED
        BY <4>1, <4>2
    <3> QED
      BY <1>0, <2>3, <3>1, BeforeTotal
  <2> QED
    BY <2>1, <2>2, <2>3 DEF IsLast
<1> HIDE DEF K
<1> QED
  BY <1>0, <1>1, <1>2 DEF Pushed, K

LEMMA DedupPushed ==
  ASSUME NEW nets, nets \subseteq Net
  PROVE  LET S == {trunc(n) : n \in nets}
         IN  /\ \A n \in S : Truncated(n)
             /\ dedup_overlapping(nets) \subseteq S
             /\ Pushed(S, dedup_overlapping(nets))
<1> DEFINE S == {trunc(n) : n \in nets}
<1>1. \A n \in S : Truncated(n)
  BY TruncTruncated
<1> HIDE DEF S
<1>2. Outermost(S) \in SUBSET S /\ Pushed(S, Outermost(S))
  BY <1>1, OutermostPushed DEF Outermost
<1>3. dedup_overlapping(nets) = CHOOSE result \in SUBSET S : Pushed(S, result)
  BY DEF dedup_overlapping, S
<1>4. dedup_overlapping(nets) \in SUBSET S /\ Pushed(S, dedup_overlapping(nets))
  BY <1>2, <1>3
<1> QED
  BY <1>1, <1>4 DEF S

\* dedup_overlapping leaves no address unblocked and blocks none of its own: the
\* kernel's sets match exactly the addresses of the networks they were made from.
THEOREM DedupBlocksSame ==
  ASSUME NEW nets, nets \subseteq Net
  PROVE  Blocked(dedup_overlapping(nets)) = Blocked(nets)
<1> DEFINE S == {trunc(n) : n \in nets}
           K == dedup_overlapping(nets)
<1>1. /\ \A n \in S : Truncated(n)
      /\ K \subseteq S /\ Pushed(S, K)
  BY DedupPushed
<1>2. Blocked(S) = Blocked(nets)
  BY TruncSameBlock DEF Blocked
<1>3. ASSUME NEW n \in S
      PROVE  \E l \in K : Block(n) \subseteq Block(l)
  <2>1. CASE n \in K
    BY <2>1
  <2>2. CASE n \notin K
    <3>1. PICK l \in K : net_covers(l, n)
      BY <1>1, <2>2 DEF Pushed
    <3> HIDE DEF S, K
    <3> QED
      BY <1>1, <3>1, CoversBlock DEF Truncated
  <2> QED
    BY <2>1, <2>2
<1> HIDE DEF S, K
<1>4. Blocked(K) = Blocked(S)
  BY <1>1, <1>3 DEF Blocked
<1> QED
  BY <1>2, <1>4 DEF K
=============================================================================
