------------------------------- MODULE IpNet -------------------------------
(***************************************************************************)
(* CIDR networks, as the ipnet crate gives them to the whole program, and  *)
(* the two predicates hiveguard-core builds from them.  An address is a    *)
(* string of W bits in one address family; a network is an address and a   *)
(* prefix length, and KEEPS the host bits it was written with (10.1.2.3/24 *)
(* and 10.1.2.0/24 are different values that denote the same block), which *)
(* is why the program calls trunc() before it uses a network as a key.     *)
(* Then hiveguard-enforce/src/nftables.rs: what a batch leaves in the      *)
(* kernel's interval sets, which refuse overlapping ranges.                *)
(***************************************************************************)
EXTENDS Naturals

CONSTANTS Family,  \* the address families: "v4", "v6"
          W        \* the bits of an address (32 and 128 in the program)

ASSUME WAssumption == W \in Nat \ {0}

\* IpAddr has two variants, and the IPv4 one is the lesser.
ASSUME FamilyAssumption == Family \subseteq {"v4", "v6"}

Addr == [fam : Family, bits : [1..W -> {0, 1}]]

Net == [addr : Addr, len : 0..W]

\* IpNet::trunc: the host bits cleared.
trunc(n) ==
  [addr |-> [fam  |-> n.addr.fam,
             bits |-> [i \in 1..W |-> IF i <= n.len THEN n.addr.bits[i] ELSE 0]],
   len  |-> n.len]

\* IpNet::contains(&IpAddr).
contains(n, a) ==
  /\ n.addr.fam = a.fam
  /\ \A i \in 1..n.len : n.addr.bits[i] = a.bits[i]

\* The addresses of a network: what the two predicates below are about.
Block(n) == {a \in Addr : contains(n, a)}

\* whitelist.rs: each block's network address tested against the other block.
nets_overlap(a, b) == contains(a, b.addr) \/ contains(b, a.addr)

\* whitelist.rs, WhitelistManager::covers for one entry w.
net_covers(w, n) == contains(w, n.addr) /\ w.len <= n.len

-----------------------------------------------------------------------------
\* The order of IpNet: family, address, prefix length.
NetBefore(m, n) ==
  IF m.addr.fam # n.addr.fam THEN m.addr.fam = "v4"
  ELSE \/ \E i \in 1..W : /\ m.addr.bits[i] < n.addr.bits[i]
                          /\ \A j \in 1..i-1 : m.addr.bits[j] = n.addr.bits[j]
       \/ m.addr.bits = n.addr.bits /\ m.len < n.len

\* l is the last of the networks in list that come before n.
IsLast(l, n, list) ==
  /\ l \in list /\ NetBefore(l, n)
  /\ \A m \in list : NetBefore(m, n) => m = l \/ NetBefore(m, l)

\* The loop of dedup_overlapping over the sorted networks S: a network is pushed
\* on result unless the last one pushed before it contains it.
Pushed(S, result) ==
  \A n \in S : n \in result <=> ~ \E l \in result : IsLast(l, n, result) /\ net_covers(l, n)

\* Mutant of dedup_overlapping: each network is compared with the one before it
\* in the sorted list, pushed or not.
dedup_overlapping_adjacent(nets) ==
  LET S == {trunc(n) : n \in nets}
  IN  {n \in S : ~ \E l \in S : IsLast(l, n, S) /\ net_covers(l, n)}

\* dedup_overlapping, in the order of IpNet.
dedup_overlapping(nets) ==
  LET S == {trunc(n) : n \in nets} IN CHOOSE result \in SUBSET S : Pushed(S, result)

\* The addresses the drop rules match.
Blocked(nets) == UNION {Block(n) : n \in nets}
=============================================================================
