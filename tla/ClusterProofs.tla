---------------------------- MODULE ClusterProofs ----------------------------
(***************************************************************************)
(* What a node may rely on in the cluster: the bans it takes over from its *)
(* peers, the peers it watches, its own identity, its signatures and its   *)
(* clock, for any number of peers and whatever they send.                  *)
(***************************************************************************)
EXTENDS Hlc, RemoteQuorum, Membership, FiniteSetTheorems, WellFoundedInduction, TLAPS

\* First-order reasoning is left to Zenon; a leaf on numbers, sequences or records cites SMT.
USE Zenon

(* The bans of peers.  What the actor carries between two locks stays       *)
(* backed by the votes, since only the actor changes those.                 *)

AnyRecord == [created : Nat, expires : Nat]
Backing(e) == {s \in Signer : votes[s].expires >= e}

QuorumTyped ==
  /\ now \in Nat /\ revoked \in Nat
  /\ votes \in [Signer -> AnyRecord]
  /\ \A s \in Signer : votes[s] # None => votes[s].expires > 0
  /\ ban.rec \in AnyRecord /\ ban.source \in {"none", "peer", "local"}
  /\ work.step \in {"idle", "filtered", "decided"}
  /\ work.rec \in AnyRecord
  /\ work.step = "filtered" => work.signer \in Signer /\ work.rec.expires > 0

QuorumInv ==
  /\ QuorumTyped
  /\ work.step = "decided" => should_enforce(Backing(work.rec.expires))
  /\ WithinPolicy

LEMMA MinIsLeast ==
  ASSUME NEW T, T \subseteq Nat, T # {}
  PROVE  Min(T) \in T /\ \A y \in T : Min(T) <= y
<1>1. PICK x \in T : \A y \in T : ~(<<y, x>> \in OpToRel(<, Nat))
  BY WFMin, NatLessThanWellFounded
<1>2. \A y \in T : ~(y < x)
  BY <1>1 DEF OpToRel
<1>3. \A y \in T : x <= y
  BY <1>2, SMT
<1> QED
  BY <1>3 DEF Min

\* The signers of a decision are exactly those whose votes last as long as it.
LEMMA MergedBacked ==
  ASSUME NEW v \in [Signer -> AnyRecord], \A s \in Signer : v[s] # None => v[s].expires > 0,
         Reporters(v) # {}
  PROVE  /\ Merged(v) \in AnyRecord
         /\ Reporters(v) = {s \in Signer : v[s].expires >= Merged(v).expires}
<1> DEFINE E == {v[s].expires : s \in Reporters(v)}
           C == {v[s].created : s \in Reporters(v)}
<1>1. E \subseteq Nat /\ E # {} /\ C \subseteq Nat /\ C # {}
  BY DEF Reporters, AnyRecord
<1>2. Min(C) \in Nat /\ Min(E) \in E /\ Min(E) \in Nat /\ \A e \in E : Min(E) <= e
  <2> HIDE DEF E, C
  <2> QED
    BY <1>1, MinIsLeast
<1>3. Merged(v) = [created |-> Min(C), expires |-> Min(E)]
  BY DEF Merged
<1>4. \A s \in Reporters(v) : v[s].expires >= Min(E)
  BY <1>2 DEF Reporters, AnyRecord
<1>5. Min(E) > 0
  BY <1>2 DEF Reporters
<1>6. \A s \in Signer \ Reporters(v) : v[s].expires = 0
  BY SMT DEF Reporters, None
<1> HIDE DEF E, C
<1>7. Merged(v).expires = Min(E) /\ Merged(v) \in AnyRecord
  BY <1>2, <1>3, SMT DEF AnyRecord
<1> QED
  BY <1>2, <1>4, <1>5, <1>6, <1>7, SMT DEF Reporters

LEMMA QuorumInit0 == QuorumInit => QuorumInv
  BY SMT DEF QuorumInit, QuorumInv, QuorumTyped, WithinPolicy, None, AnyRecord, Idle

LEMMA Prefilter ==
  ASSUME QuorumInv, NEW s \in Signer, NEW r \in Record, prefilter(s, r)
  PROVE  QuorumInv'
<1>1. r \in AnyRecord /\ r.expires > 0
  BY QuorumAssumption, SMT DEF Record, AnyRecord
<1> QED
  BY <1>1 DEF prefilter, QuorumInv, QuorumTyped, WithinPolicy, Backing

\* The decision: what was expired is dropped, a vote is cast unless it is outdated.
LEMMA Decide ==
  ASSUME QuorumInv, NEW quota \in BOOLEAN, handle_ban_sync_filtered_with_policy(quota)
  PROVE  /\ QuorumInv'
         /\ \A s \in Signer :
              votes[s].expires > now => votes'[s] # None /\ ~Newer(votes[s], votes'[s])
<1> DEFINE live == Unexpired(votes)
           s == work.signer
           r == work.rec
           cast == [live EXCEPT ![s] = r]
<1>1. /\ work.step = "filtered" /\ UNCHANGED <<now, ban, whitelisted, revoked>>
      /\ \/ votes' = live /\ work' = Idle
         \/ /\ votes' = cast /\ ~Outdated(live, s, r) /\ r.expires > now
            /\ \/ work' = Idle
               \/ /\ should_enforce(Reporters(cast))
                  /\ work' = [work EXCEPT !.step = "decided", !.rec = Merged(cast)]
  BY SMT DEF handle_ban_sync_filtered_with_policy, QuorumInv, QuorumTyped, AnyRecord
<1>2. /\ live \in [Signer -> AnyRecord]
      /\ \A q \in Signer : live[q] # None => live[q].expires > 0
      /\ \A q \in Signer : votes[q].expires > now => live[q] = votes[q]
  BY DEF Unexpired, QuorumInv, QuorumTyped, None, AnyRecord
<1>3. s \in Signer /\ r \in AnyRecord /\ r.expires > 0 /\ now \in Nat
  BY <1>1 DEF QuorumInv, QuorumTyped
<1>4. \A q \in Signer : votes[q] \in AnyRecord
  BY DEF QuorumInv, QuorumTyped
<1> HIDE DEF live
<1>5. cast \in [Signer -> AnyRecord] /\ cast[s] = r /\ \A q \in Signer : q # s => cast[q] = live[q]
  BY <1>2, <1>3
<1>6. \A q \in Signer : cast[q] # None => cast[q].expires > 0
  BY <1>2, <1>3, <1>5
<1> HIDE DEF cast
<1>7. votes' = live \/ votes' = cast
  BY <1>1
<1>9. \A q \in Signer :
        votes[q].expires > now => votes'[q] # None /\ ~Newer(votes[q], votes'[q])
  <2> SUFFICES ASSUME NEW q \in Signer, votes[q].expires > now
               PROVE  votes'[q] # None /\ ~Newer(votes[q], votes'[q])
    OBVIOUS
  <2>1. votes[q] # None /\ ~Newer(votes[q], votes[q]) /\ live[q] = votes[q]
    BY <1>2, <1>3, <1>4, SMT DEF None, Newer, AnyRecord
  <2>2. CASE votes' = live
    BY <2>1, <2>2
  <2>3. CASE votes' # live
    <3>1. votes' = cast /\ ~Outdated(live, s, r) /\ r.expires > now
      BY <1>1, <2>3
    <3>2. CASE q = s
      BY <1>3, <1>5, <2>1, <3>1, <3>2, SMT DEF Outdated, None, AnyRecord
    <3>3. CASE q # s
      BY <1>5, <2>1, <3>1, <3>3
    <3> QED
      BY <3>2, <3>3
  <2> QED
    BY <2>2, <2>3
<1>10. votes' \in [Signer -> AnyRecord] /\ \A q \in Signer : votes'[q] # None => votes'[q].expires > 0
  BY <1>2, <1>5, <1>6, <1>7
<1>11. WithinPolicy'
  BY <1>1 DEF WithinPolicy, QuorumInv
<1>12. CASE work' = Idle
  BY <1>1, <1>9, <1>10, <1>11, <1>12 DEF QuorumInv, QuorumTyped, Idle, None, AnyRecord
<1>13. CASE /\ votes' = cast /\ r.expires > now /\ should_enforce(Reporters(cast))
            /\ work' = [work EXCEPT !.step = "decided", !.rec = Merged(cast)]
  <2>1. s \in Reporters(cast)
    BY <1>3, <1>5, <1>13, SMT DEF Reporters, None, AnyRecord
  <2>2. /\ Merged(cast) \in AnyRecord
        /\ Reporters(cast) = {q \in Signer : cast[q].expires >= Merged(cast).expires}
    BY <1>5, <1>6, <2>1, MergedBacked
  <2>3. work'.step = "decided" /\ work'.rec = Merged(cast)
    BY <1>13, SMT DEF QuorumInv, QuorumTyped
  <2>4. Backing(work.rec.expires)' = Reporters(cast)
    BY <1>13, <2>2, <2>3 DEF Backing
  <2>5. should_enforce(Backing(work.rec.expires)')
    BY <1>13, <2>4
  <2>6. QuorumTyped'
    BY <1>1, <1>10, <2>2, <2>3 DEF QuorumInv, QuorumTyped
  <2> QED
    BY <1>9, <1>11, <2>5, <2>6 DEF QuorumInv, should_enforce
<1> QED
  BY <1>1, <1>9, <1>12, <1>13 DEF cast

LEMMA Apply ==
  ASSUME QuorumInv, apply_bans
  PROVE  /\ QuorumInv'
         /\ ban' # ban => /\ should_enforce({s \in Signer : votes[s].expires >= ban'.rec.expires})
                          /\ ban.source # "local"
<1>1. CASE Applicable(work.rec)
  <2>1. ban' = [rec |-> work.rec, source |-> "peer"] /\ UNCHANGED <<now, votes, whitelisted, revoked>>
    BY <1>1 DEF apply_bans
  <2>2. WithinPolicy'
    BY <1>1, <2>1, QuorumAssumption, SMT
    DEF WithinPolicy, Applicable, remote_policy_allows, accepts_remote_ban, QuorumInv, QuorumTyped, AnyRecord
  <2>3. ban.source # "local"
    BY <1>1 DEF Applicable, remote_changes_state, Active
  <2>4. should_enforce({s \in Signer : votes[s].expires >= ban'.rec.expires})
    BY <2>1, SMT DEF QuorumInv, Backing, apply_bans
  <2>5. QuorumTyped' /\ work'.step = "idle"
    BY <2>1, SMT DEF QuorumInv, QuorumTyped, apply_bans, Idle, None, AnyRecord
  <2> QED
    BY <2>2, <2>3, <2>4, <2>5 DEF QuorumInv
<1>2. CASE ~Applicable(work.rec)
  BY <1>2 DEF apply_bans, QuorumInv, QuorumTyped, WithinPolicy, Idle, None, AnyRecord
<1> QED
  BY <1>1, <1>2

LEMMA Others ==
  ASSUME QuorumInv,
         quarantined \/ unban \/ whitelist_add \/ time_passes \/ \E r \in Record : local_ban(r)
  PROVE  QuorumInv' /\ UNCHANGED votes /\ (ban' # ban => ban'.source # "peer")
<1>1. CASE quarantined
  BY <1>1 DEF quarantined, QuorumInv, QuorumTyped, WithinPolicy, Idle, None, AnyRecord
<1>2. CASE unban
  BY <1>2 DEF unban, QuorumInv, QuorumTyped, WithinPolicy, None, AnyRecord, Backing, should_enforce
<1>3. CASE whitelist_add
  BY <1>3 DEF whitelist_add, QuorumInv, QuorumTyped, WithinPolicy, None, AnyRecord, Backing, should_enforce
<1>4. CASE time_passes
  <2>1. QuorumTyped' /\ UNCHANGED <<work, votes>>
    BY <1>4, SMT DEF time_passes, QuorumInv, QuorumTyped, None, AnyRecord
  <2>2. WithinPolicy' /\ (ban' # ban => ban'.source # "peer")
    BY <1>4, QuorumAssumption, SMT DEF time_passes, QuorumInv, QuorumTyped, WithinPolicy, AnyRecord
  <2> QED
    BY <2>1, <2>2 DEF QuorumInv, Backing, should_enforce
<1>5. CASE \E r \in Record : local_ban(r)
  <2>1. PICK r \in Record : local_ban(r)
    BY <1>5
  <2>2. r \in AnyRecord
    BY QuorumAssumption, SMT DEF Record, AnyRecord
  <2> QED
    BY <2>1, <2>2 DEF local_ban, QuorumInv, QuorumTyped, WithinPolicy, Backing, should_enforce
<1> QED
  BY <1>1, <1>2, <1>3, <1>4, <1>5

(* Whatever the peers send and in whatever order the actor, the operator    *)
(* and the clock take their steps: a ban of a peer enters the store only    *)
(* while enough trusted signers vouch for its whole lifetime, it never      *)
(* exceeds the local limit, returns after an unban or replaces a local      *)
(* decision, and no live vote is lost or taken back in time                 *)
(* (ingest_remote_bans and apply_bans with the quorum of net/gossip.rs).    *)
THEOREM PeerBansAreBacked == QuorumSpec => RemoteBansBacked
<1> DEFINE Backed == ban' # ban /\ ban'.source = "peer"
                       => should_enforce({s \in Signer : votes[s].expires >= ban'.rec.expires})
           Kept == ban.source = "local" => ban'.source # "peer"
           Advance == \A s \in Signer :
             votes[s].expires > now => votes'[s] # None /\ ~Newer(votes[s], votes'[s])
<1>1. ASSUME QuorumInv, [QuorumNext]_quorum_vars
      PROVE  QuorumInv' /\ Backed /\ Kept /\ Advance
  <2>0. UNCHANGED votes => Advance
    BY <1>1, SMT DEF QuorumInv, QuorumTyped, Newer, None, AnyRecord
  <2>1. CASE UNCHANGED quorum_vars
    BY <1>1, <2>0, <2>1
    DEF quorum_vars, QuorumInv, QuorumTyped, WithinPolicy, Backing, should_enforce
  <2>2. CASE \E s \in Signer, r \in Record : prefilter(s, r)
    <3>1. UNCHANGED <<ban, votes>>
      BY <2>2 DEF prefilter
    <3> QED
      BY <1>1, <2>0, <2>2, <3>1, Prefilter
  <2>3. CASE \E quota \in BOOLEAN : handle_ban_sync_filtered_with_policy(quota)
    <3>1. UNCHANGED ban
      BY <2>3 DEF handle_ban_sync_filtered_with_policy
    <3> QED
      BY <1>1, <2>3, <3>1, Decide
  <2>4. CASE apply_bans
    <3>1. UNCHANGED votes
      BY <2>4 DEF apply_bans
    <3> QED
      BY <1>1, <2>0, <2>4, <3>1, Apply
  <2>5. CASE quarantined \/ unban \/ whitelist_add \/ time_passes \/ \E r \in Record : local_ban(r)
    BY <1>1, <2>0, <2>5, Others
  <2> QED
    BY <1>1, <2>1, <2>2, <2>3, <2>4, <2>5 DEF QuorumNext
<1>2. QuorumInv => WithinPolicy
  BY DEF QuorumInv
<1> QED
  BY <1>1, <1>2, QuorumInit0, PTL
  DEF QuorumSpec, RemoteBansBacked, QuorumBacked, LocalKept, VotesAdvance

-----------------------------------------------------------------------------
(* The connection table and the failure detector. *)

MemberInv ==
  /\ connections \in [Peer -> {"none", "open", "half", "closed"}]
  /\ arrived \in [Peer -> {"none", "open", "half"}]
  /\ known_peers \in [Peer -> {"unknown", "Alive", "Suspect"}]
  /\ Monitored

LEMMA MemberInit0 == MemberInit => MemberInv
  BY DEF MemberInit, MemberInv, Monitored

\* Marking peers alive or suspect neither adds one nor forgets one.
LEMMA UpdateKnows ==
  ASSUME MemberInv, NEW S, NEW state \in {"Alive", "Suspect"}
  PROVE  /\ update_peer_state(S, state) \in [Peer -> {"unknown", "Alive", "Suspect"}]
         /\ \A p \in Peer : update_peer_state(S, state)[p] # "unknown" <=> known_peers[p] # "unknown"
BY DEF update_peer_state, MemberInv

LEMMA ProbeStep ==
  ASSUME MemberInv, NEW t, NEW late, NEW gone \in SUBSET Expired(late), on_probe(t, late, gone)
  PROVE  /\ MemberInv'
         /\ \A p \in Peer : connections[p] # "none" /\ connections'[p] = "none" => known_peers[p] = "Suspect"
<1> DEFINE kept == update_peer_state(Suspected(late), "Suspect")
<1>1. /\ known_peers' = Forget(kept, gone, "unknown")
      /\ connections' = Forget(connections, gone, "none") /\ arrived' = arrived
  BY DEF on_probe
<1>2. /\ kept \in [Peer -> {"unknown", "Alive", "Suspect"}]
      /\ \A p \in Peer : kept[p] # "unknown" <=> known_peers[p] # "unknown"
  BY UpdateKnows
<1>3. \A p \in gone : known_peers[p] = "Suspect"
  BY DEF Expired
<1> HIDE DEF kept
<1>4. /\ known_peers' \in [Peer -> {"unknown", "Alive", "Suspect"}]
      /\ connections' \in [Peer -> {"none", "open", "half", "closed"}]
  BY <1>1, <1>2 DEF Forget, MemberInv
<1>5. Monitored'
  BY <1>1, <1>2 DEF Forget, MemberInv, Monitored
<1> QED
  BY <1>1, <1>3, <1>4, <1>5 DEF MemberInv, Forget

LEMMA PeerStep ==
  ASSUME MemberInv, NEW p \in Peer,
         \/ dial(p) \/ accept(p) \/ on_peer_connected(p) \/ peer_closes(p) \/ reader_loop(p)
         \/ \E type \in {"Ping", "Pong"} : on_inbound(p, type)
  PROVE  /\ MemberInv'
         /\ \A q \in Peer : connections[q] # "none" => connections'[q] # "none"
<1>1. CASE dial(p) \/ accept(p)
  BY <1>1 DEF dial, accept, MemberInv, Monitored
<1>2. CASE on_peer_connected(p)
  <2>1. CASE Rejected(p)
    BY <1>2, <2>1 DEF on_peer_connected, MemberInv, Monitored
  <2>2. CASE ~Rejected(p) /\ ExistingHealthy(p)
    BY <1>2, <2>2 DEF on_peer_connected, MemberInv, Monitored, register_peer, ExistingHealthy
  <2>3. CASE ~Rejected(p) /\ ~ExistingHealthy(p)
    BY <1>2, <2>3, ZenonT(40) DEF on_peer_connected, MemberInv, Monitored, register_peer
  <2> QED
    BY <2>1, <2>2, <2>3
<1>3. CASE peer_closes(p)
  BY <1>3 DEF peer_closes, MemberInv, Monitored
<1>4. CASE reader_loop(p)
  BY <1>4 DEF reader_loop, MemberInv, Monitored
<1>5. CASE \E type \in {"Ping", "Pong"} : on_inbound(p, type)
  <2>1. known_peers' = update_peer_state({p}, "Alive") /\ UNCHANGED <<connections, arrived>>
    BY <1>5 DEF on_inbound
  <2> QED
    BY <2>1, UpdateKnows, ZenonT(40) DEF MemberInv, Monitored
<1> QED
  BY <1>1, <1>2, <1>3, <1>4, <1>5

LEMMA MemberStep ==
  ASSUME MemberInv, [MemberNext]_member_vars
  PROVE  /\ MemberInv'
         /\ \A p \in Peer :
              connections[p] = "open" /\ connections'[p] = "none" => known_peers[p] = "Suspect"
<1>1. CASE UNCHANGED member_vars
  BY <1>1 DEF member_vars, MemberInv, Monitored
<1>2. CASE on_maintenance
  BY <1>2 DEF on_maintenance, MemberInv, Monitored
<1>3. CASE \E p \in Peer :
             \/ dial(p) \/ accept(p) \/ on_peer_connected(p) \/ peer_closes(p) \/ reader_loop(p)
             \/ \E type \in {"Ping", "Pong"} : on_inbound(p, type)
  BY <1>3, PeerStep
<1>4. CASE \E t \in select_probe_target, late \in SUBSET pending_pings :
             \E gone \in SUBSET Expired(late) : on_probe(t, late, gone)
  BY <1>4, ProbeStep
<1> QED
  BY <1>1, <1>2, <1>3, <1>4 DEF MemberNext

-----------------------------------------------------------------------------
(* The identity on disk.  A node takes part only under the key on disk, and *)
(* once it has, both files are whole, so that no start generates again.     *)

IdentityInv ==
  /\ key \in Nat \cup {-1} /\ cert \in Nat \cup {-1} /\ node_id \in Nat
  /\ step \in {"down", "key", "chmod", "cert", "up", "disabled"}
  /\ cert # 0 => private /\ key # 0
  /\ step = "up" => cert # 0
  /\ step = "key" => cert = 0 /\ node_id > 0
  /\ step = "chmod" => cert = 0 /\ key = node_id /\ node_id > 0
  /\ step = "cert" => key = node_id /\ node_id > 0 /\ cert = -1
  /\ step \in {"key", "chmod", "cert"} => announced = {}
  /\ announced = {} \/ (announced = {key} /\ key > 0 /\ cert > 0)

LEMMA IdentityInvariant == IdentitySpec => [](OneIdentity /\ KeyProtected)
<1>1. IdentityInit => IdentityInv
  BY SMT DEF IdentityInit, IdentityInv
<1>2. ASSUME IdentityInv, [IdentityNext]_identity_vars
      PROVE  IdentityInv'
  <2> USE <1>2 DEF IdentityInv
  <2>1. CASE UNCHANGED identity_vars
    BY <2>1 DEF identity_vars
  <2>2. CASE step = "down" /\ Exists(key) /\ Exists(cert) /\ load
    BY <2>2, SMT DEF Exists, load
  <2>3. CASE step = "down" /\ ~(Exists(key) /\ Exists(cert)) /\ generate
    BY <2>3, SMT DEF Exists, generate
  <2>4. CASE write_key
    BY <2>4 DEF write_key
  <2>5. CASE set_permissions
    BY <2>5, SMT DEF set_permissions
  <2>6. CASE write_cert
    BY <2>6, SMT DEF write_cert
  <2>7. CASE crash
    BY <2>7 DEF crash
  <2> QED
    BY <2>1, <2>2, <2>3, <2>4, <2>5, <2>6, <2>7 DEF IdentityNext, load_or_generate
<1>3. IdentityInv => OneIdentity /\ KeyProtected
  <2> SUFFICES ASSUME IdentityInv
               PROVE  OneIdentity /\ KeyProtected
    OBVIOUS
  <2>1. Cardinality({}) = 0 /\ Cardinality({key}) = 1
    BY FS_EmptySet, FS_Singleton
  <2> QED
    BY <2>1, SMT DEF IdentityInv, OneIdentity, KeyProtected
<1> QED
  BY <1>1, <1>2, <1>3, PTL DEF IdentitySpec

-----------------------------------------------------------------------------
(* The memo of mined signatures: a FIFO queue without repetitions. *)

Distinct(q) == \A i, j \in 1..Len(q) : q[i] = q[j] => i = j

CacheInv ==
  /\ insertion_order \in Seq(Request) /\ Distinct(insertion_order)
  /\ entries = [k \in DOMAIN entries |-> k] /\ IsFiniteSet(DOMAIN entries)
  /\ QueueMatches /\ NeverStale

LEMMA TailLosesHead ==
  ASSUME NEW q \in Seq(Request), q # <<>>, Distinct(q)
  PROVE  /\ Tail(q) \in Seq(Request) /\ Distinct(Tail(q)) /\ Len(Tail(q)) = Len(q) - 1
         /\ Head(q) \in ToSet(q) /\ ToSet(Tail(q)) = ToSet(q) \ {Head(q)}
<1>1. /\ Tail(q) \in Seq(Request) /\ Len(Tail(q)) = Len(q) - 1 /\ Len(q) \in Nat \ {0}
      /\ \A i \in 1..Len(Tail(q)) : Tail(q)[i] = q[i + 1]
      /\ Head(q) = q[1] /\ DOMAIN q = 1..Len(q) /\ DOMAIN Tail(q) = 1..Len(Tail(q))
  BY SMT
<1>2. \A i \in 2..Len(q) : i - 1 \in 1..Len(Tail(q)) /\ Tail(q)[i - 1] = q[i]
  BY <1>1, SMT
<1>3. Distinct(Tail(q))
  BY <1>1, SMT DEF Distinct
<1>4. ToSet(Tail(q)) \subseteq ToSet(q) \ {Head(q)}
  BY <1>1, SMT DEF ToSet, Distinct
<1>5. ASSUME NEW x \in ToSet(q) \ {Head(q)}
      PROVE  x \in ToSet(Tail(q))
  <2>1. PICK i \in 1..Len(q) : x = q[i]
    BY <1>1 DEF ToSet
  <2>2. i \in 2..Len(q)
    BY <1>1, <2>1, SMT
  <2> QED
    BY <1>1, <1>2, <2>1, <2>2 DEF ToSet
<1>6. Head(q) \in ToSet(q)
  BY <1>1, SMT DEF ToSet
<1> QED
  BY <1>1, <1>3, <1>4, <1>5, <1>6

LEMMA AppendAdds ==
  ASSUME NEW q \in Seq(Request), NEW k \in Request, k \notin ToSet(q), Distinct(q)
  PROVE  /\ Append(q, k) \in Seq(Request) /\ Distinct(Append(q, k))
         /\ Len(Append(q, k)) = Len(q) + 1 /\ ToSet(Append(q, k)) = ToSet(q) \cup {k}
<1>1. /\ Append(q, k) \in Seq(Request) /\ Len(Append(q, k)) = Len(q) + 1 /\ Len(q) \in Nat
      /\ \A i \in 1..Len(q) : Append(q, k)[i] = q[i]
      /\ Append(q, k)[Len(q) + 1] = k
      /\ DOMAIN q = 1..Len(q) /\ DOMAIN Append(q, k) = 1..(Len(q) + 1)
  BY SMT
<1>2. Distinct(Append(q, k))
  BY <1>1, SMT DEF Distinct, ToSet
<1>3. ToSet(Append(q, k)) = ToSet(q) \cup {k}
  BY <1>1, SMT DEF ToSet
<1> QED
  BY <1>1, <1>2, <1>3

LEMMA SignStep ==
  ASSUME CacheInv, NEW r \in Request, sign(r)
  PROVE  CacheInv'
<1>1. CASE r \in DOMAIN entries
  BY <1>1, SMT DEF sign, key_of, CacheInv, QueueMatches, NeverStale, sign_canonical
<1>2. CASE r \notin DOMAIN entries
  <2> DEFINE D == evict[1]
             q == evict[2]
  <2>1. /\ entries' = [j \in D \cup {r} |-> IF j = r THEN r ELSE entries[j]]
        /\ insertion_order' = Append(q, r) /\ answer' = <<r, r>>
    BY <1>2 DEF sign, key_of, sign_canonical
  <2>2. /\ q \in Seq(Request) /\ Distinct(q) /\ ToSet(q) = D /\ D \subseteq DOMAIN entries
        /\ Len(q) = Cardinality(D) /\ Len(q) < capacity /\ IsFiniteSet(D)
    <3>0. Cardinality(DOMAIN entries) \in Nat /\ capacity \in Nat \ {0}
      BY FS_CardinalityType, CapacityAssumption DEF CacheInv
    <3>1. CASE Cardinality(DOMAIN entries) >= capacity
      <4>1. D = DOMAIN entries \ {Head(insertion_order)} /\ q = Tail(insertion_order)
        BY <3>1 DEF evict
      <4>2. insertion_order # <<>> /\ Len(insertion_order) = Cardinality(DOMAIN entries)
        BY <3>0, <3>1, SMT DEF CacheInv, QueueMatches
      <4>3. /\ Tail(insertion_order) \in Seq(Request) /\ Distinct(Tail(insertion_order))
            /\ Len(Tail(insertion_order)) = Len(insertion_order) - 1
            /\ Head(insertion_order) \in DOMAIN entries
            /\ ToSet(Tail(insertion_order)) = DOMAIN entries \ {Head(insertion_order)}
        BY <4>2, TailLosesHead DEF CacheInv, QueueMatches
      <4>4. /\ IsFiniteSet(DOMAIN entries \ {Head(insertion_order)})
            /\ Cardinality(DOMAIN entries \ {Head(insertion_order)}) = Cardinality(DOMAIN entries) - 1
        <5>1. IsFiniteSet(DOMAIN entries)
          BY DEF CacheInv
        <5> QED
          BY <4>3, <5>1, FS_RemoveElement
      <4> QED
        BY <3>0, <4>1, <4>2, <4>3, <4>4, SMT DEF CacheInv, QueueMatches
    <3>2. CASE ~(Cardinality(DOMAIN entries) >= capacity)
      <4>1. D = DOMAIN entries /\ q = insertion_order
        BY <3>2 DEF evict
      <4> QED
        BY <3>0, <3>2, <4>1, SMT DEF CacheInv, QueueMatches
    <3> QED
      BY <3>1, <3>2
  <2> HIDE DEF D, q
  <2>3. r \notin D
    BY <1>2, <2>2
  <2>4. /\ Append(q, r) \in Seq(Request) /\ Distinct(Append(q, r))
        /\ Len(Append(q, r)) = Len(q) + 1 /\ ToSet(Append(q, r)) = D \cup {r}
    BY <2>2, <2>3, AppendAdds
  <2>5. IsFiniteSet(D \cup {r}) /\ Cardinality(D \cup {r}) = Cardinality(D) + 1
    BY <2>2, <2>3, FS_AddElement
  <2>6. DOMAIN entries' = D \cup {r}
    BY <2>1
  <2>7. \A k \in D : entries[k] = k
    BY <2>2 DEF CacheInv
  <2>8. entries' = [k \in DOMAIN entries' |-> k]
    BY <2>1, <2>6, <2>7
  <2>9. QueueMatches'
    <3>1. Len(q) \in Nat /\ capacity \in Nat
      BY <2>2, CapacityAssumption, SMT
    <3> QED
      BY <2>1, <2>2, <2>4, <2>5, <2>6, <3>1, SMT DEF QueueMatches
  <2>10. NeverStale'
    BY <2>1 DEF NeverStale, sign_canonical
  <2> QED
    BY <2>1, <2>4, <2>5, <2>6, <2>8, <2>9, <2>10 DEF CacheInv
<1> QED
  BY <1>1, <1>2

LEMMA CacheInvariant == CacheSpec => [](NeverStale /\ QueueMatches)
<1>1. CacheInit => CacheInv
  <2> SUFFICES ASSUME CacheInit
               PROVE  CacheInv
    OBVIOUS
  <2>1. entries = [k \in {} |-> 0] /\ DOMAIN entries = {} /\ insertion_order = <<>> /\ answer = <<>>
    BY DEF CacheInit
  <2>2. Cardinality({}) = 0 /\ IsFiniteSet({})
    BY FS_EmptySet
  <2>3. entries = [k \in DOMAIN entries |-> k]
    BY <2>1
  <2>4. ToSet(insertion_order) = {} /\ Len(insertion_order) = 0 /\ insertion_order \in Seq(Request)
    BY <2>1, SMT DEF ToSet
  <2> QED
    BY <2>1, <2>2, <2>3, <2>4, CapacityAssumption, SMT DEF CacheInv, QueueMatches, NeverStale, Distinct
<1>2. CacheInv /\ [CacheNext]_cache_vars => CacheInv'
  <2>1. CacheInv /\ UNCHANGED cache_vars => CacheInv'
    BY DEF cache_vars, CacheInv, QueueMatches, NeverStale
  <2> QED
    BY <2>1, SignStep DEF CacheNext
<1>3. CacheInv => NeverStale /\ QueueMatches
  BY DEF CacheInv
<1> QED
  BY <1>1, <1>2, <1>3, PTL DEF CacheSpec

(* For every set of peers, seeds and configuration: the failure detector    *)
(* watches exactly the peers in the connection table (on_peer_connected,    *)
(* on_probe), a healthy connection goes only after a suspicion, a node      *)
(* takes part under one id with its key protected (load_or_generate), and   *)
(* the signing memo never answers with another record's stamp.              *)
THEOREM PeersAreWatched == MemberSpec /\ IdentitySpec /\ CacheSpec => PeersWatched
<1>1. MemberInv /\ [MemberNext]_member_vars => MemberInv'
  BY MemberStep
<1>2. MemberInv /\ [MemberNext]_member_vars =>
        [\A p \in Peer :
           connections[p] = "open" /\ connections'[p] = "none" => known_peers[p] = "Suspect"]_member_vars
  BY MemberStep
<1>3. MemberInv => Monitored
  BY DEF MemberInv
<1> QED
  BY <1>1, <1>2, <1>3, MemberInit0, IdentityInvariant, CacheInvariant, PTL
  DEF MemberSpec, PeersWatched, HealthyKept

-----------------------------------------------------------------------------
(***************************************************************************)
(* The causal order and the bounded drift of the clocks, proved for any    *)
(* number of nodes, any readings of the system clocks and any skew.        *)
(***************************************************************************)
USE SkewAssumption, HlcAssumption

LEMMA NotAfterTrans ==
  ASSUME NEW a \in HlcTimestamp, NEW b \in HlcTimestamp, NEW c \in HlcTimestamp,
         NotAfter(a, b), Before(b, c)
  PROVE  NotAfter(a, c)
  BY SMT DEF HlcTimestamp, NotAfter, Before

LEMMA NotAfterRefl == \A a \in HlcTimestamp : NotAfter(a, a)
  BY SMT DEF HlcTimestamp, NotAfter, Before

\* tick returns a timestamp after the clock, no further than the system clock.
LEMMA TickAdvances ==
  ASSUME NEW h \in HlcTimestamp, NEW sys \in Nat
  PROVE  /\ tick(h, sys) \in HlcTimestamp
         /\ Before(h, tick(h, sys))
         /\ tick(h, sys).wall_time_ms = Highest(h.wall_time_ms, sys)
  BY SMT DEF HlcTimestamp, tick, Stamp, Before, Highest

\* update returns a timestamp after the clock and after the remote timestamp,
\* unless that one was clamped.
LEMMA UpdateAdvances ==
  ASSUME NEW h \in HlcTimestamp, NEW r \in HlcTimestamp, NEW sys \in Nat
  PROVE  /\ update(h, r, sys) \in HlcTimestamp
         /\ Before(h, update(h, r, sys))
         /\ r.wall_time_ms <= sys + MAX_SKEW_MS => Before(r, update(h, r, sys))
         /\ update(h, r, sys).wall_time_ms <= Highest(h.wall_time_ms, sys + MAX_SKEW_MS)
  <1> DEFINE rw == clamped(r, sys)
             u == update(h, r, sys)
  <1>1. /\ h.wall_time_ms \in Nat /\ h.counter \in Nat /\ h.node_id_hash \in Nat
        /\ r.wall_time_ms \in Nat /\ r.counter \in Nat
    BY DEF HlcTimestamp
  <1>2. /\ rw \in Nat /\ rw <= sys + MAX_SKEW_MS
        /\ r.wall_time_ms <= sys + MAX_SKEW_MS => rw = r.wall_time_ms
    BY <1>1, SMT DEF clamped
  <1>3. \/ /\ u = Stamp(sys, 0, h.node_id_hash) /\ sys > h.wall_time_ms /\ sys > rw
        \/ /\ h.wall_time_ms = rw
           /\ \E c \in Nat : c >= r.counter /\ c >= h.counter /\ u = Stamp(rw, c + 1, h.node_id_hash)
        \/ u = Stamp(rw, r.counter + 1, h.node_id_hash) /\ rw > h.wall_time_ms
        \/ u = Stamp(h.wall_time_ms, h.counter + 1, h.node_id_hash) /\ h.wall_time_ms > rw
    BY <1>1, <1>2, SMT DEF update
  <1> HIDE DEF rw, u
  <1>4. PICK w \in Nat, c \in Nat : u = Stamp(w, c, h.node_id_hash)
    BY <1>1, <1>2, <1>3, SMT
  <1>5. /\ u \in HlcTimestamp /\ u.wall_time_ms = w /\ u.counter = c
    BY <1>1, <1>4 DEF HlcTimestamp, Stamp
  <1>6. Before(h, u) /\ u.wall_time_ms <= Highest(h.wall_time_ms, sys + MAX_SKEW_MS)
    BY <1>1, <1>2, <1>3, SMT DEF Before, Highest, Stamp
  <1>7. r.wall_time_ms <= sys + MAX_SKEW_MS => Before(r, u)
    BY <1>1, <1>2, <1>3, SMT DEF Before, Stamp
  <1> QED
    BY <1>5, <1>6, <1>7 DEF u

Inv == TypeOK /\ CausalOrder /\ DriftBounded

LEMMA InitInv == Init => Inv
  <1> SUFFICES ASSUME Init PROVE Inv
    OBVIOUS
  <1>1. \A n \in Nodes : hlc[n] \in HlcTimestamp /\ hlc[n].wall_time_ms = highest[n]
    BY DEF Init, fresh, Stamp, HlcTimestamp
  <1>2. TypeOK
    BY <1>1 DEF Init, TypeOK
  <1>3. CausalOrder
    BY <1>1, NotAfterRefl DEF Init, CausalOrder
  <1>4. DriftBounded
    <2>1. \A n \in Nodes : highest[n] \in Nat
      BY DEF Init
    <2> QED
      BY <1>1, <2>1, SMT DEF DriftBounded
  <1> QED
    BY <1>2, <1>3, <1>4 DEF Inv

LEMMA LocalInv ==
  ASSUME Inv, NEW n \in Nodes, NEW sys \in Time, local_event(n, sys)
  PROVE  Inv'
  <1> DEFINE t == tick(hlc[n], sys)
             m == [ts |-> t, past |-> past[n] \cup {t}]
  <1>0. TypeOK /\ CausalOrder /\ DriftBounded /\ hlc[n] \in HlcTimestamp /\ sys \in Nat
    BY DEF Inv, TypeOK
  <1>1. /\ t \in HlcTimestamp /\ Before(hlc[n], t)
        /\ t.wall_time_ms = Highest(hlc[n].wall_time_ms, sys)
    BY <1>0, TickAdvances
  <1>2. /\ hlc' = [hlc EXCEPT ![n] = t]
        /\ highest' = [highest EXCEPT ![n] = Highest(highest[n], sys)]
        /\ past' = [past EXCEPT ![n] = past[n] \cup {t}]
        /\ sent' = sent \cup {m}
    BY <1>0 DEF local_event, TypeOK
  <1> HIDE DEF t
  <1>3. \A u \in past[n] \cup {t} : u \in HlcTimestamp /\ NotAfter(u, t)
    BY <1>0, <1>1, NotAfterTrans, NotAfterRefl DEF TypeOK, CausalOrder
  <1>4. TypeOK'
    BY <1>0, <1>1, <1>2, <1>3, SMT DEF TypeOK, Highest
  <1>5. CausalOrder'
    BY <1>0, <1>2, <1>3, SMT DEF CausalOrder, TypeOK
  <1>6. DriftBounded'
    <2> SUFFICES ASSUME NEW k \in Nodes
                 PROVE  hlc'[k].wall_time_ms <= highest'[k] + MAX_SKEW_MS
      BY DEF DriftBounded
    <2>1. /\ highest[k] \in Nat /\ hlc[k].wall_time_ms \in Nat /\ t.wall_time_ms \in Nat
          /\ hlc[k].wall_time_ms <= highest[k] + MAX_SKEW_MS
      BY <1>0, <1>1 DEF TypeOK, HlcTimestamp, DriftBounded
    <2>2. /\ hlc'[k] = IF k = n THEN t ELSE hlc[k]
          /\ highest'[k] = IF k = n THEN Highest(highest[k], sys) ELSE highest[k]
      BY <1>0, <1>2 DEF TypeOK
    <2> QED
      BY <1>0, <1>1, <2>1, <2>2, SMT DEF Highest
  <1> QED
    BY <1>4, <1>5, <1>6 DEF Inv

LEMMA ReceiveInv ==
  ASSUME Inv, NEW n \in Nodes, NEW sys \in Time, NEW m \in sent, receive_event(n, m, sys)
  PROVE  Inv'
  <1> DEFINE t == update(hlc[n], m.ts, sys)
             P == past[n] \cup {t} \cup
                    IF m.ts.wall_time_ms > sys + MAX_SKEW_MS THEN {} ELSE m.past
  <1>0. /\ TypeOK /\ CausalOrder /\ DriftBounded /\ hlc[n] \in HlcTimestamp /\ sys \in Nat
        /\ m.ts \in HlcTimestamp
    BY DEF Inv, TypeOK
  <1>1. /\ t \in HlcTimestamp /\ Before(hlc[n], t)
        /\ m.ts.wall_time_ms <= sys + MAX_SKEW_MS => Before(m.ts, t)
        /\ t.wall_time_ms <= Highest(hlc[n].wall_time_ms, sys + MAX_SKEW_MS)
    BY <1>0, UpdateAdvances
  <1>2. /\ hlc' = [hlc EXCEPT ![n] = t]
        /\ highest' = [highest EXCEPT ![n] = Highest(highest[n], sys)]
        /\ past' = [past EXCEPT ![n] = P]
        /\ sent' = sent
    BY <1>0 DEF receive_event, TypeOK
  <1> HIDE DEF t
  <1>3. ASSUME NEW u \in P PROVE u \in HlcTimestamp /\ NotAfter(u, t)
    <2>1. CASE u \in past[n]
      BY <2>1, <1>0, <1>1, NotAfterTrans DEF TypeOK, CausalOrder
    <2>2. CASE u = t
      BY <2>2, <1>1, NotAfterRefl
    <2>3. CASE ~(m.ts.wall_time_ms > sys + MAX_SKEW_MS) /\ u \in m.past
      <3>0. m.ts.wall_time_ms \in Nat
        BY <1>0 DEF HlcTimestamp
      <3>1. Before(m.ts, t)
        BY <2>3, <3>0, <1>0, <1>1, SMT
      <3> QED
        BY <2>3, <3>1, <1>0, <1>1, NotAfterTrans DEF TypeOK, CausalOrder
    <2> QED
      BY <2>1, <2>2, <2>3
  <1> HIDE DEF P
  <1>4. TypeOK'
    BY <1>0, <1>1, <1>2, <1>3 DEF TypeOK, Highest
  <1>5. CausalOrder'
    BY <1>0, <1>2, <1>3 DEF CausalOrder, TypeOK
  <1>6. DriftBounded'
    <2> SUFFICES ASSUME NEW k \in Nodes
                 PROVE  hlc'[k].wall_time_ms <= highest'[k] + MAX_SKEW_MS
      BY DEF DriftBounded
    <2>1. /\ highest[k] \in Nat /\ hlc[k].wall_time_ms \in Nat /\ t.wall_time_ms \in Nat
          /\ hlc[k].wall_time_ms <= highest[k] + MAX_SKEW_MS
      BY <1>0, <1>1 DEF TypeOK, HlcTimestamp, DriftBounded
    <2>2. /\ hlc'[k] = IF k = n THEN t ELSE hlc[k]
          /\ highest'[k] = IF k = n THEN Highest(highest[k], sys) ELSE highest[k]
      BY <1>0, <1>2 DEF TypeOK
    <2>3. CASE k = n
      <3>1. t.wall_time_ms <= Highest(hlc[n].wall_time_ms, sys + MAX_SKEW_MS) /\ sys \in Nat
        BY <1>0, <1>1
      <3> QED
        BY <2>1, <2>2, <2>3, <3>1, SMT DEF Highest
    <2>4. CASE k # n
      BY <2>1, <2>2, <2>4
    <2> QED
      BY <2>3, <2>4
  <1> QED
    BY <1>4, <1>5, <1>6 DEF Inv

LEMMA InvInvariant == Spec => []Inv
  <1>1. Inv /\ [Next]_vars => Inv'
    <2>1. ASSUME Inv, Next PROVE Inv'
      BY <2>1, LocalInv, ReceiveInv DEF Next
    <2>2. ASSUME Inv, UNCHANGED vars PROVE Inv'
      BY <2>2 DEF Inv, TypeOK, CausalOrder, DriftBounded, vars
    <2> QED
      BY <2>1, <2>2
  <1> QED
    BY InitInv, <1>1, PTL DEF Spec

\* A clock is never behind anything that happened before it, through any chain
\* of messages, whatever the system clocks show (HlcTimestamp::tick, update), and
\* no sequence of received timestamps moves a clock further than MAX_SKEW_MS
\* beyond the highest reading of its own system clock (the clamp in update).
THEOREM ClocksAreSound == Spec => []ClocksSound
  BY InvInvariant, PTL DEF Inv, ClocksSound
=============================================================================
