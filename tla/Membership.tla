----------------------------- MODULE Membership -----------------------------
(***************************************************************************)
(* The connections of one node (daemon/cluster.rs) and its failure         *)
(* detector (net/membership.rs, net/peer.rs).  The node dials its seeds,   *)
(* accepts those who dial it, probes the peers it believes alive, suspects *)
(* those who do not answer and drops those it suspected for too long.      *)
(* The other nodes are the environment: they dial, send and close as they  *)
(* like, but only over a connection that is there.                         *)
(*                                                                         *)
(* Time is not counted: at a probe tick any probe or suspicion older than  *)
(* the tick may have reached its deadline.                                 *)
(***************************************************************************)
EXTENDS Integers, Sequences, FiniteSets, SequencesExt

CONSTANTS Peer,
          Seeds,       \* the peers whose address is configured
          Pinned,      \* their fingerprints are configured too
          ClusterMode  \* "strict" or "auto-accept"

VARIABLES connections, \* peer -> "none", "open", "half" (closed there, not seen yet), "closed"
          arrived,     \* peer -> the state of a handshaked connection in the actor's inbox
          known_peers, \* peer -> "unknown", "Alive" or "Suspect"
          pending_pings,
          dialing

member_vars == <<connections, arrived, known_peers, pending_pings, dialing>>

MemberInit ==
  /\ connections = [p \in Peer |-> "none"] /\ arrived = [p \in Peer |-> "none"]
  /\ known_peers = [p \in Peer |-> "unknown"]
  /\ pending_pings = {} /\ dialing = {}

get_alive_peers == {p \in Peer : known_peers[p] = "Alive"}
allowed == IF Pinned THEN Seeds ELSE {}

-----------------------------------------------------------------------------
(* Dialing and accepting. *)

\* Without a fingerprint a seed cannot be told from any other peer.
SeedConnected(s) ==
  IF Pinned THEN connections[s] # "none" ELSE \E p \in Peer : connections[p] # "none"

\* Maintenance tick.  The digest it also offers to every peer is in Gossip.
on_maintenance ==
  /\ dialing' = dialing \cup {s \in Seeds : ~SeedConnected(s)}
  /\ UNCHANGED <<connections, arrived, known_peers, pending_pings>>

\* The task of a dial: DNS, handshake, then forward_connected.
dial(s) ==
  /\ s \in dialing /\ dialing' = dialing \ {s}
  /\ \/ arrived[s] = "none" /\ arrived' = [arrived EXCEPT ![s] = "open"]
     \/ UNCHANGED arrived
  /\ UNCHANGED <<connections, known_peers, pending_pings>>

\* The acceptor task.  One connection per peer waits in the inbox (bound).
accept(p) ==
  /\ arrived[p] = "none" /\ arrived' = [arrived EXCEPT ![p] = "open"]
  /\ UNCHANGED <<connections, known_peers, pending_pings, dialing>>

\* update_peer_state: nothing for a peer that is not known.
update_peer_state(S, state) ==
  [p \in Peer |-> IF p \in S /\ known_peers[p] # "unknown" THEN state ELSE known_peers[p]]

\* Known or new, the peer is alive.  What it is trusted with is in Gossip.
register_peer(p) == known_peers' = [known_peers EXCEPT ![p] = "Alive"]

ExistingHealthy(p) == connections[p] \in {"open", "half"}

\* The strict-mode test alone decides who is registered.
Rejected(p) == ClusterMode = "strict" /\ p \notin allowed

on_peer_connected(p) ==
  /\ arrived[p] # "none" /\ arrived' = [arrived EXCEPT ![p] = "none"]
  /\ IF Rejected(p)
     THEN UNCHANGED <<connections, known_peers>>
     ELSE /\ register_peer(p)
          /\ connections' = IF ExistingHealthy(p) THEN connections   \* a duplicate
                            ELSE [connections EXCEPT ![p] = arrived[p]]
  /\ UNCHANGED <<pending_pings, dialing>>

\* The peer closes or dies, in the table or in the inbox; this end has not seen it.
peer_closes(p) ==
  /\ \/ connections[p] = "open" /\ connections' = [connections EXCEPT ![p] = "half"]
                                /\ UNCHANGED arrived
     \/ arrived[p] = "open" /\ arrived' = [arrived EXCEPT ![p] = "half"]
                            /\ UNCHANGED connections
  /\ UNCHANGED <<known_peers, pending_pings, dialing>>

\* reader_loop ends: accept_uni fails, or the peer exceeds its message budget.
reader_loop(p) ==
  /\ connections[p] \in {"open", "half"}
  /\ connections' = [connections EXCEPT ![p] = "closed"]
  /\ UNCHANGED <<arrived, known_peers, pending_pings, dialing>>

-----------------------------------------------------------------------------
(* The failure detector. *)

handle_pong(p) == {q \in pending_pings : q.target # p}

\* Any message shows its sender alive.  Ping and PingReq are answered or relayed with a
\* message, DigestExchange and the rest are in Gossip.
on_inbound(p, type) ==
  /\ connections[p] = "open"
  /\ known_peers' = update_peer_state({p}, "Alive")
  /\ pending_pings' = IF type = "Pong" THEN handle_pong(p) ELSE pending_pings
  /\ UNCHANGED <<connections, arrived, dialing>>

\* A random peer among those alive.
select_probe_target ==
  IF get_alive_peers = {} THEN {{}} ELSE {{p} : p \in get_alive_peers}

\* late: the probes whose deadline has passed; an older probe comes first, and the ones
\* already sent through others are the older ones.
Failed(late) == {q \in late : q.indirect}
Via(late, q) == get_alive_peers \ ({q.target} \cup {f.target : f \in Failed(late)})
Suspected(late) == {q.target : q \in Failed(late) \cup {r \in late : Via(late, r) = {}}}
Relayed(late) == {q \in late : ~q.indirect /\ Via(late, q) # {}}

check_timeouts_kept(late) ==
  (pending_pings \ late) \cup {[q EXCEPT !.indirect = TRUE] : q \in late}
check_timeouts(late) ==
  (pending_pings \ late) \cup {[q EXCEPT !.indirect = TRUE] : q \in Relayed(late)}

\* MarkDead forgets the peer in the detector and in the connection table.
Forget(f, gone, value) == [p \in Peer |-> IF p \in gone THEN value ELSE f[p]]

Expired_any(late) == Peer \ Suspected(late)
Expired(late) == {p \in Peer : known_peers[p] = "Suspect"} \ Suspected(late)

\* run_probe_cycle and its actions.  gone: the suspects whose time is over.
on_probe(t, late, gone) ==
  /\ pending_pings' = check_timeouts(late) \cup {[target |-> p, indirect |-> FALSE] : p \in t}
  /\ \E suspects \in {Suspected(late)} :
       known_peers' = Forget(update_peer_state(suspects, "Suspect"), gone, "unknown")
  /\ connections' = Forget(connections, gone, "none")
  /\ UNCHANGED <<arrived, dialing>>

-----------------------------------------------------------------------------

MemberNext ==
  \/ on_maintenance
  \/ \E p \in Peer :
       \/ dial(p) \/ accept(p) \/ on_peer_connected(p) \/ peer_closes(p) \/ reader_loop(p)
       \/ \E type \in {"Ping", "Pong"} : on_inbound(p, type)
  \/ \E t \in select_probe_target, late \in SUBSET pending_pings :
     \E gone \in SUBSET Expired(late) : on_probe(t, late, gone)

\* A tick at which every deadline has passed.
overdue(p) ==
  /\ {p} \cap get_alive_peers \in select_probe_target
  /\ on_probe({p} \cap get_alive_peers, pending_pings, Expired(pending_pings))

\* Timers tick, closed connections are noticed, and the random choice of a probe's target
\* neglects no peer for ever.
MemberFairness ==
  /\ WF_member_vars(\E p \in Peer : overdue(p))
  /\ \A p \in Peer : SF_member_vars(get_alive_peers # {} /\ overdue(p))
  /\ \A p \in Peer : WF_member_vars(connections[p] = "half" /\ reader_loop(p))

MemberSpec == MemberInit /\ [][MemberNext]_member_vars /\ MemberFairness

-----------------------------------------------------------------------------

(* The connection table and the failure detector cover the same peers: a    *)
(* connection whose peer is not probed would stay in the table for ever     *)
(* once it is dead, and would keep its seed from being dialed again.        *)
Monitored == \A p \in Peer : connections[p] # "none" <=> known_peers[p] # "unknown"

(* A connection that this end has not seen closed leaves the table only     *)
(* when its peer has been suspected: a duplicate never replaces it.         *)
HealthyKept ==
  [][\A p \in Peer :
       connections[p] = "open" /\ connections'[p] = "none" => known_peers[p] = "Suspect"]_member_vars

(* A dead connection in the table is found by the probes and dropped, or    *)
(* replaced by a new connection of its peer; its seed is dialed again only  *)
(* then.                                                                    *)
StaleDropped == \A p \in Peer : (connections[p] = "closed") ~> (connections[p] # "closed")

-----------------------------------------------------------------------------
(* net/identity.rs: a node's key and certificate on disk, written file by  *)
(* file, with a crash possible between any two steps.  The node's id is    *)
(* the fingerprint of its key: peers pin it.  A torn file is one that was  *)
(* created and not filled.                                                 *)

CONSTANT MaxKeys    \* key pairs generated (bound)

VARIABLES key, cert,   \* on disk: 0 absent, -1 torn, or the number of the key pair
          private,     \* the key file has mode 0600
          step,        \* of the process
          node_id,     \* the key pair in memory
          announced    \* ids the node has taken part with (history)

identity_vars == <<key, cert, private, step, node_id, announced>>

IdentityInit == /\ key = 0 /\ cert = 0 /\ private = FALSE /\ step = "down" /\ node_id = 0 /\ announced = {}

Exists(f) == f # 0

\* KeyPair::generate_for, then the files: create, fill, protect, certificate.
generate ==
  /\ node_id < MaxKeys
  /\ node_id' = node_id + 1 /\ step' = "key" /\ key' = -1
  /\ UNCHANGED <<cert, private, announced>>

\* The certificate is not looked at before the transport is built.
load ==
  /\ step' = IF key = -1 \/ cert = -1 THEN "disabled" ELSE "up"
  /\ announced' = IF step' = "up" THEN announced \cup {key} ELSE announced
  /\ UNCHANGED <<key, cert, private, node_id>>

load_or_generate_always == step = "down" /\ generate
load_or_generate == step = "down" /\ IF Exists(key) /\ Exists(cert) THEN load ELSE generate

write_key ==
  /\ step = "key" /\ key' = node_id /\ step' = "chmod"
  /\ UNCHANGED <<cert, private, node_id, announced>>

set_permissions ==
  /\ step = "chmod" /\ private' = TRUE /\ cert' = -1 /\ step' = "cert"
  /\ UNCHANGED <<key, node_id, announced>>

write_cert ==
  /\ step = "cert" /\ cert' = node_id /\ step' = "up"
  /\ announced' = announced \cup {node_id}
  /\ UNCHANGED <<key, private, node_id>>

\* A crash or a restart keeps the files; node_id only numbers the key pairs here.
crash ==
  /\ step # "down" /\ step' = "down"
  /\ UNCHANGED <<key, cert, private, node_id, announced>>

IdentityNext == load_or_generate \/ write_key \/ set_permissions \/ write_cert \/ crash

IdentitySpec == IdentityInit /\ [][IdentityNext]_identity_vars

(* Once a node has taken part under an id it never takes part under another *)
(* one: a crash during the first start may cost a key pair, but not one     *)
(* that a peer has seen.                                                    *)
OneIdentity == Cardinality(announced) <= 1

(* While the node is up its private key is not readable by others, even     *)
(* after a crash between writing and protecting it.                         *)
KeyProtected == step = "up" => private

-----------------------------------------------------------------------------
(* net/signed_record.rs: the memo of mined signatures.  A stamp belongs to *)
(* an identity, a difficulty and a record: that is its key.                *)

CONSTANTS Request,   \* <<identity, record>>
          capacity

\* SigningCache::new takes capacity.max(1).
ASSUME CapacityAssumption == capacity \in Nat \ {0}

VARIABLES entries,          \* key -> the stamp it holds, for the keys cached
          insertion_order,
          answer            \* the last request and the stamp it got

cache_vars == <<entries, insertion_order, answer>>

CacheInit == entries = [k \in {} |-> 0] /\ insertion_order = <<>> /\ answer = <<>>

\* The mined stamp is a function of identity and record alone.
sign_canonical(r) == r
key_of(r) == r

\* FIFO: at capacity the oldest stamp makes room for the new one.
evict ==
  IF Cardinality(DOMAIN entries) >= capacity
  THEN <<DOMAIN entries \ {Head(insertion_order)}, Tail(insertion_order)>>
  ELSE <<DOMAIN entries, insertion_order>>

sign(r) ==
  LET k == key_of(r) IN
  IF k \in DOMAIN entries
  THEN answer' = <<r, entries[k]>> /\ UNCHANGED <<entries, insertion_order>>
  ELSE /\ entries' = [j \in evict[1] \cup {k} |-> IF j = k THEN sign_canonical(r) ELSE entries[j]]
       /\ insertion_order' = Append(evict[2], k)
       /\ answer' = <<r, sign_canonical(r)>>

CacheNext == \E r \in Request : sign(r)

(* A cached stamp is the stamp that mining would give: a changed record or  *)
(* identity never gets a stale one.                                         *)
NeverStale == answer # <<>> => answer[2] = sign_canonical(answer[1])

(* The eviction queue holds exactly the cached keys, each once, and no more *)
(* than the capacity: eviction always finds what it removes.                *)
QueueMatches ==
  /\ ToSet(insertion_order) = DOMAIN entries
  /\ Len(insertion_order) = Cardinality(DOMAIN entries)
  /\ Len(insertion_order) <= capacity

CacheSpec == CacheInit /\ [][CacheNext]_cache_vars

-----------------------------------------------------------------------------
(* The connection table and the failure detector agree, and a healthy       *)
(* connection is dropped only after a suspicion; a node takes part under    *)
(* one id only, its private key is protected while it is up, and a cached   *)
(* signature is never stale.                                                *)
PeersWatched ==
  /\ []Monitored /\ HealthyKept
  /\ [](OneIdentity /\ KeyProtected /\ NeverStale /\ QueueMatches)
=============================================================================
