------------------------------- MODULE Gossip -------------------------------
(***************************************************************************)
(* How the bans of one node reach another, what the word of a reporter is  *)
(* worth, and how much one peer may ask for.  Three machines that share no *)
(* state: the exchange of bans (daemon/cluster.rs, net/gossip.rs), the     *)
(* trust scores (core/trust.rs) and the rate limiter (core/anti_poison.rs).*)
(***************************************************************************)
EXTENDS Integers, FiniteSets, FiniteSetsExt, Functions

-----------------------------------------------------------------------------
(* Anti-entropy: a new local ban is announced at once, and at every        *)
(* maintenance tick the node offers its digest; a peer whose digest        *)
(* differs asks with its inventory, and is answered with a bounded page of *)
(* what it lacks.  One job at a time may sign (signing_slot):              *)
(* announcements and answers that find the slot taken are dropped, and     *)
(* only a later round makes up for them.                                   *)
(* One direction of one pair of nodes.  A ban is its subject; votes, trust *)
(* and lifetimes are in RemoteQuorum.                                      *)

CONSTANTS Detects,    \* subjects the sender may ban; integers, in the order of their names
          Foreign,    \* subjects it may replicate from others
          Permanent,  \* local bans without an expiry
          Refused,    \* bans the receiver's policy or whitelist does not accept
          Page,       \* 256 in the code
          MaxLost     \* messages that time out in send_msg or come too soon (bound)

VARIABLES local,      \* subjects the sender banned itself
          replica,    \* subjects it banned for a peer (ClusterPeer)
          held,       \* subjects banned at the receiver
          announcing, \* local bans between the pipeline and the actor
          signing,    \* the job that holds the signing slot
          offset,     \* diff_offsets for this peer
          msgs, lost

entropy_vars == <<local, replica, held, announcing, signing, offset, msgs, lost>>

NoJob == [kind |-> "none", records |-> {}]

EntropyInit ==
  /\ local = {} /\ replica = {} /\ held = {} /\ announcing = {} /\ signing = NoJob
  /\ offset = 0 /\ msgs = {} /\ lost = 0

\* One message of each type is on its way (bound).
Quiet(type) == \A m \in msgs : m.type # type
Send(type, s) == msgs \cup {[type |-> type, subjects |-> s]}

-----------------------------------------------------------------------------
(* The sender. *)

\* The pipeline bans; try_send to the actor drops the record when the channel is full.
ban(s) ==
  /\ s \notin local \cup replica /\ local' = local \cup {s}
  /\ announcing' = announcing \cup {s} \/ UNCHANGED announcing
  /\ UNCHANGED <<replica, held, signing, offset, msgs, lost>>

\* A ban reported by some other peer is stored with source ClusterPeer.
replicate(s) ==
  /\ s \notin local /\ replica' = replica \cup {s}
  /\ UNCHANGED <<local, held, announcing, signing, offset, msgs, lost>>

announced_form(S) == S \ Permanent

\* try_acquire_owned on the slot: the job is dropped when it is taken.
send_signed_bans(kind, S) ==
  signing' = IF signing = NoJob /\ S # {} THEN [kind |-> kind, records |-> S] ELSE signing

on_local_ban(s) ==
  /\ s \in announcing /\ announcing' = announcing \ {s}
  /\ send_signed_bans("announce", announced_form({s}))
  /\ UNCHANGED <<local, replica, held, offset, msgs, lost>>

\* The blocking job ends; its page goes out and the slot is free.
signed ==
  /\ signing # NoJob /\ Quiet("DiffResponse")
  /\ msgs' = Send("DiffResponse", signing.records) /\ signing' = NoJob
  /\ UNCHANGED <<local, replica, held, announcing, offset, lost>>

\* Maintenance: the digest covers the whole store, replicas included.
offer_digest ==
  /\ Quiet("DigestExchange") /\ msgs' = Send("DigestExchange", local \cup replica)
  /\ UNCHANGED <<local, replica, held, announcing, signing, offset, lost>>

\* What may be offered: own bans, never a replica, never a permanent one.
Offerable(keys) == announced_form(local \ keys)

\* rotate_left(offset % len) on the missing bans in the order of their names, then
\* truncate to a page.
rank(S, s) == Cardinality({t \in S : t < s})
rotated_page_first(S) == {s \in S : rank(S, s) < Page}
rotated_page(S) == {s \in S : (rank(S, s) - offset) % Cardinality(S) < Page}

\* The DiffRequest arm of on_inbound.  One request per interval is served and a page is
\* signed within the interval, so only an announcement can hold the slot.
handle_diff_request(m) ==
  LET missing == Offerable(m.subjects)
      page == rotated_page(missing)
  IN
  /\ m.type = "DiffRequest" /\ signing.kind # "diff" /\ msgs' = msgs \ {m}
  /\ IF missing = {} THEN UNCHANGED <<offset, signing>>
     ELSE /\ offset' = (offset + Cardinality(page)) % Cardinality(missing)
          /\ send_signed_bans("diff", page)
  /\ UNCHANGED <<local, replica, held, announcing, lost>>

-----------------------------------------------------------------------------
(* The receiver. *)

\* Equal digests need nothing; otherwise ask, showing what is here.
handle_digest_exchange(m) ==
  /\ m.type = "DigestExchange" /\ Quiet("DiffRequest")
  /\ msgs' = (IF m.subjects = held THEN msgs ELSE Send("DiffRequest", held)) \ {m}
  /\ UNCHANGED <<local, replica, held, announcing, signing, offset, lost>>

ingest_remote_bans(m) ==
  /\ m.type = "DiffResponse" /\ msgs' = msgs \ {m}
  /\ held' = held \cup (m.subjects \ Refused)
  /\ UNCHANGED <<local, replica, announcing, signing, offset, lost>>

\* A ban of the receiver expires or is lifted.
expire(s) ==
  /\ s \in held /\ held' = held \ {s}
  /\ UNCHANGED <<local, replica, announcing, signing, offset, msgs, lost>>

\* send_msg gives up after 10 s, or a DiffRequest comes within the interval of the last.
lose(m) ==
  /\ lost < MaxLost /\ lost' = lost + 1 /\ msgs' = msgs \ {m}
  /\ UNCHANGED <<local, replica, held, announcing, signing, offset>>

EntropyNext ==
  \/ \E s \in Detects : ban(s) \/ on_local_ban(s)
  \/ \E s \in Foreign : replicate(s)
  \/ \E s \in held : expire(s)
  \/ signed \/ offer_digest
  \/ \E m \in msgs : \/ handle_diff_request(m) \/ handle_digest_exchange(m)
                     \/ ingest_remote_bans(m) \/ lose(m)

\* The maintenance timer ticks, the blocking pool finishes, the inboxes are read.
EntropyFairness ==
  /\ \A s \in Detects : WF_entropy_vars(on_local_ban(s))
  /\ WF_entropy_vars(signed) /\ WF_entropy_vars(offer_digest)
  /\ WF_entropy_vars(\E m \in msgs : handle_digest_exchange(m))
  /\ WF_entropy_vars(\E m \in msgs : handle_diff_request(m))
  /\ WF_entropy_vars(\E m \in msgs : ingest_remote_bans(m))

EntropySpec == EntropyInit /\ [][EntropyNext]_entropy_vars /\ EntropyFairness

-----------------------------------------------------------------------------

(* No echo: a node signs and sends only what it banned itself.  A replica   *)
(* passed on as one's own would count as an independent vote elsewhere.     *)
NoEcho ==
  /\ signing.records \subseteq local
  /\ \A m \in msgs : m.type = "DiffResponse" => m.subjects \subseteq local

(* A ban the peer accepts reaches it, again and again if it is lifted       *)
(* there, although announcements are dropped, messages are lost and bans    *)
(* the peer refuses take the first page of every answer.                    *)
Spread == \A s \in Detects \ (Permanent \cup Refused) : (s \in local) ~> (s \in held)

-----------------------------------------------------------------------------
(* core/trust.rs: the trust a node earns, loses and spends.  Scores are in *)
(* tenths, rounded down; event weights are whole numbers; the age of a     *)
(* node is the bonus its seniority is worth.                               *)

CONSTANTS NodeId, Ip, Weight,
          ban_threshold,
          MaxCount       \* true and false positives of a node (bound)

VARIABLES trust_scores,  \* node -> its score and counts, or Unregistered
          ip_reports     \* ip -> set of <<reporter, event weight>>

trust_vars == <<trust_scores, ip_reports>>

Unregistered == [score |-> 0, tp |-> 0, fp |-> 0, bonus |-> -1]
TrustScore_new == [score |-> 5, tp |-> 0, fp |-> 0, bonus |-> 0]
founder == [score |-> 10, tp |-> 100, fp |-> 0, bonus |-> 2]

TrustInit ==
  /\ trust_scores = [n \in NodeId |-> Unregistered]
  /\ ip_reports = [i \in Ip |-> {}]

Registered(n) == trust_scores[n].bonus >= 0

\* A node that is already registered keeps its score, founder or not.
register(n, initial) ==
  /\ trust_scores' = IF Registered(n) THEN trust_scores ELSE [trust_scores EXCEPT ![n] = initial]
  /\ UNCHANGED ip_reports

\* The seniority bonus of 24 hours, then of 7 days.
age(n) ==
  /\ Registered(n) /\ trust_scores[n].bonus < 2
  /\ trust_scores' = [trust_scores EXCEPT ![n].bonus = @ + 1]
  /\ UNCHANGED ip_reports

calculate_score(tp, fp, bonus) == Min({(10 * tp) \div (tp + fp + 1) + bonus, 10})

\* record_true_positive, record_false_positive: unknown nodes are ignored.
record(n, tp, fp) ==
  /\ Registered(n)
  /\ LET t == trust_scores[n] IN
     /\ (t.tp % 100) + t.fp < MaxCount
     /\ trust_scores' =
          [trust_scores EXCEPT ![n] =
             [score |-> calculate_score(t.tp + tp, t.fp + fp, t.bonus),
              tp |-> t.tp + tp, fp |-> t.fp + fp, bonus |-> t.bonus]]
  /\ UNCHANGED ip_reports

\* Nine tenths, but at least a tenth of full trust.
penalize_minority_reporter(score) == Max({(score * 9) \div 10, 1})

record_ban_report(i, n, w) ==
  /\ ip_reports' = [ip_reports EXCEPT ![i] = @ \cup {<<n, w>>}]
  /\ UNCHANGED trust_scores

Reporters(i) == {r[1] : r \in ip_reports[i]}

\* Each reporter counts once, with its highest weight.
weighted_suspicion_score_all(i) ==
  SumFunction([r \in ip_reports[i] |-> trust_scores[r[1]].score * r[2]])
Highest(i, n) == Max({r[2] : r \in {q \in ip_reports[i] : q[1] = n}})
weighted_suspicion_score(i) ==
  SumFunction([n \in Reporters(i) |-> trust_scores[n].score * Highest(i, n)])

should_global_ban(i) == weighted_suspicion_score(i) >= ban_threshold

clear_reports(i) ==
  /\ ip_reports' = [ip_reports EXCEPT ![i] = {}] /\ UNCHANGED trust_scores

\* Addresses reported by too few, with too little trust.
Isolated(min_corroboration) ==
  {i \in Ip : /\ ip_reports[i] # {} /\ ~should_global_ban(i)
              /\ Cardinality(Reporters(i)) < min_corroboration}

\* A reporter is penalised once for each of its isolated addresses.
penalized(score, S) ==
  FoldFunction(LAMBDA i, t : penalize_minority_reporter(t), score, [i \in S |-> i])

drain_isolated_reports(min_corroboration) ==
  LET isolated == Isolated(min_corroboration)
      against(n) == {i \in isolated : n \in Reporters(i)}
  IN
  /\ trust_scores' = [n \in NodeId |->
                        IF Registered(n)
                        THEN [trust_scores[n] EXCEPT !.score = penalized(@, against(n))]
                        ELSE trust_scores[n]]
  /\ ip_reports' = [i \in Ip |-> IF i \in isolated THEN {} ELSE ip_reports[i]]

TrustNext ==
  \/ \E n \in NodeId : \/ register(n, TrustScore_new) \/ register(n, founder) \/ age(n)
                       \/ record(n, 1, 0) \/ record(n, 0, 1)
                       \/ \E i \in Ip, w \in Weight : record_ban_report(i, n, w)
  \/ \E i \in Ip : clear_reports(i)
  \/ drain_isolated_reports(2)

TrustSpec == TrustInit /\ [][TrustNext]_trust_vars

(* Scores stay within zero and full trust, whatever mix of confirmations,   *)
(* seniority and penalties a node collects.                                 *)
ScoreInRange == \A n \in NodeId : trust_scores[n].score \in 0..10

(* Repeating a report does not amplify it: the suspicion of an address is   *)
(* at most what its distinct reporters' trust and the highest weight allow. *)
NoSelfAmplification ==
  \A i \in Ip : weighted_suspicion_score(i)
                  <= Max(Weight) * SumFunction([n \in Reporters(i) |-> trust_scores[n].score])

-----------------------------------------------------------------------------
(* core/anti_poison.rs: the sliding-window limiter that bounds what one    *)
(* peer may have verified and decided, and the quarantine of a peer whose  *)
(* volume is anomalous.                                                    *)

CONSTANTS Key, max_per_window, window, max_keys,
          MaxTime    \* last tick (bound)

ASSUME GossipAssumption ==
  /\ IsFiniteSet(NodeId) /\ IsFiniteSet(Ip) /\ IsFiniteSet(Key)
  /\ Weight \subseteq Nat /\ \E w \in Weight : \A v \in Weight : v <= w
  /\ max_per_window \in Nat /\ window \in Nat /\ max_keys \in Nat

VARIABLES time,
          entries,   \* key -> its recorded calls, <<which, when>>
          tracked,   \* the keys of the map
          allowed    \* key -> the calls that were let through (history)

limiter_vars == <<time, entries, tracked, allowed>>

LimiterInit ==
  /\ time = 1 /\ entries = [k \in Key |-> {}] /\ tracked = {}
  /\ allowed = [k \in Key |-> {}]

Fresh(calls) == {c \in calls : c[2] > time - window}

\* cleanup: stale times go, and with the last of them the key.
cleanup == {k \in tracked : Fresh(entries[k]) # {}}

\* A new key at capacity cleans up first, and is rejected if that did not help.
AtCapacity(k) == k \notin tracked /\ Cardinality(tracked) >= max_keys
Kept(k) == IF AtCapacity(k) THEN cleanup ELSE tracked
Admits(k) == AtCapacity(k) => Cardinality(Kept(k)) < max_keys

check_and_record(k) ==
  LET recent == Fresh(entries[k])
      pass == Admits(k) /\ Cardinality(recent) < max_per_window
      call == <<Cardinality(allowed[k]) + 1, time>>
  IN
  /\ tracked' = IF Admits(k) THEN Kept(k) \cup {k} ELSE Kept(k)
  /\ entries' = [j \in Key |-> IF j = k /\ Admits(k) THEN recent \cup (IF pass THEN {call} ELSE {})
                               ELSE IF AtCapacity(k) THEN Fresh(entries[j]) ELSE entries[j]]
  /\ allowed' = IF pass THEN [allowed EXCEPT ![k] = @ \cup {call}] ELSE allowed
  /\ UNCHANGED time

limiter_tick == time < MaxTime /\ time' = time + 1 /\ UNCHANGED <<entries, tracked, allowed>>

LimiterNext ==
  limiter_tick \/ \E k \in Key : check_and_record(k) /\ Cardinality(allowed[k]) < max_per_window * 2

(* Whatever the timing and however often a key is forgotten, no window of   *)
(* the configured length lets more than the limit through for one key.      *)
WindowRespected ==
  \A k \in Key, t \in 1..time :
    Cardinality({c \in allowed[k] : c[2] > t - window /\ c[2] <= t}) <= max_per_window

(* A new key is turned away only while every slot belongs to a key with a   *)
(* recent call: idle keys do not hold a slot for ever.                      *)
IdleKeysYield ==
  \A k \in Key : ~Admits(k) =>
    Cardinality({j \in Key : Fresh(entries[j]) # {}}) >= max_keys

-----------------------------------------------------------------------------
(* The three side by side. *)

GossipInit == EntropyInit /\ TrustInit /\ LimiterInit
GossipNext ==
  \/ EntropyNext /\ UNCHANGED <<trust_vars, limiter_vars>>
  \/ TrustNext /\ UNCHANGED <<entropy_vars, limiter_vars>>
  \/ LimiterNext /\ UNCHANGED <<entropy_vars, trust_vars>>
gossip_vars == <<entropy_vars, trust_vars, limiter_vars>>
GossipSpec == GossipInit /\ [][GossipNext]_gossip_vars

(* A peer's word is not amplified: only own bans are signed and sent,       *)
(* repeating a report does not raise its weight, scores stay in range, and  *)
(* no window lets more than the limit through.                              *)
NoAmplification ==
  /\ NoEcho /\ ScoreInRange /\ NoSelfAmplification
  /\ WindowRespected /\ IdleKeysYield
=============================================================================
