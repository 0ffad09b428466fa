--------------------------- MODULE RemoteQuorum ---------------------------
(***************************************************************************)
(* What a node does with the bans its peers report: ingest_remote_bans and *)
(* apply_bans of daemon/cluster.rs, the quorum of net/gossip.rs, the trust *)
(* sum of core/trust.rs.  The actor works in three steps and holds the     *)
(* state lock in each of them, not between them: a prefilter, the quorum   *)
(* decision over the signed votes, and the application.  In between the    *)
(* operator and the pipeline change the same state.                        *)
(*                                                                         *)
(* One subject; a record is its lifetime.  Trust is in tenths.             *)
(***************************************************************************)
EXTENDS Integers, FiniteSets, FiniteSetsExt

CONSTANTS Signer,         \* peers with a known key
          Founder,        \* those of node.founder_nodes
          ban_threshold,  \* in tenths
          remote_max_ttl_secs,
          Skew,           \* tolerated lead of a peer's clock
          MaxNow          \* last tick of the clock (bound)

ASSUME QuorumAssumption == remote_max_ttl_secs \in Nat /\ Skew \in Nat /\ MaxNow \in Nat

VARIABLES now,
          votes,       \* GossipEngine.reports: signer -> its record, or None
          seen,        \* GossipEngine.accepted: recently applied <<signer, record>>
          ban,         \* the stored ban of the subject, or None
          whitelisted,
          revoked,     \* tombstone of an operator's unban: its time, or 0
          work         \* the actor: idle, or the batch or decision it carries

quorum_vars == <<now, votes, seen, ban, whitelisted, revoked, work>>

None == [created |-> 0, expires |-> 0]
Record == [created : 1..MaxNow, expires : 2..(MaxNow + remote_max_ttl_secs)]
Idle == [step |-> "idle", rec |-> None, signer |-> CHOOSE s \in Signer : TRUE]

QuorumInit ==
  /\ now = 1 /\ votes = [s \in Signer |-> None] /\ seen = {}
  /\ ban = [rec |-> None, source |-> "none"]
  /\ whitelisted = FALSE /\ revoked = 0 /\ work = Idle

\* register_peer: founders have full trust, everybody else half of it.
trust_score(s) == IF s \in Founder THEN 10 ELSE 5

should_enforce(reporters) == MapThenSumSet(trust_score, reporters) >= ban_threshold

remote_policy_allows(r) ==
  /\ r.created <= now + Skew /\ r.expires > now /\ r.expires > r.created
  /\ r.expires - r.created <= remote_max_ttl_secs
  /\ r.expires - now <= remote_max_ttl_secs

\* accepts_remote_ban of the state manager: a revoked ban does not come back.
accepts_remote_ban(r) == r.created > revoked

Active == ban.source # "none"
Newer(a, b) == a.created > b.created \/ (a.created = b.created /\ a.expires > b.expires)

remote_changes_state(r) == Active => ban.source = "peer" /\ Newer(r, ban.rec)

Applicable(r) ==
  remote_policy_allows(r) /\ accepts_remote_ban(r) /\ ~whitelisted /\ remote_changes_state(r)

-----------------------------------------------------------------------------
(* The actor. *)

\* A signed record arrives and passes the prefilter.  Records that fail it leave no trace;
\* batches hold one record (bound).
prefilter(s, r) ==
  /\ work = Idle /\ Applicable(r)
  /\ work' = [step |-> "filtered", rec |-> r, signer |-> s]
  /\ UNCHANGED <<now, votes, seen, ban, whitelisted, revoked>>

\* Votes past their expiry do not count.
Unexpired(v) == [s \in Signer |-> IF v[s].expires > now THEN v[s] ELSE None]
Reporters(v) == {s \in Signer : v[s] # None}

\* Every counted reporter must support the lifetime of the decision.
Merged_latest(v) ==
  [created |-> Min({v[s].created : s \in Reporters(v)}),
   expires |-> Max({v[s].expires : s \in Reporters(v)})]
Merged(v) ==
  [created |-> Min({v[s].created : s \in Reporters(v)}),
   expires |-> Min({v[s].expires : s \in Reporters(v)})]

\* A vote older than the one the signer already gave is ignored.
Outdated(v, s, r) == v[s] # None /\ Newer(v[s], r)

\* quota: the answer of the rate limiter, charged last.
handle_ban_sync_filtered_with_policy(quota) ==
  LET live == Unexpired(votes)
      s == work.signer
      r == work.rec
      dropped == r.expires <= now \/ <<s, r>> \in seen \/ Outdated(live, s, r)
      cast == [live EXCEPT ![s] = r]
      accepted == /\ ~dropped /\ should_enforce(Reporters(cast))
                  /\ Applicable(Merged(cast)) /\ quota
  IN
  /\ work.step = "filtered"
  /\ votes' = IF dropped THEN live ELSE cast
  /\ seen' = IF accepted THEN seen \cup {<<s, r>>} ELSE seen
  /\ work' = IF accepted THEN [work EXCEPT !.step = "decided", !.rec = Merged(cast)] ELSE Idle
  /\ UNCHANGED <<now, ban, whitelisted, revoked>>

\* A quarantined sender's whole message is rejected.
quarantined ==
  /\ work.step = "filtered" /\ work' = Idle
  /\ UNCHANGED <<now, votes, seen, ban, whitelisted, revoked>>

\* Everything is tested again: the lock was released after the decision.
apply_bans ==
  /\ work.step = "decided" /\ work' = Idle
  /\ ban' = IF Applicable(work.rec) THEN [rec |-> work.rec, source |-> "peer"] ELSE ban
  /\ UNCHANGED <<now, votes, seen, whitelisted, revoked>>

-----------------------------------------------------------------------------
(* The rest of the daemon, under the same lock. *)

local_ban(r) ==
  /\ ~whitelisted /\ r.created = now /\ r.expires > now
  /\ ban' = [rec |-> r, source |-> "local"]
  /\ UNCHANGED <<now, votes, seen, whitelisted, revoked, work>>

unban ==
  /\ Active /\ ban' = [rec |-> None, source |-> "none"] /\ revoked' = now
  /\ UNCHANGED <<now, votes, seen, whitelisted, work>>

\* Whitelisting removes the ban it covers.
whitelist_add ==
  /\ ~whitelisted /\ whitelisted' = TRUE
  /\ ban' = [rec |-> None, source |-> "none"]
  /\ UNCHANGED <<now, votes, seen, revoked, work>>

\* A tick: the sweep removes what has expired, the 5 s memory of seen records fades.
time_passes ==
  /\ now < MaxNow /\ now' = now + 1 /\ seen' = {}
  /\ ban' = IF Active /\ ban.rec.expires <= now' THEN [rec |-> None, source |-> "none"] ELSE ban
  /\ UNCHANGED <<votes, whitelisted, revoked, work>>

QuorumNext ==
  \/ \E s \in Signer, r \in Record : prefilter(s, r)
  \/ \E quota \in BOOLEAN : handle_ban_sync_filtered_with_policy(quota)
  \/ quarantined \/ apply_bans \/ unban \/ whitelist_add \/ time_passes
  \/ \E r \in Record : local_ban(r)

QuorumSpec == QuorumInit /\ [][QuorumNext]_quorum_vars

-----------------------------------------------------------------------------

(* A peer's ban enters the store only while enough trusted signers vouch    *)
(* for it, each with a vote that lasts at least as long as the ban.         *)
QuorumBacked ==
  [][ban' # ban /\ ban'.source = "peer"
       => should_enforce({s \in Signer : votes[s].expires >= ban'.rec.expires})]_quorum_vars

(* What this node decided itself is never replaced by a peer's report,      *)
(* although the actor looked at the store before the local ban was added.   *)
LocalKept == [][ban.source = "local" => ban'.source # "peer"]_quorum_vars

(* A peer's ban never outlives the local limit, counted from now, and does  *)
(* not return after an operator's unban or against the whitelist.           *)
WithinPolicy ==
  ban.source = "peer" =>
    /\ ban.rec.expires <= now + remote_max_ttl_secs
    /\ ban.rec.created > revoked /\ ~whitelisted

(* Replayed or reordered reports do not take a signer's vote back in time,  *)
(* and a vote that has not expired is not lost.                             *)
VotesAdvance ==
  [][\A s \in Signer :
       votes[s].expires > now => votes'[s] # None /\ ~Newer(votes[s], votes'[s])]_quorum_vars

(* Together: a peer's ban needs enough signers vouching for its whole life, *)
(* no vote goes back in time, and no report replaces a local decision or    *)
(* exceeds the local limit, unbans and whitelist.                           *)
RemoteBansBacked == []WithinPolicy /\ QuorumBacked /\ LocalKept /\ VotesAdvance
=============================================================================
