----------------------------- MODULE MCReplication --------------------------
(***************************************************************************)
(* How bans and reports spread, on small instances.  Each behaviour        *)
(* runs one of them, named by part; the others stay where they start.      *)
(***************************************************************************)
EXTENDS CrdtBan, Gossip, TLC

CONSTANTS n1, n2, n3

MCHash == (n1 :> 1) @@ (n2 :> 2) @@ (n3 :> 3)

VARIABLE part

Parts == {"crdt", "anti_entropy", "trust", "limiter"}

MCInit ==
  /\ part \in Parts
  /\ Init /\ EntropyInit /\ TrustInit /\ LimiterInit

MCNext ==
  /\ UNCHANGED part
  /\ IF part = "crdt" THEN Next ELSE UNCHANGED vars
  /\ IF part = "anti_entropy" THEN EntropyNext ELSE UNCHANGED entropy_vars
  /\ IF part = "trust" THEN TrustNext ELSE UNCHANGED trust_vars
  /\ IF part = "limiter" THEN LimiterNext ELSE UNCHANGED limiter_vars

\* the fairness of Gossip
Gossiping == part = "anti_entropy"
Fairness ==
  /\ \A s \in Detects : WF_entropy_vars(Gossiping /\ on_local_ban(s))
  /\ WF_entropy_vars(Gossiping /\ signed)
  /\ WF_entropy_vars(Gossiping /\ offer_digest)
  /\ WF_entropy_vars(Gossiping /\ \E m \in msgs : handle_digest_exchange(m))
  /\ WF_entropy_vars(Gossiping /\ \E m \in msgs : handle_diff_request(m))
  /\ WF_entropy_vars(Gossiping /\ \E m \in msgs : ingest_remote_bans(m))

MCSpec == MCInit /\ [][MCNext]_<<part, vars, entropy_vars, trust_vars, limiter_vars>> /\ Fairness

=============================================================================
