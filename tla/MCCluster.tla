----------------------------- MODULE MCCluster ------------------------------
(***************************************************************************)
(* The parts of the cluster runtime on small instances: one configured     *)
(* seed and one node that only dials in; a founder and another node, who   *)
(* make a quorum only together; three key pairs; two identities and two    *)
(* records to sign; two nodes whose system clocks jump over more than the  *)
(* skew.  A behaviour runs the part named by part; the others stay where   *)
(* they start.                                                             *)
(***************************************************************************)
EXTENDS Hlc, RemoteQuorum, Membership, TLC

VARIABLE part

MCHash == <<1, 2>>
MCTime == {0, 1, 3}
MCRequest == {1, 2} \X {1, 2}

mc_vars == <<part, vars, member_vars, quorum_vars, identity_vars, cache_vars>>

Parts == {"clocks", "membership", "quorum", "identity", "signing"}

MCInit ==
  /\ part \in Parts
  /\ Init /\ highest[1] = 0 /\ (part # "clocks" => highest[2] = 0)
  /\ MemberInit /\ QuorumInit /\ IdentityInit /\ CacheInit

MCNext ==
  /\ UNCHANGED part
  /\ IF part = "clocks" THEN Next ELSE UNCHANGED vars
  /\ IF part = "membership" THEN MemberNext ELSE UNCHANGED member_vars
  /\ IF part = "quorum" THEN QuorumNext ELSE UNCHANGED quorum_vars
  /\ IF part = "identity" THEN IdentityNext ELSE UNCHANGED identity_vars
  /\ IF part = "signing" THEN CacheNext ELSE UNCHANGED cache_vars

\* the fairness of Membership
Probing == part = "membership"
MCFairness ==
  /\ WF_member_vars(Probing /\ \E p \in Peer : overdue(p))
  /\ \A p \in {1, 2} :
       /\ SF_member_vars(Probing /\ get_alive_peers # {} /\ overdue(p))
       /\ WF_member_vars(Probing /\ connections[p] = "half" /\ reader_loop(p))

MCSpec == MCInit /\ [][MCNext]_mc_vars /\ MCFairness
=============================================================================
