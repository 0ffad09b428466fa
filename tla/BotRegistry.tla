---------------------------- MODULE BotRegistry ----------------------------
(***************************************************************************)
(* The registry of bot rules (bot_registry.rs), shared by the pipeline,    *)
(* which classifies User-Agents, and the UI, which changes policies.  A    *)
(* User-Agent is given by the rule names it contains; one that looks like  *)
(* a bot and matches no rule is tracked under a short key of its own.      *)
(***************************************************************************)
EXTENDS Integers, Sequences, FiniteSets, FiniteSetsExt, SequencesExt, Functions

CONSTANTS
  UserAgent,        \* [names |-> the rule texts it contains, key |-> its short key, bot |-> BOOLEAN]
  ConfigRules,      \* a sequence of [name, policy], as configured
  MAX_UNKNOWN_BOTS,
  MaxCount          \* bound of the model on request counts

Policy == {"allow", "block", "monitor"}

VARIABLES rules, stats, unknown_bots, answer
vars == <<rules, stats, unknown_bots, answer>>

\* a User-Agent is no authentication, so allowing one is only watching it
effective_policy(p) == IF p = "allow" THEN "monitor" ELSE p

Init ==
  /\ rules = [i \in DOMAIN ConfigRules |->
                [ConfigRules[i] EXCEPT !.policy = effective_policy(@)]]
  /\ stats = [n \in {ConfigRules[i].name : i \in DOMAIN ConfigRules} |-> 0]
  /\ unknown_bots = << >>
  /\ answer = [op |-> "none"]

matching(ua) == {i \in DOMAIN rules : rules[i].name \in ua.names}
first_match(ua) == Min(matching(ua))

Bump(f, k) == IF k \in DOMAIN f THEN [f EXCEPT ![k] = @ + 1] ELSE (k :> 1) @@ f

classify_rule(ua) ==
  IF matching(ua) # {}
  THEN LET r == rules[first_match(ua)]
       IN  /\ r.name \in DOMAIN stats => stats[r.name] < MaxCount
           /\ stats' = Bump(stats, r.name)
           /\ answer' = [op |-> "classify", ua |-> ua, policy |-> r.policy]
           /\ UNCHANGED <<rules, unknown_bots>>
  ELSE /\ ua.bot
       /\ ua.key \in DOMAIN unknown_bots => unknown_bots[ua.key] < MaxCount
       /\ unknown_bots' = IF /\ ua.key \notin DOMAIN unknown_bots
                             /\ Cardinality(DOMAIN unknown_bots) >= MAX_UNKNOWN_BOTS
                          THEN unknown_bots ELSE Bump(unknown_bots, ua.key)
       /\ answer' = [op |-> "classify", ua |-> ua, policy |-> "none"]
       /\ UNCHANGED <<rules, stats>>

named(n) == {i \in DOMAIN rules : rules[i].name = n}

\* an unknown bot given a policy becomes a rule of its own, the last one
set_policy_quiet(n, p) ==
  /\ answer' = [op |-> "set", name |-> n, policy |-> p]
  /\ IF named(n) # {}
     THEN rules' = [rules EXCEPT ![Min(named(n))].policy = effective_policy(p)]
     ELSE n \in DOMAIN unknown_bots /\ UNCHANGED rules
  /\ UNCHANGED <<stats, unknown_bots>>
set_policy(n, p) ==
  /\ answer' = [op |-> "set", name |-> n, policy |-> p]
  /\ IF named(n) # {}
     THEN rules' = [rules EXCEPT ![Min(named(n))].policy = effective_policy(p)]
     ELSE /\ n \in DOMAIN unknown_bots
          /\ rules' = Append(rules, [name |-> n, policy |-> effective_policy(p)])
  /\ UNCHANGED <<stats, unknown_bots>>

Next ==
  \/ \E ua \in UserAgent : classify_rule(ua)
  \/ \E n \in {ua.key : ua \in UserAgent}, p \in Policy : set_policy(n, p)

Spec == Init /\ [][Next]_vars

-----------------------------------------------------------------------------

(* No User-Agent text ever exempts its sender: whatever the configuration   *)
(* says and whatever the UI sets, no rule is in force as "allow", and the   *)
(* table of discovered bots stays within its limit.                         *)
NeverExempt ==
  /\ \A i \in DOMAIN rules : rules[i].policy # "allow"
  /\ answer.op = "classify" => answer.policy # "allow"
  /\ Cardinality(DOMAIN unknown_bots) <= MAX_UNKNOWN_BOTS

(* A policy that was accepted is the one in force for every User-Agent that *)
(* contains the name and no earlier rule's: also when the name was only     *)
(* discovered, not configured.                                              *)
PolicyTakesEffect ==
  answer.op = "set" =>
    \A ua \in UserAgent :
      (answer.name \in ua.names /\ \A i \in matching(ua) : i >= Min(named(answer.name)))
        => /\ matching(ua) # {}
           /\ rules[first_match(ua)].policy = effective_policy(answer.policy)

=============================================================================
