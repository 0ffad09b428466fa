---------------------------- MODULE DurableState ----------------------------
(***************************************************************************)
(* What the persistence layer promises its callers, without log or         *)
(* snapshot: a state, changed by one whole mutation at a time, that        *)
(* outlives the process.  A mutation that reported an error is in doubt:   *)
(* no other one is accepted until the doubt is settled, either by giving   *)
(* it up or, at the next start, by finding it applied or not.              *)
(***************************************************************************)
CONSTANTS Initial,       \* the state of a new node
          Apply(_, _),   \* the state after one more mutation
          Entry,         \* the mutations
          NoEntry        \* no mutation in doubt

VARIABLES db,     \* the state callers see, or will see after the next start
          doubt,  \* the mutation in doubt
          up      \* is the node running?

vars == <<db, doubt, up>>

Init == db = Initial /\ doubt = NoEntry /\ up = FALSE

Commit ==
  /\ up /\ doubt = NoEntry
  /\ \E e \in Entry : db' = Apply(db, e)
  /\ UNCHANGED <<doubt, up>>

Fail ==
  /\ up /\ doubt = NoEntry
  /\ \E e \in Entry : doubt' = e
  /\ up' \in BOOLEAN
  /\ UNCHANGED db

GiveUp == up /\ doubt' = NoEntry /\ UNCHANGED <<db, up>>

Crash == up' = FALSE /\ UNCHANGED <<db, doubt>>

Restart ==
  /\ ~up /\ up' = TRUE
  /\ doubt' = NoEntry
  /\ db' = db \/ (doubt # NoEntry /\ db' = Apply(db, doubt))

Next == Commit \/ Fail \/ GiveUp \/ Crash \/ Restart

Spec == Init /\ [][Next]_vars
=============================================================================
