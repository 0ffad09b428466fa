-------------------------------- MODULE Hlc --------------------------------
(***************************************************************************)
(* The clocks of several nodes: every node stamps its events with tick and *)
(* the receipt of a timestamp with update, whatever its system clock says. *)
(***************************************************************************)
EXTENDS HlcTimestamp, FiniteSets

CONSTANTS MaxCounter, \* bound on the counters (u32 in the program)
          MaxSent     \* bound on the number of messages

VARIABLES hlc,      \* node -> its clock
          highest,  \* history: the highest reading of each node's system clock
          past,     \* history: the timestamps in each node's causal past
          sent      \* messages: the sender's timestamp and causal past

vars == <<hlc, highest, past, sent>>

Highest(a, b) == IF a > b THEN a ELSE b

Init ==
  /\ highest \in [Nodes -> Time]
  /\ hlc = [n \in Nodes |-> fresh(Hash[n], highest[n])]
  /\ past = [n \in Nodes |-> {hlc[n]}]
  /\ sent = {}

\* A local event of node n, announced to the others.
local_event(n, now) ==
  /\ hlc[n].counter < MaxCounter /\ Cardinality(sent) < MaxSent
  /\ hlc' = [hlc EXCEPT ![n] = tick(hlc[n], now)]
  /\ highest' = [highest EXCEPT ![n] = Highest(highest[n], now)]
  /\ past' = [past EXCEPT ![n] = past[n] \cup {hlc'[n]}]
  /\ sent' = sent \cup {[ts |-> hlc'[n], past |-> past'[n]]}

\* Node n receives m.  A timestamp beyond the skew is clamped: it is not
\* ordered before the receipt, and brings no causal past.
receive_event(n, m, now) ==
  /\ hlc[n].counter < MaxCounter /\ m.ts.counter < MaxCounter
  /\ hlc' = [hlc EXCEPT ![n] = update(hlc[n], m.ts, now)]
  /\ highest' = [highest EXCEPT ![n] = Highest(highest[n], now)]
  /\ past' = [past EXCEPT ![n] = past[n] \cup {hlc'[n]} \cup
                IF m.ts.wall_time_ms > now + MAX_SKEW_MS THEN {} ELSE m.past]
  /\ UNCHANGED sent

Next ==
  \E n \in Nodes, now \in Time :
    \/ local_event(n, now)
    \/ \E m \in sent : receive_event(n, m, now)

Spec == Init /\ [][Next]_vars

-----------------------------------------------------------------------------
TypeOK ==
  /\ hlc \in [Nodes -> HlcTimestamp] /\ highest \in [Nodes -> Time]
  /\ \A m \in sent : m.ts \in m.past /\ m.past \subseteq HlcTimestamp
  /\ past \in [Nodes -> SUBSET HlcTimestamp]

\* Timestamps respect causality ("Provides causal ordering across distributed
\* nodes", hlc.rs:8):
\* a node's clock is at or after everything that happened before, through any
\* chain of messages, however the system clocks jump.
CausalOrder ==
  /\ \A n \in Nodes : \A t \in past[n] : NotAfter(t, hlc[n])
  /\ \A m \in sent : \A t \in m.past : NotAfter(t, m.ts)

\* Clamping in HlcTimestamp::update keeps a remote clock from advancing the
\* local one: no chain of messages moves a clock further than the skew beyond what the node's
\* own system clock has shown.
DriftBounded ==
  \A n \in Nodes : hlc[n].wall_time_ms <= highest[n] + MAX_SKEW_MS

\* Both: however the system clocks jump, what HlcTimestamp::tick and update
\* return is after everything the node knows of, and near its own time.
ClocksSound == CausalOrder /\ DriftBounded

=============================================================================
