--------------------------- MODULE MCStateManager ---------------------------
\* StateManager on one-bit addresses: the default route, its two halves, and
\* the route written with a host bit.
EXTENDS StateManager

V4(b, l) == [addr |-> [fam |-> "v4", bits |-> <<b>>], len |-> l]

MCKeys == {V4(0, 0), V4(0, 1), V4(1, 1)}
MCOneSubject == {V4(0, 1)}
MCKeys4 == MCKeys \cup {V4(1, 0)}
MCSubjectsHostBits == {V4(1, 0), V4(0, 1)}
MCWlNets == {V4(0, 1)}
MCNone == {}

MCCrdtInputs ==
  {[net |-> V4(0, 1), rec |-> [reporters |-> {r}, tombstone_reporters |-> t, tombstone |-> FALSE]] :
     r \in {"n1"}, t \in {{}, {"n1"}}}
=============================================================================
