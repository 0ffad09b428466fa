--------------------------- MODULE MCEnforcement ---------------------------
\* Enforcement on two-bit addresses: a network, and an address inside it that
\* the configuration whitelists.
EXTENDS Enforcement

V4(a, b, l) == [addr |-> [fam |-> "v4", bits |-> <<a, b>>], len |-> l]

Wide == V4(0, 0, 1)
Inside == V4(0, 1, 2)

MCNets == {Wide, Inside}
MCWlNets == {Inside}
=============================================================================
