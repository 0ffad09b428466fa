CONSTANTS
  Family = {"v4"}
  W = 2
  Nets <- MCNets
  WlNets <- MCWlNets
  ConfigNets <- MCWlNets
  MaxRequests = 4
  MaxFaults = 2
SPECIFICATION Spec
INVARIANTS NoBanUnenforced NothingBlockedWithoutCause
PROPERTIES EventuallyExact
