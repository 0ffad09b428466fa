SPECIFICATION MCSpec
CONSTANTS
  n1 = n1
  n2 = n2
  n3 = n3
  Nodes = {n1, n2, n3}
  Hash <- MCHash
  Time = {1}
  Severity = {1}
  Content = {c1}
  Extension = {1}
  BAN_MS = 2
  MAX_SKEW_MS = 1
  NoRecord = NoRecord
  MaxUpdates = 3
\* pages of one record; the first is always refused, the last never offered
  Detects = {1, 2, 3}
  Foreign = {4}
  Permanent = {3}
  Refused = {1}
  Page = 1
  MaxLost = 1
  NodeId = {1, 2}
  Ip = {1}
  Weight = {1, 5}
  ban_threshold = 20
  MaxCount = 1
  Key = {1, 2, 3}
  max_per_window = 2
  window = 2
  max_keys = 2
  MaxTime = 4
INVARIANTS
  Converged TombstoneExact NoAmplification

  
\* clocks and counters are bounded
CHECK_DEADLOCK FALSE
