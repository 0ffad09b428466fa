CONSTANTS
  Nodes = {1, 2}
  Hash <- MCHash
  Time <- MCTime
  MAX_SKEW_MS = 1
  MaxCounter = 2
  MaxSent = 2
  Peer = {1, 2}
  Seeds = {1}
  Pinned = TRUE
  ClusterMode = "auto-accept"
  Signer = {1, 2}
  Founder = {1}
  ban_threshold = 15
  remote_max_ttl_secs = 2
  Skew = 1
  MaxNow = 2
  MaxKeys = 3
  Request <- MCRequest
  capacity = 2
SPECIFICATION MCSpec
INVARIANT
  ClocksSound
PROPERTIES
  PeersWatched StaleDropped RemoteBansBacked
\* clocks and counters are bounded
CHECK_DEADLOCK FALSE
