CONSTANTS
  Event <- Events
  CtiSeverity = {1}
  Protectable = {1}
  addr <- MCaddr
  prefix_len <- MCprefix_len
  covers <- MCcovers
  ban_severity_threshold = 2
  accumulation_window = 0
  boost = 1
  BOT_SIGNAL_INTERVAL = 1
  BOT_SIGNAL_TRACKED_MAX = 1
  MaxEvents = 2
  MaxSignals = 3
  MaxTime = 1
  MaxFaults = 1
  Subjects = {"s1", "s2"}
  Tasks = {"a", "b"}
  BanTasks = {"a"}
  Ticker = "t"
  Streams = {"x", "y", "z"}
  MaxStreams = 2
  Capacity = 2
  MaxChanges = 3
  MaxScans = 1
  Docs <- MCDocs
  RuleIds = {1, 2}
  MaxRules = 3
  MaxPush = 2
  MaxTicks = 5
SPECIFICATION MCSpec

  
PROPERTIES
  DecidedOnce QueueDrained DaemonSound DaemonEnds StreamsCatchUp
\* the daemon stops
CHECK_DEADLOCK FALSE
