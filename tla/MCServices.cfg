SPECIFICATION MCSpec
\* a queue for fewer failures than can happen
CONSTANTS
  N = 2
  Keys = {1, 2}
  supports <- MCsupports
  RETRY_DELAYS <- MCDelays
  MAX_ATTEMPTS = 4
  Cooldown = 2
  queue_depth = 2
  channel_capacity = 1
  MaxAlerts = 2
INVARIANTS
   AnswersHonest
PROPERTIES
  AlertsAccounted EventuallySettled
\* a scan ends, and the number of alerts is bounded
CHECK_DEADLOCK FALSE
