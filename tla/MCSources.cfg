SPECIFICATION Spec
CONSTANTS
  Kinds = {"kafka", "rabbitmq", "jetstream", "kinesis", "cloudwatch"}
  MaxLanes = 2
  MaxMessages = 3
  MaxOthers = 1
  MaxTime = 2
  batch_size = 2
  Capacity = 2
  backpressure_threshold = 2
  StartPositions = {"TrimHorizon", "Latest"}
  MaxFaults = 2
INVARIANTS
  FileFaithful
PROPERTIES
  QueueFaithful CaughtUp
\* the writers, the channel and the number of messages are bounded
CHECK_DEADLOCK FALSE
