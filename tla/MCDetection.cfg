SPECIFICATION Spec

  
PROPERTIES
  SignalsBacked  FlagReasserted
\* a log may end at any event
CHECK_DEADLOCK FALSE
