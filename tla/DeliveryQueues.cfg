SPECIFICATION Spec
CONSTANTS
  NumEvents = 1
  Worker = {w1}
  BatchLimit = 2
  MaxOutages = 1
  MaxFaults = 2
  RetryLimit = 1
  MaxCuts = 1
INVARIANTS
  DeliveryAccounted
PROPERTY
  QueuesDrain
CHECK_DEADLOCK FALSE
