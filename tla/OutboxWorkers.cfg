SPECIFICATION OutboxSpec
CONSTANTS
  NumEvents = 3
  Worker = {w1, w2}
  BatchLimit = 2
  MaxFaults = 1
  MaxOutages = 1
INVARIANTS
  PublishedWasSent
  CopiesHaveCause
PROPERTIES
  PublishedIsFinal
  EveryRowPublished
CHECK_DEADLOCK FALSE
