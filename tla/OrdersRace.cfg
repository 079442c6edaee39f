SPECIFICATION Spec
CONSTANTS
  Order = {o1}
  Request = {r1, r2}
  NoRequest = NoRequest
  Routed <- Operation
  OneAtATime = FALSE
  MaxRequests = 4
INVARIANTS
  CompletedThroughReady
  StatusIsLastEffectiveEvent
  
  ReadyStamped
PROPERTY
  RequestsFinish
CHECK_DEADLOCK FALSE
