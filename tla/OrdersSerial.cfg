SPECIFICATION Spec
CONSTANTS
  Order = {o1, o2}
  Request = {r1, r2}
  NoRequest = NoRequest
  Routed <- Operation
  OneAtATime = TRUE
  MaxRequests = 4
INVARIANTS
  HistoryIntact
PROPERTY
  ImplementsLifecycle
CHECK_DEADLOCK FALSE
