SPECIFICATION TrackingSpec
CONSTANTS
  Order = {o1, o2}
  Request = {r1, r2}
  NoRequest = NoRequest
  Routed = {"change_status", "cancel"}
  OneAtATime = FALSE
  MaxRequests = 2
  Page = {p1}
  MaxConnects = 2
INVARIANTS
  PagesInSync
PROPERTIES
  SocketCatchesUp
  SocketsEnd
CHECK_DEADLOCK FALSE
