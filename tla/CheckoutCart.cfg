SPECIFICATION VisitSpec
CONSTANTS
  App = {"web", "mini"}
  Item = {"a1", "a2", "b1"}
  Restaurant = {"a", "b"}
  Home <- Kitchen
  None = None
  Slot = {s1, s2}
  MaxQty <- Limits
  MaxSends = 3
  Address = {"a", "b"}
  Lifetime = 2
  Visits = 2
  MaxVisits = 3
  MaxEdits = 1
  MaxTicks = 3
  MaxSilences = 1
SYMMETRY Slots
INVARIANTS
  CheckoutSound
  CacheSound
PROPERTIES OrderTakesItsItems
CHECK_DEADLOCK FALSE
