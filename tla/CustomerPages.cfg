SPECIFICATION CustomerSpec
CONSTANTS
  Order = {1, 2}
  Inbound = 2
  MaxTaps = 3
  MaxDrops = 1
  Note = {1, 2, 3}
  Olds = {1, 2}
  PageSize = 1
  Calls = 2
  MaxPresses = 2
  MaxBreaks = 1
  Diner = {1, 2}
  Posts = 2
  MaxHearts = 3
  MaxFaults = 2
  Reader = {"u", "v"}
  Stars = {2, 5}
  PerPage = 1
  Tasks = 2
  MaxReviews = 3
  MaxSubmits = 3
  MaxDeaths = 1
INVARIANTS
  
  InboxHonest
  FavouritesHonest
  
CHECK_DEADLOCK FALSE
