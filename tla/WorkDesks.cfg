SPECIFICATION DesksSpec
CONSTANTS
  Ticket = {1, 2}
  Lines = 2
  MaxClicks = 3
  MaxOutages = 1
  Place = {1, 2}
  Wires = 2
  MaxMoves = 5
  MaxBreakdowns = 1
  Dish = {"d1", "d2"}
  Label = {1, 2}
  MaxGroups = 4
  MenuCalls = 2
  MaxTurns = 4
  MaxSlips = 1
  Person = {1, 2}
  PageOne = {1}
  Found = {1, 2}
  Mails = 2
  MaxDeeds = 4
  MaxLosses = 1
  Place1 = {2, 3}
  Letters = 2
  MaxActs = 3
  MaxLapses = 1
  Candidate = {"u"}
  Site = {1}
  Jobs = 2
  MaxRequests = 2
  MaxStarts = 5
  MaxLost = 1
INVARIANTS
  
  VendorPagesSound
  
  
PROPERTIES
  GroupsAsMeant
  AdminsBlockedBlindly
CHECK_DEADLOCK FALSE
