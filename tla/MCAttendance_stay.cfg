CONSTANTS
  Badges = {"b1"}
  SiteIDs = {"A"}
  Gates <- TwoGates
  DayLength = 2
  TimeZone = 1
  MaxTime = 4
  MaxSwipes = 4
  MaxFaults = 1
  MaxSkew = 1
  MaxRefreshes = 1
SPECIFICATION Spec
CHECK_DEADLOCK FALSE
INVARIANTS
  TypeOK
  StayIsTimeInside
  RepeatsNeedADay
  NoDayIsOverfull
PROPERTIES
  StayShrinksByLateRowsOnly
