CONSTANTS
  Badges = {"b1"}
  SiteIDs = {"A"}
  Gates <- OneGate
  DayLength = 2
  TimeZone = 1
  MaxTime = 5
  MaxSwipes = 3
  MaxFaults = 0
  MaxSkew = 0
  MaxRefreshes = 1
SPECIFICATION Spec
CHECK_DEADLOCK FALSE
INVARIANTS
  OrphanEntriesAreIgnored
