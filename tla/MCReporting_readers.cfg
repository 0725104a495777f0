CONSTANTS
  Badges = {"boss", "ann"}
  OrgPaths <- Paths
  DayLength = 2
  TimeZone = 0
  History <- Shifts
  FirstDirectory <- Before
  LDAP <- After
  Edits <- Nobody
  Requests <- Trends
  MaxTime = 4
  MaxSkew = 0
  MaxFaults = 0
SPECIFICATION Spec
CHECK_DEADLOCK FALSE
INVARIANT ReadersAgree
