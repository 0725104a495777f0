CONSTANTS
  Badges = {"boss", "ann"}
  OrgPaths <- Paths
  DayLength = 2
  TimeZone = 0
  History <- Stored
  FirstDirectory <- Before
  LDAP <- After
  Edits <- ByHand
  Requests <- SomeRequests
  MaxTime = 2
  MaxSkew = 1
  MaxFaults = 1
SPECIFICATION FairSpec
CHECK_DEADLOCK FALSE
INVARIANTS
  TypeOK
  NoMixedDirectory
  ScopeWasHeld
  TeamReportsAreExact
  ReportsAreAudited
  ReadersAgree
PROPERTIES
  ChangesReachReports
  SyncWins
