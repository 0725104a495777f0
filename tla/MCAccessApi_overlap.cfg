CONSTANTS
  h1 = h1
  h2 = h2
  p1 = p1
  p2 = p2
  Badges = {"b1"}
  SiteIDs = {"A", "B"}
  Gates <- TwoGates
  Handlers = {h1, h2}
  Replicas = {p1, p2}
  ReplicaOf <- TwoReplicas
  Overlap = TRUE
  FaultKinds = {"read", "write", "repeat", "drop", "crash"}
  MaxSwipes = 3
  MaxFaults = 1
SPECIFICATION Spec
CHECK_DEADLOCK FALSE
INVARIANTS
  TypeOK
  ApbMatchesStream
  AnswersAreRecorded
  OneVerdictPerSwipe
  OuterGateFirst
  ActiveSiteWasEntered
  CountersMatchAnswers
PROPERTIES
  OnlyGrantsMoveBadges
