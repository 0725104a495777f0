CONSTANTS
  h1 = h1
  h2 = h2
  p1 = p1
  p2 = p2
  Badges = {"b1"}
  SiteIDs = {"A"}
  Gates <- TwoGates
  Handlers = {h1}
  Replicas = {p1}
  ReplicaOf <- OneReplica
  Overlap = FALSE
  FaultKinds = {"write"}
  MaxSwipes = 2
  MaxFaults = 1
SPECIFICATION Spec
CHECK_DEADLOCK FALSE
INVARIANTS
  ActiveSiteIsInside
