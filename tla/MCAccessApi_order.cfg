CONSTANTS
  h1 = h1
  h2 = h2
  p1 = p1
  p2 = p2
  Badges = {"b1"}
  SiteIDs = {"A"}
  Gates <- TwoGates
  Handlers = {h1, h2}
  Replicas = {p1, p2}
  ReplicaOf <- TwoReplicas
  Overlap = TRUE
  FaultKinds = {}
  MaxSwipes = 2
  MaxFaults = 0
SPECIFICATION Spec
CHECK_DEADLOCK FALSE
INVARIANTS
  ActiveSiteIsInside
