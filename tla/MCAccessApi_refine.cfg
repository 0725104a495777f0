CONSTANTS
  h1 = h1
  h2 = h2
  p1 = p1
  p2 = p2
  Badges = {"b1", "b2"}
  SiteIDs = {"A"}
  Gates <- TwoGates
  Handlers = {h1, h2}
  Replicas = {p1, p2}
  ReplicaOf <- TwoReplicas
  Overlap = FALSE
  FaultKinds = {"read", "write", "repeat", "crash"}
  MaxSwipes = 3
  MaxFaults = 1
SPECIFICATION FairSpec
CHECK_DEADLOCK FALSE
PROPERTIES
  ImplementsTurnstile
  EveryHandlerFinishes
