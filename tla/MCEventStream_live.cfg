CONSTANTS
  Consumers = {c1, c2}
  MaxRetries = 2
  ReadCount = 2
  PendingClaimBatch = 1
  Malformed = {2}
  FaultKinds = {"crash", "slow", "ambiguous"}
  MaxEvents = 2
  MaxFaults = 2
  MaxOutages = 1
SPECIFICATION FairSpec
INVARIANTS
  NoEventLost
PROPERTIES
  EveryEventSettles
