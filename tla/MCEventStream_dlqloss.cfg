CONSTANTS
  Consumers = {c1}
  MaxRetries = 3
  ReadCount = 2
  PendingClaimBatch = 1
  Malformed = {}
  FaultKinds = {"redis"}
  MaxEvents = 2
  MaxFaults = 1
  MaxOutages = 1
SPECIFICATION Spec
INVARIANTS
  NoEventLost
