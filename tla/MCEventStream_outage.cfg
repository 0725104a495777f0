CONSTANTS
  Consumers = {c1}
  MaxRetries = 3
  ReadCount = 2
  PendingClaimBatch = 1
  Malformed = {}
  FaultKinds = {}
  MaxEvents = 2
  MaxFaults = 0
  MaxOutages = 1
SPECIFICATION Spec
INVARIANTS
  OutagesAreCaughtUp
