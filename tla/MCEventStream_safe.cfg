CONSTANTS
  Consumers = {c1, c2}
  MaxRetries = 3
  ReadCount = 2
  PendingClaimBatch = 1
  Malformed = {2}
  FaultKinds = {"crash", "slow", "ambiguous", "redis"}
  MaxEvents = 3
  MaxFaults = 2
  MaxOutages = 1
SPECIFICATION Spec
SYMMETRY ConsumerSymmetry
INVARIANTS
  TypeOK
  FaultsHarmOneEventEach
  DeadLettersWereRetried
  RetriesHaveCauses
