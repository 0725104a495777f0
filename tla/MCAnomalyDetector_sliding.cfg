CONSTANTS
  EventKinds <- Rejections
  ApbWindow = 2
  TailgateWindow = 1
  MinIdle = 2
  StartHour = 13
  TicksPerHour = 2
  FaultKinds = {}
  MaxTime = 4
  MaxEvents = 4
  MaxFaults = 0
SPECIFICATION Spec
CHECK_DEADLOCK FALSE
INVARIANTS
  ThreeRejectionsAlert
