CONSTANTS
  EventKinds <- RejectionsAndEntries
  ApbWindow = 1
  TailgateWindow = 0
  MinIdle = 2
  StartHour = 13
  TicksPerHour = 1
  FaultKinds = {"crash", "ack", "db"}
  MaxTime = 2
  MaxEvents = 4
  MaxFaults = 1
SPECIFICATION Spec
CHECK_DEADLOCK FALSE
INVARIANTS
  TypeOK
  EventsCountOnce
  FourAreNoticed
  AlertsAreBacked
  AlertsAreOfDistinctEvents
  EveryEventIsJudged
