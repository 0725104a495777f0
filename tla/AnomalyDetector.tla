---------------------------- MODULE AnomalyDetector ----------------------------
(***************************************************************************)
(* backend/cmd/anomaly-detector/main.go: the second consumer group of the  *)
(* stream.  Its one process judges every event by three rules and stores   *)
(* an alert for each that fires.  The windows of two of the rules live in  *)
(* the memory of the process and are measured on its own clock, not on the *)
(* times the events carry.                                                 *)
(*                                                                         *)
(* Delivery is that of EventStream, seen from this side: messages arrive   *)
(* in stream order; those a killed process held, and those whose XACK      *)
(* failed, come again once they have been idle for MinIdle.  The handler   *)
(* never returns an error, so nothing is retried or dead-lettered.         *)
(***************************************************************************)
EXTENDS Naturals, Sequences, FiniteSets

CONSTANTS
  EventKinds,      \* the badge, gate, status and direction of the events
  ApbWindow,       \* 30 minutes, in ticks of the clock
  TailgateWindow,  \* 5 seconds
  MinIdle,         \* pendingMinIdle
  StartHour,       \* the UTC hour at tick 0
  TicksPerHour,
  FaultKinds,      \* which faults may occur, out of AllFaultKinds
  MaxTime, MaxEvents, MaxFaults  \* bounds

AllFaultKinds == {"crash", "ack", "db"}

ASSUME KindsAssumption ==
  \A k \in EventKinds : k.status \in {"SUCCESS", "REJECTED_APB"} /\ k.direction \in {"IN", "OUT"}
ASSUME TimeAssumption ==
  /\ {ApbWindow, TailgateWindow, MinIdle, MaxTime} \subseteq Nat
  /\ StartHour \in 0..23 /\ TicksPerHour \in Nat \ {0}
ASSUME FaultAssumption == FaultKinds \subseteq AllFaultKinds
ASSUME BoundAssumption == MaxEvents \in Nat /\ MaxFaults \in Nat

VARIABLES
  now,            \* the detector's clock
  events,         \* the stream: [kind, stamp], stamp being the event's own time
  next,           \* first message not yet delivered
  pending,        \* delivered and not acknowledged: [msg, since]
  pc, current,    \* the rule about to run, and the message it runs on
  apbState,       \* badge -> counter of the current process
  tailgateState,  \* gate  -> counter of the current process
  processed, alertsRaised,  \* the numbers /healthz reports
  alerts,         \* the alerts table: the judgements stored in it
  judged,         \* history: [rule, msg, at, run] for every event a rule looked at
  fired,          \* history: the judgements that came out positive
  run, faults,    \* processes started before this one; faults so far
  lostAcks        \* history: XACKs that failed

streamVars == <<events, next, pending>>
windowVars == <<apbState, tailgateState>>
historyVars == <<judged, fired>>
vars == <<now, streamVars, pc, current, windowVars, processed, alertsRaised,
          alerts, historyVars, run, faults, lostAcks>>

-----------------------------------------------------------------------------
Rules == {"offHours", "burst", "tailgate"}
Stages == {"idle", "ack"} \cup Rules

Badges == {k.badge : k \in EventKinds}
GateKeys == {k.gate : k \in EventKinds}

Absent == [count |-> 0, windowAt |-> 0]

Kind == events[current].kind

Fault(kind) == kind \in FaultKinds /\ faults < MaxFaults /\ faults' = faults + 1

NoCounters(keys) == [k \in keys |-> Absent]

Init ==
  /\ now = 0
  /\ events = <<>> /\ next = 1 /\ pending = {}
  /\ pc = "idle" /\ current = 0
  /\ apbState = NoCounters(Badges) /\ tailgateState = NoCounters(GateKeys)
  /\ processed = 0 /\ alertsRaised = 0
  /\ alerts = {} /\ judged = <<>> /\ fired = {}
  /\ run = 0 /\ faults = 0 /\ lostAcks = 0

Tick ==
  /\ now < MaxTime
  /\ now' = now + 1
  /\ UNCHANGED <<streamVars, pc, current, windowVars, processed, alertsRaised,
                 alerts, historyVars, run, faults, lostAcks>>

Publish(kind) ==
  /\ Len(events) < MaxEvents
  /\ events' = Append(events, [kind |-> kind, stamp |-> now])
  /\ UNCHANGED <<now, next, pending, pc, current, windowVars, processed, alertsRaised,
                 alerts, historyVars, run, faults, lostAcks>>

-----------------------------------------------------------------------------
Handle(msg) ==
  /\ pc' = "offHours"
  /\ current' = msg
  /\ processed' = processed + 1
  /\ UNCHANGED <<now, events, windowVars, alertsRaised, alerts, historyVars, run, faults, lostAcks>>

\* A message without valid event data, which is dead-lettered instead, is left
\* out: no rule ever sees it.
TakeNew ==
  /\ pc = "idle"
  /\ next <= Len(events)
  /\ next' = next + 1
  /\ pending' = pending \cup {[msg |-> next, since |-> now]}
  /\ Handle(next)

TakePending(p) ==
  /\ pc = "idle"
  /\ now - p.since >= MinIdle
  /\ pending' = (pending \ {p}) \cup {[p EXCEPT !.since = now]}
  /\ UNCHANGED next
  /\ Handle(p.msg)

-----------------------------------------------------------------------------
IsEntry == Kind.status = "SUCCESS" /\ Kind.direction = "IN"

\* The hour in Asia/Taipei, eight hours ahead of UTC.
TaipeiHour(t) == (StartHour + t \div TicksPerHour + 8) % 24

IsOffHours(t) == TaipeiHour(t) >= 22 \/ TaipeiHour(t) < 6

\* Mutant: a window that never closes.
OpensWindow_Once(c, window) == c.count = 0

\* A new window is opened by the first event of a key and by the first one
\* later than window after the current one was opened.
OpensWindow(c, window) == c.count = 0 \/ now - c.windowAt > window

\* Mutant: a threshold off by one.
Fires_AtFour(c, window) == ~OpensWindow(c, window) /\ c.count + 1 >= 4

\* The third event of a window fires.
Fires(c, window) == ~OpensWindow(c, window) /\ c.count + 1 >= 3

\* Mutant: a counter that survives its alert.
Tally_Keeps(c, window) ==
  IF OpensWindow(c, window) THEN [count |-> 1, windowAt |-> now]
  ELSE [c EXCEPT !.count = @ + 1]

\* The counter after one more event: it is deleted when it fires.
Tally(c, window) ==
  IF OpensWindow(c, window) THEN [count |-> 1, windowAt |-> now]
  ELSE IF Fires(c, window) THEN Absent
  ELSE [c EXCEPT !.count = @ + 1]

\* raise: the alert is stored and counted, or InsertAlert reports an error
\* and the alert is given up (it may have been stored all the same).
Raise(j) ==
  \/ alerts' = alerts \cup {j} /\ alertsRaised' = alertsRaised + 1 /\ UNCHANGED faults
  \/ Fault("db") /\ UNCHANGED alertsRaised /\ (alerts' = alerts \cup {j} \/ UNCHANGED alerts)

\* A rule has looked at the current event and found it suspicious, or not.
Judge(rule, suspicious) ==
  LET j == Len(judged) + 1
  IN  /\ judged' = Append(judged, [rule |-> rule, msg |-> current, at |-> now, run |-> run])
      /\ IF suspicious
           THEN Raise(j) /\ fired' = fired \cup {j}
           ELSE UNCHANGED <<fired, alerts, alertsRaised, faults>>

NotConcerned == UNCHANGED <<historyVars, alerts, alertsRaised, faults>>

OffHoursRule ==
  /\ pc = "offHours"
  /\ IF IsEntry THEN Judge("offHours", IsOffHours(events[current].stamp)) ELSE NotConcerned
  /\ pc' = "burst"
  /\ UNCHANGED <<now, streamVars, current, windowVars, processed, run, lostAcks>>

BurstRule ==
  /\ pc = "burst"
  /\ LET c == apbState[Kind.badge]
     IN  IF Kind.status = "REJECTED_APB"
           THEN /\ apbState' = [apbState EXCEPT ![Kind.badge] = Tally(c, ApbWindow)]
                /\ Judge("burst", Fires(c, ApbWindow))
           ELSE UNCHANGED apbState /\ NotConcerned
  /\ pc' = "tailgate"
  /\ UNCHANGED <<now, streamVars, current, tailgateState, processed, run, lostAcks>>

TailgateRule ==
  /\ pc = "tailgate"
  /\ LET c == tailgateState[Kind.gate]
     IN  IF IsEntry
           THEN /\ tailgateState' = [tailgateState EXCEPT ![Kind.gate] = Tally(c, TailgateWindow)]
                /\ Judge("tailgate", Fires(c, TailgateWindow))
           ELSE UNCHANGED tailgateState /\ NotConcerned
  /\ pc' = "ack"
  /\ UNCHANGED <<now, streamVars, current, apbState, processed, run, lostAcks>>

\* Mutant: XACK is left out.
Ack_Never ==
  /\ pc = "ack"
  /\ pc' = "idle"
  /\ current' = 0
  /\ UNCHANGED <<now, streamVars, windowVars, processed, alertsRaised, alerts,
                 historyVars, run, faults, lostAcks>>

\* XACK, whose error nobody looks at.
Ack ==
  /\ pc = "ack"
  /\ \/ pending' = {p \in pending : p.msg # current} /\ UNCHANGED <<faults, lostAcks>>
     \/ Fault("ack") /\ lostAcks' = lostAcks + 1 /\ UNCHANGED pending
  /\ pc' = "idle"
  /\ current' = 0
  /\ UNCHANGED <<now, events, next, windowVars, processed, alertsRaised, alerts,
                 historyVars, run>>

-----------------------------------------------------------------------------
\* Mutant: what the process had read ahead is gone with it.
ReadAhead_Lost(last) == {}

\* The messages up to last, read in one batch and not yet looked at.
ReadAhead(last) == {[msg |-> m, since |-> now] : m \in next..last}

\* The process is killed, having read ahead up to message last; the one that
\* takes its place starts with empty windows.
Crash(last) ==
  /\ Fault("crash")
  /\ next' = last + 1
  /\ pending' = pending \cup ReadAhead(last)
  /\ pc' = "idle" /\ current' = 0
  /\ apbState' = NoCounters(Badges) /\ tailgateState' = NoCounters(GateKeys)
  /\ processed' = 0 /\ alertsRaised' = 0
  /\ run' = run + 1
  /\ UNCHANGED <<now, events, alerts, historyVars, lostAcks>>

Next ==
  \/ Tick
  \/ \E kind \in EventKinds : Publish(kind)
  \/ TakeNew
  \/ \E p \in pending : TakePending(p)
  \/ OffHoursRule \/ BurstRule \/ TailgateRule \/ Ack
  \/ \E last \in (next - 1)..Len(events) : Crash(last)

Spec == Init /\ [][Next]_vars
=============================================================================
