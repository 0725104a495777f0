------------------------- MODULE AnomalyDetectorProps -------------------------
(***************************************************************************)
(* What the alerts mean: when one is justified, and when one is missing.   *)
(***************************************************************************)
EXTENDS AnomalyDetector

TypeOK ==
  /\ now \in 0..MaxTime
  /\ events \in Seq([kind : EventKinds, stamp : 0..now])
  /\ next \in 1..(Len(events) + 1)
  /\ pending \subseteq [msg : 1..(next - 1), since : 0..now]
  /\ pc \in Stages
  /\ IF pc = "idle" THEN current = 0 ELSE \E p \in pending : p.msg = current
  /\ apbState \in [Badges -> [count : 0..2, windowAt : 0..now]]
  /\ tailgateState \in [GateKeys -> [count : 0..2, windowAt : 0..now]]
  /\ processed \in Nat /\ alertsRaised \in 0..Cardinality(alerts)
  /\ judged \in Seq([rule : Rules, msg : 1..(next - 1), at : 0..now, run : 0..run])
  /\ alerts \subseteq fired /\ fired \subseteq DOMAIN judged
  /\ run \in 0..faults /\ faults \in 0..MaxFaults /\ lostAcks \in 0..faults

-----------------------------------------------------------------------------
\* The judgements of a rule about one badge (burst) or gate (tailgate).
KindOf(j) == events[judged[j].msg].kind

KeyOf(j) == IF judged[j].rule = "burst" THEN KindOf(j).badge ELSE KindOf(j).gate

SameSeries(i, j) == judged[i].rule = judged[j].rule /\ KeyOf(i) = KeyOf(j)

Windowed == {j \in DOMAIN judged : judged[j].rule \in {"burst", "tailgate"}}

Window(j) == IF judged[j].rule = "burst" THEN ApbWindow ELSE TailgateWindow

Series(j) == {i \in 1..j : SameSeries(i, j)}

\* The last n judgements of j's series up to j were made by one process, no
\* further apart than the window of the rule.
WithinWindow(j, n) ==
  \E first \in Series(j) :
    /\ Cardinality({i \in Series(j) : i >= first}) = n
    /\ judged[first].run = judged[j].run
    /\ judged[j].at - judged[first].at <= Window(j)

\* A burst or tailgating rule only fires on three events of that badge or gate
\* judged within the window, whatever was killed or came twice.
AlertsAreBacked ==
  \A j \in fired \cap Windowed : \E n \in 3..Cardinality(Series(j)) : WithinWindow(j, n)

\* No judgement is counted towards two alerts (main.go:151-152).  An event
\* that is judged again, after a crash or a lost XACK, may serve two.
EventsCountOnce ==
  \A j \in Windowed : 3 * Cardinality(fired \cap Series(j)) <= Cardinality(Series(j))

\* Four events in a row within the window do not go unnoticed: although the
\* window does not slide, the rule fires on one of them, at the latest on the
\* fourth.  (Whether the alert is then stored is up to the database.)
FourAreNoticed ==
  \A j \in Windowed :
    WithinWindow(j, 4) =>
      \E i \in Series(j) \cap fired : Cardinality({k \in Series(j) : k >= i}) <= 4

\* A rule fires on three different events, unless an XACK failed: each lost
\* one lets one event be judged again by the same process.  Crashes and
\* failing INSERTs of alerts do not count.
AlertsAreOfDistinctEvents ==
  \A j \in fired \cap Windowed : \E i \in Series(j) :
    LET counted == {k \in Series(j) : k >= i}
    IN  /\ Cardinality(counted) = 3
        /\ Cardinality({judged[k].msg : k \in counted}) + lostAcks >= 3

\* An event leaves the group only after every rule that concerns it has
\* looked at it, also when the process was killed with events read ahead.
EveryEventIsJudged ==
  \A m \in 1..(next - 1) :
    LET rules == {judged[j].rule : j \in {i \in DOMAIN judged : judged[i].msg = m}}
        kind  == events[m].kind
    IN  (\A p \in pending : p.msg # m) =>
          /\ kind.status = "REJECTED_APB" => "burst" \in rules
          /\ kind.status = "SUCCESS" /\ kind.direction = "IN" => {"offHours", "tailgate"} \subseteq rules

-----------------------------------------------------------------------------
\* The header (main.go:28) and the comment "sliding-window" (main.go:44):
\* three rejections of a badge within 30 minutes raise an alert.
ThreeRejectionsAlert ==
  \A j \in Windowed :
    judged[j].rule = "burst" /\ WithinWindow(j, 3) =>
      \E i \in Series(j) \cap fired : Cardinality({k \in Series(j) : k >= i}) <= 3

=============================================================================
