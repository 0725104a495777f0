------------------------- MODULE AnomalyDetector_proofs -------------------------
(***************************************************************************)
(* Theorems about AnomalyDetector for any events, windows and faults and   *)
(* any bounds.                                                             *)
(***************************************************************************)
EXTENDS AnomalyDetectorProps, FiniteSetTheorems, SequenceTheorems, TLAPS

-----------------------------------------------------------------------------
Counter == [count : 0..2, windowAt : 0..now]

Judgement == [rule : Rules, msg : 1..(next - 1), at : 0..now, run : 0..run]

LEMMA Bounds ==
  /\ MaxTime \in Nat /\ MaxEvents \in Nat /\ MaxFaults \in Nat
  /\ ApbWindow \in Nat /\ TailgateWindow \in Nat /\ MinIdle \in Nat
BY TimeAssumption, BoundAssumption

LEMMA SeqGrows ==
  ASSUME NEW S, NEW T, S \subseteq T, NEW s \in Seq(S)
  PROVE  s \in Seq(T)
OBVIOUS

\* More messages, later times and more processes: what was judged stays typed.
LEMMA JudgedGrows ==
  ASSUME NEW M, NEW A, NEW R, NEW M2, NEW A2, NEW R2,
         M \subseteq M2, A \subseteq A2, R \subseteq R2,
         judged \in Seq([rule : Rules, msg : M, at : A, run : R])
  PROVE  judged \in Seq([rule : Rules, msg : M2, at : A2, run : R2])
<1>1. [rule : Rules, msg : M, at : A, run : R] \subseteq [rule : Rules, msg : M2, at : A2, run : R2]
  OBVIOUS
<1>2. QED
  BY <1>1, SeqGrows

\* The event a rule looks at is one of the stream.
LEMMA CurrentEvent ==
  ASSUME TypeOK, pc # "idle"
  PROVE  /\ current \in 1..(next - 1) /\ current \in 1..Len(events)
         /\ Kind \in EventKinds /\ Kind.badge \in Badges /\ Kind.gate \in GateKeys
         /\ \E p \in pending : p.msg = current
<1>1. \E p \in pending : p.msg = current
  BY DEF TypeOK
<1>2. current \in 1..(next - 1) /\ next \in 1..(Len(events) + 1) /\ Len(events) \in Nat
  BY <1>1, SMTT(30) DEF TypeOK
<1>3. current \in 1..Len(events)
  BY <1>2
<1>4. events[current] \in [kind : EventKinds, stamp : 0..now]
  BY <1>3, ElementOfSeq DEF TypeOK
<1>5. QED
  BY <1>1, <1>2, <1>3, <1>4 DEF Kind, Badges, GateKeys

LEMMA AlertsAreFinite ==
  ASSUME TypeOK
  PROVE  /\ IsFiniteSet(alerts) /\ Cardinality(alerts) \in Nat
         /\ (Len(judged) + 1) \notin fired /\ (Len(judged) + 1) \notin alerts
<1>1. Len(judged) \in Nat /\ DOMAIN judged = 1..Len(judged)
  BY LenProperties DEF TypeOK
<1>2. fired \subseteq 1..Len(judged) /\ alerts \subseteq fired
  BY <1>1 DEF TypeOK
<1>3. IsFiniteSet(1..Len(judged))
  BY <1>1, FS_Interval
<1>4. IsFiniteSet(alerts)
  BY <1>2, <1>3, FS_Subset
<1>5. QED
  BY <1>1, <1>2, <1>4, FS_CardinalityType

-----------------------------------------------------------------------------
(* Type correctness, action by action. *)

LEMMA TypeInit == Init => TypeOK
<1> SUFFICES ASSUME Init PROVE TypeOK
  OBVIOUS
<1>1. apbState \in [Badges -> Counter] /\ tailgateState \in [GateKeys -> Counter]
  BY DEF Init, NoCounters, Absent, Counter
<1>2. Cardinality(alerts) = 0
  BY FS_EmptySet DEF Init
<1>3. events \in Seq([kind : EventKinds, stamp : 0..now]) /\ Len(events) = 0
  BY DEF Init
<1>4. judged \in Seq(Judgement) /\ fired \subseteq DOMAIN judged /\ alerts \subseteq fired
  BY DEF Init
<1>5. alertsRaised \in 0..Cardinality(alerts)
  BY <1>2 DEF Init
<1>6. next \in 1..(Len(events) + 1) /\ pc \in Stages /\ current = 0 /\ pc = "idle"
  BY <1>3 DEF Init, Stages
<1>7. QED
  BY <1>1, <1>3, <1>4, <1>5, <1>6, Bounds DEF Init, TypeOK, Counter, Judgement

LEMMA TickKeepsType == ASSUME TypeOK, Tick PROVE TypeOK'
<1>1. now \in 0..MaxTime /\ now < MaxTime /\ now' = now + 1 /\ MaxTime \in Nat
  BY Bounds DEF TypeOK, Tick
<1>2. 0..now \subseteq 0..now' /\ now' \in 0..MaxTime
  BY <1>1
<1>3. events' \in Seq([kind : EventKinds, stamp : 0..now'])
  <2>1. [kind : EventKinds, stamp : 0..now] \subseteq [kind : EventKinds, stamp : 0..now']
    BY <1>2
  <2>2. events \in Seq([kind : EventKinds, stamp : 0..now]) /\ events' = events
    BY DEF TypeOK, Tick, streamVars
  <2>3. QED
    BY <2>1, <2>2, SeqGrows
<1>4. judged' \in Seq([rule : Rules, msg : 1..(next - 1), at : 0..now', run : 0..run])
  <2>1. judged \in Seq([rule : Rules, msg : 1..(next - 1), at : 0..now', run : 0..run])
    BY <1>2, JudgedGrows DEF TypeOK
  <2>2. QED
    BY <2>1 DEF Tick, historyVars
<1>5. pending' \subseteq [msg : 1..(next - 1), since : 0..now']
  BY <1>2 DEF TypeOK, Tick, streamVars
<1>6. /\ apbState' \in [Badges -> [count : 0..2, windowAt : 0..now']]
      /\ tailgateState' \in [GateKeys -> [count : 0..2, windowAt : 0..now']]
  BY <1>2 DEF TypeOK, Tick, windowVars
<1>7. QED
  BY <1>2, <1>3, <1>4, <1>5, <1>6 DEF TypeOK, Tick, streamVars, windowVars, historyVars

LEMMA PublishKeepsType ==
  ASSUME TypeOK, NEW kind \in EventKinds, Publish(kind) PROVE TypeOK'
<1>1. now \in Nat /\ Len(events) \in Nat
  BY Bounds DEF TypeOK
<1>2. /\ events' \in Seq([kind : EventKinds, stamp : 0..now])
      /\ Len(events') = Len(events) + 1
  BY <1>1, AppendProperties DEF TypeOK, Publish
<1>3. QED
  BY <1>1, <1>2, SMTT(30) DEF TypeOK, Publish, windowVars, historyVars

LEMMA TakesKeepType ==
  ASSUME TypeOK, TakeNew \/ \E p \in pending : TakePending(p)
  PROVE  TypeOK'
<1>1. /\ now \in Nat /\ Len(events) \in Nat /\ next \in Nat /\ run \in Nat
      /\ next \in 1..(Len(events) + 1) /\ processed \in Nat
      /\ pending \subseteq [msg : 1..(next - 1), since : 0..now]
  BY Bounds DEF TypeOK
<1>2. CASE TakeNew
  <2>1. next' = next + 1 /\ next' \in 1..(Len(events) + 1) /\ 1..(next - 1) \subseteq 1..(next' - 1)
    BY <1>1, <1>2 DEF TakeNew
  <2>2. pending' \subseteq [msg : 1..(next' - 1), since : 0..now]
    BY <1>1, <1>2, <2>1 DEF TakeNew
  <2>3. judged \in Seq([rule : Rules, msg : 1..(next' - 1), at : 0..now, run : 0..run])
    BY <2>1, JudgedGrows DEF TypeOK
  <2>4. \E p \in pending' : p.msg = current'
    <3>1. [msg |-> next, since |-> now] \in pending' /\ current' = next
      BY <1>2 DEF TakeNew, Handle
    <3>2. QED
      BY <3>1
  <2>5. QED
    BY <1>1, <1>2, <2>1, <2>2, <2>3, <2>4, SMTT(30)
       DEF TypeOK, TakeNew, Handle, Stages, Rules, windowVars, historyVars
<1>3. ASSUME NEW p \in pending, TakePending(p) PROVE TypeOK'
  <2>1. pending' \subseteq [msg : 1..(next - 1), since : 0..now]
    BY <1>1, <1>3 DEF TakePending
  <2>2. [p EXCEPT !.since = now].msg = p.msg
    OBVIOUS
  <2>3. \E q \in pending' : q.msg = current'
    <3>1. [p EXCEPT !.since = now] \in pending' /\ current' = p.msg
      BY <1>3 DEF TakePending, Handle
    <3>2. QED
      BY <2>2, <3>1
  <2>4. /\ next' = next /\ pc' = "offHours" /\ processed' = processed + 1
        /\ now' = now /\ events' = events /\ apbState' = apbState
        /\ tailgateState' = tailgateState /\ alertsRaised' = alertsRaised /\ alerts' = alerts
        /\ judged' = judged /\ fired' = fired /\ run' = run /\ faults' = faults
        /\ lostAcks' = lostAcks
    BY <1>3 DEF TakePending, Handle, windowVars, historyVars
  <2>5. pc' \in Stages /\ pc' # "idle" /\ processed' \in Nat
    BY <1>1, <2>4 DEF Stages, Rules
  <2>6. QED
    BY <2>1, <2>3, <2>4, <2>5 DEF TypeOK
<1>4. QED
  BY <1>2, <1>3

LEMMA AckKeepsType == ASSUME TypeOK, Ack PROVE TypeOK'
<1>1. pending' \subseteq pending /\ faults' \in faults..MaxFaults
  BY Bounds, SMTT(30) DEF TypeOK, Ack, Fault
<1>2. run \in 0..faults' /\ faults' \in 0..MaxFaults
  BY <1>1, Bounds DEF TypeOK
<1>3. lostAcks' \in 0..faults'
  <2>1. faults \in Nat /\ lostAcks \in 0..faults
    BY Bounds DEF TypeOK
  <2>2. \/ faults' = faults /\ lostAcks' = lostAcks
        \/ faults' = faults + 1 /\ lostAcks' = lostAcks + 1
    BY DEF Ack, Fault
  <2>3. QED
    BY <2>1, <2>2
<1>4. QED
  BY <1>1, <1>2, <1>3 DEF TypeOK, Ack, Stages, windowVars, historyVars

LEMMA CrashKeepsType ==
  ASSUME TypeOK, NEW last \in (next - 1)..Len(events), Crash(last) PROVE TypeOK'
<1>1. /\ now \in Nat /\ Len(events) \in Nat /\ next \in Nat /\ run \in Nat
      /\ next \in 1..(Len(events) + 1) /\ last \in Nat /\ faults \in Nat
      /\ pending \subseteq [msg : 1..(next - 1), since : 0..now]
  BY Bounds DEF TypeOK
<1>2. next' = last + 1 /\ next' \in 1..(Len(events) + 1) /\ 1..(next - 1) \subseteq 1..(next' - 1)
  BY <1>1 DEF Crash
<1>3. pending' \subseteq [msg : 1..(next' - 1), since : 0..now]
  BY <1>1, <1>2 DEF Crash, ReadAhead
<1>4. /\ run' = run + 1 /\ run' \in 0..faults' /\ faults' \in 0..MaxFaults
      /\ lostAcks' \in 0..faults'
  BY Bounds DEF TypeOK, Crash, Fault
<1>5. judged \in Seq([rule : Rules, msg : 1..(next' - 1), at : 0..now, run : 0..run'])
  <2>1. 0..run \subseteq 0..run'
    BY <1>1, <1>4
  <2>2. QED
    BY <1>2, <2>1, JudgedGrows DEF TypeOK
<1>6. apbState' \in [Badges -> Counter] /\ tailgateState' \in [GateKeys -> Counter]
  BY <1>1 DEF Crash, NoCounters, Absent, Counter
<1>7. 0 \in 0..Cardinality(alerts)
  BY AlertsAreFinite
<1>8. QED
  BY <1>2, <1>3, <1>4, <1>5, <1>6, <1>7
     DEF TypeOK, Crash, Stages, historyVars, Counter

LEMMA TallyIsCounter ==
  ASSUME now \in Nat, NEW c \in Counter, NEW window \in Nat
  PROVE  Tally(c, window) \in Counter
BY DEF Tally, Fires, OpensWindow, Absent, Counter

LEMMA JudgeKeepsType ==
  ASSUME TypeOK, pc # "idle", NEW rule \in Rules, NEW suspicious \in BOOLEAN,
         Judge(rule, suspicious)
  PROVE  /\ judged' \in Seq(Judgement)
         /\ alerts' \subseteq fired' /\ fired' \subseteq DOMAIN judged'
         /\ alertsRaised' \in 0..Cardinality(alerts')
         /\ run \in 0..faults' /\ faults' \in 0..MaxFaults /\ lostAcks \in 0..faults'
<1> DEFINE j == Len(judged) + 1
           verdict == [rule |-> rule, msg |-> current, at |-> now, run |-> run]
<1>1. /\ judged \in Seq(Judgement) /\ verdict \in Judgement
      /\ judged' = Append(judged, verdict)
  <2>1. judged \in Seq(Judgement)
    BY DEF TypeOK, Judgement
  <2>2. current \in 1..(next - 1)
    BY CurrentEvent
  <2>3. now \in 0..now /\ run \in 0..run
    BY Bounds DEF TypeOK
  <2>4. verdict \in Judgement
    BY <2>2, <2>3 DEF Judgement
  <2>5. QED
    BY <2>1, <2>4 DEF Judge
<1>2. judged' \in Seq(Judgement) /\ Len(judged') = j /\ Len(judged) \in Nat
  <2>1. judged' \in Seq(Judgement) /\ Len(judged') = Len(judged) + 1
    BY <1>1, AppendProperties
  <2>2. Len(judged) \in Nat
    BY <1>1, LenProperties
  <2>3. QED
    BY <2>1, <2>2
<1>3. DOMAIN judged = 1..Len(judged) /\ DOMAIN judged' = 1..j
  BY <1>1, <1>2, LenProperties
<1>4. /\ IsFiniteSet(alerts) /\ j \notin alerts /\ Cardinality(alerts) \in Nat
      /\ Cardinality(alerts \cup {j}) = Cardinality(alerts) + 1
  BY AlertsAreFinite, FS_AddElement
<1>5. CASE suspicious
  <2>1. Raise(j) /\ fired' = fired \cup {j}
    BY <1>5 DEF Judge
  <2>2. alerts' \subseteq fired' /\ fired' \subseteq 1..j
    BY <1>2, <1>3, <2>1, SMTT(30) DEF Raise, TypeOK
  <2>3. /\ alertsRaised \in 0..Cardinality(alerts) /\ run \in 0..faults /\ lostAcks \in 0..faults
        /\ faults \in 0..MaxFaults /\ MaxFaults \in Nat
    BY Bounds DEF TypeOK
  <2>4. \/ alerts' = alerts \cup {j} /\ alertsRaised' = alertsRaised + 1 /\ faults' = faults
        \/ /\ faults < MaxFaults /\ faults' = faults + 1 /\ alertsRaised' = alertsRaised
           /\ alerts' \in {alerts, alerts \cup {j}}
    BY <2>1 DEF Raise, Fault
  <2>5. alertsRaised' \in 0..Cardinality(alerts')
    <3>1. CASE alerts' = alerts
      BY <1>4, <2>3, <2>4, <3>1
    <3>2. CASE alerts' = alerts \cup {j}
      <4>1. alertsRaised' \in {alertsRaised, alertsRaised + 1}
        BY <2>4
      <4>2. Cardinality(alerts') = Cardinality(alerts) + 1
        BY <1>4, <3>2
      <4>3. QED
        BY <1>4, <2>3, <4>1, <4>2
    <3>3. QED
      BY <2>4, <3>1, <3>2
  <2>6. run \in 0..faults' /\ faults' \in 0..MaxFaults /\ lostAcks \in 0..faults'
    BY <2>3, <2>4
  <2>7. QED
    BY <1>2, <1>3, <2>2, <2>5, <2>6
<1>6. CASE ~suspicious
  BY <1>2, <1>3, <1>6, SMTT(30) DEF Judge, TypeOK
<1>7. QED
  BY <1>5, <1>6

LEMMA PassedOverKeepsType ==
  ASSUME TypeOK, NotConcerned
  PROVE  /\ judged' \in Seq(Judgement)
         /\ alerts' \subseteq fired' /\ fired' \subseteq DOMAIN judged'
         /\ alertsRaised' \in 0..Cardinality(alerts')
         /\ run \in 0..faults' /\ faults' \in 0..MaxFaults /\ lostAcks \in 0..faults'
BY DEF TypeOK, NotConcerned, historyVars, Judgement

LEMMA RulesKeepType ==
  ASSUME TypeOK, OffHoursRule \/ BurstRule \/ TailgateRule
  PROVE  TypeOK'
<1>1. /\ pc # "idle" /\ pc' \in Stages /\ pc' # "idle" /\ now \in Nat
      /\ ApbWindow \in Nat /\ TailgateWindow \in Nat
      /\ UNCHANGED <<now, events, next, pending, current, processed, run, lostAcks>>
  BY Bounds DEF TypeOK, OffHoursRule, BurstRule, TailgateRule, streamVars, Stages, Rules
<1>2. /\ judged' \in Seq(Judgement)
      /\ alerts' \subseteq fired' /\ fired' \subseteq DOMAIN judged'
      /\ alertsRaised' \in 0..Cardinality(alerts')
      /\ run \in 0..faults' /\ faults' \in 0..MaxFaults /\ lostAcks \in 0..faults'
  <2>1. \/ NotConcerned
        \/ \E rule \in Rules, suspicious \in BOOLEAN : Judge(rule, suspicious)
    <3>1. CASE OffHoursRule
      <4>1. IsOffHours(events[current].stamp) \in BOOLEAN
        BY DEF IsOffHours
      <4>2. QED
        BY <3>1, <4>1 DEF OffHoursRule, Rules
    <3>2. CASE BurstRule
      <4>1. Fires(apbState[Kind.badge], ApbWindow) \in BOOLEAN
        BY DEF Fires
      <4>2. QED
        BY <3>2, <4>1 DEF BurstRule, Rules
    <3>3. CASE TailgateRule
      <4>1. Fires(tailgateState[Kind.gate], TailgateWindow) \in BOOLEAN
        BY DEF Fires
      <4>2. QED
        BY <3>3, <4>1 DEF TailgateRule, Rules
    <3>4. QED
      BY <3>1, <3>2, <3>3
  <2>2. QED
    BY <1>1, <2>1, JudgeKeepsType, PassedOverKeepsType
<1>3. apbState' \in [Badges -> Counter] /\ tailgateState' \in [GateKeys -> Counter]
  <2>1. apbState \in [Badges -> Counter] /\ tailgateState \in [GateKeys -> Counter]
    BY DEF TypeOK, Counter
  <2>2. Kind.badge \in Badges /\ Kind.gate \in GateKeys
    BY <1>1, CurrentEvent
  <2>3. /\ Tally(apbState[Kind.badge], ApbWindow) \in Counter
        /\ Tally(tailgateState[Kind.gate], TailgateWindow) \in Counter
    BY <1>1, <2>1, <2>2, TallyIsCounter
  <2>4. QED
    BY <2>1, <2>3 DEF OffHoursRule, BurstRule, TailgateRule, windowVars
<1>4. /\ now' = now /\ next' = next /\ events' = events /\ pending' = pending
      /\ current' = current /\ processed' = processed /\ run' = run
      /\ lostAcks' = lostAcks
  BY <1>1
<1>5. QED
  BY <1>1, <1>2, <1>3, <1>4 DEF TypeOK, Counter, Judgement

LEMMA StutterKeepsType == ASSUME TypeOK, UNCHANGED vars PROVE TypeOK'
BY DEF TypeOK, vars, streamVars, windowVars, historyVars

\* The detector's state is always well typed: its counters stay below the
\* threshold, the handler holds a pending message, and no alert is counted
\* that is not in the table.
THEOREM TypeCorrect == Spec => []TypeOK
<1>1. Init => TypeOK
  BY TypeInit
<1>2. TypeOK /\ [Next]_vars => TypeOK'
  <2>1. SUFFICES ASSUME TypeOK, [Next]_vars PROVE TypeOK'
    OBVIOUS
  <2>2. QED
    BY <2>1, TickKeepsType, PublishKeepsType, TakesKeepType, RulesKeepType, AckKeepsType,
       CrashKeepsType, StutterKeepsType DEF Next
<1>3. QED
  BY <1>1, <1>2, PTL DEF Spec

-----------------------------------------------------------------------------
(* A series is what one rule judged about one badge or gate.  Seen from a  *)
(* series, a step leaves it alone, restarts its counter or counts one more *)
(* event.                                                                  *)

WindowRules == {"burst", "tailgate"}

Keys(rule) == IF rule = "burst" THEN Badges ELSE GateKeys

Width(rule) == IF rule = "burst" THEN ApbWindow ELSE TailgateWindow

Count(rule, key) == IF rule = "burst" THEN apbState[key] ELSE tailgateState[key]

InSeries(rule, key) == {i \in DOMAIN judged : judged[i].rule = rule /\ KeyOf(i) = key}

Last == Len(judged) + 1

NewJudgement(rule) == [rule |-> rule, msg |-> current, at |-> now, run |-> run]

SeriesKept(rule, key) ==
  /\ \A i \in InSeries(rule, key) : judged'[i] = judged[i] /\ (i \in fired' <=> i \in fired)

Rests(rule, key) ==
  /\ InSeries(rule, key)' = InSeries(rule, key)
  /\ Count(rule, key)' = Count(rule, key) /\ run' = run

Restarts(rule, key) ==
  /\ InSeries(rule, key)' = InSeries(rule, key)
  /\ Count(rule, key)' = Absent /\ run' = run + 1

Counts(rule, key) ==
  /\ InSeries(rule, key)' = InSeries(rule, key) \cup {Last}
  /\ judged'[Last] = NewJudgement(rule)
  /\ Last \in fired' <=> Fires(Count(rule, key), Width(rule))
  /\ Count(rule, key)' = Tally(Count(rule, key), Width(rule)) /\ run' = run

LEMMA NewIsJudgement ==
  ASSUME TypeOK, pc # "idle", NEW rule \in Rules
  PROVE  NewJudgement(rule) \in Judgement
<1>1. current \in 1..(next - 1)
  BY CurrentEvent
<1>2. now \in 0..now /\ run \in 0..run
  BY Bounds DEF TypeOK
<1>3. QED
  BY <1>1, <1>2 DEF NewJudgement, Judgement

LEMMA WidthIsNat == ASSUME NEW rule PROVE Width(rule) \in Nat
BY Bounds DEF Width

LEMMA JudgedIsSeq ==
  ASSUME TypeOK
  PROVE  /\ judged \in Seq(Judgement) /\ Len(judged) \in Nat /\ DOMAIN judged = 1..Len(judged)
         /\ \A i \in 1..Len(judged) : judged[i] \in Judgement /\ judged[i].msg \in 1..Len(events)
<1>1. judged \in Seq(Judgement)
  BY DEF TypeOK, Judgement
<1>2. Len(judged) \in Nat /\ DOMAIN judged = 1..Len(judged)
  BY <1>1, LenProperties
<1>3. next \in 1..(Len(events) + 1) /\ Len(events) \in Nat
  BY DEF TypeOK
<1>4. \A i \in 1..Len(judged) : judged[i] \in Judgement
  BY <1>1, ElementOfSeq
<1>5. \A i \in 1..Len(judged) : judged[i].msg \in 1..Len(events)
  BY <1>3, <1>4 DEF Judgement
<1>6. QED
  BY <1>1, <1>2, <1>4, <1>5

LEMMA SeriesIsFinite ==
  ASSUME TypeOK, NEW rule, NEW key
  PROVE  /\ InSeries(rule, key) \subseteq 1..Len(judged) /\ Len(judged) \in Nat
         /\ \A S \in SUBSET InSeries(rule, key) : IsFiniteSet(S) /\ Cardinality(S) \in Nat
<1>1. InSeries(rule, key) \subseteq 1..Len(judged) /\ Len(judged) \in Nat
  BY JudgedIsSeq DEF InSeries
<1>2. IsFiniteSet(InSeries(rule, key))
  <2>1. IsFiniteSet(1..Len(judged))
    BY <1>1, FS_Interval
  <2>2. QED
    BY <1>1, <2>1, FS_Subset
<1>3. QED
  BY <1>1, <1>2, FS_Subset, FS_CardinalityType

LEMMA CountIsCounter ==
  ASSUME TypeOK, NEW rule \in WindowRules, NEW key \in Keys(rule)
  PROVE  Count(rule, key) \in Counter
BY DEF TypeOK, WindowRules, Keys, Count, Counter

LEMMA EventsKept ==
  ASSUME TypeOK, [Next]_vars
  PROVE  \A i \in 1..Len(events) : events'[i] = events[i]
<1>1. events' = events \/ \E kind \in EventKinds : Publish(kind)
  BY DEF Next, Tick, TakeNew, TakePending, Handle, OffHoursRule, BurstRule, TailgateRule, Ack,
         Crash, vars, streamVars
<1>2. ASSUME NEW kind \in EventKinds, Publish(kind)
      PROVE  \A i \in 1..Len(events) : events'[i] = events[i]
  BY <1>2, AppendProperties DEF Publish, TypeOK
<1>3. QED
  BY <1>1, <1>2

\* As long as nothing is judged, every series stays what it was.
LEMMA SameHistory ==
  ASSUME TypeOK, [Next]_vars, judged' = judged, NEW rule, NEW key
  PROVE  InSeries(rule, key)' = InSeries(rule, key)
<1>1. \A i \in DOMAIN judged : KeyOf(i)' = KeyOf(i)
  BY EventsKept, JudgedIsSeq DEF KeyOf, KindOf
<1>2. QED
  BY <1>1 DEF InSeries

\* One more judgement belongs to the series of its rule and its key.
LEMMA OneMore ==
  ASSUME TypeOK, [Next]_vars, NEW v \in Judgement, judged' = Append(judged, v),
         events' = events, NEW rule \in WindowRules, NEW key
  PROVE  /\ \A i \in 1..Len(judged) : judged'[i] = judged[i]
         /\ judged'[Last] = v
         /\ InSeries(rule, key)' =
              IF /\ v.rule = rule
                 /\ key = IF rule = "burst" THEN events[v.msg].kind.badge ELSE events[v.msg].kind.gate
              THEN InSeries(rule, key) \cup {Last} ELSE InSeries(rule, key)
<1>1. /\ judged \in Seq(Judgement) /\ Len(judged) \in Nat /\ DOMAIN judged = 1..Len(judged)
      /\ \A i \in 1..Len(judged) : judged[i] \in Judgement
  BY JudgedIsSeq
<1>2. /\ judged' \in Seq(Judgement) /\ Len(judged') = Last
      /\ \A i \in 1..Len(judged) : judged'[i] = judged[i]
      /\ judged'[Last] = v
  BY <1>1, AppendProperties DEF Last
<1>3. DOMAIN judged' = 1..Last /\ Last \notin 1..Len(judged)
      /\ 1..Last = (1..Len(judged)) \cup {Last}
  BY <1>1, <1>2, LenProperties DEF Last
<1>4. \A i \in 1..Len(judged) : KeyOf(i)' = KeyOf(i)
  BY <1>2 DEF KeyOf, KindOf
<1>5. ASSUME NEW i, i = Last
      PROVE  KeyOf(i)' = IF v.rule = "burst" THEN events[v.msg].kind.badge
                                             ELSE events[v.msg].kind.gate
  BY <1>2, <1>5 DEF KeyOf, KindOf
<1>6. QED
  BY <1>1, <1>2, <1>3, <1>4, <1>5 DEF InSeries

LEMMA IdleStep ==
  ASSUME TypeOK, [Next]_vars, NEW rule \in WindowRules, NEW key \in Keys(rule),
         judged' = judged, fired' = fired, run' = run,
         apbState' = apbState, tailgateState' = tailgateState
  PROVE  SeriesKept(rule, key) /\ Rests(rule, key)
<1>1. InSeries(rule, key)' = InSeries(rule, key)
  BY SameHistory
<1>2. QED
  BY <1>1 DEF SeriesKept, Rests, Count

LEMMA CrashStep ==
  ASSUME TypeOK, [Next]_vars, NEW rule \in WindowRules, NEW key \in Keys(rule),
         NEW last \in (next - 1)..Len(events), Crash(last)
  PROVE  SeriesKept(rule, key) /\ Restarts(rule, key)
<1>1. judged' = judged /\ fired' = fired /\ run' = run + 1
  BY DEF Crash, historyVars
<1>2. InSeries(rule, key)' = InSeries(rule, key)
  BY <1>1, SameHistory
<1>3. Count(rule, key)' = Absent
  BY DEF Crash, NoCounters, Count, WindowRules, Keys
<1>4. QED
  BY <1>1, <1>2, <1>3 DEF SeriesKept, Restarts

\* A judgement of one rule about the current event.
LEMMA JudgeStep ==
  ASSUME TypeOK, [Next]_vars, pc # "idle", NEW r \in Rules, NEW suspicious \in BOOLEAN,
         Judge(r, suspicious), events' = events, run' = run,
         NEW rule \in WindowRules, NEW key \in Keys(rule)
  PROVE  /\ SeriesKept(rule, key)
         /\ judged'[Last] = NewJudgement(r)
         /\ Last \in fired' <=> suspicious
         /\ InSeries(rule, key)' =
              IF r = rule /\ key = IF rule = "burst" THEN Kind.badge ELSE Kind.gate
              THEN InSeries(rule, key) \cup {Last} ELSE InSeries(rule, key)
<1>1. NewJudgement(r) \in Judgement
  BY NewIsJudgement
<1>2. judged' = Append(judged, NewJudgement(r))
  BY DEF Judge, NewJudgement
<1>3. Last \notin fired /\ fired' = IF suspicious THEN fired \cup {Last} ELSE fired
  BY AlertsAreFinite DEF Judge, Last
<1>4. Last \notin InSeries(rule, key)
  BY SeriesIsFinite DEF Last
<1>5. InSeries(rule, key) \subseteq 1..Len(judged)
  BY SeriesIsFinite
<1>6. NewJudgement(r).rule = r /\ NewJudgement(r).msg = current
  BY DEF NewJudgement
<1>7. QED
  BY <1>1, <1>2, <1>3, <1>4, <1>5, <1>6, OneMore, ZenonT(40) DEF SeriesKept, Kind

\* What a step does to a series.
LEMMA SeriesStep ==
  ASSUME TypeOK, [Next]_vars, NEW rule \in WindowRules, NEW key \in Keys(rule)
  PROVE  /\ SeriesKept(rule, key)
         /\ Rests(rule, key) \/ Restarts(rule, key) \/ Counts(rule, key)
<1>1. CASE \/ Tick \/ TakeNew \/ Ack \/ UNCHANGED vars
           \/ \E kind \in EventKinds : Publish(kind)
           \/ \E p \in pending : TakePending(p)
  <2>1. /\ judged' = judged /\ fired' = fired /\ run' = run
        /\ apbState' = apbState /\ tailgateState' = tailgateState
    BY <1>1 DEF Tick, TakeNew, TakePending, Handle, Ack, Publish, vars, historyVars, windowVars
  <2>2. QED
    BY <2>1, IdleStep
<1>2. ASSUME NEW last \in (next - 1)..Len(events), Crash(last)
      PROVE  SeriesKept(rule, key) /\ Restarts(rule, key)
  BY <1>2, CrashStep
<1>3. CASE OffHoursRule
  <2>1. /\ pc = "offHours" /\ events' = events /\ run' = run
        /\ apbState' = apbState /\ tailgateState' = tailgateState
    BY <1>3 DEF OffHoursRule, streamVars, windowVars
  <2>2. CASE IsEntry
    <3>1. IsOffHours(events[current].stamp) \in BOOLEAN
      BY DEF IsOffHours
    <3>2. Judge("offHours", IsOffHours(events[current].stamp))
      BY <1>3, <2>2 DEF OffHoursRule
    <3>3. SeriesKept(rule, key) /\ InSeries(rule, key)' = InSeries(rule, key)
      BY <2>1, <3>1, <3>2, JudgeStep DEF Rules, WindowRules
    <3>4. QED
      BY <2>1, <3>3 DEF Rests, Count
  <2>3. CASE ~IsEntry
    BY <1>3, <2>1, <2>3, IdleStep DEF OffHoursRule, NotConcerned, historyVars
  <2>4. QED
    BY <2>2, <2>3
<1>4. CASE BurstRule
  <2>1. /\ pc = "burst" /\ events' = events /\ run' = run /\ tailgateState' = tailgateState
    BY <1>4 DEF BurstRule, streamVars
  <2>2. CASE Kind.status = "REJECTED_APB"
    <3> DEFINE c == apbState[Kind.badge]
    <3>1. Fires(c, ApbWindow) \in BOOLEAN
      BY DEF Fires
    <3>2. /\ Judge("burst", Fires(c, ApbWindow))
          /\ apbState' = [apbState EXCEPT ![Kind.badge] = Tally(c, ApbWindow)]
      BY <1>4, <2>2 DEF BurstRule
    <3>3. /\ SeriesKept(rule, key) /\ judged'[Last] = NewJudgement("burst")
          /\ Last \in fired' <=> Fires(c, ApbWindow)
          /\ InSeries(rule, key)' =
               IF "burst" = rule /\ key = IF rule = "burst" THEN Kind.badge ELSE Kind.gate
               THEN InSeries(rule, key) \cup {Last} ELSE InSeries(rule, key)
      BY <2>1, <3>1, <3>2, JudgeStep DEF Rules
    <3>4. CASE rule = "burst" /\ key = Kind.badge
      <4>1. Count(rule, key) = c /\ Width(rule) = ApbWindow
        BY <3>4 DEF Count, Width
      <4>2. apbState'[key] = Tally(c, ApbWindow)
        BY <3>2, <3>4 DEF TypeOK, Keys
      <4>3. Count(rule, key)' = Tally(c, ApbWindow)
        BY <3>4, <4>2 DEF Count
      <4>4. QED
        BY <2>1, <3>3, <3>4, <4>1, <4>3 DEF Counts
    <3>5. CASE ~(rule = "burst" /\ key = Kind.badge)
      <4>1. InSeries(rule, key)' = InSeries(rule, key)
        BY <3>3, <3>5
      <4>2. Count(rule, key)' = Count(rule, key)
        BY <2>1, <3>2, <3>5 DEF Count, Keys, TypeOK
      <4>3. QED
        BY <2>1, <3>3, <4>1, <4>2 DEF Rests
    <3>6. QED
      BY <3>4, <3>5
  <2>3. CASE Kind.status # "REJECTED_APB"
    BY <1>4, <2>1, <2>3, IdleStep DEF BurstRule, NotConcerned, historyVars
  <2>4. QED
    BY <2>2, <2>3
<1>5. CASE TailgateRule
  <2>1. /\ pc = "tailgate" /\ events' = events /\ run' = run /\ apbState' = apbState
    BY <1>5 DEF TailgateRule, streamVars
  <2>2. CASE IsEntry
    <3> DEFINE c == tailgateState[Kind.gate]
    <3>1. Fires(c, TailgateWindow) \in BOOLEAN
      BY DEF Fires
    <3>2. /\ Judge("tailgate", Fires(c, TailgateWindow))
          /\ tailgateState' = [tailgateState EXCEPT ![Kind.gate] = Tally(c, TailgateWindow)]
      BY <1>5, <2>2 DEF TailgateRule
    <3>3. /\ SeriesKept(rule, key) /\ judged'[Last] = NewJudgement("tailgate")
          /\ Last \in fired' <=> Fires(c, TailgateWindow)
          /\ InSeries(rule, key)' =
               IF "tailgate" = rule /\ key = IF rule = "burst" THEN Kind.badge ELSE Kind.gate
               THEN InSeries(rule, key) \cup {Last} ELSE InSeries(rule, key)
      BY <2>1, <3>1, <3>2, JudgeStep DEF Rules
    <3>4. CASE rule = "tailgate" /\ key = Kind.gate
      <4>1. Count(rule, key) = c /\ Width(rule) = TailgateWindow
        BY <3>4 DEF Count, Width
      <4>2. tailgateState'[key] = Tally(c, TailgateWindow)
        BY <3>2, <3>4 DEF TypeOK, Keys
      <4>3. Count(rule, key)' = Tally(c, TailgateWindow)
        BY <3>4, <4>2 DEF Count
      <4>4. QED
        BY <2>1, <3>3, <3>4, <4>1, <4>3 DEF Counts
    <3>5. CASE ~(rule = "tailgate" /\ key = Kind.gate)
      <4>1. InSeries(rule, key)' = InSeries(rule, key)
        BY <3>3, <3>5
      <4>2. Count(rule, key)' = Count(rule, key)
        BY <2>1, <3>2, <3>5 DEF Count, Keys, WindowRules, TypeOK
      <4>3. QED
        BY <2>1, <3>3, <4>1, <4>2 DEF Rests
    <3>6. QED
      BY <3>4, <3>5
  <2>3. CASE ~IsEntry
    BY <1>5, <2>1, <2>3, IdleStep DEF TailgateRule, NotConcerned, historyVars
  <2>4. QED
    BY <2>2, <2>3
<1>6. QED
  BY <1>1, <1>2, <1>3, <1>4, <1>5 DEF Next

\* Three things can happen to the counter of an event: it opens a window,
\* it is one more of the window, or it is the third.
LEMMA TallyCases ==
  ASSUME now \in Nat, NEW c \in Counter, NEW window \in Nat
  PROVE  \/ /\ ~Fires(c, window)
            /\ Tally(c, window).count = 1 /\ Tally(c, window).windowAt = now
            /\ c.count = 0 \/ now - c.windowAt > window
         \/ /\ ~Fires(c, window) /\ c.count = 1 /\ now - c.windowAt <= window
            /\ Tally(c, window).count = 2 /\ Tally(c, window).windowAt = c.windowAt
         \/ /\ Fires(c, window) /\ c.count = 2 /\ now - c.windowAt <= window
            /\ Tally(c, window).count = 0
BY DEF Tally, Fires, OpensWindow, Counter, Absent

UpTo(rule, key, j) == {i \in InSeries(rule, key) : i <= j}

Since(rule, key, first) == {i \in InSeries(rule, key) : i >= first}

\* The series of a judgement is the part of its rule's and key's up to it.
LEMMA SeriesIsUpTo ==
  ASSUME TypeOK, NEW j \in Windowed
  PROVE  /\ judged[j].rule \in WindowRules /\ KeyOf(j) \in Keys(judged[j].rule)
         /\ j \in InSeries(judged[j].rule, KeyOf(j))
         /\ Series(j) = UpTo(judged[j].rule, KeyOf(j), j)
         /\ Window(j) = Width(judged[j].rule)
<1>1. j \in 1..Len(judged) /\ Len(judged) \in Nat /\ DOMAIN judged = 1..Len(judged)
  BY JudgedIsSeq DEF Windowed
<1>2. events[judged[j].msg] \in [kind : EventKinds, stamp : 0..now]
  <2>1. judged[j].msg \in 1..Len(events)
    BY <1>1, JudgedIsSeq
  <2>2. QED
    BY <2>1, ElementOfSeq DEF TypeOK
<1>3. KindOf(j) \in EventKinds
  BY <1>2 DEF KindOf
<1>4. KeyOf(j) \in Keys(judged[j].rule) /\ judged[j].rule \in WindowRules
  BY <1>3 DEF KeyOf, Keys, Badges, GateKeys, WindowRules, Windowed
<1>5. Series(j) = UpTo(judged[j].rule, KeyOf(j), j)
  BY <1>1 DEF Series, SameSeries, UpTo, InSeries
<1>6. QED
  BY <1>1, <1>4, <1>5 DEF InSeries, Window, Width

\* What a step that counts an event adds to the series.
LEMMA CountsAdds ==
  ASSUME TypeOK, NEW rule \in WindowRules, NEW key \in Keys(rule),
         SeriesKept(rule, key), Counts(rule, key)
  PROVE  /\ Last \in Nat /\ Last \notin InSeries(rule, key) /\ Last \in InSeries(rule, key)'
         /\ \A i \in InSeries(rule, key) : i \in Nat /\ i < Last
         /\ (InSeries(rule, key)') = InSeries(rule, key) \cup {Last}
         /\ Cardinality(InSeries(rule, key)') = Cardinality(InSeries(rule, key)) + 1
         /\ IsFiniteSet(InSeries(rule, key)')
<1>1. /\ InSeries(rule, key) \subseteq 1..Len(judged) /\ Len(judged) \in Nat
      /\ IsFiniteSet(InSeries(rule, key))
  BY SeriesIsFinite
<1>2. (InSeries(rule, key)') = InSeries(rule, key) \cup {Last}
  BY DEF Counts
<1>3. Last \in Nat /\ \A i \in InSeries(rule, key) : i \in Nat /\ i < Last
  BY <1>1 DEF Last
<1>4. Last \notin InSeries(rule, key)
  BY <1>3
<1>5. QED
  BY <1>1, <1>2, <1>3, <1>4, FS_AddElement

\* What was judged up to an event, and what of it fired, never changes.
LEMMA UpToKept ==
  ASSUME TypeOK, NEW rule \in WindowRules, NEW key \in Keys(rule), SeriesKept(rule, key),
         Rests(rule, key) \/ Restarts(rule, key) \/ Counts(rule, key),
         NEW j \in InSeries(rule, key)
  PROVE  /\ {i \in InSeries(rule, key)' : i <= j} = UpTo(rule, key, j)
         /\ fired' \cap UpTo(rule, key, j) = fired \cap UpTo(rule, key, j)
<1>1. CASE Rests(rule, key) \/ Restarts(rule, key)
  BY <1>1 DEF Rests, Restarts, UpTo, SeriesKept
<1>2. CASE Counts(rule, key)
  <2>1. /\ (InSeries(rule, key)') = InSeries(rule, key) \cup {Last} /\ Last \in Nat
        /\ \A i \in InSeries(rule, key) : i \in Nat /\ i < Last
    BY <1>2, CountsAdds
  <2>2. ~(Last <= j)
    BY <2>1
  <2>3. QED
    BY <2>1, <2>2 DEF UpTo, SeriesKept
<1>3. QED
  BY <1>1, <1>2

-----------------------------------------------------------------------------
(* No event counts towards two alerts. *)

\* What a counter holds has not been used for an alert.
Balance(rule, key) ==
  3 * Cardinality(fired \cap InSeries(rule, key)) + Count(rule, key).count
    <= Cardinality(InSeries(rule, key))

CountedOnce(rule, key) ==
  \A j \in InSeries(rule, key) :
    3 * Cardinality(fired \cap UpTo(rule, key, j)) <= Cardinality(UpTo(rule, key, j))

BalanceInv ==
  \A rule \in WindowRules : \A key \in Keys(rule) : Balance(rule, key) /\ CountedOnce(rule, key)

LEMMA BalanceKept ==
  ASSUME TypeOK, NEW rule \in WindowRules, NEW key \in Keys(rule), SeriesKept(rule, key),
         Rests(rule, key) \/ Restarts(rule, key) \/ Counts(rule, key),
         Balance(rule, key)
  PROVE  Balance(rule, key)'
<1> DEFINE S == InSeries(rule, key)
           F == fired \cap S
           c == Count(rule, key)
<1>1. /\ IsFiniteSet(S) /\ IsFiniteSet(F) /\ Cardinality(S) \in Nat /\ Cardinality(F) \in Nat
  BY SeriesIsFinite
<1>2. c \in Counter /\ c.count \in Nat /\ now \in Nat /\ Width(rule) \in Nat
  BY CountIsCounter, Bounds, SMTT(30) DEF Counter, Width, TypeOK
<1>3. 3 * Cardinality(F) + c.count <= Cardinality(S)
  BY DEF Balance
<1>4. CASE Rests(rule, key)
  <2>1. (fired \cap InSeries(rule, key))' = F /\ InSeries(rule, key)' = S /\ Count(rule, key)' = c
    BY <1>4 DEF Rests, SeriesKept
  <2>2. QED
    BY <1>3, <2>1 DEF Balance
<1>5. CASE Restarts(rule, key)
  <2>1. /\ (fired \cap InSeries(rule, key))' = F /\ InSeries(rule, key)' = S
        /\ Count(rule, key)' = Absent
    BY <1>5 DEF Restarts, SeriesKept
  <2>2. 3 * Cardinality(F) + 0 <= Cardinality(S)
    <3> HIDE DEF F, S, c
    <3>1. QED
      BY <1>1, <1>2, <1>3
  <2>3. (Count(rule, key)').count = 0
    BY <2>1 DEF Absent
  <2>4. QED
    BY <2>1, <2>2, <2>3 DEF Balance
<1>6. CASE Counts(rule, key)
  <2>1. Cardinality(InSeries(rule, key)') = Cardinality(S) + 1 /\ Last \notin S
    BY <1>6, CountsAdds
  <2>2. (fired \cap InSeries(rule, key))' = IF Fires(c, Width(rule)) THEN F \cup {Last} ELSE F
    BY <1>6 DEF Counts, SeriesKept
  <2>3. Cardinality((fired \cap InSeries(rule, key))')
          = IF Fires(c, Width(rule)) THEN Cardinality(F) + 1 ELSE Cardinality(F)
    <3>1. Last \notin F
      BY <2>1
    <3>2. Cardinality(F \cup {Last}) = Cardinality(F) + 1
      BY <1>1, <3>1, FS_AddElement
    <3>3. QED
      BY <2>2, <3>2
  <2>4. Count(rule, key)' = Tally(c, Width(rule))
    BY <1>6 DEF Counts
  <2>5. \/ ~Fires(c, Width(rule)) /\ Tally(c, Width(rule)).count = 1
        \/ ~Fires(c, Width(rule)) /\ Tally(c, Width(rule)).count = 2 /\ c.count = 1
        \/ Fires(c, Width(rule)) /\ Tally(c, Width(rule)).count = 0 /\ c.count = 2
    BY <1>2, TallyCases
  <2>6. 3 * Cardinality((fired \cap InSeries(rule, key))') + Tally(c, Width(rule)).count
          <= Cardinality(InSeries(rule, key)')
    <3> HIDE DEF F, S, c
    <3>1. QED
      BY <1>1, <1>2, <1>3, <2>1, <2>3, <2>5 DEF S
  <2>7. 3 * Cardinality((fired \cap InSeries(rule, key))') + (Count(rule, key)').count
          <= Cardinality(InSeries(rule, key)')
    BY <2>4, <2>6
  <2>8. QED
    BY <2>7 DEF Balance
<1>7. QED
  BY <1>4, <1>5, <1>6

LEMMA CountedOnceKept ==
  ASSUME TypeOK, NEW rule \in WindowRules, NEW key \in Keys(rule), SeriesKept(rule, key),
         Rests(rule, key) \/ Restarts(rule, key) \/ Counts(rule, key),
         CountedOnce(rule, key), Balance(rule, key)', Count(rule, key)' \in Counter'
  PROVE  CountedOnce(rule, key)'
<1>1. ASSUME NEW j \in InSeries(rule, key)
      PROVE  /\ {i \in InSeries(rule, key)' : i <= j} = UpTo(rule, key, j)
             /\ fired' \cap UpTo(rule, key, j) = fired \cap UpTo(rule, key, j)
  BY UpToKept
<1>2. ASSUME NEW j \in InSeries(rule, key)
      PROVE  3 * Cardinality((fired \cap UpTo(rule, key, j))') <= Cardinality(UpTo(rule, key, j)')
  <2>1. UpTo(rule, key, j)' = UpTo(rule, key, j)
    BY <1>1 DEF UpTo
  <2>2. (fired \cap UpTo(rule, key, j))' = fired \cap UpTo(rule, key, j)
    BY <1>1, <2>1
  <2>3. QED
    BY <2>1, <2>2 DEF CountedOnce
<1>3. ASSUME Counts(rule, key), NEW j, j = Last
      PROVE  3 * Cardinality((fired \cap UpTo(rule, key, j))') <= Cardinality(UpTo(rule, key, j)')
  <2>1. UpTo(rule, key, j)' = InSeries(rule, key)'
    BY <1>3, CountsAdds DEF UpTo
  <2>2. (fired \cap UpTo(rule, key, j))' = (fired \cap InSeries(rule, key))'
    BY <2>1
  <2>3. /\ IsFiniteSet(InSeries(rule, key)') /\ Cardinality(InSeries(rule, key)') \in Nat
        /\ Cardinality((fired \cap InSeries(rule, key))') \in Nat
    BY <1>3, CountsAdds, FS_Intersection, FS_CardinalityType
  <2>4. Count(rule, key)'.count \in Nat
    BY DEF Counter
  <2>5. 3 * Cardinality((fired \cap InSeries(rule, key))') <= Cardinality(InSeries(rule, key)')
    BY <2>3, <2>4 DEF Balance
  <2>6. QED
    BY <2>1, <2>2, <2>5
<1>4. \A j \in InSeries(rule, key)' : j \in InSeries(rule, key) \/ (Counts(rule, key) /\ j = Last)
  BY DEF Rests, Restarts, Counts
<1>5. QED
  BY <1>2, <1>3, <1>4 DEF CountedOnce

LEMMA NothingAtFirst ==
  ASSUME Init, NEW rule \in WindowRules, NEW key \in Keys(rule)
  PROVE  InSeries(rule, key) = {} /\ Count(rule, key).count = 0
<1>1. InSeries(rule, key) = {}
  BY DEF Init, InSeries
<1>2. Count(rule, key) = Absent
  BY DEF Init, NoCounters, Count, WindowRules, Keys
<1>3. QED
  BY <1>1, <1>2 DEF Absent

LEMMA BalanceInit == Init => BalanceInv
<1> SUFFICES ASSUME Init, NEW rule \in WindowRules, NEW key \in Keys(rule)
             PROVE  Balance(rule, key) /\ CountedOnce(rule, key)
  BY DEF BalanceInv
<1>1. InSeries(rule, key) = {} /\ Count(rule, key).count = 0
  BY NothingAtFirst
<1>2. Cardinality({}) = 0 /\ fired \cap {} = {}
  BY FS_EmptySet
<1>3. QED
  BY <1>1, <1>2 DEF Balance, CountedOnce

LEMMA BalanceStep == TypeOK /\ TypeOK' /\ BalanceInv /\ [Next]_vars => BalanceInv'
<1> SUFFICES ASSUME TypeOK, TypeOK', BalanceInv, [Next]_vars,
                    NEW rule \in WindowRules, NEW key \in Keys(rule)
             PROVE  Balance(rule, key)' /\ CountedOnce(rule, key)'
  <2>1. \A rule \in WindowRules : Keys(rule)' = Keys(rule)
    BY DEF Keys, Badges, GateKeys
  <2>2. QED
    BY <2>1 DEF BalanceInv, WindowRules
<1>1. /\ SeriesKept(rule, key)
      /\ Rests(rule, key) \/ Restarts(rule, key) \/ Counts(rule, key)
  BY SeriesStep
<1>2. Balance(rule, key) /\ CountedOnce(rule, key)
  BY DEF BalanceInv
<1>3. Balance(rule, key)'
  BY <1>1, <1>2, BalanceKept
<1>4. (Count(rule, key)') \in (Counter')
  BY DEF TypeOK, WindowRules, Keys, Count, Counter
<1>5. QED
  BY <1>1, <1>2, <1>3, <1>4, CountedOnceKept

LEMMA BalanceIsOnce == TypeOK /\ BalanceInv => EventsCountOnce
<1> SUFFICES ASSUME TypeOK, BalanceInv, NEW j \in Windowed
             PROVE  3 * Cardinality(fired \cap Series(j)) <= Cardinality(Series(j))
  BY DEF EventsCountOnce
<1>1. /\ judged[j].rule \in WindowRules /\ KeyOf(j) \in Keys(judged[j].rule)
      /\ j \in InSeries(judged[j].rule, KeyOf(j))
      /\ Series(j) = UpTo(judged[j].rule, KeyOf(j), j)
  BY SeriesIsUpTo
<1>2. QED
  BY <1>1 DEF BalanceInv, CountedOnce

\* No event is counted towards two alerts (main.go:151-152): the alerts of a
\* badge or gate are at most a third of what was judged about it.
THEOREM AlertsUseEventsOnce == Spec => []EventsCountOnce
<1>1. Init => BalanceInv
  BY BalanceInit
<1>2. TypeOK /\ TypeOK' /\ BalanceInv /\ [Next]_vars => BalanceInv'
  BY BalanceStep
<1>3. TypeOK /\ BalanceInv => EventsCountOnce
  BY BalanceIsOnce
<1>4. QED
  BY TypeCorrect, <1>1, <1>2, <1>3, PTL DEF Spec

-----------------------------------------------------------------------------
(* Alerts are justified. *)

\* A counter above zero began with an event of its series.
Begun(rule, key) ==
  Count(rule, key).count > 0 =>
    \E first \in InSeries(rule, key) :
      /\ judged[first].at = Count(rule, key).windowAt /\ judged[first].run = run
      /\ Cardinality(Since(rule, key, first)) = Count(rule, key).count

\* A judgement that came out positive is the last of three within the window.
Backed(rule, key) ==
  \A j \in fired \cap InSeries(rule, key) : \E first \in UpTo(rule, key, j) :
    /\ Cardinality({i \in UpTo(rule, key, j) : i >= first}) = 3
    /\ judged[first].run = judged[j].run
    /\ judged[j].at - judged[first].at <= Width(rule)

BackedInv ==
  \A rule \in WindowRules : \A key \in Keys(rule) : Begun(rule, key) /\ Backed(rule, key)

LEMMA SinceGrows ==
  ASSUME TypeOK, NEW rule \in WindowRules, NEW key \in Keys(rule),
         SeriesKept(rule, key), Counts(rule, key), NEW first \in InSeries(rule, key)
  PROVE  /\ {i \in InSeries(rule, key)' : i >= first} = Since(rule, key, first) \cup {Last}
         /\ Cardinality({i \in InSeries(rule, key)' : i >= first})
              = Cardinality(Since(rule, key, first)) + 1
         /\ Cardinality(Since(rule, key, first)) \in Nat
<1>1. /\ (InSeries(rule, key)') = InSeries(rule, key) \cup {Last}
      /\ Last \notin InSeries(rule, key) /\ Last \in Nat /\ first \in Nat /\ first < Last
  BY CountsAdds
<1>2. {i \in InSeries(rule, key)' : i >= first} = Since(rule, key, first) \cup {Last}
  BY <1>1 DEF Since
<1>3. /\ IsFiniteSet(Since(rule, key, first)) /\ Cardinality(Since(rule, key, first)) \in Nat
      /\ Last \notin Since(rule, key, first)
  BY <1>1, SeriesIsFinite DEF Since
<1>4. QED
  BY <1>2, <1>3, FS_AddElement

LEMMA SinceLast ==
  ASSUME TypeOK, NEW rule \in WindowRules, NEW key \in Keys(rule),
         SeriesKept(rule, key), Counts(rule, key)
  PROVE  /\ {i \in InSeries(rule, key)' : i >= Last} = {Last}
         /\ Cardinality({i \in InSeries(rule, key)' : i >= Last}) = 1
<1>1. /\ (InSeries(rule, key)') = InSeries(rule, key) \cup {Last} /\ Last \in Nat
      /\ \A i \in InSeries(rule, key) : i \in Nat /\ i < Last
  BY CountsAdds
<1>2. {i \in InSeries(rule, key)' : i >= Last} = {Last}
  BY <1>1
<1>3. QED
  BY <1>2, FS_Singleton

LEMMA BegunKept ==
  ASSUME TypeOK, NEW rule \in WindowRules, NEW key \in Keys(rule), SeriesKept(rule, key),
         Rests(rule, key) \/ Restarts(rule, key) \/ Counts(rule, key),
         Begun(rule, key)
  PROVE  Begun(rule, key)'
<1>1. CASE Rests(rule, key)
  BY <1>1 DEF Begun, Rests, SeriesKept, Since
<1>2. CASE Restarts(rule, key)
  BY <1>2 DEF Begun, Restarts, Absent
<1>3. CASE Counts(rule, key)
  <2> DEFINE c == Count(rule, key)
             t == Tally(c, Width(rule))
  <2>1. /\ c \in Counter /\ now \in Nat /\ Width(rule) \in Nat
        /\ Count(rule, key)' = t /\ run' = run
        /\ judged'[Last].at = now /\ judged'[Last].run = run
        /\ Last \in InSeries(rule, key)'
    <3>1. c \in Counter /\ now \in Nat /\ Width(rule) \in Nat
      BY CountIsCounter, WidthIsNat, Bounds, SMTT(30) DEF TypeOK
    <3>2. judged'[Last].at = now /\ judged'[Last].run = run
      BY <1>3 DEF Counts, NewJudgement
    <3>3. Last \in InSeries(rule, key)'
      BY <1>3, CountsAdds
    <3>4. QED
      BY <1>3, <3>1, <3>2, <3>3 DEF Counts
  <2>2. CASE t.count = 1 /\ t.windowAt = now
    <3>1. PICK f : f = Last
      OBVIOUS
    <3>2. /\ f \in InSeries(rule, key)' /\ judged'[f].at = now /\ judged'[f].run = run
          /\ Cardinality({i \in InSeries(rule, key)' : i >= f}) = 1
      BY <1>3, <2>1, <3>1, SinceLast
    <3>3. Cardinality(Since(rule, key, f)') = 1
      BY <3>2 DEF Since
    <3>4. (Count(rule, key)').count = 1 /\ (Count(rule, key)').windowAt = now
      BY <2>1, <2>2
    <3>5. QED
      BY <2>1, <3>2, <3>3, <3>4 DEF Begun
  <2>3. CASE c.count = 1 /\ t.count = 2 /\ t.windowAt = c.windowAt
    <3>1. PICK f \in InSeries(rule, key) :
            /\ judged[f].at = c.windowAt /\ judged[f].run = run
            /\ Cardinality(Since(rule, key, f)) = c.count
      BY <2>3 DEF Begun
    <3>2. Cardinality({i \in InSeries(rule, key)' : i >= f}) = 2
      BY <1>3, <2>3, <3>1, SinceGrows
    <3>3. Cardinality(Since(rule, key, f)') = 2
      BY <3>2 DEF Since
    <3>4. f \in InSeries(rule, key)' /\ judged'[f] = judged[f]
      BY <1>3 DEF Counts, SeriesKept
    <3>5. QED
      BY <2>1, <2>3, <3>1, <3>3, <3>4 DEF Begun
  <2>4. CASE t.count = 0
    BY <2>1, <2>4 DEF Begun
  <2>5. QED
    BY <2>1, <2>2, <2>3, <2>4, TallyCases
<1>4. QED
  BY <1>1, <1>2, <1>3

LEMMA BackedKept ==
  ASSUME TypeOK, NEW rule \in WindowRules, NEW key \in Keys(rule), SeriesKept(rule, key),
         Rests(rule, key) \/ Restarts(rule, key) \/ Counts(rule, key),
         Begun(rule, key), Backed(rule, key)
  PROVE  Backed(rule, key)'
<1> DEFINE Behind(j, f) ==
      /\ Cardinality({i \in UpTo(rule, key, j) : i >= f}) = 3
      /\ judged[f].run = judged[j].run
      /\ judged[j].at - judged[f].at <= Width(rule)
<1>1. ASSUME NEW j \in fired' \cap InSeries(rule, key)
      PROVE  \E f \in UpTo(rule, key, j)' : Behind(j, f)'
  <2>1. UpTo(rule, key, j)' = UpTo(rule, key, j) /\ j \in fired
    BY UpToKept DEF UpTo, SeriesKept
  <2>2. PICK f \in UpTo(rule, key, j) : Behind(j, f)
    BY <2>1 DEF Backed
  <2>3. judged'[j] = judged[j] /\ judged'[f] = judged[f]
    BY DEF SeriesKept, UpTo
  <2>4. QED
    BY <2>1, <2>2, <2>3 DEF Width
<1>2. ASSUME Counts(rule, key), NEW j, j = Last, j \in fired'
      PROVE  \E f \in UpTo(rule, key, j)' : Behind(j, f)'
  <2> DEFINE c == Count(rule, key)
  <2>1. c \in Counter /\ now \in Nat /\ Width(rule) \in Nat
    BY CountIsCounter, WidthIsNat, Bounds, SMTT(30) DEF TypeOK
  <2>2. Fires(c, Width(rule))
    BY <1>2 DEF Counts
  <2>3. c.count = 2 /\ now - c.windowAt <= Width(rule)
    BY <2>1, <2>2, TallyCases
  <2>4. PICK f \in InSeries(rule, key) :
          /\ judged[f].at = c.windowAt /\ judged[f].run = run
          /\ Cardinality(Since(rule, key, f)) = c.count
    BY <2>3 DEF Begun
  <2>5. /\ \A i \in InSeries(rule, key)' : i <= j
        /\ f \in InSeries(rule, key)'
    BY <1>2, CountsAdds
  <2>6. UpTo(rule, key, j)' = InSeries(rule, key)'
    BY <2>5 DEF UpTo
  <2>7. Cardinality({i \in InSeries(rule, key)' : i >= f}) = 3
    BY <1>2, <2>3, <2>4, SinceGrows
  <2>8. Cardinality({i \in UpTo(rule, key, j) : i >= f}') = 3
    BY <2>6, <2>7
  <2>9. /\ judged'[j].at = now /\ judged'[j].run = run /\ judged'[f] = judged[f]
    BY <1>2 DEF Counts, NewJudgement, SeriesKept
  <2>10. Behind(j, f)'
    BY <2>3, <2>4, <2>8, <2>9 DEF Width
  <2>11. QED
    BY <2>5, <2>6, <2>10
<1>3. \A j \in InSeries(rule, key)' : j \in InSeries(rule, key) \/ (Counts(rule, key) /\ j = Last)
  BY DEF Rests, Restarts, Counts
<1>4. QED
  BY <1>1, <1>2, <1>3 DEF Backed

LEMMA BackedInit == Init => BackedInv
<1> SUFFICES ASSUME Init, NEW rule \in WindowRules, NEW key \in Keys(rule)
             PROVE  Begun(rule, key) /\ Backed(rule, key)
  BY DEF BackedInv
<1>1. QED
  BY NothingAtFirst DEF Begun, Backed

LEMMA BackedStep == TypeOK /\ BackedInv /\ [Next]_vars => BackedInv'
<1> SUFFICES ASSUME TypeOK, BackedInv, [Next]_vars,
                    NEW rule \in WindowRules, NEW key \in Keys(rule)
             PROVE  Begun(rule, key)' /\ Backed(rule, key)'
  <2>1. \A rule \in WindowRules : Keys(rule)' = Keys(rule)
    BY DEF Keys, Badges, GateKeys
  <2>2. QED
    BY <2>1 DEF BackedInv, WindowRules
<1>1. /\ SeriesKept(rule, key)
      /\ Rests(rule, key) \/ Restarts(rule, key) \/ Counts(rule, key)
  BY SeriesStep
<1>2. Begun(rule, key) /\ Backed(rule, key)
  BY DEF BackedInv
<1>3. QED
  BY <1>1, <1>2, BegunKept, BackedKept

LEMMA BackedIsBacked == TypeOK /\ BackedInv => AlertsAreBacked
<1> SUFFICES ASSUME TypeOK, BackedInv, NEW j \in fired \cap Windowed
             PROVE  \E n \in 3..Cardinality(Series(j)) : WithinWindow(j, n)
  BY DEF AlertsAreBacked
<1> DEFINE rule == judged[j].rule
           key == KeyOf(j)
<1>1. /\ rule \in WindowRules /\ key \in Keys(rule) /\ j \in InSeries(rule, key)
      /\ Series(j) = UpTo(rule, key, j) /\ Window(j) = Width(rule)
  BY SeriesIsUpTo
<1>2. PICK f \in UpTo(rule, key, j) :
        /\ Cardinality({i \in UpTo(rule, key, j) : i >= f}) = 3
        /\ judged[f].run = judged[j].run
        /\ judged[j].at - judged[f].at <= Width(rule)
  BY <1>1 DEF BackedInv, Backed
<1>3. IsFiniteSet(Series(j)) /\ Cardinality(Series(j)) \in Nat
  <2>1. Series(j) \subseteq InSeries(rule, key)
    BY <1>1 DEF UpTo
  <2>2. QED
    BY <2>1, SeriesIsFinite
<1>4. /\ Cardinality({i \in Series(j) : i >= f}) <= Cardinality(Series(j))
      /\ Cardinality({i \in Series(j) : i >= f}) \in Nat
  <2>1. {i \in Series(j) : i >= f} \in SUBSET Series(j)
    OBVIOUS
  <2>2. QED
    BY <1>3, <2>1, FS_Subset, FS_CardinalityType
<1>5. WithinWindow(j, Cardinality({i \in Series(j) : i >= f}))
  BY <1>1, <1>2 DEF WithinWindow
<1>6. Cardinality({i \in Series(j) : i >= f}) \in 3..Cardinality(Series(j))
  BY <1>1, <1>2, <1>3, <1>4
<1>7. QED
  BY <1>5, <1>6

\* A burst or tailgating alert is only raised for three events of that badge
\* or gate judged by one process within the window.
THEOREM AlertsHaveThreeEvents == Spec => []AlertsAreBacked
<1>1. Init => BackedInv
  BY BackedInit
<1>2. TypeOK /\ BackedInv /\ [Next]_vars => BackedInv'
  BY BackedStep
<1>3. TypeOK /\ BackedInv => AlertsAreBacked
  BY BackedIsBacked
<1>4. QED
  BY TypeCorrect, <1>1, <1>2, <1>3, PTL DEF Spec

-----------------------------------------------------------------------------
(* Four events in a row are noticed. *)

\* Nothing fired since first, all of it within the window.
Quiet(rule, key, first) ==
  \A k \in Since(rule, key, first) :
    k \notin fired /\ judged[k].at - judged[first].at <= Width(rule)

\* Where the counter stands n events after t, when none of them fired: one
\* window may have ended with the first of them, but no other one since.
Stands(c, n, t) ==
  \/ n = 1 /\ (c.count = 2 \/ (c.count = 1 /\ c.windowAt = t))
  \/ n = 2 /\ ((c.count = 2 /\ c.windowAt = t) \/ (c.count = 1 /\ c.windowAt >= t))
  \/ n = 3 /\ c.count = 2 /\ c.windowAt >= t

Watched(rule, key) ==
  \A first \in InSeries(rule, key) :
    judged[first].run = run /\ Quiet(rule, key, first) =>
      Stands(Count(rule, key), Cardinality(Since(rule, key, first)), judged[first].at)

Noticed(rule, key) ==
  \A j \in InSeries(rule, key) : \A first \in UpTo(rule, key, j) :
    /\ Cardinality({i \in UpTo(rule, key, j) : i >= first}) = 4
    /\ judged[first].run = judged[j].run
    /\ judged[j].at - judged[first].at <= Width(rule)
    => \E i \in UpTo(rule, key, j) \cap fired : Cardinality({k \in UpTo(rule, key, j) : k >= i}) <= 4

NoticedInv ==
  \A rule \in WindowRules : \A key \in Keys(rule) : Watched(rule, key) /\ Noticed(rule, key)

LEMMA SeriesTimes ==
  ASSUME TypeOK, NEW rule, NEW key, NEW i \in InSeries(rule, key)
  PROVE  judged[i].at \in Nat /\ judged[i].at <= now /\ judged[i].run \in 0..run
<1>1. i \in 1..Len(judged)
  BY JudgedIsSeq DEF InSeries
<1>2. judged[i] \in Judgement
  BY <1>1, JudgedIsSeq
<1>3. now \in Nat
  BY Bounds DEF TypeOK
<1>4. QED
  BY <1>2, <1>3 DEF Judgement

\* One more event, which does not fire, moves the counter on; a fourth fires.
LEMMA StandsOn ==
  ASSUME now \in Nat, NEW c \in Counter, NEW window \in Nat, NEW n \in Nat, NEW t \in Nat,
         t <= now, now - t <= window, Stands(c, n, t)
  PROVE  /\ ~Fires(c, window) => Stands(Tally(c, window), n + 1, t)
         /\ n = 3 => Fires(c, window)
<1> DEFINE s == Tally(c, window)
<1>1. c.count \in 0..2 /\ c.windowAt \in 0..now
  BY DEF Counter
<1>2. \/ /\ ~Fires(c, window) /\ s.count = 1 /\ s.windowAt = now
         /\ c.count = 0 \/ now - c.windowAt > window
      \/ /\ ~Fires(c, window) /\ c.count = 1 /\ now - c.windowAt <= window
         /\ s.count = 2 /\ s.windowAt = c.windowAt
      \/ Fires(c, window)
  BY TallyCases
<1> HIDE DEF s
<1>3. ~Fires(c, window) => Stands(s, n + 1, t)
  <2>1. CASE n = 1
    BY <1>1, <1>2, <2>1 DEF Stands
  <2>2. CASE n = 2
    BY <1>1, <1>2, <2>2 DEF Stands
  <2>3. CASE n = 3
    BY <1>1, <1>2, <2>3 DEF Stands
  <2>4. QED
    BY <2>1, <2>2, <2>3 DEF Stands
<1>4. n = 3 => Fires(c, window)
  BY <1>1, <1>2 DEF Stands
<1>5. QED
  BY <1>3, <1>4 DEF s

LEMMA WatchedKept ==
  ASSUME TypeOK, NEW rule \in WindowRules, NEW key \in Keys(rule), SeriesKept(rule, key),
         Rests(rule, key) \/ Restarts(rule, key) \/ Counts(rule, key),
         Watched(rule, key)
  PROVE  Watched(rule, key)'
<1> DEFINE c == Count(rule, key)
<1>1. CASE Rests(rule, key)
  <2>1. \A first : Since(rule, key, first)' = Since(rule, key, first)
    BY <1>1 DEF Since, Rests
  <2>2. ASSUME NEW first \in InSeries(rule, key)
        PROVE  /\ judged'[first] = judged[first]
               /\ Quiet(rule, key, first)' => Quiet(rule, key, first)
    BY <2>1 DEF Quiet, SeriesKept, Since, Width
  <2>3. ASSUME NEW first \in InSeries(rule, key)', judged'[first].run = run',
               Quiet(rule, key, first)'
        PROVE  Stands(Count(rule, key), Cardinality(Since(rule, key, first)), judged[first].at)'
    <3>1. /\ first \in InSeries(rule, key) /\ judged'[first] = judged[first] /\ run' = run
          /\ Quiet(rule, key, first) /\ Count(rule, key)' = Count(rule, key)
          /\ Since(rule, key, first)' = Since(rule, key, first)
      BY <1>1, <2>1, <2>2, <2>3 DEF Rests
    <3>2. Stands(Count(rule, key), Cardinality(Since(rule, key, first)), judged[first].at)
      BY <2>3, <3>1 DEF Watched
    <3>3. QED
      BY <3>1, <3>2 DEF Stands
  <2>4. QED
    BY <2>3 DEF Watched
<1>2. CASE Restarts(rule, key)
  <2>1. ASSUME NEW first \in InSeries(rule, key)
        PROVE  judged'[first].run # run'
    <3>1. run \in Nat /\ run' = run + 1 /\ judged'[first] = judged[first]
      BY <1>2 DEF Restarts, SeriesKept, TypeOK
    <3>2. judged[first].run \in 0..run
      BY SeriesTimes
    <3>3. QED
      BY <3>1, <3>2
  <2>2. QED
    BY <1>2, <2>1 DEF Watched, Restarts
<1>3. CASE Counts(rule, key)
  <2>1. c \in Counter /\ now \in Nat /\ Width(rule) \in Nat
    BY CountIsCounter, WidthIsNat, Bounds DEF TypeOK
  <2>2. /\ judged'[Last].at = now /\ judged'[Last].run = run
        /\ Last \in fired' <=> Fires(c, Width(rule))
        /\ Count(rule, key)' = Tally(c, Width(rule)) /\ run' = run
    BY <1>3 DEF Counts, NewJudgement
  <2>3. ASSUME NEW first \in InSeries(rule, key), judged'[first].run = run',
               Quiet(rule, key, first)'
        PROVE  Stands(Count(rule, key), Cardinality(Since(rule, key, first)), judged[first].at)'
    <3> DEFINE n == Cardinality(Since(rule, key, first))
               t == judged[first].at
    <3>1. /\ Since(rule, key, first)' = Since(rule, key, first) \cup {Last}
          /\ Cardinality(Since(rule, key, first)') = n + 1 /\ n \in Nat
      BY <1>3, SinceGrows DEF Since
    <3>2. \A k \in Since(rule, key, first) \cup {Last} :
            k \notin fired' /\ judged'[k].at - judged'[first].at <= Width(rule)
      BY <2>3, <3>1 DEF Quiet, Width
    <3>3. /\ judged'[first] = judged[first]
          /\ \A k \in Since(rule, key, first) : judged'[k] = judged[k] /\ (k \in fired' <=> k \in fired)
      BY DEF SeriesKept, Since
    <3>4. Quiet(rule, key, first) /\ judged[first].run = run
      BY <2>2, <2>3, <3>2, <3>3 DEF Quiet
    <3>5. ~Fires(c, Width(rule)) /\ now - t <= Width(rule)
      BY <2>2, <3>2, <3>3
    <3>6. t \in Nat /\ t <= now
      BY SeriesTimes
    <3>7. Stands(c, n, t)
      BY <3>4 DEF Watched
    <3>8. Stands(Tally(c, Width(rule)), n + 1, t)
      BY <2>1, <3>1, <3>5, <3>6, <3>7, StandsOn
    <3>9. QED
      BY <2>2, <3>1, <3>3, <3>8 DEF Stands
  <2>4. ASSUME NEW first, first = Last, Quiet(rule, key, first)'
        PROVE  Stands(Count(rule, key), Cardinality(Since(rule, key, first)), judged[first].at)'
    <3>1. Since(rule, key, first)' = {Last} /\ Cardinality(Since(rule, key, first)') = 1
      BY <1>3, <2>4, SinceLast DEF Since
    <3>2. Last \notin fired'
      BY <2>4, <3>1 DEF Quiet
    <3>3. \/ Tally(c, Width(rule)).count = 1 /\ Tally(c, Width(rule)).windowAt = now
          \/ Tally(c, Width(rule)).count = 2
      BY <2>1, <2>2, <3>2, TallyCases
    <3>4. Stands(Tally(c, Width(rule)), 1, now)
      BY <3>3 DEF Stands
    <3>5. QED
      BY <2>2, <2>4, <3>1, <3>4 DEF Stands
  <2>5. \A first \in InSeries(rule, key)' : first \in InSeries(rule, key) \/ first = Last
    BY <1>3 DEF Counts
  <2>6. QED
    BY <2>3, <2>4, <2>5 DEF Watched
<1>4. QED
  BY <1>1, <1>2, <1>3

LEMMA NoticedKept ==
  ASSUME TypeOK, NEW rule \in WindowRules, NEW key \in Keys(rule), SeriesKept(rule, key),
         Rests(rule, key) \/ Restarts(rule, key) \/ Counts(rule, key),
         Watched(rule, key), Noticed(rule, key)
  PROVE  Noticed(rule, key)'
<1> DEFINE Four(j, first) ==
             /\ Cardinality({i \in UpTo(rule, key, j) : i >= first}) = 4
             /\ judged[first].run = judged[j].run
             /\ judged[j].at - judged[first].at <= Width(rule)
           Seen(j) ==
             \E i \in UpTo(rule, key, j) \cap fired :
               Cardinality({k \in UpTo(rule, key, j) : k >= i}) <= 4
<1>1. ASSUME NEW j \in InSeries(rule, key), NEW first \in UpTo(rule, key, j)', Four(j, first)'
      PROVE  Seen(j)'
  <2>1. /\ UpTo(rule, key, j)' = UpTo(rule, key, j)
        /\ fired' \cap UpTo(rule, key, j) = fired \cap UpTo(rule, key, j)
    BY UpToKept DEF UpTo
  <2>2. judged'[j] = judged[j] /\ judged'[first] = judged[first]
    BY <1>1, <2>1 DEF SeriesKept, UpTo
  <2>3. Four(j, first) /\ first \in UpTo(rule, key, j)
    BY <1>1, <2>1, <2>2 DEF Width
  <2>4. Seen(j)
    BY <2>3 DEF Noticed
  <2>5. QED
    BY <2>1, <2>4
<1>2. ASSUME Counts(rule, key), NEW j, j = Last, NEW first \in UpTo(rule, key, j)', Four(j, first)'
      PROVE  Seen(j)'
  <2> DEFINE c == Count(rule, key)
  <2>1. c \in Counter /\ now \in Nat /\ Width(rule) \in Nat
    BY CountIsCounter, WidthIsNat, Bounds, SMTT(30) DEF TypeOK
  <2>2. /\ judged'[Last].at = now /\ judged'[Last].run = run
        /\ Last \in fired' <=> Fires(c, Width(rule))
    BY <1>2 DEF Counts, NewJudgement
  <2>3. /\ (InSeries(rule, key)') = InSeries(rule, key) \cup {Last} /\ Last \in Nat
        /\ \A i \in InSeries(rule, key) : i \in Nat /\ i < Last
        /\ IsFiniteSet(InSeries(rule, key)')
    BY <1>2, CountsAdds
  <2>4. UpTo(rule, key, j)' = InSeries(rule, key)'
    BY <1>2, <2>3 DEF UpTo
  <2>5. Cardinality({i \in InSeries(rule, key)' : i >= first}) = 4
    BY <1>2, <2>4
  <2>6. first \in InSeries(rule, key)
    BY <1>2, <2>3, <2>4, <2>5, SinceLast
  <2>7. /\ {i \in InSeries(rule, key)' : i >= first} = Since(rule, key, first) \cup {Last}
        /\ Cardinality(Since(rule, key, first)) = 3
    BY <1>2, <2>5, <2>6, SinceGrows
  <2>8. judged'[first] = judged[first]
    BY <2>6 DEF SeriesKept
  <2>9. judged[first].run = run /\ now - judged[first].at <= Width(rule)
    BY <1>2, <2>2, <2>8 DEF Width
  <2>10. judged[first].at \in Nat /\ judged[first].at <= now
    BY <2>6, SeriesTimes
  <2>11. CASE Quiet(rule, key, first)
    <3>1. Stands(c, 3, judged[first].at)
      BY <2>6, <2>7, <2>9, <2>11 DEF Watched
    <3>2. Last \in fired'
      BY <2>1, <2>2, <2>9, <2>10, <3>1, StandsOn
    <3>3. Cardinality({k \in InSeries(rule, key)' : k >= Last}) <= 4
      BY <1>2, SinceLast
    <3>4. Last \in UpTo(rule, key, j)' \cap fired'
      BY <2>3, <2>4, <3>2
    <3>5. PICK i : i = Last
      OBVIOUS
    <3>6. i \in UpTo(rule, key, j)' \cap fired' /\ Cardinality({k \in UpTo(rule, key, j)' : k >= i}) <= 4
      BY <2>4, <3>3, <3>4, <3>5
    <3>7. QED
      BY <3>6
  <2>12. CASE ~Quiet(rule, key, first)
    <3>1. ASSUME NEW k \in Since(rule, key, first)
          PROVE  judged[k].at - judged[first].at <= Width(rule)
      <4>1. judged[k].at \in Nat /\ judged[k].at <= now
        BY <3>1, SeriesTimes DEF Since
      <4>2. QED
        BY <2>1, <2>9, <2>10, <4>1
    <3>2. PICK i \in Since(rule, key, first) : i \in fired
      BY <2>12, <3>1 DEF Quiet
    <3>3. i \in InSeries(rule, key) /\ i >= first /\ i \in fired'
      BY <3>2 DEF Since, SeriesKept
    <3>4. i \in Nat /\ first \in Nat
      BY <2>3, <2>6, <3>3
    <3>5. {k \in InSeries(rule, key)' : k >= i} \subseteq {k \in InSeries(rule, key)' : k >= first}
      <4>1. \A k \in InSeries(rule, key)' : k \in Nat
        BY <2>3
      <4>2. \A k \in Nat : k >= i => k >= first
        BY <3>3, <3>4
      <4>3. QED
        BY <4>1, <4>2
    <3>6. IsFiniteSet({k \in InSeries(rule, key)' : k >= first})
      <4>1. {k \in InSeries(rule, key)' : k >= first} \in SUBSET (InSeries(rule, key)')
        OBVIOUS
      <4>2. QED
        BY <2>3, <4>1, FS_Subset
    <3>7. Cardinality({k \in InSeries(rule, key)' : k >= i}) <= 4
      BY <2>5, <3>5, <3>6, FS_Subset
    <3>8. i \in UpTo(rule, key, j)' \cap fired'
      BY <2>3, <2>4, <3>3
    <3>9. QED
      BY <2>4, <3>7, <3>8
  <2>13. QED
    BY <2>11, <2>12
<1>3. \A j \in InSeries(rule, key)' : j \in InSeries(rule, key) \/ (Counts(rule, key) /\ j = Last)
  BY DEF Rests, Restarts, Counts
<1>4. QED
  BY <1>1, <1>2, <1>3 DEF Noticed

LEMMA NoticedInit == Init => NoticedInv
<1> SUFFICES ASSUME Init, NEW rule \in WindowRules, NEW key \in Keys(rule)
             PROVE  Watched(rule, key) /\ Noticed(rule, key)
  BY DEF NoticedInv
<1>1. QED
  BY NothingAtFirst DEF Watched, Noticed

LEMMA NoticedStep == TypeOK /\ NoticedInv /\ [Next]_vars => NoticedInv'
<1> SUFFICES ASSUME TypeOK, NoticedInv, [Next]_vars,
                    NEW rule \in WindowRules, NEW key \in Keys(rule)
             PROVE  Watched(rule, key)' /\ Noticed(rule, key)'
  <2>1. \A rule \in WindowRules : Keys(rule)' = Keys(rule)
    BY DEF Keys, Badges, GateKeys
  <2>2. QED
    BY <2>1 DEF NoticedInv, WindowRules
<1>1. /\ SeriesKept(rule, key)
      /\ Rests(rule, key) \/ Restarts(rule, key) \/ Counts(rule, key)
  BY SeriesStep
<1>2. Watched(rule, key) /\ Noticed(rule, key)
  BY DEF NoticedInv
<1>3. QED
  BY <1>1, <1>2, WatchedKept, NoticedKept

LEMMA NoticedIsNoticed == TypeOK /\ NoticedInv => FourAreNoticed
<1> SUFFICES ASSUME TypeOK, NoticedInv, NEW j \in Windowed, WithinWindow(j, 4)
             PROVE  \E i \in Series(j) \cap fired : Cardinality({k \in Series(j) : k >= i}) <= 4
  BY DEF FourAreNoticed
<1>1. /\ judged[j].rule \in WindowRules /\ KeyOf(j) \in Keys(judged[j].rule)
      /\ j \in InSeries(judged[j].rule, KeyOf(j))
      /\ Series(j) = UpTo(judged[j].rule, KeyOf(j), j)
      /\ Window(j) = Width(judged[j].rule)
  BY SeriesIsUpTo
<1>2. Noticed(judged[j].rule, KeyOf(j))
  BY <1>1 DEF NoticedInv
<1>3. PICK first \in Series(j) :
        /\ Cardinality({i \in Series(j) : i >= first}) = 4
        /\ judged[first].run = judged[j].run
        /\ judged[j].at - judged[first].at <= Window(j)
  BY DEF WithinWindow
<1>4. QED
  BY <1>1, <1>2, <1>3 DEF Noticed

\* The window of main.go:44 does not slide, yet of four events that one
\* process judged within it one has raised an alert, at the latest the fourth.
THEOREM FourInARowAreNoticed == Spec => []FourAreNoticed
<1>1. Init => NoticedInv
  BY NoticedInit
<1>2. TypeOK /\ NoticedInv /\ [Next]_vars => NoticedInv'
  BY NoticedStep
<1>3. TypeOK /\ NoticedInv => FourAreNoticed
  BY NoticedIsNoticed
<1>4. QED
  BY TypeCorrect, <1>1, <1>2, <1>3, PTL DEF Spec

-----------------------------------------------------------------------------
(* Every event is judged. *)

Concerns(rule, m) ==
  IF rule = "burst" THEN events[m].kind.status = "REJECTED_APB"
  ELSE events[m].kind.status = "SUCCESS" /\ events[m].kind.direction = "IN"

Looked(rule, m) == \E j \in DOMAIN judged : judged[j].msg = m /\ judged[j].rule = rule

Passed(rule, m) == Concerns(rule, m) => Looked(rule, m)

\* The rules the handler has passed have looked at its event.
RulesPassed ==
  /\ pc \in {"burst", "tailgate", "ack"} => Passed("offHours", current)
  /\ pc \in {"tailgate", "ack"} => Passed("burst", current)
  /\ pc = "ack" => Passed("tailgate", current)

SettledArePassed ==
  \A m \in 1..(next - 1) :
    (\A p \in pending : p.msg # m) => \A rule \in Rules : Passed(rule, m)

LEMMA HistoryKept ==
  ASSUME TypeOK, [Next]_vars
  PROVE  \A i \in DOMAIN judged : i \in DOMAIN judged' /\ judged'[i] = judged[i]
<1>1. /\ judged \in Seq(Judgement) /\ Len(judged) \in Nat /\ DOMAIN judged = 1..Len(judged)
  BY JudgedIsSeq
<1>2. \/ judged' = judged
      \/ \E rule \in Rules : pc # "idle" /\ judged' = Append(judged, NewJudgement(rule))
  BY DEF Next, Tick, Publish, TakeNew, TakePending, Handle, OffHoursRule, BurstRule, TailgateRule,
         Judge, NotConcerned, Ack, Crash, vars, historyVars, Rules, NewJudgement
<1>3. ASSUME NEW rule \in Rules, pc # "idle", judged' = Append(judged, NewJudgement(rule))
      PROVE  \A i \in DOMAIN judged : i \in DOMAIN judged' /\ judged'[i] = judged[i]
  <2>1. NewJudgement(rule) \in Judgement
    BY <1>3, NewIsJudgement
  <2>2. /\ judged' \in Seq(Judgement) /\ Len(judged') = Len(judged) + 1
        /\ \A i \in 1..Len(judged) : judged'[i] = judged[i]
    BY <1>1, <1>3, <2>1, AppendProperties
  <2>3. DOMAIN judged' = 1..(Len(judged) + 1)
    BY <2>2, LenProperties
  <2>4. QED
    BY <1>1, <2>2, <2>3
<1>4. QED
  BY <1>2, <1>3

LEMMA PassedKept ==
  ASSUME TypeOK, [Next]_vars, NEW rule, NEW m \in 1..Len(events), Passed(rule, m)
  PROVE  Passed(rule, m)'
<1>1. events'[m] = events[m]
  BY EventsKept
<1>2. Looked(rule, m) => Looked(rule, m)'
  BY HistoryKept DEF Looked
<1>3. QED
  BY <1>1, <1>2 DEF Passed, Concerns

LEMMA JudgedIsLooked ==
  ASSUME TypeOK, pc # "idle", NEW rule \in Rules, NEW suspicious, Judge(rule, suspicious),
         NEW m, m = current
  PROVE  Passed(rule, m)'
<1>1. /\ judged \in Seq(Judgement) /\ Len(judged) \in Nat
  BY JudgedIsSeq
<1>2. NewJudgement(rule) \in Judgement
  BY NewIsJudgement
<1>3. judged' = Append(judged, NewJudgement(rule))
  BY DEF Judge, NewJudgement
<1>4. /\ judged' \in Seq(Judgement) /\ Len(judged') = Last /\ judged'[Last] = NewJudgement(rule)
  BY <1>1, <1>2, <1>3, AppendProperties DEF Last
<1>5. Last \in DOMAIN judged'
  BY <1>1, <1>4, LenProperties DEF Last
<1>6. judged'[Last].msg = m /\ judged'[Last].rule = rule
  BY <1>4 DEF NewJudgement
<1>7. PICK j : j = Last
  OBVIOUS
<1>8. QED
  BY <1>5, <1>6, <1>7 DEF Passed, Looked

LEMMA MessagesArePublished ==
  ASSUME TypeOK
  PROVE  /\ \A m \in 1..(next - 1) : m \in 1..Len(events)
         /\ next \in Nat /\ Len(events) \in Nat /\ next \in 1..(Len(events) + 1)
BY DEF TypeOK

\* A rule that runs looks at the event, unless it is not concerned.
LEMMA RulesPass ==
  ASSUME TypeOK, [Next]_vars, RulesPassed, OffHoursRule \/ BurstRule \/ TailgateRule
  PROVE  RulesPassed'
<1>1. pc # "idle" /\ current' = current /\ events' = events
  BY DEF OffHoursRule, BurstRule, TailgateRule, streamVars
<1>2. current \in 1..Len(events)
  BY <1>1, CurrentEvent
<1>3. PICK m : m = current
  OBVIOUS
<1>4. \A rule : Passed(rule, m) => Passed(rule, m)'
  BY <1>2, <1>3, PassedKept
<1>5. \A rule : ~Concerns(rule, m) => Passed(rule, m)'
  BY <1>1 DEF Passed, Concerns
<1>6. CASE OffHoursRule
  <2>1. Passed("offHours", m)'
    <3>1. CASE IsEntry
      BY <1>1, <1>3, <1>6, <3>1, JudgedIsLooked DEF OffHoursRule, Rules
    <3>2. CASE ~IsEntry
      BY <1>3, <1>5, <3>2 DEF IsEntry, Concerns, Kind
    <3>3. QED
      BY <3>1, <3>2
  <2>2. pc' = "burst"
    BY <1>6 DEF OffHoursRule
  <2>3. QED
    BY <1>1, <1>3, <2>1, <2>2 DEF RulesPassed
<1>7. CASE BurstRule
  <2>1. Passed("burst", m)'
    <3>1. CASE Kind.status = "REJECTED_APB"
      BY <1>1, <1>3, <1>7, <3>1, JudgedIsLooked DEF BurstRule, Rules
    <3>2. CASE Kind.status # "REJECTED_APB"
      BY <1>3, <1>5, <3>2 DEF Concerns, Kind
    <3>3. QED
      BY <3>1, <3>2
  <2>2. Passed("offHours", m)'
    BY <1>3, <1>4, <1>7 DEF BurstRule, RulesPassed
  <2>3. pc' = "tailgate"
    BY <1>7 DEF BurstRule
  <2>4. QED
    BY <1>1, <1>3, <2>1, <2>2, <2>3 DEF RulesPassed
<1>8. CASE TailgateRule
  <2>1. Passed("tailgate", m)'
    <3>1. CASE IsEntry
      BY <1>1, <1>3, <1>8, <3>1, JudgedIsLooked DEF TailgateRule, Rules
    <3>2. CASE ~IsEntry
      BY <1>3, <1>5, <3>2 DEF IsEntry, Concerns, Kind
    <3>3. QED
      BY <3>1, <3>2
  <2>2. Passed("offHours", m)' /\ Passed("burst", m)'
    BY <1>3, <1>4, <1>8 DEF TailgateRule, RulesPassed
  <2>3. pc' = "ack"
    BY <1>8 DEF TailgateRule
  <2>4. QED
    BY <1>1, <1>3, <2>1, <2>2, <2>3 DEF RulesPassed
<1>9. QED
  BY <1>6, <1>7, <1>8

LEMMA RulesPassedStep == TypeOK /\ RulesPassed /\ [Next]_vars => RulesPassed'
<1> SUFFICES ASSUME TypeOK, RulesPassed, [Next]_vars PROVE RulesPassed'
  OBVIOUS
<1>1. CASE OffHoursRule \/ BurstRule \/ TailgateRule
  BY <1>1, RulesPass
<1>2. CASE \/ TakeNew \/ Ack \/ \E p \in pending : TakePending(p)
           \/ \E last \in (next - 1)..Len(events) : Crash(last)
  <2>1. pc' \in {"idle", "offHours"}
    BY <1>2 DEF TakeNew, TakePending, Handle, Ack, Crash
  <2>2. QED
    BY <2>1 DEF RulesPassed
<1>3. CASE Tick \/ UNCHANGED vars \/ \E kind \in EventKinds : Publish(kind)
  <2>1. pc' = pc /\ current' = current
    BY <1>3 DEF Tick, Publish, vars
  <2>2. PICK m : m = current
    OBVIOUS
  <2>3. pc # "idle" => \A rule : Passed(rule, m) => Passed(rule, m)'
    BY <2>2, CurrentEvent, PassedKept
  <2>4. QED
    BY <2>1, <2>2, <2>3 DEF RulesPassed
<1>4. QED
  BY <1>1, <1>2, <1>3 DEF Next

LEMMA SettledStep == TypeOK /\ RulesPassed /\ SettledArePassed /\ [Next]_vars => SettledArePassed'
<1> SUFFICES ASSUME TypeOK, RulesPassed, SettledArePassed, [Next]_vars,
                    NEW m \in 1..(next' - 1), \A p \in pending' : p.msg # m,
                    NEW rule \in Rules
             PROVE  Passed(rule, m)'
  BY DEF SettledArePassed
<1>1. /\ next \in Nat /\ Len(events) \in Nat /\ \A n \in 1..(next - 1) : n \in 1..Len(events)
  BY MessagesArePublished
<1>2. ASSUME m \in 1..(next - 1), \A p \in pending : p.msg # m
      PROVE  Passed(rule, m)'
  BY <1>1, <1>2, PassedKept DEF SettledArePassed
<1>3. CASE TakeNew
  <2>1. next' = next + 1 /\ pending \subseteq pending'
    BY <1>3 DEF TakeNew
  <2>2. [msg |-> next, since |-> now] \in pending'
    BY <1>3 DEF TakeNew
  <2>3. m # next
    BY <2>2
  <2>4. QED
    BY <1>1, <1>2, <2>1, <2>3
<1>4. ASSUME NEW p \in pending, TakePending(p)
      PROVE  Passed(rule, m)'
  <2>1. next' = next /\ pending' = (pending \ {p}) \cup {[p EXCEPT !.since = now]}
    BY <1>4 DEF TakePending
  <2>2. [p EXCEPT !.since = now].msg = p.msg
    BY DEF TypeOK
  <2>3. [p EXCEPT !.since = now] \in pending'
    BY <2>1
  <2>4. p.msg # m
    BY <2>2, <2>3
  <2>5. QED
    BY <1>2, <2>1, <2>4
<1>5. CASE Ack
  <2>1. next' = next
    BY <1>5 DEF Ack
  <2>2. CASE m = current
    <3>1. Passed(rule, m)
      BY <1>5, <2>2 DEF Ack, RulesPassed, Rules
    <3>2. QED
      BY <1>1, <2>1, <3>1, PassedKept
  <2>3. CASE m # current
    BY <1>2, <1>5, <2>1, <2>3 DEF Ack
  <2>4. QED
    BY <2>2, <2>3
<1>6. ASSUME NEW last \in (next - 1)..Len(events), Crash(last)
      PROVE  Passed(rule, m)'
  <2>1. next' = last + 1 /\ pending' = pending \cup ReadAhead(last) /\ last \in Int
    BY <1>1, <1>6 DEF Crash
  <2>2. CASE m \in next..last
    <3>1. [msg |-> m, since |-> now] \in pending'
      BY <2>1, <2>2 DEF ReadAhead
    <3>2. QED
      BY <3>1
  <2>3. CASE m \notin next..last
    <3>1. m \in 1..(next - 1)
      BY <1>1, <2>1, <2>3
    <3>2. QED
      BY <1>2, <2>1, <3>1
  <2>4. QED
    BY <2>2, <2>3
<1>7. CASE \/ Tick \/ OffHoursRule \/ BurstRule \/ TailgateRule \/ UNCHANGED vars
           \/ \E kind \in EventKinds : Publish(kind)
  <2>1. next' = next /\ pending' = pending
    BY <1>7 DEF Tick, Publish, OffHoursRule, BurstRule, TailgateRule, vars, streamVars
  <2>2. QED
    BY <1>2, <2>1
<1>8. QED
  BY <1>3, <1>4, <1>5, <1>6, <1>7 DEF Next

LEMMA SettledIsJudged == TypeOK /\ SettledArePassed => EveryEventIsJudged
<1> SUFFICES ASSUME TypeOK, SettledArePassed, NEW m \in 1..(next - 1),
                    \A p \in pending : p.msg # m
             PROVE  LET rules == {judged[j].rule : j \in {i \in DOMAIN judged : judged[i].msg = m}}
                        kind  == events[m].kind
                    IN  /\ kind.status = "REJECTED_APB" => "burst" \in rules
                        /\ kind.status = "SUCCESS" /\ kind.direction = "IN"
                             => {"offHours", "tailgate"} \subseteq rules
  BY DEF EveryEventIsJudged
<1>1. Passed("burst", m) /\ Passed("offHours", m) /\ Passed("tailgate", m)
  BY DEF SettledArePassed, Rules
<1>2. QED
  BY <1>1 DEF Passed, Looked, Concerns

\* An event leaves the group only after every rule that concerns it has
\* looked at it, whatever the detector had read ahead when it was killed.
THEOREM EventsAreJudged == Spec => []EveryEventIsJudged
<1>1. Init => RulesPassed /\ SettledArePassed
  BY DEF Init, RulesPassed, SettledArePassed
<1>2. TypeOK /\ RulesPassed /\ [Next]_vars => RulesPassed'
  BY RulesPassedStep
<1>3. TypeOK /\ RulesPassed /\ SettledArePassed /\ [Next]_vars => SettledArePassed'
  BY SettledStep
<1>4. TypeOK /\ SettledArePassed => EveryEventIsJudged
  BY SettledIsJudged
<1>5. QED
  BY TypeCorrect, <1>1, <1>2, <1>3, <1>4, PTL DEF Spec

-----------------------------------------------------------------------------
(* Alerts count distinct events.  One process judges an event again only    *)
(* when its XACK failed: the repeated judgements of a rule, and those that  *)
(* are due because a judged event is still listed, each have their XACK.    *)

\* The stages at which the rule has looked at the current event.
After(rule) == IF rule = "burst" THEN {"tailgate", "ack"} ELSE {"ack"}

Same(i, k) ==
  judged[i].rule = judged[k].rule /\ judged[i].msg = judged[k].msg /\ judged[i].run = judged[k].run

Repeats(rule) == {k \in DOMAIN judged : judged[k].rule = rule /\ \E i \in 1..(k - 1) : Same(i, k)}

JudgedNow(rule, m) ==
  \E i \in DOMAIN judged : judged[i].rule = rule /\ judged[i].msg = m /\ judged[i].run = run

Listed(m) == \E p \in pending : p.msg = m

Due(rule) ==
  {m \in 1..(next - 1) : Listed(m) /\ JudgedNow(rule, m) /\ ~ (m = current /\ pc \in After(rule))}

RepeatsPaid(rule) == Cardinality(Repeats(rule)) + Cardinality(Due(rule)) <= lostAcks

RepeatInv == \A rule \in WindowRules : RepeatsPaid(rule)

\* The judgements of one process follow those of the processes before it.
RunsOrdered == \A k \in DOMAIN judged : \A i \in 1..k : judged[i].run <= judged[k].run

LEMMA RepeatsAreFinite ==
  ASSUME TypeOK, NEW rule
  PROVE  /\ IsFiniteSet(Repeats(rule)) /\ Cardinality(Repeats(rule)) \in Nat
         /\ IsFiniteSet(Due(rule)) /\ Cardinality(Due(rule)) \in Nat
<1>1. Len(judged) \in Nat /\ DOMAIN judged = 1..Len(judged)
  BY JudgedIsSeq
<1>2. next \in Nat
  BY MessagesArePublished
<1>3. IsFiniteSet(1..Len(judged)) /\ IsFiniteSet(1..(next - 1))
  BY <1>1, <1>2, FS_Interval
<1>4. Repeats(rule) \in SUBSET (1..Len(judged)) /\ Due(rule) \in SUBSET (1..(next - 1))
  BY <1>1 DEF Repeats, Due
<1>5. QED
  BY <1>3, <1>4, FS_Subset, FS_CardinalityType

\* The history grows by a judgement of the rule that runs, or not at all.
LEMMA JudgedStep ==
  ASSUME TypeOK, [Next]_vars
  PROVE  \/ judged' = judged
         \/ /\ OffHoursRule \/ BurstRule \/ TailgateRule
            /\ pc # "idle" /\ run' = run /\ current' = current
            /\ \A i \in 1..Len(judged) : judged'[i] = judged[i]
            /\ judged'[Last] = NewJudgement(pc)
            /\ DOMAIN judged' = 1..Last /\ DOMAIN judged = 1..Len(judged)
            /\ Len(judged) \in Nat /\ Last = Len(judged) + 1
<1>1. \/ judged' = judged
      \/ /\ OffHoursRule \/ BurstRule \/ TailgateRule
         /\ pc \in Rules /\ run' = run /\ current' = current
         /\ judged' = Append(judged, NewJudgement(pc))
  BY DEF Next, Tick, Publish, TakeNew, TakePending, Handle, OffHoursRule, BurstRule, TailgateRule,
         Judge, NotConcerned, Ack, Crash, vars, streamVars, historyVars, Rules, NewJudgement
<1>2. ASSUME pc \in Rules, judged' = Append(judged, NewJudgement(pc))
      PROVE  /\ pc # "idle"
             /\ \A i \in 1..Len(judged) : judged'[i] = judged[i]
             /\ judged'[Last] = NewJudgement(pc)
             /\ DOMAIN judged' = 1..Last /\ DOMAIN judged = 1..Len(judged)
             /\ Len(judged) \in Nat /\ Last = Len(judged) + 1
  <2>1. pc # "idle"
    BY <1>2 DEF Rules
  <2>2. judged \in Seq(Judgement) /\ Len(judged) \in Nat /\ DOMAIN judged = 1..Len(judged)
    BY JudgedIsSeq
  <2>3. NewJudgement(pc) \in Judgement
    BY <1>2, <2>1, NewIsJudgement
  <2>4. /\ judged' \in Seq(Judgement) /\ Len(judged') = Last
        /\ \A i \in 1..Len(judged) : judged'[i] = judged[i]
        /\ judged'[Last] = NewJudgement(pc)
    BY <1>2, <2>2, <2>3, AppendProperties DEF Last
  <2>5. DOMAIN judged' = 1..Last
    BY <2>4, LenProperties
  <2>6. QED
    BY <2>1, <2>2, <2>4, <2>5 DEF Last
<1>3. QED
  BY <1>1, <1>2

LEMMA RunsStep == TypeOK /\ RunsOrdered /\ [Next]_vars => RunsOrdered'
<1> SUFFICES ASSUME TypeOK, RunsOrdered, [Next]_vars PROVE RunsOrdered'
  OBVIOUS
<1>1. CASE judged' = judged
  BY <1>1 DEF RunsOrdered
<1>2. CASE judged' # judged
  <2>1. /\ \A i \in 1..Len(judged) : judged'[i] = judged[i]
        /\ judged'[Last].run = run
        /\ DOMAIN judged' = 1..Last /\ DOMAIN judged = 1..Len(judged)
        /\ Len(judged) \in Nat /\ Last = Len(judged) + 1
    BY <1>2, JudgedStep DEF NewJudgement
  <2>2. run \in Nat /\ \A i \in 1..Len(judged) : judged[i].run \in 0..run
    <3>1. run \in Nat
      BY Bounds DEF TypeOK
    <3>2. \A i \in 1..Len(judged) : judged[i] \in Judgement
      BY JudgedIsSeq
    <3>3. QED
      BY <3>1, <3>2 DEF Judgement
  <2>3. SUFFICES ASSUME NEW k \in 1..Last, NEW i \in 1..k
        PROVE  judged'[i].run <= judged'[k].run
    BY <2>1 DEF RunsOrdered
  <2>4. CASE k \in 1..Len(judged)
    BY <2>1, <2>4 DEF RunsOrdered
  <2>5. CASE k = Last /\ i \in 1..Len(judged)
    <3>1. judged'[i].run <= run
      BY <2>1, <2>2, <2>5
    <3>2. QED
      BY <2>1, <2>5, <3>1
  <2>6. CASE k = Last /\ i = Last
    BY <2>1, <2>2, <2>6
  <2>7. QED
    BY <2>1, <2>4, <2>5, <2>6
<1>3. QED
  BY <1>1, <1>2

\* Neither repeats nor repeats due: what a step may do with no XACK lost.
LEMMA PaidStill ==
  ASSUME TypeOK, TypeOK', NEW rule \in WindowRules, RepeatsPaid(rule),
         Repeats(rule)' \subseteq Repeats(rule), Due(rule)' \subseteq Due(rule), lostAcks' >= lostAcks
  PROVE  RepeatsPaid(rule)'
<1>1. /\ IsFiniteSet(Repeats(rule)) /\ Cardinality(Repeats(rule)) \in Nat
      /\ IsFiniteSet(Due(rule)) /\ Cardinality(Due(rule)) \in Nat
  BY RepeatsAreFinite
<1>2. Repeats(rule)' \in SUBSET Repeats(rule) /\ Due(rule)' \in SUBSET Due(rule)
  OBVIOUS
<1>3. /\ Cardinality(Repeats(rule)') <= Cardinality(Repeats(rule))
      /\ Cardinality(Due(rule)') <= Cardinality(Due(rule))
      /\ Cardinality(Repeats(rule)') \in Nat /\ Cardinality(Due(rule)') \in Nat
  BY <1>1, <1>2, FS_Subset, FS_CardinalityType
<1>4. lostAcks \in Nat /\ lostAcks' \in Nat
  BY Bounds DEF TypeOK
<1>5. QED
  BY <1>1, <1>3, <1>4 DEF RepeatsPaid

\* A step that judges nothing, in the same process.
LEMMA SameJudgements ==
  ASSUME TypeOK, judged' = judged, NEW rule \in WindowRules
  PROVE  /\ Repeats(rule)' = Repeats(rule)
         /\ run' = run => \A m : JudgedNow(rule, m)' <=> JudgedNow(rule, m)
BY DEF Repeats, Same, JudgedNow

\* What was delivered just now is judged for the first time.
LEMMA TakesPaid ==
  ASSUME TypeOK, TypeOK', NEW rule \in WindowRules, RepeatsPaid(rule),
         TakeNew \/ \E p \in pending : TakePending(p)
  PROVE  RepeatsPaid(rule)'
<1>1. /\ judged' = judged /\ run' = run /\ lostAcks' = lostAcks
      /\ pc = "idle" /\ pc' = "offHours"
  BY DEF TakeNew, TakePending, Handle, historyVars
<1>2. lostAcks \in Nat /\ next \in Nat
  BY Bounds, MessagesArePublished DEF TypeOK
<1>3. Repeats(rule)' = Repeats(rule) /\ \A m : JudgedNow(rule, m)' <=> JudgedNow(rule, m)
  BY <1>1, SameJudgements
<1>4. \A m : JudgedNow(rule, m) => m \in 1..(next - 1)
  <2>1. \A i \in 1..Len(judged) : judged[i] \in Judgement
    BY JudgedIsSeq
  <2>2. DOMAIN judged = 1..Len(judged)
    BY JudgedIsSeq
  <2>3. QED
    BY <2>1, <2>2 DEF JudgedNow, Judgement
<1>5. \A m \in 1..(next - 1) : Listed(m)' => Listed(m)
  <2>1. CASE TakeNew
    <3>1. pending' = pending \cup {[msg |-> next, since |-> now]}
      BY <2>1 DEF TakeNew
    <3>2. next \notin 1..(next - 1)
      BY <1>2
    <3>3. QED
      BY <3>1, <3>2 DEF Listed
  <2>2. ASSUME NEW p \in pending, TakePending(p) PROVE \A m : Listed(m)' => Listed(m)
    <3>1. pending' = (pending \ {p}) \cup {[p EXCEPT !.since = now]}
      BY <2>2 DEF TakePending
    <3>2. [p EXCEPT !.since = now].msg = p.msg
      BY DEF TypeOK
    <3>3. QED
      BY <3>1, <3>2 DEF Listed
  <2>3. QED
    BY <2>1, <2>2
<1>6. \A m \in 1..(next - 1) : m # current
  <2>1. current = 0
    BY <1>1 DEF TypeOK
  <2>2. QED
    BY <1>2, <2>1
<1>7. Due(rule)' \subseteq Due(rule)
  BY <1>3, <1>4, <1>5, <1>6 DEF Due
<1>8. QED
  BY <1>1, <1>2, <1>3, <1>7, PaidStill

\* An acknowledgement, and its failure, which makes the event due once more.
LEMMA AckPaid ==
  ASSUME TypeOK, TypeOK', NEW rule \in WindowRules, RepeatsPaid(rule), Ack
  PROVE  RepeatsPaid(rule)'
<1>1. /\ judged' = judged /\ run' = run /\ next' = next
      /\ pc = "ack" /\ pc' = "idle"
  BY DEF Ack, historyVars
<1>2. lostAcks \in Nat /\ next \in Nat
  BY Bounds, MessagesArePublished DEF TypeOK
<1>3. Repeats(rule)' = Repeats(rule) /\ \A m : JudgedNow(rule, m)' <=> JudgedNow(rule, m)
  BY <1>1, SameJudgements
<1>4. CASE pending' = {p \in pending : p.msg # current} /\ UNCHANGED <<faults, lostAcks>>
  <2>1. \A m : Listed(m)' => Listed(m) /\ m # current
    BY <1>4 DEF Listed
  <2>2. Due(rule)' \subseteq Due(rule)
    BY <1>1, <1>3, <2>1 DEF Due
  <2>3. QED
    BY <1>2, <1>3, <1>4, <2>2, PaidStill
<1>5. CASE Fault("ack") /\ lostAcks' = lostAcks + 1 /\ UNCHANGED pending
  <2>1. lostAcks' = lostAcks + 1 /\ \A m : Listed(m)' <=> Listed(m)
    BY <1>5 DEF Listed
  <2>2. PICK m : m = current
    OBVIOUS
  <2>3. Due(rule)' \in SUBSET (Due(rule) \cup {m})
    BY <1>1, <1>3, <2>1, <2>2 DEF Due
  <2>4. /\ IsFiniteSet(Due(rule)) /\ Cardinality(Due(rule)) \in Nat
        /\ Cardinality(Repeats(rule)) \in Nat
    BY RepeatsAreFinite
  <2>5. /\ IsFiniteSet(Due(rule) \cup {m})
        /\ Cardinality(Due(rule) \cup {m}) =
             IF m \in Due(rule) THEN Cardinality(Due(rule)) ELSE Cardinality(Due(rule)) + 1
    BY <2>4, FS_AddElement, Zenon
  <2>6. Cardinality(Due(rule)') <= Cardinality(Due(rule) \cup {m})
        /\ Cardinality(Due(rule)') \in Nat
    BY <2>3, <2>5, FS_Subset, FS_CardinalityType
  <2>7. Cardinality(Repeats(rule)') = Cardinality(Repeats(rule))
    BY <1>3
  <2>8. Cardinality(Repeats(rule)') + Cardinality(Due(rule)') <= lostAcks'
    BY <1>2, <2>1, <2>4, <2>5, <2>6, <2>7 DEF RepeatsPaid
  <2>9. QED
    BY <2>8 DEF RepeatsPaid
<1>6. QED
  BY <1>4, <1>5 DEF Ack

\* Nothing is a repeat for a process that has just been started.
LEMMA CrashPaid ==
  ASSUME TypeOK, TypeOK', NEW rule \in WindowRules, RepeatsPaid(rule),
         NEW last \in (next - 1)..Len(events), Crash(last)
  PROVE  RepeatsPaid(rule)'
<1>1. judged' = judged /\ run' = run + 1 /\ lostAcks' = lostAcks
  BY DEF Crash, historyVars
<1>2. lostAcks \in Nat /\ run \in Nat
  BY Bounds DEF TypeOK
<1>3. Repeats(rule)' = Repeats(rule)
  BY <1>1, SameJudgements
<1>4. \A i \in DOMAIN judged : judged[i].run # run + 1
  <2>1. \A i \in 1..Len(judged) : judged[i] \in Judgement
    BY JudgedIsSeq
  <2>2. \A i \in 1..Len(judged) : judged[i].run \in 0..run
    BY <2>1 DEF Judgement
  <2>3. DOMAIN judged = 1..Len(judged)
    BY JudgedIsSeq
  <2>4. QED
    BY <1>2, <2>2, <2>3
<1>5. Due(rule)' = {}
  BY <1>1, <1>4 DEF Due, JudgedNow
<1>6. QED
  BY <1>1, <1>2, <1>3, <1>5, PaidStill

\* The rules run in their order.
LEMMA StageOrder ==
  ASSUME OffHoursRule \/ BurstRule \/ TailgateRule, NEW rule \in WindowRules
  PROVE  /\ pc \in Rules
         /\ pc \in After(rule) => pc' \in After(rule)
         /\ pc = rule => pc' \in After(rule) /\ pc \notin After(rule)
BY DEF OffHoursRule, BurstRule, TailgateRule, WindowRules, After, Rules

LEMMA RulesUnmoved ==
  ASSUME TypeOK, TypeOK', OffHoursRule \/ BurstRule \/ TailgateRule
  PROVE  /\ next' = next /\ pending' = pending /\ current' = current /\ run' = run
         /\ lostAcks' >= lostAcks /\ lostAcks \in Nat
<1>1. lostAcks \in Nat
  BY Bounds DEF TypeOK
<1>2. lostAcks' = lostAcks
  BY DEF OffHoursRule, BurstRule, TailgateRule
<1>3. QED
  BY <1>1, <1>2 DEF OffHoursRule, BurstRule, TailgateRule, streamVars

\* A rule that looks at the current event: if it looked at it before, in the
\* same process, that repeat was due.
LEMMA RulesPaid ==
  ASSUME TypeOK, TypeOK', [Next]_vars, NEW rule \in WindowRules, RepeatsPaid(rule),
         OffHoursRule \/ BurstRule \/ TailgateRule
  PROVE  RepeatsPaid(rule)'
<1>1. /\ next' = next /\ pending' = pending /\ current' = current /\ run' = run
      /\ lostAcks' >= lostAcks /\ lostAcks \in Nat
  BY RulesUnmoved
<1>2. /\ pc \in After(rule) => pc' \in After(rule)
      /\ pc = rule => pc' \in After(rule) /\ pc \notin After(rule)
  BY StageOrder
<1>3. \A m : Listed(m)' <=> Listed(m)
  BY <1>1 DEF Listed
<1>4. CASE judged' = judged
  <2>1. Repeats(rule)' = Repeats(rule) /\ \A m : JudgedNow(rule, m)' <=> JudgedNow(rule, m)
    BY <1>1, <1>4, SameJudgements
  <2>2. Due(rule)' \subseteq Due(rule)
    BY <1>1, <1>2, <1>3, <2>1 DEF Due
  <2>3. QED
    BY <1>1, <2>1, <2>2, PaidStill
<1>5. CASE judged' # judged
  <2>1. /\ pc # "idle"
        /\ \A i \in 1..Len(judged) : judged'[i] = judged[i]
        /\ judged'[Last].rule = pc /\ judged'[Last].msg = current /\ judged'[Last].run = run
        /\ DOMAIN judged' = 1..Last /\ DOMAIN judged = 1..Len(judged)
        /\ Len(judged) \in Nat /\ Last = Len(judged) + 1
    BY <1>5, JudgedStep DEF NewJudgement
  <2>2. PICK k : k = Last
    OBVIOUS
  <2>3. \A i \in 1..k : i \in 1..Len(judged) \/ i = k
    BY <2>1, <2>2
  <2>4. \A i \in 1..Len(judged) : i \in 1..k /\ 1..(i - 1) \subseteq 1..Len(judged)
    BY <2>1, <2>2
  <2>5. 1..(k - 1) = 1..Len(judged) /\ k \notin 1..Len(judged)
    BY <2>1, <2>2
  <2>6. \A i \in 1..Len(judged) : i \in Repeats(rule)' <=> i \in Repeats(rule)
    BY <2>1, <2>2, <2>4 DEF Repeats, Same
  <2>7. CASE pc # rule
    <3>1. k \notin Repeats(rule)'
      BY <2>1, <2>2, <2>7 DEF Repeats
    <3>2. Repeats(rule)' \subseteq Repeats(rule)
      BY <2>1, <2>2, <2>3, <2>6, <3>1 DEF Repeats
    <3>3. \A m : JudgedNow(rule, m)' => JudgedNow(rule, m)
      BY <1>1, <2>1, <2>2, <2>3, <2>7 DEF JudgedNow
    <3>4. Due(rule)' \subseteq Due(rule)
      BY <1>1, <1>2, <1>3, <3>3 DEF Due
    <3>5. QED
      BY <1>1, <3>2, <3>4, PaidStill
  <2>8. CASE pc = rule
    <3>1. \A m : m # current => (JudgedNow(rule, m)' => JudgedNow(rule, m))
      BY <1>1, <2>1, <2>2, <2>3 DEF JudgedNow
    <3>2. Due(rule)' \subseteq Due(rule)
      BY <1>1, <1>2, <1>3, <2>8, <3>1 DEF Due
    <3>3. CASE ~ JudgedNow(rule, current)
      <4>1. k \notin Repeats(rule)'
        BY <2>1, <2>2, <2>5, <2>8, <3>3 DEF Repeats, Same, JudgedNow
      <4>2. Repeats(rule)' \subseteq Repeats(rule)
        BY <2>1, <2>2, <2>3, <2>6, <4>1 DEF Repeats
      <4>3. QED
        BY <1>1, <3>2, <4>2, PaidStill
    <3>4. CASE JudgedNow(rule, current)
      <4>1. PICK m : m = current
        OBVIOUS
      <4>2. m \in Due(rule) /\ m \notin Due(rule)'
        <5>1. m \in 1..(next - 1) /\ Listed(m)
          BY <2>1, <4>1, CurrentEvent DEF Listed
        <5>2. m \in Due(rule)
          BY <1>2, <2>8, <3>4, <4>1, <5>1 DEF Due
        <5>3. m \notin Due(rule)'
          BY <1>1, <1>2, <2>8, <4>1 DEF Due
        <5>4. QED
          BY <5>2, <5>3
      <4>3. Repeats(rule)' \in SUBSET (Repeats(rule) \cup {k})
        BY <2>1, <2>2, <2>3, <2>6 DEF Repeats
      <4>4. /\ IsFiniteSet(Repeats(rule)) /\ Cardinality(Repeats(rule)) \in Nat
            /\ IsFiniteSet(Due(rule)) /\ Cardinality(Due(rule)) \in Nat
        BY RepeatsAreFinite
      <4>5. /\ IsFiniteSet(Repeats(rule) \cup {k})
            /\ Cardinality(Repeats(rule) \cup {k}) =
                 IF k \in Repeats(rule) THEN Cardinality(Repeats(rule)) ELSE Cardinality(Repeats(rule)) + 1
        BY <4>4, FS_AddElement, Zenon
      <4>6. /\ Cardinality(Repeats(rule)') <= Cardinality(Repeats(rule) \cup {k})
            /\ Cardinality(Repeats(rule)') \in Nat
        BY <4>3, <4>5, FS_Subset, FS_CardinalityType
      <4>7. /\ IsFiniteSet(Due(rule) \ {m})
            /\ Cardinality(Due(rule) \ {m}) = Cardinality(Due(rule)) - 1
        BY <4>2, <4>4, FS_RemoveElement, Zenon
      <4>8. Due(rule)' \in SUBSET (Due(rule) \ {m})
        BY <3>2, <4>2
      <4>9. /\ Cardinality(Due(rule)') <= Cardinality(Due(rule) \ {m})
            /\ Cardinality(Due(rule)') \in Nat
        BY <4>7, <4>8, FS_Subset, FS_CardinalityType
      <4>10. lostAcks' \in Nat
        BY Bounds DEF TypeOK
      <4>11. Cardinality(Repeats(rule)') + Cardinality(Due(rule)') <= lostAcks'
        BY <1>1, <4>4, <4>5, <4>6, <4>7, <4>9, <4>10 DEF RepeatsPaid
      <4>12. QED
        BY <4>11 DEF RepeatsPaid
    <3>5. QED
      BY <3>3, <3>4
  <2>9. QED
    BY <2>7, <2>8
<1>6. QED
  BY <1>4, <1>5

LEMMA RepeatStep == TypeOK /\ TypeOK' /\ RepeatInv /\ [Next]_vars => RepeatInv'
<1> SUFFICES ASSUME TypeOK, TypeOK', RepeatInv, [Next]_vars, NEW rule \in WindowRules
             PROVE  RepeatsPaid(rule)'
  BY DEF RepeatInv, WindowRules
<1>1. RepeatsPaid(rule)
  BY DEF RepeatInv
<1>2. CASE Tick \/ UNCHANGED vars \/ \E kind \in EventKinds : Publish(kind)
  <2>1. UNCHANGED <<judged, run, next, pending, current, pc, lostAcks>>
    BY <1>2 DEF Tick, Publish, vars, streamVars, historyVars
  <2>2. Repeats(rule)' = Repeats(rule) /\ Due(rule)' = Due(rule)
    BY <2>1 DEF Repeats, Same, Due, Listed, JudgedNow
  <2>3. lostAcks' >= lostAcks
    BY <2>1, Bounds DEF TypeOK
  <2>4. QED
    BY <1>1, <2>2, <2>3, PaidStill
<1>3. QED
  BY <1>1, <1>2, TakesPaid, AckPaid, CrashPaid, RulesPaid DEF Next

LEMMA RepeatInit == Init => RepeatInv /\ RunsOrdered
<1> SUFFICES ASSUME Init PROVE RepeatInv /\ RunsOrdered
  OBVIOUS
<1>1. judged = <<>> /\ next = 1 /\ lostAcks = 0
  BY DEF Init
<1>2. \A rule : Repeats(rule) = {} /\ Due(rule) = {}
  BY <1>1 DEF Repeats, Due
<1>3. \A rule : RepeatsPaid(rule)
  BY <1>1, <1>2, FS_EmptySet DEF RepeatsPaid
<1>4. QED
  BY <1>1, <1>3 DEF RepeatInv, RunsOrdered

\* One process that does not repeat itself judges as many events as it passes
\* judgements.
LEMMA FreshAreDistinct ==
  ASSUME TypeOK, NEW rule, NEW S \in SUBSET DOMAIN judged, NEW r,
         \A k \in S : judged[k].rule = rule /\ judged[k].run = r
  PROVE  /\ IsFiniteSet({judged[k].msg : k \in S})
         /\ Cardinality(S \ Repeats(rule)) <= Cardinality({judged[k].msg : k \in S})
<1> DEFINE T == {judged[k].msg : k \in S}
           Fresh == S \ Repeats(rule)
           f == [k \in Fresh |-> judged[k].msg]
<1>1. /\ Len(judged) \in Nat /\ DOMAIN judged = 1..Len(judged)
      /\ \A k \in 1..Len(judged) : judged[k].msg \in 1..Len(events)
  BY JudgedIsSeq
<1>2. IsFiniteSet(T)
  <2>1. Len(events) \in Nat
    BY LenProperties DEF TypeOK
  <2>2. IsFiniteSet(1..Len(events))
    BY <2>1, FS_Interval
  <2>3. T \in SUBSET (1..Len(events))
    BY <1>1
  <2>4. QED
    BY <2>2, <2>3, FS_Subset
<1>3. \A k, l \in Fresh : f[k] = f[l] => k = l
  <2>1. SUFFICES ASSUME NEW k \in Fresh, NEW l \in Fresh, judged[k].msg = judged[l].msg, l < k
                 PROVE  FALSE
    <3>1. \A k \in Fresh : k \in Nat
      BY <1>1
    <3>2. QED
      BY <2>1, <3>1
  <2>2. l \in 1..(k - 1)
    BY <1>1, <2>1
  <2>3. Same(l, k)
    BY <2>1 DEF Same
  <2>4. k \in Repeats(rule)
    BY <2>2, <2>3 DEF Repeats
  <2>5. QED
    BY <2>4
<1>4. f \in Injection(Fresh, T)
  <2>1. f \in [Fresh -> T]
    OBVIOUS
  <2>2. QED
    BY <1>3, <2>1 DEF Injection, IsInjective
<1>5. QED
  BY <1>2, <1>4, FS_Injection

LEMMA RepeatsAreAdmitted ==
  TypeOK /\ BackedInv /\ RepeatInv /\ RunsOrdered => AlertsAreOfDistinctEvents
<1> SUFFICES ASSUME TypeOK, BackedInv, RepeatInv, RunsOrdered, NEW j \in fired \cap Windowed
             PROVE  \E i \in Series(j) :
                      LET counted == {k \in Series(j) : k >= i}
                      IN  /\ Cardinality(counted) = 3
                          /\ Cardinality({judged[k].msg : k \in counted}) + lostAcks >= 3
  BY DEF AlertsAreOfDistinctEvents
<1> DEFINE rule == judged[j].rule
           key == KeyOf(j)
<1>1. /\ rule \in WindowRules /\ key \in Keys(rule) /\ j \in InSeries(rule, key)
      /\ Series(j) = UpTo(rule, key, j)
  BY SeriesIsUpTo
<1>2. PICK f \in UpTo(rule, key, j) :
        /\ Cardinality({i \in UpTo(rule, key, j) : i >= f}) = 3
        /\ judged[f].run = judged[j].run
  BY <1>1 DEF BackedInv, Backed
<1> DEFINE S == {k \in Series(j) : k >= f}
<1>3. Len(judged) \in Nat /\ DOMAIN judged = 1..Len(judged)
  BY JudgedIsSeq
<1>4. S \in SUBSET DOMAIN judged /\ \A k \in S : judged[k].rule = rule /\ k >= f /\ k <= j
  BY <1>1 DEF UpTo, InSeries
<1>5. f \in DOMAIN judged /\ j \in DOMAIN judged
  BY <1>1, <1>2 DEF UpTo, InSeries
<1>6. ASSUME NEW k \in S PROVE judged[k].run = judged[j].run
  <2>1. judged[f].run <= judged[k].run /\ judged[k].run <= judged[j].run
    <3>1. k \in 1..j /\ f \in 1..k
      BY <1>3, <1>4, <1>5
    <3>2. QED
      BY <1>4, <1>5, <3>1 DEF RunsOrdered
  <2>2. judged[f].run \in Int /\ judged[k].run \in Int /\ judged[j].run \in Int
    <3>1. run \in Nat
      BY Bounds DEF TypeOK
    <3>2. \A i \in 1..Len(judged) : judged[i] \in Judgement
      BY JudgedIsSeq
    <3>3. \A i \in 1..Len(judged) : judged[i].run \in 0..run
      BY <3>2 DEF Judgement
    <3>4. QED
      BY <1>3, <1>4, <1>5, <3>1, <3>3
  <2>3. QED
    BY <1>2, <2>1, <2>2
<1>7. /\ IsFiniteSet({judged[k].msg : k \in S})
      /\ Cardinality(S \ Repeats(rule)) <= Cardinality({judged[k].msg : k \in S})
  BY <1>4, <1>6, FreshAreDistinct
<1>8. /\ IsFiniteSet(S) /\ Cardinality(S) = 3
      /\ Cardinality(S \ Repeats(rule)) = 3 - Cardinality(S \cap Repeats(rule))
  <2>1. Cardinality(S) = 3
    BY <1>1, <1>2
  <2>2. IsFiniteSet(1..Len(judged))
    BY <1>3, FS_Interval
  <2>3. IsFiniteSet(S)
    BY <1>3, <1>4, <2>2, FS_Subset
  <2>4. QED
    BY <2>1, <2>3, FS_Difference
<1>9. Cardinality(S \cap Repeats(rule)) <= lostAcks
  <2>1. /\ IsFiniteSet(Repeats(rule)) /\ Cardinality(Repeats(rule)) \in Nat
        /\ Cardinality(Due(rule)) \in Nat
    BY RepeatsAreFinite
  <2>2. Cardinality(S \cap Repeats(rule)) <= Cardinality(Repeats(rule))
        /\ Cardinality(S \cap Repeats(rule)) \in Nat
    <3>1. S \cap Repeats(rule) \in SUBSET Repeats(rule)
      OBVIOUS
    <3>2. QED
      BY <2>1, <3>1, FS_Subset, FS_CardinalityType
  <2>3. Cardinality(Repeats(rule)) + Cardinality(Due(rule)) <= lostAcks
    BY <1>1 DEF RepeatInv, RepeatsPaid
  <2>4. lostAcks \in Nat
    BY Bounds DEF TypeOK
  <2>5. QED
    BY <2>1, <2>2, <2>3, <2>4
<1>10. Cardinality({judged[k].msg : k \in S}) + lostAcks >= 3
  <2>1. lostAcks \in Nat /\ Cardinality({judged[k].msg : k \in S}) \in Nat
    BY <1>7, Bounds, FS_CardinalityType DEF TypeOK
  <2>2. Cardinality(S \cap Repeats(rule)) \in Nat
    <3>1. S \cap Repeats(rule) \in SUBSET S
      OBVIOUS
    <3>2. QED
      BY <1>8, <3>1, FS_Subset, FS_CardinalityType
  <2>3. QED
    BY <1>7, <1>8, <1>9, <2>1, <2>2
<1>11. QED
  BY <1>1, <1>2, <1>8, <1>10

\* Three events make an alert, and each is another one, unless an XACK failed
\* and made the process judge one again.
THEOREM AlertsCountDistinctEvents == Spec => []AlertsAreOfDistinctEvents
<1>1. Init => BackedInv /\ RepeatInv /\ RunsOrdered
  BY BackedInit, RepeatInit
<1>2. TypeOK /\ BackedInv /\ [Next]_vars => BackedInv'
  BY BackedStep
<1>3. TypeOK /\ TypeOK' /\ RepeatInv /\ [Next]_vars => RepeatInv'
  BY RepeatStep
<1>4. TypeOK /\ RunsOrdered /\ [Next]_vars => RunsOrdered'
  BY RunsStep
<1>5. TypeOK /\ BackedInv /\ RepeatInv /\ RunsOrdered => AlertsAreOfDistinctEvents
  BY RepeatsAreAdmitted
<1>6. QED
  BY TypeCorrect, <1>1, <1>2, <1>3, <1>4, <1>5, PTL DEF Spec
=============================================================================
