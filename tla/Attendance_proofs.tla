---------------------------- MODULE Attendance_proofs ----------------------------
(***************************************************************************)
(* Theorems about Attendance for any badges, sites and gates, any length   *)
(* of the day, any clock skew, any order of the rows, late or stored more  *)
(* than once, and any refreshes.                                           *)
(***************************************************************************)
EXTENDS AttendanceProps, AttendanceView_proofs, SequenceTheorems

-----------------------------------------------------------------------------
(* Types. *)

LEMMA Bounds ==
  /\ MaxTime \in Nat \ {0} /\ MaxSwipes \in Nat /\ MaxSkew \in Nat
  /\ MaxRefreshes \in Nat /\ MaxFaults \in Nat
BY BoundAssumption

Ticks == 1..(MaxTime + MaxSkew)

ViewOK ==
  /\ DOMAIN view = Badges
  /\ \A b \in Badges : \A d \in DOMAIN view[b] :
       /\ d \in Days
       /\ view[b][d] \in [first_in : Nat, last_out : Nat, swipe_count : Nat \ {0}, stay : Nat]

\* No two decisions have the same time.
TimesDiffer == \A i, j \in DOMAIN times : times[i] = times[j] => i = j

LEMMA Decided ==
  ASSUME TypeOK
  PROVE  /\ Len(log) \in Nat /\ DOMAIN log = 1..Len(log) /\ DOMAIN times = 1..Len(log)
         /\ \A i \in 1..Len(log) : /\ log[i].req \in Requests /\ log[i].status \in Statuses
                                   /\ log[i].req.direction \in {"IN", "OUT"}
                                   /\ log[i].req.badge \in Badges
                                   /\ times[i] \in Ticks
<1>1. /\ log \in Seq(AccessEvents) /\ times \in Seq(Ticks) /\ Len(times) = Len(log)
  BY DEF TypeOK, Ticks
<1>2. /\ Len(log) \in Nat /\ DOMAIN log = 1..Len(log) /\ DOMAIN times = 1..Len(log)
      /\ \A i \in 1..Len(log) : log[i] \in AccessEvents /\ times[i] \in Ticks
  BY <1>1, LenProperties, ElementOfSeq
<1>3. QED
  BY <1>2 DEF AccessEvents, Requests, Directions

LEMMA InitTyped == Init => TypeOK /\ TimesDiffer
<1> SUFFICES ASSUME Init PROVE TypeOK /\ TimesDiffer
  OBVIOUS
<1>1. direction = [k \in ApbKeys |-> ""] /\ log = <<>>
  BY DEF Init, Gate!Init, Gate!ApbKeys, ApbKeys, Gate!SiteKeys, SiteKeys, Gate!SiteKey, SiteKey,
         Gate!Tiers, Tiers
<1>2. times = <<>> /\ table = {} /\ seen = {} /\ view = [b \in Badges |-> <<>>]
      /\ now = 1 /\ refreshedAt = 0 /\ refreshCount = 0 /\ refreshErrors = 0 /\ faults = 0
      /\ expires = [k \in ApbKeys |-> 0] /\ before = direction /\ disturbed = {}
  BY DEF Init
<1>3. log \in Seq(AccessEvents) /\ times \in Seq(Ticks) /\ Len(log) = 0 /\ Len(times) = 0
  BY <1>1, <1>2, EmptySeq
<1>4. {direction, before} \subseteq [ApbKeys -> Directions \cup {""}]
  BY <1>1, <1>2
<1>10. expires \in [ApbKeys -> 0..(MaxTime + DayLength)] /\ disturbed \subseteq ApbKeys
  BY <1>2, Bounds, DayAssumption
<1>5. table \subseteq (DOMAIN log) \X (Nat \ {0}) /\ IsFiniteSet(table)
  BY <1>2, FS_EmptySet
<1>6. ViewOK
  <2>1. DOMAIN <<>> = {}
    OBVIOUS
  <2>2. QED
    BY <1>2, <2>1 DEF ViewOK
<1>7. now \in 1..MaxTime /\ refreshedAt \in 0..now /\ refreshCount \in 0..MaxRefreshes
      /\ refreshErrors \in 0..faults /\ faults \in 0..MaxFaults
  BY <1>2, Bounds
<1>8. TimesDiffer
  BY <1>2 DEF TimesDiffer
<1>9. QED
  BY <1>2, <1>3, <1>4, <1>5, <1>6, <1>7, <1>8, <1>10 DEF TypeOK, ViewOK, Ticks

LEMMA FaultsBound ==
  ASSUME TypeOK, refreshErrors' = refreshErrors, faults' = faults \/ Fault
  PROVE  refreshErrors' \in 0..faults' /\ faults' \in 0..MaxFaults
<1>1. refreshErrors \in 0..faults /\ faults \in 0..MaxFaults
  BY DEF TypeOK
<1>2. faults' = faults \/ (faults < MaxFaults /\ faults' = faults + 1)
  BY DEF Fault
<1>3. MaxFaults \in Nat
  BY Bounds
<1>4. QED
  BY <1>1, <1>2, <1>3

LEMMA KeysOfGates ==
  ASSUME NEW r \in Requests
  PROVE  ApbKey(r) \in ApbKeys /\ ApbKey(r)[3] = r.badge /\ Gate!ApbKey(r) = ApbKey(r)
<1>1. r.site \in SiteIDs /\ r.gate \in Gates /\ r.badge \in Badges
  BY DEF Requests
<1>2. GateTier(r.gate) \in Tiers
  BY <1>1, GatesAssumption DEF GateIdentifiers, GateTier, Tiers
<1>3. SiteKey(r.site) \in SiteKeys
  BY <1>1 DEF SiteKeys
<1>4. ApbKey(r) = <<SiteKey(r.site), GateTier(r.gate), r.badge>>
  BY DEF ApbKey, TierKey
<1>5. Gate!ApbKey(r) = ApbKey(r)
  BY DEF Gate!ApbKey, ApbKey, Gate!TierKey, TierKey, Gate!SiteKey, SiteKey, Gate!GateTier, GateTier
<1>6. QED
  BY <1>1, <1>2, <1>3, <1>4, <1>5 DEF ApbKeys

\* The gate's step, overlapping another or not: one decision more.
LEMMA GateDecides ==
  ASSUME TypeOK, NEW r \in Requests, NEW t, Swipe(r, t) \/ OverlappingSwipe(r, t)
  PROVE  /\ t \notin ToSet(times) /\ times' = Append(times, t) /\ before' = direction
         /\ faults' = faults \/ Fault
         /\ disturbed' = disturbed \/ disturbed' = disturbed \cup {ApbKey(r)}
         /\ UNCHANGED <<now, table, view, seen, refreshedAt, refreshCount, refreshErrors>>
         /\ \E s \in Statuses :
              /\ log' = Append(log, [swipe |-> Len(log) + 1, req |-> r, status |-> s])
              /\ \/ /\ s = "SUCCESS"
                    /\ direction' = [direction EXCEPT ![ApbKey(r)] = r.direction]
                    /\ expires' = [expires EXCEPT ![ApbKey(r)] = now + DayLength]
                 \/ s # "SUCCESS" /\ direction' = direction /\ expires' = expires
<1>1. Gate!ApbKey(r) = ApbKey(r)
  BY KeysOfGates
<1>2. CASE Swipe(r, t)
  <2>1. /\ t \notin ToSet(times) /\ times' = Append(times, t) /\ before' = direction
        /\ UNCHANGED <<now, table, view, seen, refreshedAt, refreshCount, refreshErrors>>
    BY <1>2 DEF Swipe, viewVars
  <2>2. /\ faults' = faults \/ Fault
        /\ disturbed' = disturbed \/ disturbed' = disturbed \cup {ApbKey(r)}
    BY <1>2 DEF Swipe
  <2>3. CASE Gate!Grant(Len(log) + 1, r) /\ Renew(r)
    BY <1>1, <2>1, <2>2, <2>3 DEF Gate!Grant, Gate!Record, Renew, Statuses
  <2>4. CASE Gate!Refuse(Len(log) + 1, r) /\ UNCHANGED expires
    BY <1>1, <2>1, <2>2, <2>4 DEF Gate!Refuse, Gate!Record, Statuses
  <2>5. QED
    BY <1>2, <2>3, <2>4 DEF Swipe
<1>3. CASE OverlappingSwipe(r, t)
  <2>1. /\ t \notin ToSet(times) /\ times' = Append(times, t) /\ before' = direction
        /\ UNCHANGED <<now, table, view, seen, refreshedAt, refreshCount, refreshErrors>>
        /\ Fault /\ disturbed' = disturbed \cup {ApbKey(r)}
    BY <1>3 DEF OverlappingSwipe, viewVars
  <2>2. \/ /\ Gate!Record(Len(log) + 1, r, "SUCCESS")
           /\ direction' = [direction EXCEPT ![ApbKey(r)] = r.direction] /\ Renew(r)
        \/ /\ Gate!Record(Len(log) + 1, r, "REJECTED_APB")
           /\ UNCHANGED <<direction, expires>>
    BY <1>3 DEF OverlappingSwipe
  <2>3. QED
    BY <2>1, <2>2 DEF Gate!Record, Renew, Statuses
<1>4. QED
  BY <1>2, <1>3

LEMMA SwipeTyped ==
  ASSUME TypeOK, TimesDiffer, NEW r \in Requests, NEW t \in Ticks,
         Swipe(r, t) \/ OverlappingSwipe(r, t)
  PROVE  TypeOK' /\ TimesDiffer'
<1>1. /\ t \notin ToSet(times) /\ times' = Append(times, t) /\ before' = direction
      /\ UNCHANGED <<now, table, view, seen, refreshedAt, refreshCount, refreshErrors>>
      /\ faults' = faults \/ Fault
      /\ disturbed' = disturbed \/ disturbed' = disturbed \cup {ApbKey(r)}
  BY GateDecides, Zenon
<1>2. /\ Len(log) \in Nat /\ DOMAIN log = 1..Len(log) /\ DOMAIN times = 1..Len(log)
      /\ log \in Seq(AccessEvents) /\ times \in Seq(Ticks) /\ Len(times) = Len(log)
  BY Decided DEF TypeOK, Ticks
<1>3. PICK s \in Statuses :
        /\ log' = Append(log, [swipe |-> Len(log) + 1, req |-> r, status |-> s])
        /\ \/ /\ direction' = [direction EXCEPT ![ApbKey(r)] = r.direction]
              /\ expires' = [expires EXCEPT ![ApbKey(r)] = now + DayLength]
           \/ direction' = direction /\ expires' = expires
  BY GateDecides, Zenon
<1>4. [swipe |-> Len(log) + 1, req |-> r, status |-> s] \in AccessEvents
  BY <1>2 DEF AccessEvents
<1>5. log' \in Seq(AccessEvents) /\ Len(log') = Len(log) + 1 /\ DOMAIN log' = 1..(Len(log) + 1)
  BY <1>2, <1>3, <1>4, AppendProperties, LenProperties
<1>6. /\ times' \in Seq(Ticks) /\ Len(times') = Len(log) + 1 /\ DOMAIN times' = 1..(Len(log) + 1)
      /\ \A i \in 1..Len(log) : times'[i] = times[i]
      /\ times'[Len(log) + 1] = t
  BY <1>1, <1>2, AppendProperties, LenProperties
<1>7. \A i \in 1..Len(log) : times[i] # t
  BY <1>1, <1>2 DEF ToSet
<1>8. TimesDiffer'
  <2>1. \A i \in DOMAIN times' : i \in 1..Len(log) \/ i = Len(log) + 1
    BY <1>2, <1>6
  <2>2. QED
    BY <1>2, <1>6, <1>7, <2>1 DEF TimesDiffer
<1>9. {direction', before'} \subseteq [ApbKeys -> Directions \cup {""}]
  <2>1. direction \in [ApbKeys -> Directions \cup {""}] /\ r.direction \in Directions
    BY DEF TypeOK, Requests
  <2>2. QED
    BY <1>1, <1>3, <2>1
<1>15. expires' \in [ApbKeys -> 0..(MaxTime + DayLength)]
  <2>1. expires \in [ApbKeys -> 0..(MaxTime + DayLength)] /\ now \in 1..MaxTime
    BY DEF TypeOK
  <2>2. now + DayLength \in 0..(MaxTime + DayLength)
    BY <2>1, Bounds, DayAssumption
  <2>3. QED
    BY <1>3, <2>1, <2>2
<1>16. disturbed' \subseteq ApbKeys
  <2>1. disturbed \subseteq ApbKeys /\ ApbKey(r) \in ApbKeys
    BY KeysOfGates DEF TypeOK
  <2>2. QED
    BY <1>1, <2>1
<1>10. table' \subseteq (DOMAIN log') \X (Nat \ {0}) /\ IsFiniteSet(table')
  <2>1. table \subseteq (1..Len(log)) \X (Nat \ {0}) /\ IsFiniteSet(table)
    BY <1>2 DEF TypeOK
  <2>2. 1..Len(log) \subseteq 1..(Len(log) + 1)
    BY <1>2
  <2>3. QED
    BY <1>1, <1>5, <2>1, <2>2
<1>11. refreshErrors' \in 0..faults' /\ faults' \in 0..MaxFaults
  <2>1. refreshErrors' = refreshErrors /\ (faults' = faults \/ Fault)
    BY <1>1
  <2>2. QED
    BY <2>1, FaultsBound
<1>12. ViewOK'
  BY <1>1 DEF TypeOK, ViewOK
<1>13. now' \in 1..MaxTime /\ seen' \subseteq table' /\ refreshedAt' \in 0..now' /\ refreshCount' \in 0..MaxRefreshes
  BY <1>1 DEF TypeOK
<1>14. QED
  BY <1>5, <1>6, <1>8, <1>9, <1>10, <1>11, <1>12, <1>13, <1>15, <1>16 DEF TypeOK, ViewOK, Ticks

LEMMA StoreTyped ==
  ASSUME TypeOK, TimesDiffer, NEW i \in 1..MaxSwipes, Store(i)
  PROVE  TypeOK' /\ TimesDiffer'
<1> DEFINE copies == {k \in table : k[1] = i}
<1>1. /\ i \in DOMAIN log
      /\ faults' = faults \/ Fault
      /\ table' = table \cup {<<i, Cardinality(copies) + 1>>}
      /\ UNCHANGED <<now, direction, expires, before, disturbed, log, times, view, seen,
                     refreshedAt, refreshCount, refreshErrors>>
  BY DEF Store, gateVars, viewVars
<1>2. IsFiniteSet(table) /\ table \subseteq (DOMAIN log) \X (Nat \ {0})
  BY DEF TypeOK
<1>3. Cardinality(copies) \in Nat
  <2>1. copies \in SUBSET table
    OBVIOUS
  <2>2. QED
    BY <1>2, <2>1, FS_Subset, FS_CardinalityType
<1>4. IsFiniteSet(table') /\ table' \subseteq (DOMAIN log) \X (Nat \ {0}) /\ table \subseteq table'
  <2> HIDE DEF copies
  <2>1. Cardinality(copies) + 1 \in Nat \ {0}
    BY <1>3
  <2>2. IsFiniteSet(table \cup {<<i, Cardinality(copies) + 1>>})
    BY <1>2, FS_AddElement
  <2>3. IsFiniteSet(table')
    BY <1>1, <2>2, Zenon
  <2>4. QED
    BY <1>1, <1>2, <2>1, <2>3
<1>5. refreshErrors' \in 0..faults' /\ faults' \in 0..MaxFaults
  BY <1>1, FaultsBound
<1>6. TimesDiffer'
  BY <1>1 DEF TimesDiffer
<1>7. ViewOK'
  BY <1>1 DEF TypeOK, ViewOK
<1>8. QED
  BY <1>1, <1>4, <1>5, <1>6, <1>7 DEF TypeOK, ViewOK

-----------------------------------------------------------------------------
(* The refresh. *)

\* The key of the ORDER BY, and the events of rows in some order.
KeysAt(tm, S) == [k \in S |-> <<tm[k[1]], k[2]>>]

Listed(lg, tm, order) ==
  [n \in DOMAIN order |-> [time |-> tm[order[n][1]], direction |-> lg[order[n][1]].req.direction]]

\* Whatever rows are listed, they are listed in the order of their times.
LEMMA ListedInTime ==
  ASSUME NEW S, IsFiniteSet(S), NEW lg, NEW tm, KeysAt(tm, S) \in [S -> Keys],
         \A k, l \in S : KeysAt(tm, S)[k] = KeysAt(tm, S)[l] => k = l,
         \A k \in S : tm[k[1]] \in Nat /\ lg[k[1]].req.direction \in {"IN", "OUT"}
  PROVE  LET N == Cardinality(S)
             order == InOrder(S, KeysAt(tm, S))
             events == Listed(lg, tm, order)
         IN  /\ InTime(events, N)
             /\ order \in [1..N -> S]
             /\ \A k \in S : \E n \in 1..N : order[n] = k
             /\ \A n \in 1..N : /\ order[n] \in S
                               /\ events[n].time = tm[order[n][1]]
                               /\ events[n].direction = lg[order[n][1]].req.direction
             /\ \A m, n \in 1..N :
                  m < n => Precedes(<<tm[order[m][1]], order[m][2]>>, <<tm[order[n][1]], order[n][2]>>)
<1>1. PICK key : key = KeysAt(tm, S)
  OBVIOUS
<1> DEFINE N == Cardinality(S)
           order == InOrder(S, key)
           events == Listed(lg, tm, order)
<1>2. key \in [S -> Keys] /\ \A k, l \in S : key[k] = key[l] => k = l
  BY <1>1
<1>3. /\ order \in [1..N -> S] /\ N \in Nat
      /\ \A k \in S : \E n \in 1..N : order[n] = k
      /\ \A m, n \in 1..N : m < n => Precedes(key[order[m]], key[order[n]])
  <2>1. IsFiniteSet(S) /\ key \in [S -> Keys] /\ \A k, l \in S : key[k] = key[l] => k = l
    BY <1>2
  <2>2. order \in [1..N -> S] /\ N \in Nat
    BY <2>1, OrderIsComplete
  <2>3. \A k \in S : \E n \in 1..N : order[n] = k
    BY <2>1, OrderIsComplete
  <2>4. \A m, n \in 1..N : m < n => Precedes(key[order[m]], key[order[n]])
    BY <2>1, OrderIsComplete
  <2>5. QED
    BY <2>2, <2>3, <2>4
<1> HIDE DEF N, order
<1>4. DOMAIN events = 1..N
  BY <1>3 DEF Listed
<1>5. \A n \in 1..N : /\ order[n] \in S
                      /\ events[n].time = tm[order[n][1]]
                      /\ events[n].direction = lg[order[n][1]].req.direction
                      /\ key[order[n]] = <<tm[order[n][1]], order[n][2]>>
  <2>1. TAKE n \in 1..N
  <2>2. order[n] \in S /\ n \in DOMAIN order
    BY <1>3
  <2>3. events[n] = [time |-> tm[order[n][1]], direction |-> lg[order[n][1]].req.direction]
    BY <2>2 DEF Listed
  <2>4. key[order[n]] = <<tm[order[n][1]], order[n][2]>>
    BY <1>1, <2>2 DEF KeysAt
  <2> HIDE DEF events
  <2>5. QED
    BY <2>2, <2>3, <2>4
<1> HIDE DEF events
<1>6. \A n \in 1..N : events[n].time \in Nat /\ events[n].direction \in {"IN", "OUT"}
  BY <1>5
<1>7. \A m, n \in 1..N :
        m < n => Precedes(<<tm[order[m][1]], order[m][2]>>, <<tm[order[n][1]], order[n][2]>>)
  <2>1. TAKE m, n \in 1..N
  <2>2. HAVE m < n
  <2>3. Precedes(key[order[m]], key[order[n]])
    BY <1>3, <2>2
  <2>4. QED
    BY <1>5, <2>3, Zenon
<1>8. \A m, n \in 1..N : m < n => events[m].time <= events[n].time
  <2>1. TAKE m, n \in 1..N
  <2>2. HAVE m < n
  <2>3. Precedes(<<events[m].time, order[m][2]>>, <<events[n].time, order[n][2]>>)
    BY <1>5, <1>7, <2>2
  <2>4. QED
    BY <1>6, <2>3 DEF Precedes
<1>9. InTime(events, N)
  BY <1>3, <1>4, <1>6, <1>8 DEF InTime
<1>10. QED
  BY <1>1, <1>3, <1>5, <1>7, <1>9 DEF N, order, events

LEMMA CountedRows ==
  ASSUME TypeOK, TimesDiffer, NEW b \in Badges
  PROVE  LET S == Counted(b, table)
         IN  /\ IsFiniteSet(S) /\ Cardinality(S) \in Nat
             /\ KeysAt(times, S) \in [S -> Keys]
             /\ \A k, l \in S : KeysAt(times, S)[k] = KeysAt(times, S)[l] => k = l
             /\ \A k \in S : /\ k[1] \in 1..Len(log)
                             /\ times[k[1]] \in Nat /\ times[k[1]] \in 1..now
                             /\ log[k[1]].req.direction \in {"IN", "OUT"}
                             /\ log[k[1]].req.badge = b /\ log[k[1]].status = "SUCCESS"
<1> DEFINE S == Counted(b, table)
<1>1. IsFiniteSet(table) /\ table \subseteq (1..Len(log)) \X (Nat \ {0}) /\ now \in Nat
  <2>1. /\ IsFiniteSet(table) /\ table \subseteq (DOMAIN log) \X (Nat \ {0})
        /\ now \in 1..MaxTime
    BY DEF TypeOK
  <2>2. DOMAIN log = 1..Len(log) /\ now \in Nat
    BY <2>1, Decided, Bounds
  <2>3. QED
    BY <2>1, <2>2
<1>2. S \in SUBSET table
  BY DEF Counted
<1>3. IsFiniteSet(S) /\ Cardinality(S) \in Nat
  BY <1>1, <1>2, FS_Subset, FS_CardinalityType
<1>4. \A k \in S : /\ k = <<k[1], k[2]>> /\ k[1] \in 1..Len(log) /\ k[2] \in Nat
                   /\ times[k[1]] \in 1..(MaxTime + MaxSkew) /\ times[k[1]] <= now
                   /\ log[k[1]].req.direction \in {"IN", "OUT"}
                   /\ log[k[1]].req.badge = b /\ log[k[1]].status = "SUCCESS"
  <2>1. TAKE k \in S
  <2>2. k \in (1..Len(log)) \X (Nat \ {0})
    BY <1>1, <1>2
  <2>3. k = <<k[1], k[2]>> /\ k[1] \in 1..Len(log) /\ k[2] \in Nat
    BY <2>2
  <2>4. log[k[1]].req.badge = b /\ log[k[1]].status = "SUCCESS" /\ times[k[1]] <= now
    BY DEF Counted
  <2>5. times[k[1]] \in 1..(MaxTime + MaxSkew) /\ log[k[1]].req.direction \in {"IN", "OUT"}
    BY <2>3, Decided DEF Ticks
  <2>6. QED
    BY <2>3, <2>4, <2>5
<1>5. \A k \in S : times[k[1]] \in Nat /\ times[k[1]] \in 1..now
  BY <1>1, <1>4, Bounds
<1>6. KeysAt(times, S) \in [S -> Keys]
  BY <1>4, <1>5 DEF KeysAt, Keys
<1>7. \A k, l \in S : KeysAt(times, S)[k] = KeysAt(times, S)[l] => k = l
  BY <1>4, Decided DEF KeysAt, TimesDiffer
<1>8. QED
  BY <1>3, <1>4, <1>5, <1>6, <1>7

\* The events the view is made of are in the order of their times.
LEMMA EventsInTime ==
  ASSUME TypeOK, TimesDiffer, NEW b \in Badges
  PROVE  /\ InTime(EventsOf(b, table), Cardinality(Counted(b, table)))
         /\ \A n \in 1..Cardinality(Counted(b, table)) : EventsOf(b, table)[n].time \in 1..now
<1> DEFINE S == Counted(b, table)
           order == InOrder(S, KeysAt(times, S))
           events == Listed(log, times, order)
<1>1. /\ IsFiniteSet(S) /\ KeysAt(times, S) \in [S -> Keys]
      /\ \A k, l \in S : KeysAt(times, S)[k] = KeysAt(times, S)[l] => k = l
      /\ \A k \in S : /\ times[k[1]] \in Nat /\ times[k[1]] \in 1..now
                      /\ log[k[1]].req.direction \in {"IN", "OUT"}
  BY CountedRows
<1>2. EventsOf(b, table) = events
  BY DEF EventsOf, Listed, KeysAt
<1> HIDE DEF S
<1>3. /\ InTime(events, Cardinality(S))
      /\ \A n \in 1..Cardinality(S) : order[n] \in S /\ events[n].time = times[order[n][1]]
  BY <1>1, ListedInTime
<1>4. \A n \in 1..Cardinality(S) : events[n].time \in 1..now
  <2> HIDE DEF order, events
  <2>1. QED
    BY <1>1, <1>3
<1>5. QED
  BY <1>2, <1>3, <1>4 DEF S

\* A refresh makes typed rows, of days there are.
LEMMA RowsOfRefresh ==
  ASSUME TypeOK, TimesDiffer, NEW b \in Badges,
         NEW d \in DOMAIN DailyAttendance(EventsOf(b, table))
  PROVE  /\ d \in Days
         /\ DailyAttendance(EventsOf(b, table))[d] \in
              [first_in : Nat, last_out : Nat, swipe_count : Nat \ {0}, stay : 0..DayLength]
<1> DEFINE N == Cardinality(Counted(b, table))
           events == EventsOf(b, table)
<1>1. InTime(events, N) /\ \A n \in 1..N : events[n].time \in 1..now
  BY EventsInTime
<1> HIDE DEF N, events
<1>2. d \in DaysWithEvents(events)
  BY DEF DailyAttendance, events
<1>3. /\ DailyRow(events, d) \in
           [first_in : Nat, last_out : Nat, swipe_count : Nat \ {0}, stay : 0..DayLength]
      /\ d \in Nat
  BY <1>1, <1>2, RowIsTyped
<1>4. PICK n \in 1..N : d = DayOf(events[n].time)
  BY <1>1, <1>2, RowIsTyped
<1>5. events[n].time \in Nat /\ MaxTime + MaxSkew \in Nat /\ events[n].time <= MaxTime + MaxSkew
  <2>1. now \in 1..MaxTime /\ events[n].time \in 1..now
    BY <1>1, <1>4 DEF TypeOK
  <2>2. QED
    BY <2>1, Bounds
<1>6. d <= DayOf(MaxTime + MaxSkew) /\ DayOf(MaxTime + MaxSkew) \in Nat
  BY <1>4, <1>5, DaysFollowTimes
<1>7. d \in Days
  BY <1>3, <1>6 DEF Days
<1>8. DailyAttendance(events)[d] = DailyRow(events, d)
  BY <1>2 DEF DailyAttendance
<1>9. QED
  BY <1>3, <1>7, <1>8 DEF events

LEMMA RefreshTyped ==
  ASSUME TypeOK, TimesDiffer, NoDayIsOverfull, Refresh
  PROVE  TypeOK' /\ TimesDiffer' /\ NoDayIsOverfull'
<1>1. /\ view' = [b \in Badges |-> DailyAttendance(EventsOf(b, table))]
      /\ seen' = table /\ refreshedAt' = now
      /\ refreshCount' = IF refreshCount < MaxRefreshes THEN refreshCount + 1 ELSE refreshCount
      /\ UNCHANGED <<now, direction, expires, before, disturbed, log, times, table,
                     refreshErrors, faults>>
  BY DEF Refresh, gateVars
<1>2. now \in 1..MaxTime /\ refreshCount \in 0..MaxRefreshes
  BY DEF TypeOK
<1>3. refreshedAt' \in 0..now' /\ refreshCount' \in 0..MaxRefreshes
  BY <1>1, <1>2, Bounds
<1>4. TimesDiffer'
  BY <1>1 DEF TimesDiffer
<1>5. \A b \in Badges : \A d \in DOMAIN view'[b] :
        /\ d \in Days
        /\ view'[b][d] \in
             [first_in : Nat, last_out : Nat, swipe_count : Nat \ {0}, stay : 0..DayLength]
  <2>1. TAKE b \in Badges
  <2>2. view'[b] = DailyAttendance(EventsOf(b, table))
    BY <1>1
  <2>3. QED
    BY <2>2, RowsOfRefresh
<1>6. 0..DayLength \subseteq Nat
  BY DayAssumption
<1>7. ViewOK'
  BY <1>1, <1>5, <1>6 DEF ViewOK
<1>8. NoDayIsOverfull'
  BY <1>5 DEF NoDayIsOverfull
<1>9. QED
  BY <1>1, <1>3, <1>4, <1>7, <1>8 DEF TypeOK, ViewOK

-----------------------------------------------------------------------------
(* The theorems. *)

TypeInv == TypeOK /\ TimesDiffer /\ NoDayIsOverfull

LEMMA InitInv == Init => TypeInv
BY InitTyped DEF TypeInv, Init, NoDayIsOverfull

LEMMA StepTyped == TypeInv /\ [Next]_vars => TypeInv'
<1> SUFFICES ASSUME TypeInv, [Next]_vars PROVE TypeInv'
  OBVIOUS
<1>1. CASE Tick
  <2>1. /\ now < MaxTime /\ now' = now + 1
        /\ direction' = [k \in ApbKeys |-> IF expires[k] <= now' THEN "" ELSE direction[k]]
        /\ UNCHANGED <<expires, before, disturbed, log, times, table, view, seen, refreshedAt,
                       refreshCount, refreshErrors, faults>>
    BY <1>1 DEF Tick, viewVars
  <2>2. now \in 1..MaxTime /\ refreshedAt \in 0..now
    BY DEF TypeInv, TypeOK
  <2>3. now' \in 1..MaxTime /\ refreshedAt' \in 0..now'
    <3>1. now < MaxTime /\ now' = now + 1 /\ refreshedAt' = refreshedAt
      BY <2>1
    <3>2. QED
      BY <2>2, <3>1, Bounds
  <2>4. direction' \in [ApbKeys -> Directions \cup {""}]
    BY <2>1 DEF TypeInv, TypeOK
  <2>5. TypeOK'
    BY <2>1, <2>3, <2>4 DEF TypeInv, TypeOK
  <2>6. QED
    BY <2>1, <2>5 DEF TypeInv, TimesDiffer, NoDayIsOverfull
<1>8. ASSUME NEW k \in ApbKeys, Evict(k) PROVE TypeInv'
  <2>1. /\ Fault /\ direction' = [direction EXCEPT ![k] = ""] /\ disturbed' = disturbed \cup {k}
        /\ UNCHANGED <<now, expires, before, log, times, table, view, seen, refreshedAt,
                       refreshCount, refreshErrors>>
    BY <1>8 DEF Evict, viewVars
  <2>2. refreshErrors' \in 0..faults' /\ faults' \in 0..MaxFaults
    BY <2>1, FaultsBound DEF TypeInv
  <2>3. direction' \in [ApbKeys -> Directions \cup {""}] /\ disturbed' \subseteq ApbKeys
    BY <2>1 DEF TypeInv, TypeOK
  <2>4. UNCHANGED <<now, expires, before, log, times, table, view, seen, refreshedAt, refreshCount>>
    BY <2>1
  <2>5. TypeOK'
    BY <2>2, <2>3, <2>4 DEF TypeInv, TypeOK
  <2>6. QED
    BY <2>4, <2>5 DEF TypeInv, TimesDiffer, NoDayIsOverfull
<1>2. ASSUME NEW r \in Requests, NEW t \in 1..(MaxTime + MaxSkew), Swipe(r, t) \/ OverlappingSwipe(r, t)
      PROVE  TypeInv'
  <2>1. TypeOK' /\ TimesDiffer'
    BY <1>2, SwipeTyped DEF TypeInv, Ticks
  <2>2. view' = view
    BY <1>2 DEF Swipe, OverlappingSwipe, viewVars
  <2>3. QED
    BY <2>1, <2>2 DEF TypeInv, NoDayIsOverfull
<1>3. ASSUME NEW i \in 1..MaxSwipes, Store(i) PROVE TypeInv'
  <2>1. TypeOK' /\ TimesDiffer'
    BY <1>3, StoreTyped DEF TypeInv
  <2>2. view' = view
    BY <1>3 DEF Store, viewVars
  <2>3. QED
    BY <2>1, <2>2 DEF TypeInv, NoDayIsOverfull
<1>4. CASE Refresh
  BY <1>4, RefreshTyped DEF TypeInv
<1>5. CASE RefreshFails
  <2>1. /\ Fault /\ refreshErrors' = refreshErrors + 1
        /\ UNCHANGED <<now, direction, expires, before, disturbed, log, times, table, view, seen,
                       refreshedAt, refreshCount>>
    BY <1>5 DEF RefreshFails, gateVars
  <2>2. faults < MaxFaults /\ faults' = faults + 1
    BY <2>1 DEF Fault
  <2>3. refreshErrors \in 0..faults /\ faults \in 0..MaxFaults
    BY DEF TypeInv, TypeOK
  <2>4. refreshErrors' \in 0..faults' /\ faults' \in 0..MaxFaults
    BY <2>1, <2>2, <2>3, Bounds
  <2>5. TypeOK'
    BY <2>1, <2>4 DEF TypeInv, TypeOK
  <2>6. QED
    BY <2>1, <2>5 DEF TypeInv, TimesDiffer, NoDayIsOverfull
<1>6. CASE UNCHANGED vars
  BY <1>6 DEF TypeInv, TypeOK, TimesDiffer, NoDayIsOverfull, vars, gateVars, viewVars
<1>7. QED
  BY <1>1, <1>2, <1>3, <1>4, <1>5, <1>6, <1>8 DEF Next

\* Attendance is type correct: in particular every row of the view has a day
\* with an event and no number of it is negative.
THEOREM TypeCorrect == Spec => []TypeOK
<1>1. Init => TypeInv
  BY InitInv
<1>2. TypeInv /\ [Next]_vars => TypeInv'
  BY StepTyped
<1>3. TypeInv => TypeOK
  BY DEF TypeInv
<1>4. QED
  BY <1>1, <1>2, <1>3, PTL DEF Spec

\* However late, often or far in the future the rows are stamped and stored,
\* the report never gives a badge more time in a day than the day has (the
\* visits 0106 pairs do not overlap).
THEOREM DaysHoldTheirStays == Spec => []NoDayIsOverfull
<1>1. Init => TypeInv
  BY InitInv
<1>2. TypeInv /\ [Next]_vars => TypeInv'
  BY StepTyped
<1>3. TypeInv => NoDayIsOverfull
  BY DEF TypeInv
<1>4. QED
  BY <1>1, <1>2, <1>3, PTL DEF Spec

-----------------------------------------------------------------------------
(* The view is what the query makes of the rows the last refresh read.      *)

\* EventsOf, as of a time and some state of the log.
CountedAt(lg, tm, at, b, rows) ==
  {k \in rows : lg[k[1]].req.badge = b /\ lg[k[1]].status = "SUCCESS" /\ tm[k[1]] <= at}

OrderAt(lg, tm, at, b, rows) ==
  InOrder(CountedAt(lg, tm, at, b, rows), KeysAt(tm, CountedAt(lg, tm, at, b, rows)))

EventsAt(lg, tm, at, b, rows) == Listed(lg, tm, OrderAt(lg, tm, at, b, rows))

\* Badge b's events as the last refresh saw them.
SeenEvents(b) == EventsAt(log, times, refreshedAt, b, seen)

SeenOrder(b) == OrderAt(log, times, refreshedAt, b, seen)

StaysAreOfSnapshot ==
  \A b \in Badges :
    /\ DOMAIN view[b] = DaysWithEvents(SeenEvents(b))
    /\ \A d \in DOMAIN view[b] : view[b][d].stay = Stay(SeenEvents(b), d)

SnapshotInv == TypeInv /\ StaysAreOfSnapshot

LEMMA RefreshReadsTable ==
  ASSUME NEW b
  PROVE  /\ Counted(b, table) = CountedAt(log, times, now, b, table)
         /\ EventsOf(b, table) = EventsAt(log, times, now, b, table)
<1>1. Counted(b, table) = CountedAt(log, times, now, b, table)
  BY DEF Counted, CountedAt
<1>2. EventsOf(b, table) =
        Listed(log, times, InOrder(Counted(b, table), KeysAt(times, Counted(b, table))))
  BY DEF EventsOf, Listed, KeysAt
<1>3. EventsOf(b, table) = EventsAt(log, times, now, b, table)
  BY <1>1, <1>2, Zenon DEF EventsAt, OrderAt
<1>4. QED
  BY <1>1, <1>3

\* What a refresh read is what it would read again, or older.
LEMMA SeenRows ==
  ASSUME TypeOK, TimesDiffer, NEW b \in Badges
  PROVE  LET S == CountedAt(log, times, refreshedAt, b, seen)
         IN  /\ S \in SUBSET Counted(b, table)
             /\ IsFiniteSet(S) /\ Cardinality(S) \in Nat
             /\ KeysAt(times, S) \in [S -> Keys]
             /\ \A k, l \in S : KeysAt(times, S)[k] = KeysAt(times, S)[l] => k = l
             /\ OrderAt(log, times, refreshedAt, b, seen) \in [1..Cardinality(S) -> S]
             /\ \A k \in S : /\ k \in seen /\ k[1] \in 1..Len(log)
                             /\ times[k[1]] \in 1..refreshedAt
<1> DEFINE S == CountedAt(log, times, refreshedAt, b, seen)
           T == Counted(b, table)
<1>1. /\ IsFiniteSet(T) /\ KeysAt(times, T) \in [T -> Keys]
      /\ \A k, l \in T : KeysAt(times, T)[k] = KeysAt(times, T)[l] => k = l
      /\ \A k \in T : k[1] \in 1..Len(log) /\ times[k[1]] \in Nat /\ times[k[1]] \in 1..now
  BY CountedRows
<1>2. seen \subseteq table /\ refreshedAt \in 0..now /\ now \in 1..MaxTime
  BY DEF TypeOK
<1>3. now \in Nat /\ refreshedAt \in Nat /\ refreshedAt <= now
  BY <1>2, Bounds
<1>4. \A k \in S : /\ k \in seen /\ k \in table /\ k[1] \in 1..Len(log) /\ times[k[1]] <= refreshedAt
                   /\ times[k[1]] \in Nat
  <2>1. TAKE k \in S
  <2>2. k \in seen /\ times[k[1]] <= refreshedAt /\ k \in table
    BY <1>2 DEF CountedAt
  <2>3. k \in (DOMAIN log) \X (Nat \ {0})
    BY <2>2 DEF TypeOK
  <2>4. k[1] \in 1..Len(log)
    BY <2>3, Decided
  <2>5. times[k[1]] \in Ticks
    BY <2>4, Decided
  <2>6. QED
    BY <2>2, <2>4, <2>5, Bounds DEF Ticks
<1>5. S \in SUBSET T
  <2>1. \A k \in S : times[k[1]] <= now
    BY <1>3, <1>4
  <2>2. QED
    BY <1>4, <2>1 DEF CountedAt, Counted
<1>6. IsFiniteSet(S) /\ Cardinality(S) \in Nat
  BY <1>1, <1>5, FS_Subset, FS_CardinalityType
<1>7. \A k \in S : times[k[1]] \in 1..refreshedAt
  BY <1>1, <1>3, <1>4, <1>5
<1>8. \A k \in S : KeysAt(times, S)[k] = KeysAt(times, T)[k]
  BY <1>5 DEF KeysAt
<1>9. KeysAt(times, S) \in [S -> Keys]
  <2>1. DOMAIN KeysAt(times, S) = S /\ KeysAt(times, S) = [k \in S |-> KeysAt(times, S)[k]]
    BY DEF KeysAt
  <2> HIDE DEF S, T
  <2>2. QED
    BY <1>1, <1>5, <1>8, <2>1
<1>10. \A k, l \in S : KeysAt(times, S)[k] = KeysAt(times, S)[l] => k = l
  BY <1>1, <1>5, <1>8
<1>11. OrderAt(log, times, refreshedAt, b, seen) \in [1..Cardinality(S) -> S]
  <2>1. OrderAt(log, times, refreshedAt, b, seen) = InOrder(S, KeysAt(times, S))
    BY DEF OrderAt
  <2>2. PICK key : key = KeysAt(times, S)
    OBVIOUS
  <2> HIDE DEF S
  <2>3. InOrder(S, key) \in [1..Cardinality(S) -> S]
    BY <1>6, <1>9, <1>10, <2>2, OrderIsComplete
  <2>4. QED
    BY <2>1, <2>2, <2>3
<1>12. QED
  BY <1>4, <1>5, <1>6, <1>7, <1>9, <1>10, <1>11

\* Decisions that are added change nothing about those already seen.
LEMMA SeenEventsStay ==
  ASSUME TypeOK, TimesDiffer, NEW b \in Badges, NEW lg, NEW tm,
         \A i \in 1..Len(log) : lg[i] = log[i] /\ tm[i] = times[i]
  PROVE  EventsAt(lg, tm, refreshedAt, b, seen) = SeenEvents(b)
<1> DEFINE S == CountedAt(log, times, refreshedAt, b, seen)
           order == OrderAt(log, times, refreshedAt, b, seen)
<1>1. \A k \in seen : k[1] \in 1..Len(log)
  <2>1. TAKE k \in seen
  <2>2. k \in (DOMAIN log) \X (Nat \ {0})
    BY DEF TypeOK
  <2>3. QED
    BY <2>2, Decided
<1>2. CountedAt(lg, tm, refreshedAt, b, seen) = S
  BY <1>1 DEF CountedAt
<1>3. \A k \in S : k[1] \in 1..Len(log)
  BY <1>1 DEF CountedAt
<1>4. KeysAt(tm, S) = KeysAt(times, S)
  BY <1>3 DEF KeysAt
<1>5. OrderAt(lg, tm, refreshedAt, b, seen) = order
  BY <1>2, <1>4, Zenon DEF OrderAt
<1>6. order \in [1..Cardinality(S) -> S]
  BY SeenRows
<1>7. \A n \in DOMAIN order : order[n][1] \in 1..Len(log)
  <2> HIDE DEF order, S
  <2>1. QED
    BY <1>3, <1>6
<1>8. Listed(lg, tm, order) = Listed(log, times, order)
  BY <1>7 DEF Listed
<1>9. QED
  BY <1>5, <1>8, Zenon DEF EventsAt, SeenEvents

\* Nor does a step other than a refresh.
LEMMA QuietSnapshot ==
  ASSUME TypeOK, TimesDiffer, StaysAreOfSnapshot, UNCHANGED <<view, seen, refreshedAt>>,
         \A i \in 1..Len(log) : log'[i] = log[i] /\ times'[i] = times[i]
  PROVE  StaysAreOfSnapshot'
<1>1. \A b \in Badges : EventsAt(log', times', refreshedAt, b, seen) = SeenEvents(b)
  BY SeenEventsStay
<1>2. \A b \in Badges : SeenEvents(b)' = SeenEvents(b)
  BY <1>1 DEF SeenEvents
<1>3. QED
  BY <1>2 DEF StaysAreOfSnapshot

LEMMA RefreshedSnapshot ==
  ASSUME Refresh
  PROVE  /\ \A b \in Badges : SeenEvents(b)' = EventsOf(b, table)
         /\ StaysAreOfSnapshot'
<1>1. /\ view' = [b \in Badges |-> DailyAttendance(EventsOf(b, table))]
      /\ seen' = table /\ refreshedAt' = now /\ log' = log /\ times' = times
  BY DEF Refresh, gateVars
<1>2. ASSUME NEW b \in Badges PROVE SeenEvents(b)' = EventsOf(b, table)
  <2>1. SeenEvents(b)' = EventsAt(log, times, now, b, table)
    BY <1>1 DEF SeenEvents
  <2>2. QED
    BY <2>1, RefreshReadsTable
<1>3. ASSUME NEW b \in Badges
      PROVE  /\ DOMAIN view'[b] = DaysWithEvents(SeenEvents(b)')
             /\ \A d \in DOMAIN view'[b] : view'[b][d].stay = Stay(SeenEvents(b)', d)
  <2>1. PICK e : e = EventsOf(b, table)
    OBVIOUS
  <2>2. view'[b] = DailyAttendance(e) /\ SeenEvents(b)' = e
    BY <1>1, <1>2, <2>1
  <2>3. DOMAIN DailyAttendance(e) = DaysWithEvents(e)
    BY DEF DailyAttendance
  <2>4. \A d \in DaysWithEvents(e) : DailyAttendance(e)[d].stay = Stay(e, d)
    BY DEF DailyAttendance, DailyRow
  <2>5. QED
    BY <2>2, <2>3, <2>4
<1>4. QED
  BY <1>2, <1>3 DEF StaysAreOfSnapshot

LEMMA SnapshotHolds ==
  /\ Init => SnapshotInv
  /\ SnapshotInv /\ [Next]_vars => SnapshotInv'
<1>1. Init => SnapshotInv
  <2>1. SUFFICES ASSUME Init, NEW b \in Badges
                 PROVE  view[b] = <<>> /\ DaysWithEvents(SeenEvents(b)) = {}
    BY InitInv DEF SnapshotInv, StaysAreOfSnapshot
  <2>2. view = [x \in Badges |-> <<>>] /\ seen = {} /\ TypeOK /\ TimesDiffer
    BY <2>1, InitInv DEF Init, TypeInv
  <2>3. PICK S : S = CountedAt(log, times, refreshedAt, b, seen)
    OBVIOUS
  <2>4. S = {} /\ Cardinality({}) = 0
    BY <2>2, <2>3, FS_EmptySet DEF CountedAt
  <2>5. PICK order : order = SeenOrder(b)
    OBVIOUS
  <2>6. DOMAIN order = 1..0
    BY <2>2, <2>3, <2>4, <2>5, SeenRows DEF SeenOrder
  <2>7. SeenEvents(b) = Listed(log, times, order)
    BY <2>5 DEF SeenEvents, EventsAt, SeenOrder
  <2>8. DOMAIN SeenEvents(b) = 1..0
    BY <2>6, <2>7 DEF Listed
  <2>9. QED
    BY <2>2, <2>8 DEF DaysWithEvents
<1>2. ASSUME SnapshotInv, [Next]_vars PROVE StaysAreOfSnapshot'
  <2>1. TypeOK /\ TimesDiffer /\ StaysAreOfSnapshot
    BY <1>2 DEF SnapshotInv, TypeInv
  <2>2. ASSUME UNCHANGED <<log, times, view, seen, refreshedAt>> PROVE StaysAreOfSnapshot'
    BY <2>1, <2>2, QuietSnapshot
  <2>3. ASSUME Tick \/ \E k \in ApbKeys : Evict(k) PROVE StaysAreOfSnapshot'
    BY <2>2, <2>3 DEF Tick, Evict, viewVars
  <2>4. ASSUME NEW r \in Requests, NEW t, Swipe(r, t) \/ OverlappingSwipe(r, t)
        PROVE  StaysAreOfSnapshot'
    <3>1. /\ UNCHANGED <<view, seen, refreshedAt>> /\ times' = Append(times, t)
          /\ \E s \in Statuses :
               log' = Append(log, [swipe |-> Len(log) + 1, req |-> r, status |-> s])
      BY <2>1, <2>4, GateDecides, Zenon
    <3>2. log \in Seq(AccessEvents) /\ times \in Seq(1..(MaxTime + MaxSkew)) /\ Len(times) = Len(log)
      BY <2>1 DEF TypeOK
    <3>3. PICK e : log' = Append(log, e)
      BY <3>1
    <3>4. \A i \in 1..Len(log) : log'[i] = log[i] /\ times'[i] = times[i]
      BY <3>1, <3>2, <3>3
    <3>5. QED
      BY <2>1, <3>1, <3>4, QuietSnapshot
  <2>5. ASSUME NEW i \in 1..MaxSwipes, Store(i) PROVE StaysAreOfSnapshot'
    BY <2>2, <2>5 DEF Store, gateVars, viewVars
  <2>6. CASE Refresh
    BY <2>6, RefreshedSnapshot
  <2>7. CASE RefreshFails
    BY <2>2, <2>7 DEF RefreshFails, gateVars
  <2>8. CASE UNCHANGED vars
    BY <2>2, <2>8 DEF vars, gateVars, viewVars
  <2>9. QED
    BY <1>2, <2>3, <2>4, <2>5, <2>6, <2>7, <2>8 DEF Next
<1>3. QED
  BY <1>1, <1>2, StepTyped DEF SnapshotInv

\* Without a late row, what is new comes after what was seen.
LEMMA NewRowsComeLast ==
  ASSUME TypeOK, TimesDiffer, ~LateRow, NEW b \in Badges
  PROVE  Extends(EventsOf(b, table), Cardinality(Counted(b, table)), SeenEvents(b),
                 Cardinality(CountedAt(log, times, refreshedAt, b, seen)))
<1> DEFINE S == CountedAt(log, times, refreshedAt, b, seen)
           T == Counted(b, table)
           old == OrderAt(log, times, refreshedAt, b, seen)
           new == InOrder(T, KeysAt(times, T))
<1>1. /\ IsFiniteSet(T) /\ KeysAt(times, T) \in [T -> Keys]
      /\ \A k, l \in T : KeysAt(times, T)[k] = KeysAt(times, T)[l] => k = l
      /\ \A k \in T : times[k[1]] \in Nat
  BY CountedRows
<1>2. /\ S \in SUBSET T /\ IsFiniteSet(S) /\ Cardinality(S) \in Nat
      /\ KeysAt(times, S) \in [S -> Keys]
      /\ old \in [1..Cardinality(S) -> S]
      /\ \A k \in S : k \in seen /\ times[k[1]] \in 1..refreshedAt
  BY SeenRows
<1>3. \A i \in S : \A j \in T \ S : times[i[1]] < times[j[1]]
  <2>1. TAKE i \in S
  <2>2. TAKE j \in T \ S
  <2>3. times[i[1]] \in Nat /\ times[j[1]] \in Nat /\ i \in seen /\ j \in table
    BY <1>1, <1>2 DEF Counted
  <2>4. refreshedAt \in Nat
    <3>1. refreshedAt \in 0..now /\ now \in 1..MaxTime
      BY DEF TypeOK
    <3>2. QED
      BY <3>1, Bounds
  <2>5. CASE j \in seen
    <3>1. ~ (times[j[1]] <= refreshedAt)
      BY <2>5 DEF Counted, CountedAt
    <3>2. times[i[1]] <= refreshedAt
      BY <1>2
    <3>3. QED
      BY <2>3, <2>4, <3>1, <3>2
  <2>6. CASE j \notin seen
    <3>1. ~ (times[j[1]] <= times[i[1]])
      BY <2>3, <2>6 DEF LateRow
    <3>2. QED
      BY <2>3, <3>1
  <2>7. QED
    BY <2>5, <2>6
<1>4. \A i \in S : KeysAt(times, S)[i] = KeysAt(times, T)[i]
  BY <1>2 DEF KeysAt
<1>5. \A i \in S : \A j \in T \ S : Precedes(KeysAt(times, T)[i], KeysAt(times, T)[j])
  BY <1>2, <1>3 DEF KeysAt, Precedes
<1>6. old = InOrder(S, KeysAt(times, S))
  BY DEF OrderAt
<1>7. /\ Cardinality(S) \in 0..Cardinality(T) /\ Cardinality(T) \in Nat
      /\ \A n \in 1..Cardinality(S) : new[n] = old[n]
  <2>1. PICK key : key = KeysAt(times, T)
    OBVIOUS
  <2>2. PICK part : part = KeysAt(times, S)
    OBVIOUS
  <2> HIDE DEF S, T, old, new
  <2>3. /\ Cardinality(S) \in 0..Cardinality(T) /\ Cardinality(T) \in Nat
        /\ \A n \in 1..Cardinality(S) : InOrder(T, key)[n] = InOrder(S, part)[n]
    BY <1>1, <1>2, <1>4, <1>5, <2>1, <2>2, OrderExtends
  <2>4. QED
    BY <1>6, <2>1, <2>2, <2>3 DEF new
<1>8. SeenEvents(b) = Listed(log, times, old) /\ EventsOf(b, table) = Listed(log, times, new)
  BY DEF SeenEvents, EventsAt, EventsOf, Listed, KeysAt
<1>9. InTime(EventsOf(b, table), Cardinality(T))
  BY EventsInTime
<1>10. DOMAIN SeenEvents(b) = 1..Cardinality(S) /\ DOMAIN new = 1..Cardinality(T)
  <2> HIDE DEF S, T, old, new
  <2>1. DOMAIN old = 1..Cardinality(S)
    BY <1>2
  <2>2. DOMAIN EventsOf(b, table) = 1..Cardinality(T)
    BY <1>9 DEF InTime
  <2>3. QED
    BY <1>8, <2>1, <2>2 DEF Listed
<1>11. \A n \in 1..Cardinality(S) : SeenEvents(b)[n] = EventsOf(b, table)[n]
  <2>1. TAKE n \in 1..Cardinality(S)
  <2> HIDE DEF S, T, old, new
  <2>2. n \in DOMAIN old /\ n \in DOMAIN new /\ new[n] = old[n]
    BY <1>2, <1>7, <1>10
  <2>3. QED
    BY <1>8, <2>2 DEF Listed
<1>12. QED
  BY <1>7, <1>9, <1>10, <1>11 DEF Extends

\* StayShrinksByLateRowsOnly, of one step.
StayKept ==
  \A b \in Badges : \A d \in DOMAIN view[b] :
    LateRow \/ (d \in DOMAIN view'[b] /\ view'[b][d].stay >= view[b][d].stay)

LEMMA StepKeepsStay == SnapshotInv /\ [Next]_vars => StayKept
<1> SUFFICES ASSUME SnapshotInv, [Next]_vars, NEW b \in Badges, NEW d \in DOMAIN view[b], ~LateRow
             PROVE  d \in DOMAIN view'[b] /\ view'[b][d].stay >= view[b][d].stay
  BY DEF StayKept
<1>1. TypeOK /\ TimesDiffer /\ StaysAreOfSnapshot
  BY DEF SnapshotInv, TypeInv
<1>2. view[b][d].stay \in Nat
  BY <1>1 DEF TypeOK
<1>3. CASE view' = view
  <2>1. view'[b] = view[b]
    BY <1>3
  <2>2. QED
    BY <1>2, <2>1
<1>4. CASE Refresh
  <2> DEFINE N == Cardinality(CountedAt(log, times, refreshedAt, b, seen))
             M == Cardinality(Counted(b, table))
  <2>1. PICK old, new : old = SeenEvents(b) /\ new = EventsOf(b, table)
    OBVIOUS
  <2>2. Extends(new, M, old, N)
    BY <1>1, <2>1, NewRowsComeLast
  <2>3. d \in DaysWithEvents(old) /\ view[b][d].stay = Stay(old, d)
    BY <1>1, <2>1 DEF StaysAreOfSnapshot
  <2> HIDE DEF N, M
  <2>4. d \in DaysWithEvents(new) /\ Stay(old, d) <= Stay(new, d)
    BY <2>2, <2>3, StayGrows
  <2>5. view'[b] = DailyAttendance(new)
    BY <1>4, <2>1 DEF Refresh
  <2>6. d \in DOMAIN DailyAttendance(new) /\ DailyAttendance(new)[d].stay = Stay(new, d)
    BY <2>4 DEF DailyAttendance, DailyRow
  <2>7. Stay(new, d) >= Stay(old, d)
    BY <2>4
  <2>8. QED
    BY <2>3, <2>5, <2>6, <2>7
<1>5. view' = view \/ Refresh
  BY DEF Next, Tick, Evict, Swipe, OverlappingSwipe, Store, RefreshFails, vars, viewVars
<1>6. QED
  BY <1>3, <1>4, <1>5

\* However rows are stored, late ones or repeated ones excepted, a refresh
\* never takes back time the report has shown: it only adds visits.
THEOREM StaysOnlyGrow == Spec => StayShrinksByLateRowsOnly
<1>1. Init => SnapshotInv
  BY SnapshotHolds
<1>2. SnapshotInv /\ [Next]_vars => SnapshotInv'
  BY SnapshotHolds
<1>3. SnapshotInv /\ [Next]_vars => StayKept
  BY StepKeepsStay
<1>4. Spec => [][StayKept]_vars
  BY <1>1, <1>2, <1>3, PTL DEF Spec
<1>5. QED
  BY <1>4 DEF StayShrinksByLateRowsOnly, StayKept


-----------------------------------------------------------------------------
(* The gate grants a direction again only when its record has expired.      *)

\* The last grant at a key nothing has disturbed is on record, or its day is over.
LastGrant(lg, i) ==
  /\ lg[i].status = "SUCCESS"
  /\ \A j \in DOMAIN lg : i < j /\ lg[j].status = "SUCCESS" => ApbKey(lg[j].req) # ApbKey(lg[i].req)

OnRecord(i) ==
  LET k == ApbKey(log[i].req)
  IN  /\ times[i] <= now
      /\ \/ direction[k] = log[i].req.direction /\ expires[k] = times[i] + DayLength
         \/ times[i] + DayLength <= now

LastIsOnRecord ==
  \A i \in DOMAIN log : LastGrant(log, i) /\ ApbKey(log[i].req) \notin disturbed => OnRecord(i)

RepeatInv == TypeInv /\ LastIsOnRecord /\ RepeatsNeedADay

LEMMA RepeatsStay ==
  ASSUME RepeatsNeedADay, log' = log, times' = times, disturbed \subseteq disturbed'
  PROVE  RepeatsNeedADay'
<1>1. \A i : Before(i)' = Before(i)
  BY DEF Before
<1>2. QED
  BY <1>1 DEF RepeatsNeedADay

LEMMA TickKeepsRecords ==
  ASSUME TypeOK, LastIsOnRecord, Tick
  PROVE  LastIsOnRecord'
<1>1. /\ now' = now + 1 /\ UNCHANGED <<expires, log, times, disturbed>>
      /\ direction' = [k \in ApbKeys |-> IF expires[k] <= now' THEN "" ELSE direction[k]]
  BY DEF Tick
<1>2. SUFFICES ASSUME NEW i \in DOMAIN log, OnRecord(i) PROVE OnRecord(i)'
  BY <1>1 DEF LastIsOnRecord, LastGrant
<1>3. PICK k : k = ApbKey(log[i].req)
  OBVIOUS
<1>4. k \in ApbKeys /\ times[i] \in Nat /\ now \in Nat /\ DayLength \in Nat /\ expires[k] \in Int
  <2>1. log[i].req \in Requests /\ times[i] \in Ticks
    BY Decided
  <2>2. k \in ApbKeys
    BY <1>3, <2>1, KeysOfGates
  <2>3. now \in 1..MaxTime /\ expires \in [ApbKeys -> 0..(MaxTime + DayLength)]
    BY DEF TypeOK
  <2>4. expires[k] \in 0..(MaxTime + DayLength)
    BY <2>2, <2>3
  <2>5. QED
    BY <2>1, <2>2, <2>3, <2>4, Bounds, DayAssumption DEF Ticks
<1>9. now' = now + 1 /\ times'[i] = times[i]
  BY <1>1
<1>5. times[i] <= now'
  <2>1. times[i] <= now
    BY <1>2 DEF OnRecord
  <2>2. QED
    BY <1>4, <1>9, <2>1
<1>6. CASE times[i] + DayLength <= now
  <2>1. times[i] + DayLength <= now'
    BY <1>4, <1>6, <1>9
  <2>2. QED
    BY <1>1, <1>5, <2>1 DEF OnRecord
<1>7. CASE direction[k] = log[i].req.direction /\ expires[k] = times[i] + DayLength
  <2>1. CASE expires[k] <= now'
    BY <1>1, <1>5, <1>7, <2>1 DEF OnRecord
  <2>2. CASE ~ (expires[k] <= now')
    <3>1. direction'[k] = direction[k]
      BY <1>1, <1>4, <2>2
    <3>2. QED
      BY <1>1, <1>3, <1>5, <1>7, <3>1 DEF OnRecord
  <2>3. QED
    BY <2>1, <2>2
<1>8. QED
  BY <1>2, <1>3, <1>6, <1>7 DEF OnRecord

LEMMA EvictKeepsRecords ==
  ASSUME TypeOK, LastIsOnRecord, NEW k \in ApbKeys, Evict(k)
  PROVE  LastIsOnRecord'
<1>1. /\ UNCHANGED <<now, expires, log, times>> /\ disturbed' = disturbed \cup {k}
      /\ direction' = [direction EXCEPT ![k] = ""]
  BY DEF Evict
<1>2. SUFFICES ASSUME NEW i \in DOMAIN log, OnRecord(i), ApbKey(log[i].req) # k
               PROVE  OnRecord(i)'
  BY <1>1 DEF LastIsOnRecord, LastGrant
<1>3. direction'[ApbKey(log[i].req)] = direction[ApbKey(log[i].req)]
  <2>1. ApbKey(log[i].req) \in ApbKeys
    BY Decided, KeysOfGates
  <2>2. QED
    BY <1>1, <1>2, <2>1 DEF TypeOK
<1>4. QED
  BY <1>1, <1>2, <1>3 DEF OnRecord

\* A swipe at a key it does not disturb is stamped now and was checked.
LEMMA GateChecks ==
  ASSUME NEW r \in Requests, NEW t, Swipe(r, t) \/ OverlappingSwipe(r, t),
         ApbKey(r) \notin disturbed'
  PROVE  /\ t = now
         /\ \/ direction[ApbKey(r)] # r.direction
            \/ log' = Append(log, [swipe |-> Len(log) + 1, req |-> r, status |-> "REJECTED_APB"])
<1>1. Swipe(r, t) /\ t = now
  BY DEF Swipe, OverlappingSwipe
<1>2. Gate!ApbKey(r) = ApbKey(r)
  BY KeysOfGates
<1>3. Gate!Grant(Len(log) + 1, r) \/ Gate!Refuse(Len(log) + 1, r)
  BY <1>1 DEF Swipe
<1>4. QED
  BY <1>1, <1>2, <1>3 DEF Gate!Grant, Gate!MayPass, Gate!Refuse, Gate!Record

LEMMA SwipeKeepsRecords ==
  ASSUME TypeOK, LastIsOnRecord, RepeatsNeedADay, NEW r \in Requests, NEW t \in Ticks,
         Swipe(r, t) \/ OverlappingSwipe(r, t)
  PROVE  LastIsOnRecord' /\ RepeatsNeedADay'
<1>1. PICK N, k : N = Len(log) /\ k = ApbKey(r)
  OBVIOUS
<1>2. /\ N \in Nat /\ DOMAIN log = 1..N /\ DOMAIN times = 1..N
      /\ log \in Seq(AccessEvents) /\ times \in Seq(Ticks) /\ Len(times) = N
  BY <1>1, Decided DEF TypeOK, Ticks
<1>3. /\ times' = Append(times, t) /\ now' = now
      /\ disturbed' = disturbed \/ disturbed' = disturbed \cup {k}
  BY <1>1, GateDecides, Zenon
<1>4. PICK s \in Statuses :
        /\ log' = Append(log, [swipe |-> N + 1, req |-> r, status |-> s])
        /\ \/ /\ s = "SUCCESS"
              /\ direction' = [direction EXCEPT ![k] = r.direction]
              /\ expires' = [expires EXCEPT ![k] = now + DayLength]
           \/ s # "SUCCESS" /\ direction' = direction /\ expires' = expires
  BY <1>1, GateDecides, Zenon
<1>5. /\ DOMAIN log' = 1..(N + 1) /\ log'[N + 1].req = r /\ log'[N + 1].status = s
      /\ \A i \in 1..N : log'[i] = log[i]
  <2>1. PICK l, l2, e : l = log /\ l2 = log' /\ e = [swipe |-> N + 1, req |-> r, status |-> s]
    OBVIOUS
  <2>2. l \in Seq(AccessEvents) /\ l2 = Append(l, e) /\ Len(l) = N
    BY <1>1, <1>2, <1>4, <2>1
  <2>3. DOMAIN l2 = 1..(N + 1) /\ l2[N + 1] = e /\ \A i \in 1..N : l2[i] = l[i]
    BY <2>2
  <2>4. e.req = r /\ e.status = s
    BY <2>1
  <2>5. QED
    BY <2>1, <2>3, <2>4
<1>6. times'[N + 1] = t /\ \A i \in 1..N : times'[i] = times[i]
  BY <1>2, <1>3
<1>7. \A i : i \in 1..(N + 1) <=> i \in 1..N \/ i = N + 1
  BY <1>2
<1>8. \A i \in 1..N : i \in 1..(N + 1) /\ i < N + 1 /\ ~ (N + 1 < i)
  BY <1>2
<1>9. k \in ApbKeys /\ DOMAIN direction = ApbKeys /\ DOMAIN expires = ApbKeys
  BY <1>1, KeysOfGates DEF TypeOK
<1>10. k \notin disturbed' => t = now /\ (s = "SUCCESS" => direction[k] # r.direction)
  <2>1. SUFFICES ASSUME k \notin disturbed'
                 PROVE  t = now /\ (s = "SUCCESS" => direction[k] # r.direction)
    OBVIOUS
  <2>2. /\ t = now
        /\ \/ direction[k] # r.direction
           \/ log' = Append(log, [swipe |-> N + 1, req |-> r, status |-> "REJECTED_APB"])
    BY <1>1, <2>1, GateChecks
  <2>3. ASSUME log' = Append(log, [swipe |-> N + 1, req |-> r, status |-> "REJECTED_APB"])
        PROVE  s # "SUCCESS"
    <3>1. PICK l, l2, e : l = log /\ l2 = log' /\ e = [swipe |-> N + 1, req |-> r, status |-> "REJECTED_APB"]
      OBVIOUS
    <3>2. l \in Seq(AccessEvents) /\ l2 = Append(l, e) /\ Len(l) = N
      BY <1>1, <1>2, <2>3, <3>1
    <3>3. l2[N + 1] = e
      BY <3>2
    <3>4. e.status # "SUCCESS"
      BY <3>1
    <3>5. QED
      BY <1>5, <3>1, <3>3, <3>4
  <2>4. QED
    BY <2>2, <2>3
<1>11. \A i \in 1..N : times[i] \in Nat /\ ApbKey(log[i].req) \in ApbKeys
  <2>1. TAKE i \in 1..N
  <2>2. log[i].req \in Requests /\ times[i] \in Ticks
    BY <1>1, Decided
  <2>3. QED
    BY <2>2, KeysOfGates, Bounds DEF Ticks
<1>12. now \in Nat /\ DayLength \in Nat
  <2>1. now \in 1..MaxTime
    BY DEF TypeOK
  <2>2. QED
    BY <2>1, Bounds, DayAssumption
<1>13. ASSUME NEW i \in 1..(N + 1), LastGrant(log', i), ApbKey(log'[i].req) \notin disturbed'
       PROVE  OnRecord(i)'
  <2>1. CASE i = N + 1
    <3>1. s = "SUCCESS" /\ ApbKey(log'[i].req) = k /\ log'[i].req = r
      BY <1>1, <1>5, <1>13, <2>1 DEF LastGrant
    <3>2. times'[i] = now
      BY <1>6, <1>10, <1>13, <2>1, <3>1
    <3>3. direction'[k] = r.direction /\ expires'[k] = now + DayLength
      BY <1>4, <1>9, <3>1
    <3>4. now <= now
      BY <1>12
    <3>5. QED
      BY <1>3, <3>1, <3>2, <3>3, <3>4 DEF OnRecord
  <2>2. CASE i \in 1..N
    <3>1. log'[i] = log[i] /\ times'[i] = times[i]
      BY <1>5, <1>6, <2>2
    <3>2. LastGrant(log, i)
      BY <1>2, <1>5, <1>8, <1>13, <2>2, <3>1 DEF LastGrant
    <3>3. OnRecord(i)
      BY <1>2, <1>3, <1>13, <2>2, <3>1, <3>2 DEF LastIsOnRecord
    <3>4. PICK l : l = ApbKey(log[i].req)
      OBVIOUS
    <3>5. direction'[l] = direction[l] /\ expires'[l] = expires[l]
      <4>1. CASE s = "SUCCESS"
        <5>1. ApbKey(log'[N + 1].req) # ApbKey(log'[i].req)
          BY <1>5, <1>7, <1>8, <1>13, <2>2, <4>1 DEF LastGrant
        <5>2. l # k /\ l \in ApbKeys
          BY <1>1, <1>5, <1>11, <2>2, <3>1, <3>4, <5>1
        <5>3. QED
          BY <1>4, <1>9, <4>1, <5>2
      <4>2. CASE s # "SUCCESS"
        BY <1>4, <4>2
      <4>3. QED
        BY <4>1, <4>2
    <3>6. QED
      BY <1>3, <3>1, <3>3, <3>4, <3>5 DEF OnRecord
  <2>3. QED
    BY <1>7, <2>1, <2>2
<1>14. LastIsOnRecord'
  BY <1>5, <1>13 DEF LastIsOnRecord
<1>15. \A i \in 1..N : /\ Before(i)' = Before(i) /\ Before(i) \in SUBSET (1..N)
                       /\ Before(i) \in SUBSET Nat /\ IsFiniteSet(Before(i))
  <2>1. TAKE i \in 1..N
  <2>2. 1..(i - 1) \in SUBSET (1..N) /\ 1..(i - 1) \in SUBSET Nat /\ i - 1 \in Int
    BY <1>2
  <2>3. Before(i)' = Before(i) /\ Before(i) \in SUBSET (1..(i - 1))
    BY <1>5, <2>2 DEF Before
  <2>4. IsFiniteSet(1..(i - 1))
    BY <2>2, FS_Interval
  <2>5. QED
    BY <2>2, <2>3, <2>4, FS_Subset
<1>16. PICK B : B = Before(N + 1)'
  OBVIOUS
<1>17. /\ B \in SUBSET (1..N) /\ B \in SUBSET Nat /\ IsFiniteSet(B)
       /\ \A j \in 1..N : j \in B <=> log[j].status = "SUCCESS" /\ ApbKey(log[j].req) = k
  <2>1. (N + 1) - 1 = N /\ 1..N \in SUBSET Nat
    BY <1>2
  <2>2. B = {j \in 1..N : log'[j].status = "SUCCESS" /\ ApbKey(log'[j].req) = k}
    BY <1>1, <1>5, <1>16, <2>1 DEF Before
  <2>3. IsFiniteSet(1..N)
    BY <1>2, FS_Interval
  <2>4. B \in SUBSET (1..N)
    BY <2>2
  <2>5. QED
    BY <1>5, <2>1, <2>2, <2>3, <2>4, FS_Subset
<1>18. ASSUME NEW i \in 1..(N + 1), log'[i].status = "SUCCESS", Before(i)' # {},
              ApbKey(log'[i].req) \notin disturbed',
              log'[Max(Before(i)')].req.direction = log'[i].req.direction
       PROVE  times'[i] >= times'[Max(Before(i)')] + DayLength
  <2>1. CASE i = N + 1
    <3>1. PICK m : m = Max(B)
      OBVIOUS
    <3>2. m \in B /\ \A j \in B : j <= m
      BY <1>16, <1>17, <1>18, <2>1, <3>1, Extremes
    <3>3. m \in 1..N /\ log[m].status = "SUCCESS" /\ ApbKey(log[m].req) = k
      BY <1>17, <3>2
    <3>4. ASSUME NEW j \in 1..N, m < j, log[j].status = "SUCCESS", ApbKey(log[j].req) = k
          PROVE  FALSE
      <4>1. j <= m
        BY <1>17, <3>2, <3>4
      <4>2. QED
        BY <1>2, <3>3, <3>4, <4>1
    <3>5. LastGrant(log, m)
      BY <1>2, <3>3, <3>4 DEF LastGrant
    <3>6. k \notin disturbed' /\ k \notin disturbed /\ s = "SUCCESS"
      BY <1>1, <1>3, <1>5, <1>18, <2>1
    <3>7. OnRecord(m)
      BY <1>2, <3>3, <3>5, <3>6 DEF LastIsOnRecord
    <3>8. log[m].req.direction = r.direction /\ direction[k] # r.direction /\ t = now
      BY <1>5, <1>10, <1>16, <1>18, <2>1, <3>1, <3>3, <3>6
    <3>9. times[m] + DayLength <= now
      BY <3>3, <3>7, <3>8 DEF OnRecord
    <3>10. times'[i] = now /\ times'[Max(Before(i)')] = times[m]
      BY <1>6, <1>16, <2>1, <3>1, <3>3, <3>8
    <3>11. QED
      BY <1>11, <1>12, <3>3, <3>9, <3>10
  <2>2. CASE i \in 1..N
    <3>1. PICK m : m = Max(Before(i))
      OBVIOUS
    <3>2. m \in Before(i) /\ Before(i)' = Before(i) /\ Before(i) # {}
      BY <1>15, <1>18, <2>2, <3>1, Extremes
    <3>3. m \in 1..N /\ times'[m] = times[m] /\ times'[i] = times[i]
          /\ log'[m] = log[m] /\ log'[i] = log[i]
      BY <1>5, <1>6, <1>15, <2>2, <3>2
    <3>4. /\ log[i].status = "SUCCESS" /\ ApbKey(log[i].req) \notin disturbed
          /\ log[m].req.direction = log[i].req.direction
      BY <1>3, <1>18, <3>1, <3>2, <3>3
    <3>5. times[i] >= times[m] + DayLength
      BY <1>2, <2>2, <3>1, <3>2, <3>4 DEF RepeatsNeedADay
    <3>6. QED
      BY <3>1, <3>2, <3>3, <3>5
  <2>3. QED
    BY <1>7, <2>1, <2>2
<1>19. RepeatsNeedADay'
  BY <1>5, <1>18 DEF RepeatsNeedADay
<1>20. QED
  BY <1>14, <1>19

\* Where no record was evicted, no clock ahead and no swipe overlapping
\* another, the gate grants a direction twice in a row only a day after the
\* last grant at that gate (SetDirectionAndPublishEvent renews the 24 hours),
\* for any badges, gates and length of the day, whatever happens elsewhere.
THEOREM RepeatsAreADayApart == Spec => []RepeatsNeedADay
<1>1. Init => RepeatInv
  <2>1. SUFFICES ASSUME Init PROVE RepeatInv
    OBVIOUS
  <2>2. log = <<>>
    BY <2>1 DEF Init, Gate!Init
  <2>3. DOMAIN log = {}
    BY <2>2
  <2>4. QED
    BY <2>1, <2>3, InitInv DEF RepeatInv, LastIsOnRecord, RepeatsNeedADay
<1>2. ASSUME RepeatInv, [Next]_vars PROVE LastIsOnRecord' /\ RepeatsNeedADay'
  <2>1. TypeOK /\ LastIsOnRecord /\ RepeatsNeedADay
    BY <1>2 DEF RepeatInv, TypeInv
  <2>2. CASE Tick
    <3>1. log' = log /\ times' = times /\ disturbed' = disturbed
      BY <2>2 DEF Tick
    <3>2. QED
      BY <2>1, <2>2, <3>1, TickKeepsRecords, RepeatsStay
  <2>3. ASSUME NEW k \in ApbKeys, Evict(k) PROVE LastIsOnRecord' /\ RepeatsNeedADay'
    <3>1. log' = log /\ times' = times /\ disturbed \subseteq disturbed'
      BY <2>3 DEF Evict
    <3>2. QED
      BY <2>1, <2>3, <3>1, EvictKeepsRecords, RepeatsStay
  <2>4. ASSUME NEW r \in Requests, NEW t \in 1..(MaxTime + MaxSkew),
               Swipe(r, t) \/ OverlappingSwipe(r, t)
        PROVE  LastIsOnRecord' /\ RepeatsNeedADay'
    BY <2>1, <2>4, SwipeKeepsRecords DEF Ticks
  <2>5. CASE UNCHANGED <<now, direction, expires, log, times, disturbed>>
    <3>1. LastIsOnRecord'
      BY <2>1, <2>5 DEF LastIsOnRecord, LastGrant, OnRecord
    <3>2. QED
      BY <2>1, <2>5, <3>1, RepeatsStay
  <2>6. \/ Tick \/ (\E k \in ApbKeys : Evict(k))
        \/ \E r \in Requests, t \in 1..(MaxTime + MaxSkew) : Swipe(r, t) \/ OverlappingSwipe(r, t)
        \/ UNCHANGED <<now, direction, expires, log, times, disturbed>>
    BY <1>2 DEF Next, Store, Refresh, RefreshFails, vars, gateVars
  <2>7. QED
    BY <2>2, <2>3, <2>4, <2>5, <2>6
<1>3. RepeatInv /\ [Next]_vars => RepeatInv'
  BY <1>2, StepTyped DEF RepeatInv
<1>4. RepeatInv => RepeatsNeedADay
  BY DEF RepeatInv
<1>5. QED
  BY <1>1, <1>3, <1>4, PTL DEF Spec

-----------------------------------------------------------------------------
(* An up-to-date view has seen exactly the granted decisions of a badge, in *)
(* the order the gate made them.                                            *)

\* Badge b's grants up to time t.
GrantedTo(b, t) ==
  {i \in DOMAIN log : log[i].status = "SUCCESS" /\ log[i].req.badge = b /\ times[i] <= t}

\* The decision behind the n-th event, and its key.
Decision(b) == [n \in DOMAIN SeenOrder(b) |-> SeenOrder(b)[n][1]]

KeyAt(b) == [n \in DOMAIN SeenOrder(b) |-> ApbKey(log[SeenOrder(b)[n][1]].req)]

\* The events e of badge b, their number N, their decisions g and their keys.
SeesAll(b, e, N, g, gate) ==
  /\ InTime(e, N) /\ N \in Nat
  /\ \A n \in 1..N : /\ g[n] \in GrantedTo(b, refreshedAt) /\ g[n] \in Nat
                     /\ e[n].time = times[g[n]] /\ e[n].direction = log[g[n]].req.direction
                     /\ gate[n] = ApbKey(log[g[n]].req)
  /\ \A i \in GrantedTo(b, refreshedAt) : \E n \in 1..N : g[n] = i
  /\ \A m, n \in 1..N : m < n => g[m] < g[n] /\ e[m].time < e[n].time

LEMMA RefreshTime == TypeOK => now \in Nat /\ refreshedAt \in Nat /\ refreshedAt <= now
<1> SUFFICES ASSUME TypeOK PROVE now \in Nat /\ refreshedAt \in Nat /\ refreshedAt <= now
  OBVIOUS
<1>1. refreshedAt \in 0..now /\ now \in 1..MaxTime
  BY DEF TypeOK
<1>2. QED
  BY <1>1, Bounds

LEMMA ViewSeesAll ==
  ASSUME TypeOK, TimesDiffer, UpToDate, NEW b \in Badges
  PROVE  \E N : SeesAll(b, SeenEvents(b), N, Decision(b), KeyAt(b))
<1> DEFINE S == CountedAt(log, times, refreshedAt, b, seen)
           N == Cardinality(S)
           order == SeenOrder(b)
           e == SeenEvents(b)
           g == Decision(b)
<1>1. /\ IsFiniteSet(S) /\ N \in Nat /\ KeysAt(times, S) \in [S -> Keys]
      /\ \A k, l \in S : KeysAt(times, S)[k] = KeysAt(times, S)[l] => k = l
      /\ \A k \in S : k \in seen /\ k[1] \in 1..Len(log) /\ times[k[1]] \in 1..refreshedAt
  BY SeenRows
<1>2. /\ Len(log) \in Nat /\ DOMAIN log = 1..Len(log)
      /\ \A i \in 1..Len(log) : log[i].req.direction \in {"IN", "OUT"}
  BY Decided
<1>3. \A i \in 1..Len(log) : times[i] \in Nat
  BY Decided, Bounds DEF Ticks
<1>4. order = InOrder(S, KeysAt(times, S)) /\ e = Listed(log, times, order)
  BY DEF SeenOrder, OrderAt, SeenEvents, EventsAt
<1>5. /\ InTime(e, N) /\ order \in [1..N -> S]
      /\ \A k \in S : \E n \in 1..N : order[n] = k
      /\ \A n \in 1..N : /\ order[n] \in S /\ e[n].time = times[order[n][1]]
                         /\ e[n].direction = log[order[n][1]].req.direction
      /\ \A m, n \in 1..N :
           m < n => Precedes(<<times[order[m][1]], order[m][2]>>, <<times[order[n][1]], order[n][2]>>)
  <2>1. \A k \in S : times[k[1]] \in Nat /\ log[k[1]].req.direction \in {"IN", "OUT"}
    BY <1>1, <1>2, <1>3
  <2> DEFINE ord == InOrder(S, KeysAt(times, S))
             ev == Listed(log, times, ord)
  <2> HIDE DEF S, order, e
  <2>2. /\ InTime(ev, N) /\ ord \in [1..N -> S]
        /\ \A k \in S : \E n \in 1..N : ord[n] = k
        /\ \A n \in 1..N : /\ ord[n] \in S /\ ev[n].time = times[ord[n][1]]
                           /\ ev[n].direction = log[ord[n][1]].req.direction
        /\ \A m, n \in 1..N :
             m < n => Precedes(<<times[ord[m][1]], ord[m][2]>>, <<times[ord[n][1]], ord[n][2]>>)
    <3>1. InTime(ev, N) /\ ord \in [1..N -> S]
      BY <1>1, <2>1, ListedInTime
    <3>2. \A k \in S : \E n \in 1..N : ord[n] = k
      BY <1>1, <2>1, ListedInTime
    <3>3. \A n \in 1..N : /\ ord[n] \in S /\ ev[n].time = times[ord[n][1]]
                          /\ ev[n].direction = log[ord[n][1]].req.direction
      BY <1>1, <2>1, ListedInTime
    <3>4. \A m, n \in 1..N :
            m < n => Precedes(<<times[ord[m][1]], ord[m][2]>>, <<times[ord[n][1]], ord[n][2]>>)
      BY <1>1, <2>1, ListedInTime
    <3> HIDE DEF ord, ev
    <3>5. QED
      BY <3>1, <3>2, <3>3, <3>4
  <2>3. ord = order /\ ev = e
    BY <1>4, SMTT(30)
  <2> HIDE DEF ord, ev
  <2>4. QED
    BY <2>2, <2>3
<1>6. \A k \in S : k[2] = 1 /\ k[1] \in GrantedTo(b, refreshedAt)
  BY <1>1, <1>2 DEF UpToDate, CountedAt, GrantedTo
<1>7. ASSUME NEW i \in GrantedTo(b, refreshedAt) PROVE \E k \in S : k[1] = i
  <2>1. i \in DOMAIN log /\ times[i] <= refreshedAt
    BY DEF GrantedTo
  <2>2. PICK k \in seen : k[1] = i
    BY <2>1 DEF UpToDate
  <2>3. k \in S
    BY <2>2 DEF CountedAt, GrantedTo
  <2>4. QED
    BY <2>2, <2>3
<1>8. DOMAIN order = 1..N
  BY <1>5
<1> HIDE DEF S, N, order, e
<1>9. \A n \in 1..N : g[n] = order[n][1] /\ KeyAt(b)[n] = ApbKey(log[g[n]].req)
  BY <1>8 DEF Decision, KeyAt, order
<1> HIDE DEF g
<1>10. \A n \in 1..N : /\ g[n] \in GrantedTo(b, refreshedAt) /\ g[n] \in 1..Len(log) /\ g[n] \in Nat
                       /\ e[n].time = times[g[n]] /\ e[n].direction = log[g[n]].req.direction
                       /\ order[n][2] = 1 /\ order[n][1] = g[n]
  <2>1. TAKE n \in 1..N
  <2>2. order[n] \in S /\ g[n] = order[n][1]
    BY <1>5, <1>9
  <2>3. g[n] \in 1..Len(log) /\ g[n] \in GrantedTo(b, refreshedAt) /\ order[n][2] = 1
    BY <1>1, <1>6, <2>2
  <2>4. e[n].time = times[g[n]] /\ e[n].direction = log[g[n]].req.direction
    BY <1>5, <2>2
  <2>5. g[n] \in Nat
    BY <1>2, <2>3
  <2>6. QED
    BY <2>2, <2>3, <2>4, <2>5
<1>11. \A i \in GrantedTo(b, refreshedAt) : \E n \in 1..N : g[n] = i
  <2>1. TAKE i \in GrantedTo(b, refreshedAt)
  <2>2. PICK k \in S : k[1] = i
    BY <1>7
  <2>3. PICK n \in 1..N : order[n] = k
    BY <1>5
  <2>4. QED
    BY <1>10, <2>2, <2>3
<1>12. ASSUME NEW m \in 1..N, NEW n \in 1..N, m < n PROVE g[m] < g[n] /\ e[m].time < e[n].time
  <2>1. Precedes(<<times[g[m]], 1>>, <<times[g[n]], 1>>)
    BY <1>5, <1>10, <1>12, SMTT(30)
  <2>2. times[g[m]] \in Nat /\ times[g[n]] \in Nat
    BY <1>3, <1>10
  <2>3. times[g[m]] < times[g[n]]
    BY <2>1, <2>2 DEF Precedes
  <2>4. ~ (g[n] < g[m]) /\ g[n] # g[m]
    <3>1. g[n] < g[m] => times[g[n]] < times[g[m]]
      BY <1>2, <1>10 DEF UpToDate
    <3>2. QED
      BY <2>2, <2>3, <3>1
  <2>5. g[m] \in Nat /\ g[n] \in Nat
    BY <1>10
  <2>6. QED
    BY <1>10, <2>3, <2>4, <2>5
<1>13. SeesAll(b, e, N, g, KeyAt(b))
  BY <1>1, <1>5, <1>9, <1>10, <1>11, <1>12 DEF SeesAll
<1>14. QED
  BY <1>13 DEF e, g

\* Grants of one badge at one key are seen in the order of the log.
LEMMA SeenOrderIsLogOrder ==
  ASSUME NEW b, NEW e, NEW N, NEW g, NEW gate, SeesAll(b, e, N, g, gate),
         NEW m \in 1..N, NEW n \in 1..N
  PROVE  g[m] < g[n] <=> m < n
<1>1. m \in Nat /\ n \in Nat /\ g[m] \in Nat /\ g[n] \in Nat
  BY DEF SeesAll
<1>2. (m < n => g[m] < g[n]) /\ (n < m => g[n] < g[m])
  BY DEF SeesAll
<1>3. m = n => g[m] = g[n]
  OBVIOUS
<1>4. m < n \/ n < m \/ m = n
  BY <1>1
<1>5. QED
  BY <1>1, <1>2, <1>3, <1>4

LEMMA BadgeOfKey ==
  ASSUME TypeOK, NEW i \in DOMAIN log, NEW j \in DOMAIN log, ApbKey(log[i].req) = ApbKey(log[j].req)
  PROVE  log[i].req.badge = log[j].req.badge
<1>1. log[i].req \in Requests /\ log[j].req \in Requests
  BY Decided
<1>2. ApbKey(log[i].req)[3] = log[i].req.badge /\ ApbKey(log[j].req)[3] = log[j].req.badge
  BY <1>1, KeysOfGates
<1>3. QED
  BY <1>2

\* A badge was inside at the key of a decision if that key was open to the
\* counter when it read the decision.
LEMMA WasInsideIsOpen ==
  ASSUME TypeOK, UpToDate, NEW b \in Badges,
         NEW e, NEW N, NEW g, NEW gate, SeesAll(b, e, N, g, gate), NEW n \in 1..N
  PROVE  WasInside(g[n]) <=> gate[n] \in Open(e, gate, n - 1)
<1>1. N \in Nat /\ n \in Nat /\ n - 1 \in Nat /\ 1..(n - 1) \in SUBSET (1..N)
      /\ \A m \in 1..N : m \in 1..(n - 1) <=> m < n
  BY DEF SeesAll
<1>2. \A m \in 1..N : /\ g[m] \in GrantedTo(b, refreshedAt) /\ g[m] \in Nat
                      /\ e[m].direction = log[g[m]].req.direction
                      /\ gate[m] = ApbKey(log[g[m]].req)
  BY DEF SeesAll
<1>3. \A m \in 1..N : /\ g[m] \in DOMAIN log /\ log[g[m]].status = "SUCCESS"
                      /\ log[g[m]].req.badge = b /\ times[g[m]] <= refreshedAt
  BY <1>2 DEF GrantedTo
<1>4. DOMAIN log = 1..Len(log) /\ Len(log) \in Nat
  BY Decided
<1>5. ASSUME NEW m \in 1..(n - 1), gate[m] = gate[n] PROVE g[m] \in Before(g[n])
  <2>1. m \in 1..N /\ m < n
    BY <1>1
  <2>2. g[m] < g[n] /\ g[m] \in 1..Len(log) /\ g[n] \in 1..Len(log)
    BY <1>3, <1>4, <2>1, SeenOrderIsLogOrder
  <2>3. g[m] \in 1..(g[n] - 1)
    BY <1>4, <2>2
  <2>4. log[g[m]].status = "SUCCESS" /\ ApbKey(log[g[m]].req) = ApbKey(log[g[n]].req)
    BY <1>2, <1>3, <1>5, <2>1
  <2>5. QED
    BY <2>3, <2>4 DEF Before
<1>6. ASSUME NEW x \in Before(g[n]) PROVE \E m \in 1..(n - 1) : g[m] = x /\ gate[m] = gate[n]
  <2>1. /\ x \in 1..(g[n] - 1) /\ log[x].status = "SUCCESS"
        /\ ApbKey(log[x].req) = ApbKey(log[g[n]].req)
    BY DEF Before
  <2>2. x \in DOMAIN log /\ x < g[n] /\ g[n] \in DOMAIN log
    <3>1. g[n] \in 1..Len(log)
      BY <1>3, <1>4
    <3>2. QED
      BY <1>4, <2>1, <3>1
  <2>3. log[x].req.badge = b
    BY <1>3, <2>1, <2>2, BadgeOfKey
  <2>4. times[x] <= refreshedAt
    <3>1. times[x] < times[g[n]] /\ times[g[n]] <= refreshedAt
      BY <1>3, <2>2 DEF UpToDate
    <3>2. times[x] \in Nat /\ times[g[n]] \in Nat /\ refreshedAt \in Nat
      BY <1>4, <2>2, Decided, Bounds, RefreshTime DEF Ticks
    <3>3. QED
      BY <3>1, <3>2
  <2>5. x \in GrantedTo(b, refreshedAt)
    BY <2>1, <2>2, <2>3, <2>4 DEF GrantedTo
  <2>6. PICK m \in 1..N : g[m] = x
    BY <2>5 DEF SeesAll
  <2>7. m < n
    BY <2>2, <2>6, SeenOrderIsLogOrder
  <2>8. m \in 1..(n - 1) /\ gate[m] = gate[n]
    BY <1>1, <1>2, <2>1, <2>6, <2>7
  <2>9. QED
    BY <2>6, <2>8
<1>7. Before(g[n]) \in SUBSET Nat /\ IsFiniteSet(Before(g[n]))
  <2>1. g[n] \in Nat /\ g[n] - 1 \in Int
    BY <1>2
  <2>2. Before(g[n]) \in SUBSET (1..(g[n] - 1)) /\ 1..(g[n] - 1) \in SUBSET Nat
    BY <2>1 DEF Before
  <2>3. IsFiniteSet(1..(g[n] - 1))
    BY <2>1, FS_Interval
  <2>4. QED
    BY <2>2, <2>3, FS_Subset
<1>8. ASSUME WasInside(g[n]) PROVE gate[n] \in Open(e, gate, n - 1)
  <2>1. Before(g[n]) # {} /\ log[Max(Before(g[n]))].req.direction = "IN"
    BY <1>8 DEF WasInside
  <2>2. Max(Before(g[n])) \in Before(g[n]) /\ \A x \in Before(g[n]) : x <= Max(Before(g[n]))
    BY <1>7, <2>1, Extremes
  <2>3. PICK m \in 1..(n - 1) : g[m] = Max(Before(g[n])) /\ gate[m] = gate[n]
    BY <1>6, <2>2
  <2>4. m \in 1..N /\ e[m].direction = "IN"
    BY <1>1, <1>2, <2>1, <2>3
  <2>5. ASSUME NEW j \in 1..(n - 1), m < j, gate[j] = gate[m] PROVE FALSE
    <3>1. g[j] \in Before(g[n]) /\ j \in 1..N
      BY <1>1, <1>5, <2>3, <2>5
    <3>2. g[m] < g[j]
      BY <2>4, <2>5, <3>1, SeenOrderIsLogOrder
    <3>3. g[j] <= g[m] /\ g[j] \in Nat /\ g[m] \in Nat
      BY <1>2, <2>2, <2>3, <2>4, <3>1
    <3>4. QED
      BY <3>2, <3>3
  <2>6. LastAt(gate, n - 1, m)
    BY <2>5 DEF LastAt
  <2>7. gate[m] \in Open(e, gate, n - 1)
    BY <2>4, <2>6 DEF Open
  <2>8. QED
    BY <2>3, <2>7
<1>9. ASSUME gate[n] \in Open(e, gate, n - 1) PROVE WasInside(g[n])
  <2>1. PICK m \in 1..(n - 1) :
          gate[m] = gate[n] /\ e[m].direction = "IN" /\ LastAt(gate, n - 1, m)
    BY <1>9 DEF Open
  <2>2. m \in 1..N /\ g[m] \in Before(g[n]) /\ log[g[m]].req.direction = "IN"
    BY <1>1, <1>2, <1>5, <2>1
  <2>3. PICK top : top = Max(Before(g[n]))
    OBVIOUS
  <2>4. top \in Before(g[n]) /\ g[m] <= top
    BY <1>7, <2>2, <2>3, Extremes
  <2>5. PICK j \in 1..(n - 1) : g[j] = top /\ gate[j] = gate[n]
    BY <1>6, <2>4
  <2>6. ~ (m < j) /\ j \in 1..N
    BY <1>1, <2>1, <2>5 DEF LastAt
  <2>7. ~ (g[m] < g[j]) /\ g[m] \in Nat /\ g[j] \in Nat
    BY <1>2, <2>2, <2>6, SeenOrderIsLogOrder
  <2>8. g[m] = top
    BY <2>4, <2>5, <2>7
  <2>9. QED
    BY <2>2, <2>3, <2>8 DEF WasInside
<1>10. QED
  BY <1>8, <1>9

\* So a badge without a stray exit, or a repeated entry, makes no odd exit or
\* no second entry.
LEMMA NoStrays ==
  ASSUME TypeOK, UpToDate, NEW b \in Badges,
         NEW e, NEW N, NEW g, NEW gate, SeesAll(b, e, N, g, gate), NEW n \in 0..N
  PROVE  /\ ~StrayExit(b) => Odd(e, gate, n) = {}
         /\ ~RepeatedEntry(b) => Again(e, gate, n) = {}
<1>1. N \in Nat /\ 1..n \in SUBSET (1..N)
  BY DEF SeesAll
<1>2. \A m \in 1..N : g[m] \in GrantedTo(b, refreshedAt) /\ e[m].direction = log[g[m]].req.direction
  BY DEF SeesAll
<1>3. \A m \in 1..N : g[m] \in GrantsOf(b, e[m].direction)
  BY <1>2 DEF GrantedTo, GrantsOf
<1>4. ASSUME NEW i \in 1..n PROVE i \in 1..N /\ (WasInside(g[i]) <=> gate[i] \in Open(e, gate, i - 1))
  BY <1>1, WasInsideIsOpen
<1>5. ASSUME ~StrayExit(b) PROVE Odd(e, gate, n) = {}
  BY <1>3, <1>4, <1>5 DEF StrayExit, Odd
<1>6. ASSUME ~RepeatedEntry(b) PROVE Again(e, gate, n) = {}
  BY <1>3, <1>4, <1>6 DEF RepeatedEntry, Again
<1>7. QED
  BY <1>5, <1>6

\* The badge is inside at t if one of its keys is open after the events so far.
LEMMA InsideIsOpen ==
  ASSUME TypeOK, NEW b \in Badges, NEW e, NEW N, NEW g, NEW gate, SeesAll(b, e, N, g, gate),
         NEW t \in 1..refreshedAt, NEW n, Reached(e, N, t, n)
  PROVE  InsideAt(b, t) <=> Open(e, gate, n) # {}
<1> DEFINE granted(k) == {i \in DOMAIN log :
             log[i].status = "SUCCESS" /\ ApbKey(log[i].req) = k /\ times[i] <= t}
<1>1. N \in Nat /\ n \in 0..N /\ 1..n \in SUBSET (1..N)
  BY DEF SeesAll, Reached
<1>2. \A m \in 1..N : /\ g[m] \in GrantedTo(b, refreshedAt) /\ g[m] \in Nat
                      /\ e[m].time = times[g[m]]
                      /\ e[m].direction = log[g[m]].req.direction
                      /\ gate[m] = ApbKey(log[g[m]].req)
  BY DEF SeesAll
<1>3. \A m \in 1..N : /\ g[m] \in DOMAIN log /\ log[g[m]].status = "SUCCESS"
                      /\ log[g[m]].req.badge = b
  BY <1>2 DEF GrantedTo
<1>4. \A m \in 1..N : times[g[m]] <= t <=> m \in 1..n
  BY <1>1, <1>2 DEF Reached
<1>5. t \in Nat /\ refreshedAt \in Nat /\ \A i \in DOMAIN log : times[i] \in Nat
  BY Decided, Bounds, RefreshTime DEF Ticks
<1>6. \A k : k[3] = b => \A i \in granted(k) : \E m \in 1..n : g[m] = i /\ gate[m] = k
  <2>1. SUFFICES ASSUME NEW k, k[3] = b, NEW i \in granted(k)
                 PROVE  \E m \in 1..n : g[m] = i /\ gate[m] = k
    OBVIOUS
  <2>2. /\ i \in DOMAIN log /\ log[i].status = "SUCCESS" /\ ApbKey(log[i].req) = k
        /\ times[i] <= t /\ times[i] \in Nat
    BY <1>5
  <2>3. log[i].req.badge = b
    <3>1. log[i].req \in Requests
      BY <2>2, Decided
    <3>2. QED
      BY <2>1, <2>2, <3>1, KeysOfGates
  <2>4. times[i] <= refreshedAt
    BY <1>5, <2>2
  <2>5. i \in GrantedTo(b, refreshedAt)
    BY <2>2, <2>3, <2>4 DEF GrantedTo
  <2>6. PICK m \in 1..N : g[m] = i
    BY <2>5 DEF SeesAll
  <2>7. m \in 1..n /\ gate[m] = k
    BY <1>2, <1>4, <2>2, <2>6
  <2>8. QED
    BY <2>6, <2>7
<1>7. \A m \in 1..n : g[m] \in granted(gate[m])
  BY <1>1, <1>2, <1>3, <1>4
<1>8. \A k : granted(k) \in SUBSET Nat /\ IsFiniteSet(granted(k))
  <2>1. TAKE k
  <2>2. DOMAIN log = 1..Len(log) /\ Len(log) \in Nat
    BY Decided
  <2>3. IsFiniteSet(1..Len(log)) /\ 1..Len(log) \in SUBSET Nat
    BY <2>2, FS_Interval
  <2>4. granted(k) \in SUBSET (1..Len(log))
    BY <2>2
  <2> HIDE DEF granted
  <2>5. QED
    BY <2>3, <2>4, FS_Subset
<1>9. InsideAt(b, t) <=>
        \E k \in {key \in ApbKeys : key[3] = b} :
          granted(k) # {} /\ log[Max(granted(k))].req.direction = "IN"
  BY DEF InsideAt
<1> HIDE DEF granted
<1>10. ASSUME NEW i \in 1..n, e[i].direction = "IN", LastAt(gate, n, i) PROVE InsideAt(b, t)
  <2>1. PICK k : k = gate[i]
    OBVIOUS
  <2>2. i \in 1..N /\ g[i] \in granted(k) /\ log[g[i]].req.direction = "IN"
    BY <1>1, <1>2, <1>7, <1>10, <2>1
  <2>3. k \in ApbKeys /\ k[3] = b
    <3>1. log[g[i]].req \in Requests /\ log[g[i]].req.badge = b /\ k = ApbKey(log[g[i]].req)
      BY <1>2, <1>3, <2>1, <2>2, Decided
    <3>2. QED
      BY <3>1, KeysOfGates
  <2>4. ASSUME NEW x \in granted(k) PROVE x <= g[i]
    <3>1. PICK m \in 1..n : g[m] = x /\ gate[m] = k
      BY <1>6, <2>3
    <3>2. ~ (i < m)
      BY <1>10, <2>1, <3>1 DEF LastAt
    <3>3. m \in 1..N /\ ~ (g[i] < g[m])
      BY <1>1, <2>2, <3>2, SeenOrderIsLogOrder
    <3>4. g[i] \in Nat /\ g[m] \in Nat
      BY <1>2, <2>2, <3>3
    <3>5. QED
      BY <3>1, <3>3, <3>4
  <2>5. /\ Max(granted(k)) \in granted(k) /\ g[i] <= Max(granted(k))
        /\ Max(granted(k)) \in Nat /\ g[i] \in Nat
    BY <1>8, <2>2, Extremes
  <2>6. Max(granted(k)) = g[i]
    <3>1. Max(granted(k)) <= g[i]
      BY <2>4, <2>5
    <3>2. QED
      BY <2>5, <3>1
  <2>7. QED
    BY <1>9, <2>2, <2>3, <2>6
<1>11. ASSUME NEW k \in {key \in ApbKeys : key[3] = b}, granted(k) # {},
              log[Max(granted(k))].req.direction = "IN"
       PROVE  Open(e, gate, n) # {}
  <2>1. Max(granted(k)) \in granted(k) /\ \A x \in granted(k) : x <= Max(granted(k))
    BY <1>8, <1>11, Extremes
  <2>2. PICK i \in 1..n : g[i] = Max(granted(k)) /\ gate[i] = k
    BY <1>6, <1>11, <2>1
  <2>3. i \in 1..N /\ e[i].direction = "IN"
    BY <1>1, <1>2, <1>11, <2>2
  <2>4. LastAt(gate, n, i)
    <3>1. SUFFICES ASSUME NEW j \in 1..n, i < j, gate[j] = gate[i] PROVE FALSE
      BY DEF LastAt
    <3>2. j \in 1..N /\ g[j] \in granted(k)
      BY <1>1, <1>7, <2>2, <3>1
    <3>3. g[i] < g[j] /\ g[j] <= g[i] /\ g[i] \in Nat /\ g[j] \in Nat
      BY <1>2, <2>1, <2>2, <2>3, <3>1, <3>2, SeenOrderIsLogOrder
    <3>4. QED
      BY <3>3
  <2>5. gate[i] \in Open(e, gate, n)
    BY <2>3, <2>4 DEF Open
  <2>6. QED
    BY <2>5
<1>12. QED
  BY <1>9, <1>10, <1>11 DEF Open

-----------------------------------------------------------------------------
(* So the ticks that 0106 counts are those the gate saw the badge inside.    *)

\* What the counter of 0106 says at a tick, and what the gate's log says.
LEMMA CounterAndGate ==
  ASSUME TypeOK, UpToDate, NEW b \in Badges,
         NEW e, NEW N, NEW g, NEW gate, SeesAll(b, e, N, g, gate),
         NEW t \in 1..refreshedAt, NEW n, Reached(e, N, t, n)
  PROVE  /\ ~RepeatedEntry(b) /\ InsideAfter(e, n) >= 1 => InsideAt(b, t)
         /\ ~StrayExit(b) /\ InsideAt(b, t) => InsideAfter(e, n) >= 1
         /\ InsideAfter(e, n) <= 0 <=> ~ (InsideAfter(e, n) >= 1)
<1>1. InTime(e, N) /\ n \in 0..N
  BY DEF SeesAll, Reached
<1>2. InsideAt(b, t) <=> Open(e, gate, n) # {}
  BY InsideIsOpen
<1>3. (~StrayExit(b) => Odd(e, gate, n) = {}) /\ (~RepeatedEntry(b) => Again(e, gate, n) = {})
  BY <1>1, NoStrays
<1>4. /\ Again(e, gate, n) = {} /\ InsideAfter(e, n) >= 1 => Open(e, gate, n) # {}
      /\ Odd(e, gate, n) = {} /\ Open(e, gate, n) # {} => InsideAfter(e, n) >= 1
      /\ InsideAfter(e, n) <= 0 <=> ~ (InsideAfter(e, n) >= 1)
  BY <1>1, CounterShowsInside
<1>5. QED
  BY <1>2, <1>3, <1>4

\* Without a stray exit, the counter comes down to zero only if no entry was
\* repeated before: a visit that has ended was one.
LEMMA EndedIsInside ==
  ASSUME TypeOK, UpToDate, NEW b \in Badges, ~StrayExit(b),
         NEW e, NEW N, NEW g, NEW gate, SeesAll(b, e, N, g, gate),
         NEW t \in 1..refreshedAt, NEW n, Reached(e, N, t, n), InsideAfter(e, n) >= 1,
         NEW m \in n..N, InsideAfter(e, m) <= 0
  PROVE  InsideAt(b, t)
<1>1. InTime(e, N) /\ N \in Nat /\ n \in 0..N /\ m \in 0..N /\ 1..n \in SUBSET (1..m)
  BY DEF SeesAll, Reached
<1>2. Odd(e, gate, m) = {}
  BY <1>1, NoStrays
<1>3. Again(e, gate, m) = {}
  BY <1>1, <1>2, CounterShowsInside
<1>4. Again(e, gate, n) = {}
  BY <1>1, <1>3 DEF Again
<1>5. Open(e, gate, n) # {}
  BY <1>1, <1>4, CounterShowsInside
<1>6. QED
  BY <1>5, InsideIsOpen

\* The ticks inside that belong to visits that have come to an end.
EndedTicks(b, d) == {t \in TicksInside(b, d) : \E u \in t..refreshedAt : ~InsideAt(b, u)}

LEMMA CoveredTicks ==
  ASSUME TypeOK, UpToDate, NEW b \in Badges, ~StrayExit(b) \/ ~RepeatedEntry(b),
         NEW e, NEW N, NEW g, NEW gate, SeesAll(b, e, N, g, gate), NEW d \in Int
  PROVE  /\ Covered(e, d) \in SUBSET TicksInside(b, d)
         /\ ~StrayExit(b) /\ ~RepeatedEntry(b) => Covered(e, d) = EndedTicks(b, d)
<1>1. InTime(e, N) /\ N \in Nat /\ refreshedAt \in Nat
  BY RefreshTime DEF SeesAll
<1>2. \A n \in 1..N : e[n].time \in 1..refreshedAt
  <2>1. TAKE n \in 1..N
  <2>2. g[n] \in GrantedTo(b, refreshedAt) /\ e[n].time = times[g[n]]
    BY DEF SeesAll
  <2>3. g[n] \in DOMAIN log /\ times[g[n]] <= refreshedAt
    BY <2>2 DEF GrantedTo
  <2>4. times[g[n]] \in Ticks
    BY <2>3, Decided
  <2>5. QED
    BY <1>1, <2>2, <2>3, <2>4, Bounds DEF Ticks
<1>3. ASSUME NEW t \in Covered(e, d)
      PROVE  /\ t \in TicksInside(b, d)
             /\ ~StrayExit(b) /\ ~RepeatedEntry(b) => \E u \in t..refreshedAt : ~InsideAt(b, u)
  <2>1. /\ t \in Nat /\ DayOf(t) = d
        /\ \E v \in Visits(e) : e[v[1]].time <= t /\ t < e[v[2]].time
    BY DEF Covered
  <2>2. t \in 1..refreshedAt
    <3>1. PICK v \in Visits(e) : e[v[1]].time <= t /\ t < e[v[2]].time
      BY <2>1
    <3>2. v[1] \in 1..N /\ v[2] \in 1..N
      BY <1>1, VisitsLast
    <3>3. e[v[1]].time \in 1..refreshedAt /\ e[v[2]].time \in 1..refreshedAt
      BY <1>2, <3>2
    <3>4. QED
      BY <1>1, <2>1, <3>1, <3>3
  <2>3. PICK n \in 0..N : Reached(e, N, t, n)
    BY <1>1, <2>1, SomeReached
  <2>4. PICK m \in n..N : InsideAfter(e, m) <= 0 /\ InsideAfter(e, n) >= 1
    BY <1>1, <2>1, <2>3, CoveredIsInside
  <2>5. InsideAt(b, t)
    <3>1. CASE ~RepeatedEntry(b)
      BY <2>2, <2>3, <2>4, <3>1, CounterAndGate
    <3>2. CASE ~StrayExit(b)
      BY <2>2, <2>3, <2>4, <3>2, EndedIsInside
    <3>3. QED
      BY <3>1, <3>2
  <2>6. t \in TicksInside(b, d)
    BY <2>1, <2>2, <2>5 DEF TicksInside
  <2>7. ASSUME ~StrayExit(b), ~RepeatedEntry(b) PROVE \E u \in t..refreshedAt : ~InsideAt(b, u)
    <3>1. m # n
      <4>1. m \in 0..N /\ InsideAfter(e, n) \in Int
        BY <1>1, <2>3, InsideSteps
      <4>2. QED
        BY <2>4, <4>1
    <3>2. m \in 1..N /\ n < m
      BY <1>1, <2>3, <2>4, <3>1
    <3>3. PICK u : u = e[m].time
      OBVIOUS
    <3>4. u \in 1..refreshedAt
      BY <1>2, <3>2, <3>3
    <3>5. Reached(e, N, u, m)
      <4>1. \A i \in 1..N : e[i].time <= u <=> i <= m
        <5>1. TAKE i \in 1..N
        <5>2. (i < m => e[i].time < e[m].time) /\ (m < i => e[m].time < e[i].time)
          BY <3>2 DEF SeesAll
        <5>3. i = m => e[i].time = e[m].time
          OBVIOUS
        <5>4. e[i].time \in Nat /\ e[m].time \in Nat
          BY <1>1, <1>2, <3>2
        <5>5. i \in Nat /\ m \in Nat
          BY <1>1, <3>2
        <5>6. QED
          BY <3>3, <5>2, <5>3, <5>4, <5>5
      <4>2. m \in 0..N
        BY <1>1, <3>2
      <4>3. QED
        BY <4>1, <4>2 DEF Reached
    <3>6. ~InsideAt(b, u)
      BY <2>4, <2>7, <3>4, <3>5, CounterAndGate
    <3>7. t <= u
      <4>1. ~ (e[m].time <= t)
        BY <1>1, <2>3, <3>2 DEF Reached
      <4>2. QED
        BY <2>1, <3>3, <3>4, <4>1
    <3>8. u \in t..refreshedAt
      BY <1>1, <2>2, <3>4, <3>7
    <3>9. QED
      BY <3>6, <3>8
  <2>8. QED
    BY <2>6, <2>7
<1>4. ASSUME ~StrayExit(b), ~RepeatedEntry(b), NEW t \in TicksInside(b, d), NEW u \in t..refreshedAt, ~InsideAt(b, u)
      PROVE  t \in Covered(e, d)
  <2>1. t \in 1..refreshedAt /\ DayOf(t) = d /\ InsideAt(b, t)
    BY DEF TicksInside
  <2>2. t \in Nat /\ u \in Nat /\ u \in 1..refreshedAt /\ t <= u
    BY <1>1, <2>1
  <2>3. PICK n \in 0..N : Reached(e, N, t, n)
    BY <1>1, <2>2, SomeReached
  <2>4. PICK m \in 0..N : Reached(e, N, u, m)
    BY <1>1, <2>2, SomeReached
  <2>5. InsideAfter(e, n) >= 1
    BY <1>4, <2>1, <2>3, CounterAndGate
  <2>6. InsideAfter(e, m) <= 0
    BY <1>4, <2>2, <2>4, CounterAndGate
  <2>7. n <= m
    <3>1. CASE n = 0
      BY <1>1, <2>4, <3>1
    <3>2. CASE n # 0
      <4>1. n \in 1..N /\ e[n].time \in 1..refreshedAt
        BY <1>1, <1>2, <2>3, <3>2
      <4>2. e[n].time <= t
        BY <1>1, <2>3, <4>1 DEF Reached
      <4>3. e[n].time <= u
        BY <2>2, <4>1, <4>2
      <4>4. QED
        BY <2>4, <4>1, <4>3 DEF Reached
    <3>3. QED
      BY <3>1, <3>2
  <2>8. m \in n..N
    BY <1>1, <2>3, <2>4, <2>7
  <2>9. \E v \in Visits(e) : e[v[1]].time <= t /\ t < e[v[2]].time
    BY <1>1, <2>2, <2>3, <2>5, <2>6, <2>8, CoveredIsInside
  <2>10. QED
    BY <2>1, <2>2, <2>9 DEF Covered
<1>5. ASSUME ~StrayExit(b), ~RepeatedEntry(b) PROVE Covered(e, d) = EndedTicks(b, d)
  <2>1. \A t \in Covered(e, d) : t \in EndedTicks(b, d)
    BY <1>3, <1>5 DEF EndedTicks
  <2>2. \A t \in EndedTicks(b, d) : t \in Covered(e, d)
    BY <1>4, <1>5 DEF EndedTicks
  <2>3. QED
    BY <2>1, <2>2
<1>6. QED
  BY <1>3, <1>5

\* An up-to-date view has rows for the days of the badge's grants.
LEMMA DaysAreSwiped ==
  ASSUME TypeOK, NEW b, NEW e, NEW N, NEW g, NEW gate, SeesAll(b, e, N, g, gate)
  PROVE  DaysWithEvents(e) = DaysSwiped(b)
<1>1. DOMAIN e = 1..N
  BY DEF SeesAll, InTime
<1>2. GrantedTo(b, refreshedAt) =
        {j \in GrantsOf(b, "IN") \cup GrantsOf(b, "OUT") : times[j] <= refreshedAt}
  <2>1. \A i \in DOMAIN log : log[i].req.direction \in {"IN", "OUT"}
    BY Decided
  <2>2. QED
    BY <2>1 DEF GrantedTo, GrantsOf
<1>3. DaysSwiped(b) = {DayOf(times[i]) : i \in GrantedTo(b, refreshedAt)}
  BY <1>2 DEF DaysSwiped
<1>4. \A n \in 1..N : g[n] \in GrantedTo(b, refreshedAt) /\ e[n].time = times[g[n]]
  BY DEF SeesAll
<1>5. \A i \in GrantedTo(b, refreshedAt) : \E n \in 1..N : g[n] = i
  BY DEF SeesAll
<1>6. DaysWithEvents(e) = {DayOf(e[n].time) : n \in 1..N}
  BY <1>1 DEF DaysWithEvents
<1>7. QED
  BY <1>3, <1>4, <1>5, <1>6

LEMMA StaysAreInside == SnapshotInv => StayIsTimeInside
<1> SUFFICES ASSUME SnapshotInv, UpToDate, NEW b \in Badges
             PROVE  /\ DOMAIN view[b] = DaysSwiped(b)
                    /\ \A d \in DOMAIN view[b] : ~StrayExit(b) \/ ~RepeatedEntry(b) =>
                         /\ ~StrayExit(b) /\ ~RepeatedEntry(b) => view[b][d].stay = TimeInside(b, d)
                         /\ view[b][d].stay <= Cardinality(TicksInside(b, d))
  BY DEF StayIsTimeInside
<1>0. DOMAIN view[b] = DaysSwiped(b)
  <2>1. TypeOK /\ TimesDiffer /\ StaysAreOfSnapshot
    BY DEF SnapshotInv, TypeInv
  <2>2. PICK N : SeesAll(b, SeenEvents(b), N, Decision(b), KeyAt(b))
    BY <2>1, ViewSeesAll
  <2>3. QED
    BY <2>1, <2>2, DaysAreSwiped DEF StaysAreOfSnapshot
<1> SUFFICES ASSUME NEW d \in DOMAIN view[b], ~StrayExit(b) \/ ~RepeatedEntry(b)
             PROVE  /\ ~StrayExit(b) /\ ~RepeatedEntry(b) => view[b][d].stay = TimeInside(b, d)
                    /\ view[b][d].stay <= Cardinality(TicksInside(b, d))
  BY <1>0
<1>1. TypeOK /\ TimesDiffer /\ StaysAreOfSnapshot
  BY DEF SnapshotInv, TypeInv
<1>2. d \in Int
  <2>1. d \in Days
    BY <1>1 DEF TypeOK
  <2>2. QED
    BY <2>1 DEF Days
<1>3. PICK e, g, gate : e = SeenEvents(b) /\ g = Decision(b) /\ gate = KeyAt(b)
  OBVIOUS
<1>4. PICK N : SeesAll(b, e, N, g, gate)
  BY <1>1, <1>3, ViewSeesAll
<1>5. view[b][d].stay = Stay(e, d)
  BY <1>1, <1>3 DEF StaysAreOfSnapshot
<1>6. IsFiniteSet(Covered(e, d)) /\ Stay(e, d) = Cardinality(Covered(e, d))
  <2>1. InTime(e, N)
    BY <1>4 DEF SeesAll
  <2>2. QED
    BY <1>2, <2>1, StayIsCovered
<1>7. /\ Covered(e, d) \in SUBSET TicksInside(b, d)
      /\ ~StrayExit(b) /\ ~RepeatedEntry(b) => Covered(e, d) = EndedTicks(b, d)
  BY <1>1, <1>2, <1>4, CoveredTicks
<1>8. view[b][d].stay <= Cardinality(TicksInside(b, d))
  <2>1. IsFiniteSet(1..refreshedAt)
    BY <1>1, RefreshTime, FS_Interval
  <2>2. TicksInside(b, d) \in SUBSET (1..refreshedAt)
    BY DEF TicksInside
  <2>3. IsFiniteSet(TicksInside(b, d))
    BY <2>1, <2>2, FS_Subset
  <2>4. Cardinality(Covered(e, d)) <= Cardinality(TicksInside(b, d))
    BY <1>7, <2>3, FS_Subset
  <2>5. QED
    BY <1>5, <1>6, <2>4
<1>9. ASSUME ~StrayExit(b), ~RepeatedEntry(b) PROVE view[b][d].stay = TimeInside(b, d)
  <2>1. TimeInside(b, d) = Cardinality(EndedTicks(b, d))
    BY Zenon DEF TimeInside, EndedTicks
  <2>2. QED
    BY <1>5, <1>6, <1>7, <1>9, <2>1, Zenon
<1>10. QED
  BY <1>8, <1>9

\* stay_hours of an up-to-date report (0106_mv_exclude_future.up.sql) is the
\* time the badge was inside by the gate's grants that day, for any number of
\* gates, badges, swipes and ticks, whatever keys expired or were evicted and
\* whatever swipes overlapped, unless it was let out where it was not inside
\* or in where it was; one of these alone may hide time but never adds any.
\* The report has a row for exactly the days on which the badge passed a gate.
THEOREM StaysAreTimeInside == Spec => []StayIsTimeInside
<1>1. Init => SnapshotInv
  BY SnapshotHolds
<1>2. SnapshotInv /\ [Next]_vars => SnapshotInv'
  BY SnapshotHolds
<1>3. SnapshotInv => StayIsTimeInside
  BY StaysAreInside
<1>4. QED
  BY <1>1, <1>2, <1>3, PTL DEF Spec
=============================================================================
