------------------------------ MODULE Attendance ------------------------------
(***************************************************************************)
(* From the gate to the attendance report: the swipes the gate grants      *)
(* (Turnstile, with records that expire after 24 hours or are evicted and  *)
(* swipes of a badge that may overlap), their rows in access_events        *)
(* (delivered by EventStream, sometimes late, sometimes twice), and the    *)
(* snapshots of mv_daily_attendance that backend/cmd/mv-refresher/main.go  *)
(* takes.                                                                  *)
(***************************************************************************)
EXTENDS SwipeModels, AttendanceView, SequencesExt

\* Bounds.  MaxSwipes is that of swipes and faults together; MaxRefreshes is
\* where the number of refreshes stops counting, not the refreshes.
CONSTANTS MaxTime, MaxSwipes, MaxSkew, MaxRefreshes, MaxFaults

ASSUME BoundAssumption ==
  MaxTime \in Nat \ {0} /\ {MaxSwipes, MaxSkew, MaxRefreshes, MaxFaults} \subseteq Nat

VARIABLES
  now,
  direction,  \* the gate's state: the apb keys in Redis, "" = no key
  expires,    \* the tick at which Redis drops the key
  before,     \* direction as it was before the last decision
  log,        \* the decisions of the gate, oldest first
  times,      \* times[i]: the timestamp of decision i, on the replica's clock
  table,      \* the rows of access_events: <<i, c>> is the c-th copy of decision i
  view,       \* badge -> day -> row, as of the last refresh
  seen,       \* the rows the last refresh read
  refreshedAt,
  refreshCount, refreshErrors,  \* the numbers /healthz reports
  faults,     \* history: overlapping swipes, keys evicted, clocks ahead, rows
              \* stored once more, failed refreshes
  disturbed   \* history: the keys the first three of them happened to

gateVars == <<direction, expires, before, log, times, disturbed>>
viewVars == <<view, seen, refreshedAt, refreshCount, refreshErrors>>
vars == <<now, gateVars, table, viewVars, faults>>

Gate == INSTANCE Turnstile WITH SwipeNumbers <- 1..MaxSwipes

\* The gate as a swipe saw it that read its keys before the last decision.
Stale == INSTANCE Turnstile WITH SwipeNumbers <- 1..MaxSwipes, direction <- before

-----------------------------------------------------------------------------
Init ==
  /\ Gate!Init
  /\ expires = [k \in ApbKeys |-> 0]
  /\ before = direction
  /\ now = 1
  /\ times = <<>>
  /\ disturbed = {}
  /\ table = {}
  /\ view = [b \in Badges |-> <<>>]
  /\ seen = {}
  /\ refreshedAt = 0
  /\ refreshCount = 0 /\ refreshErrors = 0
  /\ faults = 0

Fault ==
  /\ faults < MaxFaults /\ Len(log) + faults < MaxSwipes
  /\ faults' = faults + 1

\* Time passes, and Redis drops the keys whose time has come.
Tick ==
  /\ now < MaxTime
  /\ now' = now + 1
  /\ direction' = [k \in ApbKeys |-> IF expires[k] <= now' THEN "" ELSE direction[k]]
  /\ UNCHANGED <<expires, before, log, times, disturbed, table, viewVars, faults>>

\* Redis drops a key before its time (maxmemory-policy allkeys-lru).
Evict(k) ==
  /\ direction[k] # ""
  /\ Fault
  /\ direction' = [direction EXCEPT ![k] = ""]
  /\ disturbed' = disturbed \cup {k}
  /\ UNCHANGED <<now, expires, before, log, times, table, viewVars>>

\* Mutant: writing a key that exists leaves its time to live alone.
Renew_KeepTTL(r) ==
  expires' = IF direction[ApbKey(r)] # "" THEN expires
             ELSE [expires EXCEPT ![ApbKey(r)] = now + DayLength]

\* A granted swipe writes its key with a time to live of 24 hours.
Renew(r) == expires' = [expires EXCEPT ![ApbKey(r)] = now + DayLength]

\* The gate decides a swipe and stamps it, perhaps with a clock that is ahead.
\* No two swipes have the same time.
Swipe(r, t) ==
  /\ Len(log) + faults < MaxSwipes
  /\ t \notin ToSet(times)
  /\ \/ t = now /\ UNCHANGED <<faults, disturbed>>
     \/ /\ t \in (now + 1)..(now + MaxSkew) /\ Fault
        /\ disturbed' = disturbed \cup {ApbKey(r)}
  /\ \/ Gate!Grant(Len(log) + 1, r) /\ Renew(r)
     \/ Gate!Refuse(Len(log) + 1, r) /\ UNCHANGED expires
  /\ times' = Append(times, t)
  /\ before' = direction
  /\ UNCHANGED <<now, table, viewVars>>

\* A swipe that overlaps the last one: it has read its keys, and perhaps its
\* clock, before that one was decided a tick ago at most.
OverlappingSwipe(r, t) ==
  /\ Fault
  /\ log # <<>> /\ now <= times[Len(log)] + 1
  /\ t \in {now - 1, now} /\ t \notin ToSet(times)
  /\ \/ /\ Stale!MayPass(r)
        /\ Gate!Record(Len(log) + 1, r, "SUCCESS")
        /\ direction' = [direction EXCEPT ![ApbKey(r)] = r.direction]
        /\ Renew(r)
     \/ /\ ~Stale!MayPass(r) \/ Gate!EntersSite(r)
        /\ Gate!Record(Len(log) + 1, r, "REJECTED_APB")
        /\ UNCHANGED <<direction, expires>>
  /\ times' = Append(times, t)
  /\ before' = direction
  /\ disturbed' = disturbed \cup {ApbKey(r)}
  /\ UNCHANGED <<now, table, viewVars>>

\* event-processor stores decision i: in any order, for a retried or claimed
\* message comes after younger ones, and perhaps once more than it should.
Store(i) ==
  /\ i \in DOMAIN log
  /\ LET copies == {k \in table : k[1] = i}
     IN  /\ IF copies = {} THEN UNCHANGED faults ELSE Fault
         /\ table' = table \cup {<<i, Cardinality(copies) + 1>>}
  /\ UNCHANGED <<now, gateVars, viewVars>>

-----------------------------------------------------------------------------
\* The rows the view is made of: granted, of badge b, not of the future.
Counted(b, rows) ==
  {k \in rows : /\ log[k[1]].req.badge = b
                /\ log[k[1]].status = "SUCCESS"
                /\ times[k[1]] <= now}

\* ORDER BY event_time (rows with the same time are copies of one event).
EventsOf(b, rows) ==
  LET counted == Counted(b, rows)
      order == InOrder(counted, [k \in counted |-> <<times[k[1]], k[2]>>])
  IN  [n \in DOMAIN order |-> [time |-> times[order[n][1]],
                               direction |-> log[order[n][1]].req.direction]]

\* REFRESH MATERIALIZED VIEW CONCURRENTLY: readers see the old snapshot until
\* the new one is complete.
Refresh ==
  /\ view' = [b \in Badges |-> DailyAttendance(EventsOf(b, table))]
  /\ seen' = table
  /\ refreshedAt' = now
  /\ refreshCount' = IF refreshCount < MaxRefreshes THEN refreshCount + 1 ELSE refreshCount
  /\ UNCHANGED <<now, gateVars, table, refreshErrors, faults>>

\* A failed refresh is logged and counted; the next tick tries again.
RefreshFails ==
  /\ Fault
  /\ refreshErrors' = refreshErrors + 1
  /\ UNCHANGED <<now, gateVars, table, view, seen, refreshedAt, refreshCount>>

Next ==
  \/ Tick
  \/ \E k \in ApbKeys : Evict(k)
  \/ \E r \in Requests, t \in 1..(MaxTime + MaxSkew) : Swipe(r, t) \/ OverlappingSwipe(r, t)
  \/ \E i \in 1..MaxSwipes : Store(i)
  \/ Refresh
  \/ RefreshFails

Spec == Init /\ [][Next]_vars
=============================================================================
