---------------------------- MODULE AttendanceProps ----------------------------
(***************************************************************************)
(* What the attendance report may say of the time a badge was inside.      *)
(***************************************************************************)
EXTENDS Attendance

Days == 0..DayOf(MaxTime + MaxSkew)

TypeOK ==
  /\ now \in 1..MaxTime
  /\ {direction, before} \subseteq [ApbKeys -> Directions \cup {""}]
  /\ expires \in [ApbKeys -> 0..(MaxTime + DayLength)] /\ disturbed \subseteq ApbKeys
  /\ log \in Seq(AccessEvents)
  /\ times \in Seq(1..(MaxTime + MaxSkew)) /\ Len(times) = Len(log)
  /\ table \subseteq (DOMAIN log) \X (Nat \ {0}) /\ IsFiniteSet(table)
  /\ DOMAIN view = Badges
  /\ \A b \in Badges : \A d \in DOMAIN view[b] :
       /\ d \in Days
       /\ view[b][d] \in [first_in : Nat, last_out : Nat, swipe_count : Nat \ {0}, stay : Nat]
  /\ seen \subseteq table
  /\ refreshedAt \in 0..now
  /\ refreshCount \in 0..MaxRefreshes /\ refreshErrors \in 0..faults
  /\ faults \in 0..MaxFaults

-----------------------------------------------------------------------------
\* A badge is inside at tick t if the last granted swipe at one of its gates
\* up to then was an entry.
InsideAt(b, t) ==
  LET granted(k) == {i \in DOMAIN log :
                       log[i].status = "SUCCESS" /\ ApbKey(log[i].req) = k /\ times[i] <= t}
  IN  \E k \in {key \in ApbKeys : key[3] = b} :
        granted(k) # {} /\ log[Max(granted(k))].req.direction = "IN"

\* The ticks of day d it spent inside, and how many of them belong to visits
\* that have come to an end.
TicksInside(b, d) == {t \in 1..refreshedAt : DayOf(t) = d /\ InsideAt(b, t)}

TimeInside(b, d) ==
  Cardinality({t \in TicksInside(b, d) : \E u \in t..refreshedAt : ~InsideAt(b, u)})

\* Every swipe up to the last refresh was stored before it, once, and the
\* replicas' clocks agree with the order of their decisions.
UpToDate ==
  /\ \A i, j \in DOMAIN log : i < j => times[i] < times[j]
  /\ {i \in DOMAIN log : times[i] <= refreshedAt} \subseteq {k[1] : k \in seen}
  /\ \A k \in seen : k[2] = 1

\* The grants at the key of decision i that came before it.
Before(i) ==
  {j \in 1..(i - 1) : log[j].status = "SUCCESS" /\ ApbKey(log[j].req) = ApbKey(log[i].req)}

WasInside(i) == Before(i) # {} /\ log[Max(Before(i))].req.direction = "IN"

GrantsOf(b, dir) ==
  {i \in DOMAIN log : /\ log[i].status = "SUCCESS"
                      /\ log[i].req.badge = b /\ log[i].req.direction = dir}

\* Where it was not inside, badge b was let out; where it was inside, it was
\* let in again.
StrayExit(b) == \E i \in GrantsOf(b, "OUT") : ~WasInside(i)
RepeatedEntry(b) == \E i \in GrantsOf(b, "IN") : WasInside(i)

\* The days on which badge b passed a gate.
DaysSwiped(b) ==
  {DayOf(times[i]) : i \in {j \in GrantsOf(b, "IN") \cup GrantsOf(b, "OUT") : times[j] <= refreshedAt}}

\* stay_hours is the time the badge spent inside that day, computed from
\* pairs of events by 0106 and here from the last grant at each gate, tick by
\* tick.  A stray exit or a repeated entry may hide time inside (see below),
\* neither of them alone ever invents any.  No day is left out on which the
\* badge passed a gate (but others are, see below).
StayIsTimeInside ==
  UpToDate => \A b \in Badges :
    /\ DOMAIN view[b] = DaysSwiped(b)
    /\ \A d \in DOMAIN view[b] :
         /\ ~StrayExit(b) /\ ~RepeatedEntry(b) => view[b][d].stay = TimeInside(b, d)
         /\ ~StrayExit(b) \/ ~RepeatedEntry(b) => view[b][d].stay <= Cardinality(TicksInside(b, d))

\* Where no record was evicted, no clock ahead and no swipe overlapping
\* another, the gate grants a direction twice in a row only after 24 hours
\* without a grant there, when the record has expired.
RepeatsNeedADay ==
  \A i \in DOMAIN log :
    LET last == Max(Before(i))
    IN  /\ log[i].status = "SUCCESS" /\ Before(i) # {}
        /\ ApbKey(log[i].req) \notin disturbed
        /\ log[last].req.direction = log[i].req.direction
        => times[i] >= times[last] + DayLength

\* Rows late, twice, of the future or without counterpart: visits do not
\* overlap, so no day of the report has more hours than a day.
NoDayIsOverfull ==
  \A b \in Badges : \A d \in DOMAIN view[b] : view[b][d].stay \in 0..DayLength

\* Since the last refresh a row was stored whose event is not younger than
\* all the rows that refresh read.
LateRow ==
  \E i \in table \ seen : \E j \in seen : times[i[1]] <= times[j[1]]

\* What the report said of a day is only taken back because of rows that
\* came late or twice; visits that end later only add to it.
StayShrinksByLateRowsOnly ==
  [][\A b \in Badges : \A d \in DOMAIN view[b] :
       LateRow \/ (d \in DOMAIN view'[b] /\ view'[b][d].stay >= view[b][d].stay)]_vars

-----------------------------------------------------------------------------
\* The ticks of day d between an entry of badge b and the exit that follows
\* it at the same gate, the pairs of 0105_fix_stay_hours_calc.up.sql:7.
PairedTicks(b, d) ==
  {t \in 1..refreshedAt : /\ DayOf(t) = d
                          /\ \E i \in GrantsOf(b, "OUT") :
                               /\ WasInside(i)
                               /\ times[Max(Before(i))] <= t /\ t < times[i]
                               /\ times[i] <= refreshedAt}

\* 0105:12: an OUT without its IN is ignored, so that the pairs around it
\* still count.
OrphanExitsAreIgnored ==
  UpToDate => \A b \in Badges : ~RepeatedEntry(b) =>
    \A d \in DOMAIN view[b] : view[b][d].stay >= Cardinality(PairedTicks(b, d))

\* 0105:12, of an IN without its OUT.
OrphanEntriesAreIgnored ==
  UpToDate => \A b \in Badges : ~StrayExit(b) =>
    \A d \in DOMAIN view[b] : view[b][d].stay >= Cardinality(PairedTicks(b, d))

\* 0105:7 and 11: a visit is cut at midnight and each of the parts is counted
\* on its own day.
EveryDayIsReported ==
  UpToDate => \A b \in Badges : ~StrayExit(b) /\ ~RepeatedEntry(b) =>
    \A d \in Days : TimeInside(b, d) > 0 => d \in DOMAIN view[b]
=============================================================================
