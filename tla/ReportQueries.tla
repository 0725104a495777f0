----------------------------- MODULE ReportQueries -----------------------------
(***************************************************************************)
(* The queries behind the reports (backend/internal/db/postgres.go), as    *)
(* operators on                                                            *)
(*                                                                         *)
(*   directory  employees: badge -> [org, job_level, is_active],           *)
(*   events     access_events: a sequence of rows                          *)
(*              [badge, direction, status, time],                          *)
(*   view       mv_daily_attendance: a set of rows [badge, day, org, daily] *)
(*                                                                         *)
(* The answers are sets: the order of the rows is layout.  An org path is  *)
(* the sequence of its labels.  Names, which belong to the badge as the    *)
(* org path does, are left out; averages are pairs <<sum, count>>.         *)
(***************************************************************************)
EXTENDS AttendanceView, SequencesExt

CONSTANTS Badges, OrgPaths

ASSUME OrgAssumption == OrgPaths \subseteq Seq(STRING) \ {<<>>}

JobLevels == {"STAFF", "MANAGER_L1", "MANAGER_L2"}

Employees == [org : OrgPaths, job_level : JobLevels, is_active : BOOLEAN]

Directories == UNION {[S -> Employees] : S \in SUBSET Badges}

\* "Unknown", with NULL for the ltree; as a scope "", no manager.
Unknown == <<>>

\* "" for a badge and NoDate for a date leave the query unrestricted.
NoDate == -1

-----------------------------------------------------------------------------
\* LEFT JOIN employees: a badge need not have a row there.
OrgOf(directory, b) == IF b \in DOMAIN directory THEN directory[b].org ELSE Unknown

JobLevelOf(directory, b) ==
  IF b \in DOMAIN directory THEN directory[b].job_level ELSE "STAFF"

\* Mutant: events of the future are counted.
CountedEvents_Future(events, b, t) ==
  {i \in DOMAIN events : events[i].badge = b /\ events[i].status = "SUCCESS"}

\* The rows the view counts at time t, for badge b.
CountedEvents(events, b, t) ==
  {i \in DOMAIN events : /\ events[i].badge = b
                         /\ events[i].status = "SUCCESS"
                         /\ events[i].time <= t}

EventsOf(events, b, t) ==
  LET counted == CountedEvents(events, b, t)
      order == InOrder(counted, [i \in counted |-> <<events[i].time, i>>])
  IN  [n \in DOMAIN order |-> events[order[n]]]

\* What REFRESH computes: each day of each badge, with the org path of now.
DailyRows(directory, history, b) ==
  {[badge |-> b, day |-> d, org |-> OrgOf(directory, b), daily |-> DailyRow(history, d)] :
     d \in DaysWithEvents(history)}

ViewOf(directory, events, t) ==
  UNION {DailyRows(directory, EventsOf(events, b, t), b) : b \in Badges}

-----------------------------------------------------------------------------
\* Mutant: an employee who left is still a manager.
GetManagerScope_Inactive(directory, b) ==
  IF b \in DOMAIN directory /\ directory[b].job_level # "STAFF"
    THEN directory[b].org ELSE Unknown

GetManagerScope(directory, b) ==
  IF b \in DOMAIN directory /\ directory[b].job_level # "STAFF" /\ directory[b].is_active
    THEN directory[b].org ELSE Unknown

\* Mutant: `@>`, the ancestors of the scope.
Under_Ancestors(org, scope) == org # Unknown /\ IsPrefix(org, scope)

\* org_path_ltree <@ scope: NULL is under nothing.
Under(org, scope) == org # Unknown /\ IsPrefix(scope, org)

Within(day, range) ==
  /\ range.start # NoDate => range.start <= day
  /\ range.end # NoDate => day <= range.end

Reports(rows, directory) ==
  {[row |-> r, status |-> JobLevelOf(directory, r.badge)] : r \in rows}

QueryAttendance(view, directory, badge, range) ==
  Reports({r \in view : (badge # "" => r.badge = badge) /\ Within(r.day, range)}, directory)

QueryManagerTeamAttendance(view, directory, scope, range) ==
  Reports({r \in view : Under(r.org, scope) /\ Within(r.day, range)}, directory)

-----------------------------------------------------------------------------
SwipesOf(rows) == Total([r \in rows |-> r.daily.swipe_count])

StayOf(rows) == Total([r \in rows |-> r.daily.stay])

BadgesOf(rows) == {r.badge : r \in rows}

\* date_trunc, for buckets of period days.
BucketOf(day, period) == day - (day % period)

\* Mutant: the end date is excluded.
QueryAttendanceTrend_EndExcluded(view, period, scope, range) ==
  LET rows == {r \in view : /\ scope # Unknown => Under(r.org, scope)
                            /\ Within(r.day, range) /\ r.day # range.end}
      bucket(k) == {r \in rows : BucketOf(r.day, period) = k}
  IN  {[bucket |-> k, head_count |-> Cardinality(BadgesOf(bucket(k))),
        avg_stay_hrs |-> <<StayOf(bucket(k)), Cardinality(bucket(k))>>,
        total_swipes |-> SwipesOf(bucket(k))] : k \in {BucketOf(r.day, period) : r \in rows}}

QueryAttendanceTrend(view, period, scope, range) ==
  LET rows == {r \in view : (scope # Unknown => Under(r.org, scope)) /\ Within(r.day, range)}
      bucket(k) == {r \in rows : BucketOf(r.day, period) = k}
  IN  {[bucket |-> k, head_count |-> Cardinality(BadgesOf(bucket(k))),
        avg_stay_hrs |-> <<StayOf(bucket(k)), Cardinality(bucket(k))>>,
        total_swipes |-> SwipesOf(bucket(k))] : k \in {BucketOf(r.day, period) : r \in rows}}

\* computeTrendSummary: the averages over the buckets, as <<sum, count>>.  The
\* mean of the buckets' mean stays is left out.
ComputeTrendSummary(trends) ==
  LET swipes == Total([t \in trends |-> t.total_swipes])
      heads  == Total([t \in trends |-> t.head_count])
  IN  [avg_swipes_per_person |-> <<swipes, heads>>,
       avg_head_count        |-> <<heads, Cardinality(trends)>>]

\* GROUP BY badge_id, name, org_path, job_level.
QueryEmployeeAggregated(view, directory, badge, scope, range) ==
  LET rows == {r \in view : /\ badge # "" => r.badge = badge
                            /\ scope # Unknown => Under(r.org, scope)
                            /\ Within(r.day, range)}
      group(r) == {q \in rows : q.badge = r.badge /\ q.org = r.org}
  IN  {[badge |-> r.badge, org |-> r.org, status |-> JobLevelOf(directory, r.badge),
        total_swipes |-> SwipesOf(group(r)), total_stay |-> StayOf(group(r)),
        day_count |-> Cardinality(group(r))] : r \in rows}

\* The audit trail reads the rows themselves, rejections included.
QueryAuditTrail(events, badge, range, t) ==
  {i \in DOMAIN events : /\ events[i].badge = badge
                         /\ range.start <= DayOf(events[i].time)
                         /\ DayOf(events[i].time) <= range.end
                         /\ events[i].time <= t}

-----------------------------------------------------------------------------
\* resolveDateRange: ?date= is a range of one day unless ?start_date= is given.
ResolveDateRange(dates) ==
  IF dates.date # NoDate /\ dates.start = NoDate
    THEN [start |-> dates.date, end |-> dates.date]
    ELSE [start |-> dates.start, end |-> dates.end]

\* getAuditTrail: a missing date is today's in the server's time zone, UTC.
AuditRange(dates, t) ==
  [start |-> IF dates.start = NoDate THEN t \div DayLength ELSE dates.start,
   end   |-> IF dates.end = NoDate THEN t \div DayLength ELSE dates.end]
=============================================================================
