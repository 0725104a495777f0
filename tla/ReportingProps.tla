---------------------------- MODULE ReportingProps ----------------------------
(***************************************************************************)
(* What a report may say while the directory and the view change under it. *)
(***************************************************************************)
EXTENDS Reporting

Scopes == OrgPaths \cup {Unknown}

Handlers ==
  [stage : {"scope", "query"}, request : Requests, scope : Scopes, failed : BOOLEAN,
   since : Nat, range : [start : Int, end : Int]]

Snapshots == [version : Nat, stored : 0..Len(History), time : 0..MaxTime]

TypeOK ==
  /\ now \in 1..MaxTime
  /\ stored \in 0..Len(History)
  /\ directories \in Seq(Directories) \ {<<>>}
  /\ upserted \in 0..Len(LDAP) /\ edited \subseteq Badges
  /\ syncing \in {"no", "open"} /\ (syncing = "no" => upserted = 0)
  /\ {view, building} \subseteq Snapshots
  /\ view.version \in DOMAIN directories
  /\ building = NoSnapshot \/ building.version \in DOMAIN directories
  /\ handler \in Handlers \cup {Idle}
  /\ answer.code \in {0, 200, 400, 403, 500}
  /\ faults \in 0..MaxFaults

-----------------------------------------------------------------------------
\* The list as a directory; the employees nobody edits.
AfterSync == Merged(<<>>)

Unedited == Listed(Len(LDAP)) \ edited

\* The view shows a run of org-sync in full or not at all: sync upserts in one
\* transaction, a refresh reads employees in one statement, and a rollback or
\* an edit by hand in between leaves no half of it.
NoMixedDirectory ==
  \/ \A r \in ViewRows : r.badge \in Unedited => r.org = OrgOf(FirstDirectory, r.badge)
  \/ \A r \in ViewRows : r.badge \in Unedited => r.org = OrgOf(AfterSync, r.badge)

-----------------------------------------------------------------------------
\* In version v of the directory b is an active manager of that subtree.
Manages(v, b, scope) ==
  /\ b \in DOMAIN directories[v]
  /\ LET e == directories[v][b] IN e.is_active /\ e.job_level # "STAFF" /\ e.org = scope

ManagesNothing(v, b) == \A scope \in OrgPaths : ~Manages(v, b, scope)

\* The versions that were current between the request and its answer.
During == answer.since..Len(directories)

\* A report is made for a subtree its caller managed at some moment while it
\* was made, and 403 is only said to somebody who was no manager then.  A
\* trend without a scope is for a caller who was no manager, unless the very
\* lookup of that request failed.
ScopeWasHeld ==
  answer.code # 0 =>
    LET r == answer.request IN
    /\ answer.code = 200 /\ r.kind \in NeedScope =>
         \E v \in During : Manages(v, r.as, answer.scope)
    /\ answer.code = 403 => \E v \in During : ManagesNothing(v, r.as)
    /\ answer.code = 200 /\ r.kind = "trend" /\ r.as # "" =>
         IF answer.scope # Unknown THEN \E v \in During : Manages(v, r.as, answer.scope)
         ELSE answer.failed \/ \E v \in During : ManagesNothing(v, r.as)

\* main.go:174: a trend asked for in the name of a manager is limited to his
\* subtree.
TrendsAreLimited ==
  answer.code = 200 =>
    LET r == answer.request IN
    /\ r.kind = "trend"
    /\ \A v \in During : \E scope \in OrgPaths : Manages(v, r.as, scope)
    => answer.scope # Unknown

\* How often b passed a gate on day d, as far as the last refresh could know.
Passed(b, d) ==
  Cardinality({i \in 1..view.stored :
                 /\ History[i].badge = b /\ History[i].status = "SUCCESS"
                 /\ DayOf(History[i].time) = d /\ History[i].time <= view.time})

BelongsTo(b, scope) ==
  LET directory == directories[view.version] IN
  /\ b \in DOMAIN directory
  /\ Len(directory[b].org) >= Len(scope)
  /\ \A i \in DOMAIN scope : directory[b].org[i] = scope[i]

\* The days between the dates that were asked for.
Asked(dates) ==
  {d \in 0..DayOf(MaxTime + MaxSkew) :
     IF dates.date # NoDate /\ dates.start = NoDate THEN d = dates.date
     ELSE (dates.start = NoDate \/ d >= dates.start) /\ (dates.end = NoDate \/ d <= dates.end)}

Due(r, scope) ==
  {p \in Badges \X Asked(r.dates) : BelongsTo(p[1], scope) /\ Passed(p[1], p[2]) > 0}

\* How often whom to expect on which day.
PassedDue(r, scope) == [p \in Due(r, scope) |-> Passed(p[1], p[2])]

\* That as rows of the report, and the totals of each badge.
RowsFor(kind, passed) ==
  LET days(b) == {p \in DOMAIN passed : p[1] = b}
  IN  IF kind = "team"
        THEN {<<p[1], p[2], passed[p]>> : p \in DOMAIN passed}
        ELSE {<<b, Cardinality(days(b)), Total([p \in days(b) |-> passed[p]])>> :
                b \in {p[1] : p \in DOMAIN passed}}

ShownIn(kind, rows) ==
  IF kind = "team" THEN {<<a.row.badge, a.row.day, a.row.daily.swipe_count>> : a \in rows}
                   ELSE {<<a.badge, a.day_count, a.total_swipes>> : a \in rows}

\* A team report is exact for the directory and the events of the last
\* refresh: nobody outside the subtree, nobody missing, every day asked for
\* and no other, although the scope is of now and the org paths are older;
\* its totals have one row for each employee, whatever became of the org
\* paths, by which the query groups as well.  Only a connection that breaks
\* makes it incomplete.
TeamReportsAreExact ==
  answer.code = 200 /\ answer.request.kind \in NeedScope =>
    LET rows  == RowsFor(answer.request.kind, PassedDue(answer.request, answer.scope))
        shown == ShownIn(answer.request.kind, answer.rows)
    IN  /\ IF answer.broken THEN shown \subseteq rows ELSE shown = rows
        /\ Cardinality(shown) = Cardinality(answer.rows)

\* REPORT_JSON_SCHEMAS.md:219: when the database fails a team report is a 500, so
\* that one with status 200 has all its rows.
ReportsAreWhole ==
  answer.code = 200 /\ answer.request.kind \in NeedScope =>
    ShownIn(answer.request.kind, answer.rows)
      = RowsFor(answer.request.kind, PassedDue(answer.request, answer.scope))

\* postgres.go:77: the reports read the same view for consistency.  For one
\* scope and range of dates the team report, the totals and the trend have the
\* same employees, days, hours and swipes: the totals have one row for each
\* badge of the report, with the number, the hours and the swipes of its days,
\* and the buckets of the trend are those of the report's days and add up to
\* its days, hours and swipes.  Heads, which a trend counts in each bucket
\* anew, lie between the badges and the rows of the report.
ReadersAgree ==
  answer.code = 200 /\ answer.request.kind = "trend" /\ ~answer.broken =>
    LET team == {a.row : a \in IF answer.scope = Unknown
                   THEN QueryAttendance(ViewRows, Current, "", answer.range)
                   ELSE QueryManagerTeamAttendance(ViewRows, Current, answer.scope, answer.range)}
        totals == QueryEmployeeAggregated(ViewRows, Current, "", answer.scope, answer.range)
        trends == answer.rows
        summary == ComputeTrendSummary(trends)
    IN  /\ BadgesOf(totals) = BadgesOf(team)
        /\ \A a, b \in totals : a.badge = b.badge => a = b
        /\ \A a \in totals :
             LET days == {r \in team : r.badge = a.badge}
             IN  /\ a.day_count = Cardinality(days)
                 /\ a.total_stay = StayOf(days) /\ a.total_swipes = SwipesOf(days)
        /\ {t.bucket : t \in trends} = {BucketOf(r.day, answer.request.period) : r \in team}
        /\ Total([t \in trends |-> t.avg_stay_hrs[2]]) = Cardinality(team)
        /\ Total([t \in trends |-> t.avg_stay_hrs[1]]) = StayOf(team)
        /\ summary.avg_swipes_per_person[1] = SwipesOf(team)
        /\ Cardinality(BadgesOf(team)) <= summary.avg_head_count[1]
        /\ summary.avg_head_count[1] <= Cardinality(team)

\* Every swipe a report counts can be shown in the audit trail of that day.
ReportsAreAudited ==
  \A r \in ViewRows :
    LET trail == QueryAuditTrail(Events, r.badge, [start |-> r.day, end |-> r.day], now)
    IN  r.daily.swipe_count <= Cardinality({i \in trail : Events[i].status = "SUCCESS"})

-----------------------------------------------------------------------------
\* The view catches up with every committed change of the directory and every
\* stored event, although refreshes fail.
ChangesReachReports == []<>(view.version = Len(directories) /\ view.stored = stored)

\* org-sync wins in the end: what LDAP says replaces what was edited by hand.
SyncWins ==
  <>[](\A i \in DOMAIN LDAP : LDAP[i].badge \in DOMAIN Current /\ Current[LDAP[i].badge] = NewRow(i))
=============================================================================
