------------------------------- MODULE Reporting -------------------------------
(***************************************************************************)
(* The read plane: backend/cmd/reporting-api/main.go answers a request     *)
(* with up to two queries, first the caller's scope in employees, then the *)
(* report in mv_daily_attendance, while org-sync (backend/cmd/org-sync)    *)
(* rewrites employees in a transaction, somebody edits it by hand, events  *)
(* are stored and mv-refresher (backend/cmd/mv-refresher) replaces the     *)
(* view by a snapshot that was taken some time ago.                        *)
(*                                                                         *)
(* PostgreSQL is assumed to do what it promises under READ COMMITTED: a    *)
(* statement sees what was committed when it began, a row written by an    *)
(* open transaction is locked, a rolled back one leaves no trace.          *)
(***************************************************************************)
EXTENDS ReportQueries

CONSTANTS
  History,         \* the events, in the order in which they are stored
  FirstDirectory,  \* employees at the start
  LDAP,            \* the list mockLDAP returns
  Edits,           \* changes by hand: pairs of a badge and its new row
  Requests,        \* the requests callers may make
  MaxTime, MaxSkew, MaxFaults  \* bounds

Kinds == {"attendance", "export", "aggregated", "team", "teamAggregated", "trend", "audit"}

NeedScope == {"team", "teamAggregated"}

Dates == [date : Int, start : Int, end : Int]

ASSUME HistoryAssumption ==
  History \in Seq([badge : Badges, direction : {"IN", "OUT"}, status : STRING, time : Nat])
ASSUME DirectoryAssumption == FirstDirectory \in Directories
ASSUME ListAssumption ==
  /\ LDAP \in Seq([badge : Badges, org : OrgPaths, job_level : JobLevels])
  /\ \A i, j \in DOMAIN LDAP : LDAP[i].badge = LDAP[j].badge => i = j
ASSUME EditAssumption == Edits \subseteq Badges \X Employees
ASSUME RequestAssumption ==
  Requests \subseteq [kind : Kinds, as : Badges \cup {""}, dates : Dates, period : Nat \ {0}]
ASSUME BoundAssumption == MaxTime \in Nat \ {0} /\ {MaxSkew, MaxFaults} \subseteq Nat

VARIABLES
  now,
  stored,       \* the first so many events of History are in access_events
  directories,  \* every committed state of employees, the present one last
  upserted,     \* org-sync's transaction has written the first so many of its list
  syncing,      \* "no", or "open" while that transaction is
  edited,       \* the badges edited by hand so far
  view,         \* mv_daily_attendance: the snapshot it was made of
  building,     \* the snapshot of a refresh under way
  handler,      \* the request being served
  answer,       \* the answer sent by the last step, if it sent one
  faults        \* number of faults so far

directoryVars == <<directories, upserted, syncing, edited>>
viewVars == <<view, building>>
vars == <<now, stored, directoryVars, viewVars, handler, answer, faults>>

-----------------------------------------------------------------------------
Current == directories[Len(directories)]

Events == SubSeq(History, 1, stored)

\* What a statement sees: a version of employees, so many events, a time.
Snapshot == [version |-> Len(directories), stored |-> stored, time |-> now]

NoSnapshot == [version |-> 0, stored |-> 0, time |-> 0]

\* The rows of the view.
ViewRows == ViewOf(directories[view.version], SubSeq(History, 1, view.stored), view.time)

Idle == [stage |-> "idle"]

NoAnswer == [code |-> 0]

Silent == answer' = NoAnswer

Fault ==
  /\ faults < MaxFaults
  /\ faults' = faults + 1

\* The migration creates the view of an empty table.
Init ==
  /\ now = 1
  /\ stored = 0
  /\ directories = <<FirstDirectory>>
  /\ upserted = 0 /\ syncing = "no" /\ edited = {}
  /\ view = [NoSnapshot EXCEPT !.version = 1]
  /\ building = NoSnapshot
  /\ handler = Idle /\ answer = NoAnswer
  /\ faults = 0

Tick ==
  /\ now < MaxTime
  /\ now' = now + 1
  /\ Silent /\ UNCHANGED <<stored, directoryVars, viewVars, handler, faults>>

\* event-processor inserts the next event; the gate's clock may be ahead.
Store ==
  /\ stored < Len(History)
  /\ History[stored + 1].time <= now + MaxSkew
  /\ stored' = stored + 1
  /\ Silent /\ UNCHANGED <<now, directoryVars, viewVars, handler, faults>>

-----------------------------------------------------------------------------
\* A commit that changes nothing is no new version.
Commit(directory) ==
  directories' = IF directory = Current THEN directories ELSE Append(directories, directory)

WithRow(directory, b, employee) ==
  [x \in DOMAIN directory \cup {b} |-> IF x = b THEN employee ELSE directory[x]]

\* The employees of the first n entries of the list, and their new rows.
Listed(n) == {LDAP[i].badge : i \in 1..n}

NewRow(i) == [org |-> LDAP[i].org, job_level |-> LDAP[i].job_level, is_active |-> TRUE]

\* A change by hand waits for the lock of a row org-sync has written.
ManualEdit(b, employee) ==
  /\ b \notin edited \cup Listed(upserted)
  /\ edited' = edited \cup {b}
  /\ Commit(WithRow(Current, b, employee))
  /\ Silent /\ UNCHANGED <<now, stored, upserted, syncing, viewVars, handler, faults>>

BeginSync ==
  /\ syncing = "no"
  /\ syncing' = "open"
  /\ Silent /\ UNCHANGED <<now, stored, directories, upserted, edited, viewVars, handler, faults>>

\* Mutant: db.ExecContext instead of tx.ExecContext.
Upsert_Autocommits ==
  /\ syncing = "open" /\ upserted < Len(LDAP)
  /\ upserted' = upserted + 1
  /\ Commit(WithRow(Current, LDAP[upserted + 1].badge, NewRow(upserted + 1)))
  /\ Silent /\ UNCHANGED <<now, stored, syncing, edited, viewVars, handler, faults>>

\* One row of the list.  Nobody else sees it yet.
Upsert ==
  /\ syncing = "open" /\ upserted < Len(LDAP)
  /\ upserted' = upserted + 1
  /\ Silent /\ UNCHANGED <<now, stored, directories, syncing, edited, viewVars, handler, faults>>

\* Mutant: the rows written are remembered.
SyncFails_KeepsRows ==
  /\ syncing = "open"
  /\ Fault
  /\ syncing' = "no"
  /\ Silent /\ UNCHANGED <<now, stored, directories, upserted, edited, viewVars, handler>>

\* An upsert fails, the context is cancelled or the process dies: rollback.
SyncFails ==
  /\ syncing = "open"
  /\ Fault
  /\ syncing' = "no" /\ upserted' = 0
  /\ Silent /\ UNCHANGED <<now, stored, directories, edited, viewVars, handler>>

\* Mutant: ON CONFLICT DO NOTHING.
Merged_KeepsRows(directory) ==
  [b \in DOMAIN directory \cup Listed(Len(LDAP)) |->
     IF b \in DOMAIN directory THEN directory[b]
       ELSE NewRow(CHOOSE i \in DOMAIN LDAP : LDAP[i].badge = b)]

\* ON CONFLICT DO UPDATE of every row of the list; other employees stay.
Merged(directory) ==
  [b \in DOMAIN directory \cup Listed(Len(LDAP)) |->
     IF b \in Listed(Len(LDAP)) THEN NewRow(CHOOSE i \in DOMAIN LDAP : LDAP[i].badge = b)
       ELSE directory[b]]

CommitSync ==
  /\ syncing = "open" /\ upserted = Len(LDAP)
  /\ Commit(Merged(Current))
  /\ syncing' = "no" /\ upserted' = 0
  /\ Silent /\ UNCHANGED <<now, stored, edited, viewVars, handler, faults>>

-----------------------------------------------------------------------------
Refreshing == building # NoSnapshot

\* Mutant: a failure ends the loop.
RefreshBegins_Once ==
  /\ ~Refreshing /\ faults = 0
  /\ building' = Snapshot
  /\ Silent /\ UNCHANGED <<now, stored, directoryVars, view, handler, faults>>

\* REFRESH MATERIALIZED VIEW CONCURRENTLY begins: it sees what is committed.
RefreshBegins ==
  /\ ~Refreshing
  /\ building' = Snapshot
  /\ Silent /\ UNCHANGED <<now, stored, directoryVars, view, handler, faults>>

RefreshEnds ==
  /\ Refreshing
  /\ view' = building
  /\ building' = NoSnapshot
  /\ Silent /\ UNCHANGED <<now, stored, directoryVars, handler, faults>>

\* The error is counted and the next tick of the timer tries again.
RefreshFails ==
  /\ Refreshing
  /\ Fault
  /\ building' = NoSnapshot
  /\ Silent /\ UNCHANGED <<now, stored, directoryVars, view, handler>>

-----------------------------------------------------------------------------
\* An answer: what was asked under which scope, whether the lookup of the scope
\* failed, when the request came in (the version of employees then), and
\* whether the connection broke while the rows were read.
Respond(code, h, rows, broken) ==
  /\ answer' = [code |-> code, request |-> h.request, range |-> h.range, scope |-> h.scope,
                failed |-> h.failed, since |-> h.since, rows |-> rows, broken |-> broken]
  /\ handler' = Idle

Scoped(r) == r.kind \in NeedScope \/ (r.kind = "trend" /\ r.as # "")

\* What the handler holds before its first query.
Serve(r) ==
  [stage |-> IF Scoped(r) THEN "scope" ELSE "query", request |-> r, scope |-> Unknown,
   failed |-> FALSE, since |-> IF Scoped(r) THEN Len(directories) ELSE 0,
   range |-> IF r.kind = "audit" THEN AuditRange(r.dates, now)
             ELSE IF r.kind = "trend" THEN [start |-> r.dates.start, end |-> r.dates.end]
             ELSE ResolveDateRange(r.dates)]

Reads == UNCHANGED <<now, stored, directoryVars, viewVars>>

\* The badge_id of an audit is `as` here.
Invalid(r) == r.as = "" /\ r.kind \in NeedScope \cup {"audit"}

BadRequest(r) ==
  /\ handler = Idle /\ Invalid(r)
  /\ Respond(400, Serve(r), {}, FALSE)
  /\ Reads /\ UNCHANGED faults

Ask(r) ==
  /\ handler = Idle /\ ~Invalid(r)
  /\ handler' = Serve(r)
  /\ Silent /\ Reads /\ UNCHANGED faults

\* GetManagerScope: a manager report needs a manager, a trend does not.
LookUpScope ==
  /\ handler.stage = "scope"
  /\ LET scope == GetManagerScope(Current, handler.request.as) IN
       IF scope = Unknown /\ handler.request.kind \in NeedScope
         THEN Respond(403, handler, {}, FALSE)
         ELSE /\ handler' = [handler EXCEPT !.stage = "query", !.scope = scope]
              /\ Silent
  /\ Reads /\ UNCHANGED faults

\* An error of the lookup is a 500, except for a trend, which goes on without
\* a scope.
LookUpFails ==
  /\ handler.stage = "scope"
  /\ Fault
  /\ IF handler.request.kind \in NeedScope
       THEN Respond(500, handler, {}, FALSE)
       ELSE handler' = [handler EXCEPT !.stage = "query", !.failed = TRUE] /\ Silent
  /\ Reads

\* What the second query returns.
Result(h) ==
  LET r == h.request IN
  CASE r.kind \in {"attendance", "export"} ->
         QueryAttendance(ViewRows, Current, r.as, h.range)
    [] r.kind = "aggregated" ->
         QueryEmployeeAggregated(ViewRows, Current, r.as, Unknown, h.range)
    [] r.kind = "team" ->
         QueryManagerTeamAttendance(ViewRows, Current, h.scope, h.range)
    [] r.kind = "teamAggregated" ->
         QueryEmployeeAggregated(ViewRows, Current, "", h.scope, h.range)
    [] r.kind = "trend" ->
         QueryAttendanceTrend(ViewRows, r.period, h.scope, h.range)
    [] r.kind = "audit" ->
         QueryAuditTrail(Events, r.as, h.range, now)

RunQuery ==
  /\ handler.stage = "query"
  /\ Respond(200, handler, Result(handler), FALSE)
  /\ Reads /\ UNCHANGED faults

QueryFails ==
  /\ handler.stage = "query"
  /\ Fault
  /\ Respond(500, handler, {}, FALSE)
  /\ Reads

\* The connection breaks while rows are read: rows.Next() returns false,
\* rows.Err() is not asked, and what has been read is the answer.
QueryBreaks ==
  /\ handler.stage = "query"
  /\ Fault
  /\ \E rows \in SUBSET Result(handler) \ {Result(handler)} : Respond(200, handler, rows, TRUE)
  /\ Reads

-----------------------------------------------------------------------------
SyncStep == BeginSync \/ Upsert \/ CommitSync

RefreshStep == RefreshBegins \/ RefreshEnds

Next ==
  \/ Tick \/ Store
  \/ \E e \in Edits : ManualEdit(e[1], e[2])
  \/ SyncStep \/ SyncFails
  \/ RefreshStep \/ RefreshFails
  \/ \E r \in Requests : BadRequest(r) \/ Ask(r)
  \/ LookUpScope \/ LookUpFails
  \/ RunQuery \/ QueryFails \/ QueryBreaks

Spec == Init /\ [][Next]_vars

\* The timers of org-sync and mv-refresher keep ticking and their statements
\* end.
FairSpec == Spec /\ WF_vars(SyncStep) /\ WF_vars(RefreshStep)
=============================================================================
