---------------------------- MODULE Reporting_proofs ----------------------------
(***************************************************************************)
(* Theorems about Reporting for any directory, list of org-sync, history   *)
(* of events, changes by hand, requests and bounds.                        *)
(***************************************************************************)
EXTENDS ReportingProps, AttendanceView_proofs

-----------------------------------------------------------------------------
(* Directories: what commits make of them. *)

LEMMA Bounds == MaxTime \in Nat \ {0} /\ MaxSkew \in Nat /\ MaxFaults \in Nat
BY BoundAssumption

LEMMA DirectoryElim ==
  ASSUME NEW d \in Directories
  PROVE  /\ DOMAIN d \subseteq Badges
         /\ \A b \in DOMAIN d : d[b] \in Employees
<1>1. PICK S \in SUBSET Badges : d \in [S -> Employees]
  BY DEF Directories
<1>2. QED
  BY <1>1

LEMMA DirectoryIntro ==
  ASSUME NEW S \in SUBSET Badges, NEW d \in [S -> Employees]
  PROVE  d \in Directories
BY DEF Directories

LEMMA NewRowIsEmployee ==
  ASSUME NEW i \in DOMAIN LDAP
  PROVE  LDAP[i].badge \in Badges /\ NewRow(i) \in Employees
<1> DEFINE entries == [badge : Badges, org : OrgPaths, job_level : JobLevels]
<1>1. LDAP \in Seq(entries)
  BY ListAssumption
<1>2. LDAP[i] \in entries
  <2> HIDE DEF entries
  <2>1. QED
    BY <1>1
<1>3. QED
  BY <1>2 DEF NewRow, Employees

LEMMA ListedAreBadges == Listed(Len(LDAP)) \subseteq Badges
<1>1. DOMAIN LDAP = 1..Len(LDAP)
  BY ListAssumption
<1>2. QED
  BY <1>1, NewRowIsEmployee DEF Listed

LEMMA WithRowIsDirectory ==
  ASSUME NEW d \in Directories, NEW b \in Badges, NEW e \in Employees
  PROVE  WithRow(d, b, e) \in Directories
<1>1. DOMAIN d \cup {b} \in SUBSET Badges
  BY DirectoryElim
<1>2. WithRow(d, b, e) \in [DOMAIN d \cup {b} -> Employees]
  BY DirectoryElim DEF WithRow
<1>3. QED
  BY <1>1, <1>2, DirectoryIntro

\* The row of a listed employee, whatever the directory was.
LEMMA MergedRow ==
  ASSUME NEW d, NEW b \in Listed(Len(LDAP))
  PROVE  /\ b \in DOMAIN Merged(d)
         /\ Merged(d)[b] \in Employees
         /\ \E i \in DOMAIN LDAP : LDAP[i].badge = b /\ Merged(d)[b] = NewRow(i)
<1>1. DOMAIN LDAP = 1..Len(LDAP)
  BY ListAssumption
<1> DEFINE i == CHOOSE j \in DOMAIN LDAP : LDAP[j].badge = b
<1>2. i \in DOMAIN LDAP /\ LDAP[i].badge = b
  BY <1>1 DEF Listed
<1>3. b \in DOMAIN Merged(d) /\ Merged(d)[b] = NewRow(i)
  BY DEF Merged
<1>4. QED
  BY <1>2, <1>3, NewRowIsEmployee

LEMMA MergedIsDirectory ==
  ASSUME NEW d \in Directories
  PROVE  Merged(d) \in Directories
<1>1. DOMAIN d \cup Listed(Len(LDAP)) \in SUBSET Badges
  BY DirectoryElim, ListedAreBadges
<1>2. \A b \in DOMAIN d \cup Listed(Len(LDAP)) : Merged(d)[b] \in Employees
  <2>1. TAKE b \in DOMAIN d \cup Listed(Len(LDAP))
  <2>2. CASE b \in Listed(Len(LDAP))
    BY <2>2, MergedRow
  <2>3. CASE b \notin Listed(Len(LDAP))
    <3>1. Merged(d)[b] = d[b]
      BY <2>3 DEF Merged
    <3>2. QED
      BY <2>1, <2>3, <3>1, DirectoryElim
  <2>4. QED
    BY <2>2, <2>3
<1>3. Merged(d) \in [DOMAIN d \cup Listed(Len(LDAP)) -> Employees]
  BY <1>2 DEF Merged
<1>4. QED
  BY <1>1, <1>3, DirectoryIntro

LEMMA CurrentIsDirectory ==
  ASSUME TypeOK
  PROVE  /\ Len(directories) \in Nat \ {0}
         /\ DOMAIN directories = 1..Len(directories)
         /\ \A v \in 1..Len(directories) : directories[v] \in Directories
         /\ Current \in Directories
BY DEF TypeOK, Current

\* Versions are only added, and only at the end.
LEMMA CommitAppends ==
  ASSUME TypeOK, NEW d \in Directories, Commit(d)
  PROVE  /\ directories' \in Seq(Directories) \ {<<>>}
         /\ Len(directories') \in {Len(directories), Len(directories) + 1}
         /\ \A v \in 1..Len(directories) : directories'[v] = directories[v]
         /\ \A v \in 1..Len(directories') : v \in 1..Len(directories) \/ directories'[v] = d
<1>1. directories \in Seq(Directories) /\ Len(directories) \in Nat \ {0}
  BY CurrentIsDirectory DEF TypeOK
<1>2. CASE d = Current
  <2>1. directories' = directories
    BY <1>2 DEF Commit
  <2>2. QED
    BY <1>1, <2>1
<1>3. CASE d # Current
  <2>1. directories' = Append(directories, d)
    BY <1>3 DEF Commit
  <2>2. QED
    BY <1>1, <2>1
<1>4. QED
  BY <1>2, <1>3

-----------------------------------------------------------------------------
(* Type correctness. *)

LEMMA ServeIsHandler ==
  ASSUME TypeOK, NEW r \in Requests
  PROVE  Serve(r) \in Handlers
<1>1. /\ r.dates \in Dates /\ r.dates.date \in Int
      /\ r.dates.start \in Int /\ r.dates.end \in Int
  BY RequestAssumption DEF Dates
<1>2. now \in Nat /\ now \div DayLength \in Int
  BY DayAssumption, Bounds DEF TypeOK
<1> DEFINE range == IF r.kind = "audit" THEN AuditRange(r.dates, now)
                    ELSE IF r.kind = "trend" THEN [start |-> r.dates.start, end |-> r.dates.end]
                    ELSE ResolveDateRange(r.dates)
           stage == IF Scoped(r) THEN "scope" ELSE "query"
           since == IF Scoped(r) THEN Len(directories) ELSE 0
<1>3. range \in [start : Int, end : Int]
  BY <1>1, <1>2 DEF AuditRange, ResolveDateRange
<1>4. stage \in {"scope", "query"} /\ since \in Nat /\ Unknown \in Scopes
  BY CurrentIsDirectory DEF Scopes
<1>5. Serve(r) = [stage |-> stage, request |-> r, scope |-> Unknown, failed |-> FALSE,
                  since |-> since, range |-> range]
  BY DEF Serve
<1> HIDE DEF range, stage, since
<1>6. QED
  BY <1>3, <1>4, <1>5 DEF Handlers

\* The handler is idle or at one of its two queries.
LEMMA Stages ==
  ASSUME TypeOK, handler.stage # "idle"
  PROVE  handler \in Handlers
<1>1. Idle.stage = "idle"
  BY DEF Idle
<1>2. QED
  BY <1>1 DEF TypeOK

LEMMA InitTyped == Init => TypeOK
<1> SUFFICES ASSUME Init PROVE TypeOK
  OBVIOUS
<1>1. directories = <<FirstDirectory>> /\ FirstDirectory \in Directories
  BY DirectoryAssumption DEF Init
<1>2. directories \in Seq(Directories) \ {<<>>} /\ DOMAIN directories = 1..1
  BY <1>1
<1>3. Len(History) \in Nat /\ Len(LDAP) \in Nat
  BY HistoryAssumption, ListAssumption
<1>4. view = [version |-> 1, stored |-> 0, time |-> 0] /\ building = NoSnapshot
  BY DEF Init, NoSnapshot
<1>5. {view, building} \subseteq Snapshots
  BY <1>3, <1>4, Bounds DEF Snapshots, NoSnapshot
<1>6. view.version \in DOMAIN directories /\ (building = NoSnapshot \/ building.version \in DOMAIN directories)
  BY <1>2, <1>4 DEF NoSnapshot
<1>7. QED
  BY <1>2, <1>3, <1>5, <1>6, Bounds DEF Init, TypeOK, NoAnswer

\* What the snapshots of the view need of the directory's versions.
LEMMA SnapshotsStay ==
  ASSUME TypeOK, directories' \in Seq(Directories) \ {<<>>}, Len(directories) <= Len(directories'),
         UNCHANGED viewVars
  PROVE  /\ (view.version \in DOMAIN directories)'
         /\ (building = NoSnapshot \/ building.version \in DOMAIN directories)'
<1>1. DOMAIN directories = 1..Len(directories) /\ DOMAIN directories' = 1..Len(directories')
  BY DEF TypeOK
<1>2. Len(directories) \in Nat /\ Len(directories') \in Nat
  BY DEF TypeOK
<1>3. view' = view /\ building' = building
  BY DEF viewVars
<1>4. QED
  BY <1>1, <1>2, <1>3 DEF TypeOK

LEMMA CommitKeepsTypes ==
  ASSUME TypeOK, NEW d \in Directories, Commit(d), UNCHANGED viewVars
  PROVE  /\ (directories \in Seq(Directories) \ {<<>>})'
         /\ ({view, building} \subseteq Snapshots)'
         /\ (view.version \in DOMAIN directories)'
         /\ (building = NoSnapshot \/ building.version \in DOMAIN directories)'
<1>1. directories' \in Seq(Directories) \ {<<>>} /\ Len(directories) <= Len(directories')
  BY CommitAppends, CurrentIsDirectory
<1>2. ({view, building} \subseteq Snapshots)'
  BY DEF TypeOK, viewVars, Snapshots
<1>3. QED
  BY <1>1, <1>2, SnapshotsStay

LEMMA ManualEditTyped ==
  ASSUME TypeOK, NEW e \in Edits, ManualEdit(e[1], e[2])
  PROVE  TypeOK'
<1>1. e[1] \in Badges /\ e[2] \in Employees
  BY EditAssumption
<1>2. WithRow(Current, e[1], e[2]) \in Directories
  BY <1>1, WithRowIsDirectory, CurrentIsDirectory
<1>3. Commit(WithRow(Current, e[1], e[2])) /\ UNCHANGED viewVars
  BY DEF ManualEdit
<1>4. (edited \subseteq Badges)'
  BY <1>1 DEF ManualEdit, TypeOK
<1>5. UNCHANGED <<now, stored, upserted, syncing, handler, faults>> /\ answer' = NoAnswer
  BY DEF ManualEdit, Silent
<1>6. QED
  BY <1>2, <1>3, <1>4, <1>5, CommitKeepsTypes DEF TypeOK, NoAnswer

LEMMA CommitSyncTyped ==
  ASSUME TypeOK, CommitSync
  PROVE  TypeOK'
<1>1. Merged(Current) \in Directories
  BY MergedIsDirectory, CurrentIsDirectory
<1>2. Commit(Merged(Current)) /\ UNCHANGED viewVars
  BY DEF CommitSync
<1>3. UNCHANGED <<now, stored, edited, handler, faults>> /\ answer' = NoAnswer
      /\ syncing' = "no" /\ upserted' = 0
  BY DEF CommitSync, Silent
<1>4. Len(LDAP) \in Nat
  BY ListAssumption
<1>5. QED
  BY <1>1, <1>2, <1>3, <1>4, CommitKeepsTypes DEF TypeOK, NoAnswer

\* The steps that neither commit nor serve a request.
LEMMA BackgroundTyped ==
  ASSUME TypeOK, Tick \/ Store \/ BeginSync \/ Upsert \/ SyncFails
  PROVE  TypeOK'
<1>1. UNCHANGED <<directories, edited, viewVars, handler>> /\ answer' = NoAnswer
  BY DEF Tick, Store, BeginSync, Upsert, SyncFails, Silent, directoryVars
<1>2. Len(History) \in Nat /\ Len(LDAP) \in Nat
  BY HistoryAssumption, ListAssumption
<1>3. now' \in 1..MaxTime /\ stored' \in 0..Len(History) /\ faults' \in 0..MaxFaults
  BY <1>2, Bounds, SMTT(30) DEF Tick, Store, BeginSync, Upsert, SyncFails, Fault, TypeOK, directoryVars
<1>4. upserted' \in 0..Len(LDAP) /\ syncing' \in {"no", "open"} /\ (syncing' = "no" => upserted' = 0)
  BY <1>2 DEF Tick, Store, BeginSync, Upsert, SyncFails, TypeOK, directoryVars
<1>5. view' = view /\ building' = building
  BY <1>1 DEF viewVars
<1>6. QED
  BY <1>1, <1>3, <1>4, <1>5 DEF TypeOK, NoAnswer, Snapshots

LEMMA RefreshTyped ==
  ASSUME TypeOK, RefreshStep \/ RefreshFails
  PROVE  TypeOK'
<1>1. UNCHANGED <<now, stored, directories, upserted, syncing, edited, handler>>
      /\ answer' = NoAnswer
  BY DEF RefreshStep, RefreshBegins, RefreshEnds, RefreshFails, Silent, directoryVars
<1>2. faults' \in 0..MaxFaults
  BY Bounds DEF RefreshStep, RefreshBegins, RefreshEnds, RefreshFails, Fault, TypeOK
<1>3. Snapshot \in Snapshots /\ Snapshot.version \in DOMAIN directories
  BY CurrentIsDirectory, Bounds, SMTT(30) DEF Snapshot, Snapshots, TypeOK
<1>4. NoSnapshot \in Snapshots /\ NoSnapshot.version = 0
  <2>1. Len(History) \in Nat
    BY HistoryAssumption
  <2>2. QED
    BY <2>1, Bounds DEF NoSnapshot, Snapshots
<1>5. Refreshing => building.version \in DOMAIN directories
  BY DEF Refreshing, TypeOK
<1>6. ({view, building} \subseteq Snapshots)'
  BY <1>3, <1>4 DEF RefreshStep, RefreshBegins, RefreshEnds, RefreshFails, TypeOK
<1>7. (view.version \in DOMAIN directories)'
  BY <1>1, <1>5 DEF RefreshStep, RefreshBegins, RefreshEnds, RefreshFails, TypeOK
<1>8. (building = NoSnapshot \/ building.version \in DOMAIN directories)'
  BY <1>1, <1>3 DEF RefreshStep, RefreshBegins, RefreshEnds, RefreshFails, TypeOK
<1>9. QED
  BY <1>1, <1>2, <1>6, <1>7, <1>8 DEF TypeOK, NoAnswer

LEMMA AskTyped ==
  ASSUME TypeOK, NEW r \in Requests, Ask(r) \/ BadRequest(r)
  PROVE  /\ handler' \in Handlers \cup {Idle}
         /\ answer'.code \in {0, 200, 400, 403, 500}
<1>1. CASE Ask(r)
  BY <1>1, ServeIsHandler DEF Ask, Silent, NoAnswer
<1>2. CASE BadRequest(r)
  BY <1>2 DEF BadRequest, Respond
<1>3. QED
  BY <1>1, <1>2

\* The scope looked up is an org path or nothing.
LEMMA ScopeIsScope ==
  ASSUME NEW d \in Directories, NEW b
  PROVE  GetManagerScope(d, b) \in Scopes
<1>1. b \in DOMAIN d => d[b].org \in OrgPaths
  BY DirectoryElim DEF Employees
<1>2. QED
  BY <1>1 DEF GetManagerScope, Scopes

LEMMA AdvanceTyped ==
  ASSUME NEW h \in Handlers, NEW scope \in Scopes
  PROVE  /\ [h EXCEPT !.stage = "query", !.scope = scope] \in Handlers
         /\ [h EXCEPT !.stage = "query", !.failed = TRUE] \in Handlers
BY DEF Handlers

LEMMA LookUpTyped ==
  ASSUME TypeOK, LookUpScope \/ LookUpFails
  PROVE  /\ handler' \in Handlers \cup {Idle}
         /\ answer'.code \in {0, 200, 400, 403, 500}
<1>1. handler \in Handlers
  BY Stages DEF LookUpScope, LookUpFails
<1>2. CASE LookUpScope
  <2> DEFINE scope == GetManagerScope(Current, handler.request.as)
  <2>1. scope \in Scopes
    BY ScopeIsScope, CurrentIsDirectory
  <2>2. \/ Respond(403, handler, {}, FALSE)
        \/ handler' = [handler EXCEPT !.stage = "query", !.scope = scope] /\ Silent
    BY <1>2 DEF LookUpScope
  <2> HIDE DEF scope
  <2>3. [handler EXCEPT !.stage = "query", !.scope = scope] \in Handlers
    BY <1>1, <2>1, AdvanceTyped
  <2>4. QED
    BY <2>2, <2>3 DEF Respond, Silent, NoAnswer
<1>3. CASE LookUpFails
  <2>1. \/ Respond(500, handler, {}, FALSE)
        \/ handler' = [handler EXCEPT !.stage = "query", !.failed = TRUE] /\ Silent
    BY <1>3 DEF LookUpFails
  <2>2. [handler EXCEPT !.stage = "query", !.failed = TRUE] \in Handlers
    BY <1>1, AdvanceTyped DEF Scopes
  <2>3. QED
    BY <2>1, <2>2 DEF Respond, Silent, NoAnswer
<1>4. QED
  BY <1>2, <1>3

LEMMA QueryTyped ==
  ASSUME TypeOK, RunQuery \/ QueryFails \/ QueryBreaks
  PROVE  handler' = Idle /\ answer'.code \in {200, 500}
<1>1. CASE RunQuery
  BY <1>1 DEF RunQuery, Respond
<1>2. CASE QueryFails
  BY <1>2 DEF QueryFails, Respond
<1>3. CASE QueryBreaks
  <2>1. PICK rows : Respond(200, handler, rows, TRUE)
    BY <1>3 DEF QueryBreaks
  <2>2. QED
    BY <2>1 DEF Respond
<1>4. QED
  BY <1>1, <1>2, <1>3

\* Serving a request changes nothing but the handler and its answer.
LEMMA ServingReads ==
  ASSUME \/ \E r \in Requests : Ask(r) \/ BadRequest(r)
         \/ LookUpScope \/ LookUpFails \/ RunQuery \/ QueryFails \/ QueryBreaks
  PROVE  /\ UNCHANGED <<now, stored, directories, upserted, syncing, edited, view, building>>
         /\ faults' = faults \/ (faults < MaxFaults /\ faults' = faults + 1)
BY DEF Ask, BadRequest, LookUpScope, LookUpFails, RunQuery, QueryFails, QueryBreaks,
       Reads, Fault, directoryVars, viewVars

LEMMA ServingTyped ==
  ASSUME TypeOK,
         \/ \E r \in Requests : Ask(r) \/ BadRequest(r)
         \/ LookUpScope \/ LookUpFails \/ RunQuery \/ QueryFails \/ QueryBreaks
  PROVE  TypeOK'
<1>1. UNCHANGED <<now, stored, directories, upserted, syncing, edited, view, building>>
  BY ServingReads
<1>2. faults' \in 0..MaxFaults
  BY ServingReads, Bounds DEF TypeOK
<1>3. handler' \in Handlers \cup {Idle} /\ answer'.code \in {0, 200, 400, 403, 500}
  BY AskTyped, LookUpTyped, QueryTyped
<1>4. QED
  BY <1>1, <1>2, <1>3 DEF TypeOK, Snapshots

\* Every reachable state of the read plane is well typed, for any directory,
\* any list, any history and any requests: the view and a refresh under way
\* are snapshots of versions that were committed.
THEOREM TypeCorrect == Spec => []TypeOK
<1>1. Init => TypeOK
  BY InitTyped
<1>2. TypeOK /\ [Next]_vars => TypeOK'
  <2> SUFFICES ASSUME TypeOK, [Next]_vars PROVE TypeOK'
    OBVIOUS
  <2>1. CASE \E e \in Edits : ManualEdit(e[1], e[2])
    BY <2>1, ManualEditTyped
  <2>2. CASE CommitSync
    BY <2>2, CommitSyncTyped
  <2>3. CASE Tick \/ Store \/ BeginSync \/ Upsert \/ SyncFails
    BY <2>3, BackgroundTyped
  <2>4. CASE RefreshStep \/ RefreshFails
    BY <2>4, RefreshTyped
  <2>5. CASE \/ \E r \in Requests : Ask(r) \/ BadRequest(r)
             \/ LookUpScope \/ LookUpFails \/ RunQuery \/ QueryFails \/ QueryBreaks
    BY <2>5, ServingTyped
  <2>6. CASE UNCHANGED vars
    BY <2>6 DEF vars, directoryVars, viewVars, TypeOK, Snapshots
  <2>7. QED
    BY <2>1, <2>2, <2>3, <2>4, <2>5, <2>6 DEF Next, SyncStep
<1>3. QED
  BY <1>1, <1>2, PTL DEF Spec

-----------------------------------------------------------------------------
(* ScopeWasHeld.  The invariant it follows from says what the handler may  *)
(* rely on between its two queries: versions of employees are only added,  *)
(* so the one in which its scope was read stays between the request and    *)
(* the present.                                                            *)

Held(v, b, scope) == IF scope = Unknown THEN ManagesNothing(v, b) ELSE Manages(v, b, scope)

Promised ==
  handler.stage # "idle" =>
    LET r == handler.request IN
    /\ handler.stage = "scope" => Scoped(r) /\ handler.scope = Unknown
    /\ Scoped(r) => handler.since \in 1..Len(directories)
    /\ Scoped(r) /\ handler.stage = "query" =>
         \/ \E v \in handler.since..Len(directories) : Held(v, r.as, handler.scope)
         \/ handler.scope = Unknown /\ handler.failed
    /\ Scoped(r) /\ handler.stage = "query" /\ handler.scope = Unknown => r.kind = "trend"

\* The lookup finds what the present version says.
LEMMA ScopeIsHeld ==
  ASSUME TypeOK, NEW b
  PROVE  Held(Len(directories), b, GetManagerScope(Current, b))
<1>1. Current \in Directories /\ Current = directories[Len(directories)]
  BY CurrentIsDirectory DEF Current
<1>2. b \in DOMAIN Current => Current[b].org \in OrgPaths
  BY <1>1, DirectoryElim DEF Employees
<1>3. Unknown \notin OrgPaths
  BY OrgAssumption DEF Unknown
<1>4. CASE b \in DOMAIN Current /\ Current[b].job_level # "STAFF" /\ Current[b].is_active
  <2>1. GetManagerScope(Current, b) = Current[b].org
    BY <1>4 DEF GetManagerScope
  <2>2. Manages(Len(directories), b, Current[b].org)
    BY <1>1, <1>4 DEF Manages
  <2>3. QED
    BY <1>2, <1>3, <1>4, <2>1, <2>2 DEF Held
<1>5. CASE ~ (b \in DOMAIN Current /\ Current[b].job_level # "STAFF" /\ Current[b].is_active)
  <2>1. GetManagerScope(Current, b) = Unknown
    BY <1>5 DEF GetManagerScope
  <2>2. ManagesNothing(Len(directories), b)
    BY <1>1, <1>5 DEF ManagesNothing, Manages
  <2>3. QED
    BY <2>1, <2>2 DEF Held
<1>6. QED
  BY <1>4, <1>5

LEMMA HeldStays ==
  ASSUME NEW v, directories'[v] = directories[v], NEW b, NEW scope, Held(v, b, scope)
  PROVE  Held(v, b, scope)'
BY DEF Held, Manages, ManagesNothing

\* The steps of the others add a version at most.
LEMMA OthersAppend ==
  ASSUME TypeOK,
         \/ Tick \/ Store \/ SyncStep \/ SyncFails \/ RefreshStep \/ RefreshFails
         \/ \E e \in Edits : ManualEdit(e[1], e[2])
  PROVE  /\ handler' = handler /\ answer' = NoAnswer
         /\ Len(directories') \in Nat /\ Len(directories) <= Len(directories')
         /\ \A v \in 1..Len(directories) : directories'[v] = directories[v]
<1>1. Len(directories) \in Nat
  BY CurrentIsDirectory
<1>2. CASE \E e \in Edits : ManualEdit(e[1], e[2])
  <2>1. PICK e \in Edits : ManualEdit(e[1], e[2])
    BY <1>2
  <2>2. WithRow(Current, e[1], e[2]) \in Directories
    BY EditAssumption, WithRowIsDirectory, CurrentIsDirectory
  <2>3. Commit(WithRow(Current, e[1], e[2])) /\ handler' = handler /\ answer' = NoAnswer
    BY <2>1 DEF ManualEdit, Silent
  <2>4. QED
    BY <1>1, <2>2, <2>3, CommitAppends
<1>3. CASE CommitSync
  <2>1. Merged(Current) \in Directories
    BY MergedIsDirectory, CurrentIsDirectory
  <2>2. Commit(Merged(Current)) /\ handler' = handler /\ answer' = NoAnswer
    BY <1>3 DEF CommitSync, Silent
  <2>3. QED
    BY <1>1, <2>1, <2>2, CommitAppends
<1>4. CASE Tick \/ Store \/ BeginSync \/ Upsert \/ SyncFails \/ RefreshStep \/ RefreshFails
  <2>1. UNCHANGED <<directories, handler>> /\ answer' = NoAnswer
    BY <1>4 DEF Tick, Store, BeginSync, Upsert, SyncFails, RefreshStep, RefreshBegins,
                RefreshEnds, RefreshFails, Silent, directoryVars
  <2>2. QED
    BY <1>1, <2>1
<1>5. QED
  BY <1>2, <1>3, <1>4 DEF SyncStep

LEMMA OthersKeepPromise ==
  ASSUME TypeOK, Promised, handler' = handler,
         Len(directories') \in Nat, Len(directories) <= Len(directories'),
         \A v \in 1..Len(directories) : directories'[v] = directories[v]
  PROVE  Promised'
<1> SUFFICES ASSUME handler.stage # "idle"
             PROVE  Promised'
  BY DEF Promised
<1>1. PICK r : r = handler.request
  OBVIOUS
<1>2. handler \in Handlers /\ handler.since \in Nat /\ Len(directories) \in Nat
  BY Stages, CurrentIsDirectory DEF Handlers
<1>3. PICK scope, since, failed :
        scope = handler.scope /\ since = handler.since /\ failed = handler.failed
  OBVIOUS
<1>4. Scoped(r) => since \in 1..Len(directories) /\ since \in 1..Len(directories')
  BY <1>1, <1>2, <1>3 DEF Promised
<1>5. ASSUME Scoped(r), NEW v \in since..Len(directories), Held(v, r.as, scope)
      PROVE  v \in since..Len(directories') /\ Held(v, r.as, scope)'
  <2>1. v \in 1..Len(directories) /\ v \in since..Len(directories')
    BY <1>2, <1>4, <1>5
  <2>2. QED
    BY <1>5, <2>1, HeldStays
<1>6. Scoped(r) /\ handler.stage = "query" =>
         \/ \E v \in since..Len(directories) : Held(v, r.as, scope)
         \/ scope = Unknown /\ failed
  BY <1>1, <1>3 DEF Promised
<1>7. Scoped(r) /\ handler.stage = "query" =>
         \/ \E v \in since..Len(directories') : Held(v, r.as, scope)'
         \/ scope = Unknown /\ failed
  BY <1>2, <1>5, <1>6
<1>8. /\ handler.stage = "scope" => Scoped(r) /\ scope = Unknown
      /\ Scoped(r) /\ handler.stage = "query" /\ scope = Unknown => r.kind = "trend"
  BY <1>1, <1>3 DEF Promised
<1>9. QED
  BY <1>1, <1>3, <1>4, <1>7, <1>8 DEF Promised

LEMMA AskPromises ==
  ASSUME TypeOK, NEW r \in Requests, Ask(r)
  PROVE  Promised'
<1>1. /\ handler'.request = r /\ handler'.scope = Unknown
      /\ handler'.stage = IF Scoped(r) THEN "scope" ELSE "query"
      /\ handler'.since = IF Scoped(r) THEN Len(directories) ELSE 0
  BY DEF Ask, Serve
<1>2. Len(directories') = Len(directories) /\ Len(directories) \in Nat \ {0}
  BY CurrentIsDirectory, ServingReads
<1>3. QED
  BY <1>1, <1>2 DEF Promised

\* A step that ends the request promises nothing.
LEMMA IdlePromises ==
  ASSUME handler' = Idle
  PROVE  Promised'
BY DEF Promised, Idle

LEMMA LookUpScopePromises ==
  ASSUME TypeOK, Promised, LookUpScope
  PROVE  Promised'
<1>1. handler \in Handlers /\ Len(directories) \in Nat
  BY Stages, CurrentIsDirectory DEF LookUpScope
<1>2. PICK b, scope : b = handler.request.as /\ scope = GetManagerScope(Current, b)
  OBVIOUS
<1>3. /\ Scoped(handler.request) /\ handler.since \in 1..Len(directories)
  BY DEF Promised, LookUpScope
<1>4. CASE scope = Unknown /\ handler.request.kind \in NeedScope
  <2>1. handler' = Idle
    BY <1>2, <1>4 DEF LookUpScope, Respond
  <2>2. QED
    BY <2>1, IdlePromises
<1>5. CASE ~ (scope = Unknown /\ handler.request.kind \in NeedScope)
  <2>1. handler' = [handler EXCEPT !.stage = "query", !.scope = scope]
    BY <1>2, <1>5 DEF LookUpScope
  <2>2. /\ handler'.request = handler.request /\ handler'.stage = "query"
        /\ handler'.scope = scope /\ handler'.since = handler.since
    BY <1>1, <2>1 DEF Handlers
  <2>3. directories' = directories
    BY ServingReads
  <2>4. Len(directories) \in handler.since..Len(directories)
    BY <1>1, <1>3
  <2>5. Held(Len(directories), b, scope)
    BY <1>2, ScopeIsHeld
  <2>6. Held(Len(directories), b, scope)'
    BY <2>3, <2>5, HeldStays
  <2>7. scope = Unknown => handler.request.kind = "trend"
    BY <1>3, <1>5 DEF Scoped
  <2>8. QED
    BY <1>2, <1>3, <2>2, <2>3, <2>4, <2>6, <2>7 DEF Promised
<1>6. QED
  BY <1>4, <1>5

LEMMA LookUpFailsPromises ==
  ASSUME TypeOK, Promised, LookUpFails
  PROVE  Promised'
<1>1. handler \in Handlers
  BY Stages DEF LookUpFails
<1>2. /\ Scoped(handler.request) /\ handler.scope = Unknown
      /\ handler.since \in 1..Len(directories)
  BY DEF Promised, LookUpFails
<1>3. CASE handler.request.kind \in NeedScope
  <2>1. handler' = Idle
    BY <1>3 DEF LookUpFails, Respond
  <2>2. QED
    BY <2>1, IdlePromises
<1>4. CASE handler.request.kind \notin NeedScope
  <2>1. handler' = [handler EXCEPT !.stage = "query", !.failed = TRUE]
    BY <1>4 DEF LookUpFails
  <2>2. /\ handler'.request = handler.request /\ handler'.stage = "query"
        /\ handler'.scope = handler.scope /\ handler'.since = handler.since
        /\ handler'.failed = TRUE
    BY <1>1, <2>1 DEF Handlers
  <2>3. directories' = directories
    BY ServingReads
  <2>4. handler.request.kind = "trend"
    BY <1>2, <1>4 DEF Scoped
  <2>5. QED
    BY <1>2, <2>2, <2>3, <2>4 DEF Promised
<1>5. QED
  BY <1>3, <1>4

LEMMA NextPromises ==
  ASSUME TypeOK, Promised, Next
  PROVE  Promised'
<1>1. CASE \/ Tick \/ Store \/ SyncStep \/ SyncFails \/ RefreshStep \/ RefreshFails
           \/ \E e \in Edits : ManualEdit(e[1], e[2])
  BY <1>1, OthersAppend, OthersKeepPromise
<1>2. CASE \E r \in Requests : BadRequest(r) \/ Ask(r)
  BY <1>2, AskPromises, IdlePromises DEF BadRequest, Respond
<1>3. CASE LookUpScope
  BY <1>3, LookUpScopePromises
<1>4. CASE LookUpFails
  BY <1>4, LookUpFailsPromises
<1>5. CASE RunQuery \/ QueryFails \/ QueryBreaks
  BY <1>5, QueryTyped, IdlePromises
<1>6. QED
  BY <1>1, <1>2, <1>3, <1>4, <1>5 DEF Next

-----------------------------------------------------------------------------
(* The answers keep the promise. *)

\* A report that was made repeats what the handler held, a refusal what it
\* has just read; every other step says nothing about a scope.
LEMMA ReportKeepsPromise ==
  ASSUME TypeOK, Promised, RunQuery \/ QueryBreaks
  PROVE  ScopeWasHeld'
<1>1. /\ handler.stage = "query"
      /\ answer'.request = handler.request /\ answer'.scope = handler.scope
      /\ answer'.since = handler.since /\ answer'.failed = handler.failed /\ answer'.code = 200
  BY DEF RunQuery, QueryBreaks, Respond
<1>2. directories' = directories
  BY ServingReads
<1>3. PICK r, scope, since, failed :
        /\ r = handler.request /\ scope = handler.scope
        /\ since = handler.since /\ failed = handler.failed
  OBVIOUS
<1>4. Scoped(r) =>
        /\ \/ \E v \in since..Len(directories) : Held(v, r.as, scope)
           \/ scope = Unknown /\ failed
        /\ scope = Unknown => r.kind = "trend"
  BY <1>1, <1>3 DEF Promised
<1>5. \A v \in since..Len(directories) : Held(v, r.as, scope) => Held(v, r.as, scope)'
  BY <1>2, HeldStays
<1>6. Scoped(r) =>
        /\ \/ \E v \in since..Len(directories') : Held(v, r.as, scope)'
           \/ scope = Unknown /\ failed
        /\ scope = Unknown => r.kind = "trend"
  BY <1>2, <1>4, <1>5
<1>7. r.kind \in NeedScope => Scoped(r) /\ r.kind # "trend"
  BY DEF Scoped, NeedScope
<1>8. r.kind = "trend" /\ r.as # "" => Scoped(r)
  BY DEF Scoped
<1>9. r.kind \in NeedScope => \E v \in since..Len(directories') : Manages(v, r.as, scope)'
  BY <1>6, <1>7 DEF Held
<1>10. r.kind = "trend" /\ r.as # "" =>
         IF scope # Unknown THEN \E v \in since..Len(directories') : Manages(v, r.as, scope)'
         ELSE failed \/ \E v \in since..Len(directories') : ManagesNothing(v, r.as)'
  BY <1>6, <1>8 DEF Held
<1>11. /\ answer'.request = r /\ answer'.scope = scope /\ answer'.since = since
       /\ answer'.failed = failed /\ answer'.code # 403
  BY <1>1, <1>3
<1>12. During' = since..Len(directories')
  BY <1>11 DEF During
<1>13. (answer.code = 200 /\ answer.request.kind \in NeedScope =>
          \E v \in During : Manages(v, answer.request.as, answer.scope))'
  BY <1>9, <1>11, <1>12 DEF Manages
<1>14. (answer.code = 200 /\ answer.request.kind = "trend" /\ answer.request.as # "" =>
          IF answer.scope # Unknown
            THEN \E v \in During : Manages(v, answer.request.as, answer.scope)
            ELSE answer.failed \/ \E v \in During : ManagesNothing(v, answer.request.as))'
  <2>1. SUFFICES ASSUME r.kind = "trend", r.as # ""
                 PROVE  (IF answer.scope # Unknown
                           THEN \E v \in During : Manages(v, answer.request.as, answer.scope)
                           ELSE answer.failed \/ \E v \in During : ManagesNothing(v, answer.request.as))'
    BY <1>11
  <2>2. CASE scope # Unknown
    <3>1. PICK v \in since..Len(directories') : Manages(v, r.as, scope)'
      BY <1>10, <2>1, <2>2
    <3>2. Manages(v, answer.request.as, answer.scope)'
      BY <1>11, <3>1 DEF Manages
    <3>3. QED
      BY <1>11, <1>12, <2>2, <3>2
  <2>3. CASE scope = Unknown /\ failed
    BY <1>11, <2>3
  <2>4. CASE scope = Unknown /\ ~ failed
    <3>1. PICK v \in since..Len(directories') : ManagesNothing(v, r.as)'
      BY <1>10, <2>1, <2>4
    <3>2. ManagesNothing(v, answer.request.as)'
      BY <1>11, <3>1 DEF ManagesNothing, Manages
    <3>3. QED
      BY <1>11, <1>12, <2>4, <3>2
  <2>5. QED
    BY <2>2, <2>3, <2>4
<1>15. QED
  BY <1>11, <1>13, <1>14, Zenon DEF ScopeWasHeld

LEMMA RefusalKeepsPromise ==
  ASSUME TypeOK, Promised, LookUpScope
  PROVE  ScopeWasHeld'
<1>1. PICK b, scope : b = handler.request.as /\ scope = GetManagerScope(Current, b)
  OBVIOUS
<1>2. directories' = directories /\ Len(directories) \in Nat
  BY ServingReads, CurrentIsDirectory
<1>3. CASE scope = Unknown /\ handler.request.kind \in NeedScope
  <2>1. /\ answer'.request = handler.request
        /\ answer'.since = handler.since /\ answer'.code = 403
    BY <1>1, <1>3 DEF LookUpScope, Respond
  <2>2. handler.since \in 1..Len(directories)
    BY DEF Promised, LookUpScope
  <2>3. Held(Len(directories), b, scope)
    BY <1>1, ScopeIsHeld
  <2>4. Held(Len(directories), b, scope)'
    BY <1>2, <2>3, HeldStays
  <2>5. ManagesNothing(Len(directories), b)'
    BY <1>3, <2>4 DEF Held
  <2>6. (Len(directories) \in During)'
    BY <1>2, <2>1, <2>2 DEF During
  <2>7. QED
    BY <1>1, <2>1, <2>5, <2>6 DEF ScopeWasHeld
<1>4. CASE ~ (scope = Unknown /\ handler.request.kind \in NeedScope)
  <2>1. answer' = NoAnswer
    BY <1>1, <1>4 DEF LookUpScope, Silent
  <2>2. QED
    BY <2>1 DEF ScopeWasHeld, NoAnswer
<1>5. QED
  BY <1>3, <1>4

LEMMA OthersKeepSilent ==
  ASSUME answer'.code \in {0, 400, 500}
  PROVE  ScopeWasHeld'
<1>1. answer'.code # 200 /\ answer'.code # 403
  OBVIOUS
<1>2. QED
  BY <1>1, Zenon DEF ScopeWasHeld

LEMMA AnswersKeepPromise ==
  ASSUME TypeOK, Promised, Next
  PROVE  ScopeWasHeld'
<1>1. CASE \/ Tick \/ Store \/ SyncStep \/ SyncFails \/ RefreshStep \/ RefreshFails
           \/ \E e \in Edits : ManualEdit(e[1], e[2])
  BY <1>1, OthersAppend, OthersKeepSilent DEF NoAnswer
<1>2. CASE \E r \in Requests : BadRequest(r) \/ Ask(r)
  BY <1>2, OthersKeepSilent DEF BadRequest, Ask, Respond, Silent, NoAnswer
<1>3. CASE LookUpScope
  BY <1>3, RefusalKeepsPromise
<1>4. CASE LookUpFails
  BY <1>4, OthersKeepSilent DEF LookUpFails, Respond, Silent, NoAnswer
<1>5. CASE RunQuery \/ QueryBreaks
  BY <1>5, ReportKeepsPromise
<1>6. CASE QueryFails
  BY <1>6, OthersKeepSilent DEF QueryFails, Respond
<1>7. QED
  BY <1>1, <1>2, <1>3, <1>4, <1>5, <1>6 DEF Next

\* A report is made for a subtree its caller managed at some moment between
\* the request and the answer, and nobody else is refused, however often
\* org-sync or somebody at the database changes employees in between.
THEOREM ScopesAreHeld == Spec => []ScopeWasHeld
<1> DEFINE inv == TypeOK /\ Promised /\ ScopeWasHeld
<1>1. Init => inv
  <2> SUFFICES ASSUME Init PROVE inv
    OBVIOUS
  <2>1. handler.stage = "idle" /\ answer.code = 0
    BY DEF Init, Idle, NoAnswer
  <2>2. QED
    BY <2>1, InitTyped DEF Promised, ScopeWasHeld
<1>2. inv /\ TypeOK' /\ [Next]_vars => inv'
  <2> SUFFICES ASSUME inv, TypeOK', [Next]_vars PROVE inv'
    OBVIOUS
  <2>1. CASE Next
    BY <2>1, NextPromises, AnswersKeepPromise
  <2>2. CASE UNCHANGED vars
    <3>1. UNCHANGED <<directories, handler, answer>>
      BY <2>2 DEF vars, directoryVars
    <3>2. Promised'
      BY <3>1, Zenon DEF Promised, Held, Manages, ManagesNothing
    <3>3. ScopeWasHeld'
      BY <3>1, ZenonT(40) DEF ScopeWasHeld, During, Manages, ManagesNothing
    <3>4. QED
      BY <3>2, <3>3
  <2>3. QED
    BY <2>1, <2>2
<1>3. QED
  BY <1>1, <1>2, TypeCorrect, PTL DEF Spec

-----------------------------------------------------------------------------
(* NoMixedDirectory.  The invariant: every version of employees, not only  *)
(* the one the view was made of, is whole for the listed employees nobody  *)
(* edited.                                                                 *)

Whole(d) ==
  \/ \A b \in Unedited : OrgOf(d, b) = OrgOf(FirstDirectory, b)
  \/ \A b \in Unedited : OrgOf(d, b) = OrgOf(AfterSync, b)

VersionsAreWhole == \A v \in 1..Len(directories) : Whole(directories[v])

\* A commit keeps the versions whole if the new one is.
LEMMA CommitKeepsWhole ==
  ASSUME TypeOK, VersionsAreWhole, edited \subseteq edited',
         NEW d \in Directories, Commit(d), Whole(d)'
  PROVE  VersionsAreWhole'
<1>1. Unedited' \subseteq Unedited
  BY DEF Unedited
<1>2. SUFFICES ASSUME NEW v \in 1..Len(directories')
               PROVE  Whole(directories[v])'
  BY DEF VersionsAreWhole
<1>3. CASE v \in 1..Len(directories)
  <2>1. directories'[v] = directories[v] /\ Whole(directories[v])
    BY <1>3, CommitAppends DEF VersionsAreWhole
  <2>2. QED
    BY <1>1, <2>1 DEF Whole
<1>4. CASE v \notin 1..Len(directories)
  <2>1. directories'[v] = d
    BY <1>2, <1>4, CommitAppends
  <2>2. QED
    BY <2>1 DEF Whole
<1>5. QED
  BY <1>3, <1>4

LEMMA ManualEditKeepsWhole ==
  ASSUME TypeOK, VersionsAreWhole, NEW e \in Edits, ManualEdit(e[1], e[2])
  PROVE  VersionsAreWhole'
<1>1. PICK d : d = WithRow(Current, e[1], e[2])
  OBVIOUS
<1>2. d \in Directories
  BY <1>1, EditAssumption, WithRowIsDirectory, CurrentIsDirectory
<1>3. Commit(d) /\ edited' = edited \cup {e[1]}
  BY <1>1 DEF ManualEdit
<1>4. Unedited' \subseteq Unedited /\ e[1] \notin Unedited'
  BY <1>3 DEF Unedited
<1>5. \A b \in Unedited' : OrgOf(d, b) = OrgOf(Current, b)
  BY <1>1, <1>4 DEF WithRow, OrgOf
<1>6. Whole(Current)
  BY CurrentIsDirectory DEF VersionsAreWhole, Current
<1>7. Whole(d)'
  <2>1. CASE \A b \in Unedited : OrgOf(Current, b) = OrgOf(FirstDirectory, b)
    <3>1. \A b \in Unedited' : OrgOf(d, b) = OrgOf(FirstDirectory, b)
      BY <1>4, <1>5, <2>1
    <3>2. QED
      BY <3>1 DEF Whole
  <2>2. CASE \A b \in Unedited : OrgOf(Current, b) = OrgOf(AfterSync, b)
    <3>1. \A b \in Unedited' : OrgOf(d, b) = OrgOf(AfterSync, b)
      BY <1>4, <1>5, <2>2
    <3>2. QED
      BY <3>1 DEF Whole
  <2>3. QED
    BY <1>6, <2>1, <2>2 DEF Whole
<1>8. QED
  BY <1>2, <1>3, <1>7, CommitKeepsWhole

LEMMA CommitSyncKeepsWhole ==
  ASSUME TypeOK, VersionsAreWhole, CommitSync
  PROVE  VersionsAreWhole'
<1>1. PICK d : d = Merged(Current)
  OBVIOUS
<1>2. d \in Directories
  BY <1>1, MergedIsDirectory, CurrentIsDirectory
<1>3. Commit(d) /\ edited' = edited
  BY <1>1 DEF CommitSync
<1>4. \A b \in Unedited' : OrgOf(d, b) = OrgOf(AfterSync, b)
  <2>1. TAKE b \in Unedited'
  <2>2. b \in Listed(Len(LDAP))
    BY DEF Unedited
  <2>3. b \in DOMAIN d /\ b \in DOMAIN AfterSync /\ d[b] = AfterSync[b]
    BY <1>1, <2>2 DEF Merged, AfterSync
  <2>4. QED
    BY <2>3 DEF OrgOf
<1>5. Whole(d)'
  BY <1>4 DEF Whole
<1>6. QED
  BY <1>2, <1>3, <1>5, CommitKeepsWhole

\* Nothing else touches employees.
LEMMA NextKeepsWhole ==
  ASSUME TypeOK, VersionsAreWhole, [Next]_vars
  PROVE  VersionsAreWhole'
<1>1. CASE \E e \in Edits : ManualEdit(e[1], e[2])
  BY <1>1, ManualEditKeepsWhole
<1>2. CASE CommitSync
  BY <1>2, CommitSyncKeepsWhole
<1>3. ASSUME UNCHANGED <<directories, edited>>
      PROVE  VersionsAreWhole'
  BY <1>3 DEF VersionsAreWhole, Whole, Unedited
<1>4. CASE Tick \/ Store \/ BeginSync \/ Upsert \/ SyncFails \/ RefreshStep \/ RefreshFails
           \/ UNCHANGED vars
  BY <1>3, <1>4 DEF Tick, Store, BeginSync, Upsert, SyncFails, RefreshStep, RefreshBegins,
                    RefreshEnds, RefreshFails, directoryVars, vars
<1>5. CASE \/ \E r \in Requests : Ask(r) \/ BadRequest(r)
           \/ LookUpScope \/ LookUpFails \/ RunQuery \/ QueryFails \/ QueryBreaks
  BY <1>3, <1>5, ServingReads
<1>6. QED
  BY <1>1, <1>2, <1>4, <1>5 DEF Next, SyncStep

\* Each row of the view has the org path of the version it was made of.
LEMMA ViewShowsVersion ==
  ASSUME NEW r \in ViewRows
  PROVE  r.org = OrgOf(directories[view.version], r.badge)
<1> DEFINE d == directories[view.version]
           history(b) == EventsOf(SubSeq(History, 1, view.stored), b, view.time)
<1>1. PICK b \in Badges : r \in DailyRows(d, history(b), b)
  BY DEF ViewRows, ViewOf
<1>2. PICK day \in DaysWithEvents(history(b)) :
        r = [badge |-> b, day |-> day, org |-> OrgOf(d, b), daily |-> DailyRow(history(b), day)]
  BY <1>1 DEF DailyRows
<1>3. QED
  BY <1>2

\* Whatever fails, is rolled back, overlaps or is edited in between: the
\* reports show a run of org-sync in full or not at all.
THEOREM NothingMixed == Spec => []NoMixedDirectory
<1>1. Init => VersionsAreWhole
  <2> SUFFICES ASSUME Init PROVE VersionsAreWhole
    OBVIOUS
  <2>1. Len(directories) = 1 /\ directories[1] = FirstDirectory
    BY DEF Init
  <2>2. QED
    BY <2>1 DEF VersionsAreWhole, Whole
<1>2. TypeOK /\ VersionsAreWhole /\ [Next]_vars => VersionsAreWhole'
  BY NextKeepsWhole
<1>3. TypeOK /\ VersionsAreWhole => NoMixedDirectory
  <2> SUFFICES ASSUME TypeOK, VersionsAreWhole PROVE NoMixedDirectory
    OBVIOUS
  <2>1. Whole(directories[view.version])
    BY CurrentIsDirectory DEF TypeOK, VersionsAreWhole
  <2>2. QED
    BY <2>1, ViewShowsVersion DEF Whole, NoMixedDirectory
<1>4. QED
  BY <1>1, <1>2, <1>3, TypeCorrect, PTL DEF Spec

-----------------------------------------------------------------------------
(* What the view shows of the history: one row for each badge and day on   *)
(* which the badge passed a gate, as far as the refresh could know.         *)

\* The granted events of badge b among the first n, up to time t.
Granted(n, b, t) ==
  {i \in 1..n : /\ History[i].badge = b /\ History[i].status = "SUCCESS"
                /\ History[i].time <= t}

LEMMA HistoryElements ==
  /\ Len(History) \in Nat
  /\ \A i \in 1..Len(History) : /\ History[i].badge \in Badges /\ History[i].time \in Nat
                                /\ History[i].direction \in {"IN", "OUT"}
<1> DEFINE Rows == [badge : Badges, direction : {"IN", "OUT"}, status : STRING, time : Nat]
<1>1. History \in Seq(Rows)
  BY HistoryAssumption
<1>2. Len(History) \in Nat /\ \A i \in 1..Len(History) : History[i] \in Rows
  <2> HIDE DEF Rows
  <2>1. QED
    BY <1>1
<1>3. QED
  BY <1>2

LEMMA FirstRowsOfHistory ==
  ASSUME NEW n \in 0..Len(History)
  PROVE  /\ DOMAIN SubSeq(History, 1, n) = 1..n
         /\ \A i \in 1..n : SubSeq(History, 1, n)[i] = History[i]
         /\ n \in Nat /\ 1..n \subseteq 1..Len(History)
         /\ \A b, t : CountedEvents(SubSeq(History, 1, n), b, t) = Granted(n, b, t)
<1> DEFINE Rows == [badge : Badges, direction : {"IN", "OUT"}, status : STRING, time : Nat]
<1>1. History \in Seq(Rows)
  BY HistoryAssumption
<1> HIDE DEF Rows
<1>2. Len(History) \in Nat /\ n \in Nat /\ n <= Len(History)
  BY <1>1
<1>3. /\ DOMAIN SubSeq(History, 1, n) = 1..n
      /\ \A i \in 1..n : SubSeq(History, 1, n)[i] = History[i]
  BY <1>1, <1>2
<1>4. \A b, t : CountedEvents(SubSeq(History, 1, n), b, t) = Granted(n, b, t)
  BY <1>3 DEF CountedEvents, Granted
<1>5. QED
  BY <1>2, <1>3, <1>4

\* REFRESH sees each granted event once, in the order of their times.
LEMMA HistoryIsOrdered ==
  ASSUME NEW n \in 0..Len(History), NEW b, NEW t
  PROVE  LET C == Granted(n, b, t)
             E == EventsOf(SubSeq(History, 1, n), b, t)
         IN  /\ IsFiniteSet(C) /\ InTime(E, Cardinality(C))
             /\ \E h \in [1..Cardinality(C) -> C] :
                  /\ \A i \in C : \E k \in 1..Cardinality(C) : h[k] = i
                  /\ \A k, m \in 1..Cardinality(C) : h[k] = h[m] => k = m
                  /\ \A k \in 1..Cardinality(C) : E[k] = History[h[k]]
<1> DEFINE events == SubSeq(History, 1, n)
           C == Granted(n, b, t)
           N == Cardinality(C)
           E == EventsOf(events, b, t)
           key == [i \in C |-> <<events[i].time, i>>]
           h == InOrder(C, key)
<1>1. /\ n \in Nat /\ 1..n \subseteq 1..Len(History)
      /\ \A i \in 1..n : events[i] = History[i]
      /\ CountedEvents(events, b, t) = C
  BY FirstRowsOfHistory
<1>2. C \in SUBSET (1..n) /\ IsFiniteSet(1..n)
  BY <1>1, FS_Interval DEF Granted
<1>3. IsFiniteSet(C) /\ N \in Nat
  BY <1>2, FS_Subset, FS_CardinalityType
<1>4. \A i \in C : /\ i \in Nat /\ events[i] = History[i] /\ History[i].time \in Nat
                   /\ History[i].direction \in {"IN", "OUT"}
  BY <1>1, <1>2, HistoryElements
<1>5. key \in [C -> Keys] /\ \A i, j \in C : key[i] = key[j] => i = j
  <2> HIDE DEF C, events
  <2>1. QED
    BY <1>4 DEF Keys
<1>6. /\ h \in [1..N -> C]
      /\ \A i \in C : \E k \in 1..N : h[k] = i
      /\ \A k, m \in 1..N : h[k] = h[m] => k = m
      /\ \A k, m \in 1..N : k < m => Precedes(key[h[k]], key[h[m]])
  <2> HIDE DEF C, key
  <2>1. QED
    BY <1>3, <1>5, OrderIsComplete
<1>7. E = [k \in DOMAIN h |-> events[h[k]]]
  BY <1>1 DEF EventsOf
<1> HIDE DEF C, N, E, h, events
<1>8. DOMAIN E = 1..N /\ \A k \in 1..N : E[k] = History[h[k]] /\ h[k] \in C
  BY <1>4, <1>6, <1>7
<1>9. \A k \in 1..N : E[k].time \in Nat /\ E[k].direction \in {"IN", "OUT"}
  <2>1. TAKE k \in 1..N
  <2>2. h[k] \in C /\ E[k] = History[h[k]]
    BY <1>8
  <2>3. QED
    BY <1>4, <2>2
<1>10. \A k, m \in 1..N : k < m => E[k].time <= E[m].time
  <2>1. TAKE k, m \in 1..N
  <2>2. HAVE k < m
  <2>3. Precedes(key[h[k]], key[h[m]])
    BY <1>6, <2>2
  <2>4. key[h[k]] = <<E[k].time, h[k]>> /\ key[h[m]] = <<E[m].time, h[m]>>
    BY <1>4, <1>8
  <2> HIDE DEF key
  <2>5. Precedes(<<E[k].time, h[k]>>, <<E[m].time, h[m]>>)
    BY <2>3, <2>4
  <2>6. QED
    BY <1>9, <2>5 DEF Precedes
<1>11. InTime(E, N)
  BY <1>3, <1>8, <1>9, <1>10 DEF InTime
<1>12. QED
  BY <1>3, <1>6, <1>8, <1>11 DEF C, N, E, h, events

\* Those of day d.
GrantedOn(n, b, t, d) == {i \in Granted(n, b, t) : DayOf(History[i].time) = d}

LEMMA DaysOfHistory ==
  ASSUME NEW n \in 0..Len(History), NEW b, NEW t, NEW d
  PROVE  LET E == EventsOf(SubSeq(History, 1, n), b, t)
         IN  /\ IsFiniteSet(GrantedOn(n, b, t, d)) /\ Cardinality(GrantedOn(n, b, t, d)) \in Nat
             /\ d \in DaysWithEvents(E) <=> GrantedOn(n, b, t, d) # {}
             /\ DailyRow(E, d).swipe_count = Cardinality(GrantedOn(n, b, t, d))
<1> DEFINE C == Granted(n, b, t)
           N == Cardinality(C)
           E == EventsOf(SubSeq(History, 1, n), b, t)
           S == {k \in DOMAIN E : DayOf(E[k].time) = d}
           G == GrantedOn(n, b, t, d)
<1>1. IsFiniteSet(C) /\ InTime(E, N)
  BY HistoryIsOrdered
<1>2. PICK h \in [1..N -> C] :
        /\ \A i \in C : \E k \in 1..N : h[k] = i
        /\ \A k, m \in 1..N : h[k] = h[m] => k = m
        /\ \A k \in 1..N : E[k] = History[h[k]]
  BY HistoryIsOrdered
<1>3. N \in Nat /\ DOMAIN E = 1..N
  BY <1>1 DEF InTime
<1>4. G = {i \in C : DayOf(History[i].time) = d}
  BY DEF GrantedOn
<1> DEFINE g == [k \in S |-> h[k]]
<1> HIDE DEF C, N, E, G
<1>5. S = {k \in 1..N : DayOf(History[h[k]].time) = d}
  BY <1>2, <1>3
<1>6. g \in [S -> G] /\ \A k, m \in S : g[k] = g[m] => k = m
  BY <1>2, <1>4, <1>5
<1>7. \A i \in G : \E k \in S : g[k] = i
  <2>1. TAKE i \in G
  <2>2. PICK k \in 1..N : h[k] = i
    BY <1>2, <1>4
  <2>3. k \in S
    BY <1>4, <1>5, <2>2
  <2>4. QED
    BY <2>2, <2>3
<1>8. IsFiniteSet(S)
  <2>1. IsFiniteSet(1..N) /\ S \in SUBSET (1..N)
    BY <1>3, <1>5, FS_Interval
  <2>2. QED
    BY <2>1, FS_Subset
<1>9. IsFiniteSet(G) /\ Cardinality(G) = Cardinality(S) /\ Cardinality(G) \in Nat
  <2> HIDE DEF S, g
  <2>1. QED
    BY <1>6, <1>7, <1>8, OneToOne, FS_CardinalityType
<1>10. d \in DaysWithEvents(E) <=> S # {}
  BY DEF DaysWithEvents
<1>11. S # {} <=> G # {}
  BY <1>6, <1>7
<1>12. DailyRow(E, d).swipe_count = Cardinality(S)
  BY DEF DailyRow
<1>13. QED
  BY <1>9, <1>10, <1>11, <1>12 DEF E, G

LEMMA PassedIsGranted ==
  ASSUME NEW b, NEW d
  PROVE  Passed(b, d) = Cardinality(GrantedOn(view.stored, b, view.time, d))
<1>1. {i \in 1..view.stored : /\ History[i].badge = b /\ History[i].status = "SUCCESS"
                              /\ DayOf(History[i].time) = d /\ History[i].time <= view.time}
        = GrantedOn(view.stored, b, view.time, d)
  BY DEF GrantedOn, Granted
<1>2. QED
  BY <1>1, Zenon DEF Passed

Days == 0..DayOf(MaxTime + MaxSkew)

LEMMA RowsOfView ==
  ASSUME TypeOK
  PROVE  /\ \A r \in ViewRows : /\ r.badge \in Badges /\ r.day \in Days
                                /\ r.org = OrgOf(directories[view.version], r.badge)
                                /\ r.daily.swipe_count = Passed(r.badge, r.day)
                                /\ Passed(r.badge, r.day) \in Nat \ {0}
         /\ \A r, q \in ViewRows : r.badge = q.badge /\ r.day = q.day => r = q
         /\ \A b \in Badges : \A d : Passed(b, d) > 0 =>
              \E r \in ViewRows : r.badge = b /\ r.day = d
<1> DEFINE n == view.stored
           t == view.time
           dir == directories[view.version]
           E(b) == EventsOf(SubSeq(History, 1, n), b, t)
           row(b, d) == [badge |-> b, day |-> d, org |-> OrgOf(dir, b), daily |-> DailyRow(E(b), d)]
<1>1. n \in 0..Len(History) /\ t \in 0..MaxTime
  BY DEF TypeOK, Snapshots
<1>2. \A r : r \in ViewRows <=> \E b \in Badges : \E d \in DaysWithEvents(E(b)) : r = row(b, d)
  BY DEF ViewRows, ViewOf, DailyRows
<1> HIDE DEF n, t, dir
<1>3. \A b, d : /\ Passed(b, d) = Cardinality(GrantedOn(n, b, t, d))
                /\ Passed(b, d) \in Nat
                /\ d \in DaysWithEvents(E(b)) <=> GrantedOn(n, b, t, d) # {}
                /\ DailyRow(E(b), d).swipe_count = Passed(b, d)
  <2>1. TAKE b, d
  <2>2. Passed(b, d) = Cardinality(GrantedOn(n, b, t, d))
    BY PassedIsGranted DEF n, t
  <2>3. QED
    BY <1>1, <2>2, DaysOfHistory
<1>4. \A b, d : d \in DaysWithEvents(E(b)) <=> Passed(b, d) # 0
  <2>1. TAKE b, d
  <2>2. IsFiniteSet(GrantedOn(n, b, t, d))
    BY <1>1, DaysOfHistory
  <2>3. Cardinality(GrantedOn(n, b, t, d)) = 0 <=> GrantedOn(n, b, t, d) = {}
    BY <2>2, FS_EmptySet
  <2>4. QED
    BY <1>3, <2>3
<1>5. \A b, d : GrantedOn(n, b, t, d) # {} => d \in Days
  <2>1. TAKE b, d
  <2>2. HAVE GrantedOn(n, b, t, d) # {}
  <2>3. PICK i \in 1..n : DayOf(History[i].time) = d /\ History[i].time <= t
    BY <2>2 DEF GrantedOn, Granted
  <2>4. i \in 1..Len(History)
    BY <1>1, HistoryElements
  <2>5. History[i].time \in Nat
    BY <2>4, HistoryElements
  <2>6. MaxTime + MaxSkew \in Nat /\ History[i].time <= MaxTime + MaxSkew
    BY <1>1, <2>3, <2>5, Bounds
  <2>7. d \in Nat /\ d <= DayOf(MaxTime + MaxSkew) /\ DayOf(MaxTime + MaxSkew) \in Nat
    BY <2>3, <2>5, <2>6, DaysFollowTimes
  <2>8. QED
    BY <2>7 DEF Days
<1> HIDE DEF E
<1>6. ASSUME NEW r \in ViewRows
      PROVE  /\ r.badge \in Badges /\ r.day \in Days
             /\ r.org = OrgOf(dir, r.badge)
             /\ r.daily.swipe_count = Passed(r.badge, r.day)
             /\ Passed(r.badge, r.day) \in Nat \ {0}
             /\ r = row(r.badge, r.day)
  <2>1. PICK b \in Badges : \E d \in DaysWithEvents(E(b)) : r = row(b, d)
    BY <1>2
  <2>2. PICK d \in DaysWithEvents(E(b)) : r = row(b, d)
    BY <2>1
  <2>3. r.badge = b /\ r.day = d /\ r.org = OrgOf(dir, b) /\ r.daily = DailyRow(E(b), d)
    BY <2>2
  <2>4. QED
    BY <1>3, <1>4, <1>5, <2>2, <2>3
<1>7. \A r, q \in ViewRows : r.badge = q.badge /\ r.day = q.day => r = q
  <2>1. TAKE r, q \in ViewRows
  <2>2. HAVE r.badge = q.badge /\ r.day = q.day
  <2>3. row(r.badge, r.day) = row(q.badge, q.day)
    BY <2>2
  <2> HIDE DEF row
  <2>4. QED
    BY <1>6, <2>3
<1>8. ASSUME NEW b \in Badges, NEW d, Passed(b, d) > 0
      PROVE  \E r \in ViewRows : r.badge = b /\ r.day = d
  <2>1. d \in DaysWithEvents(E(b))
    BY <1>4, <1>8, <1>3
  <2>2. row(b, d) \in ViewRows
    BY <1>2, <2>1
  <2>3. row(b, d).badge = b /\ row(b, d).day = d
    OBVIOUS
  <2>4. QED
    BY <2>2, <2>3
<1>9. QED
  BY <1>6, <1>7, <1>8 DEF dir

LEMMA StaysOfView ==
  ASSUME TypeOK, NEW r \in ViewRows
  PROVE  r.daily.stay \in Nat
<1> DEFINE n == view.stored
           t == view.time
           E(b) == EventsOf(SubSeq(History, 1, n), b, t)
<1>1. n \in 0..Len(History)
  BY DEF TypeOK, Snapshots
<1>2. PICK b \in Badges : \E d \in DaysWithEvents(E(b)) : r.daily = DailyRow(E(b), d)
  BY DEF ViewRows, ViewOf, DailyRows
<1>3. PICK events : events = E(b)
  OBVIOUS
<1>4. PICK N : InTime(events, N)
  BY <1>1, <1>3, HistoryIsOrdered
<1>5. PICK d \in DaysWithEvents(events) : r.daily = DailyRow(events, d)
  BY <1>2, <1>3
<1>6. DailyRow(events, d).stay \in 0..DayLength
  BY <1>4, RowIsTyped
<1>7. QED
  BY <1>5, <1>6, DayAssumption

\* There are not more rows than events.
LEMMA ViewIsFinite ==
  ASSUME TypeOK
  PROVE  IsFiniteSet(ViewRows)
<1> DEFINE n == view.stored
           pairs == {<<History[i].badge, DayOf(History[i].time)>> : i \in 1..n}
           g == [i \in 1..n |-> <<History[i].badge, DayOf(History[i].time)>>]
           h == [r \in ViewRows |-> <<r.badge, r.day>>]
<1>1. n \in 0..Len(History) /\ n \in Nat
  BY HistoryElements DEF TypeOK, Snapshots
<1>2. IsFiniteSet(1..n)
  BY <1>1, FS_Interval
<1>3. IsFiniteSet(pairs)
  <2>1. g \in [1..n -> pairs] /\ \A y \in pairs : \E x \in 1..n : g[x] = y
    OBVIOUS
  <2> HIDE DEF g, pairs, n
  <2>2. QED
    BY <1>2, <2>1, Onto
<1>4. \A r \in ViewRows : <<r.badge, r.day>> \in pairs
  <2>1. TAKE r \in ViewRows
  <2>2. Passed(r.badge, r.day) \in Nat \ {0}
    BY RowsOfView
  <2>3. Cardinality(GrantedOn(n, r.badge, view.time, r.day)) # 0
    BY <2>2, PassedIsGranted
  <2>4. GrantedOn(n, r.badge, view.time, r.day) # {}
    BY <2>3, FS_EmptySet
  <2>5. PICK i \in 1..n : History[i].badge = r.badge /\ DayOf(History[i].time) = r.day
    BY <2>4 DEF GrantedOn, Granted
  <2>6. QED
    BY <2>5
<1>5. h \in Injection(ViewRows, pairs)
  <2>1. h \in [ViewRows -> pairs]
    BY <1>4
  <2>2. \A r, q \in ViewRows : h[r] = h[q] => r = q
    BY RowsOfView
  <2>3. QED
    BY <2>1, <2>2 DEF Injection, IsInjective
<1>6. QED
  <2> HIDE DEF pairs, h
  <2>1. QED
    BY <1>3, <1>5, FS_Injection

-----------------------------------------------------------------------------
(* ReportsAreAudited.  The invariant: what a refresh saw, and what one      *)
(* under way sees, is of the past: the audit trail reads all of it.         *)

SnapshotsArePast ==
  /\ view.stored <= stored /\ view.time <= now
  /\ building.stored <= stored /\ building.time <= now

LEMMA NextKeepsPast ==
  ASSUME TypeOK, SnapshotsArePast, [Next]_vars
  PROVE  SnapshotsArePast'
<1>1. /\ stored \in Nat /\ now \in Nat /\ Len(History) \in Nat
      /\ view.stored \in Nat /\ view.time \in Nat
      /\ building.stored \in Nat /\ building.time \in Nat
  BY HistoryElements, Bounds DEF TypeOK, Snapshots
<1>2. SUFFICES /\ view'.stored <= stored' /\ view'.time <= now'
               /\ building'.stored <= stored' /\ building'.time <= now'
  BY DEF SnapshotsArePast
<1>3. CASE stored <= stored' /\ now <= now' /\ view' = view /\ building' = building
           /\ stored' \in Nat /\ now' \in Nat
  BY <1>1, <1>3 DEF SnapshotsArePast
<1>4. CASE Tick \/ Store
  <2>1. /\ stored' = stored \/ stored' = stored + 1
        /\ now' = now \/ now' = now + 1
        /\ view' = view /\ building' = building
    BY <1>4 DEF Tick, Store, viewVars
  <2>2. QED
    BY <1>1, <1>3, <2>1
<1>5. CASE \/ SyncStep \/ SyncFails \/ \E e \in Edits : ManualEdit(e[1], e[2])
           \/ \E r \in Requests : BadRequest(r) \/ Ask(r)
           \/ LookUpScope \/ LookUpFails \/ RunQuery \/ QueryFails \/ QueryBreaks
           \/ UNCHANGED vars
  <2>1. UNCHANGED <<stored, now, view, building>>
    BY <1>5 DEF SyncStep, BeginSync, Upsert, CommitSync, SyncFails, ManualEdit, Ask, BadRequest,
                LookUpScope, LookUpFails, RunQuery, QueryFails, QueryBreaks, Reads, viewVars, vars
  <2>2. QED
    BY <1>1, <1>3, <2>1
<1>6. CASE RefreshStep \/ RefreshFails
  <2>1. UNCHANGED <<stored, now>>
    BY <1>6 DEF RefreshStep, RefreshBegins, RefreshEnds, RefreshFails
  <2>2. view' \in {view, building} /\ building' \in {Snapshot, NoSnapshot}
    BY <1>6 DEF RefreshStep, RefreshBegins, RefreshEnds, RefreshFails
  <2>3. /\ Snapshot.stored = stored /\ Snapshot.time = now
        /\ NoSnapshot.stored = 0 /\ NoSnapshot.time = 0
    BY DEF Snapshot, NoSnapshot
  <2>4. view'.stored <= stored /\ view'.time <= now
    BY <2>2 DEF SnapshotsArePast
  <2>5. building'.stored <= stored /\ building'.time <= now
    BY <1>1, <2>2, <2>3
  <2>6. QED
    BY <2>1, <2>4, <2>5
<1>7. QED
  BY <1>4, <1>5, <1>6 DEF Next

LEMMA PastIsAudited ==
  ASSUME TypeOK, SnapshotsArePast
  PROVE  ReportsAreAudited
<1>1. SUFFICES ASSUME NEW r \in ViewRows
               PROVE  LET trail == QueryAuditTrail(Events, r.badge,
                                                   [start |-> r.day, end |-> r.day], now)
                      IN  r.daily.swipe_count
                            <= Cardinality({i \in trail : Events[i].status = "SUCCESS"})
  BY DEF ReportsAreAudited
<1> DEFINE trail == QueryAuditTrail(Events, r.badge, [start |-> r.day, end |-> r.day], now)
           shown == {i \in trail : Events[i].status = "SUCCESS"}
           seen == GrantedOn(view.stored, r.badge, view.time, r.day)
<1>2. stored \in 0..Len(History) /\ view.stored \in 0..Len(History) /\ view.time \in Nat /\ now \in Nat
  BY Bounds DEF TypeOK, Snapshots
<1>3. /\ DOMAIN Events = 1..stored /\ stored \in Nat /\ view.stored \in Nat
      /\ \A i \in 1..stored : Events[i] = History[i]
      /\ 1..stored \subseteq 1..Len(History)
  BY <1>2, FirstRowsOfHistory DEF Events
<1>4. r.daily.swipe_count = Cardinality(seen) /\ r.day \in Days
  BY RowsOfView, PassedIsGranted
<1>5. r.day \in Int
  BY <1>4 DEF Days
<1>6. shown \in SUBSET (1..stored)
  BY <1>3 DEF QueryAuditTrail
<1>7. seen \in SUBSET shown
  <2>1. SUFFICES ASSUME NEW i \in seen PROVE i \in shown
    OBVIOUS
  <2>2. /\ i \in 1..view.stored /\ History[i].badge = r.badge /\ History[i].status = "SUCCESS"
        /\ History[i].time <= view.time /\ DayOf(History[i].time) = r.day
    BY DEF GrantedOn, Granted
  <2>3. i \in 1..stored
    BY <1>3, <2>2 DEF SnapshotsArePast
  <2>4. History[i].time \in Nat
    BY <1>3, <2>3, HistoryElements
  <2>5. History[i].time <= now
    BY <1>2, <2>2, <2>4 DEF SnapshotsArePast
  <2>6. Events[i] = History[i] /\ i \in DOMAIN Events
    BY <1>3, <2>3
  <2>7. QED
    BY <1>5, <2>2, <2>5, <2>6 DEF QueryAuditTrail
<1>8. IsFiniteSet(shown)
  <2>1. IsFiniteSet(1..stored)
    BY <1>3, FS_Interval
  <2> HIDE DEF shown
  <2>2. QED
    BY <1>6, <2>1, FS_Subset
<1>9. Cardinality(seen) <= Cardinality(shown)
  <2> HIDE DEF shown, seen
  <2>1. QED
    BY <1>7, <1>8, FS_Subset
<1>10. QED
  BY <1>4, <1>9

\* Every swipe any report counts can be shown in the audit trail of its badge
\* and day: the view is made of rows that are there, none of them is counted
\* twice and none of the future, whenever the refresh began and ended.
THEOREM SwipesAreAudited == Spec => []ReportsAreAudited
<1>1. Init => SnapshotsArePast
  <2> SUFFICES ASSUME Init PROVE SnapshotsArePast
    OBVIOUS
  <2>1. stored = 0 /\ now = 1 /\ view.stored = 0 /\ view.time = 0 /\ building.stored = 0
        /\ building.time = 0
    BY DEF Init, NoSnapshot
  <2>2. QED
    BY <2>1 DEF SnapshotsArePast
<1>2. TypeOK /\ SnapshotsArePast /\ [Next]_vars => SnapshotsArePast'
  BY NextKeepsPast
<1>3. TypeOK /\ SnapshotsArePast => ReportsAreAudited
  BY PastIsAudited
<1>4. QED
  BY <1>1, <1>2, <1>3, TypeCorrect, PTL DEF Spec

-----------------------------------------------------------------------------
(* TeamReportsAreExact.  First the queries: `<@` is membership in the        *)
(* subtree, and the range the handler makes of the dates is the days asked  *)
(* for.                                                                     *)

LEMMA PrefixByElements ==
  ASSUME NEW Labels, NEW s \in Seq(Labels), NEW t \in Seq(Labels)
  PROVE  IsPrefix(s, t) <=> Len(t) >= Len(s) /\ \A i \in DOMAIN s : t[i] = s[i]
<1>1. Len(s) \in Nat /\ Len(t) \in Nat /\ DOMAIN s = 1..Len(s)
  OBVIOUS
<1>2. CASE Len(s) <= Len(t)
  <2>1. /\ Len(SubSeq(s, 1, Len(s))) = Len(s) /\ Len(SubSeq(t, 1, Len(s))) = Len(s)
        /\ \A i \in 1..Len(s) : SubSeq(s, 1, Len(s))[i] = s[i] /\ SubSeq(t, 1, Len(s))[i] = t[i]
        /\ SubSeq(s, 1, Len(s)) \in Seq(Labels) /\ SubSeq(t, 1, Len(s)) \in Seq(Labels)
    BY <1>1, <1>2
  <2>2. SubSeq(s, 1, Len(s)) = SubSeq(t, 1, Len(s)) <=> \A i \in 1..Len(s) : t[i] = s[i]
    BY <1>1, <2>1
  <2>3. QED
    BY <1>1, <1>2, <2>2 DEF IsPrefix
<1>3. CASE ~ (Len(s) <= Len(t))
  BY <1>1, <1>3 DEF IsPrefix
<1>4. QED
  BY <1>2, <1>3

LEMMA UnderIsBelonging ==
  ASSUME TypeOK, NEW b, NEW scope \in OrgPaths
  PROVE  Under(OrgOf(directories[view.version], b), scope) <=> BelongsTo(b, scope)
<1> DEFINE dir == directories[view.version]
<1>1. dir \in Directories
  BY CurrentIsDirectory DEF TypeOK
<1>2. scope \in Seq(STRING)
  BY OrgAssumption
<1>3. CASE b \notin DOMAIN dir
  BY <1>3 DEF Under, OrgOf, BelongsTo
<1>4. CASE b \in DOMAIN dir
  <2>1. dir[b].org \in OrgPaths
    BY <1>1, <1>4, DirectoryElim DEF Employees
  <2>2. dir[b].org \in Seq(STRING) /\ dir[b].org # Unknown
    BY <2>1, OrgAssumption DEF Unknown
  <2>3. OrgOf(dir, b) = dir[b].org
    BY <1>4 DEF OrgOf
  <2>4. IsPrefix(scope, dir[b].org) <=>
          Len(dir[b].org) >= Len(scope) /\ \A i \in DOMAIN scope : dir[b].org[i] = scope[i]
    <3>1. PICK Labels, s, t : Labels = STRING /\ s = scope /\ t = dir[b].org
      OBVIOUS
    <3>2. s \in Seq(Labels) /\ t \in Seq(Labels)
      BY <1>2, <2>2, <3>1
    <3>3. IsPrefix(s, t) <=> Len(t) >= Len(s) /\ \A i \in DOMAIN s : t[i] = s[i]
      BY <3>2, PrefixByElements
    <3>4. QED
      BY <3>1, <3>3
  <2>5. QED
    BY <1>4, <2>2, <2>3, <2>4 DEF Under, BelongsTo
<1>5. QED
  BY <1>3, <1>4

LEMMA RangesAreDays ==
  ASSUME NEW dates \in Dates, NEW d \in Days
  PROVE  Within(d, ResolveDateRange(dates)) <=> d \in Asked(dates)
<1>1. d \in Int /\ dates.date \in Int /\ dates.start \in Int /\ dates.end \in Int
  BY DEF Days, Dates
<1>2. NoDate \in Int
  BY DEF NoDate
<1>3. CASE dates.date # NoDate /\ dates.start = NoDate
  <2>1. ResolveDateRange(dates) = [start |-> dates.date, end |-> dates.date]
    BY <1>3 DEF ResolveDateRange
  <2>2. Within(d, ResolveDateRange(dates)) <=> d = dates.date
    BY <1>1, <1>3, <2>1 DEF Within
  <2>3. QED
    BY <1>3, <2>2 DEF Asked, Days
<1>4. CASE ~ (dates.date # NoDate /\ dates.start = NoDate)
  <2>1. ResolveDateRange(dates) = [start |-> dates.start, end |-> dates.end]
    BY <1>4 DEF ResolveDateRange
  <2>2. Within(d, ResolveDateRange(dates)) <=>
          (dates.start = NoDate \/ d >= dates.start) /\ (dates.end = NoDate \/ d <= dates.end)
    BY <1>1, <2>1 DEF Within
  <2>3. QED
    BY <1>4, <2>2 DEF Asked, Days
<1>5. QED
  BY <1>3, <1>4

\* The rows of a team report: each of the badges and days that are due once.
TeamRows(r, scope) ==
  {q \in ViewRows : Under(q.org, scope) /\ Within(q.day, ResolveDateRange(r.dates))}

LEMMA TeamRowsAreDue ==
  ASSUME TypeOK, NEW r \in Requests, NEW scope \in OrgPaths
  PROVE  /\ IsFiniteSet(TeamRows(r, scope))
         /\ \A q \in TeamRows(r, scope) :
              /\ <<q.badge, q.day>> \in Due(r, scope)
              /\ q \in ViewRows
         /\ \A p \in Due(r, scope) :
              /\ p = <<p[1], p[2]>>
              /\ \E q \in TeamRows(r, scope) : q.badge = p[1] /\ q.day = p[2]
<1>1. r.dates \in Dates
  BY RequestAssumption
<1>2. ASSUME NEW q \in TeamRows(r, scope) PROVE <<q.badge, q.day>> \in Due(r, scope)
  <2>1. /\ q.badge \in Badges /\ q.day \in Days
        /\ q.org = OrgOf(directories[view.version], q.badge)
        /\ Passed(q.badge, q.day) \in Nat \ {0}
    BY RowsOfView DEF TeamRows
  <2>2. Under(q.org, scope) /\ Within(q.day, ResolveDateRange(r.dates))
    BY DEF TeamRows
  <2>3. BelongsTo(q.badge, scope)
    BY <2>1, <2>2, UnderIsBelonging
  <2>4. q.day \in Asked(r.dates)
    BY <1>1, <2>1, <2>2, RangesAreDays
  <2>5. Passed(q.badge, q.day) > 0
    BY <2>1
  <2>6. QED
    BY <2>1, <2>3, <2>4, <2>5 DEF Due
<1>3. ASSUME NEW p \in Due(r, scope)
      PROVE  /\ p = <<p[1], p[2]>>
             /\ \E q \in TeamRows(r, scope) : q.badge = p[1] /\ q.day = p[2]
  <2>1. /\ p \in Badges \X Asked(r.dates) /\ BelongsTo(p[1], scope) /\ Passed(p[1], p[2]) > 0
    BY DEF Due
  <2>2. p = <<p[1], p[2]>> /\ p[1] \in Badges /\ p[2] \in Asked(r.dates) /\ p[2] \in Days
    BY <2>1 DEF Asked, Days
  <2>3. PICK q \in ViewRows : q.badge = p[1] /\ q.day = p[2]
    BY <2>1, <2>2, RowsOfView
  <2>4. q.org = OrgOf(directories[view.version], q.badge)
    BY RowsOfView
  <2>5. Under(q.org, scope)
    BY <2>1, <2>3, <2>4, UnderIsBelonging
  <2>6. Within(q.day, ResolveDateRange(r.dates))
    BY <1>1, <2>2, <2>3, RangesAreDays
  <2>7. q \in TeamRows(r, scope)
    BY <2>5, <2>6 DEF TeamRows
  <2>8. QED
    BY <2>2, <2>3, <2>7
<1>4. IsFiniteSet(TeamRows(r, scope))
  <2>1. TeamRows(r, scope) \in SUBSET ViewRows
    BY DEF TeamRows
  <2>2. QED
    BY <2>1, ViewIsFinite, FS_Subset
<1>5. QED
  BY <1>2, <1>3, <1>4 DEF TeamRows

\* What the property says of an answer with these rows.
Exact(r, scope, sent, broken) ==
  LET rows  == RowsFor(r.kind, PassedDue(r, scope))
      shown == ShownIn(r.kind, sent)
  IN  /\ IF broken THEN shown \subseteq rows ELSE shown = rows
      /\ Cardinality(shown) = Cardinality(sent)

\* It suffices that the whole answer shows each row once.
Shown(f, sent) == {f[a] : a \in sent}

LEMMA PartOfAnswer ==
  ASSUME NEW S, IsFiniteSet(S), NEW Y, NEW f \in [S -> Y],
         \A a, c \in S : f[a] = f[c] => a = c,
         \A y \in Y : \E a \in S : f[a] = y,
         NEW T \in SUBSET S
  PROVE  /\ Shown(f, T) \subseteq Y
         /\ T = S => Shown(f, T) = Y
         /\ Cardinality(Shown(f, T)) = Cardinality(T)
<1> DEFINE h == [a \in T |-> f[a]]
<1>1. IsFiniteSet(T)
  BY FS_Subset
<1>2. /\ h \in [T -> Shown(f, T)]
      /\ \A a, c \in T : h[a] = h[c] => a = c
      /\ \A y \in Shown(f, T) : \E a \in T : h[a] = y
  BY DEF Shown
<1>3. Cardinality(Shown(f, T)) = Cardinality(T)
  <2> HIDE DEF h
  <2>1. QED
    BY <1>1, <1>2, OneToOne
<1>4. Shown(f, T) \subseteq Y /\ (T = S => Shown(f, T) = Y)
  BY DEF Shown
<1>5. QED
  BY <1>3, <1>4

TeamAnswer(r, scope) ==
  QueryManagerTeamAttendance(ViewRows, Current, scope, ResolveDateRange(r.dates))

LEMMA TeamIsExact ==
  ASSUME TypeOK, NEW r \in Requests, r.kind = "team", NEW scope \in OrgPaths,
         NEW sent \in SUBSET TeamAnswer(r, scope),
         NEW broken \in BOOLEAN,
         ~broken => sent = TeamAnswer(r, scope)
  PROVE  Exact(r, scope, sent, broken)
<1> DEFINE due == Due(r, scope)
           S == TeamAnswer(r, scope)
           Y == {<<p[1], p[2], Passed(p[1], p[2])>> : p \in due}
           f == [a \in S |-> <<a.row.badge, a.row.day, a.row.daily.swipe_count>>]
           team == TeamRows(r, scope)
           line == [q \in team |-> [row |-> q, status |-> JobLevelOf(Current, q.badge)]]
<1>1. S = {line[q] : q \in team}
  BY DEF TeamAnswer, QueryManagerTeamAttendance, Reports, TeamRows
<1>2. /\ IsFiniteSet(team)
      /\ \A q \in team : <<q.badge, q.day>> \in due /\ q \in ViewRows
      /\ \A p \in due : p = <<p[1], p[2]>> /\ \E q \in team : q.badge = p[1] /\ q.day = p[2]
  BY TeamRowsAreDue
<1>3. \A q \in team : line[q].row = q /\ q.daily.swipe_count = Passed(q.badge, q.day)
  BY <1>2, RowsOfView
<1> HIDE DEF team, due
<1>4. IsFiniteSet(S)
  <2>1. line \in [team -> S] /\ \A a \in S : \E q \in team : line[q] = a
    BY <1>1
  <2> HIDE DEF S, line
  <2>2. QED
    BY <1>2, <2>1, Onto
<1>5. \A a \in S : \E q \in team : a = line[q]
  BY <1>1
<1>6. ASSUME NEW q \in team
      PROVE  line[q] \in S /\ f[line[q]] = <<q.badge, q.day, Passed(q.badge, q.day)>>
  <2>1. line[q] \in S
    BY <1>1
  <2>2. f[line[q]] = <<line[q].row.badge, line[q].row.day, line[q].row.daily.swipe_count>>
    BY <2>1
  <2>3. QED
    BY <1>3, <2>1, <2>2
<1> HIDE DEF S, line
<1>7. f \in [S -> Y]
  <2>1. SUFFICES ASSUME NEW a \in S PROVE f[a] \in Y
    OBVIOUS
  <2>2. PICK q \in team : a = line[q]
    BY <1>5
  <2>3. f[a] = <<q.badge, q.day, Passed(q.badge, q.day)>>
    BY <1>6, <2>2
  <2>4. QED
    BY <1>2, <2>3
<1>8. \A a, c \in S : f[a] = f[c] => a = c
  <2>1. SUFFICES ASSUME NEW a \in S, NEW c \in S, f[a] = f[c] PROVE a = c
    OBVIOUS
  <2>2. PICK q \in team, x \in team : a = line[q] /\ c = line[x]
    BY <1>5
  <2>3. f[line[q]] = <<q.badge, q.day, Passed(q.badge, q.day)>>
        /\ f[line[x]] = <<x.badge, x.day, Passed(x.badge, x.day)>>
    BY <1>6
  <2> HIDE DEF f
  <2>4. q.badge = x.badge /\ q.day = x.day
    BY <2>1, <2>2, <2>3
  <2>5. q = x
    BY <1>2, <2>4, RowsOfView
  <2>6. QED
    BY <2>2, <2>5
<1>9. \A y \in Y : \E a \in S : f[a] = y
  <2>1. TAKE y \in Y
  <2>2. PICK p \in due : y = <<p[1], p[2], Passed(p[1], p[2])>>
    OBVIOUS
  <2>3. PICK q \in team : q.badge = p[1] /\ q.day = p[2]
    BY <1>2
  <2>4. f[line[q]] = y /\ line[q] \in S
    BY <1>6, <2>2, <2>3
  <2>5. QED
    BY <2>4
<1>10. sent \in SUBSET S
  BY DEF S
<1> DEFINE shown == Shown(f, sent)
<1>11. /\ shown \subseteq Y
       /\ sent = S => shown = Y
       /\ Cardinality(shown) = Cardinality(sent)
  <2> HIDE DEF f, Y
  <2>1. QED
    BY <1>4, <1>7, <1>8, <1>9, <1>10, PartOfAnswer
<1>12. ~broken => sent = S
  BY DEF S
<1>13. shown = {<<a.row.badge, a.row.day, a.row.daily.swipe_count>> : a \in sent}
  BY <1>10 DEF Shown
<1>14. QED
  <2> HIDE DEF shown, f, S
  <2>1. (IF broken THEN shown \subseteq Y ELSE shown = Y) /\ Cardinality(shown) = Cardinality(sent)
    BY <1>11, <1>12
  <2>2. DOMAIN PassedDue(r, scope) = due /\ \A p \in due : PassedDue(r, scope)[p] = Passed(p[1], p[2])
    BY DEF PassedDue, due
  <2>3. RowsFor(r.kind, PassedDue(r, scope)) = Y
    BY <2>2 DEF RowsFor
  <2>4. ShownIn(r.kind, sent) = shown
    BY <1>13 DEF ShownIn
  <2> HIDE DEF Y
  <2>5. QED
    BY <2>1, <2>3, <2>4, Zenon DEF Exact

\* GROUP BY badge and org path is GROUP BY badge: a badge has one org path in
\* a snapshot, so an employee has one row and none of her days is elsewhere.
GroupOf(rows, q) == {x \in rows : x.badge = q.badge /\ x.org = q.org}

EmployeeRow(rows, q) ==
  [badge |-> q.badge, org |-> q.org, status |-> JobLevelOf(Current, q.badge),
   total_swipes |-> SwipesOf(GroupOf(rows, q)), total_stay |-> StayOf(GroupOf(rows, q)),
   day_count |-> Cardinality(GroupOf(rows, q))]

LEMMA GroupsOfBadges ==
  ASSUME TypeOK, NEW rows \in SUBSET ViewRows, NEW q \in rows
  PROVE  GroupOf(rows, q) = {x \in rows : x.badge = q.badge}
<1>1. \A x \in rows : x.org = OrgOf(directories[view.version], x.badge)
  BY RowsOfView
<1>2. QED
  BY <1>1 DEF GroupOf

\* The days of one employee in the report are those that are due.
LEMMA GroupIsDue ==
  ASSUME TypeOK, NEW r \in Requests, NEW scope \in OrgPaths, NEW q \in TeamRows(r, scope)
  PROVE  LET group == GroupOf(TeamRows(r, scope), q)
             days == {p \in Due(r, scope) : p[1] = q.badge}
         IN  /\ Cardinality(group) = Cardinality(days)
             /\ SwipesOf(group) = Total([p \in days |-> Passed(p[1], p[2])])
<1> DEFINE team == TeamRows(r, scope)
           due == Due(r, scope)
           group == GroupOf(team, q)
           days == {p \in due : p[1] = q.badge}
           h == [x \in group |-> <<x.badge, x.day>>]
           g == [x \in group |-> x.daily.swipe_count]
           f == [p \in days |-> Passed(p[1], p[2])]
<1>1. /\ IsFiniteSet(team)
      /\ \A x \in team : <<x.badge, x.day>> \in due /\ x \in ViewRows
      /\ \A p \in due : p = <<p[1], p[2]>> /\ \E x \in team : x.badge = p[1] /\ x.day = p[2]
  BY TeamRowsAreDue
<1>2. \A x \in team : /\ x.daily.swipe_count = Passed(x.badge, x.day)
                      /\ Passed(x.badge, x.day) \in Nat
  BY <1>1, RowsOfView
<1>3. group = {x \in team : x.badge = q.badge}
  BY <1>1, GroupsOfBadges, ZenonT(40)
<1>4. \A x, y \in team : x.badge = y.badge /\ x.day = y.day => x = y
  BY <1>1, RowsOfView
<1> HIDE DEF team, due, group
<1>5. IsFiniteSet(group)
  BY <1>1, <1>3, FS_Subset
<1>6. h \in [group -> days]
  BY <1>1, <1>3
<1>7. \A x, y \in group : h[x] = h[y] => x = y
  BY <1>3, <1>4
<1>8. \A p \in days : \E x \in group : h[x] = p
  <2>1. TAKE p \in days
  <2>2. PICK x \in team : x.badge = p[1] /\ x.day = p[2]
    BY <1>1
  <2>3. x \in group /\ p = <<p[1], p[2]>>
    BY <1>1, <1>3, <2>2
  <2>4. h[x] = p
    BY <2>2, <2>3
  <2>5. QED
    BY <2>3, <2>4
<1>9. g \in [group -> Nat]
  BY <1>2, <1>3
<1>10. f \in [days -> Nat]
  <2>1. SUFFICES ASSUME NEW p \in days PROVE Passed(p[1], p[2]) \in Nat
    OBVIOUS
  <2>2. PICK x \in team : x.badge = p[1] /\ x.day = p[2]
    BY <1>1
  <2>3. QED
    BY <1>2, <2>2
<1>11. \A x \in group : f[h[x]] = g[x]
  BY <1>2, <1>3, <1>6
<1> HIDE DEF h, g, f, days
<1>12. h \in Bijection(group, days) /\ Cardinality(days) = Cardinality(group)
  BY <1>5, <1>6, <1>7, <1>8, OneToOne
<1>13. Total(f) = Total(g)
  BY <1>5, <1>9, <1>10, <1>11, <1>12, TotalsAgree
<1>14. SwipesOf(group) = Total(g)
  BY DEF SwipesOf, g
<1>15. QED
  BY <1>12, <1>13, <1>14 DEF team, due, group, days, f

TotalsAnswer(r, scope) ==
  QueryEmployeeAggregated(ViewRows, Current, "", scope, ResolveDateRange(r.dates))

LEMMA AggregatedIsExact ==
  ASSUME TypeOK, NEW r \in Requests, r.kind = "teamAggregated", NEW scope \in OrgPaths,
         NEW sent \in SUBSET TotalsAnswer(r, scope),
         NEW broken \in BOOLEAN,
         ~broken => sent = TotalsAnswer(r, scope)
  PROVE  Exact(r, scope, sent, broken)
<1> DEFINE due == Due(r, scope)
           days(b) == {p \in due : p[1] = b}
           total(b) == Total([p \in days(b) |-> Passed(p[1], p[2])])
           S == TotalsAnswer(r, scope)
           Y == {<<b, Cardinality(days(b)), total(b)>> : b \in {p[1] : p \in due}}
           f == [a \in S |-> <<a.badge, a.day_count, a.total_swipes>>]
           team == TeamRows(r, scope)
           line == [q \in team |-> EmployeeRow(team, q)]
<1>1. S = {line[q] : q \in team}
  <2>1. scope # Unknown
    BY OrgAssumption DEF Unknown
  <2>2. {x \in ViewRows : /\ "" # "" => x.badge = ""
                          /\ scope # Unknown => Under(x.org, scope)
                          /\ Within(x.day, ResolveDateRange(r.dates))} = team
    BY <2>1 DEF TeamRows
  <2>3. S = {EmployeeRow(team, q) : q \in team}
    BY <2>2, Zenon DEF TotalsAnswer, QueryEmployeeAggregated, EmployeeRow, GroupOf
  <2>4. QED
    BY <2>3
<1>2. /\ IsFiniteSet(team)
      /\ \A q \in team : <<q.badge, q.day>> \in due /\ q \in ViewRows
      /\ \A p \in due : p = <<p[1], p[2]>> /\ \E q \in team : q.badge = p[1] /\ q.day = p[2]
  BY TeamRowsAreDue
<1>3. \A q \in team : /\ line[q].badge = q.badge
                      /\ line[q].day_count = Cardinality(days(q.badge))
                      /\ line[q].total_swipes = total(q.badge)
  <2>1. TAKE q \in team
  <2>2. line[q] = EmployeeRow(team, q)
    OBVIOUS
  <2>3. /\ line[q].badge = q.badge
        /\ line[q].day_count = Cardinality(GroupOf(team, q))
        /\ line[q].total_swipes = SwipesOf(GroupOf(team, q))
    BY <2>2 DEF EmployeeRow
  <2>4. /\ Cardinality(GroupOf(team, q)) = Cardinality(days(q.badge))
        /\ SwipesOf(GroupOf(team, q)) = total(q.badge)
    BY GroupIsDue
  <2>5. QED
    BY <2>3, <2>4
<1>4. \A q, x \in team : q.badge = x.badge => line[q] = line[x]
  <2>1. SUFFICES ASSUME NEW q \in team, NEW x \in team, q.badge = x.badge
                 PROVE  EmployeeRow(team, q) = EmployeeRow(team, x)
    OBVIOUS
  <2>2. q.org = x.org
    <3>1. q \in ViewRows /\ x \in ViewRows
      BY <1>2
    <3>2. /\ q.org = OrgOf(directories[view.version], q.badge)
          /\ x.org = OrgOf(directories[view.version], x.badge)
      BY <3>1, RowsOfView
    <3>3. QED
      BY <2>1, <3>2
  <2>3. GroupOf(team, q) = GroupOf(team, x)
    BY <2>1, <2>2 DEF GroupOf
  <2>4. QED
    BY <2>1, <2>2, <2>3 DEF EmployeeRow
<1> HIDE DEF team, due, days, total
<1>5. IsFiniteSet(S)
  <2>1. line \in [team -> S] /\ \A a \in S : \E q \in team : line[q] = a
    BY <1>1
  <2>2. IsFiniteSet(team)
    BY <1>2
  <2> HIDE DEF S, line
  <2>3. QED
    BY <2>1, <2>2, Onto
<1>6. \A a \in S : \E q \in team : a = line[q]
  BY <1>1
<1>7. ASSUME NEW q \in team
      PROVE  line[q] \in S /\ f[line[q]] = <<q.badge, Cardinality(days(q.badge)), total(q.badge)>>
  <2>1. line[q] \in S
    BY <1>1
  <2>2. f[line[q]] = <<line[q].badge, line[q].day_count, line[q].total_swipes>>
    BY <2>1
  <2>3. QED
    BY <1>3, <2>1, <2>2
<1> HIDE DEF S, line
<1>8. f \in [S -> Y]
  <2>1. SUFFICES ASSUME NEW a \in S PROVE f[a] \in Y
    OBVIOUS
  <2>2. PICK q \in team : a = line[q]
    BY <1>6
  <2>3. f[a] = <<q.badge, Cardinality(days(q.badge)), total(q.badge)>>
    BY <1>7, <2>2
  <2>4. <<q.badge, q.day>> \in due /\ <<q.badge, q.day>>[1] = q.badge
    BY <1>2
  <2>5. q.badge \in {p[1] : p \in due}
    BY <2>4
  <2> HIDE DEF f
  <2>6. QED
    BY <2>3, <2>5
<1>9. \A a, c \in S : f[a] = f[c] => a = c
  <2>1. SUFFICES ASSUME NEW a \in S, NEW c \in S, f[a] = f[c] PROVE a = c
    OBVIOUS
  <2>2. PICK q \in team, x \in team : a = line[q] /\ c = line[x]
    BY <1>6
  <2>3. /\ f[line[q]] = <<q.badge, Cardinality(days(q.badge)), total(q.badge)>>
        /\ f[line[x]] = <<x.badge, Cardinality(days(x.badge)), total(x.badge)>>
    BY <1>7
  <2> HIDE DEF f
  <2>4. <<q.badge, Cardinality(days(q.badge)), total(q.badge)>>
          = <<x.badge, Cardinality(days(x.badge)), total(x.badge)>>
    BY <2>1, <2>2, <2>3, Zenon
  <2>6. q.badge = x.badge
    BY <2>4
  <2>5. QED
    BY <1>4, <2>2, <2>6
<1>10. \A y \in Y : \E a \in S : f[a] = y
  <2>1. TAKE y \in Y
  <2>2. PICK p \in due : y = <<p[1], Cardinality(days(p[1])), total(p[1])>>
    OBVIOUS
  <2>3. PICK q \in team : q.badge = p[1]
    BY <1>2
  <2> HIDE DEF f
  <2>4. f[line[q]] = y /\ line[q] \in S
    BY <1>7, <2>2, <2>3
  <2>5. QED
    BY <2>4
<1>11. sent \in SUBSET S
  BY DEF S
<1> DEFINE shown == Shown(f, sent)
<1>12. /\ shown \subseteq Y
       /\ sent = S => shown = Y
       /\ Cardinality(shown) = Cardinality(sent)
  <2> HIDE DEF f, Y
  <2>1. /\ IsFiniteSet(S) /\ f \in [S -> Y]
        /\ \A a, c \in S : f[a] = f[c] => a = c
        /\ \A y \in Y : \E a \in S : f[a] = y
    BY <1>5, <1>8, <1>9, <1>10
  <2>2. QED
    BY <1>11, <2>1, PartOfAnswer
<1>13. ~broken => sent = S
  BY DEF S
<1>14. shown = {<<a.badge, a.day_count, a.total_swipes>> : a \in sent}
  BY <1>11 DEF Shown
<1>15. QED
  <2> HIDE DEF shown, f, S
  <2>1. (IF broken THEN shown \subseteq Y ELSE shown = Y) /\ Cardinality(shown) = Cardinality(sent)
    BY <1>12, <1>13
  <2>2. r.kind # "team"
    OBVIOUS
  <2>3. DOMAIN PassedDue(r, scope) = due /\ \A p \in due : PassedDue(r, scope)[p] = Passed(p[1], p[2])
    BY DEF PassedDue, due
  <2>4. \A b : {p \in DOMAIN PassedDue(r, scope) : p[1] = b} = days(b)
    BY <2>3 DEF days
  <2>5. \A b : [p \in days(b) |-> PassedDue(r, scope)[p]] = [p \in days(b) |-> Passed(p[1], p[2])]
    BY <2>3 DEF days
  <2>6. RowsFor(r.kind, PassedDue(r, scope)) = Y
    <3>1. PICK passed : passed = PassedDue(r, scope)
      OBVIOUS
    <3> DEFINE some(b) == {p \in DOMAIN passed : p[1] = b}
               count(b) == Cardinality(some(b))
               sum(b) == Total([p \in some(b) |-> passed[p]])
    <3>2. RowsFor(r.kind, passed) = {<<b, count(b), sum(b)>> : b \in {p[1] : p \in DOMAIN passed}}
      BY <2>2, Zenon DEF RowsFor
    <3>3. \A b : some(b) = days(b)
      BY <2>4, <3>1
    <3>4. \A b : count(b) = Cardinality(days(b)) /\ sum(b) = total(b)
      <4> HIDE DEF some
      <4>1. TAKE b
      <4>2. some(b) = days(b)
        BY <3>3
      <4>3. [p \in some(b) |-> passed[p]] = [p \in days(b) |-> Passed(p[1], p[2])]
        BY <2>5, <3>1, <4>2
      <4>4. QED
        BY <4>2, <4>3, Zenon DEF total
    <3>5. {p[1] : p \in DOMAIN passed} = {p[1] : p \in due}
      BY <2>3, <3>1
    <3> HIDE DEF count, sum
    <3>6. {<<b, count(b), sum(b)>> : b \in {p[1] : p \in DOMAIN passed}} = Y
      BY <3>4, <3>5
    <3>7. QED
      BY <3>1, <3>2, <3>6, Zenon
  <2>7. ShownIn(r.kind, sent) = shown
    BY <1>14, <2>2 DEF ShownIn
  <2> HIDE DEF Y
  <2>8. QED
    BY <2>1, <2>6, <2>7, Zenon DEF Exact

\* The steps.  The invariant: the handler keeps the range that was asked for.
RangeKept ==
  handler.stage # "idle" /\ handler.request.kind \in NeedScope =>
    handler.range = ResolveDateRange(handler.request.dates)

LEMMA AskKeepsRange ==
  ASSUME TypeOK, NEW r \in Requests, Ask(r)
  PROVE  RangeKept'
<1>1. handler' = Serve(r)
  BY DEF Ask
<1>2. handler'.request = r
  BY <1>1 DEF Serve
<1>3. r.kind \in NeedScope => r.kind # "audit" /\ r.kind # "trend"
  BY DEF NeedScope
<1>4. r.kind \in NeedScope => handler'.range = ResolveDateRange(r.dates)
  BY <1>1, <1>3 DEF Serve
<1>5. QED
  BY <1>2, <1>4 DEF RangeKept

LEMMA NextKeepsRange ==
  ASSUME TypeOK, RangeKept, [Next]_vars
  PROVE  RangeKept'
<1>1. ASSUME handler' = handler PROVE RangeKept'
  BY <1>1 DEF RangeKept
<1>2. ASSUME handler' = Idle PROVE RangeKept'
  BY <1>2 DEF RangeKept, Idle
<1>3. CASE \/ Tick \/ Store \/ SyncStep \/ SyncFails \/ RefreshStep \/ RefreshFails
           \/ \E e \in Edits : ManualEdit(e[1], e[2])
           \/ UNCHANGED vars
  <2>1. handler' = handler
    BY <1>3 DEF Tick, Store, SyncStep, BeginSync, Upsert, CommitSync, SyncFails, RefreshStep,
                RefreshBegins, RefreshEnds, RefreshFails, ManualEdit, vars
  <2>2. QED
    BY <1>1, <2>1
<1>4. CASE RunQuery \/ QueryFails \/ QueryBreaks
  BY <1>2, <1>4, QueryTyped
<1>5. CASE \E r \in Requests : BadRequest(r) \/ Ask(r)
  BY <1>2, <1>5, AskKeepsRange DEF BadRequest, Respond
<1>6. CASE LookUpScope \/ LookUpFails
  <2>1. handler \in Handlers /\ handler.stage = "scope"
    BY <1>6, Stages DEF LookUpScope, LookUpFails
  <2>2. \/ handler' = Idle
        \/ \E scope : handler' = [handler EXCEPT !.stage = "query", !.scope = scope]
        \/ handler' = [handler EXCEPT !.stage = "query", !.failed = TRUE]
    BY <1>6 DEF LookUpScope, LookUpFails, Respond
  <2>3. ASSUME handler' # Idle
        PROVE  handler'.request = handler.request /\ handler'.range = handler.range
    BY <2>1, <2>2, <2>3 DEF Handlers
  <2>4. QED
    BY <1>2, <2>1, <2>3 DEF RangeKept
<1>7. QED
  BY <1>3, <1>4, <1>5, <1>6 DEF Next

\* What a step that answers with rows says.
LEMMA RowsAreSent ==
  ASSUME TypeOK, RunQuery \/ QueryBreaks
  PROVE  /\ handler \in Handlers /\ handler.stage = "query"
         /\ UNCHANGED <<now, stored, directories, view>>
         /\ answer'.code = 200 /\ answer'.request = handler.request
         /\ answer'.scope = handler.scope /\ answer'.range = handler.range
         /\ answer'.broken \in BOOLEAN
         /\ answer'.rows \in SUBSET Result(handler)
         /\ ~answer'.broken => answer'.rows = Result(handler)
<1>1. UNCHANGED <<now, stored, directories, view>>
  BY ServingReads
<1>2. handler \in Handlers /\ handler.stage = "query"
  BY Stages DEF RunQuery, QueryBreaks
<1>3. CASE RunQuery
  BY <1>1, <1>2, <1>3 DEF RunQuery, Respond
<1>4. CASE QueryBreaks
  <2>1. PICK rows \in SUBSET Result(handler) : Respond(200, handler, rows, TRUE)
    BY <1>4 DEF QueryBreaks
  <2>2. QED
    BY <1>1, <1>2, <2>1 DEF Respond
<1>5. QED
  BY <1>3, <1>4

LEMMA OthersSendNoRows ==
  ASSUME TypeOK, [Next]_vars, ~ (RunQuery \/ QueryBreaks)
  PROVE  answer'.code # 200 \/ UNCHANGED vars
<1>1. CASE \/ Tick \/ Store \/ SyncStep \/ SyncFails \/ RefreshStep \/ RefreshFails
           \/ \E e \in Edits : ManualEdit(e[1], e[2])
  BY <1>1, OthersAppend DEF NoAnswer
<1>2. CASE \E r \in Requests : BadRequest(r) \/ Ask(r)
  BY <1>2 DEF BadRequest, Ask, Respond, Silent, NoAnswer
<1>3. CASE LookUpScope \/ LookUpFails \/ QueryFails
  BY <1>3 DEF LookUpScope, LookUpFails, QueryFails, Respond, Silent, NoAnswer
<1>4. QED
  BY <1>1, <1>2, <1>3 DEF Next

\* An answer says the same as long as the snapshot stays.
LEMMA ExactStays ==
  ASSUME UNCHANGED <<view, directories>>, NEW r, NEW scope,
         answer'.request = r, answer'.scope = scope
  PROVE  TeamReportsAreExact' <=>
           (answer'.code = 200 /\ r.kind \in NeedScope =>
              Exact(r, scope, answer'.rows, answer'.broken))
<1>1. \A b, d : Passed(b, d)' = Passed(b, d)
  BY DEF Passed
<1>2. \A b : BelongsTo(b, scope)' <=> BelongsTo(b, scope)
  BY DEF BelongsTo
<1>3. Due(answer.request, answer.scope)'
        = {p \in Badges \X Asked(r.dates) : BelongsTo(p[1], scope)' /\ (Passed(p[1], p[2]) > 0)'}
  BY Zenon DEF Due, BelongsTo, Passed
<1>4. Due(answer.request, answer.scope)' = Due(r, scope)
  BY <1>1, <1>2, <1>3 DEF Due
<1>5. PassedDue(answer.request, answer.scope)'
        = [p \in Due(answer.request, answer.scope)' |-> Passed(p[1], p[2])']
  BY Zenon DEF PassedDue
<1>6. PassedDue(answer.request, answer.scope)' = PassedDue(r, scope)
  BY <1>1, <1>4, <1>5 DEF PassedDue
<1>7. QED
  BY <1>6, Zenon DEF TeamReportsAreExact, Exact

LEMMA TeamReportIsExact ==
  ASSUME TypeOK, Promised, RangeKept, RunQuery \/ QueryBreaks
  PROVE  TeamReportsAreExact'
<1>1. PICK r, scope, sent, broken :
        /\ r = handler.request /\ scope = handler.scope
        /\ sent = answer'.rows /\ broken = answer'.broken
  OBVIOUS
<1>2. /\ handler \in Handlers /\ handler.stage = "query"
      /\ UNCHANGED <<directories, view>>
      /\ answer'.request = r /\ answer'.scope = scope
      /\ broken \in BOOLEAN
      /\ sent \in SUBSET Result(handler)
      /\ ~broken => sent = Result(handler)
  BY <1>1, RowsAreSent
<1>3. r \in Requests /\ scope \in Scopes
  BY <1>1, <1>2 DEF Handlers
<1>4. ASSUME r.kind \in NeedScope PROVE Exact(r, scope, sent, broken)
  <2>1. scope \in OrgPaths /\ handler.range = ResolveDateRange(r.dates)
    <3>1. Scoped(r) /\ r.kind # "trend"
      BY <1>4 DEF Scoped, NeedScope
    <3>2. scope # Unknown
      BY <1>1, <1>2, <3>1 DEF Promised
    <3>3. QED
      BY <1>1, <1>2, <1>3, <1>4, <3>2 DEF Scopes, RangeKept
  <2>2. CASE r.kind = "team"
    <3>1. Result(handler) = TeamAnswer(r, scope)
      BY <1>1, <2>1, <2>2 DEF Result, TeamAnswer
    <3>2. QED
      BY <1>2, <1>3, <2>1, <2>2, <3>1, TeamIsExact
  <2>3. CASE r.kind = "teamAggregated"
    <3>1. Result(handler) = TotalsAnswer(r, scope)
      BY <1>1, <2>1, <2>3 DEF Result, TotalsAnswer
    <3>2. QED
      BY <1>2, <1>3, <2>1, <2>3, <3>1, AggregatedIsExact
  <2>4. QED
    BY <1>4, <2>2, <2>3 DEF NeedScope
<1>5. r.kind \in NeedScope => Exact(r, scope, answer'.rows, answer'.broken)
  BY <1>1, <1>4
<1>6. QED
  BY <1>2, <1>5, ExactStays

\* A team report has exactly the rows of the subtree and the days asked for,
\* and its totals one row for each employee with the sum of these, whatever
\* is committed, refreshed or stored between the two queries.
THEOREM TeamsAreExact == Spec => []TeamReportsAreExact
<1> DEFINE inv == TypeOK /\ Promised /\ RangeKept /\ TeamReportsAreExact
<1>1. Init => inv
  <2> SUFFICES ASSUME Init PROVE inv
    OBVIOUS
  <2>1. handler.stage = "idle" /\ answer.code = 0
    BY DEF Init, Idle, NoAnswer
  <2>2. QED
    BY <2>1, InitTyped DEF Promised, RangeKept, TeamReportsAreExact
<1>2. inv /\ TypeOK' /\ [Next]_vars => inv'
  <2> SUFFICES ASSUME inv, TypeOK', [Next]_vars PROVE inv'
    OBVIOUS
  <2>1. RangeKept'
    BY NextKeepsRange
  <2>2. Promised'
    <3>1. CASE UNCHANGED vars
      BY <3>1, Zenon DEF Promised, Held, Manages, ManagesNothing, vars, directoryVars
    <3>2. QED
      BY <3>1, NextPromises
  <2>3. TeamReportsAreExact'
    <3>1. CASE RunQuery \/ QueryBreaks
      BY <3>1, TeamReportIsExact
    <3>2. CASE answer'.code # 200
      BY <3>2, Zenon DEF TeamReportsAreExact
    <3>3. CASE UNCHANGED vars
      <4>1. UNCHANGED <<view, directories, answer>>
        BY <3>3 DEF vars, directoryVars, viewVars
      <4>2. PICK r, scope : r = answer.request /\ scope = answer.scope
        OBVIOUS
      <4>3. answer.code = 200 /\ r.kind \in NeedScope => Exact(r, scope, answer.rows, answer.broken)
        BY <4>2, Zenon DEF TeamReportsAreExact, Exact
      <4>4. answer'.request = r /\ answer'.scope = scope /\ answer'.code = answer.code
            /\ answer'.rows = answer.rows /\ answer'.broken = answer.broken
        BY <4>1, <4>2
      <4>5. QED
        BY <4>1, <4>3, <4>4, ExactStays
    <3>4. QED
      BY <3>1, <3>2, <3>3, OthersSendNoRows
  <2>4. QED
    BY <2>1, <2>2, <2>3
<1>3. QED
  BY <1>1, <1>2, TypeCorrect, PTL DEF Spec

-----------------------------------------------------------------------------
(* ReadersAgree.  The buckets of a trend and the employees of the totals     *)
(* are two ways to group the rows of the same team report.                  *)

TrendRows(scope, range) ==
  {x \in ViewRows : (scope # Unknown => Under(x.org, scope)) /\ Within(x.day, range)}

SwipeCounts(rows) == [x \in rows |-> x.daily.swipe_count]

Stays(rows) == [x \in rows |-> x.daily.stay]

LEMMA RowsAreCounted ==
  ASSUME TypeOK, NEW rows \in SUBSET ViewRows
  PROVE  /\ IsFiniteSet(rows) /\ SwipeCounts(rows) \in [rows -> Nat]
         /\ SwipesOf(rows) = Total(SwipeCounts(rows))
         /\ \A T \in SUBSET rows : SwipesOf(T) = Total([x \in T |-> SwipeCounts(rows)[x]])
         /\ [x \in rows |-> x.badge] \in [rows -> Badges]
<1>1. IsFiniteSet(rows)
  BY ViewIsFinite, FS_Subset
<1>2. SwipeCounts(rows) \in [rows -> Nat] /\ [x \in rows |-> x.badge] \in [rows -> Badges]
  BY RowsOfView DEF SwipeCounts
<1>3. \A T \in SUBSET rows : [x \in T |-> x.daily.swipe_count] = [x \in T |-> SwipeCounts(rows)[x]]
  BY DEF SwipeCounts
<1>4. \A T \in SUBSET rows : SwipesOf(T) = Total([x \in T |-> SwipeCounts(rows)[x]])
  BY <1>3, Zenon DEF SwipesOf
<1>5. QED
  BY <1>1, <1>2, <1>4 DEF SwipesOf, SwipeCounts

LEMMA RowsAreTimed ==
  ASSUME TypeOK, NEW rows \in SUBSET ViewRows
  PROVE  /\ Stays(rows) \in [rows -> Nat]
         /\ StayOf(rows) = Total(Stays(rows))
         /\ \A T \in SUBSET rows : StayOf(T) = Total([x \in T |-> Stays(rows)[x]])
<1>1. Stays(rows) \in [rows -> Nat]
  BY StaysOfView DEF Stays
<1>2. \A T \in SUBSET rows : [x \in T |-> x.daily.stay] = [x \in T |-> Stays(rows)[x]]
  BY DEF Stays
<1>3. \A T \in SUBSET rows : StayOf(T) = Total([x \in T |-> Stays(rows)[x]])
  BY <1>2, Zenon DEF StayOf
<1>4. QED
  BY <1>1, <1>3 DEF StayOf, Stays

\* A bucket of the trend.
InBucket(rows, period, k) == {x \in rows : BucketOf(x.day, period) = k}

TrendRow(rows, period, k) ==
  [bucket |-> k, head_count |-> Cardinality(BadgesOf(InBucket(rows, period, k))),
   avg_stay_hrs |-> <<StayOf(InBucket(rows, period, k)), Cardinality(InBucket(rows, period, k))>>,
   total_swipes |-> SwipesOf(InBucket(rows, period, k))]

BucketsOf(rows, period) == {BucketOf(x.day, period) : x \in rows}

TrendOf(rows, period) == {TrendRow(rows, period, k) : k \in BucketsOf(rows, period)}

LEMMA TrendHasBuckets ==
  ASSUME NEW rows, NEW period
  PROVE  {t.bucket : t \in TrendOf(rows, period)} = BucketsOf(rows, period)
<1>1. \A k : TrendRow(rows, period, k).bucket = k
  BY DEF TrendRow
<1>2. \A k : k \in BucketsOf(rows, period) => TrendRow(rows, period, k) \in TrendOf(rows, period)
  BY Zenon DEF TrendOf
<1>3. \A t \in TrendOf(rows, period) :
        \E k \in BucketsOf(rows, period) : t = TrendRow(rows, period, k)
  BY Zenon DEF TrendOf
<1>4. \A k \in BucketsOf(rows, period) : \E t \in TrendOf(rows, period) : t.bucket = k
  BY <1>1, <1>2, Zenon
<1>5. \A t \in TrendOf(rows, period) : t.bucket \in BucketsOf(rows, period)
  BY <1>1, <1>3, Zenon
<1>6. QED
  BY <1>4, <1>5

\* The trend adds up to the days, the hours and the swipes of the rows; it has
\* at least one head for each badge and at most one for each row.
LEMMA TrendAddsUp ==
  ASSUME TypeOK, NEW rows \in SUBSET ViewRows, NEW period
  PROVE  LET trends == TrendOf(rows, period)
         IN  /\ Total([t \in trends |-> t.avg_stay_hrs[2]]) = Cardinality(rows)
             /\ Total([t \in trends |-> t.avg_stay_hrs[1]]) = StayOf(rows)
             /\ Total([t \in trends |-> t.total_swipes]) = SwipesOf(rows)
             /\ Cardinality(BadgesOf(rows)) <= Total([t \in trends |-> t.head_count])
             /\ Total([t \in trends |-> t.head_count]) <= Cardinality(rows)
<1> DEFINE trends == TrendOf(rows, period)
           part == [x \in rows |-> TrendRow(rows, period, BucketOf(x.day, period))]
           who == [x \in rows |-> x.badge]
           g == SwipeCounts(rows)
           stay == Stays(rows)
<1>1. /\ IsFiniteSet(rows) /\ g \in [rows -> Nat] /\ SwipesOf(rows) = Total(g)
      /\ \A T \in SUBSET rows : SwipesOf(T) = Total([x \in T |-> g[x]])
      /\ who \in [rows -> Badges]
  BY RowsAreCounted
<1>2. part \in [rows -> trends] /\ \A t \in trends : \E x \in rows : part[x] = t
  BY DEF TrendOf, BucketsOf
<1>3. IsFiniteSet(trends)
  <2> HIDE DEF part, g, trends
  <2>1. QED
    BY <1>1, <1>2, Onto
<1>4. \A t \in trends : /\ Group(rows, part, t) \in SUBSET rows
                        /\ t.total_swipes = SwipesOf(Group(rows, part, t))
                        /\ t.avg_stay_hrs[1] = StayOf(Group(rows, part, t))
                        /\ t.avg_stay_hrs[2] = Cardinality(Group(rows, part, t))
                        /\ t.head_count = Cardinality(BadgesOf(Group(rows, part, t)))
  <2>1. TAKE t \in trends
  <2>2. PICK k : k \in BucketsOf(rows, period) /\ t = TrendRow(rows, period, k)
    BY DEF TrendOf
  <2>3. \A j : TrendRow(rows, period, j).bucket = j
    BY DEF TrendRow
  <2>4. Group(rows, part, t) = InBucket(rows, period, k)
    BY <2>2, <2>3 DEF Group, InBucket
  <2>5. /\ t.total_swipes = SwipesOf(InBucket(rows, period, k))
        /\ t.avg_stay_hrs[1] = StayOf(InBucket(rows, period, k))
        /\ t.avg_stay_hrs[2] = Cardinality(InBucket(rows, period, k))
        /\ t.head_count = Cardinality(BadgesOf(InBucket(rows, period, k)))
    BY <2>2 DEF TrendRow
  <2>6. Group(rows, part, t) \in SUBSET rows
    BY DEF Group
  <2>7. QED
    BY <2>4, <2>5, <2>6
<1>5. /\ stay \in [rows -> Nat] /\ StayOf(rows) = Total(stay)
      /\ \A T \in SUBSET rows : StayOf(T) = Total([x \in T |-> stay[x]])
  BY RowsAreTimed
<1> HIDE DEF part, who, g, stay, trends
<1>6. Total([t \in trends |-> t.total_swipes]) = SwipesOf(rows)
  <2>1. [t \in trends |-> t.total_swipes]
          = [t \in trends |-> Total([x \in Group(rows, part, t) |-> g[x]])]
    BY <1>1, <1>4
  <2>2. Total([t \in trends |-> Total([x \in Group(rows, part, t) |-> g[x]])]) = Total(g)
    BY <1>1, <1>2, <1>3, GroupsAddUp
  <2>3. QED
    BY <1>1, <2>1, <2>2, Zenon
<1>7. Total([t \in trends |-> t.avg_stay_hrs[1]]) = StayOf(rows)
  <2>1. [t \in trends |-> t.avg_stay_hrs[1]]
          = [t \in trends |-> Total([x \in Group(rows, part, t) |-> stay[x]])]
    BY <1>4, <1>5
  <2>2. Total([t \in trends |-> Total([x \in Group(rows, part, t) |-> stay[x]])]) = Total(stay)
    BY <1>1, <1>2, <1>3, <1>5, GroupsAddUp
  <2>3. QED
    BY <1>5, <2>1, <2>2, Zenon
<1>8. Total([t \in trends |-> t.avg_stay_hrs[2]]) = Cardinality(rows)
  <2>1. [t \in trends |-> t.avg_stay_hrs[2]]
          = [t \in trends |-> Cardinality(Group(rows, part, t))]
    BY <1>4
  <2>2. Total([t \in trends |-> Cardinality(Group(rows, part, t))]) = Cardinality(rows)
    BY <1>1, <1>2, <1>3, GroupsCount
  <2>3. QED
    BY <2>1, <2>2, Zenon
<1>9. \A T \in SUBSET rows : HeadCount(who, T) = Cardinality(BadgesOf(T))
  <2>1. TAKE T \in SUBSET rows
  <2>2. {who[x] : x \in T} = BadgesOf(T)
    BY DEF who, BadgesOf
  <2>3. QED
    BY <2>2, Zenon DEF HeadCount
<1>10. /\ HeadCount(who, rows) <= Total(GroupHeads(who, rows, part, trends))
       /\ Total(GroupHeads(who, rows, part, trends)) <= Cardinality(rows)
  BY <1>1, <1>2, <1>3, HeadsOfGroups
<1>11. GroupHeads(who, rows, part, trends) = [t \in trends |-> t.head_count]
  BY <1>4, <1>9 DEF GroupHeads
<1>12. /\ Cardinality(BadgesOf(rows)) <= Total([t \in trends |-> t.head_count])
       /\ Total([t \in trends |-> t.head_count]) <= Cardinality(rows)
  BY <1>9, <1>10, <1>11
<1>13. QED
  BY <1>6, <1>7, <1>8, <1>12, Zenon DEF trends

\* The totals have one row for each badge, with the number, the hours and the
\* swipes of its rows: all of them have the same org path.
TotalRows(rows) == {EmployeeRow(rows, q) : q \in rows}

RowsOf(rows, b) == {x \in rows : x.badge = b}

TotalsOfEach(rows, totals) ==
  /\ BadgesOf(totals) = BadgesOf(rows)
  /\ \A a, b \in totals : a.badge = b.badge => a = b
  /\ \A a \in totals :
       /\ a.day_count = Cardinality(RowsOf(rows, a.badge))
       /\ a.total_stay = StayOf(RowsOf(rows, a.badge))
       /\ a.total_swipes = SwipesOf(RowsOf(rows, a.badge))

LEMMA TotalsOfEmployees ==
  ASSUME TypeOK, NEW rows \in SUBSET ViewRows
  PROVE  TotalsOfEach(rows, TotalRows(rows))
<1> DEFINE totals == TotalRows(rows)
<1>1. \A q \in rows : EmployeeRow(rows, q) \in totals
  BY Zenon DEF TotalRows
<1>2. \A a \in totals : \E q \in rows : a = EmployeeRow(rows, q)
  BY Zenon DEF TotalRows
<1>3. \A q \in rows : GroupOf(rows, q) = RowsOf(rows, q.badge)
  BY GroupsOfBadges DEF RowsOf
<1>4. \A q : /\ EmployeeRow(rows, q).badge = q.badge
             /\ EmployeeRow(rows, q).day_count = Cardinality(GroupOf(rows, q))
             /\ EmployeeRow(rows, q).total_stay = StayOf(GroupOf(rows, q))
             /\ EmployeeRow(rows, q).total_swipes = SwipesOf(GroupOf(rows, q))
  BY DEF EmployeeRow
<1>5. \A q, x \in rows : q.badge = x.badge => EmployeeRow(rows, q) = EmployeeRow(rows, x)
  <2>1. TAKE q, x \in rows
  <2>2. HAVE q.badge = x.badge
  <2>3. GroupOf(rows, q) = GroupOf(rows, x)
    BY <1>3, <2>2
  <2>4. q.org = x.org
    BY <2>2, RowsOfView
  <2>5. QED
    BY <2>2, <2>3, <2>4, Zenon DEF EmployeeRow
<1> HIDE DEF totals
<1>6. BadgesOf(totals) = BadgesOf(rows)
  <2>1. \A a \in totals : \E q \in rows : a.badge = q.badge
    BY <1>2, <1>4, Zenon
  <2>2. \A q \in rows : \E a \in totals : a.badge = q.badge
    BY <1>1, <1>4, Zenon
  <2>3. QED
    BY <2>1, <2>2 DEF BadgesOf
<1>7. \A a, b \in totals : a.badge = b.badge => a = b
  <2>1. TAKE a, b \in totals
  <2>2. HAVE a.badge = b.badge
  <2>3. PICK q \in rows : a = EmployeeRow(rows, q)
    BY <1>2
  <2>4. PICK x \in rows : b = EmployeeRow(rows, x)
    BY <1>2
  <2>5. q.badge = x.badge
    BY <1>4, <2>2, <2>3, <2>4, Zenon
  <2>6. QED
    BY <1>5, <2>3, <2>4, <2>5, Zenon
<1>8. ASSUME NEW a \in totals
      PROVE  /\ a.day_count = Cardinality(RowsOf(rows, a.badge))
             /\ a.total_stay = StayOf(RowsOf(rows, a.badge))
             /\ a.total_swipes = SwipesOf(RowsOf(rows, a.badge))
  <2>1. PICK q \in rows : a = EmployeeRow(rows, q)
    BY <1>2
  <2>2. GroupOf(rows, q) = RowsOf(rows, a.badge)
    BY <1>3, <1>4, <2>1, Zenon
  <2>3. QED
    BY <1>4, <2>1, <2>2, Zenon
<1>9. QED
  BY <1>6, <1>7, <1>8, Zenon DEF TotalsOfEach, totals

-----------------------------------------------------------------------------
\* What ReadersAgree asks of a report, its totals and the rows of a trend.
Agrees(team, totals, trends, period) ==
  LET summary == ComputeTrendSummary(trends)
  IN  /\ TotalsOfEach(team, totals)
      /\ {t.bucket : t \in trends} = BucketsOf(team, period)
      /\ Total([t \in trends |-> t.avg_stay_hrs[2]]) = Cardinality(team)
      /\ Total([t \in trends |-> t.avg_stay_hrs[1]]) = StayOf(team)
      /\ summary.avg_swipes_per_person[1] = SwipesOf(team)
      /\ Cardinality(BadgesOf(team)) <= summary.avg_head_count[1]
      /\ summary.avg_head_count[1] <= Cardinality(team)

ReportedRows(scope, range) ==
  {a.row : a \in IF scope = Unknown
     THEN QueryAttendance(ViewRows, Current, "", range)
     ELSE QueryManagerTeamAttendance(ViewRows, Current, scope, range)}

ReportedTotals(scope, range) == QueryEmployeeAggregated(ViewRows, Current, "", scope, range)

LEMMA ReportedAreTrendRows ==
  ASSUME NEW scope, NEW range
  PROVE  ReportedRows(scope, range) = TrendRows(scope, range)
<1>1. ASSUME NEW S, NEW d PROVE {a.row : a \in Reports(S, d)} = S
  <2>1. \A x \in S : [row |-> x, status |-> JobLevelOf(d, x.badge)] \in Reports(S, d)
    BY Zenon DEF Reports
  <2>2. \A a \in Reports(S, d) : \E x \in S : a = [row |-> x, status |-> JobLevelOf(d, x.badge)]
    BY Zenon DEF Reports
  <2>3. \A x, y : [row |-> x, status |-> y].row = x
    OBVIOUS
  <2>4. \A x \in S : \E a \in Reports(S, d) : a.row = x
    BY <2>1, <2>3, Zenon
  <2>5. \A a \in Reports(S, d) : a.row \in S
    BY <2>2, <2>3, Zenon
  <2>6. QED
    BY <2>4, <2>5
<1>2. CASE scope = Unknown
  <2>1. QueryAttendance(ViewRows, Current, "", range) = Reports(TrendRows(scope, range), Current)
    BY <1>2, Zenon DEF QueryAttendance, TrendRows
  <2>2. QED
    BY <1>1, <1>2, <2>1, Zenon DEF ReportedRows
<1>3. CASE scope # Unknown
  <2>1. {x \in ViewRows : Under(x.org, scope) /\ Within(x.day, range)} = TrendRows(scope, range)
    BY <1>3, Zenon DEF TrendRows
  <2>2. QueryManagerTeamAttendance(ViewRows, Current, scope, range)
          = Reports(TrendRows(scope, range), Current)
    BY <2>1, Zenon DEF QueryManagerTeamAttendance
  <2>3. QED
    BY <1>1, <1>3, <2>2, Zenon DEF ReportedRows
<1>4. QED
  BY <1>2, <1>3

LEMMA ReportedAreTotals ==
  ASSUME NEW scope, NEW range
  PROVE  ReportedTotals(scope, range) = TotalRows(TrendRows(scope, range))
<1>1. {x \in ViewRows : /\ "" # "" => x.badge = ""
                        /\ scope # Unknown => Under(x.org, scope)
                        /\ Within(x.day, range)} = TrendRows(scope, range)
  BY Zenon DEF TrendRows
<1>2. QED
  BY <1>1, Zenon DEF ReportedTotals, TotalRows, QueryEmployeeAggregated, EmployeeRow, GroupOf

LEMMA TrendIsTrendOf ==
  ASSUME NEW scope, NEW range, NEW period
  PROVE  QueryAttendanceTrend(ViewRows, period, scope, range) = TrendOf(TrendRows(scope, range), period)
BY Zenon DEF QueryAttendanceTrend, TrendOf, TrendRow, InBucket, BucketsOf, TrendRows

LEMMA TrendAgrees ==
  ASSUME TypeOK, NEW scope, NEW range, NEW period
  PROVE  Agrees(ReportedRows(scope, range), ReportedTotals(scope, range),
                TrendOf(TrendRows(scope, range), period), period)
<1>1. PICK rows, totals, trends :
        /\ rows = TrendRows(scope, range) /\ totals = TotalRows(rows)
        /\ trends = TrendOf(rows, period)
  OBVIOUS
<1>2. rows \in SUBSET ViewRows
  BY <1>1 DEF TrendRows
<1>3. /\ Total([t \in trends |-> t.avg_stay_hrs[2]]) = Cardinality(rows)
      /\ Total([t \in trends |-> t.avg_stay_hrs[1]]) = StayOf(rows)
      /\ Total([t \in trends |-> t.total_swipes]) = SwipesOf(rows)
      /\ Cardinality(BadgesOf(rows)) <= Total([t \in trends |-> t.head_count])
      /\ Total([t \in trends |-> t.head_count]) <= Cardinality(rows)
  BY <1>1, <1>2, TrendAddsUp, Zenon
<1>4. TotalsOfEach(rows, totals) /\ {t.bucket : t \in trends} = BucketsOf(rows, period)
  BY <1>1, <1>2, TotalsOfEmployees, TrendHasBuckets, Zenon
<1>5. /\ ComputeTrendSummary(trends).avg_swipes_per_person[1] = Total([t \in trends |-> t.total_swipes])
      /\ ComputeTrendSummary(trends).avg_head_count[1] = Total([t \in trends |-> t.head_count])
  BY DEF ComputeTrendSummary
<1>6. Agrees(rows, totals, trends, period)
  BY <1>3, <1>4, <1>5, Zenon DEF Agrees
<1>7. QED
  BY <1>1, <1>6, ReportedAreTrendRows, ReportedAreTotals, Zenon

\* What is sent as a trend agrees with the report and the totals.
Agreeing(sent, scope, range) ==
  sent.code = 200 /\ sent.request.kind = "trend" /\ ~sent.broken =>
    Agrees(ReportedRows(scope, range), ReportedTotals(scope, range), sent.rows,
           sent.request.period)

LEMMA AgreementIsOfAnswer == ReadersAgree <=> Agreeing(answer, answer.scope, answer.range)
BY Zenon DEF ReadersAgree, Agreeing, Agrees, TotalsOfEach, RowsOf, BucketsOf, ReportedRows,
             ReportedTotals

\* The readers say the same as long as the snapshot and the directory stay.
LEMMA AgreementStays ==
  ASSUME UNCHANGED <<view, directories>>, NEW sent, sent = answer',
         Agreeing(sent, sent.scope, sent.range)
  PROVE  ReadersAgree'
<1>1. ViewRows' = ViewRows /\ Current' = Current
  BY DEF ViewRows, Current
<1>2. Agreeing(answer, answer.scope, answer.range)'
  BY <1>1, Zenon DEF Agreeing, ReportedRows, ReportedTotals
<1>3. QED
  BY <1>2, AgreementIsOfAnswer, PTL

LEMMA TrendOfQueryAgrees ==
  ASSUME TypeOK, RunQuery \/ QueryBreaks
  PROVE  ReadersAgree'
<1>1. PICK scope, range, period :
        /\ scope = handler.scope /\ range = handler.range /\ period = handler.request.period
  OBVIOUS
<1>2. /\ UNCHANGED <<directories, view>>
      /\ answer'.request = handler.request
      /\ answer'.scope = scope /\ answer'.range = range
      /\ ~answer'.broken => answer'.rows = Result(handler)
  BY <1>1, RowsAreSent
<1>3. ASSUME handler.request.kind = "trend"
      PROVE  Result(handler) = TrendOf(TrendRows(scope, range), period)
  <2>1. Result(handler) = QueryAttendanceTrend(ViewRows, period, scope, range)
    BY <1>1, <1>3 DEF Result
  <2>2. QED
    BY <2>1, TrendIsTrendOf, Zenon
<1>4. Agrees(ReportedRows(scope, range), ReportedTotals(scope, range),
             TrendOf(TrendRows(scope, range), period), period)
  BY TrendAgrees
<1>5. ASSUME answer'.request.kind = "trend", ~answer'.broken
      PROVE  Agrees(ReportedRows(scope, range), ReportedTotals(scope, range), answer'.rows, period)
  <2>1. answer'.rows = TrendOf(TrendRows(scope, range), period)
    BY <1>2, <1>3, <1>5, Zenon
  <2>2. QED
    BY <1>4, <2>1, Zenon
<1>6. PICK sent : sent = answer'
  OBVIOUS
<1>7. sent.scope = scope /\ sent.range = range /\ sent.request.period = period
  BY <1>1, <1>2, <1>6
<1>8. Agreeing(sent, scope, range)
  BY <1>5, <1>6, <1>7, Zenon DEF Agreeing
<1>9. Agreeing(sent, sent.scope, sent.range)
  BY <1>7, <1>8, Zenon
<1>10. QED
  BY <1>2, <1>6, <1>9, AgreementStays

\* The three readers of the view agree about one scope and range of dates, in
\* whatever state the view is: the totals have one row for each badge of the
\* report, with the number, the hours and the swipes of its days; the buckets
\* of the trend are those of the report's days and add up to its days, hours
\* and swipes; and its heads, which it counts in each bucket anew, are at least
\* the badges and at most the rows of the report.
THEOREM ReadersAlwaysAgree == Spec => []ReadersAgree
<1>1. Init => ReadersAgree
  <2>1. Init => answer.code # 200
    BY DEF Init, NoAnswer
  <2>2. QED
    BY <2>1, Zenon DEF ReadersAgree
<1>2. TypeOK /\ ReadersAgree /\ [Next]_vars => ReadersAgree'
  <2> SUFFICES ASSUME TypeOK, ReadersAgree, [Next]_vars PROVE ReadersAgree'
    OBVIOUS
  <2>1. CASE RunQuery \/ QueryBreaks
    BY <2>1, TrendOfQueryAgrees
  <2>2. CASE answer'.code # 200
    BY <2>2, Zenon DEF ReadersAgree
  <2>3. CASE UNCHANGED vars
    <3>1. UNCHANGED <<view, directories, answer>>
      BY <2>3 DEF vars, directoryVars, viewVars
    <3>2. PICK sent : sent = answer
      OBVIOUS
    <3>3. Agreeing(sent, sent.scope, sent.range)
      BY <3>2, AgreementIsOfAnswer, Zenon
    <3>4. sent = answer'
      BY <3>1, <3>2
    <3>5. QED
      BY <3>1, <3>3, <3>4, AgreementStays
  <2>4. QED
    BY <2>1, <2>2, <2>3, OthersSendNoRows
<1>3. QED
  BY <1>1, <1>2, TypeCorrect, PTL DEF Spec
=============================================================================
