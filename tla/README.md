# FP-PACS in TLA+

Models, model-checking runs and proofs for the badge access control system in
this repository: the gate (`access-api`), the Redis state and stream behind it,
the consumers of the stream (`event-processor`, `anomaly-detector`), the
attendance view computed from what they store, and the reports made of it
(`reporting-api`) while the directory changes (`org-sync`).

    tlc -workers 2 -config MCAccessApi_overlap.cfg MCAccessApi
    tlapm AccessApi_proofs.tla

## The system and its parts

    reader ──POST /v1/swipe──▶ access-api (3..20 replicas)
                                 │ GET apb / active_site   (checks)
                                 │ MULTI SET apb + XADD    (grant)
                                 │ XADD                    (rejection)
                                 ▼
                               Redis ── stream pacs:events
                                 │              │
               group event-processors     group anomaly-detectors
                                 ▼              ▼
                          event-processor   anomaly-detector
                                 │ INSERT       │ INSERT
                                 ▼              ▼
                          access_events       alerts
                                 │
                     mv-refresher: REFRESH mv_daily_attendance
                                 │
                          reporting-api ◀── employees ◀── org-sync

| part | state | operations | what is hard | what makes it correct |
|---|---|---|---|---|
| access-api (`cmd/access-api/main.go`) | none but two counters; everything is in Redis | `handleSwipe`: up to three reads, then one write, then `active_site` | reads and writes are separate calls without a lock; writes time out with an unknown outcome; replicas die | grants alternate per tier, tiers nest, one site at a time, what was answered is recorded |
| cache (`internal/cache/redis.go`) | `apb:<site>:<tier>:<badge>`, `active_site:<badge>`, both for 24 h | get, set, MULTI/EXEC of SET and XADD | keys expire or are evicted | the recorded direction is that of the last grant in the stream |
| queue (`internal/queue/stream.go`) | stream, per group a cursor and a pending list, the dead letters | `ConsumeEventsWithGroup`, `claimPending`, `handleMessage`, `toDLQ` | at-least-once delivery, claims from slow or dead consumers, ignored errors of XACK and of the dead letter XADD | nothing is lost, every event settles, duplicates have a cause |
| event-processor (`cmd/event-processor`) | – | `InsertEvent` for each event | database outages, ambiguous INSERTs | as above |
| anomaly-detector (`cmd/anomaly-detector`) | two maps of counters in memory, `alerts` | three rules per event | windows on its own clock, restarts, redelivery, alerts that cannot be stored | an alert is backed by events, a burst is noticed |
| attendance view (`scripts/migrations/0106`), mv-refresher | the materialized view | REFRESH | duplicated, late or orphaned rows, midnight in Asia/Taipei | stay hours are the time inside |
| org-sync (`cmd/org-sync/main.go`) | `employees` | one transaction of upserts, again and again | rollbacks, changes by hand, readers in between | a run is seen in full or not at all; LDAP wins in the end |
| reporting-api (`cmd/reporting-api/main.go`, `internal/db/postgres.go`) | none | up to two queries per request: the caller's scope, then the report | the scope is of now, the org paths are those of the last refresh; connections break while rows are read | a manager sees the subtree managed, all of it, and the reports agree with each other |
| auth (`internal/auth/jwt.go`) | none | signs and parses tokens | – | – |

`PROJECT.json` lists the hazards at their lines, each with the properties that
would catch it going wrong.

## Modules

| module | role |
|---|---|
| `SwipeModels` | requests, tiers, keys and events; pure. A gate identifier is the pair of first characters `gateTier` looks at |
| `RedisCache` | the gate's Redis state and the operations on it, each one atomic |
| `AccessApi` | `handleSwipe` as a state machine: one action per Redis call, per handler (request goroutine), with faults |
| `Turnstile` | abstract specification of the gate: each swipe decided and recorded in one step |
| `AccessApiProps`, `MCAccessApi` | properties of the gate; its instances |
| `AccessApi_proofs` | what holds whatever interleaves and fails: types, recorded directions and answers, what the stream says of `active_site`, of tier 2 and of verdicts, the counters |
| `AccessSerial_proofs` | for swipes of a badge that do not overlap: the anti-passback rules, `AccessApi` implements `Turnstile`, a badge inside two sites left one without a record |
| `EventStream` | the consumer loop and event-processor: one action per Redis or database call, per consumer |
| `EventStreamProps`, `MCEventStream` | properties; instances |
| `EventStream_proofs` | types, nothing is lost, and what faults, retries and dead letters cost |
| `AnomalyDetector` | the three rules, their windows, the alerts, and delivery as the detector sees it |
| `AnomalyDetectorProps`, `MCAnomalyDetector` | properties; instances |
| `AnomalyDetector_proofs` | types, what alerts mean, every event is judged |
| `Totals` | SUM, in the queries and over the counters of the replicas; pure |
| `Totals_proofs` | induction over numbers and finite sets; sums as the sizes of piles |
| `AttendanceView` | `mv_daily_attendance` as operators, one per common table expression; pure |
| `Attendance` | composes `Turnstile` (which swipes are granted), delivery of rows (order, duplicates) and `AttendanceView` through periodic refreshes |
| `AttendanceProps`, `MCAttendance` | properties; instances |
| `AttendanceView_proofs` | lemmas about those operators: what ORDER BY returns, visits do not overlap, `Stay` counts the ticks they cover, the counter of 0106 counts gates |
| `Attendance_proofs` | types, days of bounded length, hours that are only taken back for a reason, hours that are the time inside |
| `ReportQueries` | the queries of `internal/db/postgres.go` as operators on the directory, the events and the view; pure |
| `Reporting` | composes a handler of reporting-api, org-sync's transaction, changes by hand, the arrival of events and mv-refresher |
| `ReportingProps`, `MCReporting` | properties; the instance |
| `Reporting_proofs` | types, scopes, no mixed directory, exact and consistent reports, every swipe audited |

## How the models correspond to the code

**AccessApi.** A handler `h` is one goroutine running `handleSwipe`. `pc[h]` is
the Redis call it makes next and `current[h]` what it holds in its local
variables: the number of the swipe, the request, the rejection code. The
actions follow the function from top to bottom: `BadRequest` and `Receive`
(lines 101-119; `Receive` also makes the choice of the first check by tier and
direction, which needs no Redis), `CrossSiteCheck` (GET active_site, for a tier-1
entry), `TierCheck` (the tier-1 state
for a tier-2 swipe, the tier-2 state for a tier-1 exit), `ApbCheck`,
`PublishRejection`, `CommitSwipe` (one MULTI/EXEC), `UpdateActiveSite`,
`Answer`. `ReadFails` and `WriteFails` are the error branches. A write that
timed out may still be executed by Redis after the handler has answered 503:
the handler then stays at a `late...` stage until `LateWrite` or
`LateWriteLost`. `Crash(p)` kills replica `p` with all its handlers and
counters; `PublishRepeats` is the client library sending an XADD again;
`RedisDropsKey` is the 24 h expiry or an eviction. Strings are reduced to what
`handleSwipe` distinguishes: a gate to the two first characters `gateTier`
looks at, a site to its identity with `""` read as `global`.

**EventStream.** Messages are numbered in stream order. `delivered` is the
group's last-delivered-id, `pending` its pending list, `aged` the pending
messages idle for `pendingMinIdle`. `pc[c]` is the next call of consumer `c`:
`claim` (XAUTOCLAIM), `read` (XREADGROUP), `handle` (InsertEvent), `toDLQ`,
`ack`. Batches are handled in stream order, so a batch is a set and the current
message its least element. `Stop` stands for a kill and for a cancelled context:
in both cases no later call has an effect.

**AnomalyDetector.** `detect` runs its three rules one after the other on one
message, an action each; `apbState` and `tailgateState` are the two maps, which
`Crash` empties. Delivery is reduced to what a single consumer can see of
EventStream. `judged`, `fired`, `run` and `lostAcks` (the XACKs that failed) are
history variables.

**Attendance.** `Gate` (an instance of Turnstile) decides swipes, `Store` moves
their events into `table` in any order, `Refresh` takes the snapshot. Each
common table expression of migration 0106 is an operator of AttendanceView.
`table` and `seen`, the rows the last refresh read, are sets of pairs of a
decision and the number of the copy, since a row may be stored twice. The gate
here forgets, as Redis does: a grant writes its key with a time to live of a day
(`Renew`, `redis.go:109`), `Tick` drops the keys whose time has come and `Evict`
one before its time (`allkeys-lru`), and after that either direction passes. A
swipe may also overlap the one before it: `OverlappingSwipe` decides by the keys
as they were before the last decision (`Stale`), so that two entries may both be
granted. It overlaps only the last decision, at most a tick ago. The other
faults are a replica whose clock is ahead (`Swipe` with a later time), a row
stored once more, and a refresh that fails and is counted. `disturbed` remembers
the keys that an eviction, an overlap or a wrong clock happened to.

**Reporting.** `directories` lists every committed state of `employees`, the
present one last. The view is kept as the snapshot it was made of (the version
of the directory, the number of events stored, the time), and `ViewRows` are
its rows. A refresh takes its snapshot in `RefreshBegins` and readers see it
from `RefreshEnds` on; what happens in between is missing from it, and
`RefreshFails` keeps the old one. `BeginSync`, `Upsert`, `CommitSync` and
`SyncFails` are org-sync's transaction: its rows are invisible until the
commit, but locked, so that `ManualEdit` has to wait for them. `handler` is one
request: `Ask` checks it and resolves its dates, `LookUpScope` is the first
query, `RunQuery` the second; `LookUpFails`, `QueryFails` and `QueryBreaks`
(the connection breaks while rows are read) are the ways they fail. One handler
is enough, because handlers share nothing they write. `answer` is what the last
step sent, with the version of the directory when the request came in and
whether the lookup of the scope of that very request failed. Of
PostgreSQL the model assumes READ COMMITTED: a statement sees what was
committed when it began, rows of an open transaction are locked, a rollback
leaves nothing.

**ReportQueries.** Each query is an operator that returns the set of its rows:
the order is layout, names belong to the badge as its org path does, an org path
is the sequence of its labels (so `<@` is a prefix), and an average is the pair
of its sum and its count.

## Runs

| run | question | bounds | result |
|---|---|---|---|
| `api_overlap` | what holds when swipes of one badge overlap, with every fault; what the counters of `/metrics` add up to | 1 badge, 2 sites, tiers 1 and 2, 2 handlers on 2 replicas, 3 swipes, 1 fault | holds |
| `api_serial` | anti-passback and exclusivity over long histories | 1 badge, 3 spellings of 2 sites, 4 gate forms, 4 swipes, no fault | holds |
| `api_refine` | AccessApi implements Turnstile; handlers finish | 2 badges, 2 handlers on 2 replicas, 3 swipes, 1 fault, swipes of a badge one after the other | holds |
| `api_stray` | "a badge may only be physically inside one site at a time" | 1 badge, 2 sites, 3 swipes | **violated** |
| `stream_safe` | duplicates, losses and repeated attempts against the number of faults | 2 consumers, 3 events of which 1 malformed, 3 attempts, 2 faults of any kind, 1 outage | holds |
| `stream_live` | nothing is lost, everything settles | 2 consumers, 2 events of which 1 malformed, 2 attempts, 2 faults other than failing Redis calls, 1 outage | holds |
| `stream_dlqloss` | "failed events are not lost" | 1 consumer, 2 events, 1 failing Redis call | **violated** |
| `anomaly_faults` | alerts are justified, bursts are noticed | 2 kinds of events, 4 events, 3 instants, 1 fault | holds |
| `anomaly_sliding` | "three within 30 minutes" | 4 rejections, 5 instants, no fault | **violated** |
| `attendance_stay` | `stay_hours` is the time inside, also when records expire or are evicted, swipes overlap, rows are late or repeated and clocks disagree; which days have a row; what a repeated direction takes | 1 badge, 2 tiers, 4 swipes and faults together, 4 ticks of half a day over two midnights, rows in any order, 1 fault, skew of 1 tick, any number of refreshes | holds |
| `attendance_orphans` | "unpaired events are ignored", of an OUT | 1 gate, 3 swipes, days of 3 ticks, no fault | **violated** |
| `team_reports` | what reports say, and whether they agree, while the directory and the view change; the view and the directory catch up | 2 badges, 2 events, a list of 2, 1 change by hand, 4 requests, 2 instants, skew 1, 1 fault | holds |

Ten more configurations are kept for what they show, and are run by hand with
`tlc -config`. Each has one property. TLC finds nine of these violated by what
the code does, where a document or comment promises them.

| configuration | property | question | bounds | result |
|---|---|---|---|---|
| `MCAccessApi_double.cfg` | `Alternation` | "prevents two consecutive swipes in one direction", when swipes overlap | 1 badge, 2 handlers, 2 swipes, no fault | **violated** |
| `MCAccessApi_nesting.cfg` | `TierNesting` | "from the core, tier 2 before tier 1", when swipes overlap | 1 badge, 2 handlers, 3 swipes, no fault | **violated** |
| `MCAccessApi_order.cfg` | `ActiveSiteIsInside` | "the site a badge is in is tracked", when an entry and an exit overlap | 1 badge, 2 handlers, 2 swipes, no fault | **violated** |
| `MCAccessApi_lost.cfg` | `ActiveSiteIsInside` | "the site a badge is in is tracked", without overlap | 1 badge, 1 handler, 2 swipes, 1 failed write | **violated** |
| `MCEventStream_outage.cfg` | `OutagesAreCaughtUp` | "events stay in the stream while the database is away and are caught up on" | 1 consumer, 2 events, 3 attempts, 1 outage, no fault | **violated** |
| `MCAttendance_repeats.cfg` | `OrphanEntriesAreIgnored` | "unpaired events are ignored", of an IN | 1 gate, 3 swipes, days of 2 ticks, no fault | **violated** |
| `MCAttendance_gap.cfg` | `EveryDayIsReported` | "a visit over several days is distributed to its dates" | 1 gate, 3 swipes, 5 ticks, days of 2, no fault | **violated** |
| `MCReporting_scope.cfg` | `TrendsAreLimited` | "a manager's trend is limited to his scope" | as `team_reports` | **violated** |
| `MCReporting_cut.cfg` | `ReportsAreWhole` | "a team report whose query fails is a 500" | as `team_reports` | **violated** |
| `MCReporting_readers.cfg` | `ReadersAgree` | report, totals and trend agree | 2 badges, 4 events that make two visits over midnights, 4 trends (of one, two and three days, in 3 ranges, with and without scope), a list of 2, 4 instants | holds |

Why the bounds are enough. Two handlers already give every interleaving of two
read-check-write sequences, and the properties of `api_overlap` relate at most
two swipes and one fault; the third swipe lets the first two leave any state
behind. The violations of exclusivity need three swipes, `api_serial` has four.
Two consumers give every hand-over of a message; three events are one more than
a batch, so that claim passes need their cursor and reads come in two
deliveries; two faults allow one during the recovery from another. An alert
takes three events, so four let a window end before, between and after them.
A nested visit (in, in, out, out) takes four swipes, and a fault takes the
place of one, so every history of three swipes meets every fault. A day of two
ticks within a time of four lets a record expire and the same direction be
granted again with two ticks to spare.
In `team_reports` the list promotes a manager into a larger subtree and adds an
employee who already swipes, and the change by hand dismisses the manager: the
scope and the org paths of the view may each be of before or after either
change, in every combination, with the one fault between any two steps.
Nobody leaves in it, so the hours are zero; in `MCReporting_readers.cfg` the
visits have ended and `ReadersAgree` has hours to compare.

Two bounds hide a case on purpose. The half of `CountersMatchAnswers` that
compares answers with counters is switched off where replicas may be killed
(`api_overlap`), because a kill takes the counters with it; `api_serial` is the
run that checks it. And `stream_live` has no failing Redis calls: a consumer
that starts without its group (`StartWithoutGroup`, `event-processor/main.go:57`)
reads an error for ever unless another process creates the group or it is
restarted, which nothing guarantees. `stream_safe` has that action.

Deadlock is checked for the stream. The other models stop when their bounds
are reached, so their configurations switch it off.

**Fairness.** `AccessApi!FairSpec` is weak fairness of each handler's own next
step: a goroutine that holds a request runs on, and every Redis call ends,
since go-redis calls have time-outs. Faults, arrivals and expiry are not fair.
`EventStream!FairSpec` is weak fairness of starting a consumer that is down
(it is a Deployment, whose pods are always restarted; docker compose, which
would not restart it, is for development),
of each running consumer's loop, of idle time passing for a message nobody
holds, and of the database coming back. Nothing is assumed of `Stop` or of the
faults, which are bounded by `MaxFaults`: a handler that kills its consumer
every time would never settle.
`Reporting!FairSpec` is weak fairness of org-sync's and of mv-refresher's next
step: both are loops around a ticker whose statements end, and neither stops
after a failure (`org-sync/main.go:99-111`, `mv-refresher/main.go:86-112`).
Requests, events, changes by hand and faults are not fair.

## Where the code and its documents differ

The four violations of the runs are findings in `PROJECT.json`; the others are
shown by the configurations named with them.

- *Stray exits* (`api_stray`). `CheckAntiPassback` lets a badge without a record
  leave, and any granted tier-1 exit clears `active_site`: IN at A, OUT at B,
  IN at B leaves the badge inside both. `TwoSitesNeedStrayExit` shows that,
  without faults, this is the only way.
- *Overlapping swipes* (`MCAccessApi_double.cfg`, `MCAccessApi_nesting.cfg`). The check (main.go:221,
  or :159 for the other tier) and the commit (:261) are separate calls: two
  entries may both be granted, and a badge may leave tier 1 while it enters
  tier 2. `Alternation`, `TierNesting` and `ImplementsTurnstile` therefore only
  hold with `Overlap = FALSE`.
- *The active site* (`MCAccessApi_order.cfg`, `MCAccessApi_lost.cfg`). It is written in a call of its own
  after the commit. When an entry and an exit overlap, the two writes may come
  in the other order; after a commit that was applied but reported as failed, or
  a write that failed (its error is dropped), it is not written at all. The badge
  then keeps a site it has left, and is refused at any other for 24 hours.
  What remains true is `ActiveSiteWasEntered`.
- *Dead letters* (`stream_dlqloss`). The message is acknowledged even if the
  XADD to `pacs:events:dead` failed.
- *Outages* (`MCEventStream_outage.cfg`). Three attempts half a second apart, then the dead
  letters: a database that is away for more than two seconds makes dead letters
  of well-formed events, which nothing reads back, although
  `docs/history/database-spec.md:61` says they wait in the stream.
- *Tumbling windows* (`anomaly_sliding`). The window does not slide; what does
  hold is `FourAreNoticed`.
- *Orphans* (`attendance_orphans`, and `MCAttendance_repeats.cfg`). An OUT without its IN
  leaves the counter of the view one lower for the rest of the badge's history,
  an IN without its OUT one higher: after OUT, the pair IN, OUT goes -1, 0, -1
  and is no visit; IN, and after the record has expired IN, OUT, goes 1, 2, 1 and
  the visit never ends. `StayIsTimeInside` shows that either kind alone only
  hides time. Both together may invent some: with IN, IN, OUT, OUT at one gate
  the counter stays above zero until the second OUT, long after the first.
- *Days without a swipe* (`MCAttendance_gap.cfg`). A day in the middle of a visit,
  without a swipe of its own, has no row in the view (the join at
  0106.up.sql:106), so its hours are missing. `StayIsTimeInside` shows that no
  other day is left out.
- *Trends without a scope* (`MCReporting_scope.cfg`). A trend whose scope lookup fails is
  answered for the whole company (`reporting-api/main.go:182`), while main.go:174
  and `docs/history/REPORT_JSON_SCHEMAS.md:232` say that the scope of a manager
  is limited. `ScopeWasHeld` shows that a failed lookup of that very request is
  the only way.
- *Cut-off reports* (`MCReporting_cut.cfg`). No query asks `rows.Err()`
  (`postgres.go:213` and the others): a connection that breaks while rows are
  read gives a cut-off report with status 200, where
  `REPORT_JSON_SCHEMAS.md:219` has 500. `TeamReportsAreExact` shows what holds of
  the others.

More that no run shows, because they follow from those or from a line:

- The detector measures its windows with its own clock: after a backlog,
  entries far apart look simultaneous. `AlertsAreBacked` is stated in that clock.
- A rule that fires empties its counter before the alert is stored
  (`anomaly-detector/main.go:182`): if the INSERT fails the alert is gone, which
  is logged. The properties of the detector speak of the rules that fire.
- The audit trail's default date is today's in the server's time zone, UTC
  (`reporting-api/main.go:123`), while its rows are filed under the date in
  Asia/Taipei: until 08:00 there the default is yesterday
  (`REPORT_JSON_SCHEMAS.md:311` says today).
- A limit above 500 gives 100 alerts (`postgres.go:344`), not the cap of 500 of
  `REPORT_JSON_SCHEMAS.md:372`.
- `avg_stay_hrs` of a trend is the average over the days of all badges, not
  "across badges" (`models.go:51`).
- org-sync never sets `is_active` to FALSE, although the comment at its
  lines 20-23 lists it as what a real one does; `PHASE2_CHANGES.md:723` admits it.
- The attempts at a message are counted per delivery, not per message as
  `stream.go:102-104` says; `RetriesHaveCauses` bounds what follows from it.

## Proofs

`tlapm` checks the theorems below for every value of the constants, that is for
any number of badges, handlers, consumers, events and faults and any bounds.
They state every invariant and every action property of the passing runs, and
the refinement; each run shows on a small instance what its theorems say of all
of them. Each module proves its invariant with one lemma per action (or per kind
of step), and combines them in the theorem. What is assumed beyond the
assumptions the models themselves state of their constants is given with the
theorem.

The assumptions of the models are what the code is run with: finitely many
handlers, replicas and consumers, retries and batches of at least one, days of
at least one tick, org paths that are non-empty sequences of labels, a list from
LDAP without repeated badges.

**Sums and induction** (`Totals_proofs`). Sums and sorted rows are data of any
size, and facts about them need induction. The library's induction theorems take
the predicate as an operator, which the provers cannot instantiate, so
`NumbersByInduction` and `SubsetsByInduction` take it as a set instead: a set of
numbers with 0 and all successors is `Nat`, a family of subsets of a finite set
with `{}` and every extension by one element has all of them. Both come from
minimal counterexamples. `TotalIsPile` then says that a sum of natural numbers
is the number of elements of a pile, a set with `g[x]` pairs for every `x`, so
that sums are compared by comparing sets: disjoint groups add up, an injection
bounds one by the other.

**The gate, whatever interleaves and fails** (`AccessApi_proofs`; no further
assumption).

| theorem | property | the argument |
|---|---|---|
| `TypeCorrect` | `TypeOK` | one lemma per operation on Redis, then one per action |
| `ApbAgreesWithStream` | `ApbMatchesStream` | inductive with `TypeOK`: only the commit records a direction, and it appends the granted event of that key in the same step |
| `GrantsMoveBadges` | `OnlyGrantsMoveBadges` | the actions that write `apb` are the commit, on time or late, and the loss of a key |
| `AnswersRecorded` | `AnswersAreRecorded` | `CommitsAreRecorded`: a handler past its write has its event in the stream, until it answers |
| `ActiveSitesWereEntered` | `ActiveSiteWasEntered` | `EntriesAreCommitted`: an update of `active_site` under way, late ones included, is of a granted entry in the stream |
| `TierTwoAfterTierOne` | `OuterGateFirst` | `OuterIsRecorded`: a tier-2 entry past the tier check has a granted tier-1 entry in the stream. The check reads `apb`, so `ApbMatchesStream` ties the two |
| `VerdictsAreUnique` | `OneVerdictPerSwipe` | `NumbersAreOwn`: no two handlers hold one swipe number; `VerdictsArePending`: a handler that may still write its verdict has none in the stream, other than a copy of a rejection |
| `CountersAgree` | `CountersMatchAnswers` | `CountersInv`: the answers given and the handlers that have counted but not answered yet (at `publish`, `setActive`) are, without a crash, together at most the sum of the replicas' counters; that of successes is at most the grants in the stream. A crash only lowers the sum |

**Anti-passback, when the swipes of a badge do not overlap**
(`AccessSerial_proofs`, under `~Overlap` and `"drop" \notin FaultKinds`: Redis
keeps its keys. All other faults may happen.)

| theorem | property | the argument |
|---|---|---|
| `DirectionsAlternate` | `Alternation` | `Alone` and `ApbCheckHolds`: what a handler read about its key is still true when it commits, because no other handler writes the keys of its badge (`OwnKeysStay`); `NothingForgotten`: a key with a granted swipe is not empty |
| `TiersNest` | `TierNesting` | `TierCheckHolds`, the same of the other tier's key |
| `ActiveSitesAreInside` | `ActiveSiteIsInside` | `ActiveOrLeaving`: a site on record is one the badge is inside or one whose exit is about to be cleared. Only under `FaultKinds \subseteq {"read", "repeat"}`: a lost update of `active_site` leaves an old site behind |

The assumption `~Overlap` is needed: `MCAccessApi_double.cfg`, `_nesting.cfg` and
`_order.cfg` are what happens without it. That the keys are kept is needed too, since an
expired key lets any direction through, and that no write fails is for
`ActiveSiteIsInside`, as `MCAccessApi_lost.cfg` shows.

**The gate as one step** (`AccessSerial_proofs`, same assumptions).
`HandlersImplementTurnstile` shows `Spec => Gate!Spec`: every step of the
handlers is a step of `Turnstile` or leaves its variables alone. The commit and
the rejection are the steps that map to a swipe (`GateStep`); for them `ChecksFit`
and `RejectionsHold` say that the verdict the handler reached by its reads is
the one `Turnstile` gives in the state of the write, and `NumbersInBound` that
there is one left to give.

**One site at a time** (`AccessSerial_proofs`, `~Overlap` and
`FaultKinds \subseteq {"read", "repeat"}`). `SitesAreExclusive` shows
`TwoSitesNeedStrayExit`: a badge gets inside two sites only after a stray exit.
The property says nothing of `active_site`, so the invariant has to:
`SitesTracked`, a badge without stray exits that is inside a site has that site
on record, or the update is what its handler does next; `EntryChecked`, the
cross-site check that let an entry pass still holds when it commits. `api_stray`
shows what happens with a stray exit.

**The stream** (`EventStream_proofs`; no further assumption, but for `NothingLost`).

- `TypeCorrect`: `TypeOK`. It needs that a non-empty set of naturals has a least
  element (`FirstIsMember`, from the well-foundedness of `<`) and that the
  unread messages are an interval (`UnreadIsInterval`).
- `NothingLost`: `"redis" \notin FaultKinds` implies `[]NoEventLost`.
  `NoEventLost` is not inductive: an acknowledgement takes a message off the
  pending list without looking at the table. `LossInv` adds `AckedIsSettled`, a
  consumer about to acknowledge holds a settled message, which is true because
  `ack` is only reached through an applied INSERT or a dead letter. The
  assumption is needed: `stream_dlqloss` is its counterexample.
- `DeadLettersRetried`: `DeadLettersWereRetried`. `AttemptsCounted` ties the
  counter of a consumer to its stage, and `DeadLettersPaid` says of each
  well-formed message that `MaxRetries` attempts for every dead letter and the
  attempts its present holders have made (`SpentOn`) are together at most its
  failures.
- `RetriesAreCaused`: `RetriesHaveCauses`. `WithinBudget` is an account for each
  message: its failures, the attempts its holders have left (`LeftFor`) and those
  of a delivery that may still begin (`FreeAttempts`: the message is unread, idle
  long enough to be claimed, or pending and nobody's) are at most `MaxRetries`
  for the first delivery and as many for every fault. A delivery only moves an attempt from one place to
  another; a kill, a claim from a slow consumer or a failed XACK puts
  `MaxRetries` back and is a fault.
- `HarmIsBounded`: `FaultsHarmOneEventEach`. The claims on a message are its
  records, the consumers that will still record it and a delivery that may still
  begin. `HarmInv` bounds by `faults` what exceeds one claim, over all messages
  together, and the messages without any that are, or are about to be,
  acknowledged. A consumer's step touches one message, except a kill, which
  frees a whole batch but adds no claim to any of it but the current one.

**The detector** (`AnomalyDetector_proofs`, no further assumption). A *series* is
what one rule judged about one badge or gate. `SeriesStep` shows that every step
leaves a series alone, restarts its counter (a crash) or counts one more event;
each theorem then needs an invariant of one series and its counter.

| theorem | property | the invariant of a series |
|---|---|---|
| `TypeCorrect` | `TypeOK` | – (the number of alerts needs that the table is finite) |
| `AlertsUseEventsOnce` | `EventsCountOnce` | `Balance`: three times the alerts and the counter together are at most the events |
| `AlertsCountDistinctEvents` | `AlertsAreOfDistinctEvents` | `RepeatsPaid`, of a rule: the judgements of an event one process had already judged, and the listed events it has judged and will judge again, are together at most the XACKs that failed. With `Begun` and `RunsOrdered` an alert's three judgements are of one process. Crashes do not count: what they bring back is judged by another process |
| `AlertsHaveThreeEvents` | `AlertsAreBacked` | `Begun`: a counter of `n` began with the `n`-th last event, in this process |
| `FourInARowAreNoticed` | `FourAreNoticed` | `Watched`: where the counter stands one, two and three events after any event, if none of them fired within the window (`Stands`); there is no fourth |
| `EventsAreJudged` | `EveryEventIsJudged` | `RulesPassed`, of the handler instead of a series: the rules it has passed have looked at its event |

**The attendance view** (`AttendanceView_proofs`, `Attendance_proofs`; for any
expired and evicted records, overlapping swipes and rows).

| theorem | property | the argument |
|---|---|---|
| `TypeCorrect` | `TypeOK` | `InOrder` enumerates its rows (`OrderIsComplete`: places are ranks; no two decisions have one time, `TimesDiffer`), so a row of the view has real days and a natural stay |
| `DaysHoldTheirStays` | `NoDayIsOverfull` | `VisitsAreApart`: the n-th start is before the n-th end and that before the (n+1)-th start, whatever the rows are, because starts and ends alternate (`StartsLead`). So `Stay` is the number of ticks of the day that some visit covers (`StayIsCovered`) |
| `StaysOnlyGrow` | `StayShrinksByLateRowsOnly` | `SnapshotInv`: the stays shown are those of the rows the last refresh read. Rows younger than all of them come last in the order (`NewRowsComeLast`), and events at the end only add visits (`StayGrows`) |
| `RepeatsAreADayApart` | `RepeatsNeedADay` | `LastIsOnRecord`: the last grant at a key that was never disturbed is the recorded direction, to be dropped a day after the grant, or that day is over. A repeated direction passes only in the second case |
| `StaysAreTimeInside` | `StayIsTimeInside` | see below |

`StayIsTimeInside` compares two computations that have nothing in common: 0106
numbers starts and ends of all gates of a badge and pairs them, the property
asks of every tick what the last grant at every key says. It does not rest on
the gate: which directions it grants in which order is left open, as expiry,
eviction and overlap do, and the badges that were let out where they were not
inside (`StrayExit`) or in where they were (`RepeatedEntry`) are named in the
property itself: without either the hours are the time inside, with one kind
they are at most that, with both nothing is said but `NoDayIsOverfull`.
`RepeatsNeedADay` says how the gate comes to the second kind. The proof has four
parts. `ViewSeesAll`: an up-to-date view has seen exactly the badge's grants, in
the order of the log. `WasInsideIsOpen` and `InsideIsOpen`: what the log says
before a decision, or at a tick, is what the view's events say of that key.
`CounterCountsKeys`, by induction on the number of events: the counter of 0106
is the number of keys whose last event is an entry, less the exits at keys that
were not open (`Odd`), plus the entries at keys that were (`Again`); so it is
positive while the badge is inside some gate if there is no stray exit, and only
then if no entry is repeated (`CounterShowsInside`, `CounterAndGate`).
`EndedIsInside`: without stray exits a counter that comes back to zero has seen
no repeated entry before, so that a visit that has ended was one.
`CoveredIsInside`: a tick is in a visit exactly if the counter is positive and
comes back to zero later. The sets of ticks are therefore equal, or one is
included in the other, and so are their sizes. That a day has a row exactly if
the badge passed a gate on it (`DaysAreSwiped`) follows from `ViewSeesAll`: the
days of the view are those of the rows the last refresh read.

**The reports** (`Reporting_proofs`, no further assumption).

- `TypeCorrect`: `TypeOK`.
- `ScopesAreHeld`: `ScopeWasHeld`. `Promised` carries the scope from the first
  query to the answer: a version of the directory since the request came in had
  the caller manage it, or manage nothing, unless the lookup of this request
  failed.
- `NothingMixed`: `NoMixedDirectory`. `VersionsAreWhole` says it of every
  committed version: the employees nobody edited by hand have either all the org
  path of the start or all that of the list. A view is a snapshot of one version.
- `SwipesAreAudited`: `ReportsAreAudited`. `SnapshotsArePast`: what a refresh
  saw, and what one under way sees, has been stored by now and is not of the
  future, so the events a row of the view counts are rows of the audit trail of
  that day.
- `TeamsAreExact`: `TeamReportsAreExact`. `Promised` again, for the answer's scope
  is a known one, and `RangeKept`: the handler runs its query with the dates that
  were asked for. The rest is about the queries: the join, the scope and the
  range leave the badges and days that `Due` names, and the totals per employee
  have one group for each badge.
- `ReadersAlwaysAgree`: `ReadersAgree`. For any view, directory, range and period
  the rows of a trend, of a report and of the totals are one set grouped by
  bucket, not at all, and by employee. `TotalsOfEmployees`: each badge of the
  report has one row of totals, with the number, the hours and the swipes of its
  days. `TrendHasBuckets` and `TrendAddsUp`: the buckets are those of the
  report's days, and by `Totals_proofs` the groups have the same sums of rows,
  hours and swipes; the heads of a trend's buckets lie between the badges of the
  report and its rows. What the property does not compare is the average hours
  of a bucket with anything but the sum they are made of.

Only model-checked: liveness under fairness, that is `EveryHandlerFinishes`
(`api_refine`), `EveryEventSettles` (`stream_live`), `ChangesReachReports` and
`SyncWins` (`team_reports`), which needs `ENABLED` and is out of the prover's
reach; and the violations, which are counterexamples.

## What is not modelled

- Formatting, logging, metrics export, CORS, health endpoints, start-up.
- JWT signing and parsing, password checks, the frontend, Kubernetes manifests
  (replica counts, restart policy and time-outs enter as constants and fairness).
- Triggers, grants and partitions of `access_events`: declarations; the models
  treat the table as append-only.
- The list of alerts (one SELECT with a limit) and the layout of the Excel
  export, whose rows are those of the attendance report.
- Redis losing its last second of writes in a crash of its own, and the whole
  stream being evicted when memory is full: nothing in the code reacts to
  either, and `AnswersAreRecorded` does not survive them.
- A handler that kills its process on every delivery: crashes are bounded.
- Attendance: a swipe that overlaps more than the last decision, or one more
  than a tick ago (handlers end within seconds).
- EventStream: an INSERT that a running database rejects (`stream.go:190-205`)
  is not a case of its own; it takes the message through the states of an outage.
- AnomalyDetector: malformed messages, which `handleMessage` dead-letters before
  the detector sees them (`stream.go:173-188`).
- Reporting: the 400 of an export for another format (`main.go:203-206`), the
  mean of `avg_stay_hrs` (`main.go:326`), and the lengths of calendar months and
  quarters: a bucket has a fixed number of days.
- The seed generator, an offline tool that writes demo data.

## Plan

Done: AccessApi with Turnstile, EventStream, AnomalyDetector, Attendance,
Reporting; the proofs listed above, which leave no safety property of a passing
run unproved. What would come next:

1. Redis crashing with the loss of unsynced writes, as an action of AccessApi
   and EventStream that cuts the stream and the keys back to one earlier point,
   and the weaker promises that survive it.
2. A fault of EventStream in which handling a message kills its consumer.
3. Proofs: what a longer history adds to a report. A bound on what one stray exit
   or repeated entry hides (how far `StayIsTimeInside` is from an equation then),
   and the weaker promises of item 1 once they are stated.
