---------------------------- MODULE AttendanceView ----------------------------
(***************************************************************************)
(* The materialized view mv_daily_attendance as a function of the rows of  *)
(* access_events (scripts/migrations/0106_mv_exclude_future.up.sql), one   *)
(* operator per common table expression.  Durations are in ticks, a day    *)
(* has DayLength of them and begins TimeZone ticks early, in Asia/Taipei.  *)
(*                                                                         *)
(* The arguments: events is a sequence of the granted events of one badge  *)
(* in the order of their times, each [time, direction].                    *)
(***************************************************************************)
EXTENDS Totals, Sequences, FiniteSetsExt

CONSTANTS DayLength, TimeZone

ASSUME DayAssumption == DayLength \in Nat \ {0} /\ TimeZone \in 0..(DayLength - 1)

-----------------------------------------------------------------------------
\* ORDER BY: the members of S in the order of their keys, pairs of numbers of
\* which no two are the same.
Precedes(p, q) == p[1] < q[1] \/ (p[1] = q[1] /\ p[2] < q[2])

InOrder(S, key) ==
  LET rank(i) == Cardinality({j \in S : ~Precedes(key[i], key[j])})
  IN  [n \in 1..Cardinality(S) |-> CHOOSE i \in S : rank(i) = n]

-----------------------------------------------------------------------------
\* event_date: (event_time AT TIME ZONE 'Asia/Taipei')::date.
DayOf(t) == (t + TimeZone) \div DayLength

DayStart(d) == d * DayLength - TimeZone

\* events_with_counter: how many gates deep the badge is after event i.
InsideAfter(events, i) ==
  Cardinality({j \in 1..i : events[j].direction = "IN"})
    - Cardinality({j \in 1..i : events[j].direction = "OUT"})

Starts(events) ==
  {i \in DOMAIN events : events[i].direction = "IN" /\ InsideAfter(events, i) = 1}

\* Mutant: every exit ends a visit.
Ends_AnyExit(events) == {i \in DOMAIN events : events[i].direction = "OUT"}

Ends(events) ==
  {i \in DOMAIN events : events[i].direction = "OUT" /\ InsideAfter(events, i) = 0}

\* Mutant: the rows are numbered from the last one.
RowNumber_Desc(S, i) == Cardinality({j \in S : j >= i})

\* ROW_NUMBER of i among the rows S.
RowNumber(S, i) == Cardinality({j \in S : j <= i})

\* visits: the n-th start is joined with the n-th end.
Visits(events) ==
  {v \in Starts(events) \X Ends(events) :
     RowNumber(Starts(events), v[1]) = RowNumber(Ends(events), v[2])}

\* sliced: the part of visit v that falls on day d.
Later(s, t) == IF s > t THEN s ELSE t
Earlier(s, t) == IF s < t THEN s ELSE t

\* Mutants: empty slices are not dropped; the day boundary is that of UTC; a
\* visit is not cut at midnight.
Slice_Negative(events, v, d) ==
  Earlier(events[v[2]].time, DayStart(d + 1)) - Later(events[v[1]].time, DayStart(d))

Slice_UTC(events, v, d) ==
  Later(0, Earlier(events[v[2]].time, (d + 1) * DayLength)
             - Later(events[v[1]].time, d * DayLength))

Slice_NotCut(events, v, d) ==
  IF events[v[1]].time < DayStart(d + 1) /\ events[v[2]].time > DayStart(d)
    THEN events[v[2]].time - events[v[1]].time ELSE 0

Slice(events, v, d) ==
  Later(0, Earlier(events[v[2]].time, DayStart(d + 1))
             - Later(events[v[1]].time, DayStart(d)))

\* stay_per_day.
Stay(events, d) == Total([v \in Visits(events) |-> Slice(events, v, d)])

\* per_day_summary and the final join: a day has a row only if an event falls
\* on it; 0 stands for a first_in or last_out that is NULL.
TimesOn(events, d, direction) ==
  {events[i].time : i \in {j \in DOMAIN events : DayOf(events[j].time) = d
                                                 /\ events[j].direction = direction}}

DaysWithEvents(events) == {DayOf(events[i].time) : i \in DOMAIN events}

DailyRow(events, d) ==
  LET ins  == TimesOn(events, d, "IN")
      outs == TimesOn(events, d, "OUT")
  IN  [first_in    |-> IF ins = {} THEN 0 ELSE Min(ins),
       last_out    |-> IF outs = {} THEN 0 ELSE Max(outs),
       swipe_count |-> Cardinality({i \in DOMAIN events : DayOf(events[i].time) = d}),
       stay        |-> Stay(events, d)]

DailyAttendance(events) == [d \in DaysWithEvents(events) |-> DailyRow(events, d)]
=============================================================================
