----------------------------- MODULE MCReporting -----------------------------
EXTENDS ReportingProps

Fab == <<"Fab12">>
Mfg == <<"Fab12", "mfg">>
QA  == <<"Fab12", "qa">>

Paths == {Fab, Mfg, QA}

Employee(org, level) == [org |-> org, job_level |-> level, is_active |-> TRUE]

\* The boss is promoted and ann, who is already swiping, gets her row.
Before == [boss |-> Employee(Mfg, "MANAGER_L2")]

After == <<[badge |-> "boss", org |-> Fab, job_level |-> "MANAGER_L1"],
           [badge |-> "ann", org |-> QA, job_level |-> "STAFF"]>>

ByHand == {<<"boss", [Before["boss"] EXCEPT !.is_active = FALSE]>>}

Entry(b, t) == [badge |-> b, direction |-> "IN", status |-> "SUCCESS", time |-> t]

\* The second row is of the future when it is stored early.
Stored == <<Entry("ann", 1), Entry("boss", 2)>>

Always == [date |-> NoDate, start |-> NoDate, end |-> NoDate]
Until(d) == [date |-> d, start |-> 0, end |-> d]

Req(kind, as, dates, period) == [kind |-> kind, as |-> as, dates |-> dates, period |-> period]

SomeRequests ==
  {Req("team", "boss", Until(1), 1), Req("team", "", Always, 1),
   Req("trend", "boss", Until(1), 1), Req("teamAggregated", "boss", Always, 1)}

-----------------------------------------------------------------------------
\* Shifts over two and three days, and trends of them.
Pass(b, direction, t) == [badge |-> b, direction |-> direction, status |-> "SUCCESS", time |-> t]

Shifts ==
  <<Pass("ann", "IN", 1), Pass("boss", "IN", 2), Pass("ann", "OUT", 3), Pass("boss", "OUT", 4)>>

Nobody == {}

Trends ==
  {Req("trend", "boss", Until(1), 1), Req("trend", "boss", Always, 2),
   Req("trend", "", [Always EXCEPT !.start = 1], 2), Req("trend", "ann", Until(2), 3)}
=============================================================================
