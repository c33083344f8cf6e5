--------------------------- MODULE MCUsageQueries ---------------------------
(***************************************************************************)
(* Instances of UsageQueries for TLC: facts around the start and the end   *)
(* of March, with and without a dimension and of two applications, and     *)
(* queries of every granularity and aggregation over them.                 *)
(***************************************************************************)
EXTENDS UsageQueries

March1 == 59 * 48
April1 == 90 * 48

Plain == {}
Region == {"region=cn"}
MCDimensionsText == <<Region, Plain>>

Used(id, app, dims, quantity, at) ==
    [id |-> id, tenant |-> "t1", app |-> app, code |-> "calls", dims |-> dims,
     quantity |-> quantity, at |-> at]

\* One fact before March, two of one group at its start, the later of which is
\* the smaller one, one with a dimension an hour later, one in its last half hour,
\* and one of another application.
MCFacts ==
    { Used(1, "a1", Plain, 5, March1 - 1),
      Used(2, "a1", Plain, 2, March1),
      Used(3, "a1", Plain, -1, March1),
      Used(4, "a1", Region, 2, March1 + 2),
      Used(5, "a1", Plain, 1, April1 - 1),
      Used(6, "a2", Plain, 7, March1) }

Ask ==
    [who |-> "service", tenant |-> "t1", app |-> "a1", code |-> "calls",
     padded |-> FALSE, from |-> March1 - 48, to |-> April1, filter |-> {},
     granularity |-> "hour", page |-> 0, size |-> 1]

\* Queries that are answered, ...
Answered ==
    { Ask,
      [Ask EXCEPT !.granularity = "day", !.size = 2, !.who = "t1"],
      [Ask EXCEPT !.granularity = "month"],
      [Ask EXCEPT !.granularity = "month", !.size = 0, !.from = March1],
      [Ask EXCEPT !.filter = Region, !.page = 1],
      [Ask EXCEPT !.page = 2, !.size = 2],
      [Ask EXCEPT !.padded = TRUE] }

\* ... and queries that are refused.
Refusable ==
    { [Ask EXCEPT !.size = 101],
      [Ask EXCEPT !.to = March1 - 48],
      [Ask EXCEPT !.from = 0, !.to = 367 * 48],
      [Ask EXCEPT !.tenant = ""], [Ask EXCEPT !.app = ""], [Ask EXCEPT !.code = ""],
      [Ask EXCEPT !.who = "nobody"],
      [Ask EXCEPT !.who = "t2"],
      [Ask EXCEPT !.app = "a2"],
      [Ask EXCEPT !.code = "unknown"],
      [Ask EXCEPT !.granularity = "week"] }

MCQueries == Answered \cup Refusable
Monthly == {[Ask EXCEPT !.granularity = "month"]}

MCGranted == {[tenant |-> "t1", app |-> "a1"], [tenant |-> "t2", app |-> "a1"]}

\* A process in UTC, as in the image built by the Dockerfile.
UTC == -16

\* The walk has ended and everything is committed: nothing is stuck.
WalkEnded == wpc = "done" /\ facts = Facts /\ UNCHANGED queryVars

MCSpec == QueryInit /\ [][QueryNext \/ WalkEnded]_queryVars
=============================================================================
