--------------------------- MODULE SelectRevisions ---------------------------
(***************************************************************************)
(* packages/daemon/src/modules/revisions/select-revisions.ts: which of the *)
(* revisions of a file are kept, by their time stamps.  The "log" strategy *)
(* goes back in time in growing intervals and keeps the revision that is   *)
(* closest to each date.  The code has the intervals day, week, fortnight  *)
(* and month, three times each; an instance may scale them down.           *)
(***************************************************************************)
EXTENDS Integers, Sequences, FiniteSets

CONSTANTS
  Intervals,   \* lengths of the intervals, the first one being the day
  PerInterval  \* REVISIONS_PER_INTERVAL

RoundTo(ts, mod) == ts - (ts % mod)
Dist(a, b) == IF a < b THEN b - a ELSE a - b

IntervalOf(i) == Intervals[(i - 1) \div PerInterval + 1]

\* The target dates at a time: the start of the day, and PerInterval dates before it for each of the intervals.
Dates(now) ==
  LET date[i \in 0..Len(Intervals) * PerInterval] ==
        IF i = 0 THEN RoundTo(now, Intervals[1]) ELSE RoundTo(date[i - 1], IntervalOf(i)) - IntervalOf(i)
  IN date

\* Of two that are equally close the later one is kept: the reduce prefers the second.
Closest(ts, times) ==
  CHOOSE t \in times : \A u \in times : Dist(ts, t) < Dist(ts, u) \/ (Dist(ts, t) = Dist(ts, u) /\ u <= t)

\* Mutant: the dates end with the days.
SelectDays(times, now, strategy) ==
  IF times = {} THEN {} ELSE {Closest(Dates(now)[i], times) : i \in 0..PerInterval}

Select(times, now, strategy) ==
  CASE strategy = "none" -> {}
    [] strategy = "all" -> times
    [] strategy = "log" -> IF times = {} THEN {}
                              ELSE LET dates == Dates(now) IN {Closest(dates[i], times) : i \in DOMAIN dates}
=============================================================================
