------------------------------ MODULE Retention ------------------------------
(***************************************************************************)
(* What becomes of the revisions of one file under the "log" strategy when *)
(* it is written and pruned again and again: every write adds a revision   *)
(* and selects among those that earlier selections have left               *)
(* (modules/revisions/setup.ts).                                           *)
(***************************************************************************)
EXTENDS SelectRevisions

CONSTANTS
  Start,     \* the time of the first write
  End,       \* time stops here
  MaxPause   \* the longest time between two writes

\* Each interval holds a whole number of the one before it, and one is written at least once in the first.
IntervalsOK ==
  /\ Intervals \in Seq(Nat \ {0}) /\ Intervals # <<>> /\ PerInterval \in Nat \ {0}
  /\ \A j \in 2..Len(Intervals) : \E k \in 1..Intervals[j] : Intervals[j] = k * Intervals[j - 1]
  /\ End \in Nat /\ Start \in 0..End /\ MaxPause \in 0..Intervals[1]

VARIABLES now, revs

retentionVars == <<now, revs>>

Init == now = Start /\ revs = {Start}

\* A write after a pause, and its handler.
Write(pause) ==
  /\ now + pause <= End
  /\ now' = now + pause
  /\ revs' = Select(revs \cup {now'}, now', "log")

Next == \E pause \in 1..MaxPause : Write(pause)

Spec == Init /\ [][Next]_retentionVars
-----------------------------------------------------------------------------
TypeOK == now \in Start..End /\ revs \subseteq Start..now /\ revs # {}

\* A file that is written every day keeps its history: however the writes fall, for every date between the first
\* write and now there is a revision that is closer to it than the interval that ends there.
Reaches ==
  \A i \in DOMAIN Dates(now) \ {0} :
    Dates(now)[i] >= Start => \E r \in revs : Dist(r, Dates(now)[i]) < IntervalOf(i)
=============================================================================
