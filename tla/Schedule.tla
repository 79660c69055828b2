-------------------------------- MODULE Schedule --------------------------------
(***************************************************************************)
(* daemon/modules/scheduler: the schedule of a group, which is in the      *)
(* group's database, a map from keys to entries that all its daemons       *)
(* write.                                                                  *)
(*   db     key -> the entry, 0 where there is none                        *)
(*   added  daemon -> the entries that its put-schedule has returned for   *)
(* Entries are numbered in the order they are made.  A key is <<identity,  *)
(* write, sequence>>; that the daemons copy the database from each other   *)
(* is left out, for no two of them write the same key.                     *)
(***************************************************************************)
EXTENDS Naturals, FiniteSets

CONSTANTS Daemons, MaxEntry

VARIABLES db, added

vars == <<db, added>>

\* The clock is later than the zero that a Schedule begins with: the sequence grows and write stays.
MakeKey(d, schedule) == <<d, schedule.write, schedule.sequence + 1>>

\* getSchedule makes a Schedule for every call.
GetSchedule == [write |-> 0, sequence |-> 0]

Keys == {MakeKey(d, GetSchedule) : d \in Daemons}
Made == UNION {added[d] : d \in Daemons}

Init == db = [k \in Keys |-> 0] /\ added = [d \in Daemons |-> {}]

\* put-schedule.
Put(d) ==
  LET e == Cardinality(Made) + 1
  IN /\ e <= MaxEntry
     /\ db' = [db EXCEPT ![MakeKey(d, GetSchedule)] = e]
     /\ added' = [added EXCEPT ![d] = @ \cup {e}]

Next == \E d \in Daemons : Put(d)

Spec == Init /\ [][Next]_vars

\* get-schedule: whatever from, to and types say.
Listed == {db[k] : k \in Keys} \ {0}
-----------------------------------------------------------------------------
\* cli/src/commands/put-schedule.ts:5, "Add an item to the groups schedule.": what was added is in the schedule.
AddedIsListed == Made \subseteq Listed
=============================================================================
