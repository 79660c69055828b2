----------------------------- MODULE AtLeastOnce -----------------------------
(***************************************************************************)
(* What the queue of upload operations promises its callers, whatever      *)
(* happens to the daemon: an accepted operation is performed, one at a     *)
(* time and from its beginning, until one performance has run to its end;  *)
(* only then is it finished, and a finished operation is never performed   *)
(* again.                                                                  *)
(***************************************************************************)

CONSTANTS Ops, Nothing

VARIABLES
  pending,   \* accepted and not finished
  finished,
  current    \* the last performance: which operation, and how far it came

abstractVars == <<pending, finished, current>>

AbstractInit == pending = {} /\ finished = {} /\ current = [op |-> Nothing, whole |-> TRUE]

Accept(o) ==
  /\ o \notin pending \cup finished
  /\ pending' = pending \cup {o}
  /\ UNCHANGED <<finished, current>>

Begin(o) ==
  /\ o \in pending
  /\ current' = [op |-> o, whole |-> FALSE]
  /\ UNCHANGED <<pending, finished>>

RunToEnd ==
  /\ ~current.whole
  /\ current' = [current EXCEPT !.whole = TRUE]
  /\ UNCHANGED <<pending, finished>>

Finish(o) ==
  /\ o \in pending
  /\ current = [op |-> o, whole |-> TRUE]
  /\ pending' = pending \ {o}
  /\ finished' = finished \cup {o}
  /\ UNCHANGED current

AbstractNext == (\E o \in Ops : Accept(o) \/ Begin(o) \/ Finish(o)) \/ RunToEnd

Serial == AbstractInit /\ [][AbstractNext]_abstractVars
=============================================================================
