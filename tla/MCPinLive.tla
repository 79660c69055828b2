------------------------------ MODULE MCPinLive ------------------------------
(***************************************************************************)
(* HeliaPinManager under its fairness: one caller pins two nested cids, or *)
(* two callers pin the smaller one beside each other.                      *)
(***************************************************************************)
EXTENDS MCHeliaPinManager

VARIABLE twice

Calm == IF twice THEN pins[r] = "NOTFOUND" /\ \A k \in Callers : caller[k].pin # r ELSE caller[k2] = NoCall

CalmSpec == Init /\ twice \in BOOLEAN /\ [][Next /\ UNCHANGED twice /\ Calm']_<<vars, twice>> /\ Fairness
=============================================================================
