------------------------------- MODULE MCExchange -------------------------------
(***************************************************************************)
(* What daemons give each other: PeerSync (heads of databases) and         *)
(* Sneakernet (blocks, on a drive).  They share no state, so that no       *)
(* interleaving of the two shows more than each does: `which` is chosen at *)
(* the start, and only that component moves.                               *)
(***************************************************************************)
EXTENDS Naturals, Sequences

CONSTANTS me, p1, p2, d1, d2, None, Ended

VARIABLES which,
  held, call, todo, databases, rounds,                       \* PeerSync
  has, trying, known, drive, visit, cmd, flush, crashes      \* Sneakernet

peerVars == <<held, call, todo, databases, rounds>>
driveVars == <<has, trying, known, drive, visit, cmd, flush, crashes>>
vars == <<which, peerVars, driveVars>>

Sync == INSTANCE PeerSync WITH
  Me <- me, Peers <- <<p1, p2>>, Databases <- {d1, d2}, Heads <- {1, 2}, Rounds <- 2, Unasked <- None,
  Calls <- {1, 2}

\* Each of two daemons needs the block that the other one has.
Drive == INSTANCE Sneakernet WITH
  Peers <- {0, 1}, Blocks <- {0, 1}, Needs <- [x \in {0, 1} |-> {1 - x}], Held <- [x \in {0, 1} |-> {x}],
  Tour <- [x \in {0, 1} |-> 1 - x], Named <- {{0, 1}}, MaxCrashes <- 1, Nothing <- None
-----------------------------------------------------------------------------
Init ==
  /\ which \in {"sync", "drive"}
  /\ Sync!Init /\ Drive!Init

Next ==
  \/ which = "sync" /\ Sync!Next /\ UNCHANGED <<which, driveVars>>
  \/ which = "drive" /\ Drive!Next /\ UNCHANGED <<which, peerVars>>

FairSpec ==
  /\ Init /\ [][Next]_vars
  /\ \/ which = "sync" /\ Sync!Fairness
     \/ which = "drive" /\ Drive!Fairness
-----------------------------------------------------------------------------
\* cli sync, while the network drops heads and fails: every call ends, and what the first peer has arrives in every
\* database.
FirstArrives == which = "sync" => Sync!CallEnds /\ Sync!FirstArrives

\* Sneakernet, through crashes, a full drive and attempts that time out: a block that is needed and that another daemon
\* holds arrives.
Arrives == which = "drive" => []Drive!TypeOK /\ Drive!Arrives
=============================================================================
