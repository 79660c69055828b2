-------------------------- MODULE ManualBlockBroker --------------------------
(***************************************************************************)
(* packages/manual-block-broker: blocks that a person provides.  Helia     *)
(* calls retrieve with a signal that fires when the race of the brokers is *)
(* over, also after the answer, and when the attempt is given up; only     *)
(* some of the attempts (those of the Downloader) are limited in time.     *)
(*   map    cid -> the call whose promise is in `promises`, or None        *)
(*   calls  [pc, cid, of, aborted]: what a call of retrieve waits for, the *)
(*          promise that call `of` made, and whether its signal has fired  *)
(***************************************************************************)
EXTENDS Naturals

CONSTANTS
  Calls, Cids, None,
  Timed   \* calls whose attempt is limited in time

ConstantsOK == None \notin Calls /\ Cids # {}

VARIABLES map, calls

brokerVars == <<map, calls>>

Init ==
  /\ map = [cid \in Cids |-> None]
  /\ calls = [c \in Calls |-> [pc |-> "idle", cid |-> CHOOSE x \in Cids : TRUE, of |-> None, aborted |-> FALSE]]

\* Every call that waits for the promise of `of` ends as pc.
Settle(of, pc, cs) ==
  [c \in Calls |-> IF cs[c].pc = "waiting" /\ cs[c].of = of THEN [cs[c] EXCEPT !.pc = pc] ELSE cs[c]]

\* A call for a block that is wanted already shares its promise; its own signal is not listened to.
Retrieve(c, cid) ==
  /\ calls[c].pc = "idle"
  /\ map' = [map EXCEPT ![cid] = IF @ = None THEN c ELSE @]
  /\ calls' = [calls EXCEPT ![c] = [@ EXCEPT !.pc = "waiting", !.cid = cid, !.of = map'[cid]]]

Abort(c) ==
  /\ calls[c].pc # "idle" /\ ~calls[c].aborted
  /\ LET fired == [calls EXCEPT ![c].aborted = TRUE]
     IN IF calls[c].of = c
        THEN map' = [map EXCEPT ![calls[c].cid] = None] /\ calls' = Settle(c, "rejected", fired)
        ELSE calls' = fired /\ UNCHANGED map

\* Mutant: the entry stays.
ProvideKeeps(cid) ==
  /\ map[cid] # None
  /\ calls' = Settle(map[cid], "resolved", calls)
  /\ UNCHANGED map

Provide(cid) ==
  /\ map[cid] # None
  /\ calls' = Settle(map[cid], "resolved", calls)
  /\ map' = [map EXCEPT ![cid] = None]

Wants == {cid \in Cids : map[cid] # None}

Next ==
  \/ \E c \in Calls : Abort(c) \/ \E cid \in Cids : Retrieve(c, cid)
  \/ \E cid \in Cids : Provide(cid)

Spec == Init /\ [][Next]_brokerVars

\* The attempts that are limited in time are over at some time.
Fairness == \A c \in Timed : WF_brokerVars(Abort(c))
FairSpec == Spec /\ Fairness
-----------------------------------------------------------------------------
\* What is listed as wanted is wanted: its promise has a call that waits for it.
WantsAreWaitedFor == \A cid \in Wants : calls[map[cid]].pc = "waiting" /\ calls[map[cid]].cid = cid

\* Joined calls do not listen to their signals; but a call, with a limit of its own or without, that joined one that is
\* limited in time is answered or rejected in the end.
Settles == \A c \in Calls : calls[c].pc = "waiting" /\ calls[c].of \in Timed ~> calls[c].pc \in {"resolved", "rejected"}

\* manual-block-broker/test, "getWants returns the CID when it is requested", until its signal fires.
WaitingIsWanted == \A c \in Calls : calls[c].pc = "waiting" /\ ~calls[c].aborted => calls[c].cid \in Wants

\* manual-block-broker/test, "retrieve throws when aborted".
AbortedThrows == \A c \in Calls : calls[c].aborted => calls[c].pc # "waiting"
=============================================================================
