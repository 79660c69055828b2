-------------------------------- MODULE MCFollow --------------------------------
(***************************************************************************)
(* Follow and OperationManager, on small instances: how a daemon follows   *)
(* what its groups hold, and the queue that what changes a group goes      *)
(* through.  They share no state, so that no interleaving of two of them   *)
(* shows more than each does: `which` is chosen at the start, only that    *)
(* component moves, and the properties and the fairness are those of that  *)
(* component.                                                              *)
(***************************************************************************)
EXTENDS Follow, OperationManager

CONSTANTS a, b, p1, p2

VARIABLE which

syncVars == vars
downloadVars == <<list, left, loop, listPass, tasks, running, stray, closing, paused, stopped>>
mcVars == <<which, syncVars, downloadVars, queueVars>>

\* sync-groups has the constants of the cfg; this is sync-revisions, with stops of the tick instead of edits.
Revisions == INSTANCE GroupSync WITH ReadsLatest <- FALSE, Allowed <- {"delete", "crash", "stop"}

\* Pin p1 is listed first, its root 1 links to 2 and 3; p2 has the root 4, which links to 2 and 5.  Nobody has block 2:
\* p1, which tries one block at a time, never comes to 3, and p2, which tries two, has to come to 5.
MCHeads == 1..5
MCAvailable == {1, 3, 4, 5}
MCLinks == [h \in MCHeads |-> IF h = 1 THEN {2, 3} ELSE IF h = 4 THEN {2, 5} ELSE {}]
MCRootOf == [x \in {p1, p2} |-> IF x = p1 THEN 1 ELSE 4]
MCPosition == [x \in {p1, p2} |-> IF x = p1 THEN 1 ELSE 2]
MCPriority == [x \in {p1, p2} |-> IF x = p1 THEN 100 ELSE 50]

ASSUME FollowAssumption == ConstantsOK /\ Revisions!ConstantsOK /\ Download!ConstantsOK /\ QueueOK
-----------------------------------------------------------------------------
MCInit ==
  /\ which \in {"groups", "revisions", "download", "operations"}
  /\ Init /\ Download!Init /\ QueueInit

\* Every operation was asked for, and is finished or has thrown; nothing else comes.
Rest == asked = Ops /\ phase = "up" /\ job = NoJob /\ queue = <<>> /\ writing = {} /\ UNCHANGED mcVars

MCNext ==
  \/ /\ \/ which = "groups" /\ Next
        \/ which = "revisions" /\ Revisions!Next
     /\ UNCHANGED <<which, downloadVars, queueVars>>
  \/ which = "download" /\ Download!Next /\ UNCHANGED <<which, syncVars, queueVars>>
  \/ which = "operations" /\ QueueNext /\ UNCHANGED <<which, syncVars, downloadVars>>
  \/ which = "operations" /\ Rest

\* Fairness of GroupSync, Downloader and OperationManager, while they are chosen.
MCFairSpec ==
  /\ MCInit /\ [][MCNext]_mcVars
  /\ WF_syncVars(which = "groups" /\ Sync) /\ WF_syncVars(which = "groups" /\ (EditRemove \/ EditPut))
  /\ WF_queueVars(which = "operations" /\ Start) /\ WF_queueVars(which = "operations" /\ Work)
  /\ WF_queueVars(which = "operations" /\ \E row \in writing : Stored(row))
  /\ WF_downloadVars(which = "download" /\ (Download!NextPass \/ \E p \in {p1, p2} : Download!Draw(p)))
  /\ WF_downloadVars(which = "download" /\ Download!DrawFails)
  /\ WF_downloadVars(which = "download" /\ \E h \in Heads : Download!StartTask(h))
  /\ WF_downloadVars(which = "download" /\ Download!Drained) /\ WF_downloadVars(which = "download" /\ Download!Again)
  /\ WF_downloadVars(which = "download" /\ Download!Resume)
  /\ WF_downloadVars(which = "download" /\ Download!StartLoop)
  /\ \A h \in Heads : /\ WF_downloadVars(which = "download" /\ Download!Arrive(h))
                     /\ WF_downloadVars(which = "download" /\ Download!Fail(h))
                     /\ WF_downloadVars(which = "download" /\ Download!FailStray(h))
  /\ <>[][/\ which = "download" => Download!Calm
          /\ which = "operations" => ~Throws]_mcVars
-----------------------------------------------------------------------------
\* sync-groups, through deletions, errors and crashes: in the end what the group holds is pinned, but for the path of an
\* edit that met the pass and for a deletion after which the path had come back.
ChangesFollow == which = "groups" => OthersFollow

\* Downloader, with a block that nobody has, pauses, stops and removals: every block that a peer has and that a pin of
\* the list needs is downloaded.
Completes == which = "download" => Download!Completes
=============================================================================
