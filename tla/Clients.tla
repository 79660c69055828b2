-------------------------------- MODULE Clients --------------------------------
(***************************************************************************)
(* What clients see of a daemon: the calls of Rpc, the directory that Fuse *)
(* mounts, and the blocks that ManualBlockBroker asks a person for.  The   *)
(* three share no state.  Rpc has its own names here, the other two are    *)
(* instances.                                                              *)
(***************************************************************************)
EXTENDS Rpc

CONSTANTS Handlers, Paths, Directories, NamePrefix, At, Null, Undefined, NoList, Thrown, Failed, MaxTime

VARIABLES now, cur, revs, data, fresh, phase, got, shown, refused

Mount == INSTANCE Fuse

CONSTANTS Calls, Cids, Timed

VARIABLES map, calls

Broker == INSTANCE ManualBlockBroker
-----------------------------------------------------------------------------
\* rpc-abort, closed sockets and stops of the server: a method is aborted when the signal of its request has fired and
\* the abort has travelled, or its connection is closed, and no method of another request is.
MethodsAborted == TypeOK /\ AbortedByOwn /\ DisconnectCancels /\ SignalCancels

\* What a directory of the mount lists is found there, and is what the directory says it is.
ListedIsFound == Mount!ListedIsFound

\* What getWants lists has a call that waits for it, whatever was joined, provided or aborted.
WantsAreWaitedFor == Broker!WantsAreWaitedFor
=============================================================================
