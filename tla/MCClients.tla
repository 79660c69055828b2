------------------------------- MODULE MCClients -------------------------------
(***************************************************************************)
(* Clients, on small instances.  As in MCFollow, `which` is chosen at the  *)
(* start, and only that component moves.                                   *)
(***************************************************************************)
EXTENDS Clients

CONSTANTS a, b, h1, h2

VARIABLE which

rpcVars == vars
fuseVars == <<now, cur, revs, data, fresh, phase, got, shown, refused>>
brokerVars == <<map, calls>>
mcVars == <<which, rpcVars, fuseVars, brokerVars>>

\* Two clients of which one has two requests: the first requests of both have the number 1.
MCConns == {a, b}
MCRequests == {<<a, 1>>, <<a, 2>>, <<b, 1>>}
MCSignalOf == [r \in MCRequests |-> r]

\* A file in each of two directories; no path that is looked up is the beginning of the text of another one.
MCPaths == {<<"a", "x">>, <<"ab", "y">>}
MCDirectories == {<<>>, <<"a">>, <<"ab">>}
MCNamePrefix == {<<n, n>> : n \in {"a", "ab", "x", "y"}}
MCHandlers == {h1, h2}

\* A mount with --at.
Old == INSTANCE Fuse WITH At <- 2

ASSUME RpcAssumption == ConstantsOK /\ OwnSignals
ASSUME FuseAssumption == Mount!PlainNames
ASSUME BrokerAssumption == Broker!ConstantsOK
-----------------------------------------------------------------------------
MCInit ==
  /\ which \in {"calls", "alone", "mount", "old", "broker"}
  /\ Init /\ Mount!Init /\ Broker!Init

\* Two clients with a request each, or one client with two requests.
RpcNext ==
  /\ Next
  /\ which = "calls" => pending'[<<a, 2>>] = "none" /\ <<a, 2>> \notin fired'
  /\ which = "alone" => client'[b] = "new" /\ <<b, 1>> \notin fired'

MCNext ==
  \/ which \in {"calls", "alone"} /\ RpcNext /\ UNCHANGED <<which, fuseVars, brokerVars>>
  \/ which = "mount" /\ Mount!Next /\ UNCHANGED <<which, rpcVars, brokerVars>>
  \/ which = "old" /\ Old!Next /\ UNCHANGED <<which, rpcVars, brokerVars>>
  \/ which = "broker" /\ Broker!Next /\ UNCHANGED <<which, rpcVars, fuseVars>>

\* Fairness of Rpc, Fuse and ManualBlockBroker, while they are chosen.
MCFairSpec ==
  /\ MCInit /\ [][MCNext]_mcVars
  /\ \A c \in Conns :
       /\ WF_rpcVars(which \in {"calls", "alone"} /\ Receive(c)) /\ WF_rpcVars(which \in {"calls", "alone"} /\ Dispatch(c))
       /\ WF_rpcVars(which \in {"calls", "alone"} /\ Close(c))
       /\ WF_rpcVars(which \in {"calls", "alone"} /\ server[c] \in {"closed", "gone"} /\ Stop(c))
  /\ \A r \in Requests : WF_rpcVars(which \in {"calls", "alone"} /\ Return(r))
  /\ WF_fuseVars(which \in {"mount", "old"} /\ Mount!Expire)
  /\ \A h \in Handlers :
       /\ WF_fuseVars(which \in {"mount", "old"} /\ Mount!Query(h))
       /\ WF_fuseVars(which \in {"mount", "old"} /\ Mount!List(h))
       /\ WF_fuseVars(which = "mount" /\ Mount!Listed(h)) /\ WF_fuseVars(which = "old" /\ Old!Listed(h))
       /\ WF_fuseVars(which = "old" /\ Old!Filtered(h))
  /\ <>[][\A h \in Handlers : ~(which \in {"mount", "old"} /\ Mount!Fails(h))]_mcVars
  /\ \A c \in Timed : WF_brokerVars(which = "broker" /\ Broker!Abort(c))
-----------------------------------------------------------------------------
\* Stops of the server and of the client included: every request that a running client made is answered or rejected, and
\* a call of the broker that waits for a promise of an attempt that is limited in time ends with its block or an error.
CallsEnd ==
  /\ which \in {"calls", "alone"} => Settled
  /\ which = "broker" => Broker!Settles

\* Whatever was cached and whichever query overtook which: a mount shows, in the end, what the daemon has; a mount with
\* --at shows, again and again, a list without anything that is newer.
CatchesUp ==
  /\ which = "mount" => Mount!CatchesUp
  /\ which = "old" => Old!ShowsOld
=============================================================================
