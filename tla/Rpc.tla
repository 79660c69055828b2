---------------------------------- MODULE Rpc ----------------------------------
(***************************************************************************)
(* packages/rpc: JSON-RPC over a socket, with an "rpc-abort" notification  *)
(* when the signal of a request fires.                                     *)
(*   client    connection -> "new", "open", "stopped" (RPCClient)          *)
(*   server    connection -> "none", "open", "closed", "gone"              *)
(*             (handleClient: "closed" until its finally has run)          *)
(*   id, ids   the number genId gave a connection, and the next one        *)
(*   clients   number -> the connection in RPCServer.clients, or None      *)
(*   sent, back   the two directions of the socket                         *)
(*   pending   request -> "none", "pending", "answered", "rejected"        *)
(*   method    request -> "none", "running", "ended"                       *)
(*   aborted   requests whose controller has been aborted                  *)
(*   onabort   signal -> the request that set its handler last             *)
(*   fired     signals that have fired                                     *)
(* A request is <<connection, number>>: every client numbers from 1.  The  *)
(* transport is FIFO; a destroyed socket loses what is in it.              *)
(***************************************************************************)
EXTENDS Naturals, Sequences, FiniteSets

CONSTANTS
  Conns,
  Requests,     \* <<connection, number>>
  SignalOf,     \* request -> its signal
  Modulus,      \* of genId, 65536 in the code
  None

\* No number of genId is given twice.
ConstantsOK ==
  /\ Requests \subseteq Conns \X Nat /\ None \notin Conns \cup Requests
  /\ Modulus \in Nat \ {0} /\ IsFiniteSet(Conns) /\ Cardinality(Conns) <= Modulus

\* Every request has a signal of its own.
OwnSignals == \A r, q \in Requests : SignalOf[r] = SignalOf[q] => r = q

VARIABLES client, server, id, ids, clients, sent, back, pending, method, aborted, onabort, fired

vars == <<client, server, id, ids, clients, sent, back, pending, method, aborted, onabort, fired>>
clientVars == <<client, pending, onabort, fired>>
serverVars == <<server, id, ids, clients, method, aborted>>

Signals == {SignalOf[r] : r \in Requests}
Waiting == {r \in DOMAIN pending : pending[r] = "pending"}
Running(c) == {r \in Requests : r[1] = c /\ method[r] = "running"}

Init ==
  /\ client = [c \in Conns |-> "new"] /\ server = [c \in Conns |-> "none"]
  /\ id = [c \in Conns |-> 0] /\ ids = 0 /\ clients = [i \in 0..Modulus - 1 |-> None]
  /\ sent = [c \in Conns |-> <<>>] /\ back = [c \in Conns |-> <<>>]
  /\ pending = [r \in Requests |-> "none"] /\ method = [r \in Requests |-> "none"] /\ aborted = {}
  /\ onabort = [s \in Signals |-> None] /\ fired = {}

\* createRPCClient, accepted by the server.
Connect(c) ==
  /\ client[c] = "new"
  /\ client' = [client EXCEPT ![c] = "open"] /\ server' = [server EXCEPT ![c] = "open"]
  /\ id' = [id EXCEPT ![c] = ids % Modulus] /\ ids' = ids + 1
  /\ clients' = [clients EXCEPT ![id'[c]] = c]
  /\ UNCHANGED <<sent, back, pending, method, aborted, onabort, fired>>
-----------------------------------------------------------------------------
(* The client. *)

\* Callers pass signals that have not fired: those that have would never be noticed.  The stream of a client that has
\* stopped takes nothing: the request stays pending.
Request(r) ==
  /\ client[r[1]] # "new" /\ pending[r] = "none" /\ SignalOf[r] \notin fired
  /\ pending' = [pending EXCEPT ![r] = "pending"]
  /\ sent' = IF client[r[1]] = "open"
             THEN [sent EXCEPT ![r[1]] = Append(@, [kind |-> "request", of |-> r])] ELSE sent
  /\ onabort' = [onabort EXCEPT ![SignalOf[r]] = r]
  /\ UNCHANGED <<client, serverVars, back, fired>>

Fire(s) ==
  /\ s \notin fired /\ fired' = fired \cup {s}
  /\ sent' = IF onabort[s] # None /\ client[onabort[s][1]] = "open"
             THEN [sent EXCEPT ![onabort[s][1]] = Append(@, [kind |-> "abort", of |-> onabort[s]])] ELSE sent
  /\ UNCHANGED <<client, serverVars, back, pending, onabort>>

Receive(c) ==
  /\ client[c] = "open" /\ back[c] # <<>>
  /\ pending' = [pending EXCEPT ![Head(back[c])] = "answered"]
  /\ back' = [back EXCEPT ![c] = Tail(@)]
  /\ UNCHANGED <<client, serverVars, sent, onabort, fired>>

\* Mutant: pending requests are left alone.
StopQuietly(c) ==
  /\ client[c] = "open"
  /\ client' = [client EXCEPT ![c] = "stopped"]
  /\ UNCHANGED <<serverVars, sent, back, pending, onabort, fired>>

\* stop is called, or the receiving loop has ended with the socket.
Stop(c) ==
  /\ client[c] = "open"
  /\ client' = [client EXCEPT ![c] = "stopped"]
  /\ pending' = [r \in Requests |-> IF r[1] = c /\ pending[r] = "pending" THEN "rejected" ELSE pending[r]]
  /\ UNCHANGED <<serverVars, sent, back, onabort, fired>>
-----------------------------------------------------------------------------
(* The server. *)

\* Mutant: the id of the request is looked for in all clients.
DispatchAny(c) ==
  /\ server[c] = "open" /\ sent[c] # <<>>
  /\ LET m == Head(sent[c])
     IN \/ /\ m.kind = "request" /\ method' = [method EXCEPT ![m.of] = "running"] /\ UNCHANGED aborted
        \/ /\ m.kind = "abort"
           /\ aborted' = aborted \cup UNION {{r \in Running(d) : r[2] = m.of[2]} : d \in Conns}
           /\ UNCHANGED method
  /\ sent' = [sent EXCEPT ![c] = Tail(@)]
  /\ UNCHANGED <<clientVars, server, id, ids, clients, back>>

\* A request gets a controller of its own and starts; an abort goes to the client that has this number, by the
\* number of the request alone.
Dispatch(c) ==
  /\ server[c] = "open" /\ sent[c] # <<>>
  /\ LET m == Head(sent[c])
         to == clients[id[c]]
     IN \/ /\ m.kind = "request" /\ method' = [method EXCEPT ![m.of] = "running"] /\ UNCHANGED aborted
        \/ /\ m.kind = "abort"
           /\ aborted' = IF to = None THEN aborted ELSE aborted \cup {r \in Running(to) : r[2] = m.of[2]}
           /\ UNCHANGED method
  /\ sent' = [sent EXCEPT ![c] = Tail(@)]
  /\ UNCHANGED <<clientVars, server, id, ids, clients, back>>

\* The method of a request returns or throws; its controller is dropped, and the response is sent if that is possible.
Return(r) ==
  /\ method[r] = "running"
  /\ method' = [method EXCEPT ![r] = "ended"]
  /\ back' = IF server[r[1]] = "open" THEN [back EXCEPT ![r[1]] = Append(@, r)] ELSE back
  /\ UNCHANGED <<clientVars, server, id, ids, clients, sent, aborted>>

\* The socket of a client that has stopped is closed: everything it asked for is aborted.
Close(c) ==
  /\ server[c] = "open" /\ client[c] = "stopped"
  /\ server' = [server EXCEPT ![c] = "closed"]
  /\ aborted' = aborted \cup Running(c)
  /\ UNCHANGED <<clientVars, id, ids, clients, sent, back, method>>

\* The reading loop ended: with an error at once, else when all its methods have.
Finally(c) ==
  /\ server[c] = "closed"
  /\ server' = [server EXCEPT ![c] = "gone"]
  /\ clients' = [clients EXCEPT ![id[c]] = None]
  /\ UNCHANGED <<clientVars, id, ids, sent, back, method, aborted>>

\* RPCServer.stop: the connections that it has in its map.
StopServer ==
  /\ \E c \in Conns : server[c] = "open"
  /\ LET known == {c \in Conns : \E i \in DOMAIN clients : clients[i] = c}
     IN /\ server' = [c \in Conns |-> IF c \in known /\ server[c] = "open" THEN "closed" ELSE server[c]]
        /\ aborted' = aborted \cup UNION {Running(c) : c \in known}
  /\ clients' = [i \in DOMAIN clients |-> None]
  /\ UNCHANGED <<clientVars, id, ids, sent, back, method>>

Next ==
  \/ \E c \in Conns : Connect(c) \/ Receive(c) \/ Stop(c) \/ Dispatch(c) \/ Close(c) \/ Finally(c)
  \/ \E r \in Requests : Request(r) \/ Return(r)
  \/ \E s \in Signals : Fire(s)
  \/ StopServer

Spec == Init /\ [][Next]_vars

\* Both event loops go on, methods end some time, and a client notices that its socket was closed.
Fairness ==
  /\ \A c \in Conns : /\ WF_vars(Receive(c)) /\ WF_vars(Dispatch(c)) /\ WF_vars(Close(c))
                      /\ WF_vars(server[c] \in {"closed", "gone"} /\ Stop(c))
  /\ \A r \in Requests : WF_vars(Return(r))
FairSpec == Spec /\ Fairness
-----------------------------------------------------------------------------
TypeOK ==
  /\ \A c \in Conns : client[c] \in {"new", "open", "stopped"} /\ server[c] \in {"none", "open", "closed", "gone"}
  /\ \A r \in Requests : pending[r] = "answered" => method[r] = "ended"

\* rpc/test, "cancels an RPC method when the abort signal is called": that method, and no other one.  A method is
\* aborted only if the signal of its own request fired or its own connection is closed.
AbortedByOwn == \A r \in aborted : SignalOf[r] \in fired \/ server[r[1]] # "open"

\* Stops of the server and of the client included: every request a running client made is answered or rejected.
Settled ==
  \A r \in Requests : r \in Waiting /\ client[r[1]] = "open" ~> r \notin Waiting

\* rpc/test, "cancels all RPC methods when the client disconects".
DisconnectCancels == \A c \in Conns : server[c] \in {"closed", "gone"} => Running(c) \subseteq aborted

\* rpc/test, "cancels an RPC method when the abort signal is called": once the abort has travelled, every method whose
\* signal fired has been aborted.
SignalCancels ==
  \A r \in Requests :
    SignalOf[r] \in fired /\ client[r[1]] = "open" /\ server[r[1]] = "open"
      /\ sent[r[1]] = <<>> /\ method[r] = "running" => r \in aborted
=============================================================================
