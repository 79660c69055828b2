-------------------------------- MODULE PeerSync --------------------------------
(***************************************************************************)
(* The sync command: exchanges the heads of every open database with the   *)
(* peers that are connected.  Calls of it run beside each other.           *)
(*   held      node -> database -> its heads                               *)
(*   call      of each call: "no", "running", "returned", "failed"         *)
(*   todo      peers the loop of the call has not reached                  *)
(*   databases what is left in the call's iterator welo.opened.values()    *)
(*   rounds    <<call, peer, database>> -> rounds done; Ended when the     *)
(*             exchange is closed, Unasked when the call has not begun it  *)
(* An exchange sends sketches of the heads: a round may miss some of them. *)
(***************************************************************************)
EXTENDS Naturals, Sequences, FiniteSets, SequencesExt

CONSTANTS
  Me, Peers, Databases, Heads, Rounds, Unasked, Ended,
  Calls   \* names for calls; one is used again when all is over that its last call began

VARIABLES held, call, todo, databases, rounds

vars == <<held, call, todo, databases, rounds>>

Nodes == Range(Peers) \cup {Me}
Exchanges == Calls \X Range(Peers) \X Databases
Running == {x \in Exchanges : rounds[x] \notin {Unasked, Ended}}

Init ==
  /\ held = [n \in Nodes |-> [d \in Databases |-> {}]]
  /\ call = [c \in Calls |-> "no"] /\ todo = [c \in Calls |-> <<>>] /\ databases = [c \in Calls |-> {}]
  /\ rounds = [x \in Exchanges |-> Unasked]

\* Somebody writes to a database, anywhere.
Write(n, d, h) ==
  /\ \A k \in Nodes, e \in Databases : h \notin held[k][e]
  /\ held' = [held EXCEPT ![n][d] = @ \cup {h}]
  /\ UNCHANGED <<call, todo, databases, rounds>>

Call(c) ==
  /\ call[c] # "running" /\ \A x \in Running : x[1] # c
  /\ call' = [call EXCEPT ![c] = "running"]
  /\ todo' = [todo EXCEPT ![c] = Peers] /\ databases' = [databases EXCEPT ![c] = Databases]
  /\ rounds' = [x \in Exchanges |-> IF x[1] = c THEN Unasked ELSE rounds[x]]
  /\ UNCHANGED held

\* The call comes to its next peer and begins these exchanges with it.
Begins(c, begun) ==
  /\ call[c] = "running" /\ todo[c] # <<>>
  /\ todo' = [todo EXCEPT ![c] = Tail(@)] /\ databases' = [databases EXCEPT ![c] = {}]
  /\ rounds' = [x \in Exchanges |-> IF x[1] = c /\ x[2] = Head(todo[c]) /\ x[3] \in begun THEN 0 ELSE rounds[x]]
  /\ UNCHANGED <<held, call>>

\* Mutant: one database of those that are open.
NextPeerOne(c) == Begins(c, {d \in databases[c] : d = CHOOSE e \in databases[c] : TRUE})

\* The inner loop takes all that is in the iterator, and leaves it empty for the peers after this one.
NextPeer(c) == Begins(c, databases[c])

\* The peer is not in the peer store any more: the command throws, what it has started goes on.
NextPeerFails(c) ==
  /\ call[c] = "running" /\ todo[c] # <<>>
  /\ call' = [call EXCEPT ![c] = "failed"] /\ todo' = [todo EXCEPT ![c] = <<>>]
  /\ databases' = [databases EXCEPT ![c] = {}]
  /\ UNCHANGED <<held, rounds>>

\* getHeads, addHeads and verify.
Round(x, got) ==
  /\ x \in Running /\ got \subseteq held[x[2]][x[3]]
  /\ held' = [held EXCEPT ![Me][x[3]] = @ \cup got]
  /\ rounds' = [rounds EXCEPT ![x] = IF held'[Me][x[3]] = held[x[2]][x[3]] \/ @ + 1 = Rounds THEN Ended ELSE @ + 1]
  /\ UNCHANGED <<call, todo, databases>>

\* A dial or a round throws: the error is ignored.
RoundFails(x) ==
  /\ x \in Running /\ rounds' = [rounds EXCEPT ![x] = Ended]
  /\ UNCHANGED <<held, call, todo, databases>>

Return(c) ==
  /\ call[c] = "running" /\ todo[c] = <<>> /\ \A x \in Running : x[1] # c
  /\ call' = [call EXCEPT ![c] = "returned"]
  /\ UNCHANGED <<held, todo, databases, rounds>>

Next ==
  \/ \E n \in Nodes, d \in Databases, h \in Heads : Write(n, d, h)
  \/ \E c \in Calls : Call(c) \/ NextPeer(c) \/ NextPeerFails(c) \/ Return(c)
  \/ \E x \in Exchanges : RoundFails(x) \/ \E got \in SUBSET Heads : Round(x, got)

Spec == Init /\ [][Next]_vars

\* Somebody calls sync again and again, and what a call does goes on; peers leave the peer store only finitely often,
\* and of the rounds that any calls have with a peer about a database, not all fail or miss a head.
Fairness ==
  /\ <>[][\A c \in Calls : ~NextPeerFails(c)]_vars
  /\ \A c \in Calls : WF_vars(Call(c)) /\ WF_vars(NextPeer(c)) /\ WF_vars(Return(c))
  /\ \A x \in Exchanges : WF_vars(\E got \in SUBSET Heads : Round(x, got))
  /\ \A p \in Range(Peers), d \in Databases : SF_vars(\E c \in Calls : Round(<<c, p, d>>, held[p][d]))
FairSpec == Spec /\ Fairness
-----------------------------------------------------------------------------
\* Whatever the peers, the rounds and other calls do, every call comes to its end.
CallEnds == \A c \in Calls : call[c] = "running" ~> call[c] # "running"

\* Heads that the network dropped from some rounds, calls that overlap, and writes while the rounds go on: in the end
\* every database holds what it holds at the first peer.
FirstArrives == <>[](\A d \in Databases : held[Peers[1]][d] \subseteq held[Me][d])

\* cli/src/commands/sync.ts:5, "Sync all databases with connected peers."
SyncsAll == \A x \in Exchanges : call[x[1]] = "returned" => rounds[x] # Unasked
=============================================================================
