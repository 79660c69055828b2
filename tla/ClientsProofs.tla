----------------------------- MODULE ClientsProofs -----------------------------
(***************************************************************************)
(* Proofs about what clients see of a daemon: Rpc, for any connections,    *)
(* requests and signals, Fuse and ManualBlockBroker.                       *)
(***************************************************************************)
EXTENDS Clients, FiniteSetTheorems, SequenceTheorems, TLAPS
-----------------------------------------------------------------------------
(* Rpc *)

Messages == [kind : {"request", "abort"}, of : Requests]

RpcTypes ==
  /\ client \in [Conns -> {"new", "open", "stopped"}] /\ server \in [Conns -> {"none", "open", "closed", "gone"}]
  /\ id \in [Conns -> 0..Modulus - 1] /\ ids \in Nat /\ clients \in [0..Modulus - 1 -> Conns \cup {None}]
  /\ sent \in [Conns -> Seq(Messages)] /\ back \in [Conns -> Seq(Requests)]
  /\ pending \in [Requests -> {"none", "pending", "answered", "rejected"}]
  /\ method \in [Requests -> {"none", "running", "ended"}] /\ aborted \subseteq Requests
  /\ onabort \in [Signals -> Requests \cup {None}] /\ fired \subseteq Signals

LEMMA RequestFields == ASSUME ConstantsOK, NEW r \in Requests PROVE r[1] \in Conns /\ r = <<r[1], r[2]>> /\ SignalOf[r] \in Signals
BY DEF ConstantsOK, Signals

LEMMA Appended ==
  ASSUME NEW S, NEW q \in Seq(S), NEW m \in S
  PROVE  /\ Append(q, m) \in Seq(S) /\ Len(q) \in Nat /\ Len(Append(q, m)) = Len(q) + 1
         /\ Append(q, m)[Len(q) + 1] = m /\ \A i \in 1..Len(q) : Append(q, m)[i] = q[i]
OBVIOUS

LEMMA Shifted ==
  ASSUME NEW S, NEW q \in Seq(S), q # <<>>
  PROVE  /\ Tail(q) \in Seq(S) /\ Len(q) \in Nat \ {0} /\ Len(Tail(q)) = Len(q) - 1
         /\ Head(q) = q[1] /\ Head(q) \in S /\ \A i \in 1..Len(q) - 1 : Tail(q)[i] = q[i + 1]
OBVIOUS

LEMMA NumberFits == ASSUME ConstantsOK, NEW n \in Nat PROVE n % Modulus \in 0..Modulus - 1 /\ (n < Modulus => n % Modulus = n)
BY DEF ConstantsOK

LEMMA RpcTypesInit == ASSUME ConstantsOK, Init PROVE RpcTypes
<1>1. 0 \in 0..Modulus - 1  BY DEF ConstantsOK
<1>2. clients \in [0..Modulus - 1 -> Conns \cup {None}] /\ id \in [Conns -> 0..Modulus - 1]  BY <1>1 DEF Init
<1>3. sent \in [Conns -> Seq(Messages)] /\ back \in [Conns -> Seq(Requests)]  BY DEF Init
<1>4. pending \in [Requests -> {"none", "pending", "answered", "rejected"}]
      /\ method \in [Requests -> {"none", "running", "ended"}]
  BY DEF Init
<1>5. onabort \in [Signals -> Requests \cup {None}] /\ ids \in Nat /\ aborted = {} /\ fired = {}  BY DEF Init
<1>6. client \in [Conns -> {"new", "open", "stopped"}] /\ server \in [Conns -> {"none", "open", "closed", "gone"}]
  BY DEF Init
<1> QED  BY <1>2, <1>3, <1>4, <1>5, <1>6 DEF RpcTypes

LEMMA RpcTypesKept == ASSUME ConstantsOK, RpcTypes, Next PROVE RpcTypes'
<1> USE DEF RpcTypes, clientVars, serverVars
<1>1. ASSUME NEW c \in Conns, Connect(c) PROVE RpcTypes'
  <2>1. ids % Modulus \in 0..Modulus - 1  BY NumberFits
  <2>2. id' \in [Conns -> 0..Modulus - 1] /\ id'[c] \in 0..Modulus - 1  BY <1>1, <2>1 DEF Connect
  <2>3. clients' \in [0..Modulus - 1 -> Conns \cup {None}]  BY <1>1, <2>2 DEF Connect
  <2>4. ids' \in Nat  BY <1>1 DEF Connect
  <2> QED  BY <1>1, <2>2, <2>3, <2>4 DEF Connect
<1>2. ASSUME NEW r \in Requests, Request(r) PROVE RpcTypes'
  <2>1. r[1] \in Conns /\ [kind |-> "request", of |-> r] \in Messages /\ SignalOf[r] \in Signals
    BY RequestFields DEF Messages
  <2>2. Append(sent[r[1]], [kind |-> "request", of |-> r]) \in Seq(Messages)  BY <2>1, Appended
  <2>3. sent' \in [Conns -> Seq(Messages)]  BY <1>2, <2>1, <2>2 DEF Request
  <2> QED  BY <1>2, <2>1, <2>3 DEF Request
<1>3. ASSUME NEW s \in Signals, Fire(s) PROVE RpcTypes'
  <2>1. sent' \in [Conns -> Seq(Messages)]
    <3>1. CASE onabort[s] = None \/ client[onabort[s][1]] # "open"  BY <1>3, <3>1 DEF Fire
    <3>2. CASE onabort[s] # None /\ client[onabort[s][1]] = "open"
      <4>1. onabort[s] \in Requests  BY <3>2
      <4>2. onabort[s][1] \in Conns /\ [kind |-> "abort", of |-> onabort[s]] \in Messages  BY <4>1, RequestFields DEF Messages
      <4>3. Append(sent[onabort[s][1]], [kind |-> "abort", of |-> onabort[s]]) \in Seq(Messages)  BY <4>2, Appended
      <4> QED  BY <1>3, <3>2, <4>2, <4>3 DEF Fire
    <3> QED  BY <3>1, <3>2
  <2> QED  BY <1>3, <2>1 DEF Fire
<1>4. ASSUME NEW c \in Conns, Receive(c) PROVE RpcTypes'
  <2>1. Tail(back[c]) \in Seq(Requests)  BY <1>4, Shifted DEF Receive
  <2>2. back' \in [Conns -> Seq(Requests)]  BY <1>4, <2>1 DEF Receive
  <2> QED  BY <1>4, <2>2 DEF Receive
<1>5. ASSUME NEW c \in Conns, Stop(c) PROVE RpcTypes'
  BY <1>5 DEF Stop
<1>6. ASSUME NEW c \in Conns, Dispatch(c) PROVE RpcTypes'
  <2>1. Tail(sent[c]) \in Seq(Messages) /\ Head(sent[c]) \in Messages  BY <1>6, Shifted DEF Dispatch
  <2>2. sent' \in [Conns -> Seq(Messages)]  BY <1>6, <2>1 DEF Dispatch
  <2>3. method' \in [Requests -> {"none", "running", "ended"}] /\ aborted' \subseteq Requests
    BY <1>6, <2>1 DEF Dispatch, Messages, Running
  <2> QED  BY <1>6, <2>2, <2>3 DEF Dispatch
<1>7. ASSUME NEW r \in Requests, Return(r) PROVE RpcTypes'
  <2>1. back' \in [Conns -> Seq(Requests)]
    <3>1. r[1] \in Conns  BY RequestFields
    <3>2. Append(back[r[1]], r) \in Seq(Requests)  BY <3>1, Appended
    <3> QED  BY <1>7, <3>2 DEF Return
  <2> QED  BY <1>7, <2>1 DEF Return
<1>8. ASSUME NEW c \in Conns, Close(c) PROVE RpcTypes'
  BY <1>8 DEF Close, Running
<1>9. ASSUME NEW c \in Conns, Finally(c) PROVE RpcTypes'
  BY <1>9 DEF Finally
<1>10. CASE StopServer
  BY <1>10 DEF StopServer, Running
<1> QED  BY <1>1, <1>2, <1>3, <1>4, <1>5, <1>6, <1>7, <1>8, <1>9, <1>10 DEF Next

Connected == {c \in Conns : client[c] # "new"}

\* Connections have numbers of their own, and the server finds every open one under its number.
Numbered ==
  /\ \A c \in Conns : client[c] = "new" <=> server[c] = "none"
  /\ ids = Cardinality(Connected)
  /\ \A c \in Connected : id[c] < ids
  /\ \A c, d \in Connected : id[c] = id[d] => c = d
  /\ \A c \in Conns : server[c] = "open" => clients[id[c]] = c

\* What is read and written is what was asked for, in the order in which it was.
Queued ==
  \A c \in Conns : \A i \in 1..Len(sent[c]) :
    /\ sent[c][i].of[1] = c /\ pending[sent[c][i].of] # "none"
    /\ sent[c][i].kind = "abort" => SignalOf[sent[c][i].of] \in fired
    /\ sent[c][i].kind = "request" => method[sent[c][i].of] = "none"
    /\ \A j \in 1..Len(sent[c]) : sent[c][j].of = sent[c][i].of /\ sent[c][j].kind = "request" => j <= i

Responded == \A c \in Conns : \A i \in 1..Len(back[c]) : method[back[c][i]] = "ended"

Started ==
  \A r \in Requests :
    /\ pending[r] = "none" => method[r] = "none"
    /\ method[r] # "none" => server[r[1]] # "none"
    /\ pending[r] = "answered" => method[r] = "ended"
    /\ r \in aborted => method[r] # "none"
    /\ pending[r] # "none" => client[r[1]] # "new"

Handled == \A s \in Signals : onabort[s] # None => SignalOf[onabort[s]] = s /\ pending[onabort[s]] # "none"

LEMMA ConnectedFinite ==
  ASSUME ConstantsOK
  PROVE  IsFiniteSet(Connected) /\ Cardinality(Connected) \in Nat
<1>1. Connected \subseteq Conns  BY DEF Connected
<1> QED  BY <1>1, FS_Subset, FS_CardinalityType DEF ConstantsOK

LEMMA NumberedKept == ASSUME ConstantsOK, RpcTypes, Numbered, Next PROVE Numbered'
<1> USE DEF RpcTypes, clientVars, serverVars
<1>1. ASSUME NEW c \in Conns, Connect(c) PROVE Numbered'
  <2>1. client[c] = "new" /\ client' = [client EXCEPT ![c] = "open"] /\ server' = [server EXCEPT ![c] = "open"]
        /\ id' = [id EXCEPT ![c] = ids % Modulus] /\ ids' = ids + 1 /\ clients' = [clients EXCEPT ![id'[c]] = c]
    BY <1>1 DEF Connect
  <2>2. Connected' = Connected \cup {c} /\ c \notin Connected  BY <2>1 DEF Connected
  <2>3. Cardinality(Connected') = ids + 1  BY <2>2, ConnectedFinite, FS_AddElement DEF Numbered
  <2>4. ids + 1 <= Cardinality(Conns) /\ Cardinality(Conns) \in Nat
    <3>1. Connected' \subseteq Conns  BY <2>2 DEF Connected
    <3> QED  BY <2>3, <3>1, FS_Subset, FS_CardinalityType DEF ConstantsOK
  <2>5. id'[c] = ids
    <3>1. ids < Modulus  BY <2>4 DEF ConstantsOK
    <3> QED  BY <2>1, <3>1, NumberFits
  <2>6. \A d \in Connected : id'[d] = id[d] /\ id[d] < ids /\ d # c  BY <2>1, <2>2 DEF Connected, Numbered
  <2>7. \A d \in Connected' : id'[d] < ids'
    <3> SUFFICES ASSUME NEW d \in Connected' PROVE id'[d] < ids'  OBVIOUS
    <3>1. CASE d = c  BY <2>1, <2>5, <3>1
    <3>2. CASE d # c
      <4>1. d \in Connected /\ id[d] \in Nat  BY <2>2, <3>2 DEF Connected, ConstantsOK
      <4> QED  BY <2>1, <2>6, <4>1
    <3> QED  BY <3>1, <3>2
  <2>8. \A d, e \in Connected' : id'[d] = id'[e] => d = e
    <3> SUFFICES ASSUME NEW d \in Connected', NEW e \in Connected', d # e PROVE id'[d] # id'[e]  OBVIOUS
    <3>1. d \in Connected /\ e \in Connected => id'[d] # id'[e]  BY <2>6 DEF Numbered
    <3>2. (d = c /\ e \in Connected) \/ (e = c /\ d \in Connected) => id'[d] # id'[e]
      <4>1. \A x \in Connected : id[x] # ids
        <5>1. \A x \in Connected : id[x] \in Nat  BY DEF Connected, ConstantsOK
        <5> QED  BY <2>6, <5>1
      <4> QED  BY <2>5, <2>6, <4>1
    <3> QED  BY <2>2, <3>1, <3>2
  <2>9. \A d \in Conns : server'[d] = "open" => clients'[id'[d]] = d
    <3> SUFFICES ASSUME NEW d \in Conns, server'[d] = "open" PROVE clients'[id'[d]] = d  OBVIOUS
    <3>1. id'[c] \in 0..Modulus - 1  BY <2>1, NumberFits
    <3>2. CASE d = c  BY <2>1, <3>1, <3>2
    <3>3. CASE d # c
      <4>1. server[d] = "open" /\ id'[d] = id[d] /\ d \in Connected /\ d \in Connected' /\ c \in Connected'
        BY <2>1, <2>2, <3>3 DEF Numbered, Connected
      <4>2. id'[d] # id'[c]  BY <2>8, <3>3, <4>1
      <4> QED  BY <2>1, <4>1, <4>2 DEF Numbered
    <3> QED  BY <3>2, <3>3
  <2>10. \A d \in Conns : client'[d] = "new" <=> server'[d] = "none"  BY <2>1 DEF Numbered
  <2> QED  BY <2>1, <2>3, <2>7, <2>8, <2>9, <2>10 DEF Numbered
<1>2. ASSUME UNCHANGED <<client, server, id, ids, clients>> PROVE Numbered'
  BY <1>2 DEF Numbered, Connected
<1>3. ASSUME Connected' = Connected, \A c \in Conns : client'[c] = "new" <=> server'[c] = "none", UNCHANGED <<id, ids>>,
             \A c \in Conns : server'[c] = "open" => clients'[id[c]] = c
      PROVE  Numbered'
  BY <1>3 DEF Numbered
<1>4. ASSUME NEW c \in Conns, Stop(c) PROVE Numbered'
  <2>1. client' = [client EXCEPT ![c] = "stopped"] /\ client[c] = "open" /\ UNCHANGED <<server, id, ids, clients>>  BY <1>4 DEF Stop
  <2>2. Connected' = Connected  BY <2>1 DEF Connected
  <2> QED  BY <1>3, <2>1, <2>2 DEF Numbered
<1>5. ASSUME NEW c \in Conns, Close(c) PROVE Numbered'
  BY <1>3, <1>5 DEF Close, Numbered, Connected
<1>6. ASSUME NEW c \in Conns, Finally(c) PROVE Numbered'
  <2>1. /\ server' = [server EXCEPT ![c] = "gone"] /\ clients' = [clients EXCEPT ![id[c]] = None] /\ server[c] = "closed"
        /\ UNCHANGED <<client, id, ids>> /\ Connected' = Connected
    BY <1>6 DEF Finally, Connected
  <2>2. \A d \in Conns : server'[d] = "open" => clients'[id[d]] = d
    <3> SUFFICES ASSUME NEW d \in Conns, server'[d] = "open" PROVE clients'[id[d]] = d  OBVIOUS
    <3>1. server[d] = "open" /\ d # c  BY <2>1
    <3>2. c \in Connected /\ d \in Connected  BY <2>1, <3>1 DEF Numbered, Connected
    <3>3. id[c] # id[d] /\ clients[id[d]] = d  BY <3>1, <3>2 DEF Numbered
    <3> QED  BY <2>1, <3>3
  <2>3. \A d \in Conns : client'[d] = "new" <=> server'[d] = "none"  BY <2>1 DEF Numbered
  <2> QED  BY <1>3, <2>1, <2>2, <2>3
<1>7. CASE StopServer
  <2>1. \A d \in Conns : server[d] = "open" => \E i \in DOMAIN clients : clients[i] = d  BY DEF Numbered
  <2>2. \A d \in Conns : server'[d] # "open"  BY <1>7, <2>1 DEF StopServer
  <2>3. \A d \in Conns : client'[d] = "new" <=> server'[d] = "none"  BY <1>7 DEF StopServer, Numbered
  <2> QED  BY <1>3, <1>7, <2>2, <2>3 DEF StopServer, Connected
<1>8. ASSUME (\E c \in Conns : Receive(c) \/ Dispatch(c)) \/ (\E r \in Requests : Request(r) \/ Return(r)) \/ \E s \in Signals : Fire(s)
      PROVE  UNCHANGED <<client, server, id, ids, clients>>
  BY <1>8 DEF Receive, Dispatch, Request, Return, Fire
<1> QED  BY <1>1, <1>2, <1>4, <1>5, <1>6, <1>7, <1>8 DEF Next

LEMMA QueuedKept == ASSUME ConstantsOK, RpcTypes, Queued, Started, Handled, Next PROVE Queued'
<1> USE DEF clientVars, serverVars
<1>0. \A c \in Conns : sent[c] \in Seq(Messages) /\ Len(sent[c]) \in Nat
      /\ \A i \in 1..Len(sent[c]) : sent[c][i] \in Messages /\ sent[c][i].of \in Requests
  <2> SUFFICES ASSUME NEW c \in Conns
               PROVE  sent[c] \in Seq(Messages) /\ Len(sent[c]) \in Nat
                      /\ \A i \in 1..Len(sent[c]) : sent[c][i] \in Messages /\ sent[c][i].of \in Requests
    OBVIOUS
  <2>1. sent[c] \in Seq(Messages)  BY DEF RpcTypes
  <2>2. \A i \in 1..Len(sent[c]) : sent[c][i] \in Messages  BY <2>1
  <2>3. \A x \in Messages : x.of \in Requests  BY DEF Messages
  <2> QED  BY <2>1, <2>2, <2>3
<1>1. ASSUME sent' = sent, fired \subseteq fired', \A r \in Requests : pending[r] # "none" => pending'[r] # "none",
             \A r \in Requests : method[r] = "none" => method'[r] = "none"
      PROVE  Queued'
  BY <1>0, <1>1 DEF Queued
<1>2. ASSUME NEW r \in Requests, Request(r) PROVE Queued'
  <2>1. r[1] \in Conns /\ pending[r] = "none" /\ method[r] = "none"  BY <1>2, RequestFields DEF Request, Started
  <2>2. pending' = [pending EXCEPT ![r] = "pending"] /\ UNCHANGED <<method, fired>>  BY <1>2 DEF Request
  <2>3. \A q \in Requests : pending[q] # "none" => pending'[q] # "none"  BY <2>2 DEF RpcTypes
  <2>4. CASE client[r[1]] # "open"  BY <1>1, <1>2, <2>2, <2>3, <2>4 DEF Request
  <2>5. CASE client[r[1]] = "open"
    <3> DEFINE m == [kind |-> "request", of |-> r]
               q == sent[r[1]]
    <3>1. m \in Messages /\ m.of = r  BY DEF Messages
    <3>2. sent' = [sent EXCEPT ![r[1]] = Append(q, m)]  BY <1>2, <2>5 DEF Request
    <3>3. \A i \in 1..Len(q) : q[i].of # r  BY <2>1 DEF Queued
    <3> SUFFICES ASSUME NEW d \in Conns, NEW i \in 1..Len(sent'[d])
                 PROVE  /\ sent'[d][i].of[1] = d /\ pending'[sent'[d][i].of] # "none"
                        /\ sent'[d][i].kind = "abort" => SignalOf[sent'[d][i].of] \in fired'
                        /\ sent'[d][i].kind = "request" => method'[sent'[d][i].of] = "none"
                        /\ \A j \in 1..Len(sent'[d]) : sent'[d][j].of = sent'[d][i].of /\ sent'[d][j].kind = "request" => j <= i
      BY DEF Queued
    <3>4. CASE d # r[1]
      <4>1. sent'[d] = sent[d]  BY <3>2, <3>4 DEF RpcTypes
      <4> QED  BY <1>0, <2>2, <2>3, <4>1 DEF Queued
    <3>5. CASE d = r[1]
      <4>1. sent'[d] = Append(q, m)  BY <2>1, <3>2, <3>5 DEF RpcTypes
      <4>2. q \in Seq(Messages)  BY <1>0, <2>1
      <4> HIDE DEF m, q
      <4>3. Len(q) \in Nat /\ Len(sent'[d]) = Len(q) + 1 /\ sent'[d][Len(q) + 1] = m /\ \A k \in 1..Len(q) : sent'[d][k] = q[k]
        BY <3>1, <4>1, <4>2, Appended
      <4>4. CASE i = Len(q) + 1
        <5>1. sent'[d][i] = m /\ \A j \in 1..Len(sent'[d]) : j <= i  BY <4>3, <4>4
        <5>2. m.kind = "request" /\ pending'[r] # "none"  BY <2>2 DEF m, RpcTypes
        <5> QED  BY <2>1, <2>2, <3>1, <3>5, <5>1, <5>2
      <4>5. CASE i # Len(q) + 1
        <5>1. i \in 1..Len(q) /\ sent'[d][i] = q[i]  BY <4>3, <4>5
        <5>2. /\ q[i].of[1] = d /\ pending'[q[i].of] # "none" /\ (q[i].kind = "abort" => SignalOf[q[i].of] \in fired')
              /\ (q[i].kind = "request" => method'[q[i].of] = "none")
              /\ \A j \in 1..Len(q) : q[j].of = q[i].of /\ q[j].kind = "request" => j <= i
          BY <1>0, <2>1, <2>2, <2>3, <3>5, <5>1 DEF Queued, q
        <5>3. \A j \in 1..Len(sent'[d]) : sent'[d][j].of = q[i].of => j \in 1..Len(q) /\ sent'[d][j] = q[j]
          BY <3>1, <3>3, <4>3, <5>1 DEF q
        <5> QED  BY <5>1, <5>2, <5>3
      <4> QED  BY <4>4, <4>5
    <3> QED  BY <3>4, <3>5
  <2> QED  BY <2>4, <2>5
<1>3. ASSUME NEW s \in Signals, Fire(s) PROVE Queued'
  <2>1. UNCHANGED <<pending, method>> /\ fired' = fired \cup {s}  BY <1>3 DEF Fire
  <2>2. CASE onabort[s] = None \/ client[onabort[s][1]] # "open"  BY <1>1, <1>3, <2>1, <2>2 DEF Fire
  <2>3. CASE onabort[s] # None /\ client[onabort[s][1]] = "open"
    <3>1. PICK r \in Requests : r = onabort[s]  BY <2>3 DEF RpcTypes
    <3> DEFINE m == [kind |-> "abort", of |-> r]
               q == sent[r[1]]
    <3>2. m \in Messages /\ m.of = r /\ m.kind = "abort" /\ r[1] \in Conns  BY RequestFields DEF Messages
    <3>3. SignalOf[r] \in fired' /\ pending[r] # "none"  BY <2>1, <2>3, <3>1 DEF Handled
    <3>4. sent' = [sent EXCEPT ![r[1]] = Append(q, m)]  BY <1>3, <2>3, <3>1 DEF Fire
    <3> SUFFICES ASSUME NEW d \in Conns, NEW i \in 1..Len(sent'[d])
                 PROVE  /\ sent'[d][i].of[1] = d /\ pending'[sent'[d][i].of] # "none"
                        /\ sent'[d][i].kind = "abort" => SignalOf[sent'[d][i].of] \in fired'
                        /\ sent'[d][i].kind = "request" => method'[sent'[d][i].of] = "none"
                        /\ \A j \in 1..Len(sent'[d]) : sent'[d][j].of = sent'[d][i].of /\ sent'[d][j].kind = "request" => j <= i
      BY DEF Queued
    <3>5. CASE d # r[1]
      <4>1. sent'[d] = sent[d]  BY <3>4, <3>5 DEF RpcTypes
      <4> QED  BY <1>0, <2>1, <4>1 DEF Queued
    <3>6. CASE d = r[1]
      <4>1. sent'[d] = Append(q, m)  BY <3>2, <3>4, <3>6 DEF RpcTypes
      <4>2. q \in Seq(Messages)  BY <1>0, <3>2
      <4> HIDE DEF m, q
      <4>3. Len(q) \in Nat /\ Len(sent'[d]) = Len(q) + 1 /\ sent'[d][Len(q) + 1] = m /\ \A k \in 1..Len(q) : sent'[d][k] = q[k]
        BY <3>2, <4>1, <4>2, Appended
      <4>4. CASE i = Len(q) + 1
        <5>1. sent'[d][i] = m /\ \A j \in 1..Len(sent'[d]) : j <= i  BY <4>3, <4>4
        <5> QED  BY <2>1, <3>2, <3>3, <3>6, <5>1
      <4>5. CASE i # Len(q) + 1
        <5>1. i \in 1..Len(q) /\ sent'[d][i] = q[i]  BY <4>3, <4>5
        <5>2. /\ q[i].of[1] = d /\ pending'[q[i].of] # "none" /\ (q[i].kind = "abort" => SignalOf[q[i].of] \in fired')
              /\ (q[i].kind = "request" => method'[q[i].of] = "none")
              /\ \A j \in 1..Len(q) : q[j].of = q[i].of /\ q[j].kind = "request" => j <= i
          BY <1>0, <2>1, <3>2, <3>6, <5>1 DEF Queued, q
        <5>3. \A j \in 1..Len(sent'[d]) : sent'[d][j].kind = "request" => j \in 1..Len(q) /\ sent'[d][j] = q[j]
          BY <3>2, <4>3
        <5> QED  BY <5>1, <5>2, <5>3
      <4> QED  BY <4>4, <4>5
    <3> QED  BY <3>5, <3>6
  <2> QED  BY <2>2, <2>3
<1>4. ASSUME NEW c \in Conns, Dispatch(c) PROVE Queued'
  <2> DEFINE m == Head(sent[c])
             q == sent[c]
  <2>1. q # <<>> /\ sent' = [sent EXCEPT ![c] = Tail(q)] /\ UNCHANGED <<pending, fired>>  BY <1>4 DEF Dispatch
  <2>2. /\ Len(q) \in Nat \ {0} /\ Len(Tail(q)) = Len(q) - 1
        /\ m = q[1] /\ m \in Messages /\ \A k \in 1..Len(q) - 1 : Tail(q)[k] = q[k + 1]
    BY <1>0, <2>1, Shifted
  <2>3. m.of \in Requests /\ m.of[1] = c  BY <2>2 DEF Queued, Messages
  <2>4. method' = method \/ (m.kind = "request" /\ method' = [method EXCEPT ![m.of] = "running"])  BY <1>4 DEF Dispatch
  <2> HIDE DEF m, q
  <2> SUFFICES ASSUME NEW d \in Conns, NEW i \in 1..Len(sent'[d])
               PROVE  /\ sent'[d][i].of[1] = d /\ pending'[sent'[d][i].of] # "none"
                      /\ sent'[d][i].kind = "abort" => SignalOf[sent'[d][i].of] \in fired'
                      /\ sent'[d][i].kind = "request" => method'[sent'[d][i].of] = "none"
                      /\ \A j \in 1..Len(sent'[d]) : sent'[d][j].of = sent'[d][i].of /\ sent'[d][j].kind = "request" => j <= i
    BY DEF Queued
  <2>5. CASE d # c
    <3>1. sent'[d] = sent[d]  BY <2>1, <2>5 DEF RpcTypes
    <3>2. sent[d][i].of # m.of /\ sent[d][i].of \in Requests  BY <1>0, <2>3, <2>5, <3>1 DEF Queued
    <3>3. method'[sent[d][i].of] = method[sent[d][i].of]  BY <2>3, <2>4, <3>2 DEF RpcTypes
    <3>4. /\ sent[d][i].of[1] = d /\ pending[sent[d][i].of] # "none"
          /\ sent[d][i].kind = "abort" => SignalOf[sent[d][i].of] \in fired
          /\ sent[d][i].kind = "request" => method[sent[d][i].of] = "none"
          /\ \A j \in 1..Len(sent[d]) : sent[d][j].of = sent[d][i].of /\ sent[d][j].kind = "request" => j <= i
      BY <3>1 DEF Queued
    <3>5. pending' = pending /\ fired' = fired  BY <2>1
    <3> QED  BY <3>1, <3>3, <3>4, <3>5
  <2>6. CASE d = c
    <3>1. sent'[d] = Tail(q)  BY <2>1, <2>6 DEF RpcTypes
    <3>2. i \in 1..Len(q) - 1 /\ i + 1 \in 1..Len(q) /\ sent'[d][i] = q[i + 1]  BY <2>2, <3>1
    <3>3. /\ q[i + 1].of[1] = d /\ pending'[q[i + 1].of] # "none" /\ (q[i + 1].kind = "abort" => SignalOf[q[i + 1].of] \in fired')
          /\ (q[i + 1].kind = "request" => method[q[i + 1].of] = "none")
          /\ \A j \in 1..Len(q) : q[j].of = q[i + 1].of /\ q[j].kind = "request" => j <= i + 1
      BY <2>1, <2>6, <3>2 DEF Queued, q
    <3>4. q[i + 1].kind = "request" => q[i + 1].of # m.of
      <4>1. \A j \in 1..Len(q) : q[j].of = q[1].of /\ q[j].kind = "request" => j <= 1  BY <2>2 DEF Queued, q
      <4>2. ~(i + 1 <= 1)  BY <2>2, <3>2
      <4> QED  BY <2>2, <3>2, <4>1, <4>2
    <3>5. q[i + 1].kind = "request" => method'[q[i + 1].of] = "none"
      <4>1. q[i + 1].of \in Requests  BY <1>0, <3>2 DEF q
      <4> QED  BY <2>4, <3>3, <3>4, <4>1 DEF RpcTypes
    <3>6. \A j \in 1..Len(sent'[d]) : sent'[d][j].of = sent'[d][i].of /\ sent'[d][j].kind = "request" => j <= i
      <4> SUFFICES ASSUME NEW j \in 1..Len(sent'[d]), sent'[d][j].of = sent'[d][i].of, sent'[d][j].kind = "request" PROVE j <= i
        OBVIOUS
      <4>1. j \in 1..Len(q) - 1 /\ j + 1 \in 1..Len(q) /\ sent'[d][j] = q[j + 1]  BY <2>2, <3>1
      <4>2. j + 1 <= i + 1  BY <3>2, <3>3, <4>1
      <4> QED  BY <3>2, <4>1, <4>2
    <3> QED  BY <3>2, <3>3, <3>5, <3>6
  <2> QED  BY <2>5, <2>6
<1>5. ASSUME NEW c \in Conns, Receive(c) \/ Stop(c) PROVE Queued'
  <2>1. \A r \in Requests : pending[r] # "none" => pending'[r] # "none"
    <3>1. CASE Receive(c)  BY <3>1 DEF Receive, RpcTypes
    <3>2. CASE Stop(c)  BY <3>2 DEF Stop, RpcTypes
    <3> QED  BY <1>5, <3>1, <3>2
  <2> QED  BY <1>1, <1>5, <2>1 DEF Receive, Stop
<1>6. ASSUME NEW r \in Requests, Return(r) PROVE Queued'
  <2>1. \A q \in Requests : method[q] = "none" => method'[q] = "none"  BY <1>6 DEF Return, RpcTypes
  <2> QED  BY <1>1, <1>6, <2>1 DEF Return
<1>7. ASSUME StopServer \/ \E c \in Conns : Connect(c) \/ Close(c) \/ Finally(c) PROVE Queued'
  <2>1. UNCHANGED <<sent, fired, pending, method>>  BY <1>7 DEF StopServer, Connect, Close, Finally
  <2> QED  BY <1>1, <2>1
<1> QED  BY <1>2, <1>3, <1>4, <1>5, <1>6, <1>7 DEF Next

\* What a dispatch reads, and what it does with it.
LEMMA Dispatched ==
  ASSUME ConstantsOK, RpcTypes, Queued, Numbered, NEW c \in Conns, Dispatch(c)
  PROVE  LET r == Head(sent[c]).of
         IN /\ r \in Requests /\ r[1] = c /\ pending[r] # "none" /\ server[c] = "open"
            /\ \/ /\ Head(sent[c]).kind = "request" /\ method[r] = "none"
                  /\ method' = [method EXCEPT ![r] = "running"] /\ aborted' = aborted
               \/ /\ Head(sent[c]).kind = "abort" /\ SignalOf[r] \in fired
                  /\ method' = method
                  /\ aborted' = aborted \cup (IF method[r] = "running" THEN {r} ELSE {})
<1> DEFINE m == Head(sent[c])
<1>1. sent[c] # <<>> /\ server[c] = "open" /\ sent[c] \in Seq(Messages)  BY DEF Dispatch, RpcTypes
<1>2. m = sent[c][1] /\ 1 \in 1..Len(sent[c]) /\ m \in Messages  BY <1>1, Shifted
<1>3. /\ m.of \in Requests /\ m.of[1] = c /\ pending[m.of] # "none"
      /\ m.kind = "abort" => SignalOf[m.of] \in fired
      /\ m.kind = "request" => method[m.of] = "none"
  BY <1>2 DEF Queued, Messages
<1>4. clients[id[c]] = c /\ c # None  BY <1>1 DEF Numbered, ConstantsOK
<1>5. CASE m.kind = "request"  BY <1>1, <1>3, <1>5 DEF Dispatch
<1>6. CASE m.kind = "abort"
  <2>1. aborted' = aborted \cup {r \in Running(c) : r[2] = m.of[2]} /\ method' = method
    BY <1>4, <1>6 DEF Dispatch
  <2>2. {r \in Running(c) : r[2] = m.of[2]} = IF method[m.of] = "running" THEN {m.of} ELSE {}
    BY <1>3, RequestFields DEF Running
  <2> QED  BY <1>1, <1>3, <1>6, <2>1, <2>2
<1> QED  BY <1>2, <1>5, <1>6 DEF Messages

LEMMA RespondedKept == ASSUME ConstantsOK, RpcTypes, Queued, Numbered, Responded, Next PROVE Responded'
<1> USE DEF clientVars, serverVars
<1>0. ASSUME NEW c \in Conns PROVE back[c] \in Seq(Requests) /\ Len(back[c]) \in Nat /\ \A i \in 1..Len(back[c]) : back[c][i] \in Requests
  BY DEF RpcTypes
<1>1. ASSUME back' = back, \A r \in Requests : method[r] = "ended" => method'[r] = "ended" PROVE Responded'
  BY <1>0, <1>1 DEF Responded
<1>2. ASSUME NEW c \in Conns, Receive(c) PROVE Responded'
  <2>1. back' = [back EXCEPT ![c] = Tail(back[c])] /\ back[c] # <<>> /\ UNCHANGED method  BY <1>2 DEF Receive
  <2>2. Len(Tail(back[c])) = Len(back[c]) - 1 /\ \A i \in 1..Len(back[c]) - 1 : Tail(back[c])[i] = back[c][i + 1]
    BY <1>0, <2>1, Shifted
  <2> SUFFICES ASSUME NEW d \in Conns, NEW i \in 1..Len(back'[d]) PROVE method'[back'[d][i]] = "ended"
    BY DEF Responded
  <2>3. CASE d = c
    <3>1. back'[d] = Tail(back[c])  BY <2>1, <2>3 DEF RpcTypes
    <3>2. back'[d][i] = back[c][i + 1] /\ i + 1 \in 1..Len(back[c])  BY <1>0, <2>2, <3>1
    <3> QED  BY <2>1, <3>2 DEF Responded
  <2>4. CASE d # c
    <3>1. back'[d] = back[d]  BY <2>1, <2>4 DEF RpcTypes
    <3> QED  BY <2>1, <3>1 DEF Responded
  <2> QED  BY <2>3, <2>4
<1>3. ASSUME NEW r \in Requests, Return(r) PROVE Responded'
  <2>1. r[1] \in Conns /\ \A q \in Requests : method[q] = "ended" \/ q = r => method'[q] = "ended"
    BY <1>3, RequestFields DEF Return, RpcTypes
  <2>2. CASE back' = back  BY <1>1, <2>1, <2>2
  <2>3. CASE back' = [back EXCEPT ![r[1]] = Append(back[r[1]], r)]
    <3>1. Len(Append(back[r[1]], r)) = Len(back[r[1]]) + 1 /\ Append(back[r[1]], r)[Len(back[r[1]]) + 1] = r
          /\ \A i \in 1..Len(back[r[1]]) : Append(back[r[1]], r)[i] = back[r[1]][i]
      BY <1>0, <2>1, Appended
    <3> SUFFICES ASSUME NEW d \in Conns, NEW i \in 1..Len(back'[d]) PROVE method'[back'[d][i]] = "ended"
      BY DEF Responded
    <3>2. CASE d = r[1]
      <4>1. back'[d] = Append(back[r[1]], r)  BY <2>1, <2>3, <3>2 DEF RpcTypes
      <4>2. back'[d][i] = r \/ (i \in 1..Len(back[d]) /\ back'[d][i] = back[d][i])  BY <1>0, <2>1, <3>1, <3>2, <4>1
      <4> QED  BY <1>0, <2>1, <4>2 DEF Responded
    <3>3. CASE d # r[1]
      <4>1. back'[d] = back[d]  BY <2>1, <2>3, <3>3 DEF RpcTypes
      <4>2. back'[d][i] \in Requests /\ method[back'[d][i]] = "ended"  BY <1>0, <4>1 DEF Responded
      <4> QED  BY <2>1, <4>2
    <3> QED  BY <3>2, <3>3
  <2> QED  BY <1>3, <2>2, <2>3 DEF Return
<1>4. ASSUME NEW c \in Conns, Dispatch(c) PROVE Responded'
  <2>1. \A q \in Requests : method[q] = "ended" => method'[q] = "ended"
    <3>1. PICK r \in Requests : method' = method \/ (method[r] = "none" /\ method' = [method EXCEPT ![r] = "running"])
      BY <1>4, Dispatched
    <3> QED  BY <3>1 DEF RpcTypes
  <2> QED  BY <1>1, <1>4, <2>1 DEF Dispatch
<1>5. ASSUME \/ \E c \in Conns : Connect(c) \/ Stop(c) \/ Close(c) \/ Finally(c)
             \/ \E r \in Requests : Request(r)
             \/ \E s \in Signals : Fire(s)
             \/ StopServer
      PROVE  Responded'
  <2>1. UNCHANGED <<back, method>>  BY <1>5 DEF Connect, Stop, Close, Finally, Request, Fire, StopServer
  <2> QED  BY <1>1, <2>1
<1> QED  BY <1>2, <1>3, <1>4, <1>5 DEF Next

LEMMA StartedKept == ASSUME ConstantsOK, RpcTypes, Queued, Numbered, Responded, Started, Next PROVE Started'
<1> USE DEF clientVars, serverVars
<1> SUFFICES ASSUME NEW r \in Requests
             PROVE  /\ pending'[r] = "none" => method'[r] = "none"
                    /\ method'[r] # "none" => server'[r[1]] # "none"
                    /\ pending'[r] = "answered" => method'[r] = "ended"
                    /\ r \in aborted' => method'[r] # "none"
                    /\ pending'[r] # "none" => client'[r[1]] # "new"
  BY DEF Started
<1>0. /\ pending[r] = "none" => method[r] = "none"
      /\ method[r] # "none" => server[r[1]] # "none"
      /\ pending[r] = "answered" => method[r] = "ended"
      /\ r \in aborted => method[r] # "none"
      /\ pending[r] # "none" => client[r[1]] # "new"
      /\ r[1] \in Conns
  BY RequestFields DEF Started
<1>2. ASSUME NEW c \in Conns, Connect(c) \/ Finally(c) PROVE UNCHANGED <<pending, method, aborted>> /\ (server'[r[1]] # "none" \/ server'[r[1]] = server[r[1]])
  BY <1>0, <1>2 DEF Connect, Finally, RpcTypes
<1>3. ASSUME NEW c \in Conns, Close(c)
      PROVE  UNCHANGED <<pending, method>> /\ (r \in aborted' => r \in aborted \/ method[r] # "none") /\ (server'[r[1]] # "none" \/ server'[r[1]] = server[r[1]])
  BY <1>0, <1>3 DEF Close, RpcTypes, Running
<1>4. ASSUME StopServer
      PROVE  UNCHANGED <<pending, method>> /\ (r \in aborted' => r \in aborted \/ method[r] # "none") /\ (server'[r[1]] # "none" \/ server'[r[1]] = server[r[1]])
  BY <1>0, <1>4 DEF StopServer, RpcTypes, Running
<1>5. ASSUME NEW q \in Requests, Request(q) PROVE UNCHANGED <<server, method, aborted>> /\ (pending'[r] = pending[r] \/ pending'[r] = "pending")
  BY <1>5 DEF Request, RpcTypes
<1>6. ASSUME NEW s \in Signals, Fire(s) PROVE UNCHANGED <<server, method, aborted, pending>>
  BY <1>6 DEF Fire
<1>7. ASSUME NEW c \in Conns, Stop(c) PROVE UNCHANGED <<server, method, aborted>> /\ (pending'[r] = pending[r] \/ pending'[r] = "rejected")
  BY <1>7 DEF Stop, RpcTypes
<1>8. ASSUME NEW c \in Conns, Receive(c)
      PROVE  UNCHANGED <<server, method, aborted>> /\ (pending'[r] = pending[r] \/ (pending'[r] = "answered" /\ method[r] = "ended"))
  <2>1. back[c] \in Seq(Requests) /\ back[c] # <<>>  BY <1>8 DEF Receive, RpcTypes
  <2>2. Head(back[c]) \in Requests /\ 1 \in 1..Len(back[c]) /\ Head(back[c]) = back[c][1]  BY <2>1, Shifted
  <2>3. method[Head(back[c])] = "ended"  BY <2>2 DEF Responded
  <2> QED  BY <1>8, <2>2, <2>3 DEF Receive, RpcTypes
<1>9. ASSUME NEW q \in Requests, Return(q)
      PROVE  UNCHANGED <<server, pending, aborted>> /\ (method'[r] = method[r] \/ (method[r] = "running" /\ method'[r] = "ended"))
  BY <1>9 DEF Return, RpcTypes
<1>10. ASSUME NEW c \in Conns, Dispatch(c)
       PROVE  /\ UNCHANGED <<server, pending>>
              /\ method'[r] = method[r] \/ (method[r] = "none" /\ method'[r] = "running" /\ server[r[1]] = "open" /\ pending[r] # "none")
              /\ r \in aborted' => r \in aborted \/ method'[r] # "none"
  <2>1. UNCHANGED <<server, pending>>  BY <1>10 DEF Dispatch
  <2>2. PICK q \in Requests :
          /\ pending[q] # "none" /\ server[q[1]] = "open"
          /\ \/ method[q] = "none" /\ method' = [method EXCEPT ![q] = "running"] /\ aborted' = aborted
             \/ method' = method /\ aborted' = aborted \cup (IF method[q] = "running" THEN {q} ELSE {})
    BY <1>10, Dispatched
  <2> QED  BY <1>0, <2>1, <2>2 DEF RpcTypes
<1>11. pending'[r] # "none" => client'[r[1]] # "new"
  <2>1. client[r[1]] # "new" => client'[r[1]] # "new"
    BY <1>0, ZenonT(30) DEF Next, Connect, Receive, Stop, Dispatch, Close, Finally, Request, Return, Fire, StopServer, RpcTypes
  <2>2. CASE \E q \in Requests : Request(q)
    <3>1. PICK q \in Requests : Request(q)  BY <2>2
    <3> QED  BY <1>0, <2>1, <3>1 DEF Request, RpcTypes
  <2>3. CASE \E c \in Conns : Receive(c)  BY <1>0, <1>8, <2>1, <2>3
  <2>4. CASE ~(\E q \in Requests : Request(q)) /\ ~(\E c \in Conns : Receive(c))
    <3>1. pending'[r] = pending[r] \/ pending[r] = "pending"
      <4>1. CASE \E c \in Conns : Stop(c)  BY <4>1 DEF Stop
      <4>2. CASE ~\E c \in Conns : Stop(c)
        BY <2>4, <4>2 DEF Next, Connect, Dispatch, Close, Finally, Return, Fire, StopServer
      <4> QED  BY <4>1, <4>2
    <3> QED  BY <1>0, <2>1, <3>1
  <2> QED  BY <2>2, <2>3, <2>4
<1> QED  BY <1>0, <1>2, <1>3, <1>4, <1>5, <1>6, <1>7, <1>8, <1>9, <1>10, <1>11 DEF Next

LEMMA HandledKept == ASSUME ConstantsOK, RpcTypes, Handled, Next PROVE Handled'
<1> USE DEF clientVars, serverVars
<1>1. ASSUME UNCHANGED onabort, \A r \in Requests : pending[r] # "none" => pending'[r] # "none" PROVE Handled'
  BY <1>1 DEF Handled, RpcTypes
<1>2. ASSUME NEW r \in Requests, Request(r) PROVE Handled'
  <2>1. onabort' = [onabort EXCEPT ![SignalOf[r]] = r] /\ pending' = [pending EXCEPT ![r] = "pending"] /\ SignalOf[r] \in Signals
    BY <1>2, RequestFields DEF Request
  <2> QED  BY <2>1 DEF Handled, RpcTypes
<1>3. ASSUME NEW c \in Conns, Receive(c) PROVE UNCHANGED onabort /\ \A r \in Requests : pending[r] # "none" => pending'[r] # "none"
  BY <1>3 DEF Receive, RpcTypes
<1>4. ASSUME NEW c \in Conns, Stop(c) PROVE UNCHANGED onabort /\ \A r \in Requests : pending[r] # "none" => pending'[r] # "none"
  BY <1>4 DEF Stop, RpcTypes
<1>5. ASSUME \/ \E c \in Conns : Connect(c) \/ Close(c) \/ Finally(c) \/ Dispatch(c)
             \/ \E r \in Requests : Return(r)
             \/ \E s \in Signals : Fire(s)
             \/ StopServer
      PROVE  UNCHANGED <<onabort, pending>>
  BY <1>5 DEF Connect, Close, Finally, Dispatch, Return, Fire, StopServer
<1> QED  BY <1>1, <1>2, <1>3, <1>4, <1>5 DEF Next

LEMMA AbortedByOwnKept ==
  ASSUME ConstantsOK, RpcTypes, Queued, Numbered, Started, AbortedByOwn, Next
  PROVE  AbortedByOwn'
<1> USE DEF clientVars, serverVars
<1> SUFFICES ASSUME NEW r \in aborted' PROVE SignalOf[r] \in fired' \/ server'[r[1]] # "open"
  BY DEF AbortedByOwn
<1>0. /\ aborted \subseteq Requests
      /\ r \in aborted => SignalOf[r] \in fired \/ server[r[1]] # "open"
      /\ r \in aborted => r[1] \in Conns /\ server[r[1]] # "none"
  BY RequestFields DEF AbortedByOwn, Started, RpcTypes
<1>1. ASSUME r \in aborted, fired \subseteq fired', server[r[1]] # "open" => server'[r[1]] # "open"
      PROVE  SignalOf[r] \in fired' \/ server'[r[1]] # "open"
  BY <1>0, <1>1
<1>2. ASSUME NEW c \in Conns, Connect(c) PROVE SignalOf[r] \in fired' \/ server'[r[1]] # "open"
  <2>1. UNCHANGED <<aborted, fired>> /\ server' = [server EXCEPT ![c] = "open"] /\ server[c] = "none"
    BY <1>2 DEF Connect, Numbered
  <2>2. r[1] # c  BY <1>0, <2>1
  <2> QED  BY <1>0, <1>1, <2>1, <2>2 DEF RpcTypes
<1>3. ASSUME NEW c \in Conns, Close(c) PROVE SignalOf[r] \in fired' \/ server'[r[1]] # "open"
  <2>1. server' = [server EXCEPT ![c] = "closed"] /\ aborted' = aborted \cup Running(c) /\ UNCHANGED fired  BY <1>3 DEF Close
  <2>2. r \in Running(c) => server'[r[1]] = "closed"  BY <2>1 DEF Running, RpcTypes
  <2> QED  BY <1>0, <1>1, <2>1, <2>2 DEF RpcTypes
<1>4. ASSUME NEW c \in Conns, Finally(c) PROVE SignalOf[r] \in fired' \/ server'[r[1]] # "open"
  <2>1. server' = [server EXCEPT ![c] = "gone"] /\ UNCHANGED <<aborted, fired>>  BY <1>4 DEF Finally
  <2> QED  BY <1>0, <1>1, <2>1 DEF RpcTypes
<1>5. CASE StopServer
  <2> DEFINE known == {c \in Conns : \E i \in DOMAIN clients : clients[i] = c}
  <2>1. /\ server' = [c \in Conns |-> IF c \in known /\ server[c] = "open" THEN "closed" ELSE server[c]]
        /\ aborted' = aborted \cup UNION {Running(c) : c \in known} /\ UNCHANGED fired
    BY <1>5 DEF StopServer
  <2> HIDE DEF known
  <2>2. \A c \in known : c \in Conns  BY DEF known
  <2>3. \A c \in Conns : (c \in known \/ server[c] # "open") => server'[c] # "open"  BY <2>1
  <2>4. CASE r \in aborted  BY <1>0, <1>1, <2>1, <2>3, <2>4
  <2>5. CASE \E c \in known : r \in Running(c)  BY <2>2, <2>3, <2>5 DEF Running
  <2> QED  BY <2>1, <2>4, <2>5
<1>6. ASSUME NEW c \in Conns, Dispatch(c) PROVE SignalOf[r] \in fired' \/ server'[r[1]] # "open"
  <2>1. UNCHANGED <<fired, server>>  BY <1>6 DEF Dispatch
  <2>2. r \in aborted \/ SignalOf[r] \in fired  BY <1>6, Dispatched
  <2> QED  BY <1>0, <2>1, <2>2
<1>7. ASSUME \/ \E c \in Conns : Receive(c) \/ Stop(c)
             \/ \E q \in Requests : Request(q) \/ Return(q)
             \/ \E s \in Signals : Fire(s)
      PROVE  UNCHANGED <<aborted, server>> /\ fired \subseteq fired'
  BY <1>7 DEF Receive, Stop, Request, Return, Fire
<1> QED  BY <1>1, <1>2, <1>3, <1>4, <1>5, <1>6, <1>7 DEF Next

LEMMA DisconnectCancelsKept ==
  ASSUME ConstantsOK, RpcTypes, Queued, Numbered, DisconnectCancels, Next
  PROVE  DisconnectCancels'
<1> USE DEF clientVars, serverVars
<1> SUFFICES ASSUME NEW c \in Conns, server'[c] \in {"closed", "gone"}, NEW r \in Requests, r[1] = c, method'[r] = "running"
             PROVE  r \in aborted'
  BY DEF DisconnectCancels, Running
<1>1. server[c] \in {"closed", "gone"} /\ method[r] = "running" => r \in aborted  BY DEF DisconnectCancels, Running
<1>2. ASSUME NEW d \in Conns, Connect(d) PROVE r \in aborted'
  <2>1. UNCHANGED <<aborted, method>> /\ server' = [server EXCEPT ![d] = "open"]  BY <1>2 DEF Connect
  <2> QED  BY <1>1, <2>1 DEF RpcTypes
<1>3. ASSUME NEW d \in Conns, Close(d) PROVE r \in aborted'
  <2>1. server' = [server EXCEPT ![d] = "closed"] /\ aborted' = aborted \cup Running(d) /\ UNCHANGED method  BY <1>3 DEF Close
  <2>2. d = c => r \in Running(d)  BY <2>1 DEF Running
  <2> QED  BY <1>1, <2>1, <2>2 DEF RpcTypes
<1>4. ASSUME NEW d \in Conns, Finally(d) PROVE r \in aborted'
  <2>1. server' = [server EXCEPT ![d] = "gone"] /\ server[d] = "closed" /\ UNCHANGED <<aborted, method>>  BY <1>4 DEF Finally
  <2> QED  BY <1>1, <2>1 DEF RpcTypes
<1>5. CASE StopServer
  <2> DEFINE known == {x \in Conns : \E i \in DOMAIN clients : clients[i] = x}
  <2>1. /\ server' = [x \in Conns |-> IF x \in known /\ server[x] = "open" THEN "closed" ELSE server[x]]
        /\ aborted' = aborted \cup UNION {Running(x) : x \in known} /\ UNCHANGED method
    BY <1>5 DEF StopServer
  <2> HIDE DEF known
  <2>2. r \in Running(c)  BY <2>1 DEF Running
  <2>3. c \in known \/ server'[c] = server[c]  BY <2>1
  <2> QED  BY <1>1, <2>1, <2>2, <2>3
<1>6. ASSUME NEW d \in Conns, Dispatch(d) PROVE r \in aborted'
  <2>1. UNCHANGED server  BY <1>6 DEF Dispatch
  <2>2. PICK q \in Requests :
          /\ q[1] = d /\ server[d] = "open"
          /\ \/ method' = [method EXCEPT ![q] = "running"] /\ aborted' = aborted
             \/ method' = method /\ aborted \subseteq aborted'
    BY <1>6, Dispatched
  <2>3. q # r  BY <2>1, <2>2
  <2> QED  BY <1>1, <2>1, <2>2, <2>3 DEF RpcTypes
<1>7. ASSUME NEW q \in Requests, Return(q) PROVE r \in aborted'
  <2>1. UNCHANGED <<server, aborted>> /\ method' = [method EXCEPT ![q] = "ended"]  BY <1>7 DEF Return
  <2> QED  BY <1>1, <2>1 DEF RpcTypes
<1>8. ASSUME \/ \E d \in Conns : Receive(d) \/ Stop(d)
             \/ \E q \in Requests : Request(q)
             \/ \E s \in Signals : Fire(s)
      PROVE  UNCHANGED <<aborted, server, method>>
  BY <1>8 DEF Receive, Stop, Request, Fire
<1> QED  BY <1>1, <1>2, <1>3, <1>4, <1>5, <1>6, <1>7, <1>8 DEF Next

\* While a client runs, a request that was sent has not got lost, and the abort of one whose signal has fired has not.
InQueue(kind, r) == \E i \in 1..Len(sent[r[1]]) : sent[r[1]][i].kind = kind /\ sent[r[1]][i].of = r

NoticedOf(r) ==
  pending[r] # "none" /\ client[r[1]] = "open" =>
    /\ InQueue("request", r) \/ method[r] # "none"
    /\ SignalOf[r] \notin fired => onabort[SignalOf[r]] = r
    /\ SignalOf[r] \in fired => InQueue("abort", r) \/ r \in aborted \/ method[r] = "ended"

Noticed == \A r \in Requests : NoticedOf(r)

LEMMA StaysQueued ==
  ASSUME RpcTypes, NEW r \in Requests, r[1] \in Conns, NEW kind, InQueue(kind, r), NEW m \in Messages,
         sent'[r[1]] = sent[r[1]] \/ sent'[r[1]] = Append(sent[r[1]], m)
  PROVE  InQueue(kind, r)'
<1>1. sent[r[1]] \in Seq(Messages)  BY DEF RpcTypes
<1>2. PICK i \in 1..Len(sent[r[1]]) : sent[r[1]][i].kind = kind /\ sent[r[1]][i].of = r  BY DEF InQueue
<1>3. i \in 1..Len(sent'[r[1]]) /\ sent'[r[1]][i] = sent[r[1]][i]  BY <1>1, <1>2, Appended
<1> QED  BY <1>2, <1>3 DEF InQueue

LEMMA NewlyQueued ==
  ASSUME RpcTypes, NEW r \in Requests, r[1] \in Conns, NEW m \in Messages, m.of = r, sent'[r[1]] = Append(sent[r[1]], m)
  PROVE  InQueue(m.kind, r)'
<1>1. sent[r[1]] \in Seq(Messages)  BY DEF RpcTypes
<1>2. Len(sent[r[1]]) + 1 \in 1..Len(sent'[r[1]]) /\ sent'[r[1]][Len(sent[r[1]]) + 1] = m  BY <1>1, Appended
<1> QED  BY <1>2 DEF InQueue

\* What is taken out of the queue is its head.
LEMMA TakenOut ==
  ASSUME RpcTypes, NEW r \in Requests, r[1] \in Conns, NEW kind, InQueue(kind, r), sent[r[1]] # <<>>, sent'[r[1]] = Tail(sent[r[1]])
  PROVE  InQueue(kind, r)' \/ (Head(sent[r[1]]).kind = kind /\ Head(sent[r[1]]).of = r)
<1>1. sent[r[1]] \in Seq(Messages)  BY DEF RpcTypes
<1>2. PICK i \in 1..Len(sent[r[1]]) : sent[r[1]][i].kind = kind /\ sent[r[1]][i].of = r  BY DEF InQueue
<1>3. CASE i = 1  BY <1>1, <1>2, <1>3, Shifted
<1>4. CASE i # 1
  <2>1. i - 1 \in 1..Len(sent[r[1]]) - 1 /\ (i - 1) + 1 = i  BY <1>1, <1>2, <1>4
  <2>2. i - 1 \in 1..Len(sent'[r[1]]) /\ sent'[r[1]][i - 1] = sent[r[1]][i]  BY <1>1, <2>1, Shifted
  <2> QED  BY <1>2, <2>2 DEF InQueue
<1> QED  BY <1>3, <1>4

LEMMA NoticedKept ==
  ASSUME ConstantsOK, OwnSignals, RpcTypes, Queued, Responded, Numbered, Started, Noticed, Next
  PROVE  Noticed'
<1> USE DEF clientVars, serverVars
<1> SUFFICES ASSUME NEW r \in Requests, pending'[r] # "none", client'[r[1]] = "open" PROVE NoticedOf(r)'
  BY DEF Noticed, NoticedOf
<1>0. r[1] \in Conns /\ SignalOf[r] \in Signals  BY RequestFields
<1>1. NoticedOf(r)  BY DEF Noticed
<1>2. ASSUME pending[r] # "none", client[r[1]] = "open", UNCHANGED <<fired, onabort>>, sent'[r[1]] = sent[r[1]],
             method[r] # "none" => method'[r] # "none", method[r] = "ended" => method'[r] = "ended", r \in aborted => r \in aborted'
      PROVE  NoticedOf(r)'
  BY <1>1, <1>2 DEF InQueue, NoticedOf
<1>3. ASSUME NEW c \in Conns, Connect(c) \/ Close(c) \/ Finally(c) PROVE NoticedOf(r)'
  <2>1. UNCHANGED <<pending, fired, onabort, sent, method>> /\ aborted \subseteq aborted'
    BY <1>3 DEF Connect, Close, Finally
  <2>2. client[r[1]] = "open" \/ client[r[1]] = "new"  BY <1>0, <1>3 DEF Connect, Close, Finally, RpcTypes
  <2>3. pending[r] # "none" /\ client[r[1]] = "open"  BY <2>1, <2>2 DEF Started
  <2> QED  BY <1>2, <2>1, <2>3
<1>4. ASSUME NEW c \in Conns, Receive(c) PROVE NoticedOf(r)'
  <2>1. UNCHANGED <<client, fired, onabort, sent, method, aborted>>  BY <1>4 DEF Receive
  <2>2. pending[r] # "none"
    <3>1. back[c] # <<>> /\ back[c] \in Seq(Requests)  BY <1>4 DEF Receive, RpcTypes
    <3>2. Head(back[c]) \in Requests /\ 1 \in 1..Len(back[c]) /\ Head(back[c]) = back[c][1]  BY <3>1, Shifted
    <3>3. method[Head(back[c])] = "ended"  BY <3>2 DEF Responded
    <3> QED  BY <1>4, <3>2, <3>3 DEF Receive, RpcTypes, Started
  <2> QED  BY <1>2, <2>1, <2>2
<1>5. ASSUME NEW c \in Conns, Stop(c) PROVE NoticedOf(r)'
  <2>1. UNCHANGED <<fired, onabort, sent, method, aborted>>  BY <1>5 DEF Stop
  <2>2. pending[r] # "none" /\ client[r[1]] = "open"  BY <1>0, <1>5 DEF Stop, RpcTypes
  <2> QED  BY <1>2, <2>1, <2>2
<1>6. ASSUME NEW q \in Requests, Return(q) PROVE NoticedOf(r)'
  <2>1. UNCHANGED <<pending, client, fired, onabort, sent, aborted>>  BY <1>6 DEF Return
  <2>2. method' = [method EXCEPT ![q] = "ended"]  BY <1>6 DEF Return
  <2> QED  BY <1>2, <2>1, <2>2 DEF RpcTypes
<1>7. CASE StopServer
  <2>1. UNCHANGED <<client, pending, fired, onabort, sent, method>> /\ aborted \subseteq aborted'  BY <1>7 DEF StopServer
  <2> QED  BY <1>2, <2>1
<1>8. ASSUME NEW q \in Requests, Request(q) PROVE NoticedOf(r)'
  <2> DEFINE m == [kind |-> "request", of |-> q]
  <2>1. /\ pending' = [pending EXCEPT ![q] = "pending"] /\ onabort' = [onabort EXCEPT ![SignalOf[q]] = q]
        /\ UNCHANGED <<client, method, aborted, fired>> /\ SignalOf[q] \notin fired
        /\ sent' = IF client[q[1]] = "open" THEN [sent EXCEPT ![q[1]] = Append(sent[q[1]], m)] ELSE sent
    BY <1>8 DEF Request
  <2>2. m \in Messages /\ m.of = q /\ m.kind = "request"  BY DEF Messages
  <2> HIDE DEF m
  <2>3. CASE q = r
    <3>1. sent'[r[1]] = Append(sent[r[1]], m)  BY <1>0, <2>1, <2>3 DEF RpcTypes
    <3>2. InQueue("request", r)'  BY <1>0, <2>2, <2>3, <3>1, NewlyQueued
    <3>3. onabort'[SignalOf[r]] = r /\ SignalOf[r] \notin fired'  BY <1>0, <2>1, <2>3 DEF RpcTypes
    <3> QED  BY <3>2, <3>3 DEF NoticedOf
  <2>4. CASE q # r
    <3>1. sent'[r[1]] = sent[r[1]] \/ sent'[r[1]] = Append(sent[r[1]], m)  BY <1>0, <2>1 DEF RpcTypes
    <3>2. onabort'[SignalOf[r]] = onabort[SignalOf[r]]  BY <1>0, <2>1, <2>4 DEF OwnSignals, RpcTypes
    <3>3. pending[r] # "none" /\ client[r[1]] = "open"  BY <2>1, <2>4 DEF RpcTypes
    <3>4. \A kind : InQueue(kind, r) => InQueue(kind, r)'  BY <1>0, <2>2, <3>1, StaysQueued
    <3> QED  BY <1>1, <2>1, <3>2, <3>3, <3>4 DEF NoticedOf
  <2> QED  BY <2>3, <2>4
<1>9. ASSUME NEW s \in Signals, Fire(s) PROVE NoticedOf(r)'
  <2>1. UNCHANGED <<client, pending, method, aborted, onabort>> /\ s \notin fired /\ fired' = fired \cup {s}  BY <1>9 DEF Fire
  <2>2. pending[r] # "none" /\ client[r[1]] = "open"  BY <2>1
  <2>3. CASE s = SignalOf[r]
    <3> DEFINE m == [kind |-> "abort", of |-> r]
    <3>1. onabort[s] = r /\ (InQueue("request", r) \/ method[r] # "none")  BY <1>1, <2>1, <2>2, <2>3 DEF NoticedOf
    <3>2. r # None  BY DEF ConstantsOK
    <3>3. sent'[r[1]] = Append(sent[r[1]], m)  BY <1>0, <1>9, <2>2, <3>1, <3>2 DEF Fire, RpcTypes
    <3>4. m \in Messages /\ m.of = r /\ m.kind = "abort"  BY DEF Messages
    <3> HIDE DEF m
    <3>5. InQueue("abort", r)'  BY <1>0, <3>3, <3>4, NewlyQueued
    <3>6. InQueue("request", r) => InQueue("request", r)'  BY <1>0, <3>3, <3>4, StaysQueued
    <3> QED  BY <2>1, <2>3, <3>1, <3>5, <3>6 DEF NoticedOf
  <2>4. CASE s # SignalOf[r]
    <3>1. sent'[r[1]] = sent[r[1]] \/ \E m \in Messages : sent'[r[1]] = Append(sent[r[1]], m)
      <4>1. onabort[s] # None => [kind |-> "abort", of |-> onabort[s]] \in Messages /\ onabort[s] \in Requests  BY DEF Messages, RpcTypes
      <4>2. sent' = sent \/ (onabort[s] # None /\ sent' = [sent EXCEPT ![onabort[s][1]] = Append(sent[onabort[s][1]], [kind |-> "abort", of |-> onabort[s]])])
        BY <1>9 DEF Fire
      <4>3. CASE sent' = sent  BY <4>3
      <4>4. CASE sent' # sent
        <5>1. PICK q \in Requests : q = onabort[s]  BY <4>1, <4>2, <4>4
        <5>2. PICK m \in Messages : m = [kind |-> "abort", of |-> q]  BY <5>1 DEF Messages
        <5>3. sent' = [sent EXCEPT ![q[1]] = Append(sent[q[1]], m)]  BY <4>2, <4>4, <5>1, <5>2
        <5> QED  BY <1>0, <5>3 DEF RpcTypes
      <4> QED  BY <4>3, <4>4
    <3>2. \A kind : InQueue(kind, r) => InQueue(kind, r)'
      <4>1. [kind |-> "abort", of |-> r] \in Messages  BY DEF Messages
      <4> QED  BY <1>0, <3>1, <4>1, StaysQueued
    <3> QED  BY <1>1, <2>1, <2>2, <2>4, <3>2 DEF NoticedOf
  <2> QED  BY <2>3, <2>4
<1>10. ASSUME NEW c \in Conns, Dispatch(c) PROVE NoticedOf(r)'
  <2> DEFINE q == Head(sent[c]).of
             kind == Head(sent[c]).kind
  <2>1. /\ q \in Requests /\ q[1] = c
        /\ \/ kind = "request" /\ method[q] = "none" /\ method' = [method EXCEPT ![q] = "running"] /\ aborted' = aborted
           \/ kind = "abort" /\ method' = method /\ aborted' = aborted \cup (IF method[q] = "running" THEN {q} ELSE {})
    BY <1>10, Dispatched
  <2>2. sent[c] # <<>> /\ sent' = [sent EXCEPT ![c] = Tail(sent[c])] /\ UNCHANGED <<client, pending, fired, onabort>>
    BY <1>10 DEF Dispatch
  <2>3. (method[r] # "none" => method'[r] # "none") /\ (method[r] = "ended" => method'[r] = "ended") /\ (r \in aborted => r \in aborted')
    BY <2>1 DEF RpcTypes
  <2>4. CASE c # r[1]
    <3>1. sent'[r[1]] = sent[r[1]]  BY <1>0, <2>2, <2>4 DEF RpcTypes
    <3> QED  BY <1>2, <2>2, <2>3, <3>1
  <2>5. CASE c = r[1]
    <3>1. sent'[r[1]] = Tail(sent[r[1]])  BY <1>0, <2>2, <2>5 DEF RpcTypes
    <3>2. \A k : InQueue(k, r) => InQueue(k, r)' \/ (kind = k /\ q = r)  BY <1>0, <2>2, <2>5, <3>1, TakenOut
    <3>3. kind = "request" /\ q = r => method'[r] # "none"  BY <2>1 DEF RpcTypes
    <3>4. kind = "abort" /\ q = r => r \in aborted' \/ method'[r] = "ended"
      <4> SUFFICES ASSUME kind = "abort", q = r PROVE method[r] # "none" /\ method' = method /\ (method[r] = "running" => r \in aborted')
        BY DEF RpcTypes
      <4>1. ~InQueue("request", r)
        <5> SUFFICES ASSUME NEW j \in 1..Len(sent[c]), sent[c][j].kind = "request", sent[c][j].of = r PROVE FALSE  BY <2>5 DEF InQueue
        <5>1. sent[c] \in Seq(Messages)  BY <1>0, <2>5 DEF RpcTypes
        <5>2. 1 \in 1..Len(sent[c]) /\ Head(sent[c]) = sent[c][1]  BY <2>2, <5>1, Shifted
        <5>3. j <= 1  BY <1>0, <2>5, <5>2 DEF Queued
        <5>4. j = 1  BY <5>1, <5>3
        <5> QED  BY <5>2, <5>4
      <4>2. method[r] # "none"  BY <1>1, <2>2, <4>1 DEF NoticedOf
      <4> QED  BY <2>1, <4>2
    <3> QED  BY <1>1, <2>2, <2>3, <3>2, <3>3, <3>4 DEF NoticedOf
  <2> QED  BY <2>4, <2>5
<1> QED  BY <1>3, <1>4, <1>5, <1>6, <1>7, <1>8, <1>9, <1>10 DEF Next

RpcInv == RpcTypes /\ Numbered /\ Queued /\ Responded /\ Started /\ Handled /\ AbortedByOwn /\ DisconnectCancels

LEMMA RpcInvInit == ASSUME ConstantsOK, Init PROVE RpcInv
<1>1. RpcTypes  BY RpcTypesInit
<1>2. Numbered
  <2>1. Connected = {} /\ Cardinality({}) = 0  BY FS_EmptySet DEF Init, Connected
  <2> QED  BY <2>1 DEF Init, Numbered
<1>3. Queued /\ Responded
  <2>1. \A c \in Conns : 1..Len(sent[c]) = {} /\ 1..Len(back[c]) = {}  BY DEF Init
  <2> QED  BY <2>1 DEF Queued, Responded
<1>4. Started /\ Handled /\ AbortedByOwn /\ DisconnectCancels
  BY RequestFields DEF Init, Started, Handled, AbortedByOwn, DisconnectCancels, Running
<1> QED  BY <1>1, <1>2, <1>3, <1>4 DEF RpcInv

LEMMA RpcInvKept == ASSUME ConstantsOK, RpcInv, [Next]_vars PROVE RpcInv'
<1>1. CASE Next
  <2>1. RpcTypes' /\ Numbered' /\ Queued'  BY <1>1, RpcTypesKept, NumberedKept, QueuedKept DEF RpcInv
  <2>2. Responded' /\ Started' /\ Handled'  BY <1>1, RespondedKept, StartedKept, HandledKept DEF RpcInv
  <2>3. AbortedByOwn' /\ DisconnectCancels'  BY <1>1, AbortedByOwnKept, DisconnectCancelsKept DEF RpcInv
  <2> QED  BY <2>1, <2>2, <2>3 DEF RpcInv
<1>2. CASE UNCHANGED vars
  BY <1>2 DEF vars, RpcInv, RpcTypes, Numbered, Connected, Queued, Responded, Started, Handled, AbortedByOwn, DisconnectCancels, Running
<1> QED  BY <1>1, <1>2

\* The rpc: a method is aborted only if the signal of its own request has fired or its own connection is closed, and a
\* connection that closes aborts whatever it asked for; for any connections, requests, signals and stops, as long as
\* genId gives no number twice.
THEOREM AbortedByOwnCorrect == ASSUME ConstantsOK PROVE Spec => [](TypeOK /\ AbortedByOwn /\ DisconnectCancels)
<1>1. Init => RpcInv  BY RpcInvInit
<1>2. RpcInv /\ [Next]_vars => RpcInv'  BY RpcInvKept
<1>3. RpcInv => TypeOK /\ AbortedByOwn /\ DisconnectCancels  BY DEF RpcInv, RpcTypes, Started, TypeOK
<1> QED  BY <1>1, <1>2, <1>3, PTL DEF Spec

\* The rpc: when every request has a signal of its own, an abort that has travelled has aborted the method, whatever
\* was sent before it.
THEOREM SignalCancelsCorrect == ASSUME ConstantsOK, OwnSignals PROVE Spec => []SignalCancels
<1>1. Init => RpcInv /\ Noticed
  <2>1. Init => Noticed  BY DEF Init, Noticed, NoticedOf
  <2> QED  BY <2>1, RpcInvInit
<1>2. RpcInv /\ Noticed /\ [Next]_vars => (RpcInv /\ Noticed)'
  <2>1. ASSUME RpcInv, Noticed, Next PROVE Noticed'  BY <2>1, NoticedKept DEF RpcInv
  <2>2. ASSUME Noticed, UNCHANGED vars PROVE Noticed'  BY <2>2 DEF vars, Noticed, NoticedOf, InQueue
  <2> QED  BY <2>1, <2>2, RpcInvKept
<1>3. RpcInv /\ Noticed => SignalCancels
  <2> SUFFICES ASSUME RpcInv, Noticed, NEW r \in Requests, SignalOf[r] \in fired, client[r[1]] = "open",
                      sent[r[1]] = <<>>, method[r] = "running"
               PROVE  r \in aborted
    BY DEF SignalCancels
  <2>1. pending[r] # "none"  BY DEF RpcInv, Started
  <2>2. ~InQueue("abort", r)  BY DEF InQueue
  <2> QED  BY <2>1, <2>2 DEF Noticed, NoticedOf
<1> QED  BY <1>1, <1>2, <1>3, PTL DEF Spec

\* The rpc: both together, as the run checks them: a running method is aborted if and only if its own signal has fired or
\* its own connection is closed, once the abort has travelled.
THEOREM MethodsAbortedCorrect == ASSUME ConstantsOK, OwnSignals PROVE Spec => []MethodsAborted
<1>1. TypeOK /\ AbortedByOwn /\ DisconnectCancels /\ SignalCancels => MethodsAborted  BY DEF MethodsAborted
<1> QED  BY <1>1, AbortedByOwnCorrect, SignalCancelsCorrect, PTL

-----------------------------------------------------------------------------
(* ManualBlockBroker *)

BrokerTypes ==
  /\ map \in [Cids -> Calls \cup {None}]
  /\ calls \in [Calls -> [pc : {"idle", "waiting", "resolved", "rejected"}, cid : Cids, of : Calls \cup {None},
                         aborted : BOOLEAN]]

\* The call that made a promise of the map waits for it itself; this makes what is wanted be waited for.
Owned == \A cid \in Cids : map[cid] # None => calls[map[cid]].pc = "waiting" /\ calls[map[cid]].cid = cid /\ calls[map[cid]].of = map[cid]

BrokerInv == BrokerTypes /\ Owned

\* Only the calls that wait for the promise of `of` are settled.
LEMMA Settled1 ==
  ASSUME NEW cs \in [Calls -> [pc : {"idle", "waiting", "resolved", "rejected"}, cid : Cids, of : Calls \cup {None},
                              aborted : BOOLEAN]],
         NEW of, NEW pc \in {"resolved", "rejected"}
  PROVE  /\ Broker!Settle(of, pc, cs) \in [Calls -> [pc : {"idle", "waiting", "resolved", "rejected"}, cid : Cids,
                                                    of : Calls \cup {None}, aborted : BOOLEAN]]
         /\ \A c \in Calls : cs[c].of # of => Broker!Settle(of, pc, cs)[c] = cs[c]
BY DEF Broker!Settle

LEMMA BrokerKept == ASSUME Broker!ConstantsOK, BrokerInv, Broker!Next PROVE BrokerInv'
<1> USE DEF BrokerInv, BrokerTypes
<1>1. ASSUME NEW c \in Calls, NEW x \in Cids, Broker!Retrieve(c, x) PROVE BrokerInv'
  <2>1. /\ calls[c].pc = "idle" /\ map' = [map EXCEPT ![x] = IF map[x] = None THEN c ELSE map[x]]
        /\ calls' = [calls EXCEPT ![c] = [calls[c] EXCEPT !.pc = "waiting", !.cid = x, !.of = map'[x]]]
    BY <1>1 DEF Broker!Retrieve
  <2>2. map' \in [Cids -> Calls \cup {None}] /\ map'[x] = IF map[x] = None THEN c ELSE map[x]  BY <2>1
  <2>3. calls'[c].pc = "waiting" /\ calls'[c].cid = x /\ calls'[c].of = map'[x]  BY <2>1
  <2>4. BrokerTypes'
    <3>1. map'[x] \in Calls \cup {None}  BY <2>2
    <3>2. [calls[c] EXCEPT !.pc = "waiting", !.cid = x, !.of = map'[x]]
            \in [pc : {"idle", "waiting", "resolved", "rejected"}, cid : Cids, of : Calls \cup {None}, aborted : BOOLEAN]
      BY <3>1
    <3> QED  BY <2>1, <2>2, <3>2
  <2>5. \A y \in Cids : map[y] # None => map[y] \in Calls /\ map[y] # c /\ calls'[map[y]] = calls[map[y]]
    BY <2>1 DEF Owned
  <2>6. Owned'
    <3> SUFFICES ASSUME NEW y \in Cids, map'[y] # None
                 PROVE  calls'[map'[y]].pc = "waiting" /\ calls'[map'[y]].cid = y /\ calls'[map'[y]].of = map'[y]
      BY DEF Owned
    <3>1. CASE map[y] # None
      <4>1. map'[y] = map[y]  BY <2>1, <3>1
      <4> QED  BY <2>5, <3>1, <4>1 DEF Owned
    <3>2. CASE map[y] = None
      <4>1. y = x /\ map'[y] = c  BY <2>1, <3>2
      <4> QED  BY <2>3, <4>1
    <3> QED  BY <3>1, <3>2
  <2> QED  BY <2>4, <2>6
<1>2. ASSUME NEW x \in Cids, Broker!Provide(x) PROVE BrokerInv'
  <2>1. calls' = Broker!Settle(map[x], "resolved", calls) /\ map' = [map EXCEPT ![x] = None] /\ map[x] \in Calls
    BY <1>2 DEF Broker!Provide
  <2>2. \A y \in Cids : map'[y] # None => map'[y] = map[y] /\ y # x /\ map[y] \in Calls  BY <2>1
  <2>3. \A y \in Cids : map'[y] # None => calls[map[y]].of # map[x]
    <3>1. \A y \in Cids : map[y] # None => calls[map[y]].of = map[y] /\ calls[map[y]].cid = y  BY DEF Owned
    <3>2. calls[map[x]].cid = x  BY <2>1, <3>1, <1>2 DEF Broker!Provide
    <3> QED  BY <2>2, <3>1, <3>2
  <2>4. BrokerTypes'  BY <2>1, Settled1
  <2>5. \A y \in Cids : map'[y] # None => calls'[map[y]] = calls[map[y]]  BY <2>1, <2>2, <2>3, Settled1
  <2>6. Owned'  BY <2>2, <2>5 DEF Owned
  <2> QED  BY <2>4, <2>6
<1>3. ASSUME NEW c \in Calls, Broker!Abort(c) PROVE BrokerInv'
  <2> DEFINE fired2 == [calls EXCEPT ![c].aborted = TRUE]
  <2>1. fired2 \in [Calls -> [pc : {"idle", "waiting", "resolved", "rejected"}, cid : Cids, of : Calls \cup {None},
                             aborted : BOOLEAN]]
        /\ \A d \in Calls : fired2[d].pc = calls[d].pc /\ fired2[d].cid = calls[d].cid /\ fired2[d].of = calls[d].of
    OBVIOUS
  <2>2. CASE calls[c].of # c
    <3>1. calls' = fired2 /\ map' = map  BY <1>3, <2>2 DEF Broker!Abort
    <3> HIDE DEF fired2
    <3>2. BrokerTypes'  BY <2>1, <3>1
    <3>3. Owned'  BY <2>1, <3>1 DEF Owned
    <3> QED  BY <3>2, <3>3
  <2>3. CASE calls[c].of = c
    <3>1. calls' = Broker!Settle(c, "rejected", fired2) /\ map' = [map EXCEPT ![calls[c].cid] = None]
      BY <1>3, <2>3 DEF Broker!Abort
    <3> HIDE DEF fired2
    <3>2. calls[c].cid \in Cids  OBVIOUS
    <3>3. BrokerTypes'  BY <2>1, <3>1, Settled1
    <3>4. \A y \in Cids : map'[y] # None => map'[y] = map[y] /\ y # calls[c].cid /\ map[y] \in Calls  BY <3>1, <3>2
    <3>5. \A y \in Cids : map'[y] # None => calls[map[y]].of # c /\ calls[map[y]].pc = "waiting" /\ calls[map[y]].cid = y
      BY <3>4 DEF Owned
    <3>6. \A y \in Cids : map'[y] # None => calls'[map[y]] = fired2[map[y]]  BY <2>1, <3>1, <3>4, <3>5, Settled1
    <3>7. Owned'  BY <2>1, <3>4, <3>5, <3>6 DEF Owned
    <3> QED  BY <3>3, <3>7
  <2> QED  BY <2>2, <2>3
<1> QED  BY <1>1, <1>2, <1>3 DEF Broker!Next

\* getWants: what is listed as wanted has a call that waits for it, for any calls and blocks, whatever is joined,
\* provided or aborted.
THEOREM WantsAreWaitedForCorrect == ASSUME Broker!ConstantsOK PROVE Broker!Spec => []WantsAreWaitedFor
<1>1. Broker!Init => BrokerInv
  <2> SUFFICES ASSUME Broker!Init PROVE BrokerInv  OBVIOUS
  <2>1. (CHOOSE x \in Cids : TRUE) \in Cids  BY DEF Broker!ConstantsOK
  <2>2. BrokerTypes  BY <2>1 DEF Broker!Init, BrokerTypes
  <2>3. Owned  BY DEF Broker!Init, Owned
  <2> QED  BY <2>2, <2>3 DEF BrokerInv
<1>2. BrokerInv /\ [Broker!Next]_(Broker!brokerVars) => BrokerInv'
  <2>1. ASSUME BrokerInv, Broker!Next PROVE BrokerInv'  BY <2>1, BrokerKept
  <2>2. ASSUME BrokerInv, UNCHANGED Broker!brokerVars PROVE BrokerInv'
    BY <2>2 DEF Broker!brokerVars, BrokerInv, BrokerTypes, Owned
  <2> QED  BY <2>1, <2>2
<1>3. BrokerInv => WantsAreWaitedFor
  BY DEF BrokerInv, Owned, WantsAreWaitedFor, Broker!WantsAreWaitedFor, Broker!Wants
<1> QED  BY <1>1, <1>2, <1>3, PTL DEF Broker!Spec

-----------------------------------------------------------------------------
(* Fuse *)

Names == UNION {{p[i] : i \in DOMAIN p} : p \in Paths \cup Directories}

\* A prefix, name by name.
LEMMA PrefixByName ==
  ASSUME NEW S, NEW s \in Seq(S), NEW t \in Seq(S)
  PROVE  Mount!IsPrefix(s, t) <=> Len(s) <= Len(t) /\ \A i \in 1..Len(s) : s[i] = t[i]
<1>1. Len(s) \in Nat /\ Len(t) \in Nat  OBVIOUS
<1>2. ASSUME Len(s) <= Len(t) PROVE SubSeq(s, 1, Len(s)) = SubSeq(t, 1, Len(s)) <=> \A i \in 1..Len(s) : s[i] = t[i]
  <2>1. /\ SubSeq(s, 1, Len(s)) \in Seq(S) /\ SubSeq(t, 1, Len(s)) \in Seq(S)
        /\ Len(SubSeq(s, 1, Len(s))) = Len(s) /\ Len(SubSeq(t, 1, Len(s))) = Len(s)
        /\ \A i \in 1..Len(s) : SubSeq(s, 1, Len(s))[i] = s[i] /\ SubSeq(t, 1, Len(s))[i] = t[i]
    BY <1>1, <1>2
  <2>2. (\A i \in 1..Len(s) : s[i] = t[i]) => SubSeq(s, 1, Len(s)) = SubSeq(t, 1, Len(s))
    BY <2>1, SeqEqual
  <2> QED  BY <2>1, <2>2
<1> QED  BY <1>2 DEF Mount!IsPrefix

LEMMA FrontByName ==
  ASSUME NEW S, NEW s \in Seq(S), Len(s) >= 1
  PROVE  LET f == Mount!Front(s) IN f \in Seq(S) /\ Len(f) = Len(s) - 1 /\ \A i \in 1..Len(s) - 1 : f[i] = s[i]
<1>0. Len(s) - 1 \in Nat /\ Len(s) - 1 <= Len(s)
  <2>1. Len(s) \in Nat  OBVIOUS
  <2>2. ASSUME NEW k \in Nat, k >= 1 PROVE k - 1 \in Nat /\ k - 1 <= k  BY <2>2
  <2> QED  BY <2>1, <2>2
<1>1. PICK n \in Nat : n = Len(s) - 1 /\ n <= Len(s)  BY <1>0
<1>2. Mount!Front(s) = SubSeq(s, 1, n)  BY <1>1 DEF Mount!Front
<1>3. SubSeq(s, 1, n) \in Seq(S) /\ Len(SubSeq(s, 1, n)) = n /\ \A i \in 1..n : SubSeq(s, 1, n)[i] = s[i]  BY <1>1, SubSeqProperties
<1> QED  BY <1>1, <1>2, <1>3

\* With plain names, what a path begins with is a beginning of it.
LEMMA StartsWithPrefix ==
  ASSUME Mount!PlainNames, NEW p \in Paths, NEW path \in Seq(Names)
  PROVE  Mount!StartsWith(p, path) <=> Mount!IsPrefix(path, p)
<1>1. p \in Seq(Names) /\ Len(p) \in Nat /\ Len(path) \in Nat /\ \A n, m \in Names : <<n, m>> \in NamePrefix <=> m = n
  BY DEF Mount!PlainNames, Names
<1>2. CASE path = <<>>
  <2>1. Len(path) = 0 /\ Mount!StartsWith(p, path)  BY <1>2 DEF Mount!StartsWith
  <2>2. Len(path) <= Len(p) /\ \A i \in 1..Len(path) : path[i] = p[i]  BY <1>1, <2>1
  <2>3. Mount!IsPrefix(path, p)  BY <1>1, <2>2, PrefixByName
  <2> QED  BY <2>1, <2>3
<1>3. CASE path # <<>>
  <2>1. Len(path) >= 1  BY <1>1, <1>3
  <2> DEFINE front == Mount!Front(path)
  <2>2. front \in Seq(Names) /\ Len(front) = Len(path) - 1 /\ \A i \in 1..Len(path) - 1 : front[i] = path[i]
    BY <2>1, FrontByName
  <2> HIDE DEF front
  <2>3. Mount!IsPrefix(front, p) <=> Len(front) <= Len(p) /\ \A i \in 1..Len(front) : front[i] = p[i]
    BY <1>1, <2>2, PrefixByName
  <2>4. Len(path) <= Len(p) => (<<path[Len(path)], p[Len(path)]>> \in NamePrefix <=> path[Len(path)] = p[Len(path)])
    <3>1. path[Len(path)] \in Names /\ (Len(path) <= Len(p) => p[Len(path)] \in Names)  BY <1>1, <2>1
    <3> QED  BY <1>1, <3>1
  <2>5. Len(path) <= Len(p) =>
          ((\A i \in 1..Len(path) : path[i] = p[i])
            <=> (\A i \in 1..Len(path) - 1 : path[i] = p[i]) /\ path[Len(path)] = p[Len(path)])
    BY <1>1, <2>1
  <2>6. Mount!StartsWith(p, path) <=>
          Len(path) <= Len(p) /\ Mount!IsPrefix(front, p) /\ <<path[Len(path)], p[Len(path)]>> \in NamePrefix
    BY <1>3 DEF Mount!StartsWith, front
  <2>7. Len(path) <= Len(p) => (Mount!IsPrefix(front, p) <=> \A i \in 1..Len(path) - 1 : path[i] = p[i])
    BY <1>1, <2>1, <2>2, <2>3
  <2>8. Mount!IsPrefix(path, p) <=> Len(path) <= Len(p) /\ \A i \in 1..Len(path) : path[i] = p[i]  BY <1>1, PrefixByName
  <2> QED  BY <2>4, <2>5, <2>6, <2>7, <2>8
<1> QED  BY <1>2, <1>3

\* readdir and getattr agree, of any list.
LEMMA ListedThere ==
  ASSUME Mount!PlainNames, NEW list, NEW path \in Directories, NEW e \in Mount!Readdir(list, path)
  PROVE  Mount!Getattr(list, Append(path, e.name)) = e.mode
<1>1. path \in Seq(Names) /\ Paths \subseteq Seq(Names)  BY DEF Mount!PlainNames, Names
<1>2. PICK p \in Mount!Found(list) :
        /\ Mount!StartsWith(p, path) /\ Len(p) > Len(path)
        /\ e = [name |-> p[Len(path) + 1], mode |-> IF p = Append(path, p[Len(path) + 1]) THEN "file" ELSE "dir"]
  BY DEF Mount!Readdir
<1> DEFINE x == Append(path, p[Len(path) + 1])
<1>3. p \in Paths /\ p \in Seq(Names) /\ Len(p) \in Nat /\ Len(path) \in Nat  BY <1>1, <1>2 DEF Mount!Found
<1>4. p[Len(path) + 1] \in Names  BY <1>2, <1>3
<1>5. x \in Seq(Names) /\ Len(x) = Len(path) + 1 /\ x[Len(path) + 1] = p[Len(path) + 1] /\ \A i \in 1..Len(path) : x[i] = path[i]
  BY <1>1, <1>4, Appended
<1>6. Append(path, e.name) = x /\ e.mode = IF p = x THEN "file" ELSE "dir"  BY <1>2
<1> HIDE DEF x
<1>7. Mount!IsPrefix(x, p)
  <2>1. \A i \in 1..Len(path) : path[i] = p[i]  BY <1>1, <1>2, <1>3, StartsWithPrefix, PrefixByName
  <2>2. \A i \in 1..Len(x) : x[i] = p[i]  BY <1>3, <1>5, <2>1
  <2> QED  BY <1>2, <1>3, <1>5, <2>2, PrefixByName
<1>8. CASE p = x  BY <1>2, <1>6, <1>8 DEF Mount!Getattr
<1>9. CASE p # x
  <2>1. x \notin Paths  BY <1>3, <1>7, <1>9 DEF Mount!PlainNames
  <2>2. Mount!StartsWith(p, x)  BY <1>3, <1>5, <1>7, StartsWithPrefix
  <2>3. x \notin Mount!Found(list)  BY <2>1 DEF Mount!Found
  <2> QED  BY <1>2, <1>6, <1>9, <2>2, <2>3 DEF Mount!Getattr
<1> QED  BY <1>8, <1>9

\* The mount: what a directory lists is found there, and is what the directory says it is, for any list and names that
\* do not begin each other.
THEOREM ListedIsFoundCorrect == ASSUME Mount!PlainNames PROVE Mount!Spec => []ListedIsFound
<1>1. ListedIsFound  BY ListedThere DEF ListedIsFound, Mount!ListedIsFound
<1> QED  BY <1>1, PTL

=============================================================================
