------------------------------ MODULE Sneakernet ------------------------------
(***************************************************************************)
(* packages/daemon/src/common/sneakernet: blocks travel on a drive.  A     *)
(* daemon that is sent to the drive writes its wants, and the blocks that  *)
(* it has of what other daemons wanted when it last read their manifests.  *)
(*   has      the block stores                                             *)
(*   trying   downloads that wait for the block brokers (the wants of the  *)
(*            manual block broker)                                         *)
(*   known    the datastore: what p has read of the wants of q             *)
(*   drive    the manifest (of one daemon), and the car file               *)
(*   visit    where the drive is, and what the person does there next:     *)
(*            "receive", "send", "leave"                                   *)
(*   cmd      the running command: what is left of its Promise.all         *)
(*   flush    the car file of which the operating system has not all yet   *)
(* The manual block broker is in ManualBlockBroker; nothing calls provide: *)
(* an imported block is found in the block store by the next attempt.      *)
(* Database heads are stored by the import, and read by nobody.            *)
(***************************************************************************)
EXTENDS Naturals, FiniteSets

CONSTANTS
  Peers, Blocks,
  Needs,        \* peer -> the blocks of its pins
  Held,         \* peer -> the blocks it has at first
  Named,        \* the sets of peers that a send names
  Tour,         \* peer -> where the drive goes next
  MaxCrashes,
  Nothing       \* no file, or no command

Torn == [from |-> Nothing, wants |-> {}]   \* neither a torn nor an empty file can be decoded

VARIABLES has, trying, known, drive, visit, cmd, flush, crashes

vars == <<has, trying, known, drive, visit, cmd, flush, crashes>>

Init ==
  /\ has = Held /\ trying = [p \in Peers |-> {}] /\ known = [p \in Peers |-> [q \in Peers |-> {}]]
  /\ drive = [manifest |-> Torn, car |-> {}]
  /\ visit = [at |-> CHOOSE p \in Peers : TRUE, next |-> "receive"] /\ cmd = [p \in Peers |-> Nothing]
  /\ flush = Nothing /\ crashes = 0

\* An attempt of the downloader asks the brokers; it ends when the block is there, or with its time-out.
Try(p, b) ==
  /\ b \in Needs[p] \ (has[p] \cup trying[p])
  /\ trying' = [trying EXCEPT ![p] = @ \cup {b}]
  /\ UNCHANGED <<has, known, drive, visit, cmd, flush, crashes>>

TimeOut(p, b) ==
  /\ b \in trying[p]
  /\ trying' = [trying EXCEPT ![p] = @ \ {b}]
  /\ UNCHANGED <<has, known, drive, visit, cmd, flush, crashes>>

\* The person with the drive has it received, then sent, at every daemon.
Command(p, kind, then) ==
  /\ visit = [at |-> p, next |-> kind] /\ cmd[p] = Nothing
  /\ visit' = [at |-> p, next |-> then]
  /\ cmd' = [cmd EXCEPT ![p] = [kind |-> kind, todo |-> {"manifest", "blocks"}]]
  /\ UNCHANGED <<has, trying, known, drive, flush, crashes>>

Receive(p) == Command(p, "receive", "send")
Send(p) == Command(p, "send", "leave")

\* The file system of the drive is unmounted.
Leave(p) ==
  /\ visit = [at |-> p, next |-> "leave"] /\ cmd[p] = Nothing /\ flush = Nothing
  /\ visit' = [at |-> Tour[p], next |-> "receive"]
  /\ UNCHANGED <<has, trying, known, drive, cmd, flush, crashes>>

Running(p, kind, part) == cmd[p] # Nothing /\ cmd[p].kind = kind /\ part \in cmd[p].todo
Finish(p, part) ==
  cmd' = [cmd EXCEPT ![p] = IF @.todo = {part} THEN Nothing ELSE [@ EXCEPT !.todo = @ \ {part}]]

SendManifest(p) ==
  /\ Running(p, "send", "manifest")
  /\ drive' = [drive EXCEPT !.manifest = [from |-> p, wants |-> trying[p]]]
  /\ Finish(p, "manifest")
  /\ UNCHANGED <<has, trying, known, visit, flush, crashes>>

\* Mutant: only blocks that all the named peers want.
SendBlocksCommon(p, peers) ==
  /\ Running(p, "send", "blocks")
  /\ LET blocks == {b \in has[p] : \A q \in peers : b \in known[p][q]}
     IN IF peers = {} \/ blocks = {} THEN UNCHANGED <<drive, flush>>
        ELSE drive' = [drive EXCEPT !.car = {}] /\ flush' = blocks
  /\ Finish(p, "blocks")
  /\ UNCHANGED <<has, trying, known, visit, crashes>>

\* exportBlocks: the file of an earlier export stays if there is nothing to write.  Else the stream is piped to the
\* file, and nobody waits for the end of that: the command returns when the stream has been produced.
SendBlocks(p, peers) ==
  /\ Running(p, "send", "blocks")
  /\ LET blocks == has[p] \cap UNION {known[p][q] : q \in peers}
     IN IF blocks = {} THEN UNCHANGED <<drive, flush>>
        ELSE drive' = [drive EXCEPT !.car = {}] /\ flush' = blocks
  /\ Finish(p, "blocks")
  /\ UNCHANGED <<has, trying, known, visit, crashes>>

Flush ==
  /\ flush # Nothing
  /\ drive' = [drive EXCEPT !.car = flush] /\ flush' = Nothing
  /\ UNCHANGED <<has, trying, known, visit, cmd, crashes>>

ReceiveManifest(p) ==
  /\ Running(p, "receive", "manifest")
  /\ LET m == drive.manifest
     IN known' = IF m = Torn THEN known ELSE [known EXCEPT ![p][m.from] = m.wants]
  /\ Finish(p, "manifest")
  /\ UNCHANGED <<has, trying, drive, visit, flush, crashes>>

\* The blocks are put into the block store; what waits for them waits on until its time-out.
ReceiveBlocks(p) ==
  /\ Running(p, "receive", "blocks")
  /\ has' = [has EXCEPT ![p] = @ \cup drive.car]
  /\ Finish(p, "blocks")
  /\ UNCHANGED <<trying, known, drive, visit, flush, crashes>>

\* The daemon at the drive crashes, or the drive is pulled out.
Crash(p) ==
  /\ crashes < MaxCrashes /\ crashes' = crashes + 1
  /\ cmd' = [q \in Peers |-> Nothing] /\ flush' = Nothing
  /\ trying' = [trying EXCEPT ![p] = {}]
  /\ drive' \in {drive, [drive EXCEPT !.manifest = IF Running(p, "send", "manifest") THEN Torn ELSE @]}
  /\ UNCHANGED <<has, known, visit>>

Next ==
  \/ \E p \in Peers, b \in Blocks : Try(p, b) \/ TimeOut(p, b)
  \/ \E p \in Peers : Receive(p) \/ Send(p) \/ Leave(p)
  \/ \E p \in Peers : SendManifest(p) \/ ReceiveManifest(p) \/ ReceiveBlocks(p) \/ Crash(p)
  \/ \E p \in Peers, peers \in Named : SendBlocks(p, peers)
  \/ Flush

Spec == Init /\ [][Next]_vars

\* The drive goes on travelling.  Again and again a daemon is sent while it is trying
\* to get the blocks that it needs.
Fairness ==
  /\ WF_vars(Flush)
  /\ \A p \in Peers :
       /\ \A b \in Blocks : WF_vars(Try(p, b)) /\ SF_vars(Running(p, "send", "manifest") /\ Try(p, b))
       /\ SF_vars(trying[p] = Needs[p] \ has[p] /\ SendManifest(p))
       /\ WF_vars(Receive(p)) /\ WF_vars(Send(p)) /\ WF_vars(Leave(p)) /\ WF_vars(SendManifest(p)) /\ WF_vars(\E peers \in Named : SendBlocks(p, peers))
       /\ WF_vars(ReceiveManifest(p)) /\ WF_vars(ReceiveBlocks(p))
FairSpec == Spec /\ Fairness
-----------------------------------------------------------------------------
TypeOK ==
  /\ \A p \in Peers : trying[p] \subseteq Needs[p] /\ \A q \in Peers : known[p][q] \subseteq Needs[q]
  /\ \A p \in Peers : has[p] \subseteq Blocks /\ cmd[p] # Nothing => visit.at = p

\* Whatever the drive has lost and whichever attempts have timed out: every block that is needed and that another
\* daemon holds arrives, if the drive goes on travelling.
Arrives == \A p \in Peers, b \in Blocks : b \in Needs[p] /\ (\E q \in Peers : b \in Held[q]) => <>(b \in has[p])

\* cli/test/sneakernet-send.spec.ts: the command prints "success" when it has returned.  Then the drive is written.
SentIsWritten == (\A p \in Peers : cmd[p] = Nothing) => flush = Nothing
=============================================================================
