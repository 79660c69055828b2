----------------------------- MODULE DaemonProofs -----------------------------
(***************************************************************************)
(* Proofs about the groups of a daemon and its start-up: for any groups,   *)
(* configuration and clients, and any number of stops, crashes, failures   *)
(* and uploads.                                                            *)
(***************************************************************************)
EXTENDS Daemon, TLAPS

USE GroupsAssumption

Adding == [pc : {"idle", "fetch", "open", "set", "put"}, group : GroupIds]

GroupTypes ==
  /\ phase \in {"off", "replay", "up", "stopping"}
  /\ map \subseteq GroupIds /\ open \subseteq GroupIds /\ stored \subseteq GroupIds /\ left \subseteq stored
  /\ joined \subseteq stored /\ adds \in [Adders -> Adding]
  /\ stops \in Nat /\ crashes \in Nat /\ fails \in Nat

\* Until the daemon is up nothing but the replay adds.
Quiet ==
  /\ phase = "off" => open = {} /\ \A a \in Adders : adds[a] = NoAdd
  /\ phase = "replay" => \A a \in Adders \ {Starter} : adds[a] = NoAdd

\* What is in the map, or is about to be, is open.
Opened == map \subseteq open /\ \A a \in Adders : adds[a].pc = "set" => adds[a].group \in open

\* What the replay is adding to Welo or to the map.
Opening(g) == adds[Starter] = [pc |-> "open", group |-> g]
Setting(g) == adds[Starter] = [pc |-> "set", group |-> g]

\* Of what is stored nothing is lost on the way from the datastore into the map: the replay is refused no group that is
\* not in the map.
Serving ==
  phase \in {"replay", "up"} =>
    /\ \A a \in Adders : adds[a].pc = "put" => adds[a].group \in map
    /\ phase = "replay" => \A g \in open : g \in map \/ Setting(g)
    /\ \A g \in stored : g \in map \/ (phase = "replay" /\ (g \in left \/ Opening(g) \/ Setting(g)))

\* The group is stored, or its write is on the way.
InHand(g) == g \in stored \/ \E a \in Adders : adds[a] = [pc |-> "put", group |-> g]

Kept == phase \in {"replay", "up"} => \A g \in map : InHand(g) \/ g \in lost

Unlost == fails = 0 => lost = {}

GroupInv == GroupTypes /\ Quiet /\ Opened /\ Serving /\ Kept /\ Unlost

\* What the start-up does to the groups besides.
GroupMove == Next \/ (Off /\ UNCHANGED crashes) \/ UNCHANGED groupVars

LEMMA NoAddType == NoAdd \in Adding /\ NoAdd.pc = "idle"
<1>1. (CHOOSE g \in GroupIds : TRUE) \in GroupIds  OBVIOUS
<1> QED  BY <1>1 DEF NoAdd, Adding

LEMMA StarterApart == Starter \in Adders /\ Starter \notin Clients /\ Starter \notin Config
BY DEF Adders

LEMMA GroupInit == Init => GroupInv
BY NoAddType DEF Init, GroupInv, GroupTypes, Quiet, Opened, Serving, Kept, Unlost

LEMMA GroupTypesKept == ASSUME GroupTypes, GroupMove PROVE GroupTypes'
<1> USE NoAddType DEF GroupTypes, Become
<1>1. CASE StartGroups  BY <1>1 DEF StartGroups
<1>2. CASE GroupsStarted
  <2>1. [a \in Adders |-> IF a \in Config \ map THEN [pc |-> "fetch", group |-> a] ELSE NoAdd] \in [Adders -> Adding]
    BY DEF Adding
  <2> QED  BY <1>2, <2>1 DEF GroupsStarted
<1>3. ASSUME NEW g \in GroupIds, Replay(g) PROVE GroupTypes'
  <2>1. [pc |-> "open", group |-> g] \in Adding  BY DEF Adding
  <2> QED  BY <1>3, <2>1 DEF Replay
<1>4. ASSUME NEW a \in Adders
      PROVE  /\ [adds[a] EXCEPT !.pc = "open"] \in Adding /\ [adds[a] EXCEPT !.pc = "set"] \in Adding
             /\ [adds[a] EXCEPT !.pc = "put"] \in Adding
  BY DEF Adding
<1>5. ASSUME NEW a \in Adders, Fetched(a) PROVE GroupTypes'
  <2>1. PICK rec \in Adding : adds' = [adds EXCEPT ![a] = rec]  BY <1>4, <1>5 DEF Fetched
  <2>2. adds' \in [Adders -> Adding]  BY <2>1
  <2>3. fails' \in Nat  BY <1>5 DEF Fetched
  <2> QED  BY <1>5, <2>2, <2>3 DEF Fetched
<1>6. ASSUME NEW a \in Adders, AddOpen(a) PROVE GroupTypes'
  <2>1. adds[a].group \in GroupIds  BY DEF Adding
  <2> QED  BY <1>4, <1>6, <2>1 DEF AddOpen
<1>13. ASSUME NEW a \in Adders, AddOpenFails(a) PROVE GroupTypes'  BY <1>13 DEF AddOpenFails
<1>14. ASSUME NEW a \in Adders, AddSet(a) PROVE GroupTypes'
  <2>1. adds[a].group \in GroupIds  BY DEF Adding
  <2> QED  BY <1>4, <1>14, <2>1 DEF AddSet
<1>7. ASSUME NEW a \in Adders, AddPut(a) PROVE GroupTypes'
  <2>1. adds[a].group \in GroupIds  BY DEF Adding
  <2> QED  BY <1>7, <2>1 DEF AddPut
<1>8. ASSUME NEW a \in Adders, AddPutFails(a) PROVE GroupTypes'  BY <1>8 DEF AddPutFails
<1>9. ASSUME NEW c \in Clients, NEW g \in GroupIds, Request(c, g) PROVE GroupTypes'
  <2>1. [pc |-> "fetch", group |-> g] \in Adding  BY DEF Adding
  <2> QED  BY <1>9, <2>1 DEF Request
<1>10. CASE StopGroups
  <2>1. [a \in Adders |-> IF a \in Config /\ adds[a].pc = "fetch" THEN NoAdd ELSE adds[a]] \in [Adders -> Adding]  OBVIOUS
  <2> QED  BY <1>10, <2>1 DEF StopGroups
<1>11. ASSUME Off, crashes' \in Nat PROVE GroupTypes'
  <2>1. [a \in Adders |-> NoAdd] \in [Adders -> Adding]  OBVIOUS
  <2> QED  BY <1>11, <2>1 DEF Off
<1>12. CASE UNCHANGED groupVars  BY <1>12 DEF groupVars
<1> QED
  BY <1>1, <1>2, <1>3, <1>5, <1>6, <1>7, <1>8, <1>9, <1>10, <1>11, <1>12, <1>13, <1>14
     DEF GroupMove, Next, GroupStep, Requests, Exit, Crash

\* A step of a running call of add.
AddStep(a) == Fetched(a) \/ AddOpen(a) \/ AddOpenFails(a) \/ AddSet(a) \/ AddPut(a) \/ AddPutFails(a)

LEMMA AddChanges ==
  ASSUME NEW a \in Adders, AddStep(a)
  PROVE  /\ adds[a].pc # "idle" /\ (\E rec : adds' = [adds EXCEPT ![a] = rec])
         /\ phase' = phase /\ left' = left /\ crashes' = crashes /\ stored \subseteq stored'
<1>1. CASE Fetched(a)  BY <1>1 DEF Fetched, Become
<1>2. CASE AddOpen(a) \/ AddOpenFails(a)  BY <1>2 DEF AddOpen, AddOpenFails, Become
<1>3. CASE AddSet(a)  BY <1>3 DEF AddSet, Become
<1>4. CASE AddPut(a) \/ AddPutFails(a)  BY <1>4 DEF AddPut, AddPutFails, Become
<1> QED  BY <1>1, <1>2, <1>3, <1>4 DEF AddStep

LEMMA QuietKept == ASSUME GroupTypes, Quiet, GroupMove PROVE Quiet'
<1> USE StarterApart DEF Quiet, Become
<1>1. CASE StartGroups  BY <1>1 DEF StartGroups
<1>2. CASE GroupsStarted  BY <1>2 DEF GroupsStarted
<1>3. ASSUME NEW g \in GroupIds, Replay(g) PROVE Quiet'  BY <1>3 DEF Replay, GroupTypes
<1>4. ASSUME NEW a \in Adders, AddStep(a) PROVE Quiet'
  <2>1. adds[a].pc # "idle" /\ phase' = phase  BY <1>4, AddChanges
  <2>2. phase # "off" /\ (phase = "replay" => a = Starter)  BY <2>1, NoAddType
  <2>3. \E rec : adds' = [adds EXCEPT ![a] = rec]  BY <1>4, AddChanges
  <2>4. \A b \in Adders : b # a => adds'[b] = adds[b]  BY <2>3 DEF GroupTypes
  <2> QED  BY <2>1, <2>2, <2>4
<1>5. ASSUME NEW c \in Clients, NEW g \in GroupIds, Request(c, g) PROVE Quiet'  BY <1>5 DEF Request
<1>6. CASE StopGroups  BY <1>6 DEF StopGroups
<1>7. CASE Off  BY <1>7 DEF Off
<1>8. CASE UNCHANGED groupVars  BY <1>8 DEF groupVars
<1> QED  BY <1>1, <1>2, <1>3, <1>4, <1>5, <1>6, <1>7, <1>8 DEF GroupMove, Next, GroupStep, AddStep, Requests, Exit, Crash

LEMMA OpenedKept == ASSUME GroupTypes, Quiet, Opened, GroupMove PROVE Opened'
<1> USE DEF Opened, Become
<1>1. CASE StartGroups \/ UNCHANGED groupVars  BY <1>1 DEF StartGroups, groupVars
<1>2. CASE GroupsStarted  BY <1>2, NoAddType DEF GroupsStarted
<1>3. ASSUME NEW g \in GroupIds, Replay(g) PROVE Opened'
  <2>1. adds' = [adds EXCEPT ![Starter] = [pc |-> "open", group |-> g]]  BY <1>3 DEF Replay
  <2>2. adds'[Starter].pc = "open" /\ \A a \in Adders : a # Starter => adds'[a] = adds[a]
    BY <2>1, StarterApart DEF GroupTypes
  <2> QED  BY <1>3, <2>2 DEF Replay
<1>4. ASSUME NEW a \in Adders, AddStep(a) PROVE Opened'
  <2>1. \A b \in Adders : b # a => adds'[b] = adds[b]  BY <1>4, AddChanges DEF GroupTypes
  <2>2. open \subseteq open' /\ map' \subseteq map \cup (IF adds[a].pc = "set" THEN {adds[a].group} ELSE {})
    <3>1. CASE AddOpen(a)  BY <3>1 DEF AddOpen
    <3>2. CASE AddSet(a)  BY <3>2 DEF AddSet
    <3> QED  BY <1>4, <3>1, <3>2 DEF AddStep, Fetched, AddOpenFails, AddPut, AddPutFails
  <2>3. adds'[a].pc = "set" => adds'[a].group \in open'
    <3>1. CASE AddOpen(a)
      <4>1. CASE adds[a].group \in open
        <5>1. adds' = [adds EXCEPT ![a] = NoAdd]  BY <3>1, <4>1 DEF AddOpen
        <5> QED  BY <5>1, NoAddType DEF GroupTypes
      <4>2. CASE adds[a].group \notin open
        <5>1. adds' = [adds EXCEPT ![a] = [adds[a] EXCEPT !.pc = "set"]] /\ adds[a].group \in open'  BY <3>1, <4>2 DEF AddOpen
        <5>2. adds'[a].group = adds[a].group  BY <5>1 DEF GroupTypes, Adding
        <5> QED  BY <5>1, <5>2
      <4> QED  BY <4>1, <4>2
    <3>2. CASE Fetched(a)
      <4>1. \E rec : adds' = [adds EXCEPT ![a] = rec] /\ rec.pc # "set"  BY <3>2, NoAddType DEF Fetched, GroupTypes, Adding
      <4> QED  BY <4>1 DEF GroupTypes
    <3>3. CASE AddSet(a)
      <4>1. adds' = [adds EXCEPT ![a] = [adds[a] EXCEPT !.pc = "put"]]  BY <3>3 DEF AddSet
      <4>2. adds'[a].pc = "put"  BY <4>1 DEF GroupTypes, Adding
      <4> QED  BY <4>2
    <3>4. CASE AddOpenFails(a) \/ AddPut(a) \/ AddPutFails(a)
      <4>1. adds' = [adds EXCEPT ![a] = NoAdd]  BY <3>4 DEF AddOpenFails, AddPut, AddPutFails
      <4> QED  BY <4>1, NoAddType DEF GroupTypes
    <3> QED  BY <1>4, <3>1, <3>2, <3>3, <3>4 DEF AddStep
  <2> QED  BY <2>1, <2>2, <2>3
<1>5. ASSUME NEW c \in Clients, NEW g \in GroupIds, Request(c, g) PROVE Opened'
  <2>1. c \in Adders  BY DEF Adders
  <2>2. adds'[c].pc = "fetch" /\ \A b \in Adders : b # c => adds'[b] = adds[b]  BY <1>5, <2>1 DEF Request, GroupTypes
  <2> QED  BY <1>5, <2>2 DEF Request
<1>6. CASE StopGroups  BY <1>6, NoAddType DEF StopGroups
<1>7. CASE Off  BY <1>7, NoAddType DEF Off
<1> QED  BY <1>1, <1>2, <1>3, <1>4, <1>5, <1>6, <1>7 DEF GroupMove, Next, GroupStep, AddStep, Requests, Exit, Crash

LEMMA ServingKept == ASSUME GroupTypes, Quiet, Serving, GroupMove PROVE Serving'
<1> USE StarterApart DEF Serving, Become, Opening, Setting
<1>1. CASE StartGroups
  <2>1. open = {} /\ \A a \in Adders : adds[a].pc = "idle"  BY <1>1, NoAddType DEF StartGroups, Quiet
  <2> QED  BY <1>1, <2>1 DEF StartGroups
<1>2. CASE GroupsStarted
  <2>1. \A g \in stored : g \in map  BY <1>2, NoAddType DEF GroupsStarted
  <2> QED  BY <1>2, <2>1, NoAddType DEF GroupsStarted
<1>3. ASSUME NEW g \in GroupIds, Replay(g) PROVE Serving'
  <2>1. adds'[Starter] = [pc |-> "open", group |-> g]  BY <1>3 DEF Replay, GroupTypes
  <2>2. \A a \in Adders : a # Starter => adds'[a] = adds[a]  BY <1>3 DEF Replay, GroupTypes
  <2> QED  BY <1>3, <2>1, <2>2, NoAddType DEF Replay
<1>4. ASSUME NEW a \in Adders, AddStep(a) PROVE Serving'
  <2>1. phase' = phase /\ left' = left /\ stored \subseteq stored'  BY <1>4, AddChanges
  <2>2. \A b \in Adders : b # a => adds'[b] = adds[b]  BY <1>4, AddChanges DEF GroupTypes
  <2>3. phase = "replay" => a = Starter  BY <1>4, AddChanges, NoAddType DEF Quiet
  <2>4. adds[a].group \in GroupIds /\ adds[a] = [pc |-> adds[a].pc, group |-> adds[a].group]  BY DEF GroupTypes, Adding
  <2>5. ASSUME Fetched(a) PROVE Serving'
    <3>1. \E rec : adds' = [adds EXCEPT ![a] = rec] /\ rec.pc # "put"  BY <2>5, NoAddType DEF Fetched, GroupTypes, Adding
    <3>2. adds'[a].pc # "put" /\ adds[a].pc = "fetch"  BY <2>5, <3>1 DEF Fetched, GroupTypes
    <3> QED  BY <2>2, <2>3, <2>5, <3>2 DEF Fetched
  <2>6. ASSUME AddOpen(a) \/ AddOpenFails(a), adds' = [adds EXCEPT ![a] = NoAdd] PROVE Serving'
    <3>1. adds'[a].pc = "idle" /\ adds[a].pc = "open"  BY <2>6, NoAddType DEF AddOpen, AddOpenFails, GroupTypes
    <3>2. map' = map /\ stored' = stored /\ (phase = "replay" => open' = open /\ adds[a].group \in open)
      <4>1. CASE AddOpenFails(a)  BY <4>1 DEF AddOpenFails
      <4>2. CASE AddOpen(a) /\ adds[a].group \in open  BY <4>2 DEF AddOpen
      <4>3. CASE AddOpen(a) /\ adds[a].group \notin open
        <5>1. adds' = [adds EXCEPT ![a] = [adds[a] EXCEPT !.pc = "set"]]  BY <4>3 DEF AddOpen
        <5>2. adds'[a].pc = "set"  BY <5>1 DEF GroupTypes, Adding
        <5> QED  BY <3>1, <5>2
      <4> QED  BY <2>6, <4>1, <4>2, <4>3
    <3>3. ASSUME phase = "replay" PROVE adds[a].group \in map
      <4>1. adds[Starter].pc = "open"  BY <2>3, <3>1, <3>3
      <4>2. ~Setting(adds[a].group)  BY <4>1
      <4> QED  BY <3>2, <3>3, <4>2
    <3> QED  BY <2>1, <2>2, <2>3, <3>1, <3>2, <3>3
  <2>7. ASSUME AddOpen(a), adds' = [adds EXCEPT ![a] = [adds[a] EXCEPT !.pc = "set"]] PROVE Serving'
    <3>1. adds'[a] = [pc |-> "set", group |-> adds[a].group] /\ adds[a].pc = "open"
      BY <2>7, <2>4 DEF AddOpen, GroupTypes
    <3>2. map' = map /\ stored' = stored /\ open' \subseteq open \cup {adds[a].group}  BY <2>7 DEF AddOpen
    <3> QED  BY <2>1, <2>2, <2>3, <2>4, <3>1, <3>2
  <2>8. ASSUME AddSet(a) PROVE Serving'
    <3>1. adds' = [adds EXCEPT ![a] = [adds[a] EXCEPT !.pc = "put"]] /\ map' = map \cup {adds[a].group}  BY <2>8 DEF AddSet
    <3>2. adds'[a] = [pc |-> "put", group |-> adds[a].group] /\ adds[a].pc = "set"  BY <2>8, <2>4, <3>1 DEF AddSet, GroupTypes
    <3>3. open' = open /\ stored' = stored  BY <2>8 DEF AddSet
    <3> QED  BY <2>1, <2>2, <2>3, <2>4, <3>1, <3>2, <3>3
  <2>9. ASSUME AddPut(a) \/ AddPutFails(a) PROVE Serving'
    <3>1. adds[a].pc = "put" /\ adds' = [adds EXCEPT ![a] = NoAdd]  BY <2>9 DEF AddPut, AddPutFails
    <3>2. adds'[a].pc = "idle"  BY <3>1, NoAddType DEF GroupTypes
    <3>3. stored' \subseteq stored \cup {adds[a].group}  BY <2>9 DEF AddPut, AddPutFails
    <3>4. open' = open /\ map' = map  BY <2>9 DEF AddPut, AddPutFails
    <3> QED  BY <2>1, <2>2, <2>3, <3>1, <3>2, <3>3, <3>4
  <2>10. AddOpen(a) \/ AddOpenFails(a) =>
           adds' = [adds EXCEPT ![a] = NoAdd] \/ (AddOpen(a) /\ adds' = [adds EXCEPT ![a] = [adds[a] EXCEPT !.pc = "set"]])
    BY DEF AddOpen, AddOpenFails
  <2> QED  BY <1>4, <2>5, <2>6, <2>7, <2>8, <2>9, <2>10 DEF AddStep
<1>5. ASSUME NEW c \in Clients, NEW g \in GroupIds, Request(c, g) PROVE Serving'
  <2>1. c \in Adders  BY DEF Adders
  <2>2. \A b \in Adders : b # c => adds'[b] = adds[b]  BY <1>5 DEF Request, GroupTypes
  <2>3. adds'[c].pc # "put"  BY <1>5, <2>1 DEF Request, GroupTypes
  <2> QED  BY <1>5, <2>2, <2>3 DEF Request
<1>6. CASE StopGroups  BY <1>6 DEF StopGroups
<1>7. CASE Off  BY <1>7 DEF Off
<1>8. CASE UNCHANGED groupVars  BY <1>8 DEF groupVars
<1> QED
  BY <1>1, <1>2, <1>3, <1>4, <1>5, <1>6, <1>7, <1>8 DEF GroupMove, Next, GroupStep, AddStep, Requests, Exit, Crash

\* Nothing is forgotten of what was joined and what has failed.
LEMMA Grow == ASSUME GroupTypes, GroupMove PROVE joined \subseteq joined' /\ fails' >= fails /\ crashes' >= crashes
<1> DEFINE Goal == joined \subseteq joined' /\ fails' >= fails /\ crashes' >= crashes
<1> USE DEF GroupTypes
<1>1. ASSUME NEW a \in Adders, Fetched(a) \/ AddPutFails(a) PROVE Goal  BY <1>1 DEF Fetched, AddPutFails
<1>2. ASSUME NEW a \in Adders, AddOpen(a) \/ AddOpenFails(a) \/ AddSet(a) \/ AddPut(a) PROVE Goal
  <2>1. fails' = fails /\ crashes' = crashes  BY <1>2 DEF AddOpen, AddOpenFails, AddSet, AddPut
  <2>2. joined \subseteq joined'  BY <1>2 DEF AddOpen, AddOpenFails, AddSet, AddPut
  <2> QED  BY <2>1, <2>2
<1>3. ASSUME Off, crashes' = crashes \/ crashes' = crashes + 1 PROVE Goal  BY <1>3 DEF Off
<1>4. ASSUME StartGroups \/ GroupsStarted \/ (\E g \in GroupIds : Replay(g)) \/ Requests \/ StopGroups \/ UNCHANGED groupVars
      PROVE  Goal
  <2>1. joined' = joined /\ fails' = fails /\ crashes' = crashes
    BY <1>4 DEF StartGroups, GroupsStarted, Replay, Requests, Request, StopGroups, groupVars
  <2> QED  BY <2>1
<1> QED  BY <1>1, <1>2, <1>3, <1>4 DEF GroupMove, Next, GroupStep, Exit, Crash

\* Unless the process ends in the middle, what is in hand stays so, or its write fails.
LEMMA InHandKept ==
  ASSUME GroupTypes, Quiet, GroupMove, NEW g, InHand(g), Off => \A a \in Adders : adds[a].pc # "put"
  PROVE  InHand(g)' \/ (g \in lost' /\ fails' # 0)
<1> USE StarterApart DEF InHand, Become
<1>1. CASE g \in stored
  <2>1. ASSUME NEW a \in Adders, AddStep(a) PROVE stored \subseteq stored'  BY <2>1, AddChanges
  <2>2. stored \subseteq stored'
    BY <2>1 DEF GroupMove, Next, GroupStep, AddStep, Requests, StartGroups, GroupsStarted, Replay, Request, StopGroups, Exit,
                Crash, Off, groupVars
  <2> QED  BY <1>1, <2>2
<1>2. ASSUME NEW b \in Adders, adds[b] = [pc |-> "put", group |-> g] PROVE InHand(g)' \/ (g \in lost' /\ fails' # 0)
  <2> USE <1>2
  <2>1. CASE UNCHANGED adds  BY <2>1
  <2>2. CASE GroupsStarted  BY <2>2, NoAddType DEF GroupsStarted, Quiet
  <2>3. ASSUME NEW h \in GroupIds, Replay(h) PROVE InHand(g)'
    <3>1. b # Starter  BY <2>3, NoAddType DEF Replay
    <3> QED  BY <2>3, <3>1 DEF Replay, GroupTypes
  <2>4. ASSUME NEW a \in Adders, AddStep(a), a # b PROVE InHand(g)'  BY <2>4, AddChanges DEF GroupTypes
  <2>5. ASSUME AddStep(b) PROVE InHand(g)' \/ (g \in lost' /\ fails' # 0)
    <3>1. CASE AddPut(b)  BY <3>1 DEF AddPut
    <3>2. CASE AddPutFails(b)  BY <3>2 DEF AddPutFails, GroupTypes
    <3> QED  BY <2>5, <3>1, <3>2 DEF AddStep, Fetched, AddOpen, AddOpenFails, AddSet
  <2>6. ASSUME NEW c \in Clients, NEW h \in GroupIds, Request(c, h) PROVE InHand(g)'
    <3>1. b # c  BY <2>6, NoAddType DEF Request
    <3> QED  BY <2>6, <3>1 DEF Request, GroupTypes
  <2>7. CASE StopGroups
    <3>1. adds'[b] = adds[b]  BY <2>7 DEF StopGroups
    <3> QED  BY <3>1
  <2>8. CASE Off  BY <2>8
  <2> QED
    BY <2>1, <2>2, <2>3, <2>4, <2>5, <2>6, <2>7, <2>8
       DEF GroupMove, Next, GroupStep, AddStep, Requests, StartGroups, Exit, Crash, groupVars
<1> QED  BY <1>1, <1>2

LEMMA KeptKept == ASSUME GroupTypes, Quiet, Opened, Kept, GroupMove PROVE Kept'
<1> SUFFICES ASSUME phase' \in {"replay", "up"}, NEW g \in map' PROVE InHand(g)' \/ g \in lost'
  BY DEF Kept
<1>1. ~Off  BY DEF Off
<1>2. ASSUME NEW a \in Adders, AddSet(a), g \notin map PROVE InHand(g)'
  <2>1. adds[a].group = g /\ adds' = [adds EXCEPT ![a] = [adds[a] EXCEPT !.pc = "put"]]  BY <1>2 DEF AddSet, Become
  <2>2. adds'[a] = [pc |-> "put", group |-> g]  BY <2>1 DEF GroupTypes, Adding
  <2> QED  BY <2>2 DEF InHand
<1>3. ASSUME g \in map PROVE InHand(g)' \/ g \in lost'
  <2>1. phase # "off"  BY <1>3 DEF Quiet, Opened
  <2>2. ASSUME NEW a \in Adders, AddStep(a) PROVE phase' = phase  BY <2>2, AddChanges
  <2>3. phase \in {"replay", "up"}
    BY <1>1, <2>1, <2>2 DEF GroupMove, Next, GroupStep, AddStep, Requests, StartGroups, GroupsStarted, Replay, Request,
                            StopGroups, Exit, Crash, groupVars, GroupTypes
  <2>4. CASE InHand(g)  BY <1>1, <2>4, InHandKept
  <2>5. ASSUME g \in lost PROVE InHand(g)' \/ g \in lost'
    <3>1. ASSUME NEW a \in Adders, AddStep(a) PROVE g \in stored' \/ g \in lost'
      <4>1. CASE AddPut(a)  BY <2>5, <4>1 DEF AddPut
      <4> QED  BY <2>5, <3>1, <4>1 DEF AddStep, Fetched, AddOpen, AddOpenFails, AddSet, AddPutFails
    <3>2. g \in stored' \/ g \in lost'
      BY <1>1, <2>5, <3>1 DEF GroupMove, Next, GroupStep, AddStep, Requests, StartGroups, GroupsStarted, Replay, Request,
                              StopGroups, Exit, Crash, groupVars
    <3> QED  BY <3>2 DEF InHand
  <2> QED  BY <1>3, <2>3, <2>4, <2>5 DEF Kept
<1>4. ASSUME g \notin map PROVE \E a \in Adders : AddSet(a)
  BY <1>1, <1>4 DEF GroupMove, Next, GroupStep, Requests, StartGroups, GroupsStarted, Replay, Fetched, AddOpen, AddOpenFails,
       AddPut, AddPutFails, Request, StopGroups, Exit, Crash, groupVars
<1> QED  BY <1>2, <1>3, <1>4

LEMMA UnlostKept == ASSUME GroupTypes, Unlost, GroupMove PROVE Unlost'
<1> USE DEF Unlost
<1>1. ASSUME NEW a \in Adders, AddPutFails(a) PROVE Unlost'
  <2>1. fails' # 0  BY <1>1 DEF AddPutFails, GroupTypes
  <2> QED  BY <2>1
<1>2. ASSUME NEW a \in Adders, Fetched(a) PROVE Unlost'
  <2>1. lost' = lost /\ (fails' = 0 => fails = 0)  BY <1>2 DEF Fetched, GroupTypes
  <2> QED  BY <2>1
<1>3. ASSUME NEW a \in Adders, AddOpen(a) \/ AddOpenFails(a) \/ AddSet(a) \/ AddPut(a) PROVE Unlost'
  <2>1. fails' = fails /\ lost' \subseteq lost  BY <1>3 DEF AddOpen, AddOpenFails, AddSet, AddPut
  <2> QED  BY <2>1
<1>4. CASE Off  BY <1>4 DEF Off
<1> QED
  BY <1>1, <1>2, <1>3, <1>4 DEF GroupMove, Next, GroupStep, Requests, StartGroups, GroupsStarted, Replay, Request, StopGroups,
       Exit, Crash, groupVars

LEMMA GroupNext == GroupInv /\ GroupMove => GroupInv'
BY GroupTypesKept, QuietKept, OpenedKept, ServingKept, KeptKept, UnlostKept DEF GroupInv

\* What the properties say of the groups follows from the invariant.
LEMMA GroupSafe == GroupInv => TypeOK /\ JoinedServed /\ ServedIsStored
<1> SUFFICES ASSUME GroupInv PROVE TypeOK /\ JoinedServed /\ ServedIsStored  OBVIOUS
<1>1. TypeOK  BY DEF GroupInv, GroupTypes, Opened, TypeOK, Adding
<1>2. JoinedServed  BY DEF GroupInv, GroupTypes, Serving, JoinedServed
<1>3. ServedIsStored  BY DEF GroupInv, Kept, InHand, ServedIsStored
<1> QED  BY <1>1, <1>2, <1>3
-----------------------------------------------------------------------------
Uploads == [key : Nat, group : GroupIds]

UploadTypes ==
  /\ queue \subseteq rows /\ rows \subseteq Uploads /\ used \in Nat
  /\ blind \subseteq {"unknown", "listed"}

\* An upload that is persisted is for a group that was created or joined, or its import is remembered.
RowsJoined == \A upload \in rows : upload.group \in joined \/ blind # {}

\* The group of an upload is not lost before something fails.
RowsKept == crashes + fails = 0 /\ "unknown" \notin blind => \A upload \in rows : InHand(upload.group)

DeadKnown == dead => "unknown" \in blind \/ ("listed" \in blind /\ crashes + fails > 0)

DaemonInv == GroupInv /\ UploadTypes /\ RowsJoined /\ RowsKept /\ DeadKnown

LEMMA DaemonStart == DaemonInit => DaemonInv
<1> SUFFICES ASSUME DaemonInit PROVE DaemonInv  OBVIOUS
<1>1. GroupInv  BY GroupInit DEF DaemonInit
<1> QED  BY <1>1 DEF DaemonInit, DaemonInv, UploadTypes, RowsJoined, RowsKept, DeadKnown

LEMMA Moves == DaemonNext \/ UNCHANGED allVars => GroupMove
BY DEF DaemonNext, allVars, GroupMove, Next, HandleCommands, StartModules, RunUpload, RefuseUpload, FailSetup, Ready, Import

LEMMA UploadTypesKept == ASSUME UploadTypes, DaemonNext \/ UNCHANGED allVars PROVE UploadTypes'
<1> USE DEF UploadTypes
<1>1. ASSUME NEW g \in GroupIds, Import(g) PROVE UploadTypes'
  <2>1. [key |-> used, group |-> g] \in Uploads  BY DEF Uploads
  <2> QED  BY <1>1, <2>1 DEF Import
<1>2. ASSUME NEW upload \in queue, RunUpload(upload) \/ RefuseUpload(upload) \/ FailSetup(upload) PROVE UploadTypes'
  BY <1>2 DEF RunUpload, RefuseUpload, FailSetup
<1> QED
  BY <1>1, <1>2 DEF DaemonNext, daemonVars, allVars, HandleCommands, StartModules, Ready
LEMMA RowsJoinedKept == ASSUME GroupTypes, RowsJoined, DaemonNext \/ UNCHANGED allVars PROVE RowsJoined'
<1>1. joined \subseteq joined'  BY Moves, Grow
<1>2. ASSUME NEW g \in GroupIds, Import(g) PROVE RowsJoined'
  <2>1. g \in joined \/ blind' # {}  BY <1>2 DEF Import
  <2>2. blind \subseteq blind' /\ rows' = rows \cup {[key |-> used, group |-> g]}  BY <1>2 DEF Import
  <2> QED  BY <1>1, <2>1, <2>2 DEF RowsJoined
<1>3. ASSUME rows' \subseteq rows, blind' = blind PROVE RowsJoined'  BY <1>1, <1>3 DEF RowsJoined
<1>4. ASSUME NEW upload \in queue, RunUpload(upload) \/ RefuseUpload(upload) \/ FailSetup(upload)
      PROVE  rows' \subseteq rows /\ blind' = blind
  BY <1>4 DEF RunUpload, RefuseUpload, FailSetup
<1> QED
  BY <1>2, <1>3, <1>4 DEF DaemonNext, daemonVars, allVars, HandleCommands, StartModules, Ready

\* The upload whose start-up fails was not in hand.
LEMMA FailSetupKnown ==
  ASSUME DaemonInv, NEW upload \in queue, FailSetup(upload)
  PROVE  "unknown" \in blind \/ ("listed" \in blind /\ crashes + fails > 0)
<1> USE DEF DaemonInv, GroupInv, GroupTypes, UploadTypes
<1>1. phase = "up" /\ upload \in rows /\ upload.group \notin map  BY DEF FailSetup
<1>2. ~InHand(upload.group)  BY <1>1 DEF InHand, Serving
<1>3. upload.group \notin joined  BY <1>2 DEF InHand
<1>4. blind # {}  BY <1>1, <1>3 DEF RowsJoined
<1>5. crashes + fails = 0 => "unknown" \in blind  BY <1>1, <1>2 DEF RowsKept
<1>6. "unknown" \in blind \/ "listed" \in blind  BY <1>4
<1>7. crashes + fails = 0 \/ crashes + fails > 0  OBVIOUS
<1> QED  BY <1>5, <1>6, <1>7

LEMMA SumGrows ==
  ASSUME NEW m \in Nat, NEW n \in Nat, NEW k \in Nat, NEW l \in Nat, k >= m, l >= n
  PROVE  (m + n > 0 => k + l > 0) /\ (k + l = 0 => m = 0 /\ n = 0 /\ k = 0 /\ l = 0)
OBVIOUS

LEMMA DeadKnownKept == ASSUME DaemonInv, DaemonNext \/ UNCHANGED allVars PROVE DeadKnown'
<1>1. crashes + fails > 0 => crashes' + fails' > 0
  <2>1. GroupTypes /\ GroupTypes' /\ GroupMove  BY Moves, GroupTypesKept DEF DaemonInv, GroupInv
  <2>2. fails' >= fails /\ crashes' >= crashes  BY <2>1, Grow
  <2>3. fails \in Nat /\ crashes \in Nat /\ fails' \in Nat /\ crashes' \in Nat  BY <2>1 DEF GroupTypes
  <2> QED  BY <2>2, <2>3, SumGrows
<1>2. blind \subseteq blind'
  BY DEF DaemonNext, daemonVars, allVars, HandleCommands, StartModules, Ready, RunUpload, RefuseUpload, FailSetup, Import
<1>3. ASSUME dead' => dead PROVE DeadKnown'
  BY <1>1, <1>2, <1>3 DEF DeadKnown, DaemonInv
<1>4. ASSUME NEW upload \in queue, FailSetup(upload) PROVE DeadKnown'
  <2>1. "unknown" \in blind \/ ("listed" \in blind /\ crashes + fails > 0)  BY <1>4, FailSetupKnown
  <2> QED  BY <1>1, <1>2, <2>1 DEF DeadKnown
<1>5. ASSUME NEW upload \in queue, RunUpload(upload) \/ RefuseUpload(upload) PROVE dead' = dead
  BY <1>5 DEF RunUpload, RefuseUpload
<1>6. ASSUME NEW g \in GroupIds, Import(g) PROVE dead' = dead  BY <1>6 DEF Import
<1> QED  BY <1>3, <1>4, <1>5, <1>6 DEF DaemonNext, daemonVars, allVars, HandleCommands, StartModules, Ready

LEMMA RowsKeptKept == ASSUME DaemonInv, DaemonNext \/ UNCHANGED allVars PROVE RowsKept'
<1> SUFFICES ASSUME crashes' + fails' = 0, "unknown" \notin blind', NEW upload \in rows' PROVE InHand(upload.group)'
  BY DEF RowsKept
<1> USE DEF DaemonInv, GroupInv
<1>1. GroupMove  BY Moves
<1>2. crashes = 0 /\ fails = 0 /\ crashes' = 0 /\ fails' = 0
  <2>1. GroupTypes /\ GroupTypes'  BY <1>1, GroupTypesKept
  <2>2. fails' >= fails /\ crashes' >= crashes  BY <1>1, <2>1, Grow
  <2>3. fails \in Nat /\ crashes \in Nat /\ fails' \in Nat /\ crashes' \in Nat  BY <2>1 DEF GroupTypes
  <2> QED  BY <2>2, <2>3, SumGrows
<1>3. blind \subseteq blind'
  BY DEF DaemonNext, daemonVars, allVars, HandleCommands, StartModules, Ready, RunUpload, RefuseUpload, FailSetup, Import
<1>4. Off => \A a \in Adders : adds[a].pc # "put"
  <2>1. ASSUME NEW u \in queue, FailSetup(u) PROVE FALSE  BY <1>2, <1>3, <2>1, FailSetupKnown
  <2>2. ASSUME Off, phase = "off" PROVE \A a \in Adders : adds[a].pc # "put"  BY <2>2, NoAddType DEF Quiet
  <2>3. ASSUME Exit PROVE \A a \in Adders : adds[a].pc # "put"  BY <2>3 DEF Exit
  <2>4. ASSUME Off PROVE phase = "off" \/ Exit \/ \E u \in queue : FailSetup(u)
    <3>1. phase' = "off"  BY <2>4 DEF Off
    <3>2. CASE GroupStep
      <4>1. ASSUME NEW a \in Adders, AddStep(a) PROVE phase' = phase  BY <4>1, AddChanges
      <4> QED  BY <3>1, <3>2, <4>1 DEF GroupStep, AddStep, StartGroups, GroupsStarted, Replay
    <3>3. CASE Requests \/ StopGroups  BY <3>1, <3>3 DEF Requests, Request, StopGroups
    <3>4. ~Crash  BY <1>2 DEF Crash
    <3>5. CASE UNCHANGED phase  BY <3>1, <3>5
    <3>6. ASSUME NEW u \in queue, RunUpload(u) \/ RefuseUpload(u) PROVE UNCHANGED phase
      BY <3>6 DEF RunUpload, RefuseUpload, groupVars
    <3> QED
      BY <3>2, <3>3, <3>4, <3>5, <3>6 DEF DaemonNext, allVars, groupVars, HandleCommands, StartModules, Ready, Import
  <2> QED  BY <2>1, <2>2, <2>3, <2>4
<1>5. ASSUME upload \in rows PROVE InHand(upload.group)'
  <2>1. InHand(upload.group)  BY <1>2, <1>3, <1>5 DEF RowsKept
  <2>2. InHand(upload.group)' \/ fails' # 0  BY <1>1, <1>4, <2>1, InHandKept
  <2> QED  BY <1>2, <2>2
<1>6. ASSUME upload \notin rows PROVE InHand(upload.group)'
  <2>1. PICK g \in GroupIds : Import(g) /\ upload.group = g
    BY <1>6 DEF DaemonNext, daemonVars, allVars, HandleCommands, StartModules, Ready, RunUpload, RefuseUpload, FailSetup, Import
  <2>2. g \in map /\ phase = "up" /\ UNCHANGED groupVars  BY <2>1, <1>3 DEF Import
  <2>3. g \notin lost  BY <1>2 DEF Unlost
  <2>4. InHand(g)  BY <2>2, <2>3 DEF Kept
  <2> QED  BY <2>1, <2>2, <2>4 DEF InHand, groupVars
<1> QED  BY <1>5, <1>6

LEMMA DaemonStep == DaemonInv /\ [DaemonNext]_allVars => DaemonInv'
BY Moves, GroupNext, UploadTypesKept, RowsJoinedKept, DeadKnownKept, RowsKeptKept DEF DaemonInv, GroupInv

LEMMA DaemonSafe == DaemonInv => JoinedServed /\ ServedIsStored /\ StartsKnown
BY GroupSafe DEF DaemonInv, DeadKnown, StartsKnown

\* Through any number of stops, crashes and failing writes: a group whose create or join has returned is served whenever
\* the daemon is up.
THEOREM JoinedServedCorrect == DaemonSpec => []JoinedServed
<1>1. DaemonInit => DaemonInv  BY DaemonStart
<1>2. DaemonInv /\ [DaemonNext]_allVars => DaemonInv'  BY DaemonStep
<1>3. DaemonInv => JoinedServed  BY DaemonSafe
<1> QED  BY <1>1, <1>2, <1>3, PTL DEF DaemonSpec

\* Whatever is served is stored or about to be, so that a restart brings it back, unless the last write of it in this run
\* has failed.
THEOREM ServedIsStoredCorrect == DaemonSpec => []ServedIsStored
<1>1. DaemonInit => DaemonInv  BY DaemonStart
<1>2. DaemonInv /\ [DaemonNext]_allVars => DaemonInv'  BY DaemonStep
<1>3. DaemonInv => ServedIsStored  BY DaemonSafe
<1> QED  BY <1>1, <1>2, <1>3, PTL DEF DaemonSpec

\* A start-up fails only after an import for a group that the daemon was not in, or after a crash or a failure that took
\* away a group whose create or join had not returned: what clients were told of is always replayed.
THEOREM StartsKnownCorrect == DaemonSpec => []StartsKnown
<1>1. DaemonInit => DaemonInv  BY DaemonStart
<1>2. DaemonInv /\ [DaemonNext]_allVars => DaemonInv'  BY DaemonStep
<1>3. DaemonInv => StartsKnown  BY DaemonSafe
<1> QED  BY <1>1, <1>2, <1>3, PTL DEF DaemonSpec
=============================================================================
