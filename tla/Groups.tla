-------------------------------- MODULE Groups --------------------------------
(***************************************************************************)
(* packages/daemon/src/common/groups.ts with bootstrap-groups.ts and the   *)
(* commands create-group and join-group: which groups a daemon is in.  A   *)
(* group is in up to three places: opened by Welo, in the map that the     *)
(* daemon serves, and in the datastore that the next start replays.        *)
(*   phase   "off", "replay" (Groups.start), "up", "stopping"              *)
(*   left    rows that the replay has still to add                         *)
(*   adds    the running calls of add: the replay, one per configured      *)
(*           group (bootstrap), one per client                             *)
(*   joined, refused   history: groups whose create or join returned, and  *)
(*           groups of which a join said that they were joined already     *)
(*   lost    history: groups whose last write has failed in this run       *)
(* welo.open is external: it throws when the database is open, and marks   *)
(* it as open in the same step.  A crash may come anywhere.                *)
(***************************************************************************)
EXTENDS Naturals

CONSTANTS
  GroupIds,
  Config,      \* the groups of the configuration file
  Clients,
  Starter,     \* the replay, as a caller of add
  MaxStops,
  MaxCrashes,
  MaxFails     \* failing fetches and writes

ASSUME GroupsAssumption == GroupIds # {} /\ Config \subseteq GroupIds /\ Starter \notin Clients \cup GroupIds

VARIABLES phase, stored, open, map, left, adds, joined, refused, lost, stops, crashes, fails

groupVars == <<phase, stored, open, map, left, adds, joined, refused, lost, stops, crashes, fails>>

Adders == Clients \cup Config \cup {Starter}
NoAdd == [pc |-> "idle", group |-> CHOOSE g \in GroupIds : TRUE]

Init ==
  /\ phase = "off" /\ stored = {} /\ open = {} /\ map = {} /\ left = {}
  /\ adds = [a \in Adders |-> NoAdd] /\ joined = {} /\ refused = {} /\ lost = {}
  /\ stops = 0 /\ crashes = 0 /\ fails = 0

Become(a, rec) == adds' = [adds EXCEPT ![a] = rec]
-----------------------------------------------------------------------------
(* Groups.start, awaited by the start-up before anything else can add. *)

StartGroups ==
  /\ phase = "off"
  /\ phase' = "replay" /\ left' = stored
  /\ UNCHANGED <<stored, open, map, adds, joined, refused, lost, stops, crashes, fails>>

Replay(g) ==
  /\ phase = "replay" /\ adds[Starter] = NoAdd /\ g \in left
  /\ left' = left \ {g}
  /\ Become(Starter, [pc |-> "open", group |-> g])
  /\ UNCHANGED <<phase, stored, open, map, joined, refused, lost, stops, crashes, fails>>

\* Mutant: the bootstrap takes the groups that the daemon has.
GroupsStartedKnown ==
  /\ phase = "replay" /\ left = {} /\ adds[Starter] = NoAdd
  /\ phase' = "up"
  /\ adds' = [a \in Adders |-> IF a \in Config \cap map THEN [pc |-> "fetch", group |-> a] ELSE NoAdd]
  /\ UNCHANGED <<stored, open, map, left, joined, refused, lost, stops, crashes, fails>>

\* bootstrapGroups looks at every configured group and fetches those that the replay has not added; nothing waits.
GroupsStarted ==
  /\ phase = "replay" /\ left = {} /\ adds[Starter] = NoAdd
  /\ phase' = "up"
  /\ adds' = [a \in Adders |-> IF a \in Config \ map THEN [pc |-> "fetch", group |-> a] ELSE NoAdd]
  /\ UNCHANGED <<stored, open, map, left, joined, refused, lost, stops, crashes, fails>>

\* create-group determines a manifest, join-group fetches one.
Request(c, g) ==
  /\ phase = "up" /\ c \in Clients /\ adds[c] = NoAdd
  /\ Become(c, [pc |-> "fetch", group |-> g])
  /\ UNCHANGED <<phase, stored, open, map, left, joined, refused, lost, stops, crashes, fails>>
-----------------------------------------------------------------------------
Fetched(a) ==
  /\ adds[a].pc = "fetch"
  /\ \/ Become(a, [adds[a] EXCEPT !.pc = "open"]) /\ UNCHANGED fails
     \/ fails < MaxFails /\ fails' = fails + 1 /\ Become(a, NoAdd)
  /\ UNCHANGED <<phase, stored, open, map, left, joined, refused, lost, stops, crashes>>

\* Groups.add: welo.open refuses a group that is open, with the message that join-group translates.
AddOpen(a) ==
  /\ adds[a].pc = "open"
  /\ LET g == adds[a].group
     IN \/ /\ g \in open
           /\ Become(a, NoAdd)
           /\ refused' = IF a \in Clients THEN refused \cup {g} ELSE refused
           /\ UNCHANGED open
        \/ /\ g \notin open
           /\ open' = open \cup {g}
           /\ Become(a, [adds[a] EXCEPT !.pc = "set"])
           /\ UNCHANGED refused
  /\ UNCHANGED <<phase, stored, map, left, joined, lost, stops, crashes, fails>>

\* Welo has been stopped, and may refuse to open anything.
AddOpenFails(a) ==
  /\ adds[a].pc = "open" /\ phase = "stopping"
  /\ Become(a, NoAdd)
  /\ UNCHANGED <<phase, stored, open, map, left, joined, refused, lost, stops, crashes, fails>>

\* Mutant: add returns when the group is in the map.
AddSetReturns(a) ==
  /\ adds[a].pc = "set"
  /\ map' = map \cup {adds[a].group}
  /\ joined' = IF a \in Clients THEN joined \cup {adds[a].group} ELSE joined
  /\ Become(a, [adds[a] EXCEPT !.pc = "put"])
  /\ UNCHANGED <<phase, stored, open, left, refused, lost, stops, crashes, fails>>

\* The database is open: groups.set, whether or not the groups have been stopped meanwhile.
AddSet(a) ==
  /\ adds[a].pc = "set"
  /\ map' = map \cup {adds[a].group}
  /\ Become(a, [adds[a] EXCEPT !.pc = "put"])
  /\ UNCHANGED <<phase, stored, open, left, joined, refused, lost, stops, crashes, fails>>

\* Mutant: only what a client asks for is stored.
AddPutClients(a) ==
  /\ adds[a].pc = "put"
  /\ stored' = IF a \in Clients THEN stored \cup {adds[a].group} ELSE stored
  /\ joined' = IF a \in Clients THEN joined \cup {adds[a].group} ELSE joined
  /\ lost' = lost \ {adds[a].group}
  /\ Become(a, NoAdd)
  /\ UNCHANGED <<phase, open, map, left, refused, stops, crashes, fails>>

AddPut(a) ==
  /\ adds[a].pc = "put"
  /\ stored' = stored \cup {adds[a].group}
  /\ joined' = IF a \in Clients THEN joined \cup {adds[a].group} ELSE joined
  /\ lost' = lost \ {adds[a].group}
  /\ Become(a, NoAdd)
  /\ UNCHANGED <<phase, open, map, left, refused, stops, crashes, fails>>

\* The write rejects: the caller gets the error, and the group stays open and in the map.
AddPutFails(a) ==
  /\ adds[a].pc = "put" /\ a # Starter
  /\ fails < MaxFails /\ fails' = fails + 1
  /\ lost' = lost \cup {adds[a].group}
  /\ Become(a, NoAdd)
  /\ UNCHANGED <<phase, stored, open, map, left, joined, refused, stops, crashes>>
-----------------------------------------------------------------------------
\* Groups.stop, and the abort of the fetches of the bootstrap: whatever else has begun goes on.
StopGroups ==
  /\ phase = "up" /\ stops < MaxStops
  /\ phase' = "stopping" /\ stops' = stops + 1
  /\ map' = {}
  /\ adds' = [a \in Adders |-> IF a \in Config /\ adds[a].pc = "fetch" THEN NoAdd ELSE adds[a]]
  /\ UNCHANGED <<stored, open, left, joined, refused, lost, crashes, fails>>

Off ==
  /\ phase' = "off" /\ open' = {} /\ map' = {} /\ left' = {} /\ lost' = {}
  /\ adds' = [a \in Adders |-> NoAdd]
  /\ UNCHANGED <<stored, joined, refused, stops, fails>>

\* After a stop the process ends when nothing runs any more; a fetch over the network that has been stopped does not.
Exit == phase = "stopping" /\ (\A a \in Adders : adds[a].pc \in {"idle", "fetch"}) /\ Off /\ UNCHANGED crashes

\* A write of the replay that fails ends the process like a crash.
Crash == phase # "off" /\ crashes < MaxCrashes /\ crashes' = crashes + 1 /\ Off

GroupStep ==
  \/ StartGroups \/ GroupsStarted \/ \E g \in GroupIds : Replay(g)
  \/ \E a \in Adders : Fetched(a) \/ AddOpen(a) \/ AddOpenFails(a) \/ AddSet(a) \/ AddPut(a) \/ AddPutFails(a)

Requests == \E c \in Clients, g \in GroupIds : Request(c, g)

Next == GroupStep \/ Requests \/ StopGroups \/ Exit \/ Crash

Spec == Init /\ [][Next]_groupVars

\* The event loop goes on, fetches are answered, and a daemon that is off is started again; nobody has to stop it.
Fairness ==
  /\ WF_groupVars(StartGroups) /\ WF_groupVars(GroupsStarted) /\ WF_groupVars(\E g \in GroupIds : Replay(g))
  /\ WF_groupVars(Exit)
  /\ \A a \in Adders : WF_groupVars(Fetched(a) \/ AddOpen(a) \/ AddSet(a) \/ AddPut(a))
FairSpec == Spec /\ Fairness
-----------------------------------------------------------------------------
TypeOK ==
  /\ phase \in {"off", "replay", "up", "stopping"}
  /\ map \subseteq open /\ open \subseteq GroupIds /\ stored \subseteq GroupIds /\ left \subseteq stored
  /\ \A a \in Adders : adds[a].pc \in {"idle", "fetch", "open", "set", "put"} /\ adds[a].group \in GroupIds

\* groups.spec.ts, "rpc - create groups" and "rpc - joins an external group", across restarts: a group whose create
\* or join returned is served whenever the daemon is up.
JoinedServed == phase = "up" => joined \subseteq map

\* What the daemon serves it serves again after a restart, or a write of it is on the way, or the last one has failed.
ServedIsStored ==
  phase = "up" => \A g \in map : g \in stored \cup lost \/ \E a \in Adders : adds[a] = [pc |-> "put", group |-> g]

\* groups.spec.ts, "bootstraps a group from config": if nothing fails every configured group is served in the end,
\* whoever else joins it meanwhile.
Bootstrapped == <>[](Config \subseteq map) \/ <>(fails > 0)

\* join-group.ts:14 says "group has already been joined" to the client: then the daemon is in the group for good.
AlreadyJoined == phase = "up" => refused \subseteq map
=============================================================================
