------------------------------- MODULE Downloader -------------------------------
(***************************************************************************)
(* daemon/common/downloader: the loop that downloads the active pins.      *)
(*   pins, left   the pins, and the heads each still has to download       *)
(*   loop     "on", "waiting" (the 100 ms), "off"                          *)
(*   pass     pins of getActive that this pass has not reached yet         *)
(*   tasks    closures of batchDownload that parallel has not started,     *)
(*            in the order of their heads                                  *)
(*   running  heads the pipeline is downloading                            *)
(*   stray    heads that pipelines which failed are still downloading      *)
(*   closing  pause or stop was seen: the source of the pipeline has ended *)
(*   paused, stopped   isPaused, and the signal of the controller          *)
(* A head is a number, its place in the datastore's order of a pin's       *)
(* downloads; downloading it makes heads of its links.  Every closure has  *)
(* 10 s of its own, whatever else is running.                              *)
(***************************************************************************)
EXTENDS Naturals, FiniteSets

CONSTANTS
  Heads,       \* a finite set of numbers
  Links,       \* Links[h]: the blocks that h links to
  RootOf,      \* pin -> its root
  Position,    \* pin -> its place where the datastore lists the pins
  Priority,    \* pin -> 1..100
  Slots,
  Available    \* the blocks some peer has

\* Links lead from blocks to blocks; heads are numbers, and there is a slot.
ConstantsOK ==
  /\ IsFiniteSet(Heads) /\ Heads \subseteq Nat /\ Slots \in Nat \ {0}
  /\ \A h \in Heads : Links[h] \subseteq Heads
  /\ \A p \in DOMAIN RootOf : RootOf[p] \in Heads

VARIABLES pins, left, loop, pass, tasks, running, stray, closing, paused, stopped

vars == <<pins, left, loop, pass, tasks, running, stray, closing, paused, stopped>>
pipeVars == <<loop, pass, tasks, running, stray, closing>>

Pins == DOMAIN RootOf

\* More slots for pins of a smaller priority number.
Weight(p) == ((100 - Priority[p]) * Slots) \div 100 + 1

\* Pins with status DOWNLOADING.
Active == {p \in pins : left[p] # {}}

\* The heads that the limit leaves of a pin.
FirstHeads(p) == {h \in left[p] : Cardinality({k \in left[p] : k <= h}) <= Weight(p)}

\* Mutant: the heads that are being downloaded are not left out.
ClosuresAll(p) == FirstHeads(p)

\* downloadHeads: the first heads, without those that are being downloaded.
Closures(p) == FirstHeads(p) \ (running \cup stray)

\* The pass goes through its pins in the order of the list.
NextPin(p) == p \in pass /\ \A q \in pass : Position[p] <= Position[q]

Init ==
  /\ pins = Pins /\ left = [p \in Pins |-> {RootOf[p]}]
  /\ loop = "on" /\ pass = {} /\ tasks = {} /\ running = {} /\ stray = {} /\ closing = FALSE
  /\ paused = FALSE /\ stopped = FALSE

Closing == closing' = (closing \/ paused \/ stopped)

\* The generators go on when parallel asks for a task: to the next pass, or to the next pin.
DrawReady == loop = "on" /\ ~closing /\ tasks = {} /\ Closing

NextPass ==
  /\ DrawReady
  /\ \/ closing' /\ UNCHANGED pass
     \/ ~closing' /\ pass = {} /\ pass' = Active
  /\ UNCHANGED <<pins, left, loop, tasks, running, stray, paused, stopped>>

Draw(p) ==
  /\ DrawReady /\ ~closing'
  /\ p \in pins /\ NextPin(p)
  /\ pass' = pass \ {p} /\ tasks' = Closures(p)
  /\ UNCHANGED <<pins, left, loop, running, stray, paused, stopped>>

\* catcher: the error ends the pipeline; what it has started goes on, what it has drawn is dropped.
Broken(ended) ==
  /\ loop' = "waiting" /\ stray' = (stray \cup running) \ ended /\ running' = {} /\ tasks' = {} /\ pass' = {}
  /\ closing' = FALSE

\* The pin was removed after getActive listed it: "no such pin".
DrawFails ==
  /\ loop = "on" /\ ~closing /\ tasks = {} /\ ~paused /\ ~stopped
  /\ \E p \in pass \ pins : NextPin(p)
  /\ Broken({})
  /\ UNCHANGED <<pins, left, paused, stopped>>

\* parallel starts the first closure when a slot is free; downloadSingle joins a download of the same block.
StartTask(h) ==
  /\ loop = "on" /\ Cardinality(running) < Slots
  /\ h \in tasks /\ \A k \in tasks : h <= k
  /\ running' = running \cup {h} /\ tasks' = tasks \ {h}
  /\ UNCHANGED <<pins, left, loop, pass, stray, closing, paused, stopped>>

\* A block arrived: it leaves the downloads of every pin, and its links enter them.
Arrive(h) ==
  /\ h \in running \cup stray /\ h \in Available
  /\ left' = [p \in Pins |-> IF h \in left[p] THEN (left[p] \ {h}) \cup Links[h] ELSE left[p]]
  /\ running' = running \ {h} /\ stray' = stray \ {h}
  /\ UNCHANGED <<pins, loop, pass, tasks, closing, paused, stopped>>

\* A closure fails: it is aborted by stop or its own 10 s are over, be it that nobody has the block or that a peer is
\* slow.
Fail(h) ==
  /\ h \in running
  /\ Broken({h})
  /\ UNCHANGED <<pins, left, paused, stopped>>

FailStray(h) ==
  /\ h \in stray
  /\ stray' = stray \ {h}
  /\ UNCHANGED <<pins, left, loop, pass, tasks, running, closing, paused, stopped>>

\* The source has ended and so has everything it gave.
Drained ==
  /\ loop = "on" /\ closing /\ tasks = {} /\ running = {}
  /\ loop' = "waiting" /\ pass' = {} /\ closing' = FALSE
  /\ UNCHANGED <<pins, left, tasks, running, stray, paused, stopped>>

\* Mutant: a failed pipeline is not started again.
AgainEnds ==
  /\ loop = "waiting" /\ loop' = IF stopped \/ stray # {} THEN "off" ELSE "on"
  /\ UNCHANGED <<pins, left, pass, tasks, running, stray, closing, paused, stopped>>

\* 100 ms later.
Again ==
  /\ loop = "waiting" /\ loop' = IF stopped THEN "off" ELSE "on"
  /\ UNCHANGED <<pins, left, pass, tasks, running, stray, closing, paused, stopped>>

\* The downloader command.
Pause == /\ ~paused /\ ~stopped /\ paused' = TRUE /\ UNCHANGED <<pins, left, pipeVars, stopped>>
Resume == /\ paused /\ paused' = FALSE /\ UNCHANGED <<pins, left, pipeVars, stopped>>

StopLoop == /\ ~stopped /\ stopped' = TRUE /\ UNCHANGED <<pins, left, pipeVars, paused>>

\* start waits for the loop that was stopped.
StartLoop ==
  /\ stopped /\ loop = "off" /\ stopped' = FALSE /\ loop' = "on"
  /\ UNCHANGED <<pins, left, pass, tasks, running, stray, closing, paused>>

\* The last reference of a pin is removed.
RemovePin(p) ==
  /\ p \in pins /\ pins' = pins \ {p} /\ left' = [left EXCEPT ![p] = {}]
  /\ UNCHANGED <<pipeVars, paused, stopped>>

Next ==
  \/ NextPass \/ DrawFails \/ Drained \/ Again \/ Pause \/ Resume \/ StopLoop \/ StartLoop
  \/ \E h \in Heads : StartTask(h) \/ Arrive(h) \/ Fail(h) \/ FailStray(h)
  \/ \E p \in Pins : Draw(p) \/ RemovePin(p)

Spec == Init /\ [][Next]_vars

\* There is something that the loop can draw and start at once.
Busy ==
  \/ tasks # {} /\ Cardinality(running) < Slots
  \/ tasks = {} /\ ~closing /\ \E p \in pins : Closures(p) # {}

\* What only ever happens finitely often is over: nobody pauses and stops the downloads for ever; a peer that has a block
\* is not too slow for ever; and since an attempt lasts ten seconds and the loop starts at once what it can, only
\* finitely many time-outs come before it has.
Calm ==
  /\ ~Pause /\ ~StopLoop
  /\ \A h \in Heads : Fail(h) \/ FailStray(h) => h \notin Available /\ (Fail(h) => ~Busy)

\* The event loop, the network and the timers go on.
Fairness ==
  /\ WF_vars(NextPass \/ \E p \in Pins : Draw(p)) /\ WF_vars(DrawFails) /\ WF_vars(\E h \in Heads : StartTask(h))
  /\ WF_vars(Drained) /\ WF_vars(Again) /\ WF_vars(Resume) /\ WF_vars(StartLoop)
  /\ \A h \in Heads : WF_vars(Arrive(h)) /\ WF_vars(Fail(h)) /\ WF_vars(FailStray(h))
  /\ <>[][Calm]_vars
FairSpec == Spec /\ Fairness
-----------------------------------------------------------------------------
TypeOK ==
  /\ pins \subseteq Pins /\ left \in [Pins -> SUBSET Heads] /\ running \subseteq Heads /\ stray \subseteq Heads
  /\ loop \in {"on", "waiting", "off"} /\ closing \in BOOLEAN /\ paused \in BOOLEAN /\ stopped \in BOOLEAN
  /\ tasks \subseteq Heads /\ pass \subseteq Pins /\ Cardinality(running) <= Slots

\* No block is downloaded by two pipelines at once.
OneEach == running \cap stray = {}

\* A pin tries its first blocks only: as many that nobody has come before h.
Behind(p, h) == Cardinality({k \in left[p] \ Available : k < h}) >= Weight(p)

\* architecture.md:5, "These files are automatically downloaded": while there are fewer blocks that nobody has than
\* slots, and beside time-outs of any blocks, pauses, stops and removals, in the end no block is left that a peer has and
\* that a pin of the list needs, but those behind the ones that nobody has.
Completes ==
  Cardinality(Heads \ Available) < Slots => <>[](\A p \in Pins : \A h \in left[p] \cap Available : Behind(p, h))
=============================================================================
