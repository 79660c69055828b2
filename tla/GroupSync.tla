------------------------------- MODULE GroupSync -------------------------------
(***************************************************************************)
(* How the daemon follows the database of a group: a tick runs sync-groups *)
(* (or sync-revisions) every interval, which asks the entry tracker for    *)
(* the entries that have changed and lets each refer to its content in the *)
(* pin manager (References).                                               *)
(*   db     the database: path -> version, Deleted or Absent; it changes   *)
(*          at any time, by local commands and by peers                    *)
(*   hash   the tracker's datastore: the version processed last            *)
(*   pins   the references of the pin manager                              *)
(*   tick   the loop of Tick, `stopping` its abort signal                  *)
(*   pass   the work of one call of the method: the snapshot, what is left *)
(*          of it, and the entry that is being handled                     *)
(*   edit   one edit command: the path, the pin it has read, and whether   *)
(*          the pass has written the pin of the path meanwhile             *)
(*   returned   history: the paths that were put again after a deletion    *)
(* Every version that is not a deletion has a time stamp of its own.       *)
(***************************************************************************)
EXTENDS Naturals

CONSTANTS
  Paths,
  MaxVersion,  \* the database changes MaxVersion times
  MaxFaults,   \* errors and crashes
  ReadsLatest, \* sync-groups reads the entry again, sync-revisions takes the snapshot's
  Allowed      \* which of "delete", "edit", "stop", "crash" may happen

ConstantsOK == MaxVersion \in Nat /\ MaxFaults \in Nat /\ ReadsLatest \in BOOLEAN

Absent == 0
Deleted == MaxVersion + 1   \* every deletion is stored as the same value
NoPin == 0

VARIABLES db, version, hash, pins, tick, stopping, pass, edit, faults, returned

vars == <<db, version, hash, pins, tick, stopping, pass, edit, faults, returned>>

\* The pin that an entry asks for.
PinFor(entry) == IF entry \in {Absent, Deleted} THEN NoPin ELSE entry

\* The edit command is at work on the path.
Editing(p) == edit.pc \in {"remove", "put"} /\ edit.path = p

Init ==
  /\ db = [p \in Paths |-> Absent] /\ version = 0
  /\ hash = [p \in Paths |-> Absent] /\ pins = [p \in Paths |-> NoPin]
  /\ tick = "waiting" /\ stopping = FALSE
  /\ pass = [pc |-> "none"] /\ edit = [pc |-> "none"] /\ faults = 0 /\ returned = {}

Change(p) ==
  /\ version < MaxVersion
  /\ version' = version + 1
  /\ \/ /\ db' = [db EXCEPT ![p] = version']
        /\ returned' = IF db[p] = Deleted THEN returned \cup {p} ELSE returned
     \/ /\ "delete" \in Allowed /\ db[p] # Absent
        /\ db' = [db EXCEPT ![p] = Deleted] /\ UNCHANGED returned
  /\ UNCHANGED <<hash, pins, tick, stopping, pass, edit, faults>>
-----------------------------------------------------------------------------
(* Tick *)

\* The interval has passed; the tracker takes the latest index of the database.
Begin ==
  /\ tick = "waiting" /\ ~stopping
  /\ tick' = "method"
  /\ pass' = [pc |-> "next", snapshot |-> db, left |-> {p \in Paths : db[p] # Absent}]
  /\ UNCHANGED <<db, version, hash, pins, stopping, edit, faults, returned>>

\* An abort ends the loop between two methods or in the wait.
StopTick ==
  /\ tick # "stopped" /\ ~stopping /\ "stop" \in Allowed
  /\ stopping' = TRUE
  /\ UNCHANGED <<db, version, hash, pins, tick, pass, edit, faults, returned>>

LoopEnds ==
  /\ tick = "waiting" /\ stopping
  /\ tick' = "stopped"
  /\ UNCHANGED <<db, version, hash, pins, stopping, pass, edit, faults, returned>>

StartTick ==
  /\ tick = "stopped"
  /\ tick' = "waiting" /\ stopping' = FALSE
  /\ UNCHANGED <<db, version, hash, pins, pass, edit, faults, returned>>
-----------------------------------------------------------------------------
(* EntryTracker.process and the body of the loop over it *)

Skip(p) ==
  /\ pass.pc = "next" /\ p \in pass.left
  /\ hash[p] = pass.snapshot[p]
  /\ pass' = [pass EXCEPT !.left = @ \ {p}]
  /\ UNCHANGED <<db, version, hash, pins, tick, stopping, edit, faults, returned>>

Handed(p) == [pc |-> "read", snapshot |-> pass.snapshot, left |-> pass.left \ {p}, path |-> p]

\* Mutant: the entry counts as processed when it is handed out.
YieldRecorded(p) ==
  /\ pass.pc = "next" /\ p \in pass.left
  /\ hash[p] # pass.snapshot[p]
  /\ hash' = [hash EXCEPT ![p] = pass.snapshot[p]]
  /\ pass' = Handed(p)
  /\ UNCHANGED <<db, version, pins, tick, stopping, edit, faults, returned>>

Yield(p) ==
  /\ pass.pc = "next" /\ p \in pass.left
  /\ hash[p] # pass.snapshot[p]
  /\ pass' = Handed(p)
  /\ UNCHANGED <<db, version, hash, pins, tick, stopping, edit, faults, returned>>

Read ==
  /\ pass.pc = "read"
  /\ pass' = [pc |-> "remove", snapshot |-> pass.snapshot, left |-> pass.left, path |-> pass.path,
              entry |-> IF ReadsLatest THEN db[pass.path] ELSE pass.snapshot[pass.path]]
  /\ UNCHANGED <<db, version, hash, pins, tick, stopping, edit, faults, returned>>

\* The pass writes the pin of its entry; an edit of the same path that has begun has met it.
Write(pin) ==
  /\ pins' = [pins EXCEPT ![pass.path] = pin]
  /\ edit' = IF Editing(pass.path) THEN [edit EXCEPT !.met = TRUE] ELSE edit

\* pinManager.remove, by itself or as the beginning of put.
Remove ==
  /\ pass.pc = "remove"
  /\ Write(NoPin)
  /\ pass' = [pass EXCEPT !.pc = IF PinFor(pass.entry) = NoPin THEN "record" ELSE "put"]
  /\ UNCHANGED <<db, version, hash, tick, stopping, faults, returned>>

\* The end of pinManager.put; the local priority that it keeps is left out.
Put ==
  /\ pass.pc = "put"
  /\ Write(PinFor(pass.entry))
  /\ pass' = [pass EXCEPT !.pc = "record"]
  /\ UNCHANGED <<db, version, hash, tick, stopping, faults, returned>>

\* The tracker records the value that it has yielded.
Record ==
  /\ pass.pc = "record"
  /\ hash' = [hash EXCEPT ![pass.path] = pass.snapshot[pass.path]]
  /\ pass' = [pass EXCEPT !.pc = "next"]
  /\ UNCHANGED <<db, version, pins, tick, stopping, edit, faults, returned>>

EndMethod ==
  /\ pass.pc = "next" /\ pass.left = {}
  /\ tick' = "waiting" /\ pass' = [pc |-> "none"]
  /\ UNCHANGED <<db, version, hash, pins, stopping, edit, faults, returned>>

\* Mutant: an error is caught for each entry, which counts as processed.
MethodErrorRecords ==
  /\ pass.pc \in {"read", "remove", "put"} /\ faults < MaxFaults
  /\ faults' = faults + 1
  /\ pass' = [pass EXCEPT !.pc = "record"]
  /\ UNCHANGED <<db, version, hash, pins, tick, stopping, edit, returned>>

\* The database or the pin manager throws: the rest of the pass is dropped, the tick goes on.
MethodError ==
  /\ pass.pc \in {"read", "remove", "put"} /\ faults < MaxFaults
  /\ faults' = faults + 1
  /\ tick' = "waiting" /\ pass' = [pc |-> "none"]
  /\ UNCHANGED <<db, version, hash, pins, stopping, edit, returned>>

Crash ==
  /\ "crash" \in Allowed /\ faults < MaxFaults
  /\ faults' = faults + 1
  /\ tick' = "waiting" /\ stopping' = FALSE /\ pass' = [pc |-> "none"]
  /\ edit' = IF edit.pc \in {"remove", "put"} THEN [edit EXCEPT !.pc = "done", !.met = TRUE] ELSE edit
  /\ UNCHANGED <<db, version, hash, pins, returned>>
-----------------------------------------------------------------------------
(* The edit command: pinManager.get, then put, which removes first, with another priority. *)

EditGet(p) ==
  /\ "edit" \in Allowed /\ edit.pc = "none" /\ pins[p] # NoPin
  /\ edit' = [pc |-> "remove", path |-> p, pin |-> pins[p], met |-> FALSE]
  /\ UNCHANGED <<db, version, hash, pins, tick, stopping, pass, faults, returned>>

EditRemove ==
  /\ edit.pc = "remove"
  /\ pins' = [pins EXCEPT ![edit.path] = NoPin]
  /\ edit' = [edit EXCEPT !.pc = "put"]
  /\ UNCHANGED <<db, version, hash, tick, stopping, pass, faults, returned>>

EditPut ==
  /\ edit.pc = "put"
  /\ pins' = [pins EXCEPT ![edit.path] = edit.pin]
  /\ edit' = [edit EXCEPT !.pc = "done"]
  /\ UNCHANGED <<db, version, hash, tick, stopping, pass, faults, returned>>

Sync ==
  \/ Begin \/ LoopEnds \/ StartTick \/ Read \/ Remove \/ Put \/ Record \/ EndMethod
  \/ \E p \in Paths : Skip(p) \/ Yield(p)

Next ==
  \/ Sync \/ StopTick \/ MethodError \/ Crash \/ EditRemove \/ EditPut
  \/ \E p \in Paths : Change(p) \/ EditGet(p)

Spec == Init /\ [][Next]_vars

\* The timer of the tick fires, what it calls goes on, and a stopped tick is started again.
Fairness == WF_vars(Sync) /\ WF_vars(EditRemove \/ EditPut)
FairSpec == Spec /\ Fairness
-----------------------------------------------------------------------------
TypeOK ==
  /\ db \in [Paths -> 0..Deleted] /\ hash \in [Paths -> 0..Deleted] /\ pins \in [Paths -> 0..MaxVersion]
  /\ tick \in {"waiting", "method", "stopped"} /\ stopping \in BOOLEAN
  /\ pass.pc \in {"none", "next", "read", "remove", "put", "record"} /\ (pass.pc = "none") = (tick # "method")

\* An edit of the path that is not over, or that the pass or a crash came between.
Edited(p) == Editing(p) \/ (edit.pc = "done" /\ edit.path = p /\ edit.met)

\* The value in the database tells what is pinned.  One deletion is stored like another, so that of a path that came
\* back after one nobody can tell whether the last was processed.
Told(p) == db[p] = Deleted => p \notin returned

\* An entry that counts as processed has the pin it asks for, so that nothing is skipped by mistake, whatever deletions,
\* errors and crashes come between the awaits of the pass; but for the path of an edit that is at work or was disturbed,
\* and for a deletion of a path that had come back after an earlier one.
ProcessedIsPinned == \A p \in Paths : hash[p] = db[p] /\ Told(p) => pins[p] = PinFor(db[p]) \/ Edited(p)

\* In the end exactly what the group holds is pinned, in spite of deletions, errors and crashes in the middle of a pass;
\* only the path of an edit that met the pass, and a deletion after which the path had come back, may be left behind.
OthersFollow == <>[](\A p \in Paths : Told(p) => pins[p] = PinFor(db[p]) \/ Edited(p))

\* architecture.md: "These files are automatically downloaded": what the group holds is what is pinned in the end.
Follows == <>[](\A p \in Paths : pins[p] = PinFor(db[p]))
=============================================================================
