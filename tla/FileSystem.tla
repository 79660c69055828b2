------------------------------ MODULE FileSystem ------------------------------
(***************************************************************************)
(* packages/daemon/src/modules/filesystem: the entries of one group.  The  *)
(* operations of the upload queue run one at a time on behalf of the       *)
(* import and delete commands (OperationManager); write commands change    *)
(* the same entries beside them.  An entry is [data, seq]: data stands for *)
(* the cid, as the set of pieces that went into the content.               *)
(*   db      the database of the group, path -> entry or NoEntry           *)
(*   pins    what the uploads pinned, under the path alone                 *)
(*   op      the operation of the queue, still persisted if there is one   *)
(*   call    where the worker of the queue and the write commands are      *)
(*   added   "file:added" events that no listener has taken                *)
(* Left out: encryption, priorities, sizes and time stamps.                *)
(***************************************************************************)
EXTENDS Naturals, FiniteSets

CONSTANTS
  Paths,
  Under,     \* path -> the paths whose database key begins with the key of path, path among them
  Above,     \* path -> the paths that delete looks at in the end: below the path without its last two names
  PlaceHolder, \* path -> the .PLACE_HOLDER there
  Writers,   \* write commands, each of which adds its piece once
  MaxOps,    \* operations of the queue
  MaxCrashes,
  Allowed,   \* which of "put", "delete" the queue is asked for
  Worker

\* The queries yield paths, and the place holder is one that delete would find.
TreeOK ==
  /\ Worker \notin Writers /\ Allowed \subseteq {"put", "delete"} /\ MaxOps \in Nat /\ Paths # {}
  /\ \A p \in Paths : Under[p] \subseteq Paths /\ Above[p] \subseteq Paths /\ PlaceHolder[p] \in Above[p]

VARIABLES db, pins, op, call, added, ops, crashes

vars == <<db, pins, op, call, added, ops, crashes>>

Procs == Writers \cup {Worker}
NoEntry == [data |-> {}, seq |-> 0]   \* content is never empty
NoOp == [kind |-> "none", path |-> CHOOSE p \in Paths : TRUE, piece |-> 0]
Idle == [pc |-> "idle", path |-> NoOp.path, data |-> {}, seq |-> 0, todo |-> {}]

\* getDir: what a query for the prefix yields, without the deleted entries.
Listed(S) == {p \in S : db[p] # NoEntry}

Init ==
  /\ db = [p \in Paths |-> NoEntry] /\ pins = [p \in Paths |-> {}]
  /\ op = NoOp /\ call = [q \in Procs |-> Idle] /\ added = {}
  /\ ops = 0 /\ crashes = 0

To(q, rec) == call' = [call EXCEPT ![q] = rec]
-----------------------------------------------------------------------------
(* FileSystem.put, called with pc = "put" and left with pc = "written". *)

\* Mutant: the number of the entry that is replaced is used again.
PutGetSame(q) ==
  /\ call[q].pc = "put"
  /\ To(q, [call[q] EXCEPT !.pc = "write", !.seq = db[call[q].path].seq])
  /\ UNCHANGED <<db, pins, op, added, ops, crashes>>

\* The size of the DAG was computed; get reads the sequence number to follow.
PutGet(q) ==
  /\ call[q].pc = "put"
  /\ To(q, [call[q] EXCEPT !.pc = "write",
              !.seq = IF db[call[q].path] = NoEntry THEN 0 ELSE db[call[q].path].seq + 1])
  /\ UNCHANGED <<db, pins, op, added, ops, crashes>>

PutWrite(q) ==
  /\ call[q].pc = "write"
  /\ db' = [db EXCEPT ![call[q].path] = [data |-> call[q].data, seq |-> call[q].seq]]
  /\ To(q, [call[q] EXCEPT !.pc = "written"])
  /\ UNCHANGED <<pins, op, added, ops, crashes>>

Dispatch(q) == added' = added \cup {[path |-> call[q].path, data |-> call[q].data, seq |-> call[q].seq]}
-----------------------------------------------------------------------------
(* The operations of the queue. *)

Ask(kind, path) ==
  /\ op = NoOp /\ ops < MaxOps /\ kind \in Allowed
  /\ ops' = ops + 1
  /\ op' = [kind |-> kind, path |-> path, piece |-> ops']
  /\ UNCHANGED <<db, pins, call, added, crashes>>

AskPut(path) == Ask("put", path)
AskDelete(path) == Ask("delete", path)

OpPut ==
  /\ op.kind = "put" /\ call[Worker] = Idle
  /\ To(Worker, [Idle EXCEPT !.pc = "put", !.path = op.path, !.data = {op.piece}])
  /\ UNCHANGED <<db, pins, op, added, ops, crashes>>

\* pinManager.put, then the event; the queue deletes the row of the operation.
OpPinned ==
  /\ call[Worker].pc = "written"
  /\ pins' = [pins EXCEPT ![call[Worker].path] = call[Worker].data]
  /\ Dispatch(Worker)
  /\ op' = NoOp /\ To(Worker, Idle)
  /\ UNCHANGED <<db, ops, crashes>>

OpDelete ==
  /\ op.kind = "delete" /\ call[Worker] = Idle
  /\ To(Worker, [Idle EXCEPT !.pc = "delete", !.path = op.path, !.todo = Listed(Under[op.path])])
  /\ UNCHANGED <<db, pins, op, added, ops, crashes>>

DeleteOne(p) ==
  /\ call[Worker].pc = "delete" /\ p \in call[Worker].todo
  /\ db' = [db EXCEPT ![p] = NoEntry]
  /\ To(Worker, [call[Worker] EXCEPT !.todo = @ \ {p}])
  /\ UNCHANGED <<pins, op, added, ops, crashes>>

\* Mutant: the directory is looked at when the deletion is planned, not when it is done.
DeleteEndEarly ==
  /\ call[Worker].pc = "delete" /\ call[Worker].todo = {}
  /\ op' = NoOp /\ To(Worker, Idle)
  /\ UNCHANGED <<db, pins, added, ops, crashes>>

\* One entry is looked at of those below the path without its last two names, which is the directory above the one that
\* the path is in; the deleted path itself does not count.
DeleteEnd ==
  /\ call[Worker].pc = "delete" /\ call[Worker].todo = {}
  /\ LET path == call[Worker].path
         rest == Listed(Above[path])
     IN \/ /\ rest \ {path} # {}
           /\ op' = NoOp /\ To(Worker, Idle)
        \/ /\ rest = {} \/ path \in rest
           /\ To(Worker, [Idle EXCEPT !.pc = "put", !.path = PlaceHolder[path], !.data = {0}])
           /\ UNCHANGED op
  /\ UNCHANGED <<db, pins, added, ops, crashes>>
-----------------------------------------------------------------------------
(* The write command: it reads the content, puts its piece in, and stores it. *)

WriteGet(w, path) ==
  /\ call[w] = Idle
  /\ To(w, [Idle EXCEPT !.pc = "put", !.path = path, !.data = db[path].data \cup {w}])
  /\ UNCHANGED <<db, pins, op, added, ops, crashes>>

WriteReturn(w) ==
  /\ call[w].pc = "written"
  /\ Dispatch(w)
  /\ To(w, [call[w] EXCEPT !.pc = "returned"])
  /\ UNCHANGED <<db, pins, op, ops, crashes>>

\* The row of the operation is still there, so the next start runs it from its beginning.
Crash ==
  /\ crashes < MaxCrashes
  /\ crashes' = crashes + 1
  /\ call' = [q \in Procs |-> IF q = Worker \/ call[q] = Idle THEN Idle ELSE [call[q] EXCEPT !.pc = "returned"]]
  /\ added' = {}
  /\ UNCHANGED <<db, pins, op, ops>>

FileStep ==
  \/ \E q \in Procs : PutGet(q) \/ PutWrite(q)
  \/ \E p \in Paths : AskPut(p) \/ AskDelete(p)
  \/ OpPut \/ OpPinned \/ OpDelete \/ DeleteEnd
  \/ \E p \in Paths : DeleteOne(p)
  \/ \E w \in Writers : WriteReturn(w) \/ \E p \in Paths : WriteGet(w, p)

Next == FileStep \/ Crash

Spec == Init /\ [][Next]_vars
-----------------------------------------------------------------------------
Entry == [data : SUBSET (Writers \cup (0..MaxOps)), seq : Nat]

TypeOK ==
  /\ db \in [Paths -> Entry]
  /\ \A q \in Procs : /\ call[q].path \in Paths /\ call[q].seq \in Nat /\ call[q].todo \subseteq Paths
                      /\ call[q].pc \in {"idle", "put", "write", "written", "delete", "returned"}
  /\ \A e \in added : e.path \in Paths
  /\ op.kind \in {"none", "put", "delete"} /\ op.path \in Paths /\ op.piece \in 0..MaxOps

\* No write command has begun, so that only the queue has changed the entries.
Unwritten == \A w \in Writers : call[w] = Idle

\* However often crashes make the queue repeat an operation, each version of a file follows the one before it.
SequenceStep ==
  \A p \in Paths : db'[p] # db[p] /\ db[p] # NoEntry /\ db'[p] # NoEntry => db'[p].seq = db[p].seq + 1
SequenceFollows == [][Unwritten => SequenceStep]_vars

\* A delete that has ended has left an entry, a file or a place holder, below the path without its last two names,
\* wherever crashes cut it off and whatever write commands do: that directory exists as long as it has an entry. The
\* directory that the path itself is in may have none left.
DirectoryStep == op.kind = "delete" /\ op' = NoOp => \E p \in Above[op.path] : db[p] # NoEntry
DirectoryStays == [][DirectoryStep]_vars

\* filesystem.spec.ts, "rpc - write": later writes at other positions keep what earlier ones wrote.
WritesKept == \A w \in Writers : call[w].pc = "returned" => w \in db[call[w].path].data

\* filesystem.spec.ts, "rpc - delete (file)": the path of a file deletes that file.
DeletesPath == call[Worker].pc = "delete" => call[Worker].todo \subseteq {call[Worker].path}
=============================================================================
