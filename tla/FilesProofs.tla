------------------------------ MODULE FilesProofs ------------------------------
(***************************************************************************)
(* Proofs about what the files of a group are made of: FileSystem and      *)
(* Revisions for every set of paths, every number of operations, crashes   *)
(* and, where they are spoken of, write commands beside the queue; DagSize *)
(* for every DAG; Portation for every disk.                                *)
(***************************************************************************)
EXTENDS Files, FiniteSetTheorems, SequenceTheorems, WellFoundedInduction, TLAPS
-----------------------------------------------------------------------------
(* FileSystem *)

Pieces == Writers \cup 0..MaxOps
EntryRec == [path : Paths, data : SUBSET Pieces, seq : Nat]
CallRec ==
  [pc : {"idle", "put", "write", "written", "delete", "returned"}, path : Paths, data : SUBSET Pieces,
   seq : Nat, todo : SUBSET Paths]
OpRec == [kind : {"none", "put", "delete"}, path : Paths, piece : 0..MaxOps]

FileTypes ==
  /\ db \in [Paths -> [data : SUBSET Pieces, seq : Nat]]
  /\ call \in [Procs -> CallRec] /\ added \subseteq EntryRec
  /\ op \in OpRec /\ ops \in 0..MaxOps

\* The operation at work is in the queue, and what it stores is content.
Working ==
  /\ op.kind = "none" => op = NoOp /\ call[Worker] = Idle
  /\ call[Worker].pc \in {"idle", "put", "write", "written", "delete"}
  /\ call[Worker].pc = "idle" => call[Worker] = Idle
  /\ call[Worker].pc = "delete" => op.kind = "delete" /\ call[Worker].path = op.path
  /\ \A q \in Procs : call[q].pc \in {"put", "write", "written"} => call[q].data # {}

\* A delete writes the place holder of its directory, and then it is there.
Placing ==
  op.kind = "delete" /\ call[Worker].pc \in {"put", "write", "written"} =>
    /\ call[Worker].path = PlaceHolder[op.path]
    /\ call[Worker].pc = "written" => db[call[Worker].path] # NoEntry

FileInv == FileTypes /\ Working /\ Placing

\* The constants of the records are well typed.
LEMMA Constants ==
  ASSUME TreeOK
  PROVE  NoOp \in OpRec /\ Idle \in CallRec /\ NoEntry \in [data : SUBSET Pieces, seq : Nat]
<1>1. (CHOOSE p \in Paths : TRUE) \in Paths
  BY DEF TreeOK
<1>2. NoOp \in OpRec /\ NoOp.path \in Paths
  BY <1>1 DEF TreeOK, NoOp, OpRec
<1> QED
  BY <1>2 DEF Idle, NoEntry, CallRec

\* A process goes on with another record, and the others stay.
LEMMA Moves ==
  ASSUME FileTypes, NEW q \in Procs, NEW rec, To(q, rec)
  PROVE  /\ call'[q] = rec /\ \A r \in Procs : r # q => call'[r] = call[r]
         /\ rec \in CallRec => call' \in [Procs -> CallRec]
  BY DEF To, FileTypes

LEMMA FileInit == ASSUME TreeOK, Init PROVE FileInv
<1>1. FileTypes
  BY Constants DEF Init, FileTypes, TreeOK
<1>2. \A q \in Procs : call[q] = Idle
  BY DEF Init
<1>3. op = NoOp /\ op.kind = "none" /\ Worker \in Procs /\ Idle.pc = "idle"
  BY DEF Init, NoOp, Procs, Idle
<1>4. Working /\ Placing
  BY <1>2, <1>3 DEF Working, Placing
<1> QED
  BY <1>1, <1>4 DEF FileInv

\* The steps of put, whoever calls it.
LEMMA PutGetMoves ==
  ASSUME TreeOK, FileInv, NEW q \in Procs, PutGet(q)
  PROVE  /\ call'[q] \in CallRec /\ call'[q].pc = "write"
         /\ call'[q].path = call[q].path /\ call'[q].data = call[q].data
         /\ call'[q].seq = IF db[call[q].path] = NoEntry THEN 0 ELSE db[call[q].path].seq + 1
<1> DEFINE n == IF db[call[q].path] = NoEntry THEN 0 ELSE db[call[q].path].seq + 1
<1>1. call[q] \in CallRec /\ db[call[q].path] \in [data : SUBSET Pieces, seq : Nat]
  BY DEF FileInv, FileTypes, CallRec
<1>2. n \in Nat
  BY <1>1
<1>3. call'[q] = [call[q] EXCEPT !.pc = "write", !.seq = n]
  BY Moves DEF PutGet, FileInv
<1> HIDE DEF n
<1>4. call'[q] \in CallRec /\ call'[q].pc = "write" /\ call'[q].path = call[q].path /\ call'[q].data = call[q].data
      /\ call'[q].seq = n
  BY <1>1, <1>2, <1>3 DEF CallRec
<1> QED
  BY <1>4 DEF n

LEMMA PutWriteMoves ==
  ASSUME TreeOK, FileInv, NEW q \in Procs, PutWrite(q)
  PROVE  /\ call'[q] \in CallRec /\ call'[q].pc = "written"
         /\ call'[q].path = call[q].path /\ call'[q].data = call[q].data /\ call'[q].seq = call[q].seq
         /\ db'[call[q].path] = [data |-> call[q].data, seq |-> call[q].seq]
         /\ \A p \in Paths : p # call[q].path => db'[p] = db[p]
         /\ db' \in [Paths -> [data : SUBSET Pieces, seq : Nat]]
<1>1. call[q] \in CallRec /\ db \in [Paths -> [data : SUBSET Pieces, seq : Nat]]
  BY DEF FileInv, FileTypes
<1>2. call'[q] = [call[q] EXCEPT !.pc = "written"]
  BY Moves DEF PutWrite, FileInv
<1>3. call[q].path \in Paths /\ [data |-> call[q].data, seq |-> call[q].seq] \in [data : SUBSET Pieces, seq : Nat]
  BY <1>1 DEF CallRec
<1> QED
  BY <1>1, <1>2, <1>3 DEF CallRec, PutWrite

\* A process that begins, with a record made of Idle.
LEMMA Begins ==
  ASSUME TreeOK, FileTypes, NEW q \in Procs, NEW pc \in {"put", "delete"}, NEW path \in Paths,
         NEW data \in SUBSET Pieces
  PROVE  /\ To(q, [Idle EXCEPT !.pc = pc, !.path = path, !.data = data]) =>
              /\ call'[q] \in CallRec /\ call'[q].pc = pc /\ call'[q].path = path /\ call'[q].data = data
         /\ \A todo \in SUBSET Paths : To(q, [Idle EXCEPT !.pc = pc, !.path = path, !.todo = todo]) =>
              /\ call'[q] \in CallRec /\ call'[q].pc = pc /\ call'[q].path = path /\ call'[q].todo = todo
<1>1. Idle \in CallRec
  BY Constants
<1>2. \A rec : To(q, rec) => call'[q] = rec
  BY Moves
<1> QED
  BY <1>1, <1>2 DEF CallRec

\* The others of a step of one process.
LEMMA CallsTyped ==
  ASSUME FileTypes, NEW q \in Procs, NEW rec, To(q, rec), call'[q] \in CallRec
  PROVE  call' \in [Procs -> CallRec]
  BY Moves

LEMMA PutGetKeeps == ASSUME TreeOK, FileInv, NEW q \in Procs, PutGet(q) PROVE FileInv'
<1>1. call[q].pc = "put" /\ UNCHANGED <<db, op, added, ops>>
  BY DEF PutGet
<1>2. FileTypes'
  BY <1>1, PutGetMoves, CallsTyped DEF FileInv, FileTypes, PutGet
<1>3. \A r \in Procs : r # q => call'[r] = call[r]
  BY Moves DEF PutGet, FileInv
<1>4. op.kind = "none" => q # Worker
  BY <1>1 DEF FileInv, Working, Idle
<1>5. Worker \in Procs /\ call[q].data # {} /\ op' = op
  BY <1>1 DEF FileInv, Working, Procs
<1>6. Working'
  <2>1. CASE q = Worker
    BY <1>3, <1>4, <1>5, <2>1, PutGetMoves DEF FileInv, Working
  <2>2. CASE q # Worker
    BY <1>3, <1>5, <2>2, PutGetMoves DEF FileInv, Working
  <2> QED
    BY <2>1, <2>2
<1>7. Placing'
  <2>1. CASE q = Worker
    BY <1>1, <1>5, <2>1, PutGetMoves DEF FileInv, Placing
  <2>2. CASE q # Worker
    BY <1>1, <1>3, <1>5, <2>2 DEF FileInv, Placing
  <2> QED
    BY <2>1, <2>2
<1> QED
  BY <1>2, <1>6, <1>7 DEF FileInv

LEMMA PutWriteKeeps == ASSUME TreeOK, FileInv, NEW q \in Procs, PutWrite(q) PROVE FileInv'
<1>1. call[q].pc = "write" /\ UNCHANGED <<op, added, ops>>
  BY DEF PutWrite
<1>2. FileTypes'
  BY <1>1, PutWriteMoves, CallsTyped DEF FileInv, FileTypes, PutWrite
<1>3. \A r \in Procs : r # q => call'[r] = call[r]
  BY Moves DEF PutWrite, FileInv
<1>4. op.kind = "none" => q # Worker
  BY <1>1 DEF FileInv, Working, Idle
<1>5. Worker \in Procs /\ call[q].data # {} /\ op' = op
  BY <1>1 DEF FileInv, Working, Procs
<1>6. Working'
  <2>1. CASE q = Worker
    BY <1>3, <1>4, <1>5, <2>1, PutWriteMoves DEF FileInv, Working
  <2>2. CASE q # Worker
    <3>1. call'[Worker] = call[Worker] /\ op' = op /\ Working
      BY <1>3, <1>5, <2>2 DEF FileInv
    <3>2. \A r \in Procs : call'[r].pc \in {"put", "write", "written"} => call'[r].data # {}
      <4> SUFFICES ASSUME NEW r \in Procs, call'[r].pc \in {"put", "write", "written"} PROVE call'[r].data # {}
        OBVIOUS
      <4>1. CASE r = q
        BY <1>5, <4>1, PutWriteMoves
      <4>2. CASE r # q
        BY <1>3, <3>1, <4>2 DEF Working
      <4> QED
        BY <4>1, <4>2
    <3> QED
      BY <3>1, <3>2 DEF Working
  <2> QED
    BY <2>1, <2>2
<1>7. db'[call[q].path] # NoEntry
  <2>1. db'[call[q].path] = [data |-> call[q].data, seq |-> call[q].seq]
    BY PutWriteMoves
  <2>2. db'[call[q].path].data # NoEntry.data
    BY <1>5, <2>1 DEF NoEntry
  <2> QED
    BY <2>2
<1>8. \A p \in Paths : db[p] # NoEntry => db'[p] # NoEntry
  BY <1>7, PutWriteMoves
<1>9. Placing'
  <2>1. CASE q = Worker
    BY <1>1, <1>5, <1>7, <2>1, PutWriteMoves DEF FileInv, Placing
  <2>2. CASE q # Worker
    BY <1>3, <1>5, <1>8, <2>2 DEF FileInv, Placing, FileTypes, CallRec
  <2> QED
    BY <2>1, <2>2
<1> QED
  BY <1>2, <1>6, <1>9 DEF FileInv

\* The steps of the queue.
LEMMA AskKeeps ==
  ASSUME TreeOK, FileInv, NEW kind, NEW path \in Paths, Ask(kind, path) PROVE FileInv'
<1>1. /\ op = NoOp /\ ops < MaxOps /\ kind \in {"put", "delete"} /\ ops' = ops + 1
      /\ op' = [kind |-> kind, path |-> path, piece |-> ops'] /\ UNCHANGED <<db, call, added>>
  BY DEF Ask, TreeOK
<1>2. ops' \in 0..MaxOps
  BY <1>1 DEF FileInv, FileTypes, TreeOK
<1>3. op' \in OpRec /\ op'.kind = kind
  BY <1>1, <1>2 DEF OpRec
<1>4. op.kind = "none"
  BY <1>1 DEF NoOp
<1>5. call[Worker].pc = "idle"
  BY <1>4 DEF FileInv, Working, Idle
<1> QED
  BY <1>1, <1>2, <1>3, <1>5 DEF FileInv, FileTypes, Working, Placing

\* A step of the worker that leaves the operation and the entries alone.
LEMMA WorkerGoes ==
  ASSUME TreeOK, FileInv, NEW rec \in CallRec, To(Worker, rec), UNCHANGED <<db, op, added, ops>>,
         op.kind # "none",
         \/ rec.pc = "delete" /\ op.kind = "delete" /\ rec.path = op.path
         \/ rec.pc = "put" /\ rec.data # {} /\ (op.kind = "delete" => rec.path = PlaceHolder[op.path])
  PROVE  FileInv'
<1>1. Worker \in Procs /\ call'[Worker] = rec /\ (\A r \in Procs : r # Worker => call'[r] = call[r])
      /\ call' \in [Procs -> CallRec]
  BY Moves DEF Procs, FileInv
<1> QED
  BY <1>1 DEF FileInv, FileTypes, Working, Placing

\* The worker is done with the operation.
LEMMA WorkerEnds ==
  ASSUME TreeOK, FileInv, To(Worker, Idle), op' = NoOp, UNCHANGED <<db, ops>>, added' \subseteq EntryRec
  PROVE  FileInv'
<1>1. Worker \in Procs /\ call'[Worker] = Idle /\ (\A r \in Procs : r # Worker => call'[r] = call[r])
      /\ call' \in [Procs -> CallRec]
  BY Moves, Constants DEF Procs, FileInv
<1>2. NoOp.kind = "none" /\ NoOp \in OpRec /\ Idle.pc = "idle"
  BY Constants DEF NoOp, Idle
<1> QED
  BY <1>1, <1>2 DEF FileInv, FileTypes, Working, Placing

LEMMA OpPutKeeps == ASSUME TreeOK, FileInv, OpPut PROVE FileInv'
<1>1. op.kind = "put" /\ op.path \in Paths /\ {op.piece} \in SUBSET Pieces
  BY DEF OpPut, FileInv, FileTypes, OpRec, Pieces
<1> DEFINE rec == [Idle EXCEPT !.pc = "put", !.path = op.path, !.data = {op.piece}]
<1>2. rec \in CallRec /\ rec.pc = "put" /\ rec.data # {}
  BY <1>1, Constants DEF CallRec
<1>3. To(Worker, rec) /\ UNCHANGED <<db, op, added, ops>>
  BY DEF OpPut
<1> HIDE DEF rec
<1> QED
  BY <1>1, <1>2, <1>3, WorkerGoes

LEMMA OpDeleteKeeps == ASSUME TreeOK, FileInv, OpDelete PROVE FileInv'
<1>1. op.kind = "delete" /\ op.path \in Paths /\ Listed(Under[op.path]) \in SUBSET Paths
  BY DEF OpDelete, FileInv, FileTypes, OpRec, Listed, TreeOK
<1> DEFINE rec == [Idle EXCEPT !.pc = "delete", !.path = op.path, !.todo = Listed(Under[op.path])]
<1>2. rec \in CallRec /\ rec.pc = "delete" /\ rec.path = op.path
  BY <1>1, Constants DEF CallRec
<1>3. To(Worker, rec) /\ UNCHANGED <<db, op, added, ops>>
  BY DEF OpDelete
<1> HIDE DEF rec
<1> QED
  BY <1>1, <1>2, <1>3, WorkerGoes

LEMMA DeleteOneKeeps == ASSUME TreeOK, FileInv, NEW p \in Paths, DeleteOne(p) PROVE FileInv'
<1>1. /\ call[Worker].pc = "delete" /\ db' = [db EXCEPT ![p] = NoEntry]
      /\ UNCHANGED <<op, added, ops>>
  BY DEF DeleteOne
<1>2. Worker \in Procs /\ call[Worker] \in CallRec
  BY DEF FileInv, FileTypes, Procs
<1> DEFINE rec == [call[Worker] EXCEPT !.todo = @ \ {p}]
<1>3. rec \in CallRec /\ rec.pc = "delete" /\ rec.path = call[Worker].path
  BY <1>1, <1>2 DEF CallRec
<1>4. call'[Worker] = rec /\ (\A r \in Procs : r # Worker => call'[r] = call[r]) /\ call' \in [Procs -> CallRec]
  BY <1>2, <1>3, Moves DEF DeleteOne, FileInv
<1> HIDE DEF rec
<1>5. op.kind = "delete" /\ call[Worker].path = op.path
  BY <1>1 DEF FileInv, Working
<1>6. FileTypes'
  BY <1>1, <1>4, Constants DEF FileInv, FileTypes
<1>7. Working'
  BY <1>1, <1>3, <1>4, <1>5 DEF FileInv, Working
<1>8. Placing'
  BY <1>3, <1>4 DEF Placing
<1> QED
  BY <1>6, <1>7, <1>8 DEF FileInv

LEMMA DeleteEndKeeps == ASSUME TreeOK, FileInv, DeleteEnd PROVE FileInv'
<1>1. call[Worker].pc = "delete" /\ UNCHANGED <<db, added, ops>>
  BY DEF DeleteEnd
<1>2. op.kind = "delete" /\ call[Worker].path = op.path /\ op.path \in Paths
  BY <1>1 DEF FileInv, FileTypes, Working, OpRec
<1>3. CASE op' = NoOp /\ To(Worker, Idle)
  BY <1>1, <1>3, WorkerEnds DEF FileInv, FileTypes
<1>4. CASE UNCHANGED op /\ To(Worker, [Idle EXCEPT !.pc = "put", !.path = PlaceHolder[op.path], !.data = {0}])
  <2> DEFINE rec == [Idle EXCEPT !.pc = "put", !.path = PlaceHolder[op.path], !.data = {0}]
  <2>1. PlaceHolder[op.path] \in Paths /\ {0} \in SUBSET Pieces
    BY <1>2 DEF TreeOK, Pieces
  <2>2. rec \in CallRec /\ rec.pc = "put" /\ rec.data # {} /\ rec.path = PlaceHolder[op.path]
    BY <2>1, Constants DEF CallRec
  <2>3. To(Worker, rec)
    BY <1>4
  <2> HIDE DEF rec
  <2> QED
    BY <1>1, <1>2, <1>4, <2>2, <2>3, WorkerGoes
<1> QED
  BY <1>2, <1>3, <1>4 DEF DeleteEnd

\* What is put into `added` is an entry.
LEMMA Dispatched ==
  ASSUME FileTypes, NEW q \in Procs, Dispatch(q) PROVE added' \subseteq EntryRec
  BY DEF FileTypes, Dispatch, CallRec, EntryRec

LEMMA OpPinnedKeeps == ASSUME TreeOK, FileInv, OpPinned PROVE FileInv'
<1>1. Worker \in Procs /\ FileTypes
  BY DEF Procs, FileInv
<1>2. added' \subseteq EntryRec
  BY <1>1, Dispatched DEF OpPinned
<1> QED
  BY <1>2, WorkerEnds DEF OpPinned

\* A step of a write command: the worker stays where it is.
LEMMA WriterGoes ==
  ASSUME TreeOK, FileInv, NEW w \in Writers, NEW rec \in CallRec, To(w, rec), UNCHANGED <<db, op, ops>>,
         added' \subseteq EntryRec, rec.pc \in {"put", "write", "written"} => rec.data # {}
  PROVE  FileInv'
<1>1. w \in Procs /\ Worker \in Procs /\ w # Worker
  BY DEF Procs, TreeOK
<1>2. call'[w] = rec /\ (\A r \in Procs : r # w => call'[r] = call[r]) /\ call' \in [Procs -> CallRec]
  BY <1>1, Moves DEF FileInv
<1> QED
  BY <1>1, <1>2 DEF FileInv, FileTypes, Working, Placing

LEMMA WriteGetKeeps ==
  ASSUME TreeOK, FileInv, NEW w \in Writers, NEW path \in Paths, WriteGet(w, path) PROVE FileInv'
<1> DEFINE rec == [Idle EXCEPT !.pc = "put", !.path = path, !.data = db[path].data \cup {w}]
<1>1. db[path].data \cup {w} \in SUBSET Pieces
  BY DEF FileInv, FileTypes, Pieces
<1>2. rec \in CallRec /\ rec.data # {}
  BY <1>1, Constants DEF CallRec
<1>3. To(w, rec) /\ UNCHANGED <<db, op, added, ops>>
  BY DEF WriteGet
<1> HIDE DEF rec
<1> QED
  BY <1>2, <1>3, WriterGoes DEF FileInv, FileTypes

LEMMA WriteReturnKeeps == ASSUME TreeOK, FileInv, NEW w \in Writers, WriteReturn(w) PROVE FileInv'
<1> DEFINE rec == [call[w] EXCEPT !.pc = "returned"]
<1>1. w \in Procs /\ FileTypes
  BY DEF Procs, FileInv
<1>2. rec \in CallRec /\ rec.pc = "returned"
  BY <1>1 DEF FileTypes, CallRec
<1>3. To(w, rec) /\ UNCHANGED <<db, op, ops>> /\ added' \subseteq EntryRec
  BY <1>1, Dispatched DEF WriteReturn
<1> HIDE DEF rec
<1> QED
  BY <1>2, <1>3, WriterGoes

\* Every step of the files keeps the invariant, and so does a crash.
LEMMA FileStepKeeps == ASSUME TreeOK, FileInv, FileStep PROVE FileInv'
<1>1. ASSUME NEW q \in Procs, PutGet(q) \/ PutWrite(q) PROVE FileInv'
  BY <1>1, PutGetKeeps, PutWriteKeeps
<1>2. ASSUME NEW p \in Paths, AskPut(p) \/ AskDelete(p) PROVE FileInv'
  BY <1>2, AskKeeps DEF AskPut, AskDelete
<1>3. ASSUME NEW w \in Writers, WriteReturn(w) \/ \E p \in Paths : WriteGet(w, p) PROVE FileInv'
  BY <1>3, WriteReturnKeeps, WriteGetKeeps
<1> QED
  BY <1>1, <1>2, <1>3, OpPutKeeps, OpPinnedKeeps, OpDeleteKeeps, DeleteEndKeeps, DeleteOneKeeps DEF FileStep

LEMMA CrashKeeps == ASSUME TreeOK, FileInv, Crash PROVE FileInv'
<1>1. /\ call' = [q \in Procs |-> IF q = Worker \/ call[q] = Idle THEN Idle ELSE [call[q] EXCEPT !.pc = "returned"]]
      /\ added' = {} /\ UNCHANGED <<db, op, ops>>
  BY DEF Crash
<1>2. Worker \in Procs /\ Idle \in CallRec /\ Idle.pc = "idle"
  BY Constants DEF Procs, Idle
<1>3. ASSUME NEW q \in Procs
      PROVE  /\ [call[q] EXCEPT !.pc = "returned"] \in CallRec
             /\ [call[q] EXCEPT !.pc = "returned"].pc = "returned"
  BY DEF FileInv, FileTypes, CallRec
<1>4. call' \in [Procs -> CallRec] /\ call'[Worker] = Idle
      /\ \A q \in Procs : q # Worker => call'[q].pc \in {"idle", "returned"}
  BY <1>1, <1>2, <1>3
<1> QED
  BY <1>1, <1>2, <1>4 DEF FileInv, FileTypes, Working, Placing

LEMMA FileNext == ASSUME TreeOK, FileInv, [Next]_vars PROVE FileInv'
<1>1. ASSUME UNCHANGED vars PROVE FileInv'
  BY <1>1 DEF vars, FileInv, FileTypes, Working, Placing
<1> QED
  BY <1>1, FileStepKeeps, CrashKeeps DEF Next

LEMMA TypesGiveTypeOK == ASSUME FileTypes PROVE TypeOK
  BY DEF FileTypes, TypeOK, Entry, CallRec, EntryRec, OpRec, Pieces

\* In every state of the files of a group the entries, the calls and the operation of the queue are well typed.
THEOREM TypeCorrect == ASSUME TreeOK PROVE Spec => []TypeOK
<1>1. Init => FileInv
  BY FileInit
<1>2. FileInv /\ [Next]_vars => FileInv'
  BY FileNext
<1>3. FileInv => TypeOK
  BY TypesGiveTypeOK DEF FileInv
<1> QED
  BY <1>1, <1>2, <1>3, PTL DEF Spec

\* What ends a delete has seen an entry above the deleted path, or written its place holder there.
LEMMA DirectoryKept == ASSUME TreeOK, FileInv, [Next]_vars PROVE DirectoryStep
<1> SUFFICES ASSUME op.kind = "delete", op' = NoOp PROVE \E p \in Above[op.path] : db[p] # NoEntry
  BY DEF DirectoryStep
<1>1. op' # op /\ op.path \in Paths
  BY DEF NoOp, FileInv, FileTypes, OpRec
<1>2. CASE OpPinned
  <2>1. call[Worker].pc = "written"
    BY <1>2 DEF OpPinned
  <2> QED
    BY <1>1, <2>1 DEF FileInv, Placing, TreeOK
<1>3. CASE DeleteEnd
  <2>1. call[Worker].path = op.path
    BY <1>3 DEF DeleteEnd, FileInv, Working
  <2> QED
    BY <1>1, <1>3, <2>1 DEF DeleteEnd, Listed
<1>4. OpPinned \/ DeleteEnd
  BY <1>1 DEF Next, FileStep, PutGet, PutWrite, AskPut, AskDelete, Ask, OpPut, OpDelete, DeleteOne,
     WriteReturn, WriteGet, Crash, vars
<1> QED
  BY <1>2, <1>3, <1>4

\* upload-operations.ts, delete: wherever crashes cut it off and whatever write commands do beside it, when it ends
\* there is an entry below the path without its last two names.
THEOREM DirectoryStaysCorrect == ASSUME TreeOK PROVE Spec => DirectoryStays
<1>1. Init => FileInv
  BY FileInit
<1>2. FileInv /\ [Next]_vars => FileInv'
  BY FileNext
<1>3. FileInv /\ [Next]_vars => [DirectoryStep]_vars
  BY DirectoryKept
<1> QED
  BY <1>1, <1>2, <1>3, PTL DEF Spec, DirectoryStays

-----------------------------------------------------------------------------
(* As long as no write command has begun, the queue alone writes the entries. *)

QueueStep ==
  \/ PutGet(Worker) \/ PutWrite(Worker) \/ OpPut \/ OpPinned \/ OpDelete \/ DeleteEnd
  \/ \E p \in Paths : AskPut(p) \/ AskDelete(p) \/ DeleteOne(p)

\* A write command that has begun is never idle again.
LEMMA OnlyQueue == ASSUME TreeOK, FileInv, FileStep, Unwritten' PROVE Unwritten /\ QueueStep
<1>1. Idle.pc = "idle" /\ Writers \subseteq Procs /\ Procs = Writers \cup {Worker}
  BY DEF Idle, Procs
<1>2. \A q \in Procs : PutGet(q) \/ PutWrite(q) => q = Worker
  BY <1>1, PutGetMoves, PutWriteMoves DEF Unwritten, Idle
<1>3. ASSUME NEW w \in Writers, WriteReturn(w) PROVE FALSE
  <2>1. call'[w] = [call[w] EXCEPT !.pc = "returned"] /\ call[w] \in CallRec
    BY <1>1, <1>3, Moves DEF WriteReturn, FileInv, FileTypes
  <2>2. call'[w].pc = "returned"
    BY <2>1 DEF CallRec
  <2> QED
    BY <1>1, <2>2 DEF Unwritten, Idle
<1>4. ASSUME NEW w \in Writers, NEW p \in Paths, WriteGet(w, p) PROVE FALSE
  <2>1. db[p].data \cup {w} \in SUBSET Pieces
    BY DEF FileInv, FileTypes, Pieces
  <2>2. call'[w] = [Idle EXCEPT !.pc = "put", !.path = p, !.data = db[p].data \cup {w}]
    BY <1>1, <1>4, Moves DEF WriteGet, FileInv
  <2>3. call'[w].pc = "put"
    BY <2>2, Constants DEF CallRec
  <2> QED
    BY <1>1, <2>3 DEF Unwritten, Idle
<1>5. QueueStep
  BY <1>2, <1>3, <1>4 DEF FileStep, QueueStep
<1>6. \A w \in Writers : call'[w] = call[w]
  <2>1. Worker \notin Writers /\ Worker \in Procs
    BY <1>1 DEF TreeOK
  <2>2. (\A r \in Procs : r # Worker => call'[r] = call[r]) \/ call' = call
    BY <1>5, <2>1, Moves DEF QueueStep, PutGet, PutWrite, OpPut, OpPinned, OpDelete, DeleteEnd, AskPut, AskDelete, Ask,
       DeleteOne, FileInv
  <2> QED
    BY <1>1, <2>1, <2>2
<1> QED
  BY <1>5, <1>6 DEF Unwritten

\* Nor does a crash make it so.
LEMMA CrashUnwritten == ASSUME TreeOK, FileInv, Crash, Unwritten' PROVE Unwritten
<1> SUFFICES ASSUME NEW w \in Writers, call[w] # Idle PROVE FALSE
  BY DEF Unwritten
<1>1. w \in Procs /\ w # Worker /\ call[w] \in CallRec
  BY DEF Procs, TreeOK, FileInv, FileTypes
<1>2. call'[w] = [call[w] EXCEPT !.pc = "returned"]
  BY <1>1 DEF Crash
<1>3. call'[w].pc = "returned"
  BY <1>1, <1>2 DEF CallRec
<1> QED
  BY <1>3 DEF Unwritten, Idle

\* The number that the worker is about to write still follows the one that is there.
Follows ==
  call[Worker].pc = "write" =>
    call[Worker].seq = IF db[call[Worker].path] = NoEntry THEN 0 ELSE db[call[Worker].path].seq + 1

LEMMA FollowsKept == ASSUME TreeOK, FileInv, Follows, QueueStep PROVE Follows'
<1>1. Worker \in Procs
  BY DEF Procs
<1>2. CASE PutGet(Worker)
  <2>1. db' = db
    BY <1>2 DEF PutGet
  <2> QED
    BY <1>1, <1>2, <2>1, PutGetMoves DEF Follows
<1>3. CASE PutWrite(Worker)
  BY <1>1, <1>3, PutWriteMoves DEF Follows
<1>4. ASSUME UNCHANGED <<db, call>> PROVE Follows'
  BY <1>4 DEF Follows
<1>5. ASSUME NEW rec, To(Worker, rec), rec.pc # "write" PROVE Follows'
  BY <1>1, <1>5, Moves DEF Follows, FileInv
<1>6. CASE OpPut
  BY <1>5, <1>6, Constants DEF OpPut, CallRec
<1>7. CASE OpDelete
  BY <1>5, <1>7, Constants DEF OpDelete, CallRec
<1>8. ASSUME NEW p \in Paths, DeleteOne(p) PROVE Follows'
  <2>1. [call[Worker] EXCEPT !.todo = @ \ {p}].pc = "delete"
    BY <1>1, <1>8 DEF DeleteOne, FileInv, FileTypes, CallRec
  <2> QED
    BY <1>5, <1>8, <2>1 DEF DeleteOne
<1>9. Idle.pc # "write"
  BY DEF Idle
<1>10. CASE OpPinned
  BY <1>5, <1>9, <1>10 DEF OpPinned
<1>11. CASE DeleteEnd
  <2>1. ASSUME NEW path \in Paths PROVE [Idle EXCEPT !.pc = "put", !.path = path, !.data = {0}].pc # "write"
    BY Constants DEF CallRec
  <2>2. PlaceHolder[call[Worker].path] \in Paths
    BY <1>1 DEF FileInv, FileTypes, CallRec, TreeOK
  <2> QED
    BY <1>5, <1>9, <1>11, <2>1, <2>2 DEF DeleteEnd
<1>12. ASSUME NEW p \in Paths, AskPut(p) \/ AskDelete(p) PROVE Follows'
  BY <1>4, <1>12 DEF AskPut, AskDelete, Ask
<1> QED
  BY <1>2, <1>3, <1>6, <1>7, <1>8, <1>10, <1>11, <1>12 DEF QueueStep

\* A crash takes the worker out of the put.
LEMMA CrashFollows == ASSUME Crash PROVE Follows' /\ call'[Worker] = Idle
  BY DEF Crash, Follows, Idle, Procs

LEMMA AloneKept ==
  ASSUME TreeOK, FileInv, Unwritten => Follows, [Next]_vars PROVE (Unwritten => Follows)'
<1> SUFFICES ASSUME Unwritten' PROVE Follows'
  OBVIOUS
<1>1. CASE FileStep
  BY <1>1, OnlyQueue, FollowsKept
<1>2. CASE Crash
  BY <1>2, CrashFollows
<1>3. CASE UNCHANGED vars
  BY <1>3 DEF vars, Unwritten, Follows
<1> QED
  BY <1>1, <1>2, <1>3 DEF Next

\* Only a write and a deletion change an entry.
LEMMA EntriesMove ==
  ASSUME TreeOK, FileInv, Unwritten, [Next]_vars, db' # db
  PROVE  PutWrite(Worker) \/ \E p \in Paths : DeleteOne(p)
<1>1. ASSUME NEW q \in Procs, PutWrite(q) PROVE q = Worker
  BY <1>1 DEF Procs, Unwritten, PutWrite, Idle
<1> QED
  BY <1>1 DEF Next, FileStep, PutGet, AskPut, AskDelete, Ask, OpPut, OpPinned, OpDelete, DeleteEnd, Crash, WriteGet,
     WriteReturn, vars

LEMMA SequenceKept ==
  ASSUME TreeOK, FileInv, Unwritten => Follows, [Next]_vars PROVE Unwritten => SequenceStep
<1> SUFFICES ASSUME Unwritten, NEW p \in Paths, db'[p] # db[p], db[p] # NoEntry, db'[p] # NoEntry
             PROVE  db'[p].seq = db[p].seq + 1
  BY DEF SequenceStep
<1>1. Worker \in Procs
  BY DEF Procs
<1>2. CASE PutWrite(Worker)
  <2>1. p = call[Worker].path /\ db'[p] = [data |-> call[Worker].data, seq |-> call[Worker].seq]
    BY <1>1, <1>2, PutWriteMoves
  <2>2. call[Worker].seq = db[p].seq + 1
    BY <1>2, <2>1 DEF PutWrite, Follows
  <2> QED
    BY <2>1, <2>2
<1>3. ASSUME NEW d \in Paths, DeleteOne(d) PROVE FALSE
  BY <1>3 DEF DeleteOne, FileInv, FileTypes
<1> QED
  BY <1>2, <1>3, EntriesMove

LEMMA FollowsInit == ASSUME TreeOK, Init PROVE Follows
<1>1. call[Worker] = Idle
  BY DEF Init, Procs
<1> QED
  BY <1>1 DEF Follows, Idle

\* file-system.ts, put: until the first write command begins, each version of a file has the number after the one it
\* replaces, however often a crash makes the queue write it again and whatever is deleted in between.
THEOREM SequenceFollowsCorrect == ASSUME TreeOK PROVE Spec => SequenceFollows
<1>1. Init => FileInv /\ (Unwritten => Follows)
  BY FileInit, FollowsInit
<1>2. FileInv /\ (Unwritten => Follows) /\ [Next]_vars => (FileInv /\ (Unwritten => Follows))'
  BY FileNext, AloneKept
<1>3. FileInv /\ (Unwritten => Follows) /\ [Next]_vars => [Unwritten => SequenceStep]_vars
  BY SequenceKept
<1> QED
  BY <1>1, <1>2, <1>3, PTL DEF Spec, SequenceFollows

-----------------------------------------------------------------------------
(* The revisions of files that only the queue writes. *)

Entries == added \cup recorded

\* What was announced of a file is not newer than its entry, and of the newest number there is one content; unless the
\* file was deleted, which makes its numbers begin again.
Stored ==
  \A e \in Entries :
    e.path \notin deleted =>
      /\ db[e.path] # NoEntry /\ e.seq <= db[e.path].seq
      /\ e.seq = db[e.path].seq => e.data = db[e.path].data

Unique == \A e, f \in Entries : KeyOf(e) = KeyOf(f) /\ e.path \notin deleted => e.data = f.data

\* What the worker has written is there until it announces it.
Written ==
  call[Worker].pc = "written" =>
    db[call[Worker].path] = [data |-> call[Worker].data, seq |-> call[Worker].seq]

Sole == Follows /\ Stored /\ Unique /\ Written

RevInv == FileInv /\ recorded \subseteq EntryRec /\ (Unwritten => Sole)

LEMMA RevInvInit == ASSUME TreeOK, RevInit PROVE RevInv
<1>1. FileInv /\ Follows
  BY FileInit, FollowsInit DEF RevInit
<1>2. call[Worker].pc # "written" /\ Entries = {}
  BY DEF RevInit, Init, Procs, Idle, Entries
<1> QED
  BY <1>1, <1>2 DEF RevInit, RevInv, Sole, Stored, Unique, Written

\* A step that leaves the entries and the announcements alone, and after which nothing was just written.
LEMMA Quiet ==
  ASSUME Sole, Follows', db' = db, Entries' \subseteq Entries, deleted \subseteq deleted',
         call'[Worker].pc = "written" => call'[Worker] = call[Worker]
  PROVE  Sole'
<1>1. Stored'
  BY DEF Sole, Stored
<1>2. Unique'
  BY DEF Sole, Unique, KeyOf
<1>3. Written'
  BY DEF Sole, Written
<1> QED
  BY <1>1, <1>2, <1>3 DEF Sole

\* The entry that is written is newer than all that was announced of the file.
LEMMA WriteStores ==
  ASSUME TreeOK, FileInv, recorded \subseteq EntryRec, Sole, PutWrite(Worker), UNCHANGED recorded,
         deleted \subseteq deleted', Follows'
  PROVE  Sole'
<1>1. Worker \in Procs /\ call[Worker] \in CallRec /\ call[Worker].pc = "write" /\ UNCHANGED <<op, added>>
  BY DEF Procs, FileInv, FileTypes, PutWrite
<1> DEFINE p == call[Worker].path
           n == call[Worker].seq
<1>2. /\ db'[p] = [data |-> call[Worker].data, seq |-> n] /\ (\A r \in Paths : r # p => db'[r] = db[r])
      /\ call'[Worker].path = p /\ call'[Worker].data = call[Worker].data /\ call'[Worker].seq = n
  BY <1>1, PutWriteMoves
<1>3. p \in Paths /\ n \in Nat /\ db[p].seq \in Nat /\ call[Worker].data # {}
  BY <1>1 DEF FileInv, FileTypes, CallRec, Working
<1>4. db[p] # NoEntry => n = db[p].seq + 1
  BY <1>1 DEF Sole, Follows
<1>5. db'[p] # NoEntry
  BY <1>2, <1>3 DEF NoEntry
<1>6. \A e \in Entries : e \in EntryRec
  BY DEF Entries, FileInv, FileTypes
<1>7. Stored'
  <2> SUFFICES ASSUME NEW e \in Entries, e.path \notin deleted
               PROVE  /\ db'[e.path] # NoEntry /\ e.seq <= db'[e.path].seq
                      /\ e.seq = db'[e.path].seq => e.data = db'[e.path].data
    BY <1>1 DEF Stored, Entries
  <2>1. e.path \in Paths /\ e.seq \in Nat /\ db[e.path] # NoEntry /\ e.seq <= db[e.path].seq
        /\ (e.seq = db[e.path].seq => e.data = db[e.path].data)
    BY <1>6 DEF EntryRec, Sole, Stored
  <2>2. CASE e.path = p
    <3>1. db'[p].seq = n /\ n = db[p].seq + 1 /\ e.seq <= db[p].seq
      BY <1>2, <1>4, <2>1, <2>2
    <3>2. e.seq <= n /\ e.seq # n
      BY <1>3, <2>1, <3>1
    <3> QED
      BY <1>5, <2>2, <3>1, <3>2
  <2>3. CASE e.path # p
    BY <1>2, <2>1, <2>3
  <2> QED
    BY <2>2, <2>3
<1>8. Unique'
  BY <1>1 DEF Sole, Unique, Entries, KeyOf
<1>9. Written'
  BY <1>2 DEF Written
<1> QED
  BY <1>7, <1>8, <1>9 DEF Sole

\* What is announced is the entry as it was written.
LEMMA PinnedStores ==
  ASSUME FileInv, Sole, OpPinned, UNCHANGED recorded, deleted \subseteq deleted', Follows' PROVE Sole'
<1> DEFINE e == [path |-> call[Worker].path, data |-> call[Worker].data, seq |-> call[Worker].seq]
<1>1. Worker \in Procs /\ call[Worker] \in CallRec /\ call[Worker].pc = "written"
  BY DEF Procs, FileInv, FileTypes, OpPinned
<1>2. db' = db /\ added' = added \cup {e} /\ call'[Worker] = Idle
  BY <1>1, Moves DEF OpPinned, Dispatch, FileInv
<1>3. e.path \in Paths /\ e.seq \in Nat /\ db[e.path] = [data |-> e.data, seq |-> e.seq] /\ e.data # {}
  BY <1>1 DEF Sole, Written, CallRec, FileInv, Working
<1>4. db[e.path] # NoEntry
  BY <1>3 DEF NoEntry
<1> HIDE DEF e
<1>5. Entries' = Entries \cup {e}
  BY <1>2 DEF Entries
<1>6. Stored'
  BY <1>2, <1>3, <1>4, <1>5 DEF Sole, Stored
<1>7. ASSUME NEW f \in Entries, KeyOf(f) = KeyOf(e), e.path \notin deleted PROVE f.data = e.data
  <2>1. f.path = e.path /\ f.seq = e.seq
    BY <1>7 DEF KeyOf
  <2> QED
    BY <1>3, <1>7, <2>1 DEF Sole, Stored
<1>8. Unique'
  <2> SUFFICES ASSUME NEW f \in Entries \cup {e}, NEW g \in Entries \cup {e}, KeyOf(f) = KeyOf(g), f.path \notin deleted
               PROVE  f.data = g.data
    BY <1>5 DEF Unique, KeyOf
  <2>1. f.path = g.path
    BY DEF KeyOf
  <2> QED
    BY <1>7, <2>1 DEF Sole, Unique
<1>9. Written'
  BY <1>2 DEF Written, Idle
<1> QED
  BY <1>6, <1>8, <1>9 DEF Sole

\* What is deleted is written down as deleted.
LEMMA DeleteStores ==
  ASSUME FileInv, recorded \subseteq EntryRec, Sole, NEW p \in Paths, DeleteOne(p), UNCHANGED recorded,
         deleted' = deleted \cup {r \in Paths : db[r] # NoEntry /\ db'[r] = NoEntry}, Follows'
  PROVE  Sole'
<1>1. Worker \in Procs /\ call[Worker] \in CallRec /\ call[Worker].pc = "delete" /\ UNCHANGED added
  BY DEF Procs, FileInv, FileTypes, DeleteOne
<1>2. call'[Worker] = [call[Worker] EXCEPT !.todo = @ \ {p}]
  BY <1>1, Moves DEF DeleteOne, FileInv
<1>3. call'[Worker].pc = "delete"
  BY <1>1, <1>2 DEF CallRec
<1>4. db'[p] = NoEntry /\ \A r \in Paths : r # p => db'[r] = db[r]
  BY DEF DeleteOne, FileInv, FileTypes
<1>5. \A e \in Entries : e.path \in Paths
  BY DEF Entries, FileInv, FileTypes, EntryRec
<1>6. Entries' = Entries
  BY <1>1 DEF Entries
<1>7. \A e \in Entries : e.path \notin deleted' => e.path \notin deleted /\ e.path # p
  BY <1>4, <1>5 DEF Sole, Stored
<1>8. Stored'
  BY <1>4, <1>5, <1>6, <1>7 DEF Sole, Stored
<1>9. Unique'
  BY <1>6 DEF Sole, Unique, KeyOf
<1> QED
  BY <1>3, <1>8, <1>9 DEF Sole, Written

\* The steps of the files keep the numbers of the revisions distinct.
LEMMA FilesStore ==
  ASSUME TreeOK, RevInv, FileStep, UNCHANGED recorded,
         deleted' = deleted \cup {p \in Paths : db[p] # NoEntry /\ db'[p] = NoEntry}
  PROVE  RevInv'
<1>1. FileInv' /\ recorded' \subseteq EntryRec
  BY FileStepKeeps DEF RevInv
<1> SUFFICES ASSUME Unwritten' PROVE Sole'
  BY <1>1 DEF RevInv
<1>2. FileInv /\ recorded \subseteq EntryRec /\ Sole /\ QueueStep
  BY OnlyQueue DEF RevInv
<1>3. Follows' /\ Worker \in Procs /\ deleted \subseteq deleted'
  BY <1>2, FollowsKept DEF Sole, Procs
<1>4. ASSUME UNCHANGED <<db, added>>, call'[Worker].pc = "written" => call'[Worker] = call[Worker]
      PROVE  Sole'
  BY <1>2, <1>3, <1>4, Quiet DEF Entries
<1>5. CASE PutGet(Worker)
  BY <1>2, <1>3, <1>4, <1>5, PutGetMoves DEF PutGet
<1>6. CASE PutWrite(Worker)
  BY <1>2, <1>3, <1>6, WriteStores
<1>7. CASE OpPinned
  BY <1>2, <1>3, <1>7, PinnedStores
<1>8. ASSUME NEW p \in Paths, AskPut(p) \/ AskDelete(p) PROVE Sole'
  BY <1>4, <1>8 DEF AskPut, AskDelete, Ask
<1>9. ASSUME NEW rec, To(Worker, rec), rec.pc # "written", UNCHANGED <<db, added>> PROVE Sole'
  BY <1>2, <1>3, <1>4, <1>9, Moves DEF FileInv
<1>10. CASE OpPut
  BY <1>9, <1>10, Constants DEF OpPut, CallRec
<1>11. CASE OpDelete
  BY <1>9, <1>11, Constants DEF OpDelete, CallRec
<1>12. CASE DeleteEnd
  <2>1. ASSUME NEW path \in Paths PROVE [Idle EXCEPT !.pc = "put", !.path = path, !.data = {0}].pc # "written"
    BY Constants DEF CallRec
  <2>2. PlaceHolder[call[Worker].path] \in Paths /\ Idle.pc # "written"
    BY <1>2, <1>3 DEF FileInv, FileTypes, CallRec, TreeOK, Idle
  <2> QED
    BY <1>9, <1>12, <2>1, <2>2 DEF DeleteEnd
<1>13. ASSUME NEW p \in Paths, DeleteOne(p) PROVE Sole'
  BY <1>2, <1>3, <1>13, DeleteStores
<1> QED
  BY <1>2, <1>5, <1>6, <1>7, <1>8, <1>10, <1>11, <1>12, <1>13 DEF QueueStep

LEMMA RevInvNext == ASSUME TreeOK, RevInv, [RevNext]_allVars PROVE RevInv'
<1>1. CASE /\ FileStep /\ UNCHANGED recorded
           /\ deleted' = deleted \cup {p \in Paths : db[p] # NoEntry /\ db'[p] = NoEntry}
  BY <1>1, FilesStore
<1>2. CASE Crash /\ UNCHANGED <<recorded, deleted>>
  <2>1. FileInv' /\ recorded' \subseteq EntryRec
    BY <1>2, CrashKeeps DEF RevInv
  <2>2. ASSUME Unwritten' PROVE Sole'
    <3>1. Sole
      BY <1>2, <2>2, CrashUnwritten DEF RevInv
    <3>2. /\ Follows' /\ db' = db /\ Entries' \subseteq Entries /\ call'[Worker].pc # "written"
      BY <1>2, CrashFollows DEF Crash, Entries, Idle
    <3> QED
      BY <1>2, <3>1, <3>2, Quiet
  <2> QED
    BY <2>1, <2>2 DEF RevInv
<1>3. ASSUME UNCHANGED <<db, op, call, ops, deleted>>, Entries' \subseteq Entries, added' \subseteq added,
             recorded' \subseteq EntryRec
      PROVE  RevInv'
  <2>1. FileInv'
    BY <1>3 DEF RevInv, FileInv, FileTypes, Working, Placing
  <2>2. ASSUME Sole PROVE Sole'
    <3>1. Follows'
      BY <1>3, <2>2 DEF Sole, Follows
    <3> QED
      BY <1>3, <2>2, <3>1, Quiet
  <2>3. Unwritten' = Unwritten
    BY <1>3 DEF Unwritten
  <2> QED
    BY <1>3, <2>1, <2>2, <2>3 DEF RevInv
<1>4. ASSUME NEW e \in added, RevPut(e) PROVE RevInv'
  BY <1>3, <1>4 DEF RevPut, Entries, RevInv, FileInv, FileTypes
<1>5. ASSUME UNCHANGED <<vars, recorded, deleted>> PROVE RevInv'
  BY <1>3, <1>5 DEF vars, Entries, RevInv
<1> QED
  BY <1>1, <1>2, <1>4, <1>5 DEF RevNext, RevSelect, RevDelete, allVars, revVars

\* revisions/setup.ts: until the first write command begins, a number of a file that was never deleted names one content
\* for ever: no revision of it is stored over another one, however crashes repeat uploads and however late handlers are.
THEOREM RevisionsDistinctCorrect == ASSUME TreeOK PROVE RevSpec => []VersionsDistinct
<1>1. RevInit => RevInv
  BY RevInvInit
<1>2. RevInv /\ [RevNext]_allVars => RevInv'
  BY RevInvNext
<1>3. RevInv => TypeOK
  BY TypesGiveTypeOK DEF RevInv, FileInv
<1>4. RevInv => RevisionsDistinct
  BY DEF RevInv, Sole, Unique, Entries, RevisionsDistinct
<1>5. RevInv => VersionsDistinct
  BY <1>3, <1>4 DEF VersionsDistinct
<1> QED
  BY <1>1, <1>2, <1>5, PTL DEF RevSpec

-----------------------------------------------------------------------------
(* The history of files whose names do not begin alike. *)

\* The date for which every selection looks.
Meeting ==
  CHOOSE d \in 0..109 + 10 * MaxOps : \A n \in 1..MaxOps : \E i \in DOMAIN Dates(109 + 10 * n) : Dates(109 + 10 * n)[i] = d

\* Handlers delete what was stored.
HandlerRec ==
  [path : Paths, seq : Nat, data : SUBSET Pieces, pc : {"select", "delete"}, todo : SUBSET recorded]

\* What is written, announced or stored has the piece of an operation.
Uploaded ==
  /\ op.kind # "none" \/ Entries # {} => ops > 0
  /\ call[Worker].pc \in {"put", "write", "written"} => call[Worker].data \subseteq 0..MaxOps
  /\ \A e \in Entries : e.data # {} /\ e.data \subseteq 0..MaxOps

\* A time is as close to the date as another one: of two that are equally close the later one.
Closer(t, u) == Dist(Meeting, t) < Dist(Meeting, u) \/ (Dist(Meeting, t) = Dist(Meeting, u) /\ u <= t)

\* Of the revisions of its path that were ever stored it is the closest to the date, and nobody is about to delete it.
Best(r) == \A s \in recorded : s.path = r.path => Closer(Time(r), Time(s))
Spared(r) == \A h \in handlers : \A s \in h.todo : KeyOf(s) # KeyOf(r)

Kept(p) == AsksHistory(p) /\ ~BeginAlike(p)
Anchored == \A p \in Paths : Kept(p) => \E r \in revs : r.path = p /\ Best(r) /\ Spared(r)

History ==
  /\ revs \subseteq recorded /\ handlers \subseteq HandlerRec
  /\ \A h \in handlers : \E r \in recorded : r.path = h.path /\ r.data = h.data
  /\ Anchored

HistoryInv == RevInv /\ (Unwritten => Uploaded /\ History)

LEMMA HistoryInit == ASSUME TreeOK, RevInit PROVE HistoryInv
<1>1. RevInv
  BY RevInvInit
<1>2. Uploaded
  BY DEF RevInit, Init, Uploaded, Entries, Procs, Idle, NoOp
<1>3. History
  BY DEF RevInit, History, Anchored, Kept, AsksHistory
<1> QED
  BY <1>1, <1>2, <1>3 DEF HistoryInv

\* A time stamp is that of an operation.
LEMMA TimeTyped ==
  ASSUME NEW e \in EntryRec, e.data # {}, e.data \subseteq 0..MaxOps, MaxOps \in Nat
  PROVE  Time(e) \in Nat
<1> DEFINE n == CHOOSE k \in e.data : TRUE
<1>1. n \in Nat /\ e.seq \in Nat
  BY DEF EntryRec
<1> HIDE DEF n
<1> QED
  BY <1>1 DEF Time, n

\* Revisions with the same key are the same.
LEMMA SameKey ==
  ASSUME RevInv, Unwritten, NEW e \in Entries, NEW f \in Entries, KeyOf(e) = KeyOf(f), e.path \notin deleted
  PROVE  e = f
<1>1. e \in EntryRec /\ f \in EntryRec
  BY DEF Entries, RevInv, FileInv, FileTypes
<1>2. e.path = f.path /\ e.seq = f.seq
  BY DEF KeyOf
<1>3. e.data = f.data
  BY DEF RevInv, Sole, Unique
<1> QED
  BY <1>1, <1>2, <1>3 DEF EntryRec

\* Nothing else is the closest.
LEMMA ClosestOne ==
  ASSUME NEW T, NEW t \in T, Meeting \in Nat, \A u \in T : u \in Nat /\ Closer(t, u)
  PROVE  Closest(Meeting, T) = t
<1>1. \A u \in T : u \in Nat /\ Dist(Meeting, u) \in Nat
  BY DEF Dist
<1>2. \A u \in T : Dist(Meeting, t) < Dist(Meeting, u) \/ (Dist(Meeting, t) = Dist(Meeting, u) /\ u <= t)
  BY DEF Closer
<1> DEFINE c == Closest(Meeting, T)
<1>3. c \in T /\ \A u \in T : Dist(Meeting, c) < Dist(Meeting, u) \/ (Dist(Meeting, c) = Dist(Meeting, u) /\ u <= c)
  BY <1>2, Zenon DEF Closest
<1> HIDE DEF c
<1>4. c = t
  BY <1>1, <1>2, <1>3
<1> QED
  BY <1>4 DEF c

\* A selection for the date keeps what is closest to it.
LEMMA KeepsBest ==
  ASSUME TreeOK, DatesMeet, ops \in 1..MaxOps, NEW strategy \in {"all", "log"}, NEW rs, NEW a \in rs,
         \A r \in rs : Time(r) \in Nat /\ Closer(Time(a), Time(r))
  PROVE  a \in Keep(rs, strategy)
<1> DEFINE T == {Time(r) : r \in rs}
           at == 109 + 10 * ops
<1>1. CASE strategy = "all"
  BY <1>1 DEF Keep, Select
<1>2. CASE strategy = "log"
  <2>1. Meeting \in Nat /\ \E i \in DOMAIN Dates(at) : Dates(at)[i] = Meeting
    <3>1. /\ Meeting \in 0..109 + 10 * MaxOps
          /\ \A n \in 1..MaxOps : \E i \in DOMAIN Dates(109 + 10 * n) : Dates(109 + 10 * n)[i] = Meeting
      BY Zenon DEF Meeting, DatesMeet
    <3> QED
      BY <3>1
  <2>2. Time(a) \in T /\ \A u \in T : u \in Nat /\ Closer(Time(a), u)
    OBVIOUS
  <2> HIDE DEF T
  <2>3. PICK i \in DOMAIN Dates(at) : Dates(at)[i] = Meeting
    BY <2>1
  <2>4. Closest(Dates(at)[i], T) = Time(a)
    BY <2>1, <2>2, <2>3, ClosestOne
  <2>5. Time(a) \in Select(T, at, strategy)
    BY <1>2, <2>2, <2>3, <2>4 DEF Select
  <2> QED
    BY <2>5 DEF Keep, T
<1> QED
  BY <1>1, <1>2

\* The worker writes and announces what the operation says.
LEMMA UploadedKept ==
  ASSUME TreeOK, RevInv, Unwritten, Uploaded, QueueStep, UNCHANGED recorded
  PROVE  Uploaded'
<1>1. /\ FileInv /\ Worker \in Procs /\ call[Worker] \in CallRec /\ op \in OpRec /\ MaxOps \in Nat /\ ops \in Nat
      /\ call[Worker].pc # "idle" => op.kind # "none"
  BY DEF RevInv, FileInv, FileTypes, Procs, Working, TreeOK, Idle, NoOp
<1>2. ASSUME UNCHANGED <<op, ops, added>>, call'[Worker].pc \in {"put", "write", "written"} => call'[Worker].data \subseteq 0..MaxOps
      PROVE  Uploaded'
  BY <1>2 DEF Uploaded, Entries
<1>3. CASE PutGet(Worker)
  BY <1>1, <1>2, <1>3, PutGetMoves DEF PutGet, Uploaded
<1>4. CASE PutWrite(Worker)
  BY <1>1, <1>2, <1>4, PutWriteMoves DEF PutWrite, Uploaded
<1>5. CASE OpPut
  <2>1. op.piece \in 0..MaxOps /\ UNCHANGED <<op, ops, added>>
    BY <1>1, <1>5 DEF OpPut, OpRec
  <2>2. call'[Worker] = [Idle EXCEPT !.pc = "put", !.path = op.path, !.data = {op.piece}]
    BY <1>1, <1>5, Moves DEF OpPut, FileInv
  <2>3. call'[Worker].data = {op.piece}
    BY <2>2, Constants DEF CallRec
  <2> QED
    BY <1>2, <2>1, <2>3
<1>6. CASE OpPinned
  <2> DEFINE e == [path |-> call[Worker].path, data |-> call[Worker].data, seq |-> call[Worker].seq]
  <2>1. call[Worker].pc = "written" /\ call'[Worker] = Idle /\ added' = added \cup {e} /\ op' = NoOp /\ UNCHANGED ops
    BY <1>1, <1>6, Moves DEF OpPinned, Dispatch, FileInv
  <2>2. e.data # {} /\ e.data \subseteq 0..MaxOps /\ ops > 0
    BY <1>1, <2>1 DEF FileInv, Working, Uploaded
  <2> HIDE DEF e
  <2>3. Entries' = Entries \cup {e}
    BY <2>1 DEF Entries
  <2> QED
    BY <2>1, <2>2, <2>3 DEF Uploaded, NoOp, Idle
<1>7. ASSUME NEW p \in Paths, AskPut(p) \/ AskDelete(p) PROVE Uploaded'
  <2>1. ops' > 0 /\ UNCHANGED <<call, added>>
    BY <1>1, <1>7 DEF AskPut, AskDelete, Ask
  <2> QED
    BY <2>1 DEF Uploaded, Entries
<1>8. CASE OpDelete
  <2>1. UNCHANGED <<op, ops, added>>
    BY <1>8 DEF OpDelete
  <2>2. call'[Worker] = [Idle EXCEPT !.pc = "delete", !.path = op.path, !.todo = Listed(Under[op.path])]
    BY <1>1, <1>8, Moves DEF OpDelete, FileInv
  <2>3. call'[Worker].pc = "delete"
    BY <2>2, Constants DEF CallRec
  <2> QED
    BY <1>2, <2>1, <2>3
<1>9. ASSUME NEW p \in Paths, DeleteOne(p) PROVE Uploaded'
  <2>1. call'[Worker] = [call[Worker] EXCEPT !.todo = @ \ {p}] /\ call[Worker].pc = "delete" /\ UNCHANGED <<op, ops, added>>
    BY <1>1, <1>9, Moves DEF DeleteOne, FileInv
  <2> QED
    BY <1>1, <1>2, <2>1 DEF CallRec
<1>10. CASE DeleteEnd
  <2>1. CASE op' = NoOp /\ To(Worker, Idle)
    BY <1>1, <1>10, <2>1, Moves DEF DeleteEnd, FileInv, Uploaded, Entries, NoOp, Idle
  <2>2. CASE To(Worker, [Idle EXCEPT !.pc = "put", !.path = PlaceHolder[call[Worker].path], !.data = {0}]) /\ UNCHANGED op
    <3>1. call'[Worker] = [Idle EXCEPT !.pc = "put", !.path = PlaceHolder[call[Worker].path], !.data = {0}]
      BY <1>1, <2>2, Moves DEF FileInv
    <3>2. call'[Worker].data = {0}
      BY <3>1, Constants DEF CallRec
    <3> QED
      BY <1>1, <1>2, <1>10, <2>2, <3>2 DEF DeleteEnd
  <2> QED
    BY <1>10, <2>1, <2>2 DEF DeleteEnd
<1> QED
  BY <1>3, <1>4, <1>5, <1>6, <1>7, <1>8, <1>9, <1>10 DEF QueueStep

\* A revision is stored that was announced: if it is closer to the date than all others of its path, nobody has looked
\* at it yet.
LEMMA PutAnchored ==
  ASSUME TreeOK, DatesMeet, RevInv, Unwritten, Uploaded, History, NEW e \in added, RevPut(e)
  PROVE  Anchored'
<1> DEFINE new == [path |-> e.path, seq |-> e.seq, data |-> e.data, pc |-> "select", todo |-> {}]
<1>1. /\ revs' = Without(KeyOf(e)) \cup {e} /\ recorded' = recorded \cup {e} /\ handlers' = handlers \cup {new}
      /\ new.todo = {} /\ e \in Entries /\ recorded \subseteq Entries /\ revs \subseteq recorded /\ deleted' = deleted
  BY DEF RevPut, Entries, History
<1> HIDE DEF new
<1>2. Meeting \in Nat /\ \A r \in Entries : r \in EntryRec /\ Time(r) \in Nat
  <2>1. \A r \in Entries : r \in EntryRec /\ Time(r) \in Nat
    BY TimeTyped DEF Entries, RevInv, FileInv, FileTypes, Uploaded, TreeOK
  <2>2. Meeting \in 0..109 + 10 * MaxOps /\ MaxOps \in Nat
    BY Zenon DEF Meeting, DatesMeet, TreeOK
  <2> QED
    BY <2>1, <2>2
<1>3. \A r \in Entries : KeyOf(r) = KeyOf(e) /\ e.path \notin deleted => r = e
  BY <1>1, SameKey
<1>4. \A h \in handlers : h.todo \subseteq recorded
  BY DEF History, HandlerRec
\* Of two revisions one is closer.
<1>5. \A r, s \in Entries : Closer(Time(r), Time(s)) \/ Closer(Time(s), Time(r))
  BY <1>2 DEF Closer, Dist
<1>6. \A r, s, t \in Entries : Closer(Time(r), Time(s)) /\ Closer(Time(s), Time(t)) => Closer(Time(r), Time(t))
  BY <1>2 DEF Closer, Dist
\* Those of other paths, and those that e is not closer than.
<1>7. ASSUME NEW r \in revs, Best(r), e.path = r.path => Closer(Time(r), Time(e)) PROVE Best(r)'
  BY <1>1, <1>7 DEF Best, Closer, Time
<1>8. \A r \in revs : Spared(r) => Spared(r)'
  BY <1>1 DEF Spared, KeyOf
<1> SUFFICES ASSUME NEW p \in Paths, Kept(p)' PROVE \E r \in revs' : r.path = p /\ Best(r)' /\ Spared(r)'
  BY DEF Anchored
<1>9. p \notin deleted /\ ((\E r \in recorded : r.path = p) => Kept(p))
  BY <1>1 DEF Kept, AsksHistory, BeginAlike, RevisionStrategy
<1>10. CASE p # e.path
  <2>1. PICK r \in revs : r.path = p /\ Best(r) /\ Spared(r)
    BY <1>1, <1>9, <1>10 DEF Kept, AsksHistory, Anchored, History
  <2>2. r \in revs'
    BY <1>1, <1>10, <2>1 DEF Without, KeyOf
  <2> QED
    BY <1>7, <1>8, <1>10, <2>1, <2>2
<1>11. CASE p = e.path
  <2>1. revs' = revs \cup {e}
    BY <1>1, <1>3, <1>9, <1>11 DEF Without
  <2>2. ASSUME \A s \in recorded : s.path = p => ~Closer(Time(s), Time(e)) PROVE Best(e)' /\ Spared(e)'
    <3>1. e \notin recorded
      BY <1>1, <1>5, <1>11, <2>2
    <3>2. \A h \in handlers : \A s \in h.todo : KeyOf(s) # KeyOf(e)
      BY <1>1, <1>3, <1>4, <1>9, <1>11, <3>1
    <3>3. \A s \in recorded \cup {e} : s.path = e.path => Closer(Time(e), Time(s))
      BY <1>1, <1>5, <1>11, <2>2
    <3>4. \A h \in handlers \cup {new} : \A s \in h.todo : KeyOf(s) # KeyOf(e)
      BY <1>1, <3>2
    <3> QED
      BY <1>1, <3>3, <3>4 DEF Best, Spared, Closer, Time, KeyOf
  <2>3. CASE \E s \in recorded : s.path = p /\ Closer(Time(s), Time(e))
    <3>1. PICK r \in revs : r.path = p /\ Best(r) /\ Spared(r)
      BY <1>9, <2>3 DEF Anchored, History
    <3>2. Closer(Time(r), Time(e))
      BY <1>1, <1>6, <2>3, <3>1 DEF Best
    <3> QED
      BY <1>7, <1>8, <2>1, <3>1, <3>2
  <2>4. CASE ~\E s \in recorded : s.path = p /\ Closer(Time(s), Time(e))
    BY <1>11, <2>1, <2>2, <2>4
  <2> QED
    BY <2>3, <2>4
<1> QED
  BY <1>10, <1>11

\* A selection keeps the best revision of its path, and does not reach the others.
LEMMA SelectAnchored ==
  ASSUME TreeOK, StrategiesOK, DatesMeet, RevInv, Unwritten, Uploaded, History, NEW h \in handlers, RevSelect(h)
  PROVE  Anchored'
<1> DEFINE rs == {r \in revs : r.path \in Under[h.path]}
           gone == rs \ Keep(rs, RevisionStrategy(h))
           new == [h EXCEPT !.pc = "delete", !.todo = gone]
<1>1. /\ handlers' = (handlers \ {h}) \cup {new} /\ UNCHANGED <<revs, recorded, deleted>>
      /\ h \in HandlerRec /\ revs \subseteq recorded /\ recorded \subseteq Entries
  BY DEF RevSelect, Become, History, Entries
<1>2. new.todo = gone
  BY <1>1 DEF HandlerRec
<1>3. \A r \in Entries : r \in EntryRec /\ Time(r) \in Nat /\ r.data # {} /\ r.data \subseteq 0..MaxOps
  BY TimeTyped DEF Entries, RevInv, FileInv, FileTypes, Uploaded, TreeOK
<1>4. PICK from \in recorded : from.path = h.path /\ from.data = h.data
  BY DEF History
<1>5. ops \in 1..MaxOps
  <2>1. Entries # {} /\ ops \in 0..MaxOps
    BY <1>1, <1>4 DEF RevInv, FileInv, FileTypes
  <2> QED
    BY <2>1 DEF Uploaded
<1>6. RevisionStrategy(h) = RevisionStrategy(from) /\ RevisionStrategy(from) \in {"all", "none", "log"}
  <2> DEFINE n == CHOOSE k \in from.data \cap (0..MaxOps) : TRUE
  <2>1. n \in 0..MaxOps /\ from.path \in Paths /\ from.data \cap (0..MaxOps) # {}
    BY <1>1, <1>3, <1>4 DEF EntryRec
  <2> HIDE DEF n
  <2>2. StrategyOf[<<from.path, n>>] \in {"all", "none", "log"}
    BY <2>1 DEF StrategiesOK
  <2> QED
    BY <1>4, <2>1, <2>2 DEF RevisionStrategy, n
<1> HIDE DEF new
<1> SUFFICES ASSUME NEW p \in Paths, Kept(p)' PROVE \E r \in revs' : r.path = p /\ Best(r)' /\ Spared(r)'
  BY DEF Anchored
<1>7. Kept(p) /\ p \notin deleted
  BY <1>1 DEF Kept, AsksHistory, BeginAlike, RevisionStrategy
<1>8. PICK r \in revs : r.path = p /\ Best(r) /\ Spared(r)
  BY <1>7 DEF Anchored, History
<1>9. \A s \in gone : KeyOf(s) # KeyOf(r)
  <2> SUFFICES ASSUME NEW s \in gone, KeyOf(s) = KeyOf(r) PROVE FALSE
    OBVIOUS
  <2>1. s = r /\ r \in rs /\ r \notin Keep(rs, RevisionStrategy(h))
    <3>1. s \in rs /\ s \in Entries /\ r \in Entries
      BY <1>1
    <3> QED
      BY <1>7, <1>8, <3>1, SameKey
  <2>2. p = h.path
    BY <1>1, <1>4, <1>7, <1>8, <2>1 DEF Kept, BeginAlike
  <2>3. RevisionStrategy(h) \in {"all", "log"}
    BY <1>4, <1>6, <1>7, <2>2 DEF Kept, AsksHistory
  <2>4. \A u \in rs : u.path = p
    BY <1>1, <1>7, <2>2 DEF Kept, BeginAlike
  <2>5. \A u \in rs : Time(u) \in Nat /\ Closer(Time(r), Time(u))
    BY <1>1, <1>3, <1>8, <2>4 DEF Best
  <2> HIDE DEF rs
  <2> QED
    BY <1>5, <2>1, <2>3, <2>5, KeepsBest
<1>10. Best(r)'
  BY <1>1, <1>8 DEF Best, Closer, Time
<1> HIDE DEF gone
<1>11. Spared(r)'
  BY <1>1, <1>2, <1>8, <1>9 DEF Spared, KeyOf
<1> QED
  BY <1>1, <1>8, <1>10, <1>11

\* What a handler deletes is not the best.
LEMMA DeleteAnchored ==
  ASSUME RevInv, History, NEW h \in handlers, RevDelete(h)
  PROVE  Anchored'
<1>1. h \in HandlerRec /\ UNCHANGED <<recorded, deleted>>
  BY DEF RevDelete, History
<1>2. /\ \A g \in handlers' : g \in handlers \/ g.todo \subseteq h.todo
      /\ \A r \in revs : r \in revs' \/ \E s \in h.todo : KeyOf(r) = KeyOf(s)
  <2>1. CASE h.todo = {} /\ handlers' = handlers \ {h} /\ UNCHANGED revs
    BY <2>1
  <2>2. ASSUME NEW r \in h.todo, revs' = Without(KeyOf(r)), Become(h, [h EXCEPT !.todo = @ \ {r}])
        PROVE  /\ \A g \in handlers' : g \in handlers \/ g.todo \subseteq h.todo
               /\ \A q \in revs : q \in revs' \/ \E s \in h.todo : KeyOf(q) = KeyOf(s)
    <3>1. [h EXCEPT !.todo = @ \ {r}].todo = h.todo \ {r}
      BY <1>1 DEF HandlerRec
    <3> QED
      BY <2>2, <3>1 DEF Become, Without
  <2> QED
    BY <2>1, <2>2 DEF RevDelete
<1>3. \A r \in revs : Spared(r) => r \in revs' /\ Spared(r)'
  BY <1>2 DEF Spared, KeyOf
<1>4. \A r \in revs : Best(r) => Best(r)'
  BY <1>1 DEF Best, Closer, Time
<1>5. \A p \in Paths : Kept(p)' => Kept(p)
  BY <1>1 DEF Kept, AsksHistory, BeginAlike, RevisionStrategy
<1> QED
  BY <1>3, <1>4, <1>5 DEF Anchored, History

\* Handlers plan to delete what there is, for what was stored.
LEMMA HandlersTyped ==
  ASSUME RevInv, History, NEW h \in handlers, RevSelect(h) \/ RevDelete(h)
  PROVE  /\ handlers' \subseteq HandlerRec' /\ revs' \subseteq recorded'
         /\ \A g \in handlers' : \E r \in recorded' : r.path = g.path /\ r.data = g.data
<1> DEFINE rs == {r \in revs : r.path \in Under[h.path]}
           gone == rs \ Keep(rs, RevisionStrategy(h))
<1>1. h \in HandlerRec /\ revs \subseteq recorded /\ UNCHANGED recorded /\ HandlerRec' = HandlerRec
  BY DEF RevSelect, RevDelete, History, HandlerRec
<1>2. ASSUME NEW g, Become(h, g), g \in HandlerRec, g.path = h.path, g.data = h.data, revs' \subseteq revs
      PROVE  /\ handlers' \subseteq HandlerRec' /\ revs' \subseteq recorded'
             /\ \A k \in handlers' : \E r \in recorded' : r.path = k.path /\ r.data = k.data
  BY <1>1, <1>2 DEF Become, History
<1>3. CASE RevSelect(h)
  <2>1. gone \subseteq recorded
    BY <1>1
  <2>2. Become(h, [h EXCEPT !.pc = "delete", !.todo = gone]) /\ revs' = revs
    BY <1>3 DEF RevSelect
  <2> HIDE DEF gone
  <2>3. [h EXCEPT !.pc = "delete", !.todo = gone] \in HandlerRec
    BY <1>1, <2>1 DEF HandlerRec
  <2> QED
    BY <1>1, <1>2, <2>2, <2>3 DEF HandlerRec
<1>4. CASE RevDelete(h)
  <2>1. ASSUME NEW r \in h.todo, revs' = Without(KeyOf(r)), Become(h, [h EXCEPT !.todo = @ \ {r}])
        PROVE  /\ handlers' \subseteq HandlerRec' /\ revs' \subseteq recorded'
               /\ \A k \in handlers' : \E s \in recorded' : s.path = k.path /\ s.data = k.data
    <3>1. [h EXCEPT !.todo = @ \ {r}] \in HandlerRec
      BY <1>1 DEF HandlerRec
    <3> QED
      BY <1>1, <1>2, <2>1, <3>1 DEF HandlerRec, Without
  <2>2. CASE handlers' = handlers \ {h} /\ UNCHANGED revs
    BY <1>1, <2>2 DEF History
  <2> QED
    BY <1>4, <2>1, <2>2 DEF RevDelete
<1> QED
  BY <1>3, <1>4

\* Nothing is added to the history, and no handler selects or deletes.
LEMMA HistoryStays ==
  ASSUME History, UNCHANGED <<revs, recorded>>, handlers' \subseteq handlers, deleted \subseteq deleted'
  PROVE  History'
<1>1. \A r \in revs : Best(r) /\ Spared(r) => Best(r)' /\ Spared(r)'
  BY DEF Best, Spared, Closer, Time, KeyOf
<1>2. \A p \in Paths : Kept(p)' => Kept(p)
  BY DEF Kept, AsksHistory, BeginAlike, RevisionStrategy
<1>3. Anchored'
  BY <1>1, <1>2 DEF Anchored, History
<1> QED
  BY <1>3 DEF History, HandlerRec

LEMMA HistoryNext ==
  ASSUME TreeOK, StrategiesOK, DatesMeet, HistoryInv, [RevNext]_allVars
  PROVE  HistoryInv'
<1>1. RevInv'
  BY RevInvNext DEF HistoryInv
<1> SUFFICES ASSUME Unwritten' PROVE Uploaded' /\ History'
  BY <1>1 DEF HistoryInv
<1>2. CASE /\ FileStep /\ UNCHANGED <<revs, handlers, recorded>>
           /\ deleted' = deleted \cup {p \in Paths : db[p] # NoEntry /\ db'[p] = NoEntry}
  <2>1. Unwritten /\ QueueStep
    BY <1>2, OnlyQueue DEF HistoryInv, RevInv
  <2>2. Uploaded'
    BY <1>2, <2>1, UploadedKept DEF HistoryInv
  <2> QED
    BY <1>2, <2>1, <2>2, HistoryStays DEF HistoryInv
<1>3. CASE Crash /\ handlers' = {} /\ UNCHANGED <<revs, recorded, deleted>>
  <2>1. Unwritten
    BY <1>3, CrashUnwritten DEF HistoryInv, RevInv
  <2>2. call'[Worker].pc = "idle"
    BY <1>3, CrashFollows DEF Idle
  <2>3. Uploaded'
    BY <1>3, <2>1, <2>2 DEF Crash, HistoryInv, Uploaded, Entries
  <2> QED
    BY <1>3, <2>1, <2>3, HistoryStays DEF HistoryInv
<1>4. ASSUME UNCHANGED <<op, ops, call>>, Entries' \subseteq Entries
      PROVE  /\ Unwritten /\ RevInv /\ Uploaded /\ History /\ Uploaded'
  <2>1. Unwritten
    BY <1>4 DEF Unwritten
  <2> QED
    BY <1>4, <2>1 DEF HistoryInv, Uploaded
<1>5. ASSUME NEW e \in added, RevPut(e) PROVE Uploaded' /\ History'
  <2> DEFINE new == [path |-> e.path, seq |-> e.seq, data |-> e.data, pc |-> "select", todo |-> {}]
  <2>1. Unwritten /\ RevInv /\ Uploaded /\ History /\ Uploaded'
    BY <1>4, <1>5 DEF RevPut, Entries
  <2>2. e.path \in Paths /\ e.seq \in Nat /\ e.data \in SUBSET Pieces
    BY <2>1 DEF RevInv, FileInv, FileTypes, EntryRec
  <2>3. revs' \subseteq recorded' /\ handlers' = handlers \cup {new} /\ recorded' = recorded \cup {e}
    BY <1>5, <2>1 DEF RevPut, Without, History
  <2>4. new \in HandlerRec' /\ HandlerRec \subseteq HandlerRec' /\ new.path = e.path /\ new.data = e.data
    BY <2>2, <2>3 DEF HandlerRec
  <2> HIDE DEF new
  <2>5. handlers' \subseteq HandlerRec' /\ \A g \in handlers' : \E r \in recorded' : r.path = g.path /\ r.data = g.data
    BY <2>1, <2>3, <2>4 DEF History
  <2> QED
    BY <1>5, <2>1, <2>3, <2>5, PutAnchored DEF History
<1>6. ASSUME NEW h \in handlers, RevSelect(h) \/ RevDelete(h) PROVE Uploaded' /\ History'
  <2>1. Unwritten /\ RevInv /\ Uploaded /\ History /\ Uploaded'
    BY <1>4, <1>6 DEF RevSelect, RevDelete, Entries, vars
  <2>2. /\ revs' \subseteq recorded' /\ handlers' \subseteq HandlerRec'
        /\ \A g \in handlers' : \E r \in recorded' : r.path = g.path /\ r.data = g.data
    BY <1>6, <2>1, HandlersTyped
  <2>3. Anchored'
    BY <1>6, <2>1, SelectAnchored, DeleteAnchored
  <2> QED
    BY <2>1, <2>2, <2>3 DEF History
<1>7. CASE UNCHANGED allVars
  <2>1. Unwritten /\ RevInv /\ Uploaded /\ History /\ Uploaded'
    BY <1>4, <1>7 DEF allVars, vars, revVars, Entries
  <2> QED
    BY <1>7, <2>1, HistoryStays DEF allVars, revVars
<1> QED
  BY <1>2, <1>3, <1>5, <1>6, <1>7 DEF RevNext

\* revisions/setup.ts: a revision is left of every file all uploads of which asked for a history, whichever handlers of
\* "file:added" select and delete beside each other, in whatever order their events are taken, wherever a crash stops them
\* and whatever else is deleted; until the first write command begins, of files that were never deleted themselves and
\* whose names do not begin as those of others, while the dates of all selections have one in common.
THEOREM HistoryLeftCorrect ==
  ASSUME TreeOK, StrategiesOK, DatesMeet
  PROVE  RevSpec => []HistoryLeft
<1>1. RevInit => HistoryInv
  BY HistoryInit
<1>2. HistoryInv /\ [RevNext]_allVars => HistoryInv'
  BY HistoryNext
<1>3. HistoryInv => HistoryLeft
  BY DEF HistoryInv, History, Anchored, Kept, HasHistory, HistoryLeft
<1> QED
  BY <1>1, <1>2, <1>3, PTL DEF RevSpec

-----------------------------------------------------------------------------
(* Retention *)

Less == {ss \in Nat \X Nat : ss[1] < ss[2]}

\* Every set of natural numbers has a least one: induction is by the least counterexample.
LEMMA LeastNat ==
  ASSUME NEW T, T \subseteq Nat, T # {}
  PROVE  \E x \in T : \A y \in T : x <= y
<1>1. IsWellFoundedOn(Less, Nat)
  BY NatLessThanWellFounded DEF OpToRel, Less
<1>2. PICK x \in T : \A y \in T : ~(<<y, x>> \in Less)
  BY <1>1, WFMin, Zenon
<1>3. \A y \in T : ~(y < x)
  BY <1>2 DEF Less
<1> QED
  BY <1>3

\* Said without a product, so that it can be cited without one.
Multiple(a, m) == \E q \in Int : a = m * q

LEMMA DivMod ==
  ASSUME NEW a \in Int, NEW m \in Nat \ {0}
  PROVE  a % m \in 0..(m - 1) /\ a \div m \in Int /\ a = m * (a \div m) + (a % m)
  OBVIOUS

\* Between two multiples of m there is at least m.
LEMMA MultiplesApart ==
  ASSUME NEW m \in Nat \ {0}, NEW p \in Int, NEW q \in Int, p < q
  PROVE  m * p + m <= m * q
<1>1. m * (q - p) >= m
  OBVIOUS
<1>2. m * (q - p) = m * q - m * p
  OBVIOUS
<1> QED
  BY <1>1, <1>2

\* The start of the interval of length m in which a lies.
LEMMA RoundToIs ==
  ASSUME NEW a \in Int, NEW m \in Nat \ {0}
  PROVE  /\ Write!RoundTo(a, m) \in Int /\ Write!RoundTo(a, m) <= a /\ a < Write!RoundTo(a, m) + m
         /\ Multiple(Write!RoundTo(a, m), m)
<1>1. a \div m \in Int /\ a = m * (a \div m) + (a % m) /\ a % m \in 0..(m - 1)
  BY DivMod
<1>2. a - (a % m) = m * (a \div m)
  BY <1>1
<1>3. \E q \in Int : Write!RoundTo(a, m) = m * q
  BY <1>1, <1>2, Zenon DEF Write!RoundTo
<1>4. a % m \in 0..(m - 1)
  BY <1>1
<1>5. Write!RoundTo(a, m) \in Int /\ Write!RoundTo(a, m) <= a /\ a < Write!RoundTo(a, m) + m
  BY <1>4 DEF Write!RoundTo
<1> QED
  BY <1>3, <1>5, Zenon DEF Multiple

\* There is one such interval.
LEMMA RoundToUnique ==
  ASSUME NEW a \in Int, NEW m \in Nat \ {0}, NEW q \in Int, m * q <= a, a < m * q + m
  PROVE  Write!RoundTo(a, m) = m * q
<1>1. PICK p \in Int : Write!RoundTo(a, m) = m * p /\ m * p <= a /\ a < m * p + m
  BY RoundToIs DEF Multiple
<1>2. ~(p < q) /\ ~(q < p)
  BY <1>1, MultiplesApart
<1> QED
  BY <1>1, <1>2

\* Going on by no more than m, one comes into the next interval at most.
LEMMA RoundToNext ==
  ASSUME NEW a \in Int, NEW m \in Nat \ {0}, NEW p \in 0..m
  PROVE  Write!RoundTo(a + p, m) \in {Write!RoundTo(a, m), Write!RoundTo(a, m) + m}
<1>1. PICK q \in Int : Write!RoundTo(a, m) = m * q /\ m * q <= a /\ a < m * q + m
  BY RoundToIs DEF Multiple
<1>2. CASE a + p < m * q + m
  BY <1>1, <1>2, RoundToUnique
<1>3. CASE ~(a + p < m * q + m)
  <2>1. m * (q + 1) = m * q + m
    OBVIOUS
  <2>2. a + p \in Int /\ q + 1 \in Int /\ m * (q + 1) <= a + p /\ a + p < m * (q + 1) + m
    BY <1>1, <1>3, <2>1
  <2>3. Write!RoundTo(a + p, m) = m * (q + 1)
    BY <2>2, RoundToUnique
  <2> QED
    BY <1>1, <2>1, <2>3
<1> QED
  BY <1>2, <1>3

\* A multiple of l that goes on by l comes exactly to the next multiple of k * l, if it leaves the interval.
LEMMA RoundToMeets ==
  ASSUME NEW l \in Nat \ {0}, NEW m \in Nat \ {0}, NEW a \in Int, Multiple(m, l), Multiple(a, l)
  PROVE  \/ Write!RoundTo(a + l, m) = Write!RoundTo(a, m)
         \/ Write!RoundTo(a + l, m) = Write!RoundTo(a, m) + m /\ Write!RoundTo(a, m) + m = a + l
<1>0. PICK k \in Int, c \in Int : m = l * k /\ a = l * c
  BY DEF Multiple
<1>1. l <= m
  <2>1. k > 0
    BY <1>0
  <2> QED
    BY <1>0, <2>1
<1>2. PICK q \in Int : Write!RoundTo(a, m) = m * q /\ m * q <= a /\ a < m * q + m
  BY RoundToIs DEF Multiple
<1>3. m * (q + 1) = m * q + m /\ l * (c + 1) = a + l /\ m * (q + 1) = l * (k * (q + 1))
  BY <1>0
<1>4. CASE a + l < m * (q + 1)
  BY <1>1, <1>2, <1>3, <1>4, RoundToUnique
<1>5. CASE ~(a + l < m * (q + 1))
  <2>1. c < k * (q + 1)
    <3>1. k * (q + 1) \in Int
      OBVIOUS
    <3>2. ASSUME ~(c < k * (q + 1)) PROVE l * (k * (q + 1)) <= a
      BY <1>0, <3>1, <3>2, MultiplesApart
    <3> QED
      BY <1>1, <1>2, <1>3, <3>1, <3>2
  <2>2. a + l <= m * (q + 1)
    BY <2>1, <1>3, MultiplesApart
  <2>3. a + l \in Int /\ q + 1 \in Int /\ m * (q + 1) <= a + l /\ a + l < m * (q + 1) + m
    BY <1>1, <1>2, <1>3, <1>5
  <2>4. Write!RoundTo(a + l, m) = m * (q + 1)
    BY <1>1, <2>3, RoundToUnique
  <2> QED
    BY <1>2, <1>3, <1>5, <2>2, <2>4
<1> QED
  BY <1>4, <1>5

\* What the recursive definition of the first n dates says of f.
Date(f, n, t) ==
  [i \in 0..n |-> IF i = 0 THEN Write!RoundTo(t, Spans[1])
                         ELSE Write!RoundTo(f[i - 1], Write!IntervalOf(i)) - Write!IntervalOf(i)]

LEMMA Unfolded == ASSUME NEW t PROVE Write!Dates(t) = CHOOSE f : f = Date(f, Len(Spans) * PerSpan, t)
  BY DEF Write!Dates, Date

\* There are such dates: the least n without them could not be.
LEMMA DateExists == ASSUME NEW n \in Nat, NEW t PROVE \E f : f = Date(f, n, t)
<1> DEFINE Bad == {k \in Nat : ~\E f : f = Date(f, k, t)}
<1>1. SUFFICES ASSUME Bad # {} PROVE FALSE
  OBVIOUS
<1>2. PICK k \in Bad : \A j \in Bad : k <= j
  <2> HIDE DEF Bad
  <2>1. Bad \subseteq Nat
    BY DEF Bad
  <2> QED BY <1>1, <2>1, LeastNat
<1>3. CASE k = 0
  <2> DEFINE f == [i \in 0..0 |-> Write!RoundTo(t, Spans[1])]
  <2>1. f = Date(f, 0, t)
    BY DEF Date
  <2> QED
    BY <1>2, <1>3, <2>1
<1>4. CASE k # 0
  <2>1. k - 1 \in Nat /\ k - 1 \notin Bad /\ k \in Nat
    BY <1>2, <1>4
  <2>2. PICK f : f = Date(f, k - 1, t)
    BY <2>1
  <2> DEFINE g == Date(f, k, t)
  <2>3. \A i \in 0..(k - 1) : g[i] = f[i]
    BY <2>1, <2>2 DEF Date
  <2>4. g = Date(g, k, t)
    <3>1. \A i \in 0..k : i # 0 => g[i - 1] = f[i - 1]
      BY <2>1, <2>3
    <3> QED
      BY <3>1 DEF Date
  <2> QED
    BY <1>2, <2>4
<1> QED
  BY <1>3, <1>4

\* A number lies in the interval of its quotient.
LEMMA QuotientIs ==
  ASSUME NEW m \in Nat \ {0}, NEW q \in Int, NEW a \in Int, m * q <= a, a < m * q + m
  PROVE  a \div m = q
<1>1. m * q \in Int
  OBVIOUS
<1>2. a \div m \in Int /\ m * (a \div m) \in Int /\ m * (a \div m) <= a /\ a < m * (a \div m) + m
  <2>1. a % m \in 0..(m - 1) /\ a \div m \in Int /\ a = m * (a \div m) + (a % m)
    BY <1>1, DivMod
  <2>2. m * (a \div m) \in Int
    BY <2>1
  <2> QED
    BY <2>1, <2>2
<1>3. ~(a \div m < q) /\ ~(q < a \div m)
  BY <1>1, <1>2, MultiplesApart
<1> QED
  BY <1>2, <1>3

LastDate == Len(Spans) * PerSpan

\* The interval that ends at a date.
Span(i) == IF i = 0 THEN Spans[1] ELSE Write!IntervalOf(i)

\* What the assumption says, without sequences.
LEMMA SpansTyped ==
  ASSUME Write!IntervalsOK
  PROVE  /\ Len(Spans) \in Nat \ {0} /\ PerSpan \in Nat \ {0} /\ LastDate \in Nat
         /\ \A j \in 1..Len(Spans) : Spans[j] \in Nat \ {0}
<1>1. Spans \in Seq(Nat \ {0}) /\ Spans # <<>> /\ PerSpan \in Nat \ {0}
  BY DEF Write!IntervalsOK
<1>2. Len(Spans) \in Nat \ {0} /\ \A j \in 1..Len(Spans) : Spans[j] \in Nat \ {0}
  BY <1>1, EmptySeq, ElementOfSeq, LenProperties
<1> QED
  BY <1>1, <1>2 DEF LastDate

\* Which of the intervals it is.
LEMMA WhichSpan ==
  ASSUME Write!IntervalsOK, NEW i \in 1..LastDate
  PROVE  LET j == (i - 1) \div PerSpan
             h == (i - 2) \div PerSpan
         IN /\ j \in 0..(Len(Spans) - 1)
            /\ i > 1 => h = j \/ (j > 0 /\ h = j - 1)
            /\ i = 1 => j = 0
<1> DEFINE j == (i - 1) \div PerSpan
           h == (i - 2) \div PerSpan
           r == (i - 1) % PerSpan
<1> SUFFICES /\ j \in 0..(Len(Spans) - 1)
             /\ i > 1 => h = j \/ (j > 0 /\ h = j - 1)
             /\ i = 1 => j = 0
  OBVIOUS
<1>1. Len(Spans) \in Nat \ {0} /\ PerSpan \in Nat \ {0} /\ i \in Nat /\ i >= 1
  BY SpansTyped
<1>2. j \in Int /\ r \in 0..(PerSpan - 1) /\ i - 1 = PerSpan * j + r
  <2>1. i - 1 \in Int
    BY <1>1
  <2> QED
    BY <1>1, <2>1, DivMod
<1> HIDE DEF j, h, r
<1>3. j >= 0
  <2>1. ASSUME j < 0 PROVE FALSE
    <3>1. PerSpan * j + PerSpan <= PerSpan * 0
      BY <1>1, <1>2, <2>1, MultiplesApart
    <3> QED
      BY <1>1, <1>2, <3>1
  <2> QED
    BY <1>2, <2>1
<1>4. j < Len(Spans)
  <2>1. PerSpan * Len(Spans) = LastDate
    BY <1>1 DEF LastDate
  <2>2. ASSUME Len(Spans) < j PROVE FALSE
    <3>1. PerSpan * Len(Spans) + PerSpan <= PerSpan * j
      BY <1>1, <1>2, <2>2, MultiplesApart
    <3> QED
      BY <1>1, <1>2, <2>1, <3>1
  <2>3. ASSUME Len(Spans) = j PROVE FALSE
    BY <1>1, <1>2, <2>1, <2>3
  <2> QED
    BY <1>1, <1>2, <2>2, <2>3
<1>7. j \in 0..(Len(Spans) - 1)
  BY <1>1, <1>2, <1>3, <1>4
<1>5. CASE r > 0
  <2>1. PerSpan * j <= i - 2 /\ i - 2 < PerSpan * j + PerSpan /\ i - 2 \in Int
    BY <1>1, <1>2, <1>5
  <2>2. h = j
    BY <1>1, <1>2, <2>1, QuotientIs DEF h
  <2>3. i = 1 => FALSE
    <3>1. PerSpan * j \in Nat
      BY <1>1, <1>2, <1>3
    <3> QED
      BY <1>2, <1>5, <3>1
  <2> QED
    BY <1>7, <2>2, <2>3
<1>6. CASE r = 0
  <2>1. PerSpan * (j - 1) = PerSpan * j - PerSpan
    BY <1>1, <1>2
  <2>2. j - 1 \in Int /\ PerSpan * (j - 1) <= i - 2 /\ i - 2 < PerSpan * (j - 1) + PerSpan /\ i - 2 \in Int
    BY <1>1, <1>2, <1>6, <2>1
  <2>3. h = j - 1
    BY <1>1, <2>2, QuotientIs DEF h
  <2>4. j = 0 <=> i = 1
    <3>1. j > 0 => PerSpan * j >= PerSpan
      BY <1>1, <1>2
    <3> QED
      BY <1>1, <1>2, <1>3, <1>6, <3>1
  <2> QED
    BY <1>1, <1>2, <1>3, <1>4, <2>3, <2>4
<1> QED
  BY <1>2, <1>5, <1>6

\* Each date has the interval of the one before it, or the next longer one.
LEMMA SpanGrows ==
  ASSUME Write!IntervalsOK, NEW i \in 1..LastDate
  PROVE  /\ Span(i - 1) \in Nat \ {0} /\ Span(i) \in Nat \ {0}
         /\ Multiple(Span(i), Span(i - 1))
<1> DEFINE j == (i - 1) \div PerSpan
           h == (i - 2) \div PerSpan
<1>1. /\ i \in Nat /\ i >= 1 /\ Len(Spans) \in Nat \ {0}
      /\ \A l \in 1..Len(Spans) : Spans[l] \in Nat \ {0}
  BY SpansTyped
<1>2. /\ j \in 0..(Len(Spans) - 1)
      /\ i > 1 => h = j \/ (j > 0 /\ h = j - 1)
      /\ i = 1 => j = 0
  BY WhichSpan, Zenon
<1>3. Span(i) = Spans[j + 1] /\ Span(i - 1) = IF i = 1 THEN Spans[1] ELSE Spans[h + 1]
  <2>1. i - 1 - 1 = i - 2 /\ i # 0 /\ (i - 1 = 0 <=> i = 1)
    BY <1>1
  <2> QED
    BY <2>1 DEF Span, Write!IntervalOf
<1> HIDE DEF j, h
<1>4. \A n \in Nat \ {0} : Multiple(n, n)
  <2>1. \A n \in Nat \ {0} : n = n * 1
    OBVIOUS
  <2> QED
    BY <2>1 DEF Multiple
<1>5. CASE Span(i - 1) = Spans[j + 1]
  BY <1>1, <1>2, <1>3, <1>4, <1>5
<1>6. CASE i > 1 /\ j > 0 /\ h = j - 1
  <2>1. j + 1 \in 2..Len(Spans) /\ Span(i - 1) = Spans[j] /\ j \in 1..Len(Spans) /\ j + 1 - 1 = j
    BY <1>1, <1>2, <1>3, <1>6
  <2>2. PICK k \in 1..Spans[j + 1] : Spans[j + 1] = k * Spans[j]
    BY <2>1 DEF Write!IntervalsOK
  <2>3. Spans[j] \in Nat \ {0} /\ Spans[j + 1] \in Nat \ {0}
    BY <1>1, <2>1
  <2>4. k \in Int /\ Spans[j + 1] = Spans[j] * k
    BY <2>2, <2>3
  <2>5. Multiple(Spans[j + 1], Spans[j])
    BY <2>4 DEF Multiple
  <2> QED
    BY <1>3, <2>1, <2>3, <2>5
<1> QED
  BY <1>1, <1>2, <1>3, <1>5, <1>6

\* The dates, one from the other.
LEMMA DateAt ==
  ASSUME Write!IntervalsOK, NEW t \in Int
  PROVE  /\ DOMAIN Write!Dates(t) = 0..LastDate
         /\ Write!Dates(t)[0] = Write!RoundTo(t, Spans[1])
         /\ \A i \in 1..LastDate : Write!Dates(t)[i] = Write!RoundTo(Write!Dates(t)[i - 1], Span(i)) - Span(i)
<1>1. LastDate \in Nat
  BY SpansTyped
<1>2. Write!Dates(t) = Date(Write!Dates(t), LastDate, t)
  BY <1>1, DateExists, Unfolded DEF LastDate
<1> DEFINE d == Write!Dates(t)
<1> HIDE DEF d
<1>3. d = Date(d, LastDate, t)
  BY <1>2 DEF d
<1>4. /\ DOMAIN d = 0..LastDate
      /\ \A i \in 0..LastDate : d[i] = IF i = 0 THEN Write!RoundTo(t, Spans[1])
                                ELSE Write!RoundTo(d[i - 1], Write!IntervalOf(i)) - Write!IntervalOf(i)
  BY <1>3 DEF Date
<1> QED
  BY <1>1, <1>4 DEF d, Span

\* A date is the start of an interval, and stays or becomes that of the next one, when time goes on by no more than the
\* first interval.  It comes next when the date before it had left the interval.
DateMoves(i, t, p) ==
  LET d == Write!Dates(t)
      e == Write!Dates(t + p)
  IN /\ d[i] \in Int /\ Multiple(d[i], Span(i))
     /\ e[i] = d[i] \/ e[i] = d[i] + Span(i)
     /\ i = 0 => d[i] <= t
     /\ i > 0 => /\ d[i] < t
                 /\ e[i] # d[i] => e[i] = d[i - 1] + Span(i - 1) - Span(i)

\* The start of the day is rounded from the time itself,
LEMMA FirstMoves ==
  ASSUME Write!IntervalsOK, NEW t \in Int, NEW p \in 0..Spans[1]
  PROVE  DateMoves(0, t, p)
<1> DEFINE s == Spans[1]
<1>1. s \in Nat \ {0} /\ t + p \in Int
  BY SpansTyped
<1>2. Write!Dates(t)[0] = Write!RoundTo(t, s) /\ Write!Dates(t + p)[0] = Write!RoundTo(t + p, s)
  BY <1>1, DateAt
<1>3. Write!RoundTo(t + p, s) \in {Write!RoundTo(t, s), Write!RoundTo(t, s) + s}
  BY <1>1, RoundToNext
<1>4. /\ Write!RoundTo(t, s) \in Int /\ Write!RoundTo(t, s) <= t
      /\ Multiple(Write!RoundTo(t, s), s)
  BY <1>1, RoundToIs
<1>5. Span(0) = s
  BY DEF Span
<1> HIDE DEF s
<1> QED
  BY <1>2, <1>3, <1>4, <1>5 DEF DateMoves

\* every other date from the one before it,
LEMMA NextMoves ==
  ASSUME Write!IntervalsOK, NEW t \in Int, NEW p \in 0..Spans[1], NEW i \in 1..LastDate, DateMoves(i - 1, t, p)
  PROVE  DateMoves(i, t, p)
<1> DEFINE d == Write!Dates(t)
           e == Write!Dates(t + p)
           l == Span(i - 1)
           m == Span(i)
<1>1. Spans[1] \in Nat /\ t + p \in Int /\ i > 0 /\ i \in Nat
  BY SpansTyped
<1>2. l \in Nat \ {0} /\ m \in Nat \ {0} /\ Multiple(m, l)
  BY SpanGrows
<1>3. d[i] = Write!RoundTo(d[i - 1], m) - m /\ e[i] = Write!RoundTo(e[i - 1], m) - m
  BY <1>1, DateAt
<1>4. /\ d[i - 1] \in Int /\ d[i - 1] <= t /\ Multiple(d[i - 1], l)
      /\ e[i - 1] = d[i - 1] \/ e[i - 1] = d[i - 1] + l
  BY <1>1 DEF DateMoves
<1> HIDE DEF d, e, l, m
<1>5. /\ Write!RoundTo(d[i - 1], m) \in Int /\ Write!RoundTo(d[i - 1], m) <= d[i - 1]
      /\ Multiple(Write!RoundTo(d[i - 1], m), m)
  BY <1>2, <1>4, RoundToIs
<1>6. d[i] \in Int /\ d[i] < t /\ Multiple(d[i], m)
  <2>1. PICK q \in Int : Write!RoundTo(d[i - 1], m) = m * q
    BY <1>5 DEF Multiple
  <2>2. d[i] = m * (q - 1)
    BY <1>2, <1>3, <2>1
  <2>3. q - 1 \in Int
    OBVIOUS
  <2>4. d[i] \in Int /\ d[i] < t
    BY <1>2, <1>3, <1>4, <1>5
  <2> QED
    BY <2>2, <2>3, <2>4 DEF Multiple
<1>7. /\ e[i] = d[i] \/ e[i] = d[i] + m
      /\ e[i] # d[i] => e[i] = d[i - 1] + l - m
  <2>1. CASE e[i - 1] = d[i - 1]
    BY <1>3, <2>1
  <2>2. CASE e[i - 1] = d[i - 1] + l
    <3>1. \/ Write!RoundTo(d[i - 1] + l, m) = Write!RoundTo(d[i - 1], m)
          \/ /\ Write!RoundTo(d[i - 1] + l, m) = Write!RoundTo(d[i - 1], m) + m
             /\ Write!RoundTo(d[i - 1], m) + m = d[i - 1] + l
      BY <1>2, <1>4, RoundToMeets
    <3> QED
      BY <1>2, <1>3, <1>4, <1>5, <2>2, <3>1
  <2> QED
    BY <1>4, <2>1, <2>2
<1> QED
  BY <1>1, <1>6, <1>7 DEF DateMoves, d, e, l, m

\* so all of them move like this: the least date that did not could not be.
LEMMA DatesMove ==
  ASSUME Write!IntervalsOK, NEW t \in Int, NEW p \in 0..Spans[1], NEW i \in 0..LastDate
  PROVE  DateMoves(i, t, p)
<1> DEFINE Bad == {j \in 0..LastDate : ~DateMoves(j, t, p)}
<1>1. SUFFICES ASSUME Bad # {} PROVE FALSE
  OBVIOUS
<1>2. PICK j \in Bad : \A k \in Bad : j <= k
  <2>1. Bad \subseteq Nat
    BY SpansTyped
  <2> HIDE DEF Bad
  <2> QED
    BY <1>1, <2>1, LeastNat
<1>3. j \in 0..LastDate /\ LastDate \in Nat /\ ~DateMoves(j, t, p)
  BY <1>2, SpansTyped
<1>4. j # 0
  BY <1>3, FirstMoves
<1>5. j \in 1..LastDate /\ j - 1 \in 0..LastDate /\ ~(j <= j - 1)
  BY <1>3, <1>4
<1>6. DateMoves(j - 1, t, p)
  BY <1>2, <1>5
<1> QED
  BY <1>3, <1>5, <1>6, NextMoves

\* Of any natural numbers one is the closest.
LEMMA ClosestIs ==
  ASSUME NEW T, T \subseteq Nat, T # {}, NEW d \in Int
  PROVE  /\ Write!Closest(d, T) \in T
         /\ \A u \in T : Write!Dist(d, Write!Closest(d, T)) <= Write!Dist(d, u)
<1> DEFINE Far == {Write!Dist(d, u) : u \in T}
<1>0. \A u \in T : u \in Nat /\ Write!Dist(d, u) \in Nat
  BY DEF Write!Dist
<1>1. Far \subseteq Nat /\ Far # {}
  BY <1>0
<1>2. PICK m \in Far : \A y \in Far : m <= y
  <2> HIDE DEF Far
  <2> QED
    BY <1>1, LeastNat
<1>3. PICK s \in T : Write!Dist(d, s) = m
  BY <1>2
<1>4. m \in Nat /\ \A u \in T : u \in Nat /\ m <= Write!Dist(d, u)
  BY <1>0, <1>2
<1>5. \E t \in T : \A u \in T : \/ Write!Dist(d, t) < Write!Dist(d, u)
                                \/ Write!Dist(d, t) = Write!Dist(d, u) /\ u <= t
  <2>1. CASE d + m \in T
    BY <1>4, <2>1 DEF Write!Dist
  <2>2. CASE d + m \notin T
    BY <1>3, <1>4, <2>2 DEF Write!Dist
  <2> QED
    BY <2>1, <2>2
<1> DEFINE c == Write!Closest(d, T)
<1>6. /\ c \in T
      /\ \A u \in T : \/ Write!Dist(d, c) < Write!Dist(d, u)
                      \/ Write!Dist(d, c) = Write!Dist(d, u) /\ u <= c
  BY <1>5, Zenon DEF Write!Closest
<1> HIDE DEF c
<1>7. ASSUME NEW u \in T PROVE Write!Dist(d, c) <= Write!Dist(d, u)
  <2>1. Write!Dist(d, c) \in Nat /\ Write!Dist(d, u) \in Nat
    BY <1>0, <1>6
  <2> QED
    BY <1>6, <2>1
<1> QED
  BY <1>6, <1>7 DEF c

\* Also the date of today has a revision as close.
Reached(i) == \E r \in times : Write!Dist(r, Write!Dates(now)[i]) < Span(i)
RetentionInv ==
  /\ Write!TypeOK
  /\ Reached(0) /\ \A i \in 1..LastDate : Write!Dates(now)[i] >= Start => Reached(i)

\* All other dates are before the first write.
LEMMA RetentionInit == ASSUME Write!IntervalsOK, Write!Init PROVE RetentionInv
<1>1. now = Start /\ times = {Start} /\ Start \in 0..End /\ End \in Nat /\ Spans[1] \in Nat \ {0} /\ LastDate \in Nat
  BY SpansTyped DEF Write!Init, Write!IntervalsOK
<1>2. Write!TypeOK
  BY <1>1 DEF Write!TypeOK
<1>3. Reached(0)
  <2>1. Write!Dates(now)[0] = Write!RoundTo(Start, Spans[1])
    BY <1>1, DateAt
  <2>2. /\ Write!RoundTo(Start, Spans[1]) \in Int /\ Write!RoundTo(Start, Spans[1]) <= Start
        /\ Start < Write!RoundTo(Start, Spans[1]) + Spans[1]
    <3>1. Start \in Int
      BY <1>1
    <3> QED
      BY <1>1, <3>1, RoundToIs
  <2> QED
    BY <1>1, <2>1, <2>2 DEF Reached, Span, Write!Dist
<1>4. \A i \in 1..LastDate : Write!Dates(now)[i] \in Int /\ Write!Dates(now)[i] < Start
  BY <1>1, DatesMove DEF DateMoves
<1> QED
  BY <1>1, <1>2, <1>3, <1>4 DEF RetentionInv

\* What is selected reaches every date as well as anything that there was.
LEMMA SelectedReach ==
  ASSUME Write!IntervalsOK, NEW T, T \subseteq Nat, T # {}, NEW t \in Int, NEW i \in 0..LastDate,
         NEW u \in T, NEW m \in Int, Write!Dist(u, Write!Dates(t)[i]) < m
  PROVE  \E r \in Write!Select(T, t, "log") : Write!Dist(r, Write!Dates(t)[i]) < m
<1> DEFINE d == Write!Dates(t)[i]
           c == Write!Closest(d, T)
<1>1. d \in Int
  <2>1. 0 \in 0..Spans[1]
    BY SpansTyped
  <2> QED
    BY <2>1, DatesMove DEF DateMoves
<1>2. c \in Write!Select(T, t, "log")
  <2>1. DOMAIN Write!Dates(t) = 0..LastDate
    BY DateAt
  <2> QED
    BY <2>1 DEF Write!Select
<1> HIDE DEF d
<1>3. c \in T /\ Write!Dist(d, c) <= Write!Dist(d, u)
  BY <1>1, ClosestIs
<1> HIDE DEF c
<1>4. /\ Write!Dist(c, d) = Write!Dist(d, c) /\ Write!Dist(u, d) = Write!Dist(d, u)
      /\ Write!Dist(d, c) \in Nat /\ Write!Dist(d, u) \in Nat
  <2>1. c \in Int /\ u \in Int
    BY <1>3
  <2> QED
    BY <1>1, <2>1 DEF Write!Dist
<1>5. Write!Dist(c, d) < m
  <2>1. Write!Dist(u, d) < m
    BY DEF d
  <2> QED
    BY <1>3, <1>4, <2>1
<1> QED
  BY <1>2, <1>5 DEF d

\* Something is selected, and nothing is made up.
LEMMA SelectedAre ==
  ASSUME Write!IntervalsOK, NEW T, T \subseteq Nat, T # {}, NEW t \in Int
  PROVE  Write!Select(T, t, "log") \subseteq T /\ Write!Select(T, t, "log") # {}
<1> DEFINE d == Write!Dates(t)
<1>1. DOMAIN d = 0..LastDate /\ LastDate \in Nat /\ 0 \in 0..Spans[1]
  BY DateAt, SpansTyped
<1>2. \A i \in 0..LastDate : d[i] \in Int
  BY <1>1, DatesMove DEF DateMoves
<1>3. Write!Select(T, t, "log") = {Write!Closest(d[i], T) : i \in 0..LastDate}
  BY <1>1 DEF Write!Select
<1>4. \A i \in 0..LastDate : Write!Closest(d[i], T) \in T
  BY <1>2, ClosestIs
<1>5. Write!Closest(d[0], T) \in Write!Select(T, t, "log")
  BY <1>1, <1>3
<1> HIDE DEF d
<1>6. \A r \in Write!Select(T, t, "log") : r \in T
  BY <1>3, <1>4
<1> QED
  BY <1>5, <1>6

\* A date that stays is still reached; one that moves was reached by what had reached the date before it, whose interval
\* is shorter.
LEMMA RetentionNext == ASSUME Write!IntervalsOK,
   RetentionInv, NEW pause \in 1..MaxPause, Write!Write(pause) PROVE RetentionInv'
<1> DEFINE t == now + pause
           T == times \cup {t}
           d == Write!Dates(now)
           e == Write!Dates(t)
<1>1. /\ Start \in 0..End /\ End \in Nat /\ Spans[1] \in Nat \ {0} /\ LastDate \in Nat
      /\ now \in Start..End /\ times \subseteq Start..now /\ times # {}
      /\ pause \in 1..Spans[1] /\ pause \in 0..Spans[1] /\ t <= End
  BY SpansTyped DEF Write!IntervalsOK, RetentionInv, Write!TypeOK, Write!Write
<1>2. now' = t /\ times' = Write!Select(T, t, "log")
  BY DEF Write!Write
<1>3. /\ now \in Int /\ t \in Int /\ t \in Start..End /\ T \subseteq Start..t /\ T \subseteq Nat /\ T # {}
      /\ times \subseteq T /\ t \in T
  BY <1>1
<1>4. Write!TypeOK'
  <2>1. times' \subseteq T /\ times' # {}
    BY <1>2, <1>3, SelectedAre
  <2> QED
    BY <1>2, <1>3, <2>1 DEF Write!TypeOK
\* What reaches a date reaches it after the selection.
<1>5. ASSUME NEW i \in 0..LastDate, NEW u \in T, Write!Dist(u, e[i]) < Span(i), Span(i) \in Int PROVE Reached(i)'
  <2>1. \E r \in Write!Select(T, t, "log") : Write!Dist(r, e[i]) < Span(i)
    BY <1>3, <1>5, SelectedReach
  <2>2. Reached(i)' <=> \E r \in times' : Write!Dist(r, Write!Dates(now')[i]) < Span(i)
    BY DEF Reached, Span, Write!IntervalOf, Write!Dist, Write!Dates, Write!RoundTo
  <2> QED
    BY <1>2, <2>1, <2>2
<1>6. Reached(0)'
  <2>1. e[0] = Write!RoundTo(t, Spans[1]) /\ Span(0) = Spans[1]
    BY <1>3, DateAt DEF Span
  <2>2. e[0] \in Int /\ e[0] <= t /\ t < e[0] + Span(0)
    BY <1>1, <1>3, <2>1, RoundToIs
  <2>3. Write!Dist(t, e[0]) < Span(0) /\ Span(0) \in Int /\ 0 \in 0..LastDate
    <3> HIDE DEF e, t
    <3> QED
      BY <1>1, <1>3, <2>1, <2>2 DEF Write!Dist
  <2> QED
    BY <1>3, <1>5, <2>3
<1>7. ASSUME NEW i \in 1..LastDate, e[i] >= Start PROVE Reached(i)'
  <2> DEFINE l == Span(i - 1)
             m == Span(i)
  <2>1. i \in 0..LastDate /\ i - 1 \in 0..LastDate /\ i > 0
    BY <1>1
  <2>2. l \in Nat \ {0} /\ m \in Nat \ {0} /\ l <= m
    <3>1. l \in Nat \ {0} /\ m \in Nat \ {0} /\ Multiple(m, l)
      BY SpanGrows
    <3> HIDE DEF l, m
    <3>2. PICK k \in Int : m = l * k
      BY <3>1 DEF Multiple
    <3>3. k > 0
      BY <3>1, <3>2
    <3> QED
      BY <3>1, <3>2, <3>3
  <2>3. /\ d[i] \in Int /\ d[i - 1] \in Int
        /\ e[i] = d[i] \/ e[i] = d[i - 1] + l - m
    BY <1>1, <1>3, <2>1, DatesMove DEF DateMoves
  <2>4. CASE e[i] = d[i]
    <3>1. PICK r \in times : Write!Dist(r, d[i]) < m
      BY <1>7, <2>4 DEF RetentionInv, Reached
    <3> QED
      BY <1>3, <1>5, <2>1, <2>2, <2>4, <3>1
  <2>5. CASE e[i] = d[i - 1] + l - m
    <3>1. PICK r \in times : Write!Dist(r, d[i - 1]) < l
      <4>1. i - 1 = 0 \/ i - 1 \in 1..LastDate
        BY <2>1
      <4>2. d[i - 1] >= Start
        <5> HIDE DEF d, e, l, m
        <5> QED
          BY <1>1, <1>7, <2>2, <2>3, <2>5
      <4> QED
        BY <4>1, <4>2 DEF RetentionInv, Reached
    <3>2. r \in T /\ r \in Int
      BY <1>3
    <3> HIDE DEF d, e, l, m
    <3>3. Write!Dist(r, e[i]) < m
      BY <2>2, <2>3, <2>5, <3>1, <3>2 DEF Write!Dist
    <3> QED
      BY <1>5, <2>1, <2>2, <3>2, <3>3 DEF m
  <2> QED
    BY <2>3, <2>4, <2>5
<1>8. \A i \in 1..LastDate : (Write!Dates(now)[i])' = e[i]
  BY <1>2 DEF Write!Dates, Write!RoundTo, Write!IntervalOf
<1> QED
  BY <1>4, <1>6, <1>7, <1>8 DEF RetentionInv

\* A file that is written at least once a day keeps its history under the "log" strategy, for any intervals each of
\* which holds a whole number of the one before it, and however the writes fall.
THEOREM ReachesCorrect == ASSUME Write!IntervalsOK PROVE Write!Spec => []Reaches
<1>1. Write!Init => RetentionInv
  BY RetentionInit
<1>2. RetentionInv /\ [Write!Next]_(Write!retentionVars) => RetentionInv'
  <2> SUFFICES ASSUME RetentionInv, [Write!Next]_(Write!retentionVars) PROVE RetentionInv'
    OBVIOUS
  <2>1. CASE Write!Next
    BY <2>1, RetentionNext DEF Write!Next
  <2>2. CASE UNCHANGED Write!retentionVars
    BY <2>2 DEF Write!retentionVars, RetentionInv, Reached, Write!TypeOK
  <2> QED
    BY <2>1, <2>2
<1>3. RetentionInv => Reaches
  <2> SUFFICES ASSUME RetentionInv PROVE Reaches
    OBVIOUS
  <2>1. now \in Int
    BY DEF RetentionInv, Write!TypeOK, Write!IntervalsOK
  <2>2. DOMAIN Write!Dates(now) \ {0} = 1..LastDate
    BY <2>1, DateAt, SpansTyped
  <2>3. \A i \in 1..LastDate : Span(i) = Write!IntervalOf(i)
    BY DEF Span
  <2> QED
    BY <2>2, <2>3 DEF Reaches, Write!Reaches, RetentionInv, Reached
<1> QED
  BY <1>1, <1>2, <1>3, PTL DEF Write!Spec

-----------------------------------------------------------------------------
(* DagSize *)

LEMMA CardinalityIs == \A S : Size!Cardinality(S) = Cardinality(S)
BY DEF Size!Cardinality, Cardinality

\* As many different members of a finite set as it has are all its members.
LEMMA AllTheLinks ==
  ASSUME NEW S, IsFiniteSet(S)
  PROVE  Size!SetToSeq(S) \in Seq(S) /\ {Size!SetToSeq(S)[i] : i \in 1..Len(Size!SetToSeq(S))} = S
<1> DEFINE n == Cardinality(S)
           f == Size!SetToSeq(S)
<1>1. n \in Nat /\ ExistsBijection(1..n, S)
  BY FS_CardinalityType
<1>2. PICK g \in Bijection(1..n, S) : TRUE
  BY <1>1 DEF ExistsBijection
<1>3. g \in [1..n -> S] /\ Size!IsInjective(g)
  BY <1>2 DEF Bijection, Injection, IsInjective, Size!IsInjective
<1>4. f = CHOOSE h \in [1..n -> S] : Size!IsInjective(h)
  BY CardinalityIs DEF Size!SetToSeq
<1>5. f \in [1..n -> S] /\ Size!IsInjective(f)
  BY <1>3, <1>4
<1>6. f \in Injection(1..n, S)
  BY <1>5 DEF Injection, IsInjective, Size!IsInjective
<1>7. IsFiniteSet(1..n) /\ Cardinality(1..n) = n
  BY <1>1, FS_Interval
<1>8. f \in Surjection(1..n, S)
  BY <1>6, <1>7, FS_Injection
<1>9. f \in Seq(S) /\ Len(f) = n
  BY <1>1, <1>5
<1> QED
  BY <1>8, <1>9 DEF Surjection

Waiting == {queue[i] : i \in 1..Len(queue)}

SizeTypes ==
  /\ links \in [Size!Nodes -> SUBSET Size!Nodes] /\ queue \in Seq(Size!Nodes) /\ got \subseteq Size!Nodes

\* What is counted or waits is reached, and holds the root and all that counted blocks link to.
SizeInv ==
  /\ SizeTypes /\ got \cup Waiting \subseteq Size!Reached /\ 1 \in got \cup Waiting
  /\ \A c \in got : codec[c] \in Size!Known /\ Size!Linked(c) \subseteq got \cup Waiting

LEMMA RootReached == ASSUME Size!TopOK PROVE 1 \in Size!Reached
BY DEF Size!TopOK, Size!Reached, Size!Closed, Size!Nodes

LEMMA LinksReached ==
  ASSUME SizeTypes, NEW c \in Size!Reached
  PROVE  Size!Linked(c) \subseteq Size!Reached
<1> SUFFICES ASSUME NEW k \in Size!Linked(c) PROVE k \in Size!Reached
  OBVIOUS
<1>1. c \in Size!Nodes /\ k \in Size!Nodes
  BY DEF Size!Reached, Size!Linked, SizeTypes
<1>2. ASSUME NEW S \in SUBSET Size!Nodes, Size!Closed(S) PROVE k \in S
  BY <1>2 DEF Size!Reached, Size!Closed
<1> QED
  BY <1>1, <1>2 DEF Size!Reached

\* getSize goes on with what the block links to; a codec with a walker gives all of it.
LEMMA Walked ==
  ASSUME Size!TopOK, SizeInv, Size!Count, queue # <<>>, codec[Head(queue)] \in Size!Known
  PROVE  /\ Head(queue) \in Waiting /\ queue' \in Seq(Size!Nodes)
         /\ Waiting \subseteq {Head(queue)} \cup Waiting'
         /\ Waiting' \subseteq Waiting \cup Size!Linked(Head(queue))
         /\ Size!Linked(Head(queue)) \subseteq Waiting'
<1> DEFINE c == Head(queue)
           more == Size!SetToSeq(Size!Walk(c))
           rest == Tail(queue)
<1>1. queue \in Seq(Size!Nodes) /\ Len(queue) \in Nat \ {0} /\ c = queue[1] /\ c \in Size!Nodes
  BY DEF SizeInv, SizeTypes
<1>2. Size!Walk(c) = Size!Linked(c) /\ Size!Walk(c) \subseteq Size!Nodes
  BY <1>1 DEF Size!Walk, Size!Linked, Size!Known, SizeInv, SizeTypes
<1>3. IsFiniteSet(Size!Walk(c))
  <2>1. IsFiniteSet(Size!Nodes)
    BY FS_Interval DEF Size!Nodes, Size!TopOK
  <2> QED
    BY <1>2, <2>1, FS_Subset
<1>4. more \in Seq(Size!Walk(c)) /\ {more[i] : i \in 1..Len(more)} = Size!Walk(c)
  BY <1>3, AllTheLinks
<1>5. more \in Seq(Size!Nodes) /\ rest \in Seq(Size!Nodes) /\ queue' = rest \o more
  <2>1. more \in Seq(Size!Nodes)
    BY <1>2, <1>4
  <2> QED
    BY <1>1, <2>1 DEF Size!Count
<1> DEFINE n == Len(rest)
<1> HIDE DEF c, more, rest
<1>6. n = Len(queue) - 1 /\ \A i \in 1..n : rest[i] = queue[i + 1]
  BY <1>1 DEF rest
<1>7. /\ queue' \in Seq(Size!Nodes) /\ Len(queue') = n + Len(more) /\ n \in Nat /\ Len(more) \in Nat
      /\ \A i \in 1..n : queue'[i] = rest[i]
      /\ \A i \in 1..Len(more) : queue'[n + i] = more[i]
  BY <1>5
<1>8. c \in Waiting
  BY <1>1 DEF Waiting
<1>9. ASSUME NEW i \in 1..Len(queue), queue[i] # c PROVE queue[i] \in Waiting'
  <2>1. i # 1 /\ i - 1 \in 1..n /\ queue[i] = rest[i - 1]
    BY <1>1, <1>6, <1>9
  <2>2. i - 1 \in 1..Len(queue') /\ queue'[i - 1] = queue[i]
    <3> DEFINE k == i - 1
    <3>1. k \in 1..n /\ queue[i] = rest[k]
      BY <2>1
    <3> HIDE DEF k
    <3>2. k \in 1..Len(queue')
      BY <1>7, <3>1
    <3>3. queue'[k] = rest[k]
      BY <1>7, <3>1
    <3> QED
      BY <3>1, <3>2, <3>3 DEF k
  <2> QED
    BY <2>2 DEF Waiting
<1>10. ASSUME NEW i \in 1..Len(queue') PROVE queue'[i] \in Waiting \cup Size!Walk(c)
  <2>1. CASE i \in 1..n
    <3>1. queue'[i] = queue[i + 1] /\ i + 1 \in 1..Len(queue)
      BY <1>1, <1>6, <1>7, <2>1
    <3> QED
      BY <3>1 DEF Waiting
  <2>2. CASE i \notin 1..n
    <3>1. i - n \in 1..Len(more) /\ queue'[i] = more[i - n]
      BY <1>7, <2>2
    <3> QED
      BY <1>4, <3>1
  <2> QED
    BY <2>1, <2>2
<1>11. ASSUME NEW k \in Size!Walk(c) PROVE k \in Waiting'
  <2>1. PICK i \in 1..Len(more) : more[i] = k
    BY <1>4, <1>11
  <2>2. n + i \in 1..Len(queue') /\ queue'[n + i] = k
    BY <1>7, <2>1
  <2> QED
    BY <2>2 DEF Waiting
<1>12. Waiting \subseteq {c} \cup Waiting' /\ Waiting' \subseteq Waiting \cup Size!Walk(c)
  BY <1>9, <1>10 DEF Waiting
<1> QED
  BY <1>2, <1>7, <1>8, <1>11, <1>12 DEF c

LEMMA SizeInvInit == ASSUME Size!TopOK, Size!Init PROVE SizeInv
<1>1. queue = <<1>> /\ got = {} /\ 1 \in Size!Nodes
  BY DEF Size!Init, Size!TopOK, Size!Nodes
<1>2. Waiting = {1} /\ queue \in Seq(Size!Nodes)
  BY <1>1 DEF Waiting
<1>3. links \in [Size!Nodes -> SUBSET Size!Nodes]
  BY DEF Size!Init
<1> QED
  BY <1>1, <1>2, <1>3, RootReached DEF SizeInv, SizeTypes

LEMMA SizeInvCount == ASSUME Size!TopOK, SizeInv, Size!Count PROVE SizeInv'
<1>1. links' = links /\ codec' = codec /\ queue # <<>>
  BY DEF Size!Count
<1>2. Size!Reached' = Size!Reached /\ \A c : Size!Linked(c)' = Size!Linked(c)
  BY <1>1 DEF Size!Reached, Size!Closed, Size!Linked
<1>3. CASE codec[Head(queue)] \notin Size!Known
  BY <1>1, <1>2, <1>3 DEF Size!Count, SizeInv, SizeTypes, Waiting
<1>4. CASE codec[Head(queue)] \in Size!Known
  <2> DEFINE c == Head(queue)
  <2>1. got' = got \cup {c}
    BY <1>4 DEF Size!Count
  <2>2. /\ c \in Waiting /\ queue' \in Seq(Size!Nodes) /\ Waiting \subseteq {c} \cup Waiting'
        /\ Waiting' \subseteq Waiting \cup Size!Linked(c) /\ Size!Linked(c) \subseteq Waiting'
    BY <1>1, <1>4, Walked
  <2>3. c \in Size!Reached /\ Size!Linked(c) \subseteq Size!Reached /\ c \in Size!Nodes
    BY <2>2, LinksReached DEF SizeInv, Size!Reached
  <2> HIDE DEF c
  <2>4. SizeTypes'
    BY <1>1, <2>1, <2>2, <2>3 DEF SizeInv, SizeTypes
  <2>5. got \cup Waiting \subseteq got' \cup Waiting' /\ got' \cup Waiting' \subseteq Size!Reached
    BY <2>1, <2>2, <2>3 DEF SizeInv
  <2>6. \A b \in got' : codec[b] \in Size!Known /\ Size!Linked(b) \subseteq got' \cup Waiting'
    BY <1>4, <2>1, <2>2, <2>5 DEF SizeInv, c
  <2> QED
    BY <1>1, <1>2, <2>4, <2>5, <2>6 DEF SizeInv
<1> QED
  BY <1>3, <1>4

\* utils/dag/index.ts, getSize: when the walk is over, everything that the root leads to was counted, and nothing else,
\* whatever the DAG and its codecs; a codec without a walker never goes unseen.
THEOREM AllCountedCorrect == ASSUME Size!TopOK PROVE Size!Spec => []AllCounted
<1>1. Size!Init => SizeInv
  BY SizeInvInit
<1>2. SizeInv /\ [Size!Next]_Size!vars => SizeInv'
  <2> SUFFICES ASSUME SizeInv, [Size!Next]_Size!vars PROVE SizeInv'
    OBVIOUS
  <2>1. CASE Size!Next
    BY <2>1, SizeInvCount DEF Size!Next
  <2>2. CASE UNCHANGED Size!vars
    BY <2>2 DEF Size!vars, SizeInv, SizeTypes, Waiting, Size!Reached, Size!Closed, Size!Linked
  <2> QED
    BY <2>1, <2>2
<1>3. SizeInv => AllCounted
  <2> SUFFICES ASSUME SizeInv, Size!Finished
               PROVE  got = Size!Reached /\ \A c \in got : codec[c] \in Size!Known
    BY DEF AllCounted, Size!AllCounted
  <2>1. Waiting = {}
    BY DEF Waiting, Size!Finished
  <2>2. Size!Closed(got) /\ got \in SUBSET Size!Nodes
    BY <2>1 DEF SizeInv, SizeTypes, Size!Closed
  <2> QED
    BY <2>1, <2>2 DEF SizeInv, Size!Reached
<1> QED
  BY <1>1, <1>2, <1>3, PTL DEF Size!Spec

-----------------------------------------------------------------------------
(* Portation *)

LEMMA SplitPath ==
  ASSUME NEW Names, NEW s \in Seq(Names), NEW p \in Seq(Names), Port!IsPrefix(s, p)
  PROVE  Port!Rest(p, s) \in Seq(Names) /\ p = s \o Port!Rest(p, s)
<1> DEFINE r == Port!Rest(p, s)
<1>1. Len(s) \in Nat /\ Len(p) \in Nat /\ Len(s) <= Len(p)
  BY DEF Port!IsPrefix
<1>2. r \in Seq(Names) /\ Len(r) = Len(p) - Len(s) /\ \A i \in 1..Len(r) : r[i] = p[Len(s) + i]
  BY <1>1 DEF Port!Rest
<1>3. \A i \in 1..Len(s) : p[i] = s[i]
  <2>1. SubSeq(s, 1, Len(s)) = SubSeq(p, 1, Len(s))
    BY DEF Port!IsPrefix
  <2>2. \A i \in 1..Len(s) : SubSeq(s, 1, Len(s))[i] = s[i] /\ SubSeq(p, 1, Len(s))[i] = p[i]
    BY <1>1
  <2> QED
    BY <2>1, <2>2
<1> HIDE DEF r
<1>4. s \o r \in Seq(Names) /\ Len(s \o r) = Len(p)
  BY <1>1, <1>2
<1>5. ASSUME NEW i \in 1..Len(p) PROVE (s \o r)[i] = p[i]
  <2>1. CASE i \in 1..Len(s)
    BY <1>2, <1>3, <2>1
  <2>2. CASE i \notin 1..Len(s)
    <3>1. i - Len(s) \in 1..Len(r) /\ Len(s) + (i - Len(s)) = i
      BY <1>1, <1>2, <2>2
    <3>2. (s \o r)[i] = r[i - Len(s)]
      BY <1>1, <1>2, <2>2, <3>1
    <3> QED
      BY <1>2, <3>1, <3>2
  <2> QED
    BY <2>1, <2>2
<1> QED
  BY <1>2, <1>4, <1>5, SeqEqual DEF r

\* What an import has put at a path: it has a file there.
From(path, file) ==
  \E c \in calls : \E p \in Port!Below(disk, c.from) \ c.todo :
    path = c.to \o Port!Rest(p, c.from) /\ file = disk[p]

CallType(Names) == [id : Imports, from : Sources, to : Targets, todo : SUBSET Seq(Names)]

Importing(Names) ==
  /\ disk \in Disks /\ calls \subseteq CallType(Names)
  /\ \A c, d \in calls : c.id = d.id => c = d
  /\ \A c \in calls : c.todo \subseteq Port!Below(disk, c.from)
  /\ \A p \in DOMAIN entries : p \in Seq(Names) /\ From(p, entries[p])
  /\ \A c \in calls : \A p \in Port!Below(disk, c.from) \ c.todo : c.to \o Port!Rest(p, c.from) \in DOMAIN entries

ExportType == [path : Targets, over : SUBSET Imports, failed : BOOLEAN, todo : SUBSET DOMAIN listed]

\* An import that was over when the export began has all its files in the list.
Over(c) ==
  /\ c.todo = {}
  /\ \A p \in Port!Below(disk, c.from) :
       Port!IsPrefix(export.path, c.to \o Port!Rest(p, c.from)) => c.to \o Port!Rest(p, c.from) \in DOMAIN listed

\* What an export has written is what it has listed and does not have to write any more.
Exporting(Names) ==
  /\ export = Off => DOMAIN out = {}
  /\ export # Off =>
       /\ export \in ExportType
       /\ \A p \in DOMAIN listed : p \in Seq(Names) /\ Port!IsPrefix(export.path, p) /\ From(p, listed[p])
       /\ export.over \subseteq {c.id : c \in calls} /\ \A c \in calls : c.id \in export.over => Over(c)
       /\ DOMAIN out = {Port!Rest(p, export.path) : p \in DOMAIN listed \ export.todo}
       /\ \A p \in DOMAIN listed \ export.todo : out[Port!Rest(p, export.path)] = listed[p]

PortInv(Names) == Importing(Names) /\ Exporting(Names)

LEMMA PortInvInit == ASSUME NEW Names, Port!Init PROVE PortInv(Names)
BY DEF Port!Init, Port!Empty, PortInv, Importing, Exporting

\* Calls that only get on with their work stay where paths come from.
LEMMA FromStays ==
  ASSUME disk' = disk, \A c \in calls : \E d \in calls' : d.from = c.from /\ d.to = c.to /\ d.todo \subseteq c.todo,
         NEW path, NEW file, From(path, file)
  PROVE  From(path, file)'
<1>1. PICK c \in calls : \E p \in Port!Below(disk, c.from) \ c.todo : path = c.to \o Port!Rest(p, c.from) /\ file = disk[p]
  BY DEF From
<1>2. PICK p \in Port!Below(disk, c.from) \ c.todo : path = c.to \o Port!Rest(p, c.from) /\ file = disk[p]
  BY <1>1
<1>3. PICK d \in calls' : d.from = c.from /\ d.to = c.to /\ d.todo \subseteq c.todo
  OBVIOUS
<1>4. p \in Port!Below(disk, d.from)' \ d.todo
  BY <1>2, <1>3 DEF Port!Below
<1> QED
  BY <1>2, <1>3, <1>4 DEF From, Port!Rest

\* So do calls that were over, since a call that begins or goes on was not.
LEMMA ExportingStays ==
  ASSUME NEW Names, Exporting(Names), UNCHANGED <<disk, export, listed, out>>,
         \A c \in calls : \E d \in calls' : d.id = c.id /\ d.from = c.from /\ d.to = c.to /\ d.todo \subseteq c.todo,
         \A d \in calls' : d \in calls \/ (\A c \in calls : c.id # d.id) \/ (\E c \in calls : c.id = d.id /\ c.todo # {})
  PROVE  Exporting(Names)'
<1>1. \A p \in DOMAIN listed : From(p, listed[p]) => From(p, listed[p])'
  BY FromStays
<1> SUFFICES ASSUME export # Off
             PROVE  export.over \subseteq {c.id : c \in calls'} /\ \A c \in calls' : c.id \in export.over => Over(c)'
  BY <1>1 DEF Exporting, ExportType
<1>2. \A c \in calls : c.id \in export.over => Over(c)
  BY DEF Exporting
<1>3. \A d \in calls' : d.id \in export.over => d \in calls
  BY <1>2 DEF Exporting, Over
<1>4. \A c : Over(c) => Over(c)'
  BY DEF Over, Port!Below, Port!Rest, Port!IsPrefix
<1>5. export.over \subseteq {c.id : c \in calls'}
  BY DEF Exporting
<1> QED
  BY <1>2, <1>3, <1>4, <1>5

LEMMA ImportKept ==
  ASSUME NEW Names, Port!PathsOK(Names), PortInv(Names), NEW id \in Imports, NEW s \in Sources, NEW t \in Targets,
         Port!Import(id, s, t)
  PROVE  PortInv(Names)'
<1> DEFINE new == [id |-> id, from |-> s, to |-> t, todo |-> Port!Below(disk, s)]
<1>1. calls' = calls \cup {new} /\ UNCHANGED <<disk, entries, export, listed, out>> /\ \A c \in calls : c.id # id
  BY DEF Port!Import
<1>2. Port!Below(disk, s) \subseteq Seq(Names)
  BY DEF Port!Below, Port!PathsOK, PortInv, Importing
<1>3. new \in CallType(Names) /\ new.id = id /\ new.from = s /\ new.to = t /\ new.todo = Port!Below(disk, s)
  BY <1>2 DEF CallType
<1> HIDE DEF new
<1>4. \A c \in calls : \E d \in calls' : d.id = c.id /\ d.from = c.from /\ d.to = c.to /\ d.todo \subseteq c.todo
  BY <1>1
<1>5. Exporting(Names)'
  BY <1>1, <1>3, <1>4, ExportingStays DEF PortInv
<1>6. \A p \in DOMAIN entries' : p \in Seq(Names) /\ From(p, entries[p])'
  BY <1>1, <1>4, FromStays DEF PortInv, Importing
<1>7. \A c \in calls' : c.todo \subseteq Port!Below(disk, c.from)'
  BY <1>1, <1>3 DEF PortInv, Importing, Port!Below
<1>8. \A c \in calls' : \A p \in Port!Below(disk, c.from)' \ c.todo : (c.to \o Port!Rest(p, c.from) \in DOMAIN entries)'
  BY <1>1, <1>3 DEF PortInv, Importing, Port!Below, Port!Rest
<1>9. calls' \subseteq CallType(Names)' /\ \A c, d \in calls' : c.id = d.id => c = d
  BY <1>1, <1>3 DEF PortInv, Importing, CallType
<1> QED
  BY <1>1, <1>5, <1>6, <1>7, <1>8, <1>9 DEF PortInv, Importing

LEMMA ImportOneKept ==
  ASSUME NEW Names, Port!PathsOK(Names), PortInv(Names), NEW c \in calls, NEW p \in c.todo, Port!ImportOne(c, p)
  PROVE  PortInv(Names)'
<1> DEFINE rest == [c EXCEPT !.todo = @ \ {p}]
           v == Port!Virtual(c, p)
           q == Port!Rest(p, c.from)
<1>1. /\ entries' = Port!With(entries, v, disk[p]) /\ calls' = (calls \ {c}) \cup {rest}
      /\ UNCHANGED <<disk, export, listed, out>>
  BY DEF Port!ImportOne
<1>2. c \in CallType(Names) /\ \A b \in calls : b.id = c.id => b = c
  BY DEF PortInv, Importing
<1>3. rest \in CallType(Names) /\ rest.id = c.id /\ rest.from = c.from /\ rest.to = c.to /\ rest.todo = c.todo \ {p}
  BY <1>2 DEF CallType
<1>4. \A b \in calls : \E d \in calls' : d.id = b.id /\ d.from = b.from /\ d.to = b.to /\ d.todo \subseteq b.todo
  BY <1>1, <1>3
<1>5. p \in DOMAIN disk /\ Port!IsPrefix(c.from, p) /\ p \in Seq(Names) /\ c.from \in Seq(Names) /\ c.to \in Seq(Names)
      /\ p \in Port!Below(disk, c.from)
  BY <1>2 DEF PortInv, Importing, Port!Below, Port!PathsOK, CallType
<1>6. q \in Seq(Names)
  BY <1>5, SplitPath
<1>7. v = c.to \o q /\ v \in Seq(Names)
  BY <1>5, <1>6 DEF Port!Virtual
<1>8. Port!Rest(p, c.from)' = q /\ Port!Below(disk, c.from)' = Port!Below(disk, c.from)
  BY <1>1 DEF Port!Rest, Port!Below
<1> HIDE DEF rest, v, q
<1>9. From(v, disk[p])'
  <2>1. rest \in calls' /\ p \in Port!Below(disk, rest.from)' \ rest.todo /\ v = rest.to \o q
        /\ Port!Rest(p, rest.from)' = q /\ disk[p] = disk'[p]
    BY <1>1, <1>3, <1>5, <1>7, <1>8 DEF Port!Rest
  <2> QED
    BY <2>1 DEF From, Port!Rest
<1>10. \A x, file : From(x, file) => From(x, file)'
  BY <1>1, <1>4, FromStays
<1>11. DOMAIN entries' = DOMAIN entries \cup {v}
  BY <1>1 DEF Port!With
<1>12. ASSUME NEW x \in DOMAIN entries' PROVE x \in Seq(Names) /\ From(x, entries[x])'
  <2>1. CASE x = v
    BY <1>1, <1>7, <1>9, <2>1 DEF Port!With, From
  <2>2. CASE x # v
    <3>1. x \in Seq(Names) /\ From(x, entries[x]) /\ entries'[x] = entries[x]
      BY <1>1, <1>11, <2>2 DEF Port!With, PortInv, Importing
    <3>2. PICK file : file = entries[x]
      OBVIOUS
    <3>3. From(x, file)'
      BY <1>10, <3>1, <3>2
    <3> QED
      BY <3>1, <3>2, <3>3 DEF From
  <2> QED
    BY <2>1, <2>2
<1>13. Exporting(Names)'
  <2>1. \A d \in calls' : d \in calls \/ (\E b \in calls : b.id = d.id /\ b.todo # {})
    BY <1>1, <1>3
  <2> QED
    BY <1>1, <1>4, <2>1, ExportingStays DEF PortInv
<1>14. /\ disk' \in Disks /\ calls' \subseteq CallType(Names)' /\ \A b, d \in calls' : b.id = d.id => b = d
       /\ \A d \in calls' : d.todo \subseteq Port!Below(disk, d.from)'
  BY <1>1, <1>2, <1>3 DEF PortInv, Importing, Port!Below, CallType
<1>15. ASSUME NEW d \in calls', NEW x \in Port!Below(disk, d.from)' \ d.todo
       PROVE  (d.to \o Port!Rest(x, d.from) \in DOMAIN entries)'
  <2>1. CASE d = rest /\ x = p
    BY <1>3, <1>7, <1>8, <1>11, <2>1 DEF Port!Rest
  <2>2. CASE d = rest /\ x # p
    <3>1. c.to \o Port!Rest(x, c.from) \in DOMAIN entries
      BY <1>1, <1>3, <2>2 DEF PortInv, Importing, Port!Below
    <3> QED
      BY <1>3, <1>11, <2>2, <3>1 DEF Port!Rest
  <2>3. CASE d \in calls
    <3>1. d.to \o Port!Rest(x, d.from) \in DOMAIN entries
      BY <1>1, <2>3 DEF PortInv, Importing, Port!Below
    <3> QED
      BY <1>11, <3>1 DEF Port!Rest
  <2> QED
    BY <1>1, <2>1, <2>2, <2>3
<1> QED
  BY <1>12, <1>13, <1>14, <1>15 DEF PortInv, Importing

LEMMA ExportKept ==
  ASSUME NEW Names, Port!PathsOK(Names), PortInv(Names), NEW t \in Targets, Port!Export(t)
  PROVE  PortInv(Names)'
<1> DEFINE below == Port!Below(entries, t)
           over == {c.id : c \in {d \in calls : d.todo = {}}}
<1>1. /\ export = Off /\ listed' = [p \in below |-> entries[p]] /\ UNCHANGED <<disk, entries, calls, out>>
      /\ export' = [path |-> t, over |-> over, failed |-> FALSE, todo |-> below]
  BY DEF Port!Export
<1>2. \A x, file : From(x, file)' = From(x, file)
  BY <1>1 DEF From, Port!Below, Port!Rest
<1>3. \A p \in below : p \in Seq(Names) /\ Port!IsPrefix(t, p) /\ From(p, entries[p])
  BY DEF Port!Below, PortInv, Importing
<1>4. DOMAIN out = {} /\ DOMAIN listed' = below
  BY <1>1 DEF PortInv, Exporting
<1>5. over \subseteq Imports /\ over \subseteq {c.id : c \in calls}
  BY DEF PortInv, Importing, CallType
<1>6. below \in SUBSET Seq(Names)
  BY <1>3
<1>7. ASSUME NEW c \in calls, c.id \in over PROVE Over(c)'
  <2>1. c.todo = {}
    BY <1>7 DEF PortInv, Importing
  <2>2. \A p \in Port!Below(disk, c.from) : c.to \o Port!Rest(p, c.from) \in DOMAIN entries
    BY <2>1 DEF PortInv, Importing
  <2>3. export'.path = t
    BY <1>1
  <2> QED
    BY <1>1, <1>4, <2>1, <2>2, <2>3 DEF Over, Port!Below, Port!Rest, Port!IsPrefix
<1> HIDE DEF below, over
<1>8. export' # Off
  <2>1. export' \in [path : Targets, over : SUBSET Imports, failed : BOOLEAN, todo : SUBSET Seq(Names)]
    BY <1>1, <1>5, <1>6
  <2> QED
    BY <2>1 DEF Port!PathsOK
<1>9. export' \in ExportType'
  BY <1>1, <1>4, <1>5 DEF ExportType
<1>10. Exporting(Names)'
  BY <1>1, <1>2, <1>3, <1>4, <1>5, <1>7, <1>8, <1>9 DEF Exporting
<1>11. Importing(Names)'
  BY <1>1, <1>2 DEF PortInv, Importing, Port!Below, Port!Rest, CallType
<1> QED
  BY <1>10, <1>11 DEF PortInv

LEMMA ExportOneKept ==
  ASSUME NEW Names, Port!PathsOK(Names), PortInv(Names), NEW p, Port!ExportOne(p)
  PROVE  PortInv(Names)'
<1> DEFINE path == export.path
           r == Port!Rest(p, path)
<1>1. export # Off /\ p \in export.todo /\ UNCHANGED <<disk, entries, calls, listed>>
  BY DEF Port!ExportOne
<1>2. export \in ExportType /\ path \in Targets /\ p \in DOMAIN listed /\ path \in Seq(Names)
  BY <1>1 DEF PortInv, Exporting, Port!PathsOK, ExportType
<1>3. \A x \in DOMAIN listed : x \in Seq(Names) /\ Port!IsPrefix(path, x) /\ From(x, listed[x])
  BY <1>1 DEF PortInv, Exporting
<1>4. listed[p].kind = "raw"
  <2>1. PICK c \in calls : \E x \in Port!Below(disk, c.from) \ c.todo : listed[p] = disk[x]
    BY <1>2, <1>3 DEF From
  <2>2. PICK x \in DOMAIN disk : listed[p] = disk[x]
    BY <2>1 DEF Port!Below
  <2>3. disk \in Disks
    BY DEF PortInv, Importing
  <2> QED
    BY <2>2, <2>3 DEF Port!PathsOK
<1>5. \A x, file : From(x, file)' = From(x, file)
  BY <1>1 DEF From, Port!Below, Port!Rest
<1>6. Importing(Names)'
  BY <1>1, <1>5 DEF PortInv, Importing, Port!Below, Port!Rest, CallType
<1>7. \A c : Over(c) /\ export'.path = path => Over(c)'
  BY <1>1 DEF Over, Port!Below, Port!Rest, Port!IsPrefix
<1>8. DOMAIN out = {Port!Rest(x, path) : x \in DOMAIN listed \ export.todo}
      /\ \A x \in DOMAIN listed \ export.todo : out[Port!Rest(x, path)] = listed[x]
  BY <1>1 DEF PortInv, Exporting
<1>9. \A e \in ExportType : e # Off
  <2> SUFFICES ASSUME NEW e \in ExportType PROVE e # Off
    OBVIOUS
  <2>1. DOMAIN listed \in SUBSET Seq(Names)
    BY <1>3
  <2>2. e \in [path : Targets, over : SUBSET Imports, failed : BOOLEAN, todo : SUBSET Seq(Names)]
    BY <2>1 DEF ExportType
  <2> QED
    BY <2>2 DEF Port!PathsOK
<1>10. ExportType' = ExportType
  BY <1>1 DEF ExportType
<1>11. CASE export' = [export EXCEPT !.failed = TRUE] /\ UNCHANGED out
  <2>1. export' \in ExportType' /\ export' # Off /\ export'.path = path /\ export'.todo = export.todo
        /\ export'.over = export.over
    BY <1>2, <1>9, <1>10, <1>11 DEF ExportType
  <2>2. export.over \subseteq {c.id : c \in calls} /\ \A c \in calls : c.id \in export.over => Over(c)'
    BY <1>1, <1>7, <2>1 DEF PortInv, Exporting
  <2>3. \A x \in DOMAIN listed' : x \in Seq(Names) /\ Port!IsPrefix(export'.path, x) /\ From(x, listed[x])'
    <3>1. \A x \in DOMAIN listed : From(x, listed[x])'
      BY <1>1, <1>3, <1>5
    <3> QED
      BY <1>1, <1>3, <2>1, <3>1
  <2>4. DOMAIN out' = {Port!Rest(x, export'.path) : x \in DOMAIN listed' \ export'.todo}
        /\ \A x \in DOMAIN listed' \ export'.todo : out'[Port!Rest(x, export'.path)] = listed'[x]
    BY <1>1, <1>8, <1>11, <2>1
  <2>5. Exporting(Names)'
    BY <1>1, <2>1, <2>2, <2>3, <2>4 DEF Exporting, Port!Rest, Port!IsPrefix
  <2> QED
    BY <1>6, <2>5 DEF PortInv
<1>12. CASE out' = Port!With(out, r, listed[p]) /\ export' = [export EXCEPT !.todo = @ \ {p}]
  <2>1. export' \in ExportType' /\ export' # Off /\ export'.path = path /\ export'.todo = export.todo \ {p}
        /\ export'.over = export.over
    BY <1>2, <1>9, <1>10, <1>12 DEF ExportType
  <2>2. export.over \subseteq {c.id : c \in calls} /\ \A c \in calls : c.id \in export.over => Over(c)'
    BY <1>1, <1>7, <2>1 DEF PortInv, Exporting
  <2>3. ASSUME NEW x \in DOMAIN listed, Port!Rest(x, path) = r PROVE x = p
    <3>1. \A y \in DOMAIN listed : y = path \o Port!Rest(y, path)
      BY <1>2, <1>3, SplitPath
    <3> QED
      BY <1>2, <2>3, <3>1
  <2> HIDE DEF path, r
  <2>4. DOMAIN listed \ export'.todo = (DOMAIN listed \ export.todo) \cup {p}
    BY <1>2, <2>1
  <2>5. DOMAIN out' = {Port!Rest(x, path) : x \in DOMAIN listed \ export'.todo}
    BY <1>8, <1>12, <2>4 DEF Port!With, r
  <2>6. ASSUME NEW x \in DOMAIN listed \ export'.todo PROVE out'[Port!Rest(x, path)] = listed[x]
    <3>1. CASE x = p
      BY <1>12, <3>1 DEF Port!With, r
    <3>2. CASE x # p
      <4>1. x \in DOMAIN listed \ export.todo /\ Port!Rest(x, path) # r
        BY <2>3, <2>4, <3>2
      <4> QED
        BY <1>8, <1>12, <4>1 DEF Port!With
    <3> QED
      BY <3>1, <3>2
  <2>7. \A x \in DOMAIN listed' : x \in Seq(Names) /\ Port!IsPrefix(export'.path, x) /\ From(x, listed[x])'
    <3>1. \A x \in DOMAIN listed : From(x, listed[x])'
      BY <1>1, <1>3, <1>5
    <3> QED
      BY <1>1, <1>3, <2>1, <3>1
  <2>8. Exporting(Names)'
    BY <1>1, <2>1, <2>2, <2>5, <2>6, <2>7 DEF Exporting, Port!Rest, Port!IsPrefix
  <2> QED
    BY <1>6, <2>8 DEF PortInv
<1> QED
  BY <1>4, <1>11, <1>12 DEF Port!ExportOne, Port!Written

LEMMA PortInvNext == ASSUME NEW Names, Port!PathsOK(Names), PortInv(Names), [Port!Next]_Port!vars PROVE PortInv(Names)'
<1>1. ASSUME NEW id \in Imports, NEW s \in Sources, NEW t \in Targets, Port!Import(id, s, t) PROVE PortInv(Names)'
  BY <1>1, ImportKept
<1>2. ASSUME NEW c \in calls, NEW p \in c.todo, Port!ImportOne(c, p) PROVE PortInv(Names)'
  BY <1>2, ImportOneKept
<1>3. ASSUME NEW t \in Targets, Port!Export(t) PROVE PortInv(Names)'
  BY <1>3, ExportKept
<1>4. ASSUME NEW p \in DOMAIN entries, Port!ExportOne(p) PROVE PortInv(Names)'
  BY <1>4, ExportOneKept
<1>5. CASE UNCHANGED Port!vars
  <2>1. UNCHANGED <<disk, entries, calls, export, listed, out>>
    BY <1>5 DEF Port!vars
  <2>2. \A x, file : From(x, file)' = From(x, file)
    BY <2>1 DEF From, Port!Below, Port!Rest
  <2>3. Importing(Names)'
    BY <2>1, <2>2 DEF PortInv, Importing, Port!Below, Port!Rest, CallType
  <2>4. Exporting(Names)'
    BY <2>1, ExportingStays DEF PortInv
  <2> QED
    BY <2>3, <2>4 DEF PortInv
<1> QED
  BY <1>1, <1>2, <1>3, <1>4, <1>5 DEF Port!Next

\* utils/portation: whatever imports run beside it, from the same or other sources and into the same or nested targets,
\* each file that an export has written is one that an import had put at its place, and of each file that an import had
\* put which was over when the export began, a file is written at its place: for any disk of files of one block.
THEOREM RoundTripCorrect ==
  ASSUME NEW Names, Port!PathsOK(Names)
  PROVE  Port!Spec => []RoundTrip
<1>1. Port!Init => PortInv(Names)
  BY PortInvInit
<1>2. PortInv(Names) /\ [Port!Next]_Port!vars => PortInv(Names)'
  BY PortInvNext
<1>3. PortInv(Names) => RoundTrip
  <2> SUFFICES ASSUME PortInv(Names), Port!Exported
               PROVE  /\ \A q \in DOMAIN out : \E c \in calls : \E p \in Port!Below(disk, c.from) \ c.todo :
                           c.to \o Port!Rest(p, c.from) = export.path \o q /\ out[q] = disk[p]
                      /\ \A c \in calls : c.id \in export.over => \A p \in Port!Below(disk, c.from) :
                           Port!IsPrefix(export.path, c.to \o Port!Rest(p, c.from)) =>
                             Port!Rest(c.to \o Port!Rest(p, c.from), export.path) \in DOMAIN out
    BY DEF RoundTrip, Port!RoundTrip
  <2>1. export # Off /\ DOMAIN out = {Port!Rest(p, export.path) : p \in DOMAIN listed}
        /\ \A p \in DOMAIN listed : out[Port!Rest(p, export.path)] = listed[p]
    BY DEF Port!Exported, PortInv, Exporting
  <2>2. export.path \in Seq(Names)
    BY <2>1 DEF PortInv, Exporting, ExportType, Port!PathsOK
  <2>3. ASSUME NEW q \in DOMAIN out
        PROVE  \E c \in calls : \E p \in Port!Below(disk, c.from) \ c.todo :
                 c.to \o Port!Rest(p, c.from) = export.path \o q /\ out[q] = disk[p]
    <3>1. PICK x \in DOMAIN listed : q = Port!Rest(x, export.path)
      BY <2>1
    <3>2. x \in Seq(Names) /\ Port!IsPrefix(export.path, x) /\ From(x, listed[x]) /\ out[q] = listed[x]
      BY <2>1, <3>1 DEF PortInv, Exporting
    <3>3. x = export.path \o q
      BY <2>2, <3>1, <3>2, SplitPath
    <3> QED
      BY <3>2, <3>3 DEF From
  <2>4. \A c \in calls : c.id \in export.over => Over(c)
    BY <2>1 DEF PortInv, Exporting
  <2> QED
    BY <2>1, <2>3, <2>4 DEF Over
<1> QED
  BY <1>1, <1>2, <1>3, PTL DEF Port!Spec
=============================================================================
