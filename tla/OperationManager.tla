--------------------------- MODULE OperationManager ---------------------------
(***************************************************************************)
(* packages/daemon/src/operation-manager.ts: operations that change a      *)
(* group are written to the datastore, run one at a time, and removed from *)
(* it when they are done; a start replays what is left.                    *)
(*   store    rows [key, op] of the datastore, the only state a crash keeps*)
(*   phase    of the process: the daemon awaits start() before it serves   *)
(*   logical  the next key                                                 *)
(*   writing  calls of add that wait for their row to be written           *)
(*   queue    the p-queue, of concurrency 1; replay, the rows start() has  *)
(*            read and not yet handed to the queue                         *)
(*   job      the row whose operation runs, with `ran` when it returned    *)
(* What an operation does is one unfinished performance that may be cut    *)
(* off; FileSystem has what put and delete do.                            *)
(***************************************************************************)
EXTENDS Naturals, Sequences

CONSTANTS
  Ops,         \* operations that are asked for, each once
  Failing,     \* those that may throw
  MaxCrashes,
  Nothing

\* What stands for no operation is none of them.
QueueOK == Nothing \notin Ops /\ MaxCrashes \in Nat

VARIABLES store, phase, logical, writing, queue, replay, job, asked, finished, current, crashes

durable == <<store, asked, finished, current, crashes>>
queueVars == <<store, phase, logical, writing, queue, replay, job, asked, finished, current, crashes>>

NoJob == [key |-> 0, op |-> Nothing, ran |-> FALSE]
PendingOps == {row.op : row \in store}

QueueInit ==
  /\ store = {} /\ phase = "down" /\ logical = 0 /\ writing = {} /\ queue = <<>> /\ replay = {}
  /\ job = NoJob /\ asked = {} /\ finished = {} /\ crashes = 0
  /\ current = [op |-> Nothing, whole |-> TRUE]

\* Mutant: the loop of start stops before the last row.
StartSkips ==
  /\ phase = "down"
  /\ phase' = "starting"
  /\ logical' = 0
  /\ replay' = {row \in store : \E r \in store : row.key < r.key}
  /\ UNCHANGED <<store, writing, queue, job, asked, finished, current, crashes>>

\* Mutant: the counter is not set, so the keys of replayed rows are used again.
StartFromZero ==
  /\ phase = "down"
  /\ phase' = "starting"
  /\ replay' = store /\ logical' = 0
  /\ UNCHANGED <<store, writing, queue, job, asked, finished, current, crashes>>

\* start reads every row; the rows are replayed in the order of their keys.
Start ==
  /\ phase = "down"
  /\ phase' = "starting"
  /\ replay' = store
  /\ \/ store = {} /\ logical' = 0
     \/ \E last \in store : /\ \A row \in store : row.key <= last.key
                            /\ logical' = last.key + 1
  /\ UNCHANGED <<store, writing, queue, job, asked, finished, current, crashes>>

Started ==
  /\ phase = "starting" /\ replay = {} /\ job = NoJob
  /\ phase' = "up"
  /\ UNCHANGED <<store, logical, writing, queue, replay, job, asked, finished, current, crashes>>

Add(o) ==
  /\ phase = "up" /\ o \notin asked
  /\ asked' = asked \cup {o}
  /\ writing' = writing \cup {[key |-> logical, op |-> o]}
  /\ logical' = logical + 1
  /\ UNCHANGED <<store, phase, queue, replay, job, finished, current, crashes>>

\* datastore.put has returned, in whatever order concurrent ones return.
Stored(row) ==
  /\ row \in writing
  /\ writing' = writing \ {row}
  /\ store' = {r \in store : r.key # row.key} \cup {row}
  /\ queue' = Append(queue, row)
  /\ UNCHANGED <<phase, logical, replay, job, asked, finished, current, crashes>>

Run(row) ==
  /\ job = NoJob
  /\ job' = [key |-> row.key, op |-> row.op, ran |-> FALSE]
  /\ current' = [op |-> row.op, whole |-> FALSE]
  /\ UNCHANGED <<store, phase, logical, writing, asked, finished, crashes>>

RunReplayed ==
  \E row \in replay :
    /\ \A r \in replay : row.key <= r.key
    /\ Run(row)
    /\ replay' = replay \ {row}
    /\ UNCHANGED queue

RunQueued ==
  /\ queue # <<>>
  /\ Run(Head(queue))
  /\ queue' = Tail(queue)
  /\ UNCHANGED replay

Returned ==
  /\ job # NoJob /\ ~job.ran
  /\ job' = [job EXCEPT !.ran = TRUE]
  /\ current' = [current EXCEPT !.whole = TRUE]
  /\ UNCHANGED <<store, phase, logical, writing, queue, replay, asked, finished, crashes>>

\* datastore.delete, after which add resolves.
RowDeleted ==
  /\ job # NoJob /\ job.ran
  /\ store' = {r \in store : r.key # job.key}
  /\ finished' = finished \cup {job.op}
  /\ job' = NoJob
  /\ UNCHANGED <<phase, logical, writing, queue, replay, asked, current, crashes>>

Stop == phase' = "down" /\ writing' = {} /\ queue' = <<>> /\ replay' = {} /\ job' = NoJob /\ UNCHANGED logical

\* Mutant: the row is deleted although the operation threw.
ThrowsForgets ==
  /\ job # NoJob /\ ~job.ran /\ job.op \in Failing
  /\ store' = {r \in store : r.key # job.key}
  /\ job' = NoJob
  /\ UNCHANGED <<phase, logical, writing, queue, replay, asked, finished, current, crashes>>

\* The operation throws: its row stays.  add rejects; start rejects, which ends the daemon.
Throws ==
  /\ job # NoJob /\ ~job.ran /\ job.op \in Failing
  /\ \/ phase = "up" /\ job' = NoJob /\ UNCHANGED <<phase, logical, writing, queue, replay>>
     \/ phase = "starting" /\ Stop
  /\ UNCHANGED durable

QueueCrash ==
  /\ phase # "down" /\ crashes < MaxCrashes
  /\ crashes' = crashes + 1
  /\ Stop
  /\ UNCHANGED <<store, asked, finished, current>>

Work == RunReplayed \/ RunQueued \/ Returned \/ RowDeleted \/ Started
QueueNext ==
  \/ Start \/ Work \/ Throws \/ QueueCrash
  \/ \E o \in Ops : Add(o)
  \/ \E row \in writing : Stored(row)

QueueSpec == QueueInit /\ [][QueueNext]_queueVars

\* The event loop runs what is ready, the process is started again, and the datastore answers; operations throw only
\* so often: one that throws at every start keeps the daemon from starting.
QueueFairSpec ==
  /\ QueueSpec
  /\ WF_queueVars(Start) /\ WF_queueVars(Work) /\ <>[][~Throws]_queueVars
  /\ WF_queueVars(\E row \in writing : Stored(row))
-----------------------------------------------------------------------------
QueueTypeOK ==
  /\ store \subseteq [key : Nat, op : Ops] /\ writing \subseteq [key : Nat, op : Ops]
  /\ replay \subseteq store
  /\ queue \in Seq([key : Nat, op : Ops])
  /\ job \in [key : Nat, op : Ops \cup {Nothing}, ran : BOOLEAN]
  /\ logical \in Nat /\ crashes \in Nat
  /\ phase \in {"down", "starting", "up"}
  /\ asked \subseteq Ops /\ finished \subseteq asked
  /\ current \in [op : Ops \cup {Nothing}, whole : BOOLEAN]

Rows == store \cup writing
RowOf(j) == [key |-> j.key, op |-> j.op]
Queued == {queue[i] : i \in DOMAIN queue}

\* A key stands for one operation, and an operation that has a row is not finished.
KeysUnique ==
  /\ store \cap writing = {}
  /\ \A r, s \in Rows : r.key = s.key \/ r.op = s.op => r = s
  /\ \A r \in Rows : r.op \in asked /\ r.op \notin finished
  /\ phase # "down" => \A r \in Rows : r.key < logical

\* What has still to run is persisted and waits in one place only.
WaitingOnce ==
  /\ Queued \subseteq store
  /\ \A i, j \in DOMAIN queue : queue[i] = queue[j] => i = j
  /\ phase # "up" => writing = {} /\ queue = <<>>
  /\ phase # "starting" => replay = {}
  /\ phase = "down" => job = NoJob
  /\ job # NoJob => /\ RowOf(job) \in store \ (Queued \cup replay)
                    /\ current = [op |-> job.op, whole |-> job.ran]

\* The inductive invariant of the proofs: the row of the operation that runs is there until it has returned, and
\* nothing else waits for it, whatever crashes and failures came before.
IInv == QueueTypeOK /\ KeysUnique /\ WaitingOnce

\* The queue keeps its promise: what is persisted is what is pending.
Promise == INSTANCE AtLeastOnce WITH pending <- PendingOps
PromiseKept == Promise!Serial

\* An operation that does not throw and whose row was written is finished in the end, whatever crashes cut it off and
\* however often the rows that were left of others made the daemon stop at its start.
AllFinish == \A o \in Ops \ Failing : o \in PendingOps ~> o \in finished
=============================================================================
