------------------------- MODULE OperationManagerProofs -------------------------
(***************************************************************************)
(* The queue of operations keeps its types, its inductive invariant and    *)
(* its promise (AtLeastOnce), for any operations and any number of crashes.*)
(***************************************************************************)
EXTENDS OperationManager, TLAPS

Row == [key : Nat, op : Ops]

LEMMA AppendItems ==
  ASSUME NEW s \in Seq(Row), NEW r \in Row, r \notin {s[i] : i \in DOMAIN s},
         \A i, j \in DOMAIN s : s[i] = s[j] => i = j
  PROVE  /\ {Append(s, r)[i] : i \in DOMAIN Append(s, r)} = {s[i] : i \in DOMAIN s} \cup {r}
         /\ \A i, j \in DOMAIN Append(s, r) : Append(s, r)[i] = Append(s, r)[j] => i = j
<1> DEFINE t == Append(s, r)
<1>1. DOMAIN s = 1..Len(s) /\ Len(s) \in Nat /\ DOMAIN t = 1..(Len(s) + 1)  OBVIOUS
<1>2. \A i \in 1..Len(s) : t[i] = s[i]  OBVIOUS
<1>3. t[Len(s) + 1] = r  OBVIOUS
<1> HIDE DEF t
<1>4. {t[i] : i \in DOMAIN t} = {s[i] : i \in DOMAIN s} \cup {r}
  <2>1. ASSUME NEW i \in DOMAIN t PROVE t[i] \in {s[j] : j \in DOMAIN s} \cup {r}
    <3>1. i \in 1..Len(s) \/ i = Len(s) + 1  BY <1>1
    <3> QED  BY <3>1, <1>1, <1>2, <1>3
  <2>2. ASSUME NEW i \in DOMAIN s PROVE s[i] \in {t[j] : j \in DOMAIN t}
    <3>1. i \in DOMAIN t /\ t[i] = s[i]  BY <1>1, <1>2
    <3> QED  BY <3>1
  <2>3. r \in {t[j] : j \in DOMAIN t}
    <3>1. Len(s) + 1 \in DOMAIN t  BY <1>1
    <3> QED  BY <3>1, <1>3
  <2> QED  BY <2>1, <2>2, <2>3
<1>5. ASSUME NEW i \in DOMAIN t, NEW j \in DOMAIN t, t[i] = t[j] PROVE i = j
  <2>1. (i \in 1..Len(s) \/ i = Len(s) + 1) /\ (j \in 1..Len(s) \/ j = Len(s) + 1)  BY <1>1
  <2>2. \A k \in 1..Len(s) : t[k] # r  BY <1>1, <1>2
  <2>3. CASE i \in 1..Len(s) /\ j \in 1..Len(s)  BY <2>3, <1>1, <1>2, <1>5
  <2>4. CASE i = Len(s) + 1 \/ j = Len(s) + 1  BY <2>1, <2>2, <2>4, <1>3, <1>5
  <2> QED  BY <2>1, <2>3, <2>4
<1> QED  BY <1>4, <1>5 DEF t

LEMMA TailItems ==
  ASSUME NEW s \in Seq(Row), s # <<>>,
         \A i, j \in DOMAIN s : s[i] = s[j] => i = j
  PROVE  /\ {Tail(s)[i] : i \in DOMAIN Tail(s)} \subseteq {s[i] : i \in DOMAIN s} \ {Head(s)}
         /\ Head(s) \in {s[i] : i \in DOMAIN s}
         /\ Head(s) \in Row /\ Tail(s) \in Seq(Row)
         /\ \A i, j \in DOMAIN Tail(s) : Tail(s)[i] = Tail(s)[j] => i = j
<1> DEFINE t == Tail(s)
<1>1. DOMAIN s = 1..Len(s) /\ Len(s) \in Nat \ {0} /\ DOMAIN t = 1..(Len(s) - 1)  OBVIOUS
<1>2. \A i \in 1..(Len(s) - 1) : t[i] = s[i + 1]  OBVIOUS
<1>3. Head(s) = s[1] /\ Head(s) \in Row /\ t \in Seq(Row)  OBVIOUS
<1> HIDE DEF t
<1>4. ASSUME NEW i \in DOMAIN t PROVE i + 1 \in DOMAIN s /\ t[i] = s[i + 1] /\ i + 1 # 1
  BY <1>1, <1>2
<1>5. 1 \in DOMAIN s  BY <1>1
<1>6. ASSUME NEW i \in DOMAIN t PROVE t[i] \in {s[j] : j \in DOMAIN s} \ {Head(s)}
  <2>1. t[i] # s[1]  BY <1>4, <1>5
  <2> QED  BY <2>1, <1>3, <1>4
<1>7. ASSUME NEW i \in DOMAIN t, NEW j \in DOMAIN t, t[i] = t[j] PROVE i = j
  <2>1. i + 1 = j + 1  BY <1>4, <1>7
  <2> QED  BY <2>1, <1>1
<1>8. Head(s) \in {s[i] : i \in DOMAIN s}  BY <1>3, <1>5
<1> QED  BY <1>3, <1>6, <1>7, <1>8 DEF t
-----------------------------------------------------------------------------
LEMMA InvInit == QueueInit => IInv
<1> SUFFICES ASSUME QueueInit PROVE IInv  OBVIOUS
<1>1. QueueTypeOK  BY DEF QueueInit, QueueTypeOK, NoJob
<1>2. KeysUnique  BY DEF QueueInit, KeysUnique, Rows
<1>3. WaitingOnce  BY DEF QueueInit, WaitingOnce, Queued, NoJob
<1> QED  BY <1>1, <1>2, <1>3 DEF IInv

\* A running operation has a row that is in the store.
LEMMA JobHasRow ==
  ASSUME IInv, job # NoJob
  PROVE  /\ job.key \in Nat /\ job.op \in Ops /\ job.ran \in BOOLEAN
         /\ RowOf(job) \in store /\ RowOf(job).key = job.key /\ RowOf(job).op = job.op
         /\ \A r \in store : r.key = job.key => r = RowOf(job)
         /\ phase # "down"
<1>1. RowOf(job) \in store  BY DEF IInv, WaitingOnce
<1>2. RowOf(job).key = job.key /\ RowOf(job).op = job.op  BY DEF RowOf
<1>3. job.key \in Nat /\ job.ran \in BOOLEAN  BY DEF IInv, QueueTypeOK
<1>4. RowOf(job) \in Row  BY <1>1 DEF IInv, QueueTypeOK, Row
<1>5. job.op \in Ops  BY <1>2, <1>4 DEF Row
<1>6. \A r \in store : r.key = job.key => r = RowOf(job)  BY <1>1, <1>2 DEF IInv, KeysUnique, Rows
<1>7. phase # "down"  BY DEF IInv, WaitingOnce
<1> QED  BY <1>1, <1>2, <1>3, <1>5, <1>6, <1>7

LEMMA InvStart == IInv /\ Start => IInv'
<1> SUFFICES ASSUME IInv, Start PROVE IInv'  OBVIOUS
<1>1. phase = "down" /\ phase' = "starting" /\ replay' = store
      /\ UNCHANGED <<store, writing, queue, job, asked, finished, current, crashes>>  BY DEF Start
<1>2. writing = {} /\ queue = <<>> /\ job = NoJob  BY <1>1 DEF IInv, WaitingOnce
<1>3. logical' \in Nat /\ \A r \in store : r.key < logical'
  <2>1. \A r \in store : r.key \in Nat  BY DEF IInv, QueueTypeOK
  <2> QED  BY <2>1 DEF Start
<1>4. QueueTypeOK'  BY <1>1, <1>3 DEF IInv, QueueTypeOK
<1>5. KeysUnique'  BY <1>1, <1>2, <1>3 DEF IInv, KeysUnique, Rows
<1>6. WaitingOnce'
  <2>1. Queued' = Queued  BY <1>1 DEF Queued
  <2> QED  BY <1>1, <1>2, <2>1 DEF IInv, WaitingOnce, RowOf, NoJob
<1> QED  BY <1>4, <1>5, <1>6 DEF IInv

LEMMA InvStarted == IInv /\ Started => IInv'
<1> SUFFICES ASSUME IInv, Started PROVE IInv'  OBVIOUS
<1>1. QueueTypeOK'  BY DEF IInv, QueueTypeOK, Started
<1>2. KeysUnique'  BY DEF IInv, KeysUnique, Rows, Started
<1>3. WaitingOnce'
  <2>1. Queued' = Queued  BY DEF Queued, Started
  <2> QED  BY <2>1 DEF IInv, WaitingOnce, Started, RowOf, NoJob
<1> QED  BY <1>1, <1>2, <1>3 DEF IInv

LEMMA InvAdd == ASSUME NEW o \in Ops, IInv, Add(o) PROVE IInv'
<1> DEFINE new == [key |-> logical, op |-> o]
<1>1. phase = "up" /\ o \notin asked /\ asked' = asked \cup {o} /\ writing' = writing \cup {new}
      /\ logical' = logical + 1
      /\ UNCHANGED <<store, phase, queue, replay, job, finished, current, crashes>>  BY DEF Add
<1>2. logical \in Nat /\ new \in Row  BY DEF IInv, QueueTypeOK, Row
<1>3. QueueTypeOK'  BY <1>1, <1>2 DEF IInv, QueueTypeOK, Row
<1>4. KeysUnique'
  <2>1. Rows' = Rows \cup {new}  BY <1>1 DEF Rows
  <2>2. \A r \in Rows : r.key < logical /\ r.key \in Nat /\ r.op # o /\ r.key # logical
    <3>1. \A r \in Rows : r.key \in Nat  BY DEF IInv, QueueTypeOK, Rows
    <3>2. \A r \in Rows : r.key < logical /\ r.op # o  BY <1>1 DEF IInv, KeysUnique
    <3> QED  BY <3>1, <3>2, <1>2
  <2>3. new \notin Rows /\ new.key = logical /\ new.op = o  BY <2>2
  <2>4. o \notin finished  BY <1>1 DEF IInv, QueueTypeOK
  <2> HIDE DEF new
  <2>5. store' \cap writing' = {}  BY <1>1, <2>3 DEF IInv, KeysUnique, Rows
  <2>6. \A r, s \in Rows' : r.key = s.key \/ r.op = s.op => r = s
    BY <2>1, <2>2, <2>3 DEF IInv, KeysUnique
  <2>7. \A r \in Rows' : r.op \in asked' /\ r.op \notin finished'
    BY <1>1, <2>1, <2>3, <2>4 DEF IInv, KeysUnique
  <2>8. \A r \in Rows' : r.key < logical'  BY <1>1, <1>2, <2>1, <2>2, <2>3
  <2> QED  BY <2>5, <2>6, <2>7, <2>8 DEF KeysUnique
<1>5. WaitingOnce'
  <2>1. Queued' = Queued  BY <1>1 DEF Queued
  <2> QED  BY <1>1, <2>1 DEF IInv, WaitingOnce, RowOf, NoJob
<1> QED  BY <1>3, <1>4, <1>5 DEF IInv

LEMMA InvStored == ASSUME NEW row \in writing, IInv, Stored(row) PROVE IInv'
<1>1. writing' = writing \ {row} /\ queue' = Append(queue, row)
      /\ UNCHANGED <<phase, logical, replay, job, asked, finished, current, crashes>>  BY DEF Stored
<1>2. row \in Row /\ row \in Rows /\ row \notin store  BY DEF IInv, QueueTypeOK, Row, Rows, KeysUnique
<1>3. store' = store \cup {row}
  <2>1. \A r \in store : r.key # row.key  BY <1>2 DEF IInv, KeysUnique, Rows
  <2> QED  BY <2>1 DEF Stored
<1>4. Rows' = Rows  BY <1>1, <1>2, <1>3 DEF Rows
<1>5. phase = "up"  BY DEF IInv, WaitingOnce
<1>6. queue \in Seq(Row) /\ row \notin Queued /\ \A i, j \in DOMAIN queue : queue[i] = queue[j] => i = j
  BY <1>2 DEF IInv, QueueTypeOK, Row, WaitingOnce
<1>7. Queued' = Queued \cup {row} /\ \A i, j \in DOMAIN queue' : queue'[i] = queue'[j] => i = j
  BY <1>1, <1>2, <1>6, AppendItems DEF Queued
<1>8. QueueTypeOK'
  <2>1. queue' \in Seq(Row)  BY <1>1, <1>2, <1>6
  <2>2. store' \subseteq Row /\ writing' \subseteq Row /\ replay' \subseteq store'
    BY <1>1, <1>2, <1>3 DEF IInv, QueueTypeOK, Row
  <2> QED  BY <1>1, <2>1, <2>2 DEF IInv, QueueTypeOK, Row
<1>9. KeysUnique'  BY <1>1, <1>3, <1>4 DEF IInv, KeysUnique
<1>10. WaitingOnce'
  <2>1. Queued' \subseteq store'  BY <1>3, <1>7 DEF IInv, WaitingOnce
  <2>2. job # NoJob => RowOf(job) \in store /\ RowOf(job) # row  BY <1>2 DEF IInv, WaitingOnce
  <2>3. RowOf(job)' = RowOf(job)  BY <1>1 DEF RowOf
  <2>4. job' # NoJob => /\ RowOf(job)' \in store' \ (Queued' \cup replay')
                        /\ current' = [op |-> job.op, whole |-> job.ran]'
    BY <1>1, <1>3, <1>7, <2>2, <2>3 DEF IInv, WaitingOnce, NoJob
  <2> QED  BY <1>1, <1>5, <1>7, <2>1, <2>4 DEF IInv, WaitingOnce, NoJob
<1> QED  BY <1>8, <1>9, <1>10 DEF IInv

\* A row that waits is taken: nobody else waits for it any more, and it has its row.
LEMMA InvRun ==
  ASSUME NEW row \in store, IInv, Run(row), phase # "down",
         Queued' \subseteq Queued \ {row}, replay' \subseteq replay \ {row}, queue' \in Seq(Row),
         \A i, j \in DOMAIN queue' : queue'[i] = queue'[j] => i = j, queue = <<>> => queue' = <<>>
  PROVE  IInv'
<1>1. job' = [key |-> row.key, op |-> row.op, ran |-> FALSE] /\ current' = [op |-> row.op, whole |-> FALSE]
      /\ UNCHANGED <<store, phase, logical, writing, asked, finished, crashes>>  BY DEF Run
<1>2. row \in Row  BY DEF IInv, QueueTypeOK, Row
<1>3. QueueTypeOK'  BY <1>1, <1>2 DEF IInv, QueueTypeOK, Row
<1>4. KeysUnique'  BY <1>1 DEF IInv, KeysUnique, Rows
<1>5. RowOf(job)' = row  BY <1>1, <1>2 DEF RowOf, Row
<1>6. current' = [op |-> job.op, whole |-> job.ran]'  BY <1>1
<1>7. WaitingOnce'
  <2>1. RowOf(job)' \in store' \ (Queued' \cup replay')  BY <1>1, <1>5
  <2>2. Queued' \subseteq store'  BY <1>1 DEF IInv, WaitingOnce
  <2>3. phase' # "starting" => replay' = {}  BY <1>1 DEF IInv, WaitingOnce
  <2>4. phase' # "up" => writing' = {} /\ queue' = <<>>  BY <1>1 DEF IInv, WaitingOnce
  <2>5. phase' # "down"  BY <1>1
  <2> QED  BY <1>6, <2>1, <2>2, <2>3, <2>4, <2>5 DEF WaitingOnce
<1> QED  BY <1>3, <1>4, <1>7 DEF IInv

LEMMA InvRunReplayed == IInv /\ RunReplayed => IInv'
<1> SUFFICES ASSUME IInv, RunReplayed PROVE IInv'  OBVIOUS
<1>1. PICK row \in replay : Run(row) /\ replay' = replay \ {row} /\ UNCHANGED queue  BY DEF RunReplayed
<1>2. row \in store /\ phase = "starting" /\ queue = <<>> /\ Queued \subseteq {}
  <2>1. phase = "starting" /\ queue = <<>>  BY DEF IInv, WaitingOnce
  <2> QED  BY <2>1 DEF IInv, QueueTypeOK, Queued
<1>3. Queued' = Queued /\ queue' \in Seq(Row)  BY <1>1 DEF Queued, IInv, QueueTypeOK, Row
<1>4. \A i, j \in DOMAIN queue' : queue'[i] = queue'[j] => i = j  BY <1>1 DEF IInv, WaitingOnce
<1> QED  BY <1>1, <1>2, <1>3, <1>4, InvRun

\* What stands first in the queue is in the store, and the rest of the queue is what it was.
LEMMA QueueHead ==
  ASSUME IInv, queue # <<>>
  PROVE  /\ Head(queue) \in store /\ phase = "up" /\ replay = {} /\ Tail(queue) \in Seq(Row)
         /\ {Tail(queue)[i] : i \in DOMAIN Tail(queue)} \subseteq Queued \ {Head(queue)}
         /\ \A i, j \in DOMAIN Tail(queue) : Tail(queue)[i] = Tail(queue)[j] => i = j
<1>1. queue \in Seq(Row) /\ \A i, j \in DOMAIN queue : queue[i] = queue[j] => i = j
  BY DEF IInv, QueueTypeOK, Row, WaitingOnce
<1>2. phase = "up" /\ replay = {} /\ Queued \subseteq store  BY DEF IInv, WaitingOnce
<1> QED  BY <1>1, <1>2, TailItems DEF Queued

LEMMA InvRunQueued == IInv /\ RunQueued => IInv'
<1> SUFFICES ASSUME IInv, RunQueued PROVE IInv'  OBVIOUS
<1>1. queue # <<>> /\ Run(Head(queue)) /\ queue' = Tail(queue) /\ UNCHANGED replay  BY DEF RunQueued
<1>2. Head(queue) \in store /\ phase # "down" /\ replay' \subseteq replay \ {Head(queue)}
  BY <1>1, QueueHead
<1>3. Queued' \subseteq Queued \ {Head(queue)} /\ queue' \in Seq(Row)
      /\ \A i, j \in DOMAIN queue' : queue'[i] = queue'[j] => i = j
  BY <1>1, QueueHead DEF Queued
<1> QED  BY <1>1, <1>2, <1>3, InvRun

LEMMA InvReturned == IInv /\ Returned => IInv'
<1> SUFFICES ASSUME IInv, Returned PROVE IInv'  OBVIOUS
<1>1. job # NoJob /\ job' = [job EXCEPT !.ran = TRUE] /\ current' = [current EXCEPT !.whole = TRUE]
      /\ UNCHANGED <<store, phase, logical, writing, queue, replay, asked, finished, crashes>>  BY DEF Returned
<1>2. job \in [key : Nat, op : Ops \cup {Nothing}, ran : BOOLEAN] /\ current = [op |-> job.op, whole |-> job.ran]
  BY <1>1 DEF IInv, QueueTypeOK, WaitingOnce
<1>3. current' = [op |-> job.op, whole |-> job.ran]' /\ RowOf(job)' = RowOf(job)
  BY <1>1, <1>2 DEF RowOf
<1>4. QueueTypeOK'  BY <1>1, <1>2 DEF IInv, QueueTypeOK
<1>5. KeysUnique'  BY <1>1 DEF IInv, KeysUnique, Rows
<1>6. WaitingOnce'
  <2>1. Queued' = Queued  BY <1>1 DEF Queued
  <2>2. phase # "down" /\ RowOf(job) \in store \ (Queued \cup replay)  BY <1>1 DEF IInv, WaitingOnce
  <2> QED  BY <1>1, <1>3, <2>1, <2>2 DEF IInv, WaitingOnce
<1> QED  BY <1>4, <1>5, <1>6 DEF IInv

\* The row goes away, and every other row stays.
LEMMA DeletedRow ==
  ASSUME IInv, RowDeleted
  PROVE  store' = store \ {RowOf(job)} /\ \A r \in Rows : r # RowOf(job) => r.op # job.op
<1>1. job # NoJob /\ store' = {r \in store : r.key # job.key}  BY DEF RowDeleted
<1>2. RowOf(job) \in Rows /\ RowOf(job).op = job.op  BY <1>1, JobHasRow DEF Rows
<1>3. \A r \in Rows : r # RowOf(job) => r.op # job.op  BY <1>2 DEF IInv, KeysUnique
<1> QED  BY <1>1, <1>3, JobHasRow

LEMMA InvDeleted == IInv /\ RowDeleted => IInv'
<1> SUFFICES ASSUME IInv, RowDeleted PROVE IInv'  OBVIOUS
<1>1. job # NoJob /\ finished' = finished \cup {job.op} /\ job' = NoJob
      /\ UNCHANGED <<phase, logical, writing, queue, replay, asked, current, crashes>>  BY DEF RowDeleted
<1>2. store' = store \ {RowOf(job)}  BY DeletedRow
<1>3. RowOf(job) \in store \ (Queued \cup replay)  BY <1>1 DEF IInv, WaitingOnce
<1>4. job.op \in asked
  <2>1. RowOf(job).op \in asked  BY <1>3 DEF IInv, KeysUnique, Rows
  <2> QED  BY <2>1 DEF RowOf
<1>5. QueueTypeOK'  BY <1>1, <1>2, <1>3, <1>4 DEF IInv, QueueTypeOK, NoJob
<1>6. KeysUnique'
  <2>1. Rows' \subseteq Rows \ {RowOf(job)}
    <3>1. RowOf(job) \notin writing  BY <1>3 DEF IInv, KeysUnique
    <3> QED  BY <1>1, <1>2, <3>1 DEF Rows
  <2>2. \A r \in Rows' : r.op \in asked' /\ r.op \notin finished'
    BY <1>1, <2>1, DeletedRow DEF IInv, KeysUnique
  <2>3. store' \cap writing' = {}  BY <1>1, <1>2 DEF IInv, KeysUnique
  <2>4. \A r, s \in Rows' : r.key = s.key \/ r.op = s.op => r = s  BY <2>1 DEF IInv, KeysUnique
  <2>5. phase' # "down" => \A r \in Rows' : r.key < logical'  BY <1>1, <2>1 DEF IInv, KeysUnique
  <2> QED  BY <2>2, <2>3, <2>4, <2>5 DEF KeysUnique
<1>7. WaitingOnce'
  <2>1. Queued' = Queued  BY <1>1 DEF Queued
  <2> QED  BY <1>1, <1>2, <1>3, <2>1 DEF IInv, WaitingOnce
<1> QED  BY <1>5, <1>6, <1>7 DEF IInv

\* A stop of the process leaves the store, and nothing that waits for it.
LEMMA InvStop == IInv /\ Stop /\ UNCHANGED <<store, asked, finished, current>> /\ crashes' \in Nat => IInv'
<1> SUFFICES ASSUME IInv, Stop, UNCHANGED <<store, asked, finished, current>>, crashes' \in Nat PROVE IInv'
  OBVIOUS
<1>1. phase' = "down" /\ writing' = {} /\ queue' = <<>> /\ replay' = {} /\ job' = NoJob /\ logical' = logical
  BY DEF Stop
<1>2. QueueTypeOK'  BY <1>1 DEF IInv, QueueTypeOK, NoJob
<1>3. KeysUnique'
  <2>1. Rows' \subseteq Rows  BY <1>1 DEF Rows
  <2> QED  BY <1>1, <2>1 DEF IInv, KeysUnique
<1>4. WaitingOnce'
  <2>1. Queued' = {}  BY <1>1 DEF Queued
  <2> QED  BY <1>1, <2>1 DEF WaitingOnce
<1> QED  BY <1>2, <1>3, <1>4 DEF IInv

LEMMA InvThrows == IInv /\ Throws => IInv'
<1> SUFFICES ASSUME IInv, Throws PROVE IInv'  OBVIOUS
<1>1. UNCHANGED <<store, asked, finished, current, crashes>>  BY DEF Throws, durable
<1>2. CASE phase = "up" /\ job' = NoJob /\ UNCHANGED <<phase, logical, writing, queue, replay>>
  <2>1. QueueTypeOK'  BY <1>1, <1>2 DEF IInv, QueueTypeOK, NoJob
  <2>2. KeysUnique'  BY <1>1, <1>2 DEF IInv, KeysUnique, Rows
  <2>3. Queued' = Queued  BY <1>2 DEF Queued
  <2>4. WaitingOnce'  BY <1>1, <1>2, <2>3 DEF IInv, WaitingOnce
  <2> QED  BY <2>1, <2>2, <2>4 DEF IInv
<1>3. CASE Stop
  <2>1. crashes' \in Nat  BY <1>1 DEF IInv, QueueTypeOK
  <2> QED  BY <1>1, <1>3, <2>1, InvStop
<1> QED  BY <1>2, <1>3 DEF Throws

LEMMA InvCrash == IInv /\ QueueCrash => IInv'
<1> SUFFICES ASSUME IInv, QueueCrash PROVE IInv'  OBVIOUS
<1>1. crashes' \in Nat  BY DEF IInv, QueueTypeOK, QueueCrash
<1> QED  BY <1>1, InvStop DEF QueueCrash

LEMMA InvNext == IInv /\ [QueueNext]_queueVars => IInv'
<1> SUFFICES ASSUME IInv, [QueueNext]_queueVars PROVE IInv'  OBVIOUS
<1>1. CASE UNCHANGED queueVars
  <2>1. QueueTypeOK'  BY <1>1 DEF queueVars, IInv, QueueTypeOK
  <2>2. KeysUnique'  BY <1>1 DEF queueVars, IInv, KeysUnique, Rows
  <2>3. WaitingOnce'  BY <1>1 DEF queueVars, IInv, WaitingOnce, Queued, RowOf, NoJob
  <2> QED  BY <2>1, <2>2, <2>3 DEF IInv
<1>2. CASE QueueNext
  <2>1. CASE Start \/ Throws \/ QueueCrash  BY <2>1, InvStart, InvThrows, InvCrash
  <2>2. CASE Work
    BY <2>2, InvRunReplayed, InvRunQueued, InvReturned, InvDeleted, InvStarted DEF Work
  <2>3. CASE \E o \in Ops : Add(o)  BY <2>3, InvAdd
  <2>4. CASE \E row \in writing : Stored(row)  BY <2>4, InvStored
  <2> QED  BY <1>2, <2>1, <2>2, <2>3, <2>4 DEF QueueNext
<1> QED  BY <1>1, <1>2

\* The state is well formed, and what waits or runs has a row of its own in the store, in every reachable state.
THEOREM Invariant == QueueSpec => []IInv
<1> QED  BY InvInit, InvNext, PTL DEF QueueSpec

\* The types of the state.
THEOREM TypeCorrect == QueueSpec => []QueueTypeOK
<1>1. IInv => QueueTypeOK  BY DEF IInv
<1> QED  BY <1>1, Invariant, PTL
-----------------------------------------------------------------------------
(* The queue implements AtLeastOnce: each step is a step of the promise, or changes nothing in it. *)

LEMMA PromiseInit == QueueInit => Promise!AbstractInit
BY DEF QueueInit, Promise!AbstractInit, PendingOps

LEMMA StoredAccepts ==
  ASSUME NEW row \in writing, IInv, Stored(row)
  PROVE  \E o \in Ops : Promise!Accept(o)
<1>1. row \in Row /\ row \in Rows /\ row \notin store  BY DEF IInv, QueueTypeOK, Row, Rows, KeysUnique
<1>2. store' = store \cup {row}
  <2>1. \A r \in store : r.key # row.key  BY <1>1 DEF IInv, KeysUnique, Rows
  <2> QED  BY <2>1 DEF Stored
<1>3. row.op \in Ops /\ row.op \notin finished  BY <1>1 DEF IInv, KeysUnique, Row
<1>4. row.op \notin PendingOps  BY <1>1 DEF IInv, KeysUnique, Rows, PendingOps
<1>5. PendingOps' = PendingOps \cup {row.op}  BY <1>2 DEF PendingOps
<1>6. Promise!Accept(row.op)  BY <1>3, <1>4, <1>5 DEF Promise!Accept, Stored
<1> QED  BY <1>3, <1>6

LEMMA RunBegins ==
  ASSUME NEW row \in store, IInv, Run(row)
  PROVE  \E o \in Ops : Promise!Begin(o)
<1>1. row.op \in Ops /\ row.op \in PendingOps  BY DEF IInv, QueueTypeOK, PendingOps
<1>2. PendingOps' = PendingOps  BY DEF Run, PendingOps
<1> QED  BY <1>1, <1>2 DEF Run, Promise!Begin

LEMMA ReturnedRunsToEnd == IInv /\ Returned => Promise!RunToEnd
<1> SUFFICES ASSUME IInv, Returned PROVE Promise!RunToEnd  OBVIOUS
<1>1. ~current.whole  BY DEF IInv, WaitingOnce, Returned
<1>2. PendingOps' = PendingOps  BY DEF Returned, PendingOps
<1> QED  BY <1>1, <1>2 DEF Returned, Promise!RunToEnd

LEMMA DeletedFinishes ==
  ASSUME IInv, RowDeleted
  PROVE  \E o \in Ops : Promise!Finish(o)
<1>1. job # NoJob /\ job.ran /\ finished' = finished \cup {job.op} /\ UNCHANGED current  BY DEF RowDeleted
<1>2. RowOf(job) \in store /\ RowOf(job).op = job.op /\ job.op \in Ops /\ job.ran \in BOOLEAN
  BY <1>1, JobHasRow
<1>3. job.op \in PendingOps  BY <1>2 DEF PendingOps
<1>4. current = [op |-> job.op, whole |-> TRUE]  BY <1>1, <1>2 DEF IInv, WaitingOnce
<1>5. PendingOps' = PendingOps \ {job.op}
  <2>1. \A r \in store : r # RowOf(job) <=> r.op # job.op  BY <1>2, DeletedRow DEF Rows
  <2> QED  BY <2>1, DeletedRow DEF PendingOps
<1>6. Promise!Finish(job.op)  BY <1>1, <1>3, <1>4, <1>5 DEF Promise!Finish
<1> QED  BY <1>2, <1>6

LEMMA PromiseStep == IInv /\ [QueueNext]_queueVars => [Promise!AbstractNext]_(Promise!abstractVars)
<1> SUFFICES ASSUME IInv, [QueueNext]_queueVars PROVE [Promise!AbstractNext]_(Promise!abstractVars)  OBVIOUS
<1>1. CASE UNCHANGED <<store, finished, current>>
  BY <1>1 DEF Promise!abstractVars, PendingOps
<1>2. CASE Start \/ Started \/ Throws \/ QueueCrash \/ UNCHANGED queueVars
  BY <1>1, <1>2 DEF Start, Started, Throws, QueueCrash, durable, queueVars
<1>3. ASSUME NEW o \in Ops, Add(o) PROVE UNCHANGED <<store, finished, current>>  BY <1>3 DEF Add
<1>4. ASSUME NEW row \in writing, Stored(row) PROVE Promise!AbstractNext
  BY <1>4, StoredAccepts DEF Promise!AbstractNext
<1>5. CASE RunReplayed
  <2>1. PICK row \in replay : Run(row)  BY <1>5 DEF RunReplayed
  <2>2. row \in store  BY DEF IInv, QueueTypeOK
  <2> QED  BY <2>1, <2>2, RunBegins DEF Promise!AbstractNext
<1>6. CASE RunQueued
  <2>1. queue # <<>> /\ Run(Head(queue))  BY <1>6 DEF RunQueued
  <2>2. Head(queue) \in store  BY <2>1, QueueHead
  <2> QED  BY <2>1, <2>2, RunBegins DEF Promise!AbstractNext
<1>7. CASE Returned  BY <1>7, ReturnedRunsToEnd DEF Promise!AbstractNext
<1>8. CASE RowDeleted  BY <1>8, DeletedFinishes DEF Promise!AbstractNext
<1> QED  BY <1>1, <1>2, <1>3, <1>4, <1>5, <1>6, <1>7, <1>8 DEF QueueNext, Work

\* Whatever crashes, failures and concurrent calls there are: every accepted operation is pending until a performance
\* of it has run to its end, and never performed again after that.
THEOREM QueueKeepsPromise == QueueSpec => PromiseKept
<1>1. QueueInit => Promise!AbstractInit  BY PromiseInit
<1>2. IInv /\ [QueueNext]_queueVars => [Promise!AbstractNext]_(Promise!abstractVars)  BY PromiseStep
<1>3. QueueSpec => []IInv  BY Invariant
<1> QED  BY <1>1, <1>2, <1>3, PTL DEF QueueSpec, PromiseKept, Promise!Serial
=============================================================================
