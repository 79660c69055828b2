------------------------ MODULE HeliaPinManagerProofs ------------------------
(***************************************************************************)
(* Proofs about HeliaPinManager for every set of blocks, links, pins,      *)
(* callers and workers.                                                    *)
(***************************************************************************)
EXTENDS HeliaPinManagerInv, TLAPS

\* Replacing the record of one call by another well-formed one keeps the calls well typed.
LEMMA CallerUpdate ==
  ASSUME CallersOK, NEW k \in Callers, NEW rec \in CallerRec, CallTo(k, rec),
         rec.pc = "idle" <=> rec.pin = None,
         rec.pc \in {"local.refs", "local.refput", "local.row", "unpin.refput"} => rec.cid \in Cids
  PROVE  CallersOK'
  BY DEF CallersOK, CallTo

\* A step that leaves the calls alone keeps them well typed.
LEMMA CallerStay ==
  ASSUME CallersOK, UNCHANGED caller
  PROVE  CallersOK'
  BY DEF CallersOK

\* Every step of pin, unpin and pinLocal leaves well-typed calls.
LEMMA CallerType ==
  ASSUME CallersOK, StoresOK, NEW k \in Callers, CallerStep(k)
  PROVE  CallersOK'
<1> USE NoneAssumption, PinsAssumption
<1> DEFINE r == caller[k]
<1>1. r \in CallerRec /\ (r.pc = "idle" <=> r.pin = None)
      /\ (r.pc \in {"local.refs", "local.refput", "local.row", "unpin.refput"} => r.cid \in Cids)
  BY DEF CallersOK
<1>2. NoCall \in CallerRec /\ NoCall.pc = "idle" /\ NoCall.pin = None
  BY DEF NoCall, CallerRec, CallerPcs
<1>3. ASSUME NEW p \in Pins, PinGet(k, p) PROVE CallersOK'
  <2>1. [NoCall EXCEPT !.pc = "pin.put", !.pin = p] \in CallerRec
    BY DEF NoCall, CallerRec, CallerPcs
  <2> QED
    BY <1>3, <2>1, CallerUpdate DEF PinGet, NoCall
<1>4. ASSUME NEW p \in Pins, UnpinGet(k, p) PROVE CallersOK'
  <2> DEFINE n == [NoCall EXCEPT !.pin = p,
       !.pc = IF pins[p] = "NOTFOUND" THEN "unpin.rm" ELSE "unpin.destroy"]
  <2>1. n \in CallerRec /\ n.pc \in {"unpin.rm", "unpin.destroy"} /\ n.pin = p
    BY DEF NoCall, CallerRec, CallerPcs, UnpinPcs
  <2>2. CallTo(k, n)
    BY <1>4 DEF UnpinGet
  <2> QED
    BY <2>1, <2>2, CallerUpdate
<1>5. ASSUME NEW p \in Pins, LocalGet(k, p) PROVE CallersOK'
  <2> DEFINE new == {<<"walk", p>>}
             n == [NoCall EXCEPT !.pin = p, !.todo = new,
       !.pc = IF pins[p] = "NOTFOUND" THEN "local.put" ELSE "local.walk"]
  <2>0. new \subseteq {"pins", "downloads", "blocks", "walk", "release"} \X Cids
    OBVIOUS
  <2>2. CallTo(k, n)
    BY <1>5 DEF LocalGet
  <2> HIDE DEF new
  <2>1. n \in CallerRec /\ n.pc \in {"local.put", "local.walk"} /\ n.pin = p
    BY <2>0 DEF NoCall, CallerRec, CallerPcs
  <2> QED
    BY <2>1, <2>2, CallerUpdate
<1>6. ASSUME NEW q \in CallerPcs, CallTo(k, [r EXCEPT !.pc = q]),
             q \notin {"idle", "local.refs"}, r.pc # "idle",
             q \in {"local.refput", "local.row", "unpin.refput"} => r.cid \in Cids
      PROVE  CallersOK'
  <2> DEFINE n == [r EXCEPT !.pc = q]
  <2>1. n \in CallerRec /\ n.pc = q /\ n.pin = r.pin /\ n.cid = r.cid
    BY <1>1 DEF CallerRec
  <2> QED
    BY <1>1, <1>6, <2>1, CallerUpdate
<1>7. CASE PinPut(k) \/ UnpinDestroy(k) \/ LocalPut(k) \/ LocalPinRef(k)
  BY <1>6, <1>7 DEF PinPut, UnpinDestroy, LocalPut, LocalPinRef, CallerPcs, UnpinPcs
<1>8. CASE PinRoot(k) \/ UnpinDone(k) \/ LocalMissing(k) \/ LocalComplete(k)
  BY <1>2, <1>8, CallerUpdate DEF PinRoot, UnpinDone, LocalMissing, LocalComplete
<1>9. CASE UnpinList(k)
  <2> DEFINE new == {<<"pins", r.pin>>} \cup ({"downloads"} \X Rows(downloads, r.pin))
                                       \cup ({"blocks"} \X Rows(blocks, r.pin))
             n == [r EXCEPT !.pc = "unpin.delete", !.todo = new]
  <2>1. r.pin \in Pins
    BY <1>1, <1>9 DEF UnpinList, CallerRec
  <2>2. new \subseteq {"pins", "downloads", "blocks", "walk", "release"} \X Cids
    BY <2>1 DEF Rows
  <2> HIDE DEF new
  <2>3. n \in CallerRec /\ n.pc = "unpin.delete" /\ n.pin = r.pin
    BY <1>1, <2>2 DEF CallerRec, CallerPcs, UnpinPcs
  <2>4. CallTo(k, n)
    BY <1>9 DEF UnpinList, new
  <2> QED
    BY <1>1, <2>1, <2>3, <2>4, CallerUpdate
<1>10. CASE UnpinDelete(k)
  <2>1. PICK x \in r.todo : CallTo(k, [r EXCEPT !.todo = @ \ {x}])
    BY <1>10 DEF UnpinDelete
  <2> DEFINE n == [r EXCEPT !.todo = @ \ {x}]
  <2>2. n \in CallerRec /\ n.pc = r.pc /\ n.pin = r.pin /\ n.cid = r.cid
    BY <1>1 DEF CallerRec
  <2> QED
    BY <1>1, <2>1, <2>2, CallerUpdate
<1>11. CASE LocalBlock(k)
  <2>1. PICK c \in blockstore : CallTo(k, [r EXCEPT !.pc = "local.refs", !.cid = c,
            !.todo = (@ \ {<<"walk", c>>}) \cup ({"walk"} \X Links[c])])
    BY <1>11 DEF LocalBlock
  <2> DEFINE new == (r.todo \ {<<"walk", c>>}) \cup ({"walk"} \X Links[c])
             n == [r EXCEPT !.pc = "local.refs", !.cid = c, !.todo = new]
  <2>2. c \in Cids /\ Links[c] \subseteq Cids
    BY LinksAssumption DEF StoresOK
  <2>3. new \subseteq {"pins", "downloads", "blocks", "walk", "release"} \X Cids
    BY <1>1, <2>2 DEF CallerRec
  <2>4. CallTo(k, n)
    BY <2>1
  <2> HIDE DEF new
  <2>5. n \in CallerRec /\ n.pc = "local.refs" /\ n.pin = r.pin /\ n.cid = c
    BY <1>1, <2>2, <2>3 DEF CallerRec, CallerPcs
  <2>6. r.pc = "local.walk"
    BY <1>11 DEF LocalBlock
  <2> QED
    BY <1>1, <2>2, <2>4, <2>5, <2>6, CallerUpdate
<1>12. CASE LocalRefsRead(k)
  <2> DEFINE n == [r EXCEPT !.pc = "local.refput", !.seen = RefsOn(r.cid)]
  <2>1. n \in CallerRec /\ n.pc = "local.refput" /\ n.pin = r.pin /\ n.cid = r.cid
    BY <1>1 DEF CallerRec, CallerPcs, RefsOn
  <2> QED
    BY <1>1, <1>12, <2>1, CallerUpdate DEF LocalRefsRead
<1>13. CASE LocalRefsPut(k)
  <2> DEFINE n == [r EXCEPT !.pc = "local.row", !.seen = {}]
  <2>1. n \in CallerRec /\ n.pc = "local.row" /\ n.pin = r.pin /\ n.cid = r.cid
    BY <1>1 DEF CallerRec, CallerPcs
  <2> QED
    BY <1>1, <1>13, <2>1, CallerUpdate DEF LocalRefsPut
<1>14. CASE LocalRow(k)
  <2> DEFINE n == [r EXCEPT !.pc = "local.walk", !.cid = None,
                            !.visited = @ \cup {r.cid}]
  <2>1. n \in CallerRec /\ n.pc = "local.walk" /\ n.pin = r.pin
    BY <1>1, <1>14 DEF CallerRec, CallerPcs, LocalRow
  <2> QED
    BY <1>1, <1>14, <2>1, CallerUpdate DEF LocalRow
<1>15. CASE UnpinRm(k)
  <2> DEFINE new == IF r.pin \in heliaPins THEN {"release"} \X Dag[r.pin] ELSE {}
             n == [r EXCEPT !.pc = "unpin.release", !.todo = new]
  <2>1. r.pin \in Pins
    BY <1>1, <1>15 DEF UnpinRm, CallerRec
  <2>2. new \subseteq {"pins", "downloads", "blocks", "walk", "release"} \X Cids
    BY <2>1 DEF Dag
  <2>3. CallTo(k, n)
    BY <1>15 DEF UnpinRm
  <2> HIDE DEF new
  <2>4. n \in CallerRec /\ n.pc = "unpin.release" /\ n.pin = r.pin
    BY <1>1, <2>2 DEF CallerRec, CallerPcs, UnpinPcs
  <2> QED
    BY <1>1, <2>1, <2>3, <2>4, CallerUpdate
<1>16. CASE UnpinRefsRead(k)
  <2>1. PICK x \in r.todo : CallTo(k, [r EXCEPT !.pc = "unpin.refput", !.cid = x[2],
                                         !.seen = RefsOn(x[2]), !.todo = @ \ {x}])
    BY <1>16 DEF UnpinRefsRead
  <2> DEFINE n == [r EXCEPT !.pc = "unpin.refput", !.cid = x[2],
                            !.seen = RefsOn(x[2]), !.todo = @ \ {x}]
  <2>2. x[2] \in Cids /\ RefsOn(x[2]) \subseteq Pins
    BY <1>1 DEF CallerRec, RefsOn
  <2>3. n \in CallerRec /\ n.pc = "unpin.refput" /\ n.pin = r.pin /\ n.cid = x[2]
    BY <1>1, <2>2 DEF CallerRec, CallerPcs, UnpinPcs
  <2>4. r.pc = "unpin.release"
    BY <1>16 DEF UnpinRefsRead
  <2> QED
    BY <1>1, <2>1, <2>2, <2>3, <2>4, CallerUpdate
<1>17. CASE UnpinRefsPut(k)
  <2> DEFINE n == [r EXCEPT !.pc = "unpin.release", !.cid = None, !.seen = {}]
  <2>1. n \in CallerRec /\ n.pc = "unpin.release" /\ n.pin = r.pin
    BY <1>1 DEF CallerRec, CallerPcs, UnpinPcs
  <2> QED
    BY <1>1, <1>17, <2>1, CallerUpdate DEF UnpinRefsPut
<1> QED
  BY <1>3, <1>4, <1>5, <1>7, <1>8, <1>9, <1>10, <1>11, <1>12, <1>13, <1>14, <1>15, <1>16, <1>17
     DEF CallerStep

\* Every step of a call leaves well-typed tables and touches no batch, closure or run.
LEMMA CallerStores ==
  ASSUME CallersOK, StoresOK, NEW k \in Callers, CallerStep(k)
  PROVE  /\ StoresOK'
         /\ UNCHANGED <<batch, worker, run>>
         /\ walked' \subseteq walked
<1> USE PinsAssumption, NoneAssumption
<1> DEFINE r == caller[k]
<1>1. r \in CallerRec /\ (r.pc = "idle" <=> r.pin = None)
      /\ (r.pc \in {"local.refs", "local.refput", "local.row", "unpin.refput"} => r.cid \in Cids)
  BY DEF CallersOK
<1>2. r.pin \in Pins \/ r.pc = "idle"
  BY <1>1 DEF CallerRec
<1>3. CASE \E p \in Pins : PinGet(k, p) \/ UnpinGet(k, p) \/ LocalGet(k, p)
  BY <1>3 DEF PinGet, UnpinGet, LocalGet, StoresOK, stores
<1>4. CASE \/ UnpinList(k) \/ UnpinDone(k) \/ LocalBlock(k) \/ LocalMissing(k)
           \/ LocalRefsRead(k) \/ UnpinRefsRead(k)
  BY <1>4 DEF UnpinList, UnpinDone, LocalBlock, LocalMissing, LocalRefsRead, UnpinRefsRead,
     StoresOK, stores
<1>5. CASE PinPut(k) \/ UnpinDestroy(k) \/ LocalPut(k) \/ LocalComplete(k)
  BY <1>5 DEF PinPut, UnpinDestroy, LocalPut, LocalComplete, StoresOK, Statuses
<1>6. CASE PinRoot(k)
  BY <1>2, <1>6 DEF PinRoot, StoresOK
<1>7. CASE UnpinRm(k)
  BY <1>7 DEF UnpinRm, StoresOK
<1>8. CASE UnpinDelete(k)
  BY <1>8 DEF UnpinDelete, StoresOK, Statuses
<1>9. CASE LocalRefsPut(k)
  <2>1. r.seen \cup {r.pin} \subseteq Pins /\ r.cid \in Cids
    BY <1>1, <1>2, <1>9 DEF LocalRefsPut, CallerRec
  <2>2. refs' \subseteq Pins \X Cids
    BY <1>9, <2>1 DEF LocalRefsPut, WriteRefs, StoresOK
  <2> QED
    BY <1>9, <2>2 DEF LocalRefsPut, StoresOK
<1>10. CASE LocalRow(k)
  BY <1>1, <1>2, <1>10 DEF LocalRow, StoresOK
<1>11. CASE LocalPinRef(k)
  BY <1>2, <1>11 DEF LocalPinRef, StoresOK
<1>12. CASE UnpinRefsPut(k)
  <2>1. r.seen \ {r.pin} \subseteq Pins /\ r.cid \in Cids
    BY <1>1, <1>12 DEF UnpinRefsPut, CallerRec
  <2>2. refs' \subseteq Pins \X Cids
    BY <1>12, <2>1 DEF UnpinRefsPut, WriteRefs, StoresOK
  <2> QED
    BY <1>12, <2>2 DEF UnpinRefsPut, StoresOK
<1> QED
  BY <1>3, <1>4, <1>5, <1>6, <1>7, <1>8, <1>9, <1>10, <1>11, <1>12 DEF CallerStep

\* Replacing the record of one run by another well-formed one keeps the runs well typed.
LEMMA RunUpdate ==
  ASSUME RunsOK, NEW c \in Cids, NEW rec \in RunRec, RunTo(c, rec)
  PROVE  RunsOK'
  BY DEF RunsOK, RunTo

\* Every step of downloadSingle leaves well-typed runs.
LEMMA RunType ==
  ASSUME RunsOK, StoresOK, NEW c \in Cids, RunStep(c)
  PROVE  RunsOK'
<1> USE LinksAssumption
<1> DEFINE r == run[c]
<1>1. r \in RunRec
  BY DEF RunsOK
<1>2. ASSUME NEW q \in {"refs"}, RunTo(c, [r EXCEPT !.pc = q])
      PROVE  RunsOK'
  BY <1>1, <1>2, RunUpdate DEF RunRec
<1>3. CASE RunQuery(c)
  <2> DEFINE n == [r EXCEPT !.pc = "fetch", !.snap = {p \in Pins : <<p, c>> \in downloads}]
  <2>1. n \in RunRec
    BY <1>1 DEF RunRec
  <2> QED
    BY <1>3, <2>1, RunUpdate DEF RunQuery
<1>4. CASE RunFetched(c)
  BY <1>2, <1>4 DEF RunFetched
<1>5. CASE RunAborted(c) \/ RunDone(c)
  <2>1. NoRun \in RunRec
    BY DEF NoRun, RunRec
  <2> QED
    BY <1>5, <2>1, RunUpdate DEF RunAborted, RunDone
<1>6. CASE RunRefsRead(c)
  <2> DEFINE n == [r EXCEPT !.pc = "refput", !.seen = RefsOn(c)]
  <2>1. n \in RunRec
    BY <1>1 DEF RunRec, RefsOn
  <2> QED
    BY <1>6, <2>1, RunUpdate DEF RunRefsRead
<1>7. ASSUME NEW q \in {"record", "links", "clear"}, NEW s \in SUBSET Pins,
             NEW t \in SUBSET Cids, NEW n, n = [r EXCEPT !.pc = q, !.seen = s, !.todo = r.snap \X t]
      PROVE  n \in RunRec
  <2>1. r.snap \X t \subseteq Pins \X Cids
    BY <1>1 DEF RunRec
  <2> QED
    BY <1>1, <1>7, <2>1 DEF RunRec
<1>8. CASE RunRefsPut(c)
  <2> DEFINE n == [r EXCEPT !.pc = "record", !.seen = {}, !.todo = r.snap \X {c}]
  <2>1. n \in RunRec
    BY <1>7
  <2> QED
    BY <1>8, <2>1, RunUpdate DEF RunRefsPut
<1>9. CASE RunRecorded(c)
  <2> DEFINE t == r.snap \X Links[c]
             n == [r EXCEPT !.pc = "links", !.todo = t]
  <2>1. t \subseteq Pins \X Cids
    BY <1>1 DEF RunRec
  <2>2. RunTo(c, n)
    BY <1>9 DEF RunRecorded
  <2> HIDE DEF t
  <2>3. n \in RunRec
    BY <1>1, <2>1 DEF RunRec
  <2> QED
    BY <2>2, <2>3, RunUpdate
<1>10. CASE RunLinked(c)
  <2> DEFINE t == r.snap \X {c}
             n == [r EXCEPT !.pc = "clear", !.todo = t]
  <2>1. t \subseteq Pins \X Cids
    BY <1>1 DEF RunRec
  <2>2. RunTo(c, n)
    BY <1>10 DEF RunLinked
  <2> HIDE DEF t
  <2>3. n \in RunRec
    BY <1>1, <2>1 DEF RunRec
  <2> QED
    BY <2>2, <2>3, RunUpdate
<1>11. CASE RunRecord(c) \/ RunLink(c) \/ RunClear(c)
  <2>1. PICK x \in r.todo : RunTo(c, [r EXCEPT !.todo = @ \ {x}])
    BY <1>11 DEF RunRecord, RunLink, RunClear
  <2>2. [r EXCEPT !.todo = @ \ {x}] \in RunRec
    BY <1>1 DEF RunRec
  <2> QED
    BY <2>1, <2>2, RunUpdate
<1> QED
  BY <1>3, <1>4, <1>5, <1>6, <1>8, <1>9, <1>10, <1>11 DEF RunStep

\* Every step of downloadSingle leaves well-typed tables and closures, and no call moves.
LEMMA RunStores ==
  ASSUME TypeOK, NEW c \in Cids, RunStep(c)
  PROVE  /\ StoresOK' /\ BatchOK' /\ WorkersOK'
         /\ UNCHANGED <<pins, heliaPins, caller>>
         /\ walked' \subseteq Pins \X Cids
<1>0. run[c] \in RunRec
  BY DEF TypeOK, RunsOK
<1>1. CASE RunQuery(c) \/ RunRefsRead(c) \/ RunRecorded(c) \/ RunLinked(c)
  BY <1>1 DEF RunQuery, RunRefsRead, RunRecorded, RunLinked,
     stores, TypeOK, StoresOK, BatchOK, WorkersOK, HistoryOK
<1>2. CASE RunAborted(c) \/ RunDone(c)
  <2>1. WorkersOK'
    BY <1>2 DEF RunAborted, RunDone, TypeOK, WorkersOK, WorkerRec, NoWorker
  <2>2. BatchOK'
    BY <1>2 DEF RunAborted, RunDone, TypeOK, BatchOK, BatchRec, NoBatch
  <2> QED
    BY <1>2, <2>1, <2>2 DEF RunAborted, RunDone, stores, TypeOK, StoresOK, HistoryOK
<1>3. CASE RunRefsPut(c)
  <2>1. refs' \subseteq Pins \X Cids
    BY <1>0, <1>3 DEF RunRefsPut, WriteRefs, TypeOK, StoresOK, RunRec
  <2> QED
    BY <1>3, <2>1 DEF RunRefsPut, TypeOK, StoresOK, BatchOK, WorkersOK, HistoryOK
<1>4. CASE RunFetched(c)
  BY <1>4 DEF RunFetched, TypeOK, StoresOK, BatchOK, WorkersOK, HistoryOK
<1>5. CASE RunRecord(c)
  BY <1>0, <1>5 DEF RunRecord, TypeOK, StoresOK, BatchOK, WorkersOK, HistoryOK, RunRec
<1>6. CASE RunLink(c)
  BY <1>0, <1>6 DEF RunLink, TypeOK, StoresOK, BatchOK, WorkersOK, HistoryOK, RunRec
<1>7. CASE RunClear(c)
  BY <1>0, <1>7 DEF RunClear, TypeOK, StoresOK, BatchOK, WorkersOK, HistoryOK, RunRec
<1> QED
  BY <1>1, <1>2, <1>3, <1>4, <1>5, <1>6, <1>7 DEF RunStep

\* The steps of downloadHeads and of the ends of closures keep the types.
LEMMA RestType ==
  ASSUME TypeOK,
         \/ \E p \in Pins : HeadsOpen(p)
         \/ HeadsList
         \/ \E w \in Workers, c \in Cids : Invoke(w, c)
         \/ \E w \in Workers : WorkerStep(w)
  PROVE  /\ StoresOK' /\ BatchOK' /\ WorkersOK' /\ RunsOK'
         /\ UNCHANGED <<caller, walked, downloads, blocks, blockstore>>
<1> USE NoneAssumption, PinsAssumption DEF TypeOK
<1>1. ASSUME NEW p \in Pins, HeadsOpen(p)
      PROVE  UNCHANGED <<stores, caller, worker, run, walked>> /\ BatchOK'
  BY <1>1 DEF HeadsOpen, BatchOK, BatchRec
<1>2. ASSUME HeadsList
      PROVE  UNCHANGED <<stores, caller, worker, run, walked>> /\ BatchOK'
  <2>1. UNCHANGED <<stores, caller, worker, run, walked>>
    BY <1>2 DEF HeadsList
  <2>2. PICK free \in SUBSET Cids :
          batch' = IF free = {} THEN NoBatch
                   ELSE [batch EXCEPT !.pc = "yield", !.queue = free]
    BY <1>2 DEF HeadsList, Rows
  <2>3. BatchOK'
    BY <1>2, <2>2 DEF HeadsList, BatchOK, BatchRec, NoBatch
  <2> QED
    BY <2>1, <2>3
<1>3. ASSUME NEW w \in Workers, NEW c \in Cids, Invoke(w, c)
      PROVE  /\ UNCHANGED <<stores, caller, walked>>
             /\ BatchOK' /\ WorkersOK' /\ RunsOK'
  <2>1. BatchOK'
    BY <1>3 DEF Invoke, BatchOK, BatchRec, NoBatch
  <2>2. WorkersOK'
    BY <1>3 DEF Invoke, WorkersOK, WorkerRec, WorkTo, BatchOK, BatchRec
  <2>3. [run[c] EXCEPT !.pc = IF @ = "idle" THEN "query" ELSE @] \in RunRec
    BY DEF RunsOK, RunRec
  <2>4. RunsOK'
    BY <1>3, <2>3, RunUpdate DEF Invoke
  <2> QED
    BY <1>3, <2>1, <2>2, <2>4 DEF Invoke
<1>4. ASSUME NEW w \in Workers, WorkerStep(w)
      PROVE  /\ UNCHANGED <<downloads, blocks, blockstore, refs, caller, batch, run, walked>>
             /\ WorkersOK' /\ pins' \in [Pins -> Statuses] /\ heliaPins' \subseteq Pins
  <2>0. worker[w] \in WorkerRec /\ (worker[w].pc = "idle" <=> worker[w].pin = None)
    BY DEF WorkersOK
  <2>1. CASE CheckHeads(w)
    BY <2>0, <2>1 DEF CheckHeads, WorkTo, WorkersOK, WorkerRec, NoWorker, stores, StoresOK
  <2>2. CASE AddPinRef(w)
    BY <2>0, <2>2 DEF AddPinRef, WorkTo, WorkersOK, WorkerRec, NoWorker, StoresOK
  <2>3. CASE Complete(w)
    BY <2>0, <2>3 DEF Complete, WorkTo, WorkersOK, WorkerRec, NoWorker, StoresOK, Statuses
  <2> QED
    BY <1>4, <2>1, <2>2, <2>3 DEF WorkerStep
<1>5. ASSUME UNCHANGED stores PROVE StoresOK' /\ UNCHANGED <<downloads, blocks, blockstore>>
  BY <1>5 DEF stores, StoresOK
<1>6. ASSUME UNCHANGED worker PROVE WorkersOK'
  BY <1>6 DEF WorkersOK
<1>7. ASSUME UNCHANGED run PROVE RunsOK'
  BY <1>7 DEF RunsOK
<1>8. ASSUME UNCHANGED batch PROVE BatchOK'
  BY <1>8 DEF BatchOK
<1>9. CASE \E w \in Workers : WorkerStep(w)
  BY <1>4, <1>7, <1>8, <1>9 DEF StoresOK
<1> QED
  BY <1>1, <1>2, <1>3, <1>5, <1>6, <1>7, <1>9

\* The types hold at the start.
LEMMA TypeInit == Init => TypeOK
  BY StoredAssumption, NoneAssumption
  DEF Init, TypeOK, StoresOK, CallersOK, BatchOK, WorkersOK, RunsOK, HistoryOK,
      CallerRec, CallerPcs, BatchRec, WorkerRec, RunRec, Statuses,
      NoCall, NoBatch, NoWorker, NoRun

\* Every step of the pin manager, and a crash, keeps the types.
LEMMA TypeNext == TypeOK /\ [Next]_vars => TypeOK'
<1> SUFFICES ASSUME TypeOK, [Next]_vars PROVE TypeOK'
  OBVIOUS
<1> USE DEF TypeOK
<1>1. ASSUME NEW k \in Callers, CallerStep(k), Racing PROVE TypeOK'
  <2>1. BatchOK' /\ WorkersOK' /\ RunsOK'
    BY <1>1, CallerStores DEF BatchOK, WorkersOK, RunsOK
  <2> QED
    BY <1>1, <2>1, CallerStores, CallerType DEF HistoryOK, Racing
<1>2. ASSUME NEW c \in Cids, RunStep(c), Racing PROVE TypeOK'
  BY <1>2, RunStores, RunType, CallerStay DEF HistoryOK, Racing
<1>3. ASSUME \/ \E p \in Pins : HeadsOpen(p)
             \/ HeadsList
             \/ \E w \in Workers, c \in Cids : Invoke(w, c)
             \/ \E w \in Workers : WorkerStep(w),
             Racing
      PROVE  TypeOK'
  BY <1>3, RestType, CallerStay DEF HistoryOK, Racing
<1>4. ASSUME Crash, raced' = raced \cup {p \in Pins : Unpinning(p)} PROVE TypeOK'
  BY <1>4, NoneAssumption
  DEF Crash, stores, StoresOK, CallersOK, BatchOK, WorkersOK, RunsOK, HistoryOK,
      CallerRec, CallerPcs, BatchRec, WorkerRec, RunRec, NoCall, NoBatch, NoWorker, NoRun
<1>5. CASE UNCHANGED vars
  BY <1>5 DEF vars, stores, StoresOK, CallersOK, BatchOK, WorkersOK, RunsOK, HistoryOK
<1> QED
  BY <1>1, <1>2, <1>3, <1>4, <1>5 DEF Next, Step

\* In every reachable state of the pin manager the tables hold rows of pins and blocks
\* only, and exactly the processes at work hold a pin.
THEOREM TypeCorrect == Spec => []TypeOK
<1> QED
  BY TypeInit, TypeNext, PTL DEF Spec
-----------------------------------------------------------------------------
(* The inductive invariant, and the safety properties that follow from it. *)

(* DAGs: the root and the links of a block are in it, and nothing else. *)

\* The root of a DAG belongs to it.
LEMMA DagRoot == ASSUME NEW p \in Cids PROVE p \in Dag[p]
  BY DEF Dag

\* A block of a DAG has its links in the DAG.
LEMMA DagLinks ==
  ASSUME NEW p \in Cids, NEW c \in Dag[p] PROVE c \in Cids /\ Links[c] \subseteq Dag[p]
<1>1. c \in Cids /\ \A S \in SUBSET Cids : p \in S /\ Closed(S) => c \in S
  BY DEF Dag
<1>2. Links[c] \subseteq Cids
  BY <1>1, LinksAssumption
<1>3. ASSUME NEW x \in Links[c], NEW S \in SUBSET Cids, p \in S, Closed(S) PROVE x \in S
  BY <1>1, <1>3 DEF Closed
<1> QED
  BY <1>1, <1>2, <1>3 DEF Dag

\* A link-closed set with the root holds the DAG.
LEMMA DagLeast ==
  ASSUME NEW S \in SUBSET Cids, NEW p \in S, Closed(S) PROVE Dag[p] \subseteq S
  BY DEF Dag

-----------------------------------------------------------------------------
(* What a step may change of a pin. *)

\* Nothing recorded for the pin changes.
Same(p) ==
  /\ pins'[p] = pins[p]
  /\ p \in heliaPins' <=> p \in heliaPins
  /\ \A c \in Cids : /\ <<p, c>> \in downloads' <=> <<p, c>> \in downloads
                     /\ <<p, c>> \in blocks' <=> <<p, c>> \in blocks
                     /\ <<p, c>> \in walked' <=> <<p, c>> \in walked

\* Nothing recorded for the pin is lost, but rows turn into walked ones.
Grows(p) ==
  /\ blockstore \subseteq blockstore'
  /\ p \in heliaPins => p \in heliaPins'
  /\ \A c \in Cids : /\ <<p, c>> \in blocks => <<p, c>> \in blocks'
                     /\ Covered(p, c) => Covered(p, c)'

\* A call touches no pin but its own.
LEMMA CallerSame ==
  ASSUME TypeOK, NEW k \in Callers, CallerStep(k), NEW p \in Pins, caller[k].pin # p
  PROVE  Same(p) /\ blockstore' = blockstore
<1> DEFINE q == caller[k].pin
<1> USE DEF Same, stores
<1>1. CASE \E s \in Pins : PinGet(k, s) \/ UnpinGet(k, s) \/ LocalGet(k, s)
  BY <1>1 DEF PinGet, UnpinGet, LocalGet
<1>2. CASE \/ UnpinDone(k) \/ LocalBlock(k) \/ LocalMissing(k) \/ LocalRefsRead(k)
           \/ LocalRefsPut(k)
  BY <1>2 DEF UnpinDone, LocalBlock, LocalMissing, LocalRefsRead, LocalRefsPut
<1>3. CASE PinPut(k) \/ UnpinDestroy(k) \/ LocalPut(k) \/ LocalComplete(k)
  BY <1>3 DEF PinPut, UnpinDestroy, LocalPut, LocalComplete, TypeOK, StoresOK
<1>4. CASE PinRoot(k) \/ LocalRow(k)
  BY <1>4 DEF PinRoot, LocalRow
<1>5. CASE UnpinRm(k) \/ UnpinRefsRead(k) \/ UnpinRefsPut(k) \/ LocalPinRef(k)
  BY <1>5 DEF UnpinRm, UnpinRefsRead, UnpinRefsPut, LocalPinRef
<1>6. CASE UnpinList(k)
  BY <1>6 DEF UnpinList, RowsOf
<1>7. CASE UnpinDelete(k)
  BY <1>7 DEF UnpinDelete, TypeOK, StoresOK
<1> QED
  BY <1>1, <1>2, <1>3, <1>4, <1>5, <1>6, <1>7 DEF CallerStep

\* Only an unpin takes something away.
LEMMA CallerGrows ==
  ASSUME TypeOK, NEW k \in Callers, CallerStep(k), NEW p \in Pins,
         caller[k].pc \notin UnpinPcs
  PROVE  Grows(p) /\ downloads \subseteq downloads'
<1> USE DEF Grows, Covered, stores, UnpinPcs
<1>1. CASE \E s \in Pins : PinGet(k, s) \/ UnpinGet(k, s) \/ LocalGet(k, s)
  BY <1>1 DEF PinGet, UnpinGet, LocalGet
<1>2. CASE \/ LocalBlock(k) \/ LocalMissing(k) \/ LocalRefsRead(k) \/ LocalRefsPut(k)
           \/ PinPut(k) \/ LocalPut(k) \/ LocalComplete(k)
  BY <1>2 DEF LocalBlock, LocalMissing, LocalRefsRead, LocalRefsPut,
              PinPut, LocalPut, LocalComplete
<1>3. CASE PinRoot(k) \/ LocalRow(k) \/ LocalPinRef(k)
  BY <1>3 DEF PinRoot, LocalRow, LocalPinRef
<1>4. ~(UnpinDestroy(k) \/ UnpinRm(k) \/ UnpinRefsRead(k) \/ UnpinRefsPut(k) \/ UnpinList(k)
          \/ UnpinDelete(k) \/ UnpinDone(k))
  BY DEF UnpinDestroy, UnpinRm, UnpinRefsRead, UnpinRefsPut, UnpinList, UnpinDelete, UnpinDone
<1> QED
  BY <1>1, <1>2, <1>3, <1>4 DEF CallerStep

\* A run touches the pins of its snapshot only.
LEMMA RunSame ==
  ASSUME TypeOK, RunShape, NEW d \in Cids, RunStep(d), NEW p \in Pins, p \notin run[d].snap
  PROVE  Same(p)
<1> USE DEF Same, stores
<1>1. CASE \/ RunQuery(d) \/ RunAborted(d) \/ RunRefsRead(d) \/ RunRecorded(d)
           \/ RunLinked(d) \/ RunDone(d)
  BY <1>1 DEF RunQuery, RunAborted, RunRefsRead, RunRecorded, RunLinked, RunDone
<1>2. CASE RunFetched(d) \/ RunRefsPut(d)
  BY <1>2 DEF RunFetched, RunRefsPut
<1>3. CASE RunRecord(d)
  BY <1>3 DEF RunRecord, RunShape
<1>4. CASE RunLink(d)
  BY <1>4 DEF RunLink, RunShape
<1>5. CASE RunClear(d)
  BY <1>5 DEF RunClear, RunShape
<1> QED
  BY <1>1, <1>2, <1>3, <1>4, <1>5 DEF RunStep

\* A run takes nothing away, and gives up the rows of its own block only.
LEMMA RunGrows ==
  ASSUME TypeOK, RunShape, NEW d \in Cids, RunStep(d), NEW p \in Pins
  PROVE  /\ Grows(p) /\ walked \subseteq walked'
         /\ \A c \in Cids \ {d} : <<p, c>> \in downloads => <<p, c>> \in downloads'
<1> USE DEF Grows, Covered, stores
<1>1. CASE \/ RunQuery(d) \/ RunAborted(d) \/ RunRefsRead(d) \/ RunRecorded(d)
           \/ RunLinked(d) \/ RunDone(d)
  BY <1>1 DEF RunQuery, RunAborted, RunRefsRead, RunRecorded, RunLinked, RunDone
<1>2. CASE RunFetched(d) \/ RunRefsPut(d)
  BY <1>2 DEF RunFetched, RunRefsPut
<1>3. CASE RunRecord(d)
  BY <1>3 DEF RunRecord
<1>4. CASE RunLink(d)
  BY <1>4 DEF RunLink
<1>5. CASE RunClear(d)
  BY <1>5 DEF RunClear, RunShape
<1> QED
  BY <1>1, <1>2, <1>3, <1>4, <1>5 DEF RunStep

\* The steps of downloadHeads: they write no table.
BatchStep == (\E p \in Pins : HeadsOpen(p)) \/ HeadsList

\* The end of a closure touches its own pin only, and takes nothing away.
LEMMA RestGrows ==
  ASSUME TypeOK, NEW p \in Pins,
         BatchStep \/ (\E w \in Workers, c \in Cids : Invoke(w, c))
           \/ \E w \in Workers : WorkerStep(w)
  PROVE  /\ Grows(p) /\ UNCHANGED <<downloads, blocks, walked, blockstore, caller>>
         /\ (\A w \in Workers : worker[w].pin # p) => Same(p)
<1> USE DEF Grows, Covered, stores, Same
<1>1. CASE BatchStep
  BY <1>1 DEF BatchStep, HeadsOpen, HeadsList
<1>2. CASE \E w \in Workers, c \in Cids : Invoke(w, c)
  BY <1>2 DEF Invoke
<1>3. CASE \E w \in Workers : WorkerStep(w)
  BY <1>3 DEF WorkerStep, CheckHeads, AddPinRef, Complete, TypeOK, StoresOK
<1> QED
  BY <1>1, <1>2, <1>3

\* A pin that is not raced is either unpinned by one call alone or not at all.
LEMMA NoRace ==
  ASSUME RacesSeen, NEW p \in Pins \ raced
  PROVE  /\ Downloading(p) => ~Unpinning(p)
         /\ \A k, j \in Callers : caller[k].pin = p /\ caller[k].pc \in UnpinPcs /\ j # k
                                    => caller[j].pin # p
  BY DEF RacesSeen, Contended, Unpinning

\* The same after a step, which remembers the races it leads to.
LEMMA NoRaceNext ==
  ASSUME Racing, NEW p \in Pins \ raced'
  PROVE  /\ p \in Pins \ raced
         /\ Downloading(p)' => ~Unpinning(p)'
         /\ \A k, j \in Callers : caller'[k].pin = p /\ caller'[k].pc \in UnpinPcs /\ j # k
                                    => caller'[j].pin # p
  BY DEF Racing, Contended, Unpinning

\* Work on a pin that nobody unpins loses nothing.
LEMMA StepGrows ==
  ASSUME TypeOK, RunShape, Step, NEW p \in Pins, ~Unpinning(p)
  PROVE  Grows(p)
<1>1. ASSUME NEW k \in Callers, CallerStep(k) PROVE Grows(p)
  <2>1. CASE caller[k].pin = p
    BY <1>1, <2>1, CallerGrows DEF Unpinning
  <2>2. CASE caller[k].pin # p
    BY <1>1, <2>2, CallerSame DEF Same, Grows, Covered
  <2> QED
    BY <2>1, <2>2
<1>2. ASSUME NEW d \in Cids, RunStep(d) PROVE Grows(p)
  BY <1>2, RunGrows
<1> QED
  BY <1>1, <1>2, RestGrows DEF Step, BatchStep

\* Which process moves in a step of a call.
LEMMA CallerMoves ==
  ASSUME TypeOK, NEW k \in Callers, CallerStep(k)
  PROVE  /\ UNCHANGED <<batch, worker, run>>
         /\ \A j \in Callers \ {k} : caller'[j] = caller[j]
         /\ caller'[k] \in CallerRec
<1>1. \A j \in Callers \ {k} : caller'[j] = caller[j]
  BY DEF CallerStep, CallTo, PinGet, UnpinGet, LocalGet, PinPut, PinRoot, UnpinDestroy,
     UnpinRm, UnpinRefsRead, UnpinRefsPut, UnpinList, UnpinDelete, UnpinDone, LocalPut, LocalBlock,
        LocalMissing,
     LocalRefsRead, LocalRefsPut, LocalRow, LocalPinRef, LocalComplete, TypeOK, CallersOK
<1> QED
  BY <1>1, CallerStores, CallerType DEF TypeOK, CallersOK

\* Which processes move in a step of a run: it may drop the batch and end closures.
LEMMA RunMoves ==
  ASSUME TypeOK, NEW d \in Cids, RunStep(d)
  PROVE  /\ UNCHANGED <<caller, pins, heliaPins>>
         /\ \A c \in Cids \ {d} : run'[c] = run[c]
         /\ batch' \in {batch, NoBatch}
         /\ \A w \in Workers : /\ worker'[w].pin \in {worker[w].pin, None}
                               /\ worker'[w].pc \in {"pinref", "complete"} => worker'[w] = worker[w]
<1>1. \A c \in Cids \ {d} : run'[c] = run[c]
  BY DEF RunStep, RunTo, RunQuery, RunAborted, RunRefsRead, RunRecorded, RunLinked, RunDone,
     RunFetched, RunRefsPut, RunRecord, RunLink, RunClear, TypeOK, RunsOK
<1>2. CASE RunAborted(d) \/ RunDone(d)
  BY <1>1, <1>2, RunStores DEF RunAborted, RunDone, TypeOK, WorkersOK, WorkerRec, NoWorker
<1>3. CASE \/ RunQuery(d) \/ RunRefsRead(d) \/ RunRecorded(d) \/ RunLinked(d)
           \/ RunFetched(d) \/ RunRefsPut(d) \/ RunRecord(d) \/ RunLink(d) \/ RunClear(d)
  <2>1. UNCHANGED <<batch, worker>>
    BY <1>3 DEF RunQuery, RunRefsRead, RunRecorded, RunLinked, RunFetched, RunRefsPut,
       RunRecord, RunLink, RunClear
  <2> QED
    BY <1>1, <2>1, RunStores
<1> QED
  BY <1>2, <1>3 DEF RunStep

\* A call queues the root of its pin only, and walks nothing.
LEMMA CallerDown ==
  ASSUME TypeOK, NEW k \in Callers, CallerStep(k), NEW p, NEW c,
         <<p, c>> \in downloads', <<p, c>> \notin downloads
  PROVE  caller[k].pc = "pin.root" /\ caller[k].pin = p /\ c = p
<1>1. CASE \E s \in Pins : PinGet(k, s) \/ UnpinGet(k, s) \/ LocalGet(k, s)
  BY <1>1 DEF PinGet, UnpinGet, LocalGet, stores
<1>2. CASE PinRoot(k)
  BY <1>2 DEF PinRoot
<1>3. CASE UnpinDelete(k)
  BY <1>3 DEF UnpinDelete
<1>4. CASE \/ UnpinDestroy(k) \/ UnpinRm(k) \/ UnpinRefsRead(k) \/ UnpinRefsPut(k) \/ UnpinList(k)
                \/ UnpinDone(k) \/ PinPut(k)
           \/ LocalPut(k) \/ LocalBlock(k) \/ LocalMissing(k) \/ LocalRefsRead(k)
           \/ LocalRefsPut(k) \/ LocalRow(k) \/ LocalPinRef(k) \/ LocalComplete(k)
  BY <1>4 DEF UnpinDestroy, UnpinRm, UnpinRefsRead, UnpinRefsPut, UnpinList, UnpinDone, PinPut,
     LocalPut, LocalBlock,
     LocalMissing, LocalRefsRead, LocalRefsPut, LocalRow, LocalPinRef, LocalComplete, stores
<1> QED
  BY <1>1, <1>2, <1>3, <1>4 DEF CallerStep

\* A run queues the links of its block, for the pins of its snapshot.
LEMMA RunDown ==
  ASSUME TypeOK, RunShape, NEW d \in Cids, RunStep(d), NEW p, NEW c,
         <<p, c>> \in downloads', <<p, c>> \notin downloads
  PROVE  run[d].pc = "links" /\ p \in run[d].snap /\ c \in Links[d]
<1>1. RunLink(d)
  BY DEF RunStep, RunQuery, RunAborted, RunRefsRead, RunRecorded, RunLinked, RunDone,
     RunFetched, RunRefsPut, RunRecord, RunClear, stores
<1> QED
  BY <1>1 DEF RunLink, RunShape

\* A run walks its own block, in its last phase.
LEMMA RunWalk ==
  ASSUME TypeOK, RunShape, NEW d \in Cids, RunStep(d), NEW p, NEW c,
         <<p, c>> \in walked', <<p, c>> \notin walked
  PROVE  run[d].pc = "clear" /\ p \in run[d].snap /\ c = d /\ <<p, c>> \in run[d].todo
<1>1. RunClear(d)
  BY DEF RunStep, RunQuery, RunAborted, RunRefsRead, RunRecorded, RunLinked, RunDone,
     RunFetched, RunRefsPut, RunRecord, RunLink
<1> QED
  BY <1>1 DEF RunClear, RunShape

\* Starting a closure starts a run or joins one, and changes nothing else of it.
LEMMA InvokeMoves ==
  ASSUME TypeOK, NEW w \in Workers, NEW d \in Cids, Invoke(w, d)
  PROVE  /\ \A c \in Cids :
              /\ run'[c].snap = run[c].snap /\ run'[c].todo = run[c].todo
              /\ run'[c].pc = run[c].pc \/ (run[c].pc = "idle" /\ run'[c].pc = "query")
         /\ \A v \in Workers \ {w} : worker'[v] = worker[v]
         /\ worker'[w].pc = "run" /\ worker'[w].pin = batch.pin
         /\ batch' = NoBatch \/ (batch'.pin = batch.pin /\ batch'.pc = batch.pc)
         /\ batch.pin \in Pins /\ batch.pc = "yield"
<1>1. /\ batch.pin \in Pins /\ batch.pc = "yield"
      /\ batch' = NoBatch \/ (batch'.pin = batch.pin /\ batch'.pc = batch.pc)
  BY NoneAssumption DEF Invoke, TypeOK, BatchOK, BatchRec
<1>2. /\ \A v \in Workers \ {w} : worker'[v] = worker[v]
      /\ worker'[w].pc = "run" /\ worker'[w].pin = batch.pin
  BY DEF Invoke, WorkTo, TypeOK, WorkersOK
<1>3. \A c \in Cids :
              /\ run'[c].snap = run[c].snap /\ run'[c].todo = run[c].todo
              /\ run'[c].pc = run[c].pc \/ (run[c].pc = "idle" /\ run'[c].pc = "query")
  BY DEF Invoke, RunTo, TypeOK, RunsOK, RunRec
<1> QED
  BY <1>1, <1>2, <1>3
\* What each step of a run does to the run itself.
LEMMA RunNext ==
  ASSUME TypeOK, NEW d \in Cids
  PROVE
    /\ RunQuery(d) => /\ run'[d].pc = "fetch" /\ run'[d].todo = run[d].todo
                      /\ run'[d].snap = {p \in Pins : <<p, d>> \in downloads}
    /\ RunFetched(d) => /\ run'[d].pc = "refs"
                        /\ run'[d].snap = run[d].snap /\ run'[d].todo = run[d].todo
    /\ RunAborted(d) \/ RunDone(d) => run'[d] = NoRun
    /\ RunRefsRead(d) => /\ run'[d].pc = "refput"
                         /\ run'[d].snap = run[d].snap /\ run'[d].todo = run[d].todo
    /\ RunRefsPut(d) => /\ run'[d].pc = "record"
                        /\ run'[d].snap = run[d].snap /\ run'[d].todo = run[d].snap \X {d}
    /\ RunRecorded(d) => /\ run'[d].pc = "links"
                         /\ run'[d].snap = run[d].snap /\ run'[d].todo = run[d].snap \X Links[d]
    /\ RunLinked(d) => /\ run'[d].pc = "clear"
                       /\ run'[d].snap = run[d].snap /\ run'[d].todo = run[d].snap \X {d}
<1>0. run[d] \in RunRec
  BY DEF TypeOK, RunsOK
<1>1. \A rec : RunTo(d, rec) => run'[d] = rec
  BY DEF RunTo, TypeOK, RunsOK
<1> USE <1>0, <1>1 DEF RunRec
<1>2. ASSUME RunQuery(d)
      PROVE  /\ run'[d].pc = "fetch" /\ run'[d].todo = run[d].todo
             /\ run'[d].snap = {p \in Pins : <<p, d>> \in downloads}
  <2> DEFINE s == {p \in Pins : <<p, d>> \in downloads}
  <2>1. run'[d] = [run[d] EXCEPT !.pc = "fetch", !.snap = s]
    BY <1>2 DEF RunQuery
  <2> HIDE DEF s
  <2>2. run'[d].pc = "fetch" /\ run'[d].todo = run[d].todo /\ run'[d].snap = s
    BY <2>1
  <2> QED
    BY <2>2 DEF s
<1>3. ASSUME RunFetched(d)
      PROVE  run'[d].pc = "refs" /\ run'[d].snap = run[d].snap /\ run'[d].todo = run[d].todo
  <2>1. run'[d] = [run[d] EXCEPT !.pc = "refs"]
    BY <1>3 DEF RunFetched
  <2> QED
    BY <2>1
<1>4. RunAborted(d) \/ RunDone(d) => run'[d] = NoRun
  BY DEF RunAborted, RunDone
<1>5. ASSUME RunRefsRead(d)
      PROVE  run'[d].pc = "refput" /\ run'[d].snap = run[d].snap /\ run'[d].todo = run[d].todo
  <2> DEFINE s == RefsOn(d)
  <2>1. run'[d] = [run[d] EXCEPT !.pc = "refput", !.seen = s]
    BY <1>5 DEF RunRefsRead
  <2> HIDE DEF s
  <2> QED
    BY <2>1
<1>6. ASSUME RunRefsPut(d)
      PROVE  /\ run'[d].pc = "record"
             /\ run'[d].snap = run[d].snap /\ run'[d].todo = run[d].snap \X {d}
  <2> DEFINE t == run[d].snap \X {d}
  <2>1. run'[d] = [run[d] EXCEPT !.pc = "record", !.seen = {}, !.todo = t]
    BY <1>6 DEF RunRefsPut
  <2> HIDE DEF t
  <2>2. run'[d].pc = "record" /\ run'[d].snap = run[d].snap /\ run'[d].todo = t
    BY <2>1
  <2> QED
    BY <2>2 DEF t
<1>7. ASSUME RunRecorded(d)
      PROVE  /\ run'[d].pc = "links"
             /\ run'[d].snap = run[d].snap /\ run'[d].todo = run[d].snap \X Links[d]
  <2> DEFINE t == run[d].snap \X Links[d]
  <2>1. run'[d] = [run[d] EXCEPT !.pc = "links", !.todo = t]
    BY <1>7 DEF RunRecorded
  <2> HIDE DEF t
  <2>2. run'[d].pc = "links" /\ run'[d].snap = run[d].snap /\ run'[d].todo = t
    BY <2>1
  <2> QED
    BY <2>2 DEF t
<1>8. ASSUME RunLinked(d)
      PROVE  /\ run'[d].pc = "clear"
             /\ run'[d].snap = run[d].snap /\ run'[d].todo = run[d].snap \X {d}
  <2> DEFINE t == run[d].snap \X {d}
  <2>1. run'[d] = [run[d] EXCEPT !.pc = "clear", !.todo = t]
    BY <1>8 DEF RunLinked
  <2> HIDE DEF t
  <2>2. run'[d].pc = "clear" /\ run'[d].snap = run[d].snap /\ run'[d].todo = t
    BY <2>1
  <2> QED
    BY <2>2 DEF t
<1> QED
  BY <1>2, <1>3, <1>4, <1>5, <1>6, <1>7, <1>8

\* A step that completes one write of a run takes it off the list.
LEMMA RunPop ==
  ASSUME TypeOK, NEW d \in Cids, NEW r, RunTo(d, [run[d] EXCEPT !.todo = @ \ {r}])
  PROVE  /\ run'[d].pc = run[d].pc /\ run'[d].snap = run[d].snap
         /\ run'[d].todo = run[d].todo \ {r}
<1>1. run[d] \in RunRec /\ run'[d] = [run[d] EXCEPT !.todo = @ \ {r}]
  BY DEF RunTo, TypeOK, RunsOK
<1> QED
  BY <1>1 DEF RunRec

\* What each step of pin and unpin does to the call itself.
LEMMA PinNext ==
  ASSUME TypeOK, NEW k \in Callers
  PROVE
    /\ \A p \in Pins : PinGet(k, p) => caller'[k].pc = "pin.put" /\ caller'[k].pin = p
    /\ PinPut(k) => caller'[k].pc = "pin.root" /\ caller'[k].pin = caller[k].pin
    /\ \A p \in Pins : UnpinGet(k, p) =>
         /\ caller'[k].pin = p
         /\ \/ caller'[k].pc = "unpin.rm" /\ pins[p] = "NOTFOUND"
            \/ caller'[k].pc = "unpin.destroy"
    /\ UnpinDestroy(k) => caller'[k].pc = "unpin.rm" /\ caller'[k].pin = caller[k].pin
    /\ UnpinRm(k) \/ UnpinRefsPut(k) =>
         caller'[k].pc = "unpin.release" /\ caller'[k].pin = caller[k].pin
    /\ UnpinRefsRead(k) => caller'[k].pc = "unpin.refput" /\ caller'[k].pin = caller[k].pin
    /\ UnpinList(k) =>
         /\ caller'[k].pc = "unpin.delete" /\ caller'[k].pin = caller[k].pin
         /\ \A c \in Cids :
              /\ <<caller[k].pin, c>> \in downloads => <<"downloads", c>> \in caller'[k].todo
              /\ <<caller[k].pin, c>> \in blocks => <<"blocks", c>> \in caller'[k].todo
    /\ PinRoot(k) \/ UnpinDone(k) \/ LocalMissing(k) \/ LocalComplete(k) => caller'[k] = NoCall
<1>0. caller[k] \in CallerRec
  BY DEF TypeOK, CallersOK
<1>1. \A rec : CallTo(k, rec) => caller'[k] = rec
  BY DEF CallTo, TypeOK, CallersOK
<1> USE <1>0, <1>1 DEF CallerRec
<1>2. ASSUME NEW p \in Pins, PinGet(k, p) PROVE caller'[k].pc = "pin.put" /\ caller'[k].pin = p
  BY <1>2 DEF PinGet, NoCall
<1>3. ASSUME NEW q, CallTo(k, [caller[k] EXCEPT !.pc = q])
      PROVE  caller'[k].pc = q /\ caller'[k].pin = caller[k].pin
  BY <1>3
<1>4. ASSUME NEW p \in Pins, UnpinGet(k, p)
      PROVE  /\ caller'[k].pin = p
             /\ \/ caller'[k].pc = "unpin.rm" /\ pins[p] = "NOTFOUND"
                \/ caller'[k].pc = "unpin.destroy"
  BY <1>4 DEF UnpinGet, NoCall
<1>5. ASSUME UnpinList(k)
      PROVE  /\ caller'[k].pc = "unpin.delete" /\ caller'[k].pin = caller[k].pin
             /\ \A c \in Cids :
                  /\ <<caller[k].pin, c>> \in downloads => <<"downloads", c>> \in caller'[k].todo
                  /\ <<caller[k].pin, c>> \in blocks => <<"blocks", c>> \in caller'[k].todo
  <2> DEFINE p == caller[k].pin
             t == {<<"pins", p>>} \cup ({"downloads"} \X Rows(downloads, p))
                                  \cup ({"blocks"} \X Rows(blocks, p))
  <2>1. caller'[k] = [caller[k] EXCEPT !.pc = "unpin.delete", !.todo = t]
    BY <1>5 DEF UnpinList
  <2>2. \A c \in Cids : /\ <<p, c>> \in downloads => <<"downloads", c>> \in t
                        /\ <<p, c>> \in blocks => <<"blocks", c>> \in t
    BY DEF Rows
  <2> HIDE DEF t
  <2> QED
    BY <2>1, <2>2
<1> QED
  BY <1>2, <1>3, <1>4, <1>5 DEF PinPut, PinRoot, UnpinDestroy, UnpinRm, UnpinRefsRead, UnpinRefsPut,
     UnpinDone, LocalMissing,
     LocalComplete

\* What completing one delete does to an unpin.
LEMMA UnpinPop ==
  ASSUME TypeOK, NEW k \in Callers, NEW x, CallTo(k, [caller[k] EXCEPT !.todo = @ \ {x}])
  PROVE  /\ caller'[k].pc = caller[k].pc /\ caller'[k].pin = caller[k].pin
         /\ caller'[k].todo = caller[k].todo \ {x}
<1>1. caller[k] \in CallerRec /\ caller'[k] = [caller[k] EXCEPT !.todo = @ \ {x}]
  BY DEF CallTo, TypeOK, CallersOK
<1> QED
  BY <1>1 DEF CallerRec

\* What each step of pinLocal does to the call itself.
LEMMA LocalNext ==
  ASSUME TypeOK, NEW k \in Callers
  PROVE
    /\ \A p \in Pins : LocalGet(k, p) =>
         /\ caller'[k].pin = p /\ caller'[k].todo = {<<"walk", p>>}
         /\ caller'[k].cid = None /\ caller'[k].visited = {}
         /\ \/ caller'[k].pc = "local.put"
            \/ caller'[k].pc = "local.walk" /\ pins[p] # "NOTFOUND"
    /\ LocalPut(k) => /\ caller'[k].pc = "local.walk" /\ caller'[k].pin = caller[k].pin
                      /\ caller'[k].todo = caller[k].todo /\ caller'[k].cid = caller[k].cid
                      /\ caller'[k].visited = caller[k].visited
    /\ LocalBlock(k) =>
         \E c \in blockstore :
           /\ <<"walk", c>> \in caller[k].todo
           /\ caller'[k].pc = "local.refs" /\ caller'[k].pin = caller[k].pin
           /\ caller'[k].cid = c /\ caller'[k].visited = caller[k].visited
           /\ caller'[k].todo = (caller[k].todo \ {<<"walk", c>>}) \cup ({"walk"} \X Links[c])
    /\ LocalRefsRead(k) => /\ caller'[k].pc = "local.refput" /\ caller'[k].pin = caller[k].pin
                           /\ caller'[k].todo = caller[k].todo /\ caller'[k].cid = caller[k].cid
                           /\ caller'[k].visited = caller[k].visited
    /\ LocalRefsPut(k) => /\ caller'[k].pc = "local.row" /\ caller'[k].pin = caller[k].pin
                          /\ caller'[k].todo = caller[k].todo /\ caller'[k].cid = caller[k].cid
                          /\ caller'[k].visited = caller[k].visited
    /\ LocalRow(k) => /\ caller'[k].pc = "local.walk" /\ caller'[k].pin = caller[k].pin
                      /\ caller'[k].todo = caller[k].todo /\ caller'[k].cid = None
                      /\ caller'[k].visited = caller[k].visited \cup {caller[k].cid}
    /\ LocalPinRef(k) => caller'[k].pc = "local.complete" /\ caller'[k].pin = caller[k].pin
<1>0. caller[k] \in CallerRec
  BY DEF TypeOK, CallersOK
<1>1. \A rec : CallTo(k, rec) => caller'[k] = rec
  BY DEF CallTo, TypeOK, CallersOK
<1> USE <1>0, <1>1 DEF CallerRec
<1>2. ASSUME NEW p \in Pins, LocalGet(k, p)
      PROVE  /\ caller'[k].pin = p /\ caller'[k].todo = {<<"walk", p>>}
             /\ caller'[k].cid = None /\ caller'[k].visited = {}
             /\ \/ caller'[k].pc = "local.put"
                \/ caller'[k].pc = "local.walk" /\ pins[p] # "NOTFOUND"
  <2> DEFINE t == {<<"walk", p>>}
  <2>1. caller'[k] = [NoCall EXCEPT !.pin = p, !.todo = t,
       !.pc = IF pins[p] = "NOTFOUND" THEN "local.put" ELSE "local.walk"]
    BY <1>2 DEF LocalGet
  <2> HIDE DEF t
  <2>2. /\ caller'[k].pin = p /\ caller'[k].todo = t
        /\ caller'[k].cid = None /\ caller'[k].visited = {}
        /\ \/ caller'[k].pc = "local.put"
           \/ caller'[k].pc = "local.walk" /\ pins[p] # "NOTFOUND"
    BY <2>1 DEF NoCall
  <2> QED
    BY <2>2 DEF t
<1>3. ASSUME NEW q, CallTo(k, [caller[k] EXCEPT !.pc = q])
      PROVE  /\ caller'[k].pc = q /\ caller'[k].pin = caller[k].pin
             /\ caller'[k].todo = caller[k].todo /\ caller'[k].cid = caller[k].cid
             /\ caller'[k].visited = caller[k].visited
  BY <1>3
<1>4. ASSUME NEW q, NEW s, CallTo(k, [caller[k] EXCEPT !.pc = q, !.seen = s])
      PROVE  /\ caller'[k].pc = q /\ caller'[k].pin = caller[k].pin
             /\ caller'[k].todo = caller[k].todo /\ caller'[k].cid = caller[k].cid
             /\ caller'[k].visited = caller[k].visited
  BY <1>4
<1>5. ASSUME LocalBlock(k)
      PROVE  \E c \in blockstore :
               /\ <<"walk", c>> \in caller[k].todo
               /\ caller'[k].pc = "local.refs" /\ caller'[k].pin = caller[k].pin
               /\ caller'[k].cid = c /\ caller'[k].visited = caller[k].visited
               /\ caller'[k].todo = (caller[k].todo \ {<<"walk", c>>}) \cup ({"walk"} \X Links[c])
  <2>1. PICK c \in blockstore : <<"walk", c>> \in caller[k].todo
          /\ caller'[k] = [caller[k] EXCEPT !.pc = "local.refs", !.cid = c,
               !.todo = (@ \ {<<"walk", c>>}) \cup ({"walk"} \X Links[c])]
    BY <1>5 DEF LocalBlock
  <2> DEFINE t == (caller[k].todo \ {<<"walk", c>>}) \cup ({"walk"} \X Links[c])
  <2>2. caller'[k] = [caller[k] EXCEPT !.pc = "local.refs", !.cid = c, !.todo = t]
    BY <2>1
  <2> HIDE DEF t
  <2>3. /\ caller'[k].pc = "local.refs" /\ caller'[k].pin = caller[k].pin
        /\ caller'[k].cid = c /\ caller'[k].visited = caller[k].visited
        /\ caller'[k].todo = t
    BY <2>2
  <2> QED
    BY <2>1, <2>3 DEF t
<1>6. ASSUME LocalRow(k)
      PROVE  /\ caller'[k].pc = "local.walk" /\ caller'[k].pin = caller[k].pin
             /\ caller'[k].todo = caller[k].todo /\ caller'[k].cid = None
             /\ caller'[k].visited = caller[k].visited \cup {caller[k].cid}
  <2> DEFINE v == caller[k].visited \cup {caller[k].cid}
  <2>1. caller'[k] = [caller[k] EXCEPT !.pc = "local.walk", !.cid = None, !.visited = v]
    BY <1>6 DEF LocalRow
  <2> HIDE DEF v
  <2>2. /\ caller'[k].pc = "local.walk" /\ caller'[k].pin = caller[k].pin
        /\ caller'[k].todo = caller[k].todo /\ caller'[k].cid = None
        /\ caller'[k].visited = v
    BY <2>1
  <2> QED
    BY <2>2 DEF v
<1>7. LocalPut(k) => CallTo(k, [caller[k] EXCEPT !.pc = "local.walk"])
  BY DEF LocalPut
<1>8. LocalPinRef(k) => CallTo(k, [caller[k] EXCEPT !.pc = "local.complete"])
  BY DEF LocalPinRef
<1>9. LocalRefsRead(k) =>
        CallTo(k, [caller[k] EXCEPT !.pc = "local.refput", !.seen = RefsOn(caller[k].cid)])
  BY DEF LocalRefsRead
<1>10. LocalRefsPut(k) => CallTo(k, [caller[k] EXCEPT !.pc = "local.row", !.seen = {}])
  BY DEF LocalRefsPut
<1> HIDE <1>0, <1>1 DEF CallerRec
<1> QED
  BY <1>2, <1>3, <1>4, <1>5, <1>6, <1>7, <1>8, <1>9, <1>10

\* An unpin in progress takes one of its own steps.
LEMMA UnpinSteps ==
  ASSUME NEW k \in Callers, CallerStep(k), caller[k].pc \in UnpinPcs
  PROVE  UnpinDestroy(k) \/ UnpinRm(k) \/ UnpinRefsRead(k) \/ UnpinRefsPut(k) \/ UnpinList(k)
           \/ UnpinDelete(k) \/ UnpinDone(k)
<1>1. ASSUME NEW q \in Pins PROVE ~(PinGet(k, q) \/ UnpinGet(k, q) \/ LocalGet(k, q))
  BY DEF PinGet, UnpinGet, LocalGet, UnpinPcs
<1>2. ~(\/ PinPut(k) \/ PinRoot(k) \/ LocalPut(k) \/ LocalBlock(k) \/ LocalMissing(k)
        \/ LocalRefsRead(k) \/ LocalRefsPut(k) \/ LocalRow(k) \/ LocalPinRef(k)
        \/ LocalComplete(k))
  BY DEF PinPut, PinRoot, LocalPut, LocalBlock, LocalMissing, LocalRefsRead,
     LocalRefsPut, LocalRow, LocalPinRef, LocalComplete, UnpinPcs
<1> QED
  BY <1>1, <1>2 DEF CallerStep

\* Only the query of a run adds pins to those it serves.
LEMMA RunSnap ==
  ASSUME TypeOK, NEW d \in Cids, RunStep(d), ~RunQuery(d)
  PROVE  run'[d].snap \subseteq run[d].snap
<1>1. CASE RunRecord(d) \/ RunLink(d) \/ RunClear(d)
  BY <1>1, RunPop DEF RunRecord, RunLink, RunClear
<1>2. CASE RunAborted(d) \/ RunDone(d)
  BY <1>2, RunNext DEF NoRun
<1>3. CASE RunFetched(d) \/ RunRefsRead(d) \/ RunRefsPut(d) \/ RunRecorded(d) \/ RunLinked(d)
  BY <1>3, RunNext
<1> QED
  BY <1>1, <1>2, <1>3 DEF RunStep

\* Which process moves at the end of a closure.
LEMMA WorkerMoves ==
  ASSUME TypeOK, NEW w \in Workers, WorkerStep(w)
  PROVE  /\ UNCHANGED <<caller, batch, run>>
         /\ \A v \in Workers \ {w} : worker'[v] = worker[v]
         /\ worker'[w].pin \in {worker[w].pin, None}
         /\ \A p \in Pins : pins'[p] \in {pins[p], "COMPLETED"}
<1>0. worker[w] \in WorkerRec /\ \A rec : WorkTo(w, rec) => worker'[w] = rec
  BY DEF TypeOK, WorkersOK, WorkTo
<1>1. \A v \in Workers \ {w} : worker'[v] = worker[v]
  BY DEF WorkerStep, CheckHeads, AddPinRef, Complete, WorkTo, TypeOK, WorkersOK
<1>2. worker'[w].pin \in {worker[w].pin, None}
  BY <1>0 DEF WorkerStep, CheckHeads, AddPinRef, Complete, WorkerRec, NoWorker
<1>3. UNCHANGED <<caller, batch, run>>
  BY DEF WorkerStep, CheckHeads, AddPinRef, Complete
<1>4. \A p \in Pins : pins'[p] \in {pins[p], "COMPLETED"}
  BY DEF WorkerStep, CheckHeads, AddPinRef, Complete, TypeOK, StoresOK, stores
<1> QED
  BY <1>1, <1>2, <1>3, <1>4

\* What listing the heads of a pin does to the batch.
LEMMA BatchMoves ==
  ASSUME TypeOK, BatchStep
  PROVE  /\ UNCHANGED <<stores, caller, worker, run, walked>>
         /\ batch'.pc = "yield" =>
              batch'.pin = batch.pin /\ \E c \in Cids : <<batch.pin, c>> \in downloads
         /\ batch'.pin # None => /\ batch'.pin = batch.pin \/ pins[batch'.pin] # "NOTFOUND"
                                 /\ batch'.pin \in Pins
<1>1. ASSUME NEW p \in Pins, HeadsOpen(p)
      PROVE  /\ UNCHANGED <<stores, caller, worker, run, walked>>
             /\ batch'.pc = "list" /\ batch'.pin = p /\ pins[p] # "NOTFOUND"
  BY <1>1 DEF HeadsOpen
<1>2. ASSUME HeadsList
      PROVE  /\ UNCHANGED <<stores, caller, worker, run, walked>>
             /\ batch' = NoBatch \/
                 (/\ batch'.pc = "yield" /\ batch'.pin = batch.pin /\ batch.pin \in Pins
                  /\ \E c \in Cids : <<batch.pin, c>> \in downloads)
  <2>1. batch \in BatchRec /\ batch.pc = "list" /\ batch.pin \in Pins
    BY <1>2 DEF HeadsList, TypeOK, BatchOK, BatchRec
  <2>2. PICK free \in SUBSET Rows(downloads, batch.pin) :
          batch' = IF free = {} THEN NoBatch
                   ELSE [batch EXCEPT !.pc = "yield", !.queue = free]
    BY <1>2 DEF HeadsList
  <2>3. CASE free = {}
    BY <1>2, <2>2, <2>3 DEF HeadsList
  <2>4. CASE free # {}
    <3>1. batch'.pc = "yield" /\ batch'.pin = batch.pin
      BY <2>1, <2>2, <2>4 DEF BatchRec
    <3>2. \E c \in Cids : <<batch.pin, c>> \in downloads
      BY <2>2, <2>4 DEF Rows
    <3> QED
      BY <1>2, <2>1, <3>1, <3>2 DEF HeadsList
  <2> QED
    BY <2>3, <2>4
<1> QED
  BY <1>1, <1>2 DEF BatchStep, NoBatch

-----------------------------------------------------------------------------
(* One lemma per part of the invariant. *)

\* Races are remembered.
LEMMA RacesKept == ASSUME Step, Racing PROVE RacesSeen'
  BY DEF RacesSeen, Racing

\* Rows stay inside the DAG of their pin: only a root and links of blocks inside are added.
LEMMA RowsKept ==
  ASSUME TypeOK, RunShape, RowsBelow, Step PROVE RowsBelow'
<1> USE PinsAssumption
<1>1. ASSUME NEW k \in Callers, CallerStep(k) PROVE RowsBelow'
  BY <1>1, CallerDown, CallerMoves, DagRoot DEF RowsBelow
<1>2. ASSUME NEW d \in Cids, RunStep(d) PROVE RowsBelow'
  <2>1. ASSUME NEW p \in Pins, NEW c \in Cids, <<p, c>> \in downloads' PROVE c \in Dag[p]
    <3>1. CASE <<p, c>> \in downloads
      BY <3>1 DEF RowsBelow
    <3>2. CASE <<p, c>> \notin downloads
      <4>1. p \in run[d].snap /\ c \in Links[d]
        BY <1>2, <2>1, <3>2, RunDown
      <4>2. d \in Dag[p]
        BY <4>1 DEF RowsBelow
      <4> QED
        BY <4>1, <4>2, DagLinks
    <3> QED
      BY <3>1, <3>2
  <2>2. ASSUME NEW p \in run'[d].snap PROVE d \in Dag[p]
    <3>1. CASE RunQuery(d)
      BY <2>2, <3>1, RunNext, ZenonT(30) DEF RowsBelow
    <3>2. CASE RunAborted(d) \/ RunDone(d)
      BY <2>2, <3>2, RunNext DEF NoRun
    <3>3. CASE \/ RunRefsRead(d) \/ RunRecorded(d) \/ RunLinked(d) \/ RunFetched(d)
               \/ RunRefsPut(d)
      <4>1. run'[d].snap = run[d].snap
        BY <3>3, RunNext
      <4> QED
        BY <2>2, <4>1 DEF RowsBelow
    <3>4. CASE RunRecord(d) \/ RunLink(d) \/ RunClear(d)
      BY <2>2, <3>4, RunPop DEF RowsBelow, RunRecord, RunLink, RunClear
    <3> QED
      BY <1>2, <3>1, <3>2, <3>3, <3>4 DEF RunStep
  <2> QED
    BY <1>2, <2>1, <2>2, RunMoves DEF RowsBelow
<1>3. ASSUME BatchStep \/ \E w \in Workers : WorkerStep(w) PROVE RowsBelow'
  <2>1. UNCHANGED run
    BY <1>3 DEF BatchStep, HeadsOpen, HeadsList, WorkerStep, CheckHeads, AddPinRef, Complete
  <2>2. UNCHANGED downloads
    BY <1>3, RestType DEF BatchStep
  <2> QED
    BY <2>1, <2>2 DEF RowsBelow
<1>4. ASSUME NEW w \in Workers, NEW d \in Cids, Invoke(w, d) PROVE RowsBelow'
  BY <1>4, InvokeMoves, RestType DEF RowsBelow
<1> QED
  BY <1>1, <1>2, <1>3, <1>4 DEF Step, BatchStep

\* A step that starts or joins a run, or leaves all runs alone, keeps their shape.
LEMMA ShapeKept ==
  ASSUME TypeOK, RunShape, Step PROVE RunShape'
<1>1. ASSUME NEW k \in Callers, CallerStep(k) PROVE RunShape'
  BY <1>1, CallerMoves DEF RunShape
<1>2. ASSUME NEW d \in Cids, RunStep(d) PROVE RunShape'
  <2> DEFINE Shape(c) ==
       /\ run[c].pc \in {"idle", "query"} => run[c].snap = {}
       /\ run[c].pc \in {"idle", "query", "fetch", "refs", "refput"} => run[c].todo = {}
       /\ run[c].pc \in {"record", "clear"} => run[c].todo \subseteq run[c].snap \X {c}
       /\ run[c].pc = "links" => run[c].todo \subseteq run[c].snap \X Links[c]
  <2>1. Shape(d)
    BY DEF RunShape
  <2>2. SUFFICES Shape(d)'
    BY <1>2, RunMoves DEF RunShape
  <2>3. CASE RunQuery(d)
    BY <2>1, <2>3, RunNext DEF RunQuery
  <2>4. CASE RunFetched(d) \/ RunRefsRead(d)
    BY <2>1, <2>4, RunNext DEF RunFetched, RunRefsRead
  <2>5. CASE RunAborted(d) \/ RunDone(d)
    BY <2>5, RunNext DEF NoRun
  <2>6. CASE RunRefsPut(d)
    BY <2>6, RunNext
  <2>7. CASE RunRecorded(d)
    BY <2>7, RunNext
  <2>8. CASE RunLinked(d)
    BY <2>8, RunNext
  <2>10. CASE RunRecord(d) \/ RunLink(d) \/ RunClear(d)
    BY <2>1, <2>10, RunPop DEF RunRecord, RunLink, RunClear
  <2> QED
    BY <1>2, <2>3, <2>4, <2>5, <2>6, <2>7, <2>8, <2>10 DEF RunStep
<1>3. ASSUME BatchStep \/ \E w \in Workers : WorkerStep(w) PROVE RunShape'
  <2>1. UNCHANGED run
    BY <1>3 DEF BatchStep, HeadsOpen, HeadsList, WorkerStep, CheckHeads, AddPinRef, Complete
  <2> QED
    BY <2>1 DEF RunShape
<1>4. ASSUME NEW w \in Workers, NEW d \in Cids, Invoke(w, d) PROVE RunShape'
  BY <1>4, InvokeMoves DEF RunShape
<1> QED
  BY <1>1, <1>2, <1>3, <1>4 DEF Step, BatchStep

\* What a run has done stays done while others work.
LEMMA ServesStay ==
  ASSUME NEW c \in Cids, NEW p \in Pins, Serves(c, p), Grows(p), Links[c] \subseteq Cids,
         <<p, c>> \in downloads => <<p, c>> \in downloads',
         run'[c].pc = run[c].pc, run'[c].todo = run[c].todo
  PROVE  Serves(c, p)'
  BY DEF Serves, Grows, Covered

\* A row that the swapped lookup finds is the row itself: no block is below itself.
LEMMA LinkCovered ==
  ASSUME RowsBelow, NEW d \in Cids, NEW p \in run[d].snap, p \in Pins, NEW l \in Links[d],
         <<l, p>> \in downloads, TypeOK
  PROVE  <<p, l>> \in downloads
<1> USE PinsAssumption
<1>1. d \in Dag[p] /\ l \in Cids
  BY LinksAssumption DEF RowsBelow
<1>2. l \in Dag[p]
  BY <1>1, DagLinks
<1>3. l \in Pins
  BY DEF TypeOK, StoresOK
<1>4. p \in Dag[l]
  BY <1>3 DEF RowsBelow
<1> QED
  BY <1>1, <1>2, <1>4, AcyclicAssumption

\* A run keeps track of what it has done for the pins it serves.
LEMMA RunKept ==
  ASSUME TypeOK, TypeOK', RunShape, RacesSeen, RowsBelow, RunProgress, Step, Racing
  PROVE  RunProgress'
<1> SUFFICES ASSUME NEW c \in Cids, NEW p \in run'[c].snap \ raced' PROVE Serves(c, p)'
  BY DEF RunProgress
<1>1. p \in Pins \ raced /\ Links[c] \subseteq Cids
  BY NoRaceNext, LinksAssumption DEF TypeOK, RunsOK, RunRec
<1>2. ASSUME p \in run[c].snap PROVE Serves(c, p) /\ ~Unpinning(p)
  BY <1>1, <1>2, NoRace DEF RunProgress, Downloading
<1>3. ASSUME NEW k \in Callers, CallerStep(k) PROVE Serves(c, p)'
  <2>1. UNCHANGED run /\ p \in run[c].snap
    BY <1>3, CallerMoves
  <2>2. Grows(p) /\ (<<p, c>> \in downloads => <<p, c>> \in downloads')
    <3>1. CASE caller[k].pin = p
      BY <1>1, <1>2, <1>3, <2>1, <3>1, CallerGrows DEF Unpinning
    <3>2. CASE caller[k].pin # p
      BY <1>1, <1>3, <3>2, CallerSame DEF Same, Grows, Covered
    <3> QED
      BY <3>1, <3>2
  <2> QED
    BY <1>1, <1>2, <2>1, <2>2, ServesStay
<1>4. ASSUME NEW d \in Cids, RunStep(d), d # c PROVE Serves(c, p)'
  BY <1>1, <1>2, <1>4, RunMoves, RunGrows, ServesStay
<1>5. ASSUME RunStep(c) PROVE Serves(c, p)'
  <2>0. Grows(p)
    BY <1>1, <1>5, RunGrows
  <2>1. CASE RunQuery(c)
    BY <2>1, RunNext DEF RunQuery, Serves, RunShape, stores
  <2>2. CASE RunFetched(c)
    BY <1>2, <2>2, RunNext DEF RunFetched, Serves, RunShape
  <2>3. CASE RunAborted(c) \/ RunDone(c)
    BY <2>3, RunNext DEF NoRun
  <2>4. CASE RunRefsRead(c)
    BY <1>2, <2>4, RunNext DEF RunRefsRead, Serves, stores
  <2>5. CASE RunRefsPut(c)
    BY <1>2, <2>5, RunNext DEF RunRefsPut, Serves
  <2>6. CASE RunRecord(c)
    <3>1. PICK r \in run[c].todo : /\ blocks' = blocks \cup {r}
                                   /\ RunTo(c, [run[c] EXCEPT !.todo = @ \ {r}])
      BY <2>6 DEF RunRecord
    <3> QED
      BY <1>2, <2>6, <3>1, RunPop DEF RunRecord, Serves
  <2>7. CASE RunRecorded(c)
    BY <1>2, <2>7, RunNext DEF RunRecorded, Serves, stores
  <2>8. CASE RunLink(c)
    <3>1. PICK r \in run[c].todo :
            /\ downloads' = IF <<r[2], r[1]>> \in downloads THEN downloads ELSE downloads \cup {r}
            /\ RunTo(c, [run[c] EXCEPT !.todo = @ \ {r}])
      BY <2>8 DEF RunLink
    <3>2. run[c].pc = "links" /\ UNCHANGED <<blocks, blockstore>>
      BY <2>8 DEF RunLink
    <3>3. /\ p \in run[c].snap /\ run'[c].pc = "links"
          /\ run'[c].todo = run[c].todo \ {r}
      BY <3>1, <3>2, RunPop
    <3>4. ASSUME NEW l \in Links[c] PROVE Covered(p, l)' \/ <<p, l>> \in run'[c].todo
      <4>1. CASE Covered(p, l) \/ <<p, l>> \in run'[c].todo
        BY <1>1, <2>0, <4>1 DEF Grows
      <4>2. CASE r = <<p, l>>
        BY <1>1, <3>1, <3>3, <4>2, LinkCovered DEF Covered
      <4> QED
        BY <1>2, <3>2, <3>3, <4>1, <4>2 DEF Serves
    <3>5. <<p, c>> \in downloads /\ <<p, c>> \in blocks /\ c \in blockstore
      BY <1>2, <3>2, <3>3 DEF Serves
    <3> QED
      BY <3>1, <3>2, <3>3, <3>4, <3>5 DEF Serves
  <2>9. CASE RunLinked(c)
    BY <1>2, <2>9, RunNext DEF RunLinked, Serves, stores, Covered
  <2>10. CASE RunClear(c)
    <3>1. PICK r \in run[c].todo : /\ downloads' = downloads \ {r}
                                   /\ RunTo(c, [run[c] EXCEPT !.todo = @ \ {r}])
      BY <2>10 DEF RunClear
    <3>2. p \in run[c].snap /\ run'[c].pc = "clear" /\ run'[c].todo = run[c].todo \ {r}
      BY <2>10, <3>1, RunPop DEF RunClear
    <3> QED
      BY <1>1, <1>2, <2>0, <2>10, <3>1, <3>2 DEF RunClear, Serves, Grows
  <2> QED
    BY <1>5, <2>1, <2>2, <2>3, <2>4, <2>5, <2>6, <2>7, <2>8, <2>9, <2>10 DEF RunStep
<1>6. ASSUME BatchStep \/ \E w \in Workers : WorkerStep(w) PROVE Serves(c, p)'
  <2>1. UNCHANGED run
    BY <1>6 DEF BatchStep, HeadsOpen, HeadsList, WorkerStep, CheckHeads, AddPinRef, Complete
  <2> QED
    BY <1>1, <1>2, <1>6, <2>1, RestGrows, ServesStay
<1>7. ASSUME NEW w \in Workers, NEW d \in Cids, Invoke(w, d) PROVE Serves(c, p)'
  <2>1. run'[c].snap = run[c].snap /\ run'[c].todo = run[c].todo /\ run'[c].pc = run[c].pc
    BY <1>7, InvokeMoves DEF RunShape
  <2> QED
    BY <1>1, <1>2, <1>7, <2>1, RestGrows, ServesStay
<1> QED
  BY <1>3, <1>4, <1>5, <1>6, <1>7 DEF Step, BatchStep

\* A walked block passed: its run has recorded it and queued its links.
LEMMA FrontierKept ==
  ASSUME TypeOK, RunShape, RacesSeen, UnpinProgress, RunProgress, Frontier, Step, Racing
  PROVE  Frontier'
<1> SUFFICES ASSUME NEW p \in Pins \ raced', NEW c \in Cids, <<p, c>> \in walked'
             PROVE  Passed(p, c)'
  BY DEF Frontier
<1>0. p \in Pins \ raced /\ Links[c] \subseteq Cids
  BY NoRaceNext, LinksAssumption
<1>1. ASSUME Passed(p, c), Grows(p) PROVE Passed(p, c)'
  BY <1>0, <1>1 DEF Passed, Grows
<1>2. <<p, c>> \in walked => Passed(p, c)
  BY <1>0 DEF Frontier
<1>3. ASSUME NEW k \in Callers, CallerStep(k) PROVE Passed(p, c)'
  <2>0. <<p, c>> \in walked
    BY <1>3, CallerStores DEF TypeOK
  <2>1. CASE caller[k].pin # p \/ caller[k].pc \notin UnpinPcs
    BY <1>0, <1>1, <1>2, <1>3, <2>0, <2>1, CallerSame, CallerGrows DEF Same, Grows, Covered
  <2>2. CASE caller[k].pin = p /\ caller[k].pc \in UnpinPcs
    <3>1. CASE UnpinDestroy(k) \/ UnpinRm(k) \/ UnpinRefsRead(k) \/ UnpinRefsPut(k) \/ UnpinDone(k)
      BY <1>2, <2>0, <3>1 DEF UnpinDestroy, UnpinRm, UnpinRefsRead, UnpinRefsPut, UnpinDone, Passed,
         Covered, stores
    <3>2. CASE UnpinList(k)
      BY <2>2, <3>2 DEF UnpinList, RowsOf
    <3>3. CASE UnpinDelete(k)
      BY <1>0, <2>0, <2>2, <3>3 DEF UnpinDelete, UnpinProgress, Unpins
    <3> QED
      BY <1>3, <2>2, <3>1, <3>2, <3>3, UnpinSteps
  <2> QED
    BY <2>1, <2>2
<1>4. ASSUME NEW d \in Cids, RunStep(d) PROVE Passed(p, c)'
  <2>1. CASE <<p, c>> \in walked
    BY <1>0, <1>1, <1>2, <1>4, <2>1, RunGrows
  <2>2. CASE <<p, c>> \notin walked
    <3>1. run[c].pc = "clear" /\ p \in run[c].snap
      BY <1>4, <2>2, RunWalk
    <3>2. Passed(p, c)
      BY <1>0, <3>1 DEF RunProgress, Serves, Passed
    <3> QED
      BY <1>0, <1>1, <1>4, <3>2, RunGrows
  <2> QED
    BY <2>1, <2>2
<1>5. ASSUME BatchStep \/ (\E w \in Workers, d \in Cids : Invoke(w, d))
               \/ \E w \in Workers : WorkerStep(w)
      PROVE  Passed(p, c)'
  BY <1>0, <1>1, <1>2, <1>5, RestGrows
<1> QED
  BY <1>3, <1>4, <1>5 DEF Step, BatchStep

\* An unpin that has ended has left nothing behind.
LEMMA UnpinEnds ==
  ASSUME TypeOK, RacesSeen, UnpinProgress, Step, NEW p \in Pins \ raced,
         Unpinning(p), ~Unpinning(p)'
  PROVE  Empty(p) /\ UNCHANGED <<stores, walked>>
<1>1. PICK k \in Callers : caller[k].pin = p /\ caller[k].pc \in UnpinPcs
  BY DEF Unpinning
<1>2. caller'[k] # caller[k]
  BY <1>1 DEF Unpinning
<1>3. CallerStep(k)
  BY <1>2, CallerMoves, RunMoves, RestGrows DEF Step, BatchStep
<1>4. ~(UnpinDestroy(k) \/ UnpinRm(k) \/ UnpinRefsRead(k) \/ UnpinRefsPut(k) \/ UnpinList(k))
  BY <1>1, PinNext DEF Unpinning, UnpinPcs
<1>5. ~UnpinDelete(k)
  BY <1>1, UnpinPop DEF UnpinDelete, Unpinning, UnpinPcs
<1>6. UnpinDone(k)
  BY <1>1, <1>3, <1>4, <1>5, UnpinSteps
<1>7. Unpins(k, p) /\ caller[k].pc = "unpin.delete" /\ caller[k].todo = {}
  BY <1>1, <1>6 DEF UnpinDone, UnpinProgress
<1> QED
  BY <1>6, <1>7 DEF UnpinDone, Unpins, Empty, stores

\* The first block that a pin has covered is its root, and it stays covered.
LEMMA RootKept ==
  ASSUME TypeOK, TypeOK', RunShape, RacesSeen, RunProgress, UnpinProgress, RootCovered,
         Step, Racing
  PROVE  RootCovered'
<1> SUFFICES ASSUME NEW p \in Pins \ raced' PROVE Rooted(p)'
  BY DEF RootCovered
<1>0. p \in Pins \ raced /\ p \in Cids /\ Rooted(p)
  BY NoRaceNext, PinsAssumption DEF RootCovered
<1>1. Covered(p, p) /\ ~Unpinning(p) => Covered(p, p)'
  BY <1>0, StepGrows DEF Grows
<1>2. Downloading(p) => ~Unpinning(p)
  BY <1>0, NoRace
<1>3. ASSUME ~Unpinning(p), NEW c \in Cids, Covered(p, c)', ~Covered(p, p)
      PROVE  Covered(p, p)'
  <2>0. ~Covered(p, c)
    BY <1>0, <1>3 DEF Rooted
  <2>1. ASSUME NEW k \in Callers, CallerStep(k) PROVE Covered(p, p)'
    BY <1>3, <2>0, <2>1, CallerStores, CallerDown DEF Covered, TypeOK
  <2>2. ASSUME NEW d \in Cids, RunStep(d) PROVE Covered(p, p)'
    <3>1. p \in run[d].snap /\ (run[d].pc = "links" \/ <<p, d>> \in run[d].todo)
      BY <1>3, <2>0, <2>2, RunDown, RunWalk DEF Covered
    <3>2. Covered(p, d)
      BY <1>0, <3>1 DEF RunProgress, Serves, Covered
    <3> QED
      BY <1>0, <1>3, <3>2 DEF Rooted
  <2>3. ASSUME BatchStep \/ (\E w \in Workers, d \in Cids : Invoke(w, d))
                 \/ \E w \in Workers : WorkerStep(w)
        PROVE  Covered(p, p)'
    BY <1>0, <1>3, <2>0, <2>3, RestGrows DEF Covered
  <2> QED
    BY <2>1, <2>2, <2>3 DEF Step, BatchStep
<1>4. ASSUME ~Unpinning(p)', NEW c \in Cids, Covered(p, c)' PROVE Covered(p, p)'
  <2>1. CASE Unpinning(p)
    BY <1>0, <1>4, <2>1, UnpinEnds DEF Empty, Covered, stores
  <2>2. CASE ~Unpinning(p)
    BY <1>1, <1>3, <1>4, <2>2
  <2> QED
    BY <2>1, <2>2
<1>5. ASSUME batch'.pin = p, batch'.pc = "yield" PROVE Covered(p, p)'
  <2>1. ASSUME batch.pin = p, batch.pc = "yield" PROVE Covered(p, p)'
    BY <1>0, <1>1, <1>2, <2>1 DEF Rooted, Downloading
  <2>2. ASSUME BatchStep PROVE Covered(p, p)'
    <3>1. batch.pin = p /\ \E c \in Cids : Covered(p, c)
      BY <1>5, <2>2, BatchMoves DEF Covered
    <3> QED
      BY <1>0, <1>1, <1>2, <3>1 DEF Rooted, Downloading
  <2>3. ASSUME NEW d \in Cids, RunStep(d) PROVE batch'= batch
    BY <1>0, <1>5, <2>3, RunMoves, NoneAssumption DEF NoBatch
  <2>4. ASSUME NEW w \in Workers, NEW d \in Cids, Invoke(w, d)
        PROVE  batch.pin = p /\ batch.pc = "yield"
    BY <1>0, <1>5, <2>4, InvokeMoves, NoneAssumption DEF NoBatch
  <2> QED
    BY <1>5, <2>1, <2>2, <2>3, <2>4, CallerMoves, WorkerMoves DEF Step, BatchStep
<1>6. ASSUME NEW w \in Workers, worker'[w].pin = p PROVE Covered(p, p)'
  <2>1. ASSUME worker[w].pin = p PROVE Covered(p, p)'
    BY <1>0, <1>1, <1>2, <2>1 DEF Rooted, Downloading
  <2>2. ASSUME NEW d \in Cids, RunStep(d) PROVE worker[w].pin = p
    BY <1>0, <1>6, <2>2, RunMoves, NoneAssumption
  <2>3. ASSUME NEW v \in Workers, NEW d \in Cids, Invoke(v, d)
        PROVE  Covered(p, p)'
    <3>1. CASE v = w
      BY <1>0, <1>1, <1>2, <1>6, <2>3, <3>1, InvokeMoves DEF Rooted, Downloading
    <3>2. CASE v # w
      BY <1>6, <2>1, <2>3, <3>2, InvokeMoves
    <3> QED
      BY <3>1, <3>2
  <2>4. ASSUME NEW v \in Workers, WorkerStep(v) PROVE worker[w].pin = p
    BY <1>0, <1>6, <2>4, WorkerMoves, NoneAssumption
  <2> QED
    BY <1>6, <2>1, <2>2, <2>3, <2>4, CallerMoves, BatchMoves DEF Step, BatchStep
<1> QED
  BY <1>4, <1>5, <1>6 DEF Rooted

\* An unpin works alone, so nothing it has done is undone.
LEMMA UnpinKept ==
  ASSUME TypeOK, RunShape, RacesSeen, UnpinProgress, Step, Racing
  PROVE  UnpinProgress'
<1> SUFFICES ASSUME NEW k \in Callers, NEW p \in Pins \ raced', caller'[k].pin = p,
                    caller'[k].pc \in UnpinPcs
             PROVE  Unpins(k, p)'
  BY DEF UnpinProgress, Unpins, UnpinPcs
<1>0. p \in Pins \ raced
  BY NoRaceNext
<1>1. ASSUME caller'[k] = caller[k], Same(p) PROVE Unpins(k, p)'
  BY <1>0, <1>1 DEF UnpinProgress, Unpins, Same
<1>2. ASSUME caller'[k] = caller[k]
      PROVE  /\ ~Downloading(p)
             /\ \A j \in Callers \ {k} : caller[j].pin # p
  BY <1>0, <1>2, NoRace DEF Unpinning
<1>3. ASSUME NEW j \in Callers, CallerStep(j), j # k PROVE Unpins(k, p)'
  BY <1>0, <1>1, <1>2, <1>3, CallerMoves, CallerSame
<1>4. ASSUME NEW d \in Cids, RunStep(d) PROVE Unpins(k, p)'
  BY <1>0, <1>1, <1>2, <1>4, RunMoves, RunSame DEF Downloading
<1>5. ASSUME BatchStep \/ (\E w \in Workers, d \in Cids : Invoke(w, d))
               \/ \E w \in Workers : WorkerStep(w)
      PROVE  Unpins(k, p)'
  BY <1>0, <1>1, <1>2, <1>5, RestGrows DEF Downloading
<1>6. ASSUME CallerStep(k) PROVE Unpins(k, p)'
  <2>1. CASE caller[k].pc \notin UnpinPcs
    <3>1. ASSUME NEW q \in Pins, UnpinGet(k, q) PROVE Unpins(k, p)'
      BY <1>0, <3>1, PinNext DEF UnpinGet, Unpins, stores
    <3>2. ASSUME NEW q \in Pins PROVE ~PinGet(k, q) /\ ~LocalGet(k, q)
      BY PinNext, LocalNext DEF UnpinPcs
    <3>3. ~(PinPut(k) \/ PinRoot(k) \/ UnpinDone(k) \/ LocalMissing(k) \/ LocalComplete(k))
      BY PinNext DEF UnpinPcs, NoCall
    <3>4. ~(LocalPut(k) \/ LocalBlock(k) \/ LocalRefsRead(k) \/ LocalRefsPut(k) \/ LocalRow(k)
            \/ LocalPinRef(k))
      BY LocalNext DEF UnpinPcs
    <3>5. ~(UnpinDestroy(k) \/ UnpinRm(k) \/ UnpinRefsRead(k) \/ UnpinRefsPut(k) \/ UnpinList(k)
              \/ UnpinDelete(k))
      BY <2>1 DEF UnpinDestroy, UnpinRm, UnpinRefsRead, UnpinRefsPut, UnpinList, UnpinDelete,
         UnpinPcs
    <3> QED
      BY <1>6, <3>1, <3>2, <3>3, <3>4, <3>5 DEF CallerStep
  <2>2. CASE UnpinDestroy(k)
    BY <1>0, <2>2, PinNext DEF UnpinDestroy, Unpins, TypeOK, StoresOK
  <2>3. CASE UnpinRm(k)
    <3>1. caller[k].pin = p /\ caller'[k].pc = "unpin.release"
      BY <2>3, PinNext
    <3>2. pins'[p] \in {"NOTFOUND", "DESTROYED"} /\ p \notin heliaPins'
      BY <1>0, <2>3, <3>1 DEF UnpinRm, UnpinProgress, Unpins
    <3> QED
      BY <3>1, <3>2 DEF Unpins
  <2>4. CASE UnpinList(k)
    <3>1. /\ caller[k].pin = p /\ caller'[k].pc = "unpin.delete"
          /\ \A c \in Cids : /\ <<p, c>> \in downloads => <<"downloads", c>> \in caller'[k].todo
                             /\ <<p, c>> \in blocks => <<"blocks", c>> \in caller'[k].todo
      BY <2>4, PinNext
    <3>2. pins'[p] \in {"NOTFOUND", "DESTROYED"} /\ p \notin heliaPins'
      BY <1>0, <2>4, <3>1 DEF UnpinList, UnpinProgress, Unpins, stores
    <3>3. \A c \in Cids : <<p, c>> \notin walked'
      BY <2>4, <3>1 DEF UnpinList, RowsOf
    <3> QED
      BY <2>4, <3>1, <3>2, <3>3 DEF Unpins, UnpinList, stores
  <2>5. CASE UnpinDelete(k)
    <3>1. PICK x \in caller[k].todo :
            /\ pins' = IF x[1] = "pins" THEN [pins EXCEPT ![caller[k].pin] = "NOTFOUND"] ELSE pins
            /\ downloads' = IF x[1] = "downloads" THEN downloads \ {<<caller[k].pin, x[2]>>}
                            ELSE downloads
            /\ blocks' = IF x[1] = "blocks" THEN blocks \ {<<caller[k].pin, x[2]>>} ELSE blocks
            /\ CallTo(k, [caller[k] EXCEPT !.todo = @ \ {x}])
      BY <2>5 DEF UnpinDelete
    <3>2. /\ caller[k].pin = p /\ caller[k].pc = "unpin.delete" /\ caller'[k].pc = "unpin.delete"
          /\ caller'[k].todo = caller[k].todo \ {x} /\ UNCHANGED <<heliaPins, walked>>
      BY <2>5, <3>1, UnpinPop DEF UnpinDelete
    <3>3. Unpins(k, p)
      BY <1>0, <3>2 DEF UnpinProgress
    <3>4. pins'[p] \in {"NOTFOUND", "DESTROYED"}
      BY <1>0, <3>1, <3>2, <3>3 DEF Unpins, TypeOK, StoresOK
    <3>5. ASSUME NEW c \in Cids
          PROVE  /\ <<p, c>> \in downloads' => <<"downloads", c>> \in caller'[k].todo
                 /\ <<p, c>> \in blocks' => <<"blocks", c>> \in caller'[k].todo
      BY <3>1, <3>2, <3>3 DEF Unpins
    <3> QED
      BY <3>2, <3>3, <3>4, <3>5 DEF Unpins
  <2>6. CASE UnpinDone(k)
    BY <2>6, PinNext DEF NoCall, UnpinPcs
  <2>7. CASE UnpinRefsRead(k) \/ UnpinRefsPut(k)
    <3>1. /\ caller[k].pin = p /\ caller'[k].pc \in {"unpin.release", "unpin.refput"}
          /\ caller[k].pc \in {"unpin.release", "unpin.refput"}
          /\ UNCHANGED <<pins, heliaPins>>
      BY <2>7, PinNext DEF UnpinRefsRead, UnpinRefsPut, stores
    <3> QED
      BY <1>0, <3>1 DEF UnpinProgress, Unpins
  <2> QED
    BY <1>6, <2>1, <2>2, <2>3, <2>4, <2>5, <2>6, <2>7, UnpinSteps
<1> QED
  BY <1>3, <1>4, <1>5, <1>6 DEF Step, BatchStep

\* Only the deletes of an unpin make a pin disappear.
LEMMA PinGoes ==
  ASSUME TypeOK, Step, NEW p \in Pins, pins[p] # "NOTFOUND", pins'[p] = "NOTFOUND"
  PROVE  \E k \in Callers : /\ caller[k].pin = p /\ caller'[k].pin = p
                            /\ caller'[k].pc = "unpin.delete"
<1>1. ASSUME NEW k \in Callers, CallerStep(k)
      PROVE  caller[k].pin = p /\ caller'[k].pin = p /\ caller'[k].pc = "unpin.delete"
  <2>1. caller[k].pin = p
    BY <1>1, CallerSame DEF Same
  <2>2. ~(\E q \in Pins : PinGet(k, q) \/ UnpinGet(k, q) \/ LocalGet(k, q))
    BY DEF PinGet, UnpinGet, LocalGet, stores
  <2>3. ~(\/ PinPut(k) \/ UnpinDestroy(k) \/ LocalPut(k) \/ LocalComplete(k))
    BY DEF PinPut, UnpinDestroy, LocalPut, LocalComplete, TypeOK, StoresOK
  <2>4. ~(\/ PinRoot(k) \/ UnpinRm(k) \/ UnpinRefsRead(k) \/ UnpinRefsPut(k) \/ UnpinList(k)
               \/ UnpinDone(k) \/ LocalBlock(k)
          \/ LocalMissing(k) \/ LocalRefsRead(k) \/ LocalRefsPut(k) \/ LocalRow(k)
          \/ LocalPinRef(k))
    BY DEF PinRoot, UnpinRm, UnpinRefsRead, UnpinRefsPut, UnpinList, UnpinDone, LocalBlock,
       LocalMissing,
       LocalRefsRead, LocalRefsPut, LocalRow, LocalPinRef, stores
  <2>5. UnpinDelete(k)
    BY <1>1, <2>2, <2>3, <2>4 DEF CallerStep
  <2> QED
    BY <2>1, <2>5, UnpinPop DEF UnpinDelete
<1>2. ASSUME NEW d \in Cids, RunStep(d) PROVE FALSE
  BY <1>2, RunMoves
<1>3. ASSUME BatchStep \/ (\E w \in Workers, d \in Cids : Invoke(w, d))
               \/ \E w \in Workers : WorkerStep(w)
      PROVE  FALSE
  BY <1>3, BatchMoves, WorkerMoves DEF Invoke, stores
<1> QED
  BY <1>1, <1>2, <1>3 DEF Step, BatchStep

\* Nobody begins to work on a pin that is not there, but a call that makes it.
LEMMA AbsentKept ==
  ASSUME TypeOK, RunShape, RacesSeen, UnpinProgress, Absent, Step, Racing
  PROVE  Absent'
<1> SUFFICES ASSUME NEW p \in Pins \ raced', pins'[p] = "NOTFOUND" PROVE Gone(p)'
  BY DEF Absent
<1>0. p \in Pins \ raced /\ p # None
  BY NoRaceNext, NoneAssumption, PinsAssumption
<1>1. CASE pins[p] # "NOTFOUND"
  <2>1. PICK k \in Callers : /\ caller[k].pin = p /\ caller'[k].pin = p
                             /\ caller'[k].pc = "unpin.delete"
    BY <1>0, <1>1, PinGoes
  <2>2. Unpinning(p)' /\ caller'[k].pc \in UnpinPcs
    BY <2>1 DEF Unpinning, UnpinPcs
  <2>3. ~Downloading(p)' /\ \A j \in Callers \ {k} : caller'[j].pin # p
    BY <2>1, <2>2, NoRaceNext
  <2> QED
    BY <2>1, <2>2, <2>3 DEF Gone
<1>2. CASE pins[p] = "NOTFOUND"
  <2>0. Gone(p)
    BY <1>0, <1>2 DEF Absent
  <2>1. ~Downloading(p)'
    <3>1. ASSUME NEW k \in Callers, CallerStep(k) PROVE ~Downloading(p)'
      BY <2>0, <3>1, CallerMoves DEF Gone, Downloading
    <3>2. ASSUME NEW d \in Cids, RunStep(d) PROVE ~Downloading(p)'
      <4>1. batch'.pin # p /\ \A w \in Workers : worker'[w].pin # p
        BY <1>0, <2>0, <3>2, RunMoves DEF Gone, Downloading, NoBatch
      <4>2. \A c \in Cids \ {d} : p \notin run'[c].snap
        BY <2>0, <3>2, RunMoves DEF Gone, Downloading
      <4>3. CASE ~RunQuery(d)
        BY <2>0, <3>2, <4>1, <4>2, <4>3, RunSnap DEF Gone, Downloading
      <4>4. CASE RunQuery(d)
        <5>1. CASE p \in run'[d].snap
          <6>1. <<p, d>> \in downloads
            BY <4>4, <5>1, RunNext
          <6>2. Unpinning(p)
            BY <2>0, <6>1 DEF Gone, Empty
          <6>3. Unpinning(p)'
            BY <3>2, <6>2, RunMoves DEF Unpinning
          <6> QED
            BY <6>3, NoRaceNext
        <5>2. CASE p \notin run'[d].snap
          BY <4>1, <4>2, <5>2 DEF Downloading
        <5> QED
          BY <5>1, <5>2
      <4> QED
        BY <4>3, <4>4
    <3>3. ASSUME BatchStep PROVE ~Downloading(p)'
      BY <1>0, <1>2, <2>0, <3>3, BatchMoves DEF Gone, Downloading
    <3>4. ASSUME NEW w \in Workers, NEW d \in Cids, Invoke(w, d) PROVE ~Downloading(p)'
      BY <1>0, <2>0, <3>4, InvokeMoves DEF Gone, Downloading, NoBatch
    <3>5. ASSUME NEW w \in Workers, WorkerStep(w) PROVE ~Downloading(p)'
      BY <1>0, <2>0, <3>5, WorkerMoves DEF Gone, Downloading
    <3> QED
      BY <3>1, <3>2, <3>3, <3>4, <3>5 DEF Step, BatchStep
  <2>2. ASSUME NEW k \in Callers, caller'[k].pin = p
        PROVE  caller'[k].pc \in {"pin.put", "local.put"} \cup UnpinPcs
    <3>1. CASE caller'[k] = caller[k]
      BY <2>0, <2>2, <3>1 DEF Gone
    <3>2. CASE CallerStep(k)
      <4>1. ASSUME NEW q \in Pins, PinGet(k, q) \/ UnpinGet(k, q) \/ LocalGet(k, q)
            PROVE  caller'[k].pc \in {"pin.put", "local.put"} \cup UnpinPcs
        BY <1>2, <2>2, <4>1, PinNext, LocalNext DEF UnpinPcs
      <4>2. CASE UnpinDestroy(k) \/ UnpinRm(k) \/ UnpinRefsRead(k) \/ UnpinRefsPut(k)
                   \/ UnpinList(k)
        BY <4>2, PinNext DEF UnpinPcs
      <4>3. CASE UnpinDelete(k)
        BY <4>3, UnpinPop DEF UnpinDelete, UnpinPcs
      <4>4. ~(PinRoot(k) \/ UnpinDone(k) \/ LocalMissing(k) \/ LocalComplete(k))
        BY <1>0, <2>2, PinNext DEF NoCall
      <4>5. ~(PinPut(k) \/ LocalPut(k))
        <5>1. PinPut(k) \/ LocalPut(k) => caller[k].pin = p
          BY <2>2, PinNext, LocalNext
        <5> QED
          BY <1>0, <5>1 DEF PinPut, LocalPut, TypeOK, StoresOK
      <4>6. ~(LocalBlock(k) \/ LocalRefsRead(k) \/ LocalRefsPut(k) \/ LocalRow(k)
              \/ LocalPinRef(k))
        <5>1. LocalBlock(k) \/ LocalRefsRead(k) \/ LocalRefsPut(k) \/ LocalRow(k)
                \/ LocalPinRef(k) => caller[k].pin = p
          BY <2>2, LocalNext
        <5> QED
          BY <2>0, <5>1 DEF Gone, UnpinPcs, LocalBlock, LocalRefsRead, LocalRefsPut,
             LocalRow, LocalPinRef
      <4> QED
        BY <3>2, <4>1, <4>2, <4>3, <4>4, <4>5, <4>6 DEF CallerStep
    <3> QED
      BY <3>1, <3>2, CallerMoves, RunMoves, RestGrows DEF Step, BatchStep
  <2>3. ASSUME ~Unpinning(p)' PROVE Empty(p)'
    <3>1. CASE Unpinning(p)
      BY <1>0, <2>3, <3>1, UnpinEnds DEF Empty, stores
    <3>2. CASE ~Unpinning(p)
      <4>0. Empty(p)
        BY <2>0, <3>2 DEF Gone
      <4>1. Same(p) => Empty(p)'
        BY <4>0 DEF Same, Empty
      <4>2. ASSUME NEW k \in Callers, CallerStep(k) PROVE Same(p)
        <5>1. CASE caller[k].pin = p
          <6>1. caller[k].pc \in {"pin.put", "local.put"}
            BY <2>0, <3>2, <5>1 DEF Gone, Unpinning
          <6>2. PinPut(k) \/ LocalPut(k)
            BY <4>2, <6>1 DEF CallerStep, PinGet, UnpinGet, LocalGet, PinRoot, UnpinDestroy,
               UnpinRm, UnpinRefsRead, UnpinRefsPut, UnpinList, UnpinDelete, UnpinDone, LocalBlock,
                  LocalMissing,
               LocalRefsRead, LocalRefsPut, LocalRow, LocalPinRef, LocalComplete
          <6> QED
            BY <1>0, <5>1, <6>2 DEF PinPut, LocalPut, TypeOK, StoresOK
        <5>2. CASE caller[k].pin # p
          BY <1>0, <4>2, <5>2, CallerSame
        <5> QED
          BY <5>1, <5>2
      <4>3. ASSUME NEW d \in Cids, RunStep(d) PROVE Same(p)
        BY <1>0, <2>0, <4>3, RunSame DEF Gone, Downloading
      <4>4. ASSUME BatchStep \/ (\E w \in Workers, d \in Cids : Invoke(w, d))
                     \/ \E w \in Workers : WorkerStep(w)
            PROVE  Same(p)
        BY <1>0, <2>0, <4>4, RestGrows DEF Gone, Downloading
      <4> QED
        BY <4>1, <4>2, <4>3, <4>4 DEF Step, BatchStep
    <3> QED
      BY <3>1, <3>2
  <2> QED
    BY <2>1, <2>2, <2>3 DEF Gone
<1> QED
  BY <1>1, <1>2

\* What is whole stays whole while nobody takes anything away.
LEMMA WholeGrows ==
  ASSUME NEW p \in Cids, Whole(p), Grows(p) PROVE Whole(p)'
  BY DEF Whole, Grows, Dag

\* With the root covered and nothing left to download, the whole DAG was walked.
LEMMA HeadsWalked ==
  ASSUME Frontier, NEW p \in Pins \ raced, Covered(p, p), Rows(downloads, p) = {}
  PROVE  \A c \in Dag[p] : <<p, c>> \in walked
<1> DEFINE S == {c \in Cids : <<p, c>> \in walked}
<1>1. \A c \in Cids : <<p, c>> \notin downloads
  BY DEF Rows
<1>2. p \in S
  BY <1>1, PinsAssumption DEF Covered
<1>3. ASSUME NEW c \in S PROVE Links[c] \subseteq S
  <2>1. Passed(p, c) /\ Links[c] \subseteq Cids
    BY LinksAssumption DEF Frontier
  <2> QED
    BY <1>1, <2>1 DEF Passed, Covered
<1> QED
  BY <1>2, <1>3, DagLeast DEF Closed

\* So the whole DAG is recorded.
LEMMA HeadsDone ==
  ASSUME Frontier, NEW p \in Pins \ raced, Covered(p, p), Rows(downloads, p) = {}
  PROVE  Whole(p)
<1>1. ASSUME NEW c \in Dag[p] PROVE <<p, c>> \in blocks /\ c \in blockstore
  <2>1. <<p, c>> \in walked
    BY HeadsWalked
  <2>2. c \in Cids
    BY PinsAssumption DEF Dag
  <2> QED
    BY <2>1, <2>2 DEF Frontier, Passed
<1> QED
  BY <1>1 DEF Whole

\* A closure goes on to complete its pin only when the whole DAG is recorded.
LEMMA CompletingKept ==
  ASSUME TypeOK, RunShape, RacesSeen, Frontier, RootCovered, CompletingWhole, Step, Racing
  PROVE  CompletingWhole'
<1> SUFFICES ASSUME NEW w \in Workers, NEW p \in Pins \ raced', worker'[w].pin = p
             PROVE  Completes(w, p)'
  BY DEF CompletingWhole
<1>0. p \in Pins \ raced /\ p \in Cids /\ p # None
  BY NoRaceNext, PinsAssumption, NoneAssumption
<1>1. ASSUME worker[w].pin = p
      PROVE  Completes(w, p) /\ Grows(p) /\ Covered(p, p)
  <2>1. ~Unpinning(p)
    BY <1>0, <1>1, NoRace DEF Downloading
  <2> QED
    BY <1>0, <1>1, <2>1, StepGrows DEF CompletingWhole, RootCovered, Rooted
<1>2. ASSUME worker'[w] = worker[w] PROVE Completes(w, p)'
  BY <1>0, <1>1, <1>2, WholeGrows DEF Completes, Grows
<1>3. ASSUME NEW d \in Cids, RunStep(d) PROVE Completes(w, p)'
  <2>1. CASE worker'[w].pc \in {"pinref", "complete"}
    BY <1>2, <1>3, <2>1, RunMoves
  <2>2. CASE worker'[w].pc \notin {"pinref", "complete"}
    BY <2>2 DEF Completes
  <2> QED
    BY <2>1, <2>2
<1>4. ASSUME NEW v \in Workers, NEW d \in Cids, Invoke(v, d) PROVE Completes(w, p)'
  BY <1>2, <1>4, InvokeMoves DEF Completes
<1>5. ASSUME WorkerStep(w) PROVE Completes(w, p)'
  <2>0. /\ worker[w] \in WorkerRec /\ worker[w].pin = p
        /\ \A rec : WorkTo(w, rec) => worker'[w] = rec
    BY <1>0, <1>5, WorkerMoves DEF TypeOK, WorkersOK, WorkTo
  <2>1. CASE CheckHeads(w)
    <3>1. CASE Rows(downloads, p) = {}
      <4>1. Whole(p)'
        BY <1>0, <1>1, <2>0, <3>1, HeadsDone, WholeGrows
      <4>2. worker'[w].pc = "pinref"
        BY <2>0, <2>1, <3>1 DEF CheckHeads, WorkerRec
      <4> QED
        BY <4>1, <4>2 DEF Completes
    <3>2. CASE Rows(downloads, p) # {}
      BY <1>0, <2>0, <2>1, <3>2 DEF CheckHeads, NoWorker
    <3> QED
      BY <3>1, <3>2
  <2>2. CASE AddPinRef(w)
    <3>1. Whole(p)' /\ p \in heliaPins'
      BY <1>0, <1>1, <2>0, <2>2, WholeGrows DEF AddPinRef, Completes
    <3> QED
      BY <3>1 DEF Completes
  <2>3. CASE Complete(w)
    BY <1>0, <2>0, <2>3 DEF Complete, NoWorker
  <2> QED
    BY <1>5, <2>1, <2>2, <2>3 DEF WorkerStep
<1>6. ASSUME NEW v \in Workers \ {w}, WorkerStep(v) PROVE Completes(w, p)'
  BY <1>2, <1>6, WorkerMoves
<1>7. ASSUME (\E k \in Callers : CallerStep(k)) \/ BatchStep PROVE Completes(w, p)'
  BY <1>2, <1>7, CallerMoves, BatchMoves
<1> QED
  BY <1>3, <1>4, <1>5, <1>6, <1>7 DEF Step, BatchStep

\* A pin that is completed is whole, and stays so until an unpin marks it destroyed.
LEMMA CompletedKept ==
  ASSUME TypeOK, RunShape, RacesSeen, UnpinProgress, LocalProgress, CompletingWhole,
         CompletedWhole, Step, Racing
  PROVE  CompletedWhole'
<1> SUFFICES ASSUME NEW p \in Pins \ raced', pins'[p] = "COMPLETED"
             PROVE  (p \in heliaPins /\ Whole(p))'
  BY DEF CompletedWhole
<1>0. p \in Pins \ raced /\ p \in Cids
  BY NoRaceNext, PinsAssumption
<1>1. ASSUME p \in heliaPins, Whole(p), Grows(p) PROVE (p \in heliaPins /\ Whole(p))'
  BY <1>0, <1>1, WholeGrows DEF Grows
<1>2. pins[p] = "COMPLETED" => p \in heliaPins /\ Whole(p)
  BY <1>0 DEF CompletedWhole
<1>3. ASSUME NEW k \in Callers, CallerStep(k) PROVE (p \in heliaPins /\ Whole(p))'
  <2>1. CASE caller[k].pin # p
    <3>1. Same(p) /\ blockstore' = blockstore
      BY <1>0, <1>3, <2>1, CallerSame
    <3> QED
      BY <1>0, <1>1, <1>2, <3>1 DEF Same, Grows, Covered
  <2>2. CASE caller[k].pin = p /\ caller[k].pc \notin UnpinPcs
    <3>1. Grows(p)
      BY <1>0, <1>3, <2>2, CallerGrows
    <3>2. CASE LocalComplete(k)
      <4>1. p \in heliaPins /\ Whole(p)
        BY <1>0, <2>2, <3>2 DEF LocalComplete, LocalProgress, Walks
      <4> QED
        BY <1>1, <3>1, <4>1
    <3>3. CASE ~LocalComplete(k)
      <4>1. ~(PinPut(k) \/ LocalPut(k))
        BY <1>0, <2>2 DEF PinPut, LocalPut, TypeOK, StoresOK
      <4>2. ~(\/ UnpinDestroy(k) \/ UnpinRm(k) \/ UnpinRefsRead(k) \/ UnpinRefsPut(k)
                   \/ UnpinList(k) \/ UnpinDelete(k) \/ UnpinDone(k))
        BY <2>2 DEF UnpinDestroy, UnpinRm, UnpinRefsRead, UnpinRefsPut, UnpinList, UnpinDelete,
           UnpinDone, UnpinPcs
      <4>3. pins' = pins
        BY <1>3, <3>3, <4>1, <4>2 DEF CallerStep, PinGet, UnpinGet, LocalGet, PinRoot,
           LocalBlock, LocalMissing, LocalRefsRead, LocalRefsPut, LocalRow, LocalPinRef, stores
      <4> QED
        BY <1>1, <1>2, <3>1, <4>3
    <3> QED
      BY <3>2, <3>3
  <2>3. CASE caller[k].pin = p /\ caller[k].pc \in UnpinPcs
    <3>1. ~UnpinDestroy(k)
      BY <1>0, <2>3 DEF UnpinDestroy, TypeOK, StoresOK
    <3>2. ASSUME UnpinRm(k) \/ UnpinRefsRead(k) \/ UnpinRefsPut(k) \/ UnpinList(k)
                   \/ UnpinDelete(k) PROVE FALSE
      <4>1. pins[p] \in {"NOTFOUND", "DESTROYED"}
        BY <1>0, <2>3, <3>2 DEF UnpinRm, UnpinRefsRead, UnpinRefsPut, UnpinList, UnpinDelete,
           UnpinProgress, Unpins
      <4>2. pins'[p] \in {pins[p], "NOTFOUND"}
        BY <1>0, <2>3, <3>2 DEF UnpinRm, UnpinRefsRead, UnpinRefsPut, UnpinList, UnpinDelete,
           TypeOK, StoresOK, stores
      <4> QED
        BY <4>1, <4>2
    <3>3. CASE UnpinDone(k)
      BY <1>1, <1>2, <3>3 DEF UnpinDone, stores, Grows, Covered
    <3> QED
      BY <1>3, <2>3, <3>1, <3>2, <3>3, UnpinSteps
  <2> QED
    BY <2>1, <2>2, <2>3
<1>4. ASSUME NEW d \in Cids, RunStep(d) PROVE (p \in heliaPins /\ Whole(p))'
  BY <1>0, <1>1, <1>2, <1>4, RunMoves, RunGrows
<1>5. ASSUME BatchStep \/ \E w \in Workers, d \in Cids : Invoke(w, d)
      PROVE  (p \in heliaPins /\ Whole(p))'
  <2>1. pins' = pins
    BY <1>5, BatchMoves DEF Invoke, stores
  <2> QED
    BY <1>0, <1>1, <1>2, <1>5, <2>1, RestGrows
<1>6. ASSUME NEW w \in Workers, WorkerStep(w) PROVE (p \in heliaPins /\ Whole(p))'
  <2>1. Grows(p)
    BY <1>0, <1>6, RestGrows
  <2>2. CASE pins'[p] = pins[p]
    BY <1>1, <1>2, <2>1, <2>2
  <2>3. CASE pins'[p] # pins[p]
    <3>1. worker[w].pc = "complete" /\ worker[w].pin = p
      BY <1>0, <1>6, <2>3 DEF WorkerStep, CheckHeads, AddPinRef, Complete, stores, TypeOK, StoresOK
    <3> QED
      BY <1>0, <1>1, <2>1, <3>1 DEF CompletingWhole, Completes
  <2> QED
    BY <2>2, <2>3
<1> QED
  BY <1>3, <1>4, <1>5, <1>6 DEF Step, BatchStep

\* A local walk visits nothing it has not recorded, and forgets no link.
LEMMA LocalKept ==
  ASSUME TypeOK, TypeOK', RunShape, RacesSeen, LocalProgress, Step, Racing
  PROVE  LocalProgress'
<1> SUFFICES ASSUME NEW k \in Callers, NEW p \in Pins \ raced', caller'[k].pin = p,
                    caller'[k].pc \in LocalPcs \cup {"local.put", "local.complete"}
             PROVE  Walks(k, p)'
  BY DEF LocalProgress, Walks, LocalPcs
<1>0. p \in Pins \ raced /\ p \in Cids /\ p # None
  BY NoRaceNext, PinsAssumption, NoneAssumption
<1>1. ASSUME caller[k].pin = p, caller[k].pc \notin UnpinPcs, caller[k].pc # "idle"
      PROVE  Walks(k, p)
  BY <1>0, <1>1 DEF LocalProgress
<1>2. ASSUME caller'[k] = caller[k] PROVE Walks(k, p)'
  <2>1. ~Unpinning(p)
    BY <1>0, <1>2, NoRace DEF Unpinning, LocalPcs, UnpinPcs
  <2>2. Grows(p) /\ Walks(k, p)
    BY <1>0, <1>2, <2>1, StepGrows DEF LocalProgress
  <2>3. caller[k].visited \subseteq Cids
    BY DEF TypeOK, CallersOK, CallerRec
  <2>4. Reached(k)' = Reached(k)
    BY <1>2 DEF Reached
  <2>5. Whole(p) => Whole(p)'
    BY <1>0, <2>2, WholeGrows
  <2> QED
    BY <1>2, <2>2, <2>3, <2>4, <2>5 DEF Walks, Grows
<1>3. ASSUME CallerStep(k) PROVE Walks(k, p)'
  <2>0. caller[k] \in CallerRec /\ caller'[k] \in CallerRec
    BY DEF TypeOK, CallersOK
  <2>1. ASSUME NEW q \in Pins, LocalGet(k, q) PROVE Walks(k, p)'
    <3>1. /\ caller'[k].todo = {<<"walk", p>>} /\ caller'[k].cid = None
          /\ caller'[k].visited = {} /\ caller'[k].pc \in {"local.put", "local.walk"}
      BY <2>1, LocalNext
    <3>2. (p \in Reached(k))'
      BY <1>0, <3>1 DEF Reached
    <3> QED
      BY <3>1, <3>2, NoneAssumption DEF Walks, LocalPcs
  <2>2. CASE LocalPut(k)
    <3>1. /\ caller'[k].pc = "local.walk" /\ caller[k].pin = p /\ caller[k].pc = "local.put"
          /\ caller'[k].todo = caller[k].todo /\ caller'[k].cid = caller[k].cid
          /\ caller'[k].visited = caller[k].visited
      BY <2>2, LocalNext DEF LocalPut
    <3>2. Walks(k, p)
      BY <1>1, <3>1 DEF UnpinPcs
    <3>3. (p \in Reached(k))' /\ caller'[k].cid = None /\ caller'[k].visited = {}
      BY <3>1, <3>2 DEF Walks, Reached
    <3> QED
      BY <3>1, <3>3, NoneAssumption DEF Walks, LocalPcs
  <2>3. CASE LocalBlock(k)
    <3>1. PICK c \in blockstore :
           /\ <<"walk", c>> \in caller[k].todo
           /\ caller'[k].pc = "local.refs" /\ caller'[k].pin = caller[k].pin
           /\ caller'[k].cid = c /\ caller'[k].visited = caller[k].visited
           /\ caller'[k].todo = (caller[k].todo \ {<<"walk", c>>}) \cup ({"walk"} \X Links[c])
      BY <2>3, LocalNext
    <3>2. /\ caller[k].pin = p /\ caller[k].pc = "local.walk"
          /\ UNCHANGED <<blocks, blockstore>>
      BY <2>3, <3>1 DEF LocalBlock, stores
    <3>3. Walks(k, p) /\ caller[k].cid = None
      BY <1>1, <3>2 DEF UnpinPcs, Walks
    <3>4. c \in Cids /\ Links[c] \subseteq Cids
      BY LinksAssumption DEF TypeOK, StoresOK
    <3>5. Reached(k) \ {None} \subseteq Reached(k)' /\ Links[c] \subseteq Reached(k)'
      BY <3>1, <3>3, <3>4 DEF Reached
    <3>6. ASSUME NEW x \in Cids \cap (caller'[k].visited \cup {caller'[k].cid})
          PROVE  x \in blockstore' /\ Links[x] \subseteq Reached(k)'
      <4>1. CASE x = c
        BY <3>2, <3>5, <4>1
      <4>2. CASE x # c
        <5>1. x \in Cids \cap caller[k].visited
          BY <3>1, <3>6, <4>2
        <5>2. x \in blockstore /\ Links[x] \subseteq Reached(k)
          BY <3>2, <3>3, <5>1 DEF Walks, LocalPcs
        <5>3. None \notin Links[x]
          BY LinksAssumption, NoneAssumption
        <5> QED
          BY <3>2, <3>5, <5>2, <5>3
      <4> QED
        BY <4>1, <4>2
    <3>7. p \in Reached(k)' /\ \A x \in caller'[k].visited : <<p, x>> \in blocks'
      BY <1>0, <3>1, <3>2, <3>3, <3>5 DEF Walks, LocalPcs
    <3> QED
      BY <3>1, <3>6, <3>7 DEF Walks, LocalPcs
  <2>4. CASE LocalRefsRead(k) \/ LocalRefsPut(k)
    <3>1. /\ caller'[k].pc \in {"local.refput", "local.row"} /\ caller[k].pin = p
          /\ caller[k].pc \in {"local.refs", "local.refput"}
          /\ caller'[k].todo = caller[k].todo /\ caller'[k].cid = caller[k].cid
          /\ caller'[k].visited = caller[k].visited
          /\ UNCHANGED <<blocks, blockstore>>
      BY <2>4, LocalNext DEF LocalRefsRead, LocalRefsPut, stores
    <3>2. Walks(k, p) /\ Reached(k)' = Reached(k)
      BY <1>1, <3>1 DEF UnpinPcs, Reached
    <3> QED
      BY <3>1, <3>2 DEF Walks, LocalPcs
  <2>5. CASE LocalRow(k)
    <3>1. /\ caller'[k].pc = "local.walk" /\ caller[k].pin = p /\ caller[k].pc = "local.row"
          /\ caller'[k].todo = caller[k].todo /\ caller'[k].cid = None
          /\ caller'[k].visited = caller[k].visited \cup {caller[k].cid}
          /\ blocks' = blocks \cup {<<p, caller[k].cid>>} /\ blockstore' = blockstore
      BY <2>5, LocalNext DEF LocalRow
    <3>2. Walks(k, p) /\ Reached(k) \subseteq Reached(k)'
      BY <1>1, <3>1 DEF UnpinPcs, Reached
    <3>3. ASSUME NEW x \in Cids \cap (caller'[k].visited \cup {caller'[k].cid})
          PROVE  x \in blockstore' /\ Links[x] \subseteq Reached(k)'
      BY <3>1, <3>2, <3>3, NoneAssumption DEF Walks, LocalPcs
    <3>4. p \in Reached(k)' /\ \A x \in caller'[k].visited : <<p, x>> \in blocks'
      BY <3>1, <3>2 DEF Walks, LocalPcs
    <3> QED
      BY <3>1, <3>3, <3>4 DEF Walks, LocalPcs
  <2>6. CASE LocalPinRef(k)
    <3>1. /\ caller'[k].pc = "local.complete" /\ caller[k].pin = p /\ caller[k].todo = {}
          /\ caller[k].pc = "local.walk" /\ p \in heliaPins'
          /\ UNCHANGED <<blocks, blockstore>>
      BY <2>6, LocalNext DEF LocalPinRef
    <3>2. Walks(k, p) /\ caller[k].cid = None /\ caller[k].visited \subseteq Cids
      BY <1>1, <2>0, <3>1 DEF UnpinPcs, Walks, CallerRec
    <3>3. Reached(k) = caller[k].visited \cup {None}
      BY <3>1, <3>2 DEF Reached
    <3>4. p \in caller[k].visited
      BY <1>0, <3>1, <3>2, <3>3 DEF Walks, LocalPcs
    <3>5. ASSUME NEW x \in caller[k].visited
          PROVE  x \in blockstore /\ <<p, x>> \in blocks /\ Links[x] \subseteq caller[k].visited
      <4>1. x \in blockstore /\ <<p, x>> \in blocks /\ Links[x] \subseteq Reached(k)
        BY <3>1, <3>2 DEF Walks, LocalPcs
      <4>2. None \notin Links[x]
        BY <3>2, LinksAssumption, NoneAssumption
      <4> QED
        BY <3>3, <4>1, <4>2
    <3>6. Dag[p] \subseteq caller[k].visited
      BY <3>2, <3>4, <3>5, DagLeast DEF Closed
    <3>7. Whole(p)'
      BY <3>1, <3>5, <3>6 DEF Whole
    <3> QED
      BY <3>1, <3>7 DEF Walks, LocalPcs
  <2>7. ASSUME NEW q \in Pins PROVE ~PinGet(k, q) /\ ~UnpinGet(k, q)
    BY PinNext DEF LocalPcs
  <2>8. ~(\/ PinPut(k) \/ UnpinDestroy(k) \/ UnpinRm(k) \/ UnpinRefsRead(k) \/ UnpinRefsPut(k)
               \/ UnpinList(k))
    BY PinNext DEF LocalPcs
  <2>9. ~(PinRoot(k) \/ UnpinDone(k) \/ LocalMissing(k) \/ LocalComplete(k))
    BY <1>0, PinNext DEF NoCall
  <2>10. ~UnpinDelete(k)
    BY UnpinPop DEF UnpinDelete, LocalPcs
  <2> QED
    BY <1>3, <2>1, <2>2, <2>3, <2>4, <2>5, <2>6, <2>7, <2>8, <2>9, <2>10 DEF CallerStep
<1> QED
  BY <1>2, <1>3, CallerMoves, RunMoves, RestGrows DEF Step, BatchStep

-----------------------------------------------------------------------------
(* The invariant and the properties that follow from it. *)

\* Nothing is recorded and nobody works at the start.
LEMMA InvInit == Init => IInv
<1> SUFFICES ASSUME Init PROVE IInv
  OBVIOUS
<1>1. TypeOK
  BY TypeInit
<1>2. /\ \A k \in Callers : caller[k] = NoCall
      /\ \A w \in Workers : worker[w] = NoWorker
      /\ \A c \in Cids : run[c] = NoRun
      /\ \A p \in Pins : pins[p] = "NOTFOUND" /\ p # None
      /\ batch = NoBatch /\ downloads = {} /\ blocks = {} /\ walked = {} /\ heliaPins = {}
  BY PinsAssumption, NoneAssumption DEF Init
<1>3. RacesSeen
  BY <1>2 DEF RacesSeen, Contended, NoCall, UnpinPcs
<1>4. RowsBelow /\ RunShape /\ RunProgress /\ Frontier
  BY <1>2 DEF RowsBelow, RunShape, RunProgress, Frontier, NoRun
<1>5. RootCovered /\ UnpinProgress /\ LocalProgress /\ CompletingWhole /\ CompletedWhole
  BY <1>2 DEF RootCovered, Rooted, Covered, UnpinProgress, LocalProgress, CompletingWhole,
     CompletedWhole, NoCall, NoWorker, NoBatch
<1>6. Absent
  BY <1>2 DEF Absent, Gone, Empty, Downloading, NoCall, NoWorker, NoBatch, NoRun
<1> QED
  BY <1>1, <1>3, <1>4, <1>5, <1>6 DEF IInv

\* A crash at any point leaves the tables in a state from which the work goes on.
LEMMA InvCrash ==
  ASSUME IInv, TypeOK', Crash, raced' = raced \cup {p \in Pins : Unpinning(p)}
  PROVE  IInv'
<1>1. /\ \A k \in Callers : caller'[k] = NoCall
      /\ \A w \in Workers : worker'[w] = NoWorker
      /\ \A c \in Cids : run'[c] = NoRun
      /\ batch' = NoBatch
      /\ UNCHANGED <<pins, downloads, blocks, blockstore, heliaPins, walked>>
  BY DEF Crash, stores
<1>2. ASSUME NEW p \in Pins \ raced' PROVE p \in Pins \ raced /\ ~Unpinning(p) /\ p # None
  BY PinsAssumption, NoneAssumption
<1>3. RacesSeen'
  BY <1>1 DEF RacesSeen, Contended, NoCall, UnpinPcs
<1>4. RowsBelow' /\ RunShape' /\ RunProgress'
  BY <1>1 DEF IInv, RowsBelow, RunShape, RunProgress, NoRun
<1>5. Frontier'
  BY <1>1, <1>2 DEF IInv, Frontier, Passed, Covered
<1>6. RootCovered'
  <2> SUFFICES ASSUME NEW p \in Pins \ raced' PROVE Rooted(p)'
    BY DEF RootCovered
  <2>1. Rooted(p) /\ ~Unpinning(p) /\ p # None
    BY <1>2 DEF IInv, RootCovered
  <2>2. \A c \in Cids : Covered(p, c) => Covered(p, p)
    BY <2>1 DEF Rooted
  <2>3. \A c \in Cids : Covered(p, c)' => Covered(p, p)'
    BY <1>1, <2>2 DEF Covered
  <2>4. batch'.pin # p /\ \A w \in Workers : worker'[w].pin # p
    BY <1>1, <2>1 DEF NoBatch, NoWorker
  <2> QED
    BY <2>3, <2>4 DEF Rooted
<1>7. UnpinProgress' /\ LocalProgress' /\ CompletingWhole'
  BY <1>1, <1>2 DEF UnpinProgress, LocalProgress, CompletingWhole, NoCall, NoWorker
<1>8. Absent'
  BY <1>1, <1>2 DEF IInv, Absent, Gone, Empty, Downloading, NoCall, NoWorker, NoBatch, NoRun
<1>9. CompletedWhole'
  BY <1>1, <1>2 DEF IInv, CompletedWhole, Whole
<1> QED
  BY <1>3, <1>4, <1>5, <1>6, <1>7, <1>8, <1>9 DEF IInv

\* Every step keeps the invariant.
LEMMA InvNext == IInv /\ [Next]_vars => IInv'
<1> SUFFICES ASSUME IInv, [Next]_vars PROVE IInv'
  OBVIOUS
<1>1. TypeOK'
  BY TypeNext DEF IInv
<1>2. CASE Step /\ Racing
  BY <1>1, <1>2, RacesKept, RowsKept, ShapeKept, RunKept, FrontierKept, RootKept, UnpinKept,
     AbsentKept, LocalKept, CompletingKept, CompletedKept DEF IInv
<1>3. CASE Crash /\ raced' = raced \cup {p \in Pins : Unpinning(p)}
  BY <1>1, <1>3, InvCrash
<1>4. CASE UNCHANGED vars
  <2>1. RacesSeen' /\ RowsBelow' /\ RunShape' /\ RunProgress'
    BY <1>4 DEF vars, stores, IInv, RacesSeen, Contended, Downloading, RowsBelow, RunShape,
       RunProgress, Serves, Covered
  <2>2. Frontier' /\ RootCovered' /\ UnpinProgress'
    BY <1>4 DEF vars, stores, IInv, Frontier, Passed, Covered, RootCovered, Rooted, Unpinning,
       UnpinProgress, Unpins
  <2>3. Absent' /\ CompletingWhole' /\ CompletedWhole'
    BY <1>4 DEF vars, stores, IInv, Absent, Gone, Empty, Downloading, Unpinning,
       CompletingWhole, Completes, Whole, CompletedWhole
  <2>4. LocalProgress'
    <3>1. UNCHANGED <<pins, blocks, blockstore, heliaPins, caller, raced>>
      BY <1>4 DEF vars, stores
    <3>2. ASSUME NEW k \in Callers, NEW p \in Pins \ raced, caller[k].pin = p
          PROVE  Walks(k, p)'
      <4>1. Walks(k, p)
        BY <3>2 DEF IInv, LocalProgress
      <4>2. Reached(k)' = Reached(k) /\ (Whole(p) => Whole(p)')
        BY <3>1 DEF Reached, Whole
      <4> QED
        BY <3>1, <4>1, <4>2 DEF Walks
    <3> QED
      BY <3>1, <3>2 DEF LocalProgress
  <2> QED
    BY <1>1, <2>1, <2>2, <2>3, <2>4 DEF IInv
<1> QED
  BY <1>2, <1>3, <1>4 DEF Next

\* The inductive invariant holds in every reachable state: shared runs, joined closures,
\* time-outs and crashes of downloadSingle lose track of nothing.
THEOREM InvCorrect == Spec => []IInv
<1> QED
  BY InvInit, InvNext, PTL DEF Spec

\* A pin that pin-manager.ts reports COMPLETED has its whole DAG recorded and stored, and
\* its Helia pin, unless an unpin overlapped other work on it.
THEOREM CompletedCorrect == Spec => []CompletedWhole
<1>1. IInv => CompletedWhole
  BY DEF IInv
<1> QED
  BY <1>1, InvCorrect, PTL

\* An unpin that has returned, undisturbed, has left no row, no walk and no Helia pin.
THEOREM UnpinCorrect == Spec => []UnpinClean
<1>1. IInv => UnpinClean
  BY DEF IInv, Absent, Gone, Empty, UnpinClean, Rows
<1> QED
  BY <1>1, InvCorrect, PTL

\* While a pin downloads, every block of its DAG is recorded or below a download row.
THEOREM NothingForgottenCorrect == Spec => []NothingForgotten
<1>1. IInv => NothingForgotten
  <2> SUFFICES ASSUME IInv, NEW p \in Pins \ raced, ~Unpinning(p), Rows(downloads, p) # {},
                      NEW c \in Dag[p]
               PROVE  <<p, c>> \in blocks \/ \E h \in Rows(downloads, p) : c \in Dag[h]
    BY DEF NothingForgotten
  <2> DEFINE H == Rows(downloads, p)
             S == {x \in Cids : <<p, x>> \in walked \/ \E h \in H : x \in Dag[h]}
  <2>0. p \in Cids /\ H \subseteq Cids
    BY PinsAssumption DEF Rows
  <2>1. \A x \in Cids : Covered(p, x) => x \in S
    BY DagRoot DEF Covered, Rows
  <2>2. p \in S
    <3>1. Covered(p, p)
      BY <2>0 DEF IInv, RootCovered, Rooted, Covered, Rows
    <3> QED
      BY <2>0, <2>1, <3>1
  <2>3. ASSUME NEW x \in S PROVE Links[x] \subseteq S
    <3>0. Links[x] \subseteq Cids
      BY LinksAssumption
    <3>1. CASE <<p, x>> \in walked
      BY <2>1, <3>0, <3>1 DEF IInv, Frontier, Passed
    <3>2. CASE \E h \in H : x \in Dag[h]
      BY <2>0, <3>0, <3>2, DagLinks
    <3> QED
      BY <2>3, <3>1, <3>2
  <2>4. c \in S
    BY <2>2, <2>3, DagLeast DEF Closed
  <2>5. <<p, c>> \in walked => <<p, c>> \in blocks
    BY <2>4 DEF IInv, Frontier, Passed
  <2> QED
    BY <2>4, <2>5
<1> QED
  BY <1>1, InvCorrect, PTL
=============================================================================
