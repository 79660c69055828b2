--------------------------- MODULE HeliaPinManager ---------------------------
(***************************************************************************)
(* packages/helia-pin-manager: the class that downloads pinned DAGs block  *)
(* by block and keeps, in three tables of a datastore, how far each pin is *)
(*   pins       cid of a root      -> status                               *)
(*   downloads  <<root, cid>> rows -> blocks still to fetch for that root  *)
(*   blocks     <<root, cid>> rows -> blocks recorded for that root        *)
(* beside Helia's own pin records (heliaPins, refs) and its blockstore.    *)
(*                                                                         *)
(* The program is single threaded: an action is the code between two       *)
(* awaits, with the datastore call that the second await completes.  A     *)
(* query of the datastore reads a snapshot.  The processes are             *)
(*   caller  a call of pin, unpin or pinLocal (an RPC, a sync, an upload)  *)
(*   batch   the caller of downloadHeads that hands out its closures       *)
(*   worker  one such closure running in a slot of the Downloader          *)
(*   run     one downloadSingleWithoutCache, shared by every closure that  *)
(*           asks for the same cid (the activeDownloads map)               *)
(* Left out: events, sizes, timestamps, and the depth limit, because every *)
(* pin is created with depth Number.MAX_SAFE_INTEGER.                      *)
(***************************************************************************)
EXTENDS Naturals, FiniteSets

CONSTANTS
  Cids,     \* the content identifiers of blocks
  Links,    \* the links inside each block
  Pins,     \* the cids that callers pin
  Callers,  \* concurrent calls of pin, unpin and pinLocal
  Workers,  \* slots of the Downloader
  Limit,    \* how many heads a batch asks for (the pin's weight)
  Stored,   \* the blocks in the blockstore at the start
  Allowed   \* which of "pin", "unpin", "pinLocal", "abort", "crash" may happen

Closed(S) == \A c \in S : Links[c] \subseteq S

\* The blocks of the DAG under a root: what every link-closed set with the root holds.
Dag ==
  [root \in Cids |->
     {c \in Cids : \A S \in SUBSET Cids : root \in S /\ Closed(S) => c \in S}]

ASSUME PinsAssumption == Pins \subseteq Cids
ASSUME LinksAssumption == Links \in [Cids -> SUBSET Cids]
ASSUME StoredAssumption == Stored \subseteq Cids
ASSUME LimitAssumption == Limit \in Nat \ {0}
\* A block names its links by their hash, so no block is below itself.
ASSUME AcyclicAssumption ==
  \A a, b \in Cids : a \in Dag[b] /\ b \in Dag[a] => a = b

None == "none"
ASSUME NoneAssumption == None \notin Cids

Statuses == {"NOTFOUND", "DOWNLOADING", "UPLOADING", "COMPLETED", "DESTROYED"}

VARIABLES
  pins, downloads, blocks,        \* the pin manager's datastore
  blockstore, heliaPins, refs,    \* Helia's blockstore and datastore
  caller, batch, worker, run,     \* volatile: lost in a crash
  walked,   \* history: the <<root, cid>> whose links were queued for the pin
  raced     \* history: the pins with an unpin that overlapped other work on them

stores == <<pins, downloads, blocks, blockstore, heliaPins, refs>>
vars == <<stores, caller, batch, worker, run, walked, raced>>

Rows(table, p) == {c \in Cids : <<p, c>> \in table}
RowsOf(p) == {p} \X Cids

NoCall == [pc |-> "idle", pin |-> None, todo |-> {}, cid |-> None,
           seen |-> {}, visited |-> {}]
NoBatch == [pc |-> "idle", pin |-> None, queue |-> {}]
NoWorker == [pc |-> "idle", pin |-> None, cid |-> None]
NoRun == [pc |-> "idle", snap |-> {}, seen |-> {}, todo |-> {}]

CallTo(k, rec) == caller' = [caller EXCEPT ![k] = rec]
WorkTo(w, rec) == worker' = [worker EXCEPT ![w] = rec]
RunTo(c, rec) == run' = [run EXCEPT ![c] = rec]

\* Who updates the references of a block reads them and later writes them all back.
RefsOn(c) == {p \in Pins : <<p, c>> \in refs}
WriteRefs(c, by) == refs' = {r \in refs : r[2] # c} \cup (by \X {c})

Init ==
  /\ pins = [p \in Pins |-> "NOTFOUND"]
  /\ downloads = {} /\ blocks = {} /\ walked = {}
  /\ blockstore = Stored /\ heliaPins = {} /\ refs = {}
  /\ caller = [k \in Callers |-> NoCall]
  /\ batch = NoBatch
  /\ worker = [w \in Workers |-> NoWorker]
  /\ run = [c \in Cids |-> NoRun]
  /\ raced = {}

-----------------------------------------------------------------------------
(* pin(cid): a row in pins, then the root in downloads. *)

PinGet(k, p) ==
  /\ "pin" \in Allowed
  /\ caller[k].pc = "idle"
  /\ pins[p] = "NOTFOUND"
  /\ CallTo(k, [NoCall EXCEPT !.pc = "pin.put", !.pin = p])
  /\ UNCHANGED <<stores, batch, worker, run, walked>>

PinPut(k) ==
  /\ caller[k].pc = "pin.put"
  /\ pins' = [pins EXCEPT ![caller[k].pin] = "DOWNLOADING"]
  /\ CallTo(k, [caller[k] EXCEPT !.pc = "pin.root"])
  /\ UNCHANGED <<downloads, blocks, blockstore, heliaPins, refs, batch, worker, run, walked>>

\* Mutant: a root whose block is recorded is not downloaded again.
PinRootNew(k) ==
  /\ caller[k].pc = "pin.root"
  /\ downloads' = IF <<caller[k].pin, caller[k].pin>> \in blocks THEN downloads
                  ELSE downloads \cup {<<caller[k].pin, caller[k].pin>>}
  /\ CallTo(k, NoCall)
  /\ UNCHANGED <<pins, blocks, blockstore, heliaPins, refs, batch, worker, run, walked>>

\* getOrPut of the row <<root, root>>.
PinRoot(k) ==
  /\ caller[k].pc = "pin.root"
  /\ downloads' = downloads \cup {<<caller[k].pin, caller[k].pin>>}
  /\ CallTo(k, NoCall)
  /\ UNCHANGED <<pins, blocks, blockstore, heliaPins, refs, batch, worker, run, walked>>

-----------------------------------------------------------------------------
(* unpin(cid) *)

UnpinGet(k, p) ==
  /\ "unpin" \in Allowed
  /\ caller[k].pc = "idle"
  /\ CallTo(k, [NoCall EXCEPT !.pin = p,
       !.pc = IF pins[p] = "NOTFOUND" THEN "unpin.rm" ELSE "unpin.destroy"])
  /\ UNCHANGED <<stores, batch, worker, run, walked>>

UnpinDestroy(k) ==
  /\ caller[k].pc = "unpin.destroy"
  /\ pins' = [pins EXCEPT ![caller[k].pin] = "DESTROYED"]
  /\ CallTo(k, [caller[k] EXCEPT !.pc = "unpin.rm"])
  /\ UNCHANGED <<downloads, blocks, blockstore, heliaPins, refs, batch, worker, run, walked>>

\* helia.pins.rm deletes its record of the pin; ERR_NOT_FOUND is swallowed.
UnpinRm(k) ==
  LET p == caller[k].pin IN
  /\ caller[k].pc = "unpin.rm"
  /\ heliaPins' = heliaPins \ {p}
  /\ CallTo(k, [caller[k] EXCEPT !.pc = "unpin.release",
       !.todo = IF p \in heliaPins THEN {"release"} \X Dag[p] ELSE {}])
  /\ UNCHANGED <<pins, downloads, blocks, blockstore, refs, batch, worker, run, walked>>

\* Then it walks the DAG, and reads the references of each block before it writes them back without the pin.
UnpinRefsRead(k) ==
  /\ caller[k].pc = "unpin.release"
  /\ \E x \in caller[k].todo :
       CallTo(k, [caller[k] EXCEPT !.pc = "unpin.refput", !.cid = x[2], !.seen = RefsOn(x[2]), !.todo = @ \ {x}])
  /\ UNCHANGED <<stores, batch, worker, run, walked>>

UnpinRefsPut(k) ==
  /\ caller[k].pc = "unpin.refput"
  /\ WriteRefs(caller[k].cid, caller[k].seen \ {caller[k].pin})
  /\ CallTo(k, [caller[k] EXCEPT !.pc = "unpin.release", !.cid = None, !.seen = {}])
  /\ UNCHANGED <<pins, downloads, blocks, blockstore, heliaPins, batch, worker, run, walked>>

\* Mutant: the download rows are left behind.
UnpinListBlocks(k) ==
  LET p == caller[k].pin IN
  /\ caller[k].pc = "unpin.release" /\ caller[k].todo = {}
  /\ CallTo(k, [caller[k] EXCEPT !.pc = "unpin.delete",
       !.todo = {<<"pins", p>>} \cup ({"blocks"} \X Rows(blocks, p))])
  /\ walked' = walked \ RowsOf(p)
  /\ UNCHANGED <<stores, batch, worker, run>>

\* The rows to delete are listed once, and nothing is walked for this pin any more.
UnpinList(k) ==
  LET p == caller[k].pin IN
  /\ caller[k].pc = "unpin.release" /\ caller[k].todo = {}
  /\ CallTo(k, [caller[k] EXCEPT !.pc = "unpin.delete",
       !.todo = {<<"pins", p>>} \cup ({"downloads"} \X Rows(downloads, p))
                                \cup ({"blocks"} \X Rows(blocks, p))])
  /\ walked' = walked \ RowsOf(p)
  /\ UNCHANGED <<stores, batch, worker, run>>

\* Promise.all over the deletes: they complete in any order.
UnpinDelete(k) ==
  LET p == caller[k].pin IN
  /\ caller[k].pc = "unpin.delete"
  /\ \E x \in caller[k].todo :
       /\ pins' = IF x[1] = "pins" THEN [pins EXCEPT ![p] = "NOTFOUND"] ELSE pins
       /\ downloads' = IF x[1] = "downloads" THEN downloads \ {<<p, x[2]>>} ELSE downloads
       /\ blocks' = IF x[1] = "blocks" THEN blocks \ {<<p, x[2]>>} ELSE blocks
       /\ CallTo(k, [caller[k] EXCEPT !.todo = @ \ {x}])
  /\ UNCHANGED <<blockstore, heliaPins, refs, batch, worker, run, walked>>

UnpinDone(k) ==
  /\ caller[k].pc = "unpin.delete"
  /\ caller[k].todo = {}
  /\ CallTo(k, NoCall)
  /\ UNCHANGED <<stores, batch, worker, run, walked>>

-----------------------------------------------------------------------------
(* pinLocal(cid): walk the DAG in the local blockstore and record its blocks. *)

LocalGet(k, p) ==
  /\ "pinLocal" \in Allowed
  /\ caller[k].pc = "idle"
  /\ CallTo(k, [NoCall EXCEPT !.pin = p, !.todo = {<<"walk", p>>},
       !.pc = IF pins[p] = "NOTFOUND" THEN "local.put" ELSE "local.walk"])
  /\ UNCHANGED <<stores, batch, worker, run, walked>>

LocalPut(k) ==
  /\ caller[k].pc = "local.put"
  /\ pins' = [pins EXCEPT ![caller[k].pin] = "UPLOADING"]
  /\ CallTo(k, [caller[k] EXCEPT !.pc = "local.walk"])
  /\ UNCHANGED <<downloads, blocks, blockstore, heliaPins, refs, batch, worker, run, walked>>

\* Mutant: the links of a block are not followed.
LocalBlockOnly(k) ==
  /\ caller[k].pc = "local.walk"
  /\ \E c \in blockstore :
       /\ <<"walk", c>> \in caller[k].todo
       /\ CallTo(k, [caller[k] EXCEPT !.pc = "local.refs", !.cid = c,
                                      !.todo = @ \ {<<"walk", c>>}])
  /\ UNCHANGED <<stores, batch, worker, run, walked>>

\* walk(..., { local: true }) reads a block and queues its links.
LocalBlock(k) ==
  /\ caller[k].pc = "local.walk"
  /\ \E c \in blockstore :
       /\ <<"walk", c>> \in caller[k].todo
       /\ CallTo(k, [caller[k] EXCEPT !.pc = "local.refs", !.cid = c,
            !.todo = (@ \ {<<"walk", c>>}) \cup ({"walk"} \X Links[c])])
  /\ UNCHANGED <<stores, batch, worker, run, walked>>

\* "missing block": the call throws and leaves the pin as it is.
LocalMissing(k) ==
  /\ caller[k].pc = "local.walk"
  /\ \E c \in Cids \ blockstore : <<"walk", c>> \in caller[k].todo
  /\ CallTo(k, NoCall)
  /\ UNCHANGED <<stores, batch, worker, run, walked>>

\* addBlockRefs.
LocalRefsRead(k) ==
  /\ caller[k].pc = "local.refs"
  /\ CallTo(k, [caller[k] EXCEPT !.pc = "local.refput", !.seen = RefsOn(caller[k].cid)])
  /\ UNCHANGED <<stores, batch, worker, run, walked>>

LocalRefsPut(k) ==
  /\ caller[k].pc = "local.refput"
  /\ WriteRefs(caller[k].cid, caller[k].seen \cup {caller[k].pin})
  /\ CallTo(k, [caller[k] EXCEPT !.pc = "local.row", !.seen = {}])
  /\ UNCHANGED <<pins, downloads, blocks, blockstore, heliaPins, batch, worker, run, walked>>

LocalRow(k) ==
  /\ caller[k].pc = "local.row"
  /\ blocks' = blocks \cup {<<caller[k].pin, caller[k].cid>>}
  /\ CallTo(k, [caller[k] EXCEPT !.pc = "local.walk", !.cid = None,
                                 !.visited = @ \cup {caller[k].cid}])
  /\ UNCHANGED <<pins, downloads, blockstore, heliaPins, refs, batch, worker, run, walked>>

LocalPinRef(k) ==
  /\ caller[k].pc = "local.walk"
  /\ caller[k].todo = {}
  /\ heliaPins' = heliaPins \cup {caller[k].pin}
  /\ CallTo(k, [caller[k] EXCEPT !.pc = "local.complete"])
  /\ UNCHANGED <<pins, downloads, blocks, blockstore, refs, batch, worker, run, walked>>

LocalComplete(k) ==
  /\ caller[k].pc = "local.complete"
  /\ pins' = [pins EXCEPT ![caller[k].pin] = "COMPLETED"]
  /\ CallTo(k, NoCall)
  /\ UNCHANGED <<downloads, blocks, blockstore, heliaPins, refs, batch, worker, run, walked>>

-----------------------------------------------------------------------------
(* downloadHeads(pin, { limit }): the heads that nobody downloads yet. *)

\* No pin throws and a completed pin has no heads: either way nothing is handed out.
HeadsOpen(p) ==
  /\ batch.pc = "idle"
  /\ pins[p] \notin {"NOTFOUND", "COMPLETED"}
  /\ batch' = [pc |-> "list", pin |-> p, queue |-> {}]
  /\ UNCHANGED <<stores, caller, worker, run, walked>>

\* Mutant: the filter keeps the heads that are downloading.
HeadsListActive ==
  /\ batch.pc = "list"
  /\ LET active == {c \in Rows(downloads, batch.pin) : run[c].pc # "idle"} IN
     batch' = IF active = {} THEN NoBatch
              ELSE [batch EXCEPT !.pc = "yield", !.queue = active]
  /\ UNCHANGED <<stores, caller, worker, run, walked>>

HeadsList ==
  LET rows == Rows(downloads, batch.pin) IN
  /\ batch.pc = "list"
  /\ \E heads \in SUBSET rows :
       /\ heads = rows \/ Cardinality(heads) = Limit
       /\ Cardinality(heads) <= Limit
       /\ LET free == {c \in heads : run[c].pc = "idle"} IN
          batch' = IF free = {} THEN NoBatch
                   ELSE [batch EXCEPT !.pc = "yield", !.queue = free]
  /\ UNCHANGED <<stores, caller, worker, run, walked>>

\* A slot takes a closure; downloadSingle joins the run of that cid or starts it.
Invoke(w, c) ==
  /\ batch.pc = "yield"
  /\ c \in batch.queue
  /\ worker[w].pc = "idle"
  /\ WorkTo(w, [pc |-> "run", pin |-> batch.pin, cid |-> c])
  /\ RunTo(c, [run[c] EXCEPT !.pc = IF @ = "idle" THEN "query" ELSE @])
  /\ batch' = IF batch.queue = {c} THEN NoBatch ELSE [batch EXCEPT !.queue = @ \ {c}]
  /\ UNCHANGED <<stores, caller, walked>>

-----------------------------------------------------------------------------
(* downloadSingleWithoutCache(cid) *)

\* allByCid: every pin that waits for this block now.
RunQuery(c) ==
  /\ run[c].pc = "query"
  /\ RunTo(c, [run[c] EXCEPT !.pc = "fetch", !.snap = {p \in Pins : <<p, c>> \in downloads}])
  /\ UNCHANGED <<stores, caller, batch, worker, walked>>

\* blockstore.get answers from the local store or from a peer.
RunFetched(c) ==
  /\ run[c].pc = "fetch"
  /\ blockstore' = blockstore \cup {c}
  /\ RunTo(c, [run[c] EXCEPT !.pc = "refs"])
  /\ UNCHANGED <<pins, downloads, blocks, heliaPins, refs, caller, batch, worker, walked>>

\* The signal of the closure that started the run fires: every closure that
\* joined it rejects, and the consumer's pipeline may end with the error.
RunAborted(c) ==
  /\ "abort" \in Allowed
  /\ run[c].pc = "fetch"
  /\ RunTo(c, NoRun)
  /\ worker' = [w \in Workers |->
       IF worker[w].pc = "run" /\ worker[w].cid = c THEN NoWorker ELSE worker[w]]
  /\ batch' \in {batch, NoBatch}
  /\ UNCHANGED <<stores, caller, walked>>

RunRefsRead(c) ==
  /\ run[c].pc = "refs"
  /\ RunTo(c, [run[c] EXCEPT !.pc = "refput", !.seen = RefsOn(c)])
  /\ UNCHANGED <<stores, caller, batch, worker, walked>>

RunRefsPut(c) ==
  /\ run[c].pc = "refput"
  /\ WriteRefs(c, run[c].seen \cup run[c].snap)
  /\ RunTo(c, [run[c] EXCEPT !.pc = "record", !.seen = {}, !.todo = run[c].snap \X {c}])
  /\ UNCHANGED <<pins, downloads, blocks, blockstore, heliaPins, caller, batch, worker, walked>>

\* Each Promise.all writes its rows in any order and goes on when all are written.
RunRecord(c) ==
  /\ run[c].pc = "record"
  /\ \E r \in run[c].todo :
       /\ blocks' = blocks \cup {r}
       /\ RunTo(c, [run[c] EXCEPT !.todo = @ \ {r}])
  /\ UNCHANGED <<pins, downloads, blockstore, heliaPins, refs, caller, batch, worker, walked>>

RunRecorded(c) ==
  /\ run[c].pc = "record" /\ run[c].todo = {}
  /\ RunTo(c, [run[c] EXCEPT !.pc = "links", !.todo = run[c].snap \X Links[c]])
  /\ UNCHANGED <<stores, caller, batch, worker, walked>>

\* addToDownloads; downloads.getOrPut looks up the pair the wrong way round and
\* leaves the row out when it finds something there.
RunLink(c) ==
  /\ run[c].pc = "links"
  /\ \E r \in run[c].todo :
       /\ downloads' = IF <<r[2], r[1]>> \in downloads THEN downloads ELSE downloads \cup {r}
       /\ RunTo(c, [run[c] EXCEPT !.todo = @ \ {r}])
  /\ UNCHANGED <<pins, blocks, blockstore, heliaPins, refs, caller, batch, worker, walked>>

\* Mutant: the row is given up before every link is queued.
RunLinkedEarly(c) ==
  /\ run[c].pc = "links"
  /\ RunTo(c, [run[c] EXCEPT !.pc = "clear", !.todo = run[c].snap \X {c}])
  /\ UNCHANGED <<stores, caller, batch, worker, walked>>

RunLinked(c) ==
  /\ run[c].pc = "links" /\ run[c].todo = {}
  /\ RunTo(c, [run[c] EXCEPT !.pc = "clear", !.todo = run[c].snap \X {c}])
  /\ UNCHANGED <<stores, caller, batch, worker, walked>>

RunClear(c) ==
  /\ run[c].pc = "clear"
  /\ \E r \in run[c].todo :
       /\ downloads' = downloads \ {r}
       /\ walked' = walked \cup {r}
       /\ RunTo(c, [run[c] EXCEPT !.todo = @ \ {r}])
  /\ UNCHANGED <<pins, blocks, blockstore, heliaPins, refs, caller, batch, worker>>

\* The run leaves activeDownloads and every closure that waits for it goes on.
RunDone(c) ==
  /\ run[c].pc = "clear" /\ run[c].todo = {}
  /\ RunTo(c, NoRun)
  /\ worker' = [w \in Workers |->
       IF worker[w].pc = "run" /\ worker[w].cid = c
       THEN [worker[w] EXCEPT !.pc = "check"] ELSE worker[w]]
  /\ UNCHANGED <<stores, caller, batch, walked>>

-----------------------------------------------------------------------------
(* The rest of the closure: complete the pin when no head is left. *)

\* Mutant: one head may be left.
CheckHeadsOne(w) ==
  /\ worker[w].pc = "check"
  /\ WorkTo(w, IF Cardinality(Rows(downloads, worker[w].pin)) <= 1
               THEN [worker[w] EXCEPT !.pc = "pinref"] ELSE NoWorker)
  /\ UNCHANGED <<stores, caller, batch, run, walked>>

CheckHeads(w) ==
  /\ worker[w].pc = "check"
  /\ WorkTo(w, IF Rows(downloads, worker[w].pin) = {}
               THEN [worker[w] EXCEPT !.pc = "pinref"] ELSE NoWorker)
  /\ UNCHANGED <<stores, caller, batch, run, walked>>

AddPinRef(w) ==
  /\ worker[w].pc = "pinref"
  /\ heliaPins' = heliaPins \cup {worker[w].pin}
  /\ WorkTo(w, [worker[w] EXCEPT !.pc = "complete"])
  /\ UNCHANGED <<pins, downloads, blocks, blockstore, refs, caller, batch, run, walked>>

\* Writes the pin that downloadHeads read, whatever has become of it since.
Complete(w) ==
  /\ worker[w].pc = "complete"
  /\ pins' = [pins EXCEPT ![worker[w].pin] = "COMPLETED"]
  /\ WorkTo(w, NoWorker)
  /\ UNCHANGED <<downloads, blocks, blockstore, heliaPins, refs, caller, batch, run, walked>>

-----------------------------------------------------------------------------
Crash ==
  /\ "crash" \in Allowed
  /\ caller' = [k \in Callers |-> NoCall]
  /\ batch' = NoBatch
  /\ worker' = [w \in Workers |-> NoWorker]
  /\ run' = [c \in Cids |-> NoRun]
  /\ UNCHANGED <<stores, walked>>

UnpinPcs == {"unpin.destroy", "unpin.rm", "unpin.release", "unpin.refput", "unpin.delete"}
Unpinning(p) == \E k \in Callers : caller[k].pin = p /\ caller[k].pc \in UnpinPcs

\* Work on p that is in flight: closures handed out or running, runs that hold p.
Downloading(p) ==
  \/ batch.pin = p
  \/ \E w \in Workers : worker[w].pin = p
  \/ \E c \in Cids : p \in run[c].snap

Contended(p) ==
  \E k \in Callers :
    /\ caller[k].pin = p /\ caller[k].pc \in UnpinPcs
    /\ Downloading(p) \/ \E j \in Callers \ {k} : caller[j].pin = p

CallerStep(k) ==
  \/ \E p \in Pins : PinGet(k, p) \/ UnpinGet(k, p) \/ LocalGet(k, p)
  \/ PinPut(k) \/ PinRoot(k)
  \/ UnpinDestroy(k) \/ UnpinRm(k) \/ UnpinRefsRead(k) \/ UnpinRefsPut(k)
  \/ UnpinList(k) \/ UnpinDelete(k) \/ UnpinDone(k)
  \/ LocalPut(k) \/ LocalBlock(k) \/ LocalMissing(k) \/ LocalRefsRead(k)
  \/ LocalRefsPut(k) \/ LocalRow(k) \/ LocalPinRef(k) \/ LocalComplete(k)

RunStep(c) ==
  \/ RunQuery(c) \/ RunFetched(c) \/ RunAborted(c) \/ RunRefsRead(c) \/ RunRefsPut(c)
  \/ RunRecord(c) \/ RunRecorded(c) \/ RunLink(c) \/ RunLinked(c)
  \/ RunClear(c) \/ RunDone(c)

WorkerStep(w) == CheckHeads(w) \/ AddPinRef(w) \/ Complete(w)

Step ==
  \/ \E k \in Callers : CallerStep(k)
  \/ \E p \in Pins : HeadsOpen(p)
  \/ HeadsList
  \/ \E w \in Workers, c \in Cids : Invoke(w, c)
  \/ \E c \in Cids : RunStep(c)
  \/ \E w \in Workers : WorkerStep(w)

Racing == raced' = raced \cup {p \in Pins : Contended(p)'}

Next ==
  \/ Step /\ Racing
  \/ Crash /\ raced' = raced \cup {p \in Pins : Unpinning(p)}

Spec == Init /\ [][Next]_vars

\* A call runs to its end, a run whose block arrives goes on, a closure that was
\* handed out is invoked.  Strong fairness where something can interfere for a
\* while: a peer delivers the block in the end although single attempts time out,
\* and every round of the Downloader asks for the heads of every active pin.
Fairness ==
  /\ \A k \in Callers : WF_vars((PinPut(k) \/ PinRoot(k)) /\ Racing)
  /\ \A p \in Pins : SF_vars(HeadsOpen(p) /\ Racing)
  /\ WF_vars(HeadsList /\ Racing)
  /\ WF_vars((\E w \in Workers, c \in Cids : Invoke(w, c)) /\ Racing)
  /\ \A c \in Cids :
       /\ SF_vars(RunFetched(c) /\ Racing)
       /\ WF_vars(/\ \/ RunQuery(c) \/ RunRefsRead(c) \/ RunRefsPut(c) \/ RunRecord(c)
                     \/ RunRecorded(c) \/ RunLink(c) \/ RunLinked(c) \/ RunClear(c)
                     \/ RunDone(c)
                  /\ Racing)
  /\ \A w \in Workers : WF_vars(WorkerStep(w) /\ Racing)

FairSpec == Spec /\ Fairness

-----------------------------------------------------------------------------
(* Properties *)

CallerPcs == {"idle", "pin.put", "pin.root", "local.put", "local.walk", "local.refs",
              "local.refput", "local.row", "local.complete"} \cup UnpinPcs
CallerRec ==
  [pc : CallerPcs, pin : Pins \cup {None}, cid : Cids \cup {None},
   todo : SUBSET ({"pins", "downloads", "blocks", "walk", "release"} \X Cids),
   seen : SUBSET Pins, visited : SUBSET Cids]
BatchRec == [pc : {"idle", "list", "yield"}, pin : Pins \cup {None}, queue : SUBSET Cids]
WorkerRec ==
  [pc : {"idle", "run", "check", "pinref", "complete"},
   pin : Pins \cup {None}, cid : Cids \cup {None}]
RunRec ==
  [pc : {"idle", "query", "fetch", "refs", "refput", "record", "links", "clear"},
   snap : SUBSET Pins, seen : SUBSET Pins, todo : SUBSET (Pins \X Cids)]

StoresOK ==
  /\ pins \in [Pins -> Statuses]
  /\ downloads \subseteq Pins \X Cids
  /\ blocks \subseteq Pins \X Cids
  /\ blockstore \subseteq Cids
  /\ heliaPins \subseteq Pins
  /\ refs \subseteq Pins \X Cids

\* An idle process holds no pin, and only an idle one.
CallersOK ==
  /\ caller \in [Callers -> CallerRec]
  /\ \A k \in Callers : caller[k].pc = "idle" <=> caller[k].pin = None
  /\ \A k \in Callers :
       caller[k].pc \in {"local.refs", "local.refput", "local.row", "unpin.refput"} => caller[k].cid \in Cids
BatchOK == batch \in BatchRec /\ (batch.pc = "idle" <=> batch.pin = None)
WorkersOK ==
  /\ worker \in [Workers -> WorkerRec]
  /\ \A w \in Workers : worker[w].pc = "idle" <=> worker[w].pin = None
RunsOK == run \in [Cids -> RunRec]
HistoryOK == walked \subseteq Pins \X Cids /\ raced \subseteq Pins

\* The type of every variable.
TypeOK == StoresOK /\ CallersOK /\ BatchOK /\ WorkersOK /\ RunsOK /\ HistoryOK

Whole(p) == \A c \in Dag[p] : <<p, c>> \in blocks /\ c \in blockstore

\* A pin reported COMPLETED has every block of its DAG recorded and stored, and
\* its Helia pin, however its runs were shared, aborted or cut off by crashes;
\* unless an unpin of it overlapped other work on it (raced).
CompletedWhole ==
  \A p \in Pins : pins[p] = "COMPLETED" /\ p \notin raced => p \in heliaPins /\ Whole(p)

\* While a pin has download rows, every block of its DAG is recorded or below
\* one of them: no step of a shared run, and no crash between two steps, forgets
\* a part of the DAG.
NothingForgotten ==
  \A p \in Pins \ raced :
    ~Unpinning(p) /\ Rows(downloads, p) # {} =>
      \A c \in Dag[p] : <<p, c>> \in blocks \/ \E h \in Rows(downloads, p) : c \in Dag[h]

\* Once an unpin has returned, nothing of the pin is left in the three tables or in Helia.
UnpinClean ==
  \A p \in Pins :
    pins[p] = "NOTFOUND" /\ p \notin raced /\ ~Unpinning(p) =>
      p \notin heliaPins /\ Rows(downloads, p) = {} /\ Rows(blocks, p) = {}

\* Every pin that starts to download gets every block of its DAG, with other pins
\* sharing its blocks and its runs, and attempts that time out.
Arrives == \A p \in Pins : pins[p] = "DOWNLOADING" ~> Whole(p)

\* Every pin that starts to download is reported COMPLETED.  Holds for pins with
\* disjoint DAGs.  With a shared block it does not: the closure of one pin deletes the
\* last row of the other, whose own heads are never looked at again.
Downloaded == \A p \in Pins : pins[p] = "DOWNLOADING" ~> pins[p] = "COMPLETED"

\* No other pin that is there shares a block with this one.
Alone(p) == \A q \in Pins \ {p} : pins[q] = "NOTFOUND" \/ Dag[p] \cap Dag[q] = {}

\* pin() looks for the pin in one step and writes it in another: of two calls for the same cid the slower one sets the
\* pin back to DOWNLOADING at any time, also when it is COMPLETED, and downloads it again beside closures of the first
\* download that still complete it.  It all comes to an end: the pin stays COMPLETED, with every block.
Converges ==
  \A p \in Pins : pins[p] = "DOWNLOADING" ~> ([](pins[p] = "COMPLETED" /\ Whole(p)) \/ ~Alone(p))

(* What the repository's tests state, and the code keeps only without interference. *)

\* A COMPLETED pin has all its blocks recorded.  An unpin that overlaps a download
\* leaves a closure behind that writes the pin back, COMPLETED and without blocks.
CompletedHasBlocks == \A p \in Pins : pins[p] = "COMPLETED" => Whole(p)

\* pin() does nothing if the pin already exists.  Two calls that both find no pin do:
\* the slower one restarts what the faster one's download has completed.
PinKeepsExisting ==
  [][\A p \in Pins : pins[p] = "COMPLETED" => pins'[p] # "DOWNLOADING"]_vars

\* pin() adds the root as a download.  After a crash between its two writes the pin is
\* DOWNLOADING with nothing to download, and a second pin() returns early.
RootQueued ==
  \A p \in Pins : pins[p] = "DOWNLOADING" =>
    \/ <<p, p>> \in downloads \cup blocks
    \/ \E k \in Callers : caller[k].pin = p
=============================================================================
