# A TLA+ model of distributed-backup

`packages/` holds a peer-to-peer backup system: a daemon that keeps groups of
replicated databases, pins the files that the databases name, downloads their
blocks from other peers and answers a local RPC socket. This directory holds
TLA+ modules translated from that code, TLC configurations that check them on
small instances, and proofs about them checked by TLAPS.

Paths below are relative to `src/packages/` unless they start with `src/`.

## 1. Inventory

### 1.1 Components

| Component | Code | State | Operations | Hard behaviour |
|---|---|---|---|---|
| Helia pin manager | `helia-pin-manager/src` | tables `pins`, `downloads`, `blocks` in the datastore; the `activeDownloads` map in memory; Helia's own pin and block-reference records | `pin`, `unpin`, `pinLocal`, `downloadHeads` and the closures it returns | every call is a chain of awaits over several tables without a transaction; closures of different pins share runs; crashes cut the chains |
| Pin references | `daemon/src/common/pin-manager` | one record per key: cid, priority, paused | `put`, `remove`, `get`, `getActive` | count of the keys of a cid is read, then acted on; the record and the Helia pin are written one after the other |
| Downloader | `daemon/src/common/downloader` | paused flag, abort controller, a pipeline of pins, batches and slots | `start`, `stop`, `pause`, `resume`, the loop | slots shared by all pins, weights, ten-second time-outs, an error ends the pipeline while closures still run |
| Groups | `daemon/src/common/groups.ts`, `bootstrap-groups.ts` | open databases, persisted manifests | `start`, `add`, `get`, `stop` | `add` opens, registers and persists in three steps |
| Group sync | `daemon/src/common/entry-tracker.ts`, `tick.ts`, `modules/filesystem/sync-groups.ts`, `modules/revisions/sync-revisions.ts` | a hash per processed entry | `process`, `put`, `validate`, the tick loop | an entry is recorded after it was processed; commands run between two steps of the tick |
| Operation queue | `daemon/src/operation-manager.ts`, `modules/filesystem/upload-operations.ts` | persisted operations, a counter, an in-memory queue | `start` (replay), `add` | replay after a crash; an operation that fails stays persisted |
| File system | `daemon/src/modules/filesystem` | entries in the group's database | `put`, `get`, `delete`, `getDir`, the commands `import`, `write`, `edit`, `delete` | read-then-write of sequence numbers; concurrent authors |
| Revisions | `daemon/src/modules/revisions` | revision entries in the group's database | the `file:added` handler, selection of the revisions to keep | listeners are not awaited and overlap |
| Scheduler | `daemon/src/modules/scheduler` | schedule entries in the database | `put`, `get`, `all` | keys made of a clock and a counter, both new in every call |
| Sneakernet | `daemon/src/common/sneakernet` | wants and heads of peers, persisted | `export`, `import` | two peers exchange what the other one wants by files, one round behind |
| Manual block broker | `manual-block-broker/src` | a promise per wanted block | `retrieve`, `provide`, `getWants`, abort | a joined retrieval follows the first one's signal; aborts after answers |
| RPC | `rpc/src` | clients, an abort controller per request | `start`, `stop`, request, response, abort, close | requests answered out of order, aborts that race the answer, sockets that close in between |
| Peer sync command | `daemon/src/common/commands/sync.ts` | none of its own | exchange of database heads with every peer | several peers and databases at once |
| DAG utilities | `utils/src/dag` | none | `walk`, `getSize`, the walkers | missing blocks, shared blocks, the look-ahead of the dag-json tokenizer |
| FUSE client | `fuse/src` | the list of the group, cached for five seconds | `readdir`, `getattr`, `read`, the handlers of changes | handlers overlap, answers overtake each other, the cache is marked fresh before the list is there |
| Import and export | `utils/src/portation`, the commands `import`, `export` | none of their own | `import`, `export` | imports and exports of a path overlap |
| Start-up, RPC commands, CLI, interfaces, key manager, cipher | `daemon/src/common`, `cli`, `client`, `rpc-interfaces`, `key-manager`, `cipher` | none, or fixed at start | wiring, parsing, cryptography | - |

### 1.2 How they interact

```
 RPC commands ──> operation queue ──> file system ──> replicated database
      │                 │                  │ file:added          ▲
      │                 ▼                  └──> revisions ───────┘
      └──────> pin references <── group sync (tick) <── entries of the database
                    │   ▲
     pin, unpin     │   │ getActive, downloadHeads
                    ▼   │
             Helia pin manager <── closures ── Downloader
                    │
                    ▼
        blockstore ── network, manual block broker <── Sneakernet
```

Everything runs in one Node.js process on one thread. Calls interleave at
`await`; what survives a crash is the datastore, the blockstore and the
replicated databases. There is no transaction over two writes anywhere.

### 1.3 What makes each component correct

* Helia pin manager: a pin reported COMPLETED has its whole DAG stored, recorded
  and protected; nothing of a DAG that still downloads is forgotten, whoever
  shares its blocks; a pin that is removed leaves nothing behind; every pin
  completes in the end.
* Pin references: a cid is pinned exactly while some key refers to it.
* Downloader: at most `slots` closures of a pipeline run, no block is downloaded twice
  at once, and what some peer has is downloaded in the end.
* Group sync: the references follow the entries of the database: each entry that
  stays is processed at least once, and the last one wins.
* Operation queue: operations run one at a time, from their beginning, until one
  performance was whole; after that never again.
* File system, revisions: no revision is stored over another one; selections that
  overlap and repeat leave a history that reaches back.
* Groups: what was joined or created is served after every restart, what is
  configured is served in the end, and a start-up does not fail on what an earlier run left.
* Block broker: a wanted block is answered or rejected, once, to everyone waiting.
* Sneakernet, peer sync: what somebody needs and somebody has arrives.
* RPC: every request is answered or rejected, and an abort reaches its method and no other.
* Mount: what a directory lists is found, and the mount catches up with the daemon.

`PROJECT.json` lists, under `hazards`, the places of the code where these can go
wrong, with the properties that cover each one.

## 2. The modules

### 2.1 One module per component, one composition per run

| Component | Modules | Runs |
|---|---|---|
| Helia pin manager | `HeliaPinManager`, `HeliaPinManagerInv`, `HeliaPinManagerProofs`, `MCHeliaPinManager`, `MCPinLive` | `pin_download`, `pin_calls`, `pin_live`, `pin_stuck` |
| Pin references | `References`, `ReferencesInv`, `ReferencesProofs`, `MCReferences` | `refs_calls` |
| Operation queue | `AtLeastOnce` (what it promises), `OperationManager`, `OperationManagerProofs`, `MCFollow` | `follow` |
| File system | `FileSystem`, `Files`, `FilesProofs`, `MCFiles` | `files` |
| Revisions | `SelectRevisions` (the selection), `Retention` (its repeated use), `Revisions` (on top of `FileSystem`), `Files`, `FilesProofs`, `RevisionKeys`, `DecodingProofs` | `files`, `revs_alike` |
| Import and export | `Portation`, `Files`, `FilesProofs` | `files` |
| DAG utilities | `DagJson`, `DecodingProofs`, `DagSize`, `Files`, `FilesProofs`; the local walk is in `HeliaPinManager` | `files` |
| Groups and start-up | `Groups`, `Daemon` (on top of it), `DaemonProofs`, `MCDaemon` | `daemon` |
| Group sync, Downloader | `GroupSync`, `Downloader`, `Follow`, `FollowProofs`, `MCFollow` | `follow` |
| Scheduler | `Schedule` | `schedule` |
| Sneakernet, peer sync | `Sneakernet`, `PeerSync`, `MCExchange` | `exchange` |
| RPC, mount, manual block broker | `Rpc`, `Fuse`, `ManualBlockBroker`, `Clients`, `ClientsProofs`, `MCClients` | `clients` |

Components whose states meet in the code are composed so that they interleave: `Revisions` extends
`FileSystem` (the listeners of `file:added` run beside the queue and beside writes), `Daemon` extends `Groups`
(the start-up and the uploads beside the groups), `References` has the rows of the Helia pin manager and the
edit command as a caller, `Downloader` has its heads, `Sneakernet` the wants of the broker, and `AtLeastOnce`
is refined by `OperationManager`.

`Files`, `Follow` and `Clients` bring together what the files of a group are made of (`Revisions`, `Retention`, `DagSize`, `Portation`), how a daemon
follows its groups (`GroupSync`, `Downloader`) and what clients see of it (`Rpc`, `Fuse`, `ManualBlockBroker`). They declare the constants
and variables of their parts, one part under its own names and the others as instances, and name the properties of each part. The
modules with proofs and the modules for TLC both extend them, so that a theorem is about the very formula that a run checks; only the
specification differs, since each theorem is about its own component.

`MCFiles`, `MCFollow` (with `OperationManager`), `MCExchange` and `MCClients` put modules that share no state side by side. Each has a
variable `which`, chosen in its initial states; only the chosen component moves, and the others stay
in their initial states, where their invariants hold. An interleaving of two components without
shared state shows nothing that each does not show alone, so nothing is lost, and a component may be
chosen with several bounds or instances (`files` and `queue` are both `FileSystem`, `groups` and `revisions` both
`GroupSync`, `calls` and `alone` both `Rpc`, `mount` and `old` both `Fuse`). The fairness of such a module is that of the chosen
component, which is written either as a disjunction (`MCExchange`) or by guarding every conjunct with
the choice (`MCFollow`, `MCClients`), and a liveness property says for which choice it is.

### 2.2 The runs

| Run | Configuration | Checks | States |
|---|---|---|---|
| `pin_download`, `pin_calls`, `pin_live` | section 3.4 | | |
| `refs_calls` | section 4.3 | | |
| `files` | eight scenarios, sections 6 and 7 | ten properties | 1.2 million |
| `daemon` | two groups, one configured, one client, two stops, one crash, one failure, two uploads; fair | `JoinedServed`, `ServedIsStored`, `StartsKnown`, `ConfigServed` | 1.3 million |
| `follow` | four scenarios, sections 5, 8.2 and 8.3; fair | `SyncedIsPinned`, `OneEach`, `IInv`, `ChangesFollow`, `Completes`, `PromiseKept`, `AllFinish` | 397 thousand |
| `exchange` | two scenarios, section 8.4; fair | `FirstArrives`, `Arrives` | 52 thousand |
| `clients` | five scenarios, section 9; fair | `MethodsAborted`, `ListedIsFound`, `WantsAreWaitedFor`, `CallsEnd`, `CatchesUp` | 84 thousand |
| `pin_stuck`, `revs_alike`, `schedule` | the smallest instances | violations, sections 3.6, 6.5 and 8.4 | |

The type invariants of the modules are conjuncts of the invariants of these runs, or of `IInv`. Deadlock is
checked in `pin_download`, `pin_calls`, `refs_calls`, `follow` (where the queue of operations may come to its end, step `Rest` of `MCFollow`), `exchange` and `daemon`; elsewhere everything that was
asked for may be done, and the configuration says so.

### 2.3 What is left

Composing `References` with `HeliaPinManager` through an abstract row of a pin that the latter implements;
drives that visit three daemons. Proofs: safety properties of `PeerSync` and `Sneakernet`, of which so far only the liveness is
stated and checked.

## 3. The Helia pin manager

### 3.1 State

| Variable | Code |
|---|---|
| `pins` | `Pins` table: cid -> status (`NOTFOUND` when there is no row) |
| `downloads`, `blocks` | the pairs (pinned by, cid) that have a row in `Downloads`, `Blocks` |
| `blockstore` | the blocks in Helia's blockstore |
| `heliaPins`, `refs` | Helia's `/pin/...` records and `/pinned-block/...` references |
| `caller` | calls of `pin`, `unpin`, `pinLocal` in progress: where, for which pin, and the locals |
| `batch` | the Downloader's call of `downloadHeads` and the closures not invoked yet |
| `worker` | closures that run, one per slot |
| `run` | `activeDownloads`: per cid the one `downloadSingleWithoutCache`, its locals and its progress |
| `walked`, `raced` | history, read by no action (see 3.3) |

`pins`, `downloads`, `blocks`, `blockstore`, `heliaPins` and `refs` survive a
crash, the rest does not.

The DAGs are a constant: `Links` gives the links in each block and `Dag[p]` is
the least link-closed set that holds `p`. It is written as an intersection so
that no recursion is needed. Links are hashes, so `Links` is assumed acyclic.

### 3.2 Actions

An action is the code between two awaits together with the datastore call that
ends it. A `Promise.all` over rows is a set of pending writes that complete in
any order (`RunRecord`, `RunLink`, `RunClear`, `UnpinDelete`), and a step of its
own when all are done. A datastore query is one read of a snapshot.

* `pin`: `PinGet`, `PinPut`, `PinRoot`. `unpin`: `UnpinGet`, `UnpinDestroy`,
  `UnpinRm`, `UnpinRefsRead`, `UnpinRefsPut` (Helia's `pins.rm`, which deletes its record, walks
  the DAG and reads and writes the references of each block), `UnpinList`, `UnpinDelete`, `UnpinDone`. `pinLocal`: `LocalGet`,
  `LocalPut`, `LocalBlock`, `LocalMissing`, `LocalRefsRead`, `LocalRefsPut`,
  `LocalRow`, `LocalPinRef`, `LocalComplete`.
* `downloadHeads`: `HeadsOpen` reads the pin, `HeadsList` lists at most `Limit`
  heads (any of them: the order of keys says nothing about the DAG) and drops those
  whose run is active, `Invoke` starts a closure in a free slot and joins or starts a
  run.
* A run: `RunQuery` (who waits for this block), `RunFetched` or `RunAborted`,
  `RunRefsRead`, `RunRefsPut`, `RunRecord`, `RunRecorded`, `RunLink`,
  `RunLinked`, `RunClear`, `RunDone`.
* The end of a closure: `CheckHeads`, `AddPinRef`, `Complete`.
* `Crash` forgets the volatile state between any two steps.

`RunLink` keeps a detail of the code that looks like a slip: `getOrPut` of the
downloads table looks up (cid, pin) and writes (pin, cid), so a row is left out
when the swapped one exists. The proof shows why this is harmless: the swapped
row would need each block to be below the other.

Left out: the depth limit (every pin is created with the largest integer as its
depth, so the comparison never stops a walk), events, sizes and timestamps, read-only
queries, and `getOrPut` of `blocks`, whose lookup and write are one step
because the second writer writes the same row.

### 3.3 Properties

Safety:

* `CompletedWhole`: a COMPLETED pin has its whole DAG in the blockstore and in
  `blocks`, and a Helia pin.
* `NothingForgotten`: while a pin has download rows, every block of its DAG is
  recorded or below a row that is left.
* `UnpinClean`: when an unpin is over, nothing of the pin is left.

Liveness: `Arrives` (every block of a pin arrives), `Downloaded` (the pin is
reported COMPLETED), and `Converges`: `pin` looks for the pin in one step and writes it in
another (`pin-manager.ts:113-122`), so the slower of two calls sets a pin back from COMPLETED to DOWNLOADING and queues
its root again, beside closures of the first download that still complete it. All the same it ends with the pin COMPLETED
for good and whole. `Converges` makes an exception of pins that share blocks with another pin, because of 3.6.

Nothing is stated of `refs`. A reference is read in one step and written in another (`utils.ts:42-56`), by runs, by
`pinLocal` and by Helia's `pins.rm`, and one of two writers of a block loses what the other wrote; no document of the
repository promises anything about it, and no action or property of the module depends on `refs`.

`raced` is the set of pins for which an unpin overlapped a download, or another
call, of the same pin, or was cut off by a crash. The code does not serialise
these and the result is arbitrary (section 10), so the safety
properties speak of the other pins. A pin that was raced once stays in the set.
`walked` is the set of rows that were deleted because their block was processed;
the inductive invariant needs it to tell a row that was never written from one
that is done with.

### 3.4 Runs

| Run | Instance | Shows |
|---|---|---|
| `pin_download` | pins `r` and `a` inside it, `b` below both; two slots, one caller, time-outs, crashes | the safety properties of downloads with shared runs |
| `pin_calls` | `r -> a`, `r` pinned; two callers of everything, two slots, time-outs, crashes | the inductive invariant `IInv`, and `UnpinClean` |
| `pin_live` | the diamond of `pin_download`, with one caller for both pins or two callers for `a`; fairness, time-outs | every block arrives; a pin that is pinned twice at once comes to rest |
| `pin_stuck` | two pins that share a block, one slot | violation of `Downloaded`: see 3.6 |

Two pins that are unpinned beside each other are the business of the proofs (3.7), which hold
for any number of pins; the inductive invariant they rest on is checked in `pin_calls`.

Why these bounds are enough: a block with two parents, a pin inside another pin
and a leaf are the shapes that the code tells apart, and three cids give all of them.
Two slots suffice for two closures of one pin to end together and for a closure to
join a run started for another pin. A third caller would only repeat what two do,
since calls meet only in the tables. `Limit` is not below the number of rows in
these runs, so `HeadsList` may return all of them; a smaller limit hands out
fewer closures and reaches the same states in later rounds. `pin_calls` stops exploring (`CONSTRAINT SomePinUnraced`) where all pins are
raced, since there the properties say nothing. Symmetry of slots and callers is
used in the safety runs only: they are interchangeable in `Spec`.

Deadlock is checked in the safety runs. In the runs with fairness there is no
unpin, and everything may be completed and at rest: they turn the check off.

### 3.5 Fairness

`FairSpec` adds: a call of `pin` that has begun runs on, and so do runs, closures
and the handing out of closures (weak fairness: nothing else disables them). `RunFetched` is
strongly fair: attempts may time out (`RunAborted`), but a block that is asked
for again and again arrives in the end, which is what having a peer with the
block means. `HeadsOpen(p)` is strongly fair because each round of the Downloader
(`daemon/src/common/downloader/index.ts:116-127`) visits every active pin, while
the single `batch` may be busy with another one. Nothing is assumed about who
calls `pin`, nor that attempts time out.

### 3.6 The pin that never completes

`pin_stuck` violates `Downloaded`. Two pins share a block. A run deletes the download rows of all
pins that waited for it (`pin-manager.ts:293-294`), but only the pin whose closure started or joined
the run is looked at for completion (`:201-204`). The other one has all its blocks and no rows, so
`downloadHeads` hands nothing out for it any more, and it stays DOWNLOADING for ever. Section 10 has
the other disagreements of this component.

### 3.7 Proofs

The theorems hold for every value of the constants that satisfies the
assumptions: pins are cids, links lead to cids, the DAGs have no cycle
(`AcyclicAssumption`: links are hashes), `Limit` is positive, and `None` is no cid.

| Theorem | States |
|---|---|
| `TypeCorrect` (`HeliaPinManagerProofs`) | `Spec => []TypeOK` |
| `InvCorrect` | `Spec => []IInv` |
| `CompletedCorrect` | `Spec => []CompletedWhole` |
| `UnpinCorrect` | `Spec => []UnpinClean` |
| `NothingForgottenCorrect` | `Spec => []NothingForgotten` |

The theorems are in `HeliaPinManagerProofs`. None of the properties is inductive. `HeliaPinManagerInv` defines the
strengthening `IInv`, which the run `pin_calls` also checks. What each part is for:

* `RacesSeen`: an overlap of an unpin with other work is in `raced`, so every
  other part may assume that an unraced pin is only unpinned alone.
* `RowsBelow`, `RunShape`: a row names a block of its pin's DAG, and a run only has
  writes left for the pins in its snapshot. With acyclicity this
  makes the swapped lookup of `getOrPut` in `RunLink` harmless.
* `RunProgress` (`Serves`): a run gives up the row of a pin only after it has
  recorded the block for the pin and queued all links for it.
* `Frontier` (`Passed`): so a block whose row is gone (`walked`) is recorded, stored,
  and each of its links has a row or is walked too.
* `RootCovered` (`Rooted`): the root of a pin that somebody works on has a row or is walked.
* `UnpinProgress`, `Absent`: how far an unpin has come, and that nobody has work on
  a pin that is not there.
* `LocalProgress` (`Walks`): the walk of `pinLocal` has recorded what it visited and
  still holds the links that it has to follow.
* `CompletingWhole`: a closure that is about to complete its pin found the whole DAG.

The step from the frontier to the whole DAG is an induction along links, but needs
no induction theorem: `Dag[p]` is the least closed set that holds `p`, so it is
inside any closed set that does (`DagLeast`). When `CheckHeads` finds no rows,
the walked blocks are such a set (`HeadsDone`); when there are rows, the walked blocks
together with the DAGs below the rows are (`NothingForgottenCorrect`).

The proof that a step keeps `IInv` goes part by part (`RunKept`, `FrontierKept`,
`RootKept`, ..., one lemma each). They rest on lemmas that say what a step can change of
one pin: rows of a pin go only with the run of the block or with its unpin
(`CallerMoves`, `RunMoves`, `RunDown`, `UnpinSteps`, `StepGrows`), and an
unraced pin sees one of the two at a time (`NoRace`). `InvCrash` is the step of
a crash: the tables alone satisfy the parts about tables, and the others speak of
volatile state that is gone.

### 3.8 Only model-checked

The liveness properties (`Arrives`, `Converges`, `Downloaded`): liveness under fairness is out of the prover's reach.

## 4. The references of the daemon

### 4.1 State and actions

`refs` is the datastore of `daemon/src/common/pin-manager` (key -> cid, `None` when
there is no record) and `status` the row of each cid in the Helia pin manager,
where every stage from DOWNLOADING to COMPLETED is `"PINNED"`; both survive a crash. `call`
holds the calls in progress: the sync of a group, the upload operations and the
edit command run concurrently and are not serialised by key or cid. `raced` and `cut`
are history: the cids whose calls overlapped (another call on the same key, or on the same
cid) and those whose call was cut off by a crash.

* `Put`, `Remove`, `Edit` start a call. `put` begins with `remove`, also when the cid
  stays the same; `edit` puts the cid that it has read.
* `Get` reads the reference, `Count` the keys of its cid, `Delete` deletes the
  reference; `Store` ends a `put`.
* `UnpinGet`, `UnpinDestroy`, `UnpinDelete`, `PinGet`, `PinPut` are `unpin` and `pin` of
  the Helia pin manager as far as they touch the row. They are separate steps since
  `pin` returns at once for a cid that is only marked DESTROYED.
* `Crash` drops the calls. Nothing resumes them here: the sync repeats an entry that it has
  not recorded, which belongs to `GroupSync`.

### 4.2 Properties

* `Protected`: a cid with a reference that no call works on stays pinned.
* `NoLeak`: what is pinned has a reference, or is about to get one.
* `Resumable`: a cid marked DESTROYED has a reference left, also after crashes, because
  `remove` deletes the reference last.

The first two speak of cids that are neither raced nor cut, the third of cids that are not
raced. The overlap matters: see section 10.

### 4.3 The run `refs_calls`

Three keys, two cids, two callers, crashes: the properties above and the inductive invariant.
Two callers are enough for any overlap of two calls; a third key is one that rests
while the other two are at work, and two cids let a call move a key from one to the
other. Keys, cids and callers are interchangeable, hence the symmetry. States where both
cids are raced are not explored further (`SomeCidUnraced`). Deadlock is checked. What happens
where calls do overlap is in section 10.

### 4.4 Proofs

`ReferencesProofs` proves `Spec => []TypeOK`, `[]IInv`, `[]Protected`, `[]NoLeak` and
`[]Resumable` for any sets of keys, cids and callers. `IInv` (`ReferencesInv`) adds

* `RacesSeen`: every overlap is in `raced`, from which the lemma `Apart` follows: at most one call is at work on an unraced cid, and no other has its key;
* `KeyHeld`: a removal's key still refers to what it has read, and a put's key to nothing,
  so deleting and storing overwrite no other reference;
* `UnpinsOnly`: a call that unpins holds the only reference, and one that deletes without
  having unpinned leaves another;
* `AllMatch` (`Matches`): status and references of a cid agree up to the progress of the one
  call that works on it.

`Untouched` shows that a step of any other call changes nothing about the cid, and
`MatchKept` goes through the steps of the call itself.

## 5. The operation queue

`OperationManager` is `daemon/src/operation-manager.ts`. `store` holds the rows of the datastore, the only state
that a crash keeps; `phase` is where the process is (`start` is awaited before anything is served), `writing` the calls
of `add` whose row is being written, `queue` the p-queue, `replay` what `start` has read and not handed on yet, and `job` the
row whose operation runs. Actions: `Start`, `RunReplayed`, `Started`; `Add`, `Stored` (rows are written in any
order), `RunQueued`, `Returned`, `RowDeleted`; `Throws` (the row stays; in the replay the error ends the start-up) and `Crash`.

`AtLeastOnce` is what a caller may rely on: an accepted operation is performed from its beginning,
one at a time, until a performance was whole; only then is it finished, and it never runs again. `PromiseKept` says that
`OperationManager` implements it, with the operations that have a row as `pending`. Scenario `operations` of the run `follow` checks this, `IInv`, and
`AllFinish`: an operation whose row was written and that does not throw is finished in the end. Two operations may throw: one
that throws in a replay keeps the daemon from starting, and the rows behind it wait. `AllFinish` therefore assumes, besides weak
fairness of the event loop and of the restart, that operations throw only finitely often; crashes are bounded by `MaxCrashes`. Three operations are
enough for one that runs, one that waits and one whose row is being written.

`OperationManagerProofs` proves, for any operations, any of which may fail, and any number of crashes: `QueueSpec => []QueueTypeOK`,
`QueueSpec => []IInv` and the refinement `QueueSpec => PromiseKept`. The invariant is
needed because the refinement depends on keys: a key is never used by two rows at once, which holds since `start` continues
the counter after the largest key it has read (`KeysUnique`), and a row waits in one place only, so that no other performance can
begin between the return of an operation and the deletion of its row (`WaitingOnce`). `PromiseStep` goes through the
actions: `Stored` accepts, `RunReplayed` and `RunQueued` begin, `Returned` runs to the end, `RowDeleted` finishes, and all
else is a stutter.

## 6. Files and their history

### 6.1 `FileSystem`

One group's entries: `db` is the database, an entry a set of pieces that went into its content and a sequence number. `op` is
the operation of the upload queue, which stays until it is done (section 5); `call` is how far the worker
of the queue and each `write` command have come; `added` the `file:added` events.
`PutGet` and `PutWrite` are `FileSystem.put`, with its read of the sequence number and its write in two steps;
`OpPut`, `OpPinned`, `OpDelete`, `DeleteOne`, `DeleteEnd` are `upload-operations.ts`, including the place holder that `delete` leaves in
an empty tree; `WriteGet`, `WriteReturn` the write command. `Under` and `Above` say which paths a query for the key of a path, and for that of
the path without its last two names, yields. A crash drops the calls and the events; the operation is run again from its beginning.

* `SequenceFollows`: however often crashes repeat an operation, each version follows the one before it, as long as no write command has begun
  (`Unwritten`): beside one, two calls may read the same number.
* `DirectoryStays`: a delete that has ended has left an entry below its path without the last two names, also when it was cut off between its files
  and its place holder, and beside a write command. `upload-operations.ts:43` takes `slice(0, -2)`, which is the directory above the one that the path is
  in: the place holder of a deleted `/d/s/f` goes to `/d`, and the directory `/d/s` is gone with its last file (`Above` and `PlaceHolder` of `MCFiles`).
  Nothing is stated of the directory that the path is in.

Scenarios `queue` (three operations, two crashes, no write command, and the listeners of 6.2) and `files` (two operations, one write command, one crash) of the run
`files`: a directory, a file two levels below it, and the place holders of the directory and of the root. The module declares the largest bounds and `MCFiles` cuts them for each scenario (`Bounds`).

### 6.2 `SelectRevisions`, `Retention`, `Revisions`

`Select` is `select-revisions.ts`. Its dates are a recursive function of the time: the start of the day, and `PerInterval` steps back
for each of `Intervals`; the `log` strategy keeps the revision that is closest to each date. `Retention` applies
it after every write to what earlier selections have left, which is what happens to a file over years. `Reaches`: for every date between
the first write and now there is a revision closer to it than the interval that ends there. Scenario `write`:
intervals of 2, 4 and 8 units, two of each, pauses of one or two units, over more time than all dates
together cover; larger units only stretch the time.

`Revisions` composes the listener of `modules/revisions/setup.ts` with `FileSystem`: `RevPut`, then `RevSelect`, which
lists and selects, then one `RevDelete` after the other. Nothing waits for a listener, so
that several of them, and the queue, run beside each other. A listener selects with the strategy of its entry (`setup.ts:47`,
`RevisionStrategy`): the one its upload asked for (`StrategyOf`), and "none" for a place holder (`upload-operations.ts:58`).

* `RevisionsDistinct` (with `TypeOK`, `VersionsDistinct` in `Files`): no revision is stored over another one, although crashes repeat uploads, other files are
  deleted and listeners are late. It leaves out the paths of which an entry was ever deleted (`deleted`, a history variable): their numbers begin again.
* `HistoryLeft`: of a file all uploads of which asked for a history, with "all" or with "log", some revision is left at any time: selections that overlap,
  each with its own strategy, listing and date, do not delete together what each of them kept, whatever else is deleted meanwhile. It leaves out the
  files that were deleted themselves, and those whose name begins as that of another one (`BeginAlike`; 6.5 has what happens to them).

Scenario `revs`: two files, four uploads, two crashes, uploads with each of the strategies (`MCStrategyOf`), and an interval that is longer than one operation, so that
the date of a selection is before some revisions and after others. Operation n runs from 10n to 10n + 9, which is fine enough to order revisions and to
place them in intervals. There are no deletes here; scenario `queue` has them, with fewer operations. `HistoryLeft` holds
while all selections have some date in common (`DatesMeet`), that is, while no listener waits between its selection and its deletions for longer than all
dates together reach back: listeners that wait for five months, while a file is written shortly before and shortly after every
midnight, may delete together what each of them kept.

### 6.3 `RevisionKeys`

Keys of revisions are sequences of names: the version, the names of the path, the author, the number. `KeyFor` and `Decoded` are `pathToKey`
and `decodeKey`; `GetAll` the query by the text of a path, where a name may be the beginning
of a longer one (`Longer`); `List`, `Read`, `Export` and `ExportOne` the commands, beside changes of the database. `Decoded` drops the first
name only if it is the version, as `utils.ts:28` does. `KeysDecode`: every key says which revision it is. `ExportWhole`, beside any changes: what an export has written of a file is
what the revision that was asked for had at some time since the export began, and of what it has not written that revision was missing at some
time since then. It speaks of all files whose path begins with the text that was asked for, which takes in longer names. The history variable `held` has what each revision had since
then. Scenario `keys`: a file three names deep, one name of which is that of the version, and two whose names begin alike; two authors, numbers and contents, three changes.

`DecodingProofs` proves `KeysSpec => []KeysDecode` for any set of paths of any depth, and `KeysDistinct`: two revisions have the same key only if
path, author and number agree. The inductive invariant is that every key in the database was made by `KeyFor`. `ExportAlwaysWhole`
(`[]ExportWhole`) adds `ExportInv`: what each revision has now is in `held`, what is written was so at some time, and of a file that is neither written nor
left to do the revision was missing at some time. It rests on the lemma `ListingHasAll`: the query by text misses no file that has a revision.

### 6.4 Proofs about files and revisions

`FilesProofs` holds for any paths, whatever the queries for them yield, as long as a directory's place holder is among what a delete
of one of its files looks at (`TreeOK`, which TLC evaluates, like the other hypotheses, for the instances of the runs).

| Theorem | States | Hypothesis |
|---|---|---|
| `TypeCorrect` | `Spec => []TypeOK` | |
| `DirectoryStaysCorrect` | `Spec => DirectoryStays` | |
| `SequenceFollowsCorrect` | `Spec => SequenceFollows` | |
| `RevisionsDistinctCorrect` | `RevSpec => []VersionsDistinct` | |
| `HistoryLeftCorrect` | `RevSpec => []HistoryLeft` | `StrategiesOK`: the place holder has the strategy "none"; `DatesMeet`: some date is one of those of every selection |
| `ReachesCorrect` | `Write!Spec => []Reaches` | `Write!IntervalsOK`: every interval holds a whole number of the one before it, and no pause is longer than the first |

`FileInv` says how far the worker of the queue has come: `Working`, that it works on the operation of the row and stores content;
`Placing`, that a delete that writes does so at the place holder of the tree it looks at, which is there from then on. No other process deletes, so that
what `DeleteEnd` or the place holder found is still there. `Follows` says that the number which the worker is about to write still follows the one in the
database. With a write command beside it this is false, so that it is kept only under `Unwritten`: the lemmas `QueueStep`, `OnlyQueue` and `CrashUnwritten` say which steps
are left then, and that what was `Unwritten` after a step was so before it.

`RevInv` adds, for paths that were never deleted: no event and no revision is newer than its entry, and the one with the newest number has the entry's content (`Stored`);
events and revisions with one key have one content (`Unique`); what the worker has written is in the database until it is announced (`Written`). The numbers
of such a path only grow (`DeleteStores`: a step that takes an entry away puts its path into `deleted`); a delete lets them start at 0 again (section 10, `EveryAddKept`).

`HistoryInv` adds, for `HistoryLeft`, that of every path that keeps a history the revision is there that is closest, of all that were ever stored under the path, to
the date that all selections share (`Best`), and that no handler is about to delete it (`Anchored`). The invariant is about that revision because it is what every selection
with "log" agrees on, and one with "all" keeps everything (`KeepsBest`), whatever else the handler has listed and however much earlier or later than other handlers. That is where
`DatesMeet` is needed: with dates that all differ the closest revision of one selection is deleted by another (6.2). The steps that matter are a revision that is stored
(`PutAnchored`: it is closer than the best one so far, or not), a selection (`SelectAnchored`), and a deletion (`DeleteAnchored`). The conditions of `HistoryLeft` itself are needed as well: with a path that begins
as another one see 6.5, and with deletes of the path its numbers start again. If `f` is
put, put again, deleted and put again, the last upload overwrites the first revision, which has the same key. A handler that has listed before
is about to delete the revision of the second upload, since it kept the first one; a handler that lists after takes the second revision for the older, and deletes the
overwritten one. Four operations and one interval longer than all of them leave `f` without a revision.

`ReachesCorrect` is about real intervals (days, weeks, fortnights and months of two fortnights, `select-revisions.ts:5-9`, satisfy
`IntervalsOK` with any number of dates each). Its invariant, `RetentionInv`, says the same of today's date, which `Reaches` leaves out. The argument is that,
from one write to the next, a date either stays or moves by exactly one interval, and it moves only when the date before it has left that interval
(`DatesMove`). A date that stays is still reached by the revision that reached it, and one that moves by what reached the date before it, whose interval
is not longer; the selection keeps a revision that is as close (`ClosestIs`, `SelectedReach`). `Dates` is a recursive function, and that a function with its equations exists is
shown for every number of dates (`DateExists`) by the least number for which there were none: the library's induction takes an operator and cannot be used, but
its well-founded order of the natural numbers has least members (`LeastNat`), which does the same.

### 6.5 A history that another file deletes

`revs_alike` violates `HistoryKept`, which is `HistoryLeft` without the exception of names that begin alike, with the instance of scenario `revs`, except that the name of the file `y` begins with that of `x`.
`getAll` (`revisions.ts:62`) queries the keys that begin with the text of the path, so that the listener of an upload of `x`
(`setup.ts:41-60`) selects among the revisions of both files and deletes those of `y` that are not closest to a date. After a few uploads of `x` no revision of
`y` is left. `src/architecture.md:5`: "The daemon keeps a list of historical versions to provide more security in case of data corruption."

## 7. Forms in which data comes and goes

* `Portation`: `import` and `export` with the importer and the exporter. Paths are sequences of names; an import handles its files in any
  order, and several imports and an export overlap, also imports from one source into one target, into a target inside another one, and of different sources over each
  other. `RoundTrip`: each file that an export has written is one that some import had put at that place, and wherever an import that was over when the export began had put a file, some
  file is written. Where two imports put a file at one path, either may be there. Scenario `port`: every subset of a disk with three files, one of them
  in a nested directory, imported as a directory, as a nested one and as a file, into a target and one inside it. Where a file is in the way of a directory of another file the
  export throws, and has not ended in the sense of `RoundTrip`.
* `DagJson`: the tokenizer of `walkers.ts`, which looks up to seven tokens ahead to find links and bytes, and pushes what it does not
  use back on a stack. `JsonDecoded` compares what it gives the decoder with a reference definition of what a JSON value
  means (`Meaning`, a recursive function on the nodes of a value), for every value of up to two fields two deep with the two keys that matter, and of one field five
  deep with a third one; links and bytes are four levels of tokens at most, so that both lie inside. A value is given by its nodes and a rank that
  decreases from a node to its parts (`NodesOK`, which TLC evaluates for these values).
* `DagSize`: `getSize`. `AllCounted`: it reaches what the root leads to and nothing else, and a codec without a walker is never passed over; for every DAG of
  four blocks with every choice among four codecs (the walkers of `dag-cbor` and `json` do the same as those of `dag-json` and `raw`).

Proved in `DecodingProofs`: `JsonAlwaysDecoded` (`JsonSpec => []JsonDecoded`) for JSON values of any size and any keys, under `NodesOK`. The inductive invariant
`JsonInv`: what the decoder was given, followed by what the tokens ahead mean, is what the value means; and where `next` has
thrown, the meaning goes on with "error". The tokens ahead are those of several nodes, one after the other, since the tokenizer may be
anywhere in the value and has put back what it looked at. `Reads` says so without counting them, as the least relation that holds of nothing and of one more node in front
(`ReadsBegins`: it is taken apart the way it was made). Then there is one lemma for each way through `next` (`PlainMoves`, `LinkMoves`, `DataMoves`, `BailMoves`); they rest on
what the stack and the stream are after tokens were taken and put back (`GiveAhead`), and on what the first seven tokens say about the node that begins there
(`LookMap`, `LookField`, `LookInner`): that the fourth token is a "break" if and only if the link is alone, for instance. `Tokens` and `Meaning` exist by
the same argument as the dates of 6.4, on the rank.

Proved in `FilesProofs`:

* `AllCountedCorrect`, for DAGs of any number of blocks: what is counted or waits is reached, holds the root, and holds what every counted block links
  to (`SizeInv`). When nothing waits, the counted blocks are closed under links, and what is reached is in every such set. The lemma `AllTheLinks`: the
  sequence made of a finite set has all its members.
* `RoundTripCorrect`, for any disk of files of one block, any imports, sources and targets (`PathsOK`, which TLC evaluates
  for the scenario). `Importing`: every entry is what some call has put there, and what a call has put has an entry. `Exporting`: what
  is written is what was listed and is no longer waiting, it was listed from such entries, and a call that was over has all its files in the list (`Over`). `SplitPath`: a path below a target is the target and the rest, so
  that a file that is listed under the path of the export is written at the place it had. With a file of several blocks it is false (section 10).

## 8. Following groups and other daemons

### 8.1 `Groups` and `Daemon`

`Groups` has the three places of a group: opened by Welo (`open`), in the map that is served (`map`), and in the datastore (`stored`). Calls of
`add` (`adds`) come from the replay, from the bootstrap of the configured groups, and from clients; each goes
through `Fetched`, `AddOpen`, `AddSet` and `AddPut`, and a write may fail. `StopGroups` clears the map and aborts the fetches of the bootstrap only: what else has begun to add goes on,
puts its group into the map and stores it after the stop (or is refused by a Welo that has stopped, `AddOpenFails`), and `Exit` waits for all but fetches; `Crash` waits for nothing. `Daemon`
adds the order of the start-up (`HandleCommands`, `StartModules`, `FailSetup`, `Ready`) and the uploads that are replayed in it.

* `JoinedServed`: a group whose create or join has returned is served whenever the daemon is up.
* `ServedIsStored`: what is served is stored, or its write is on the way, or the last write of that group in this run has failed (`lost`).
* `StartsKnown`: a start-up ends with an error only after an import for a group that the daemon was not in, or after one for
  a group that it lists but whose create or join never returned, with a crash or a failing write in between.
* `ConfigServed`: if no fetch or write fails, the configured group is served in the end, unless a start-up has failed.

Run `daemon`: two groups are enough for one that is configured and one that is not; a client may join both, and races
the bootstrap for the first. Two stops and a crash give three restarts. Fairness: the event loop goes
on, fetches are answered, a daemon that is off is started again. Nobody has to stop it, create, join or import.

### 8.2 `GroupSync`

`tick.ts`, `entry-tracker.ts` and the methods that they run: `Begin` takes the snapshot of the database, `Skip` and `Yield` compare it with
the recorded hashes, `Read` takes the entry, `Remove` and `Put` set its pin (`pinManager.remove`, then `put`), `Record` stores the hash, `EndMethod` and `MethodError` end the pass; each is one
await of the code. `Change` is anybody's write to the database or deletion, `EditGet`, `EditRemove` and `EditPut` the edit command. With `ReadsLatest` it is `sync-groups`, which reads
the entry again after it was yielded, without it `sync-revisions`.

* `ProcessedIsPinned` (with `TypeOK`, `SyncedIsPinned` in `Follow`): an entry that counts as processed has the pin it asks for, whatever is changed and deleted and wherever an error or a crash cuts the pass off.
* `ChangesFollow` (`OthersFollow` for `sync-groups`): in the end what the group holds is what is pinned, through deletions, errors and crashes.

Both make two exceptions, which are real (section 10, `Follows`): the path of an edit that is at work, or that the pass or a crash came between (`Edited`), and a deletion of a path that had
come back after an earlier deletion (`Told`): the two are the same value in the database, and the tracker may have recorded the first one. An edit that nothing disturbs is no exception.

Scenarios `groups` (`sync-groups`: four changes or deletions, one error or crash, one edit) and `revisions` (`sync-revisions`: the same with stops of the tick instead of edits) of
the run `follow`. Two paths are enough for a pass that is cut off between two entries. Fairness: the timer of the tick fires and what it calls goes on.

### 8.3 `Downloader`

`NextPass` and `Draw` are the generators of passes, pins and batches that the pipeline pulls; `Closures` the heads that `downloadHeads` returns for the weight of a
pin (the first ones in the order of the datastore, without those that are being downloaded); `StartTask` a free slot; `Arrive` and `Fail` the ends of a closure. An error ends the pipeline (`Broken`) while its other
closures run on as `stray`; `Again` begins the next one. `Pause`, `Resume`, `StopLoop` and `StartLoop` are the commands, `RemovePin` and `DrawFails` a pin that
goes away after it was listed. Every closure has ten seconds of its own, so `Fail` may come at any time, for a block that a peer has as well as for one that
nobody has, and beside any other closures.

* `OneEach`: no block is downloaded by two pipelines at once.
* `Completes`: what some peer has and a pin needs is downloaded, although other blocks are with nobody (fewer than there are slots), closures time out, pins are removed, and the loop is paused and stopped.
  Only what is `Behind` may be missing: a batch takes as many heads as the weight of its pin, so that a pin with as many missing blocks in front never tries the rest (section 10, `Behind`).

Scenario `download`: two pins that share a block that nobody has; the first, of weight one, never comes to the block behind it, the second, of weight two, has to; two slots. Fairness: the event loop, the network and the timers
go on, and somebody resumes or starts again what was paused or stopped. `Calm` has what is assumed to end at some time: pauses and stops; time-outs of blocks that a peer has (it is not too slow for ever); and
time-outs while the loop has something to draw or start at once, since an attempt lasts ten seconds and those steps do not.

### 8.4 `Schedule`, `PeerSync`, `Sneakernet`

* `Schedule`: `put-schedule` with the keys that a new `Schedule` makes. The run `schedule` violates `AddedIsListed`, that what was added is in the schedule: `getSchedule` makes
  a `Schedule` for every call (`scheduler/index.ts:31`), whose counters begin at zero, so that every entry of a daemon gets the same key and takes the place of the one before (`schedule.ts:68-79`).
  `src/packages/cli/src/commands/put-schedule.ts:5` says "Add an item to the groups schedule."
* `PeerSync`: the loops of the command over peers and over the one iterator of databases; two calls that overlap; rounds that miss heads, fail, or meet
  writes. `FirstArrives`: every call ends, and what the first peer has arrives. That the peers after it are never asked is section 10, `SyncsAll`. Somebody calls the command again and again, and of the rounds that any calls have with a peer about
  a database not all fail or miss a head (strong fairness of a complete round).
* `Sneakernet`: a drive goes between two daemons, each of which holds the block that the other one needs. The commands write and read a
  manifest and a car file; the car is flushed after the command has returned (`Flush`), and a crash or a drive that is pulled out leaves it empty or a manifest
  torn. `Arrives`: each needed block arrives. It needs that a daemon is sent, again and again, while it is trying to get all it needs (strong fairness); attempts time
  out every ten seconds, and a manifest has only the wants of that moment. Heads of databases are stored by the import and
  read by nobody, and nothing in the daemon calls `provide`, so neither is state here. With three daemons on the tour the second one overwrites what
  the first one wrote for the third; no document says that more than two share a drive, and the run has two.

### 8.5 Proofs

`DaemonProofs` proves `JoinedServed`, `ServedIsStored` and `StartsKnown` as invariants of `DaemonSpec`, for any groups, clients, calls, stops, crashes and failures.
`GroupInv` is kept by every step of `Groups` and by those that the start-up makes (`GroupMove`):

* `Quiet`: until the daemon is up nothing but the replay adds, and nothing is open while it is off;
* `Opened`: what is in the map, or about to be, is open;
* `Serving`: of what is stored, each group is in the map or still to be replayed, or the replay is opening it (`Opening`) or putting it into the map (`Setting`); during the replay what is open is in the map or
  about to be, so that the replay is refused nothing it needs; and whoever writes a row has its group in the map;
* `Kept`: every group in the map is stored or its write is on the way (`InHand`), or its last write has failed (`lost`); `Unlost`: without a failure none has.

`DaemonInv` adds the uploads: each is for a group that was joined, or its import is remembered (`RowsJoined`), and its group is in hand until a crash or a failure (`RowsKept`). A
start-up that fails for good meets an upload for which neither is so (`DeadKnown`).

`FollowProofs` proves two invariants:

* `ProcessedIsPinned` of `GroupSync`, for any paths and versions, either method, and any changes, deletions, edits, stops, errors and crashes (`ConstantsOK` gives the constants their types only). `Seen`: versions are
  given out once, and of a path that has not come back a deletion that was seen is still there; so `Still`: what counts as processed has not changed since the snapshot either. `Fits`: the entry in hand, which is read after the snapshot, is the one
  that will be recorded unless the database went on. `Fitted`: what counts as processed has its pin, or an edit at work will put that very pin back (`Holds`), unless the pass or a crash came between.
* `OneEach` of `Downloader`, for any heads, pins and slots, with time-outs of any closure at any time. What has been drawn but not started is not being downloaded either, which is what leaving out the heads in flight is for.

## 9. Clients

* `Rpc`: connections with their numbers, requests, aborts and responses in the order of the two streams, and the ends
  of either side. `MethodsAborted` (`AbortedByOwn`, `SignalCancels` and `DisconnectCancels`): an abort reaches the method of its own request and no other, and a connection that
  closes aborts what it asked for. `CallsEnd` (`Settled`): every request of a running client is answered or rejected. Scenario `calls` has two
  clients with a request each, both number 1; scenario `alone` one client with two requests. The numbers of connections do not wrap in
  these instances. Fairness: both event loops go on, methods end, and a client notices that its socket was closed.
* `Fuse`: the cached list of a mount. `Query` marks it fresh before it asks; `List`, `Listed`, `Filtered` are the answers, which
  overtake each other; `Fails` a rejection, `Expire` the five seconds. `ListedIsFound`: what `readdir` lists is found by `getattr` and is what it was said to
  be. `CatchesUp`: the mount shows in the end what the daemon has, and with `--at` again and again a list without anything newer. Two handlers are enough
  for answers that overtake each other; two directories with a file each. Somebody looks at the mount again and again and the daemon rejects only finitely
  often. What follows the first test of the handlers of changes is never reached (section 10) and not modelled.
* `ManualBlockBroker`: `retrieve`, `provide`, `getWants` and the signals of three calls over two blocks. `WantsAreWaitedFor`: what is listed has a
  call that waits for it. `CallsEnd`: a call that waits for a promise whose owner is limited in time ends with the block or an error, whether or not it has a limit itself. Only some attempts
  are limited (`Timed`: those of the Downloader, ten seconds); `read.ts:24` calls `unixfs.cat` with no signal, and such a call, and whoever joins it, may wait for ever. The instance has two calls of the one kind and one of the other.

`ClientsProofs` proves for any connections, requests, methods and signals:

* `AbortedByOwnCorrect`: `TypeOK`, `AbortedByOwn` and `DisconnectCancels`, as long as no more connections are made than there are numbers (`ConstantsOK`; beyond them the numbers are given twice, section 10). `Numbered`: open
  connections have numbers of their own, under which the server finds them. `Queued`: what is on its way to the server is of its connection, a request is there once and its abort after it; so the controller
  that an abort finds is the one of its request. `Started`, `Responded` and `Handled` relate the states of a request on both sides.
* `SignalCancelsCorrect`, and with it `MethodsAbortedCorrect`: `SignalCancels`, if every request has a signal of its own (`OwnSignals`; section 10 has what happens otherwise). `Noticed`: while its client runs, a request whose signal has fired
  has its abort on the way, or in effect, or has ended.
* `ListedIsFoundCorrect`: `ListedIsFound` for any tree in which no name begins with another one and no file is below another one (`PlainNames`). It is about what `readdir` and `getattr` compute from one list, for every list.
* `WantsAreWaitedForCorrect`: the call that made the promise of a block waits for it itself (`Owned`). A call that joined
  may end or its signal may fire, but only the owner's end settles the promise, and then the entry goes.

## 10. Disagreements with what the repository says

Three of them are runs, `pin_stuck` (3.6), `revs_alike` (6.5) and `schedule` (8.4). The others are stated as invariants or temporal properties in the
modules and fail as well. To see a counterexample, define the property for its
scenario in the MC module, as the properties there are, and name it in the configuration, with the instance in the last column.

| Property | What the code does | Instance |
|---|---|---|
| `CompletedHasBlocks` (`HeliaPinManager`) | `unpin` does not wait for closures in flight: one that finds no heads writes the removed pin back as COMPLETED (`pin-manager.ts:204-213`). | `pin` and `unpin`, one caller |
| `RootQueued` | A crash between the two writes of `pin` (`:121-122`) leaves a pin that has nothing to download and that `pin` will not touch again. | `pin` and `crash`, one caller |
| `PinKeepsExisting` | Of two concurrent calls of `pin` that found nothing the slower one sets a completed pin back to DOWNLOADING (`:113-121`). | `pin`, two callers |
| `LastUnpins` (`References`) | Two references of a cid are replaced at once; each call counts the other one, neither unpins (`daemon/src/common/pin-manager/index.ts:93-102`). The comment at `:95` says "If we only have 1 reference be sure to unpin it." | `put` only, two callers |
| `WritesKept` (`FileSystem`) | Of two concurrent writes the later one puts back the content that it read (`commands/write.ts:21-40`). | two writers |
| `DeletesPath` | `getDir` matches the text of the path: deleting the file `/d` deletes `/da` (`file-system.ts:90`). | `Under` of a file has another one |
| `EveryAddKept` (`Revisions`) | A file that is deleted and uploaded again starts at number 0 and its revision replaces the first one (`file-system.ts:30-36`). | `delete` allowed, strategy `all` |
| `ListedIsRead` (`RevisionKeys`) | `list-revisions` also lists the revisions of longer names, without their paths (`revisions.ts:62`): what it lists for a file is not a revision of the file. | scenario `keys` |
| `Follows` (`GroupSync`) | A file that is deleted, comes back during a pass and is deleted again has its last deletion recorded already and stays pinned (`sync-groups.ts:14-32`, `entry-tracker.ts:38`); and an edit writes back the version it read (`edit.ts:17-30`). | run `follow`, either scenario of the sync |
| `AlreadyJoined` (`Groups`) | A join is told "group has already been joined" while the row is being written; the write is lost (`groups.ts:70-75`). | a crash |
| `StartsCleanly` (`Daemon`) | An import for a group that the daemon is not in, or whose row was lost, leaves its upload persisted and makes every later start fail (`operation-manager.ts:38`, `upload-operations.ts:23`). | run `daemon` |
| `Completes` (`Downloader`) | Without its hypothesis: blocks that nobody has keep their slots for ten seconds and the error then ends the pipeline; with as many of them as there are slots, the pins after them are never reached (`downloader/index.ts:83`). | two missing blocks, two slots |
| `Behind` (`Downloader`, as an exception of `Completes`) | Without it: a batch takes the first heads of a pin, as many as its weight, so that a pin of weight one never tries what follows one missing block (`downloader/index.ts:83`). | run `follow`, pin `p1` |
| `WaitingIsWanted` (`ManualBlockBroker`) | The signal of an old call deletes the entry of a newer one (`manual-block-broker/src/index.ts:18-21`). | run `clients` |
| `AbortedThrows` | A call that joins another one does not look at its own signal (`:10-14`). | run `clients` |
| `SentIsWritten` (`Sneakernet`) | The send command returns before the car file is written (`sneakernet/index.ts:141-143`). | run `exchange` |
| `AbortedByOwn` (`Rpc`) | Numbers of connections wrap at 65536 and are not compared with those in use (`rpc-server.ts:45`, `:95-100`). | `Modulus <- 1`, two clients |
| `SignalCancels` | Of two requests with one signal only the later one is cancelled (`rpc-client.ts:25-29`). | two requests with one signal |
| `ListedIsFound` (`Fuse`) | `startsWith` on texts of paths: the directory `/a` lists what is in `/ab` (`fuse/src/index.ts:96`, `:163`). | `<<"a", "ab">>` in `NamePrefix` |
| `Changes` | Every handler of a change refuses when `argv.at !== null`, and an option that is not given is undefined (`:211`). | scenario `mount` |
| `Answers` | Until the first list arrives other handlers get an undefined one (`:53-55`). | scenario `mount` |
| `SyncsAll` (`PeerSync`) | The iterator of databases is used up by the first peer (`commands/sync.ts:64-74`). | run `exchange` |
| `CountIsRight` (`DagSize`) | A block with two parents is counted twice (`utils/src/dag/index.ts:83`). | scenario `size` |
| `RoundTrip` (`Portation`) | A file of several blocks is written into a directory of its name, under its cid (`exporter.ts:10-18`). | a file of kind `"file"` on the disk |

A property that fails in one situation is checked without that situation, and the module says so: `CompletedWhole` speaks of
pins that were not raced, `OthersFollow` and `ProcessedIsPinned` leave out the path of an edit that was disturbed and a deletion after which the path had come back, `HistoryLeft` leaves out names that begin alike, `SequenceFollows` and `RevisionsDistinct` speak of a queue without write
commands beside it and the latter of files that were never deleted, `AbortedByOwn` is checked without a wrap, `ListedIsFound`
without names that begin alike and `RoundTrip` without files of several blocks.

## 11. What is proved and what is only checked

Proved for every value of the constants: sections 3.7, 4.4, 5, 6.3, 6.4, 7, 8.5 and 9; `PROJECT.json` lists the theorems. Every safety invariant and
action property that the passing runs check is stated by a theorem.
The constants are assumed to be what the code makes them: links lead to cids and have no cycles, paths are not empty, the values that
stand for "nothing" are not members of the sets they are used with. Where a theorem has a further hypothesis, the section of the theorem or section 10 says what it stands for in the code: that the
configured intervals and strategies are the program's, or that a situation is left out in which the property is false, and what the code does then.

Only model-checked, on the instances above:

* Every liveness property (`Arrives` of `pin_live` and of `exchange`, `Converges`, `AllFinish`, `ConfigServed`, `ChangesFollow`, `Completes`, `FirstArrives`, `CallsEnd`, `CatchesUp`): liveness
  under fairness is out of the prover's reach.

Recursive functions are within reach (`Dates`, `Tokens`, `Meaning`), as long as what is said of them can be
refuted by a least counterexample; recursive operators are not, and occur only in modules for TLC (`MCFiles`, which builds JSON values with them).

## 12. Not modelled

* The key manager and the cipher: pure cryptographic functions without state.
* The CLI, the client library, the interfaces and schemas of the RPC commands: argument parsing, validation and forwarding of calls.
* The configuration of the daemon (`libp2p.ts`, `parse-argv.ts`, `parse-config.ts`, `handle-events.ts`, `logger.ts`): read once and
  handed to libraries.
* Commands that only read or forward a call to libp2p (`addresses`, `connect`, `connections`, `count-peers`, `get-state`, `id`).
* Libraries: Welo, Helia, libp2p, the datastore, p-queue. What the code relies on is stated where it is used (mapped as external): a datastore keeps
  what was written and may be read at any time, a database changes at any time and is copied, `welo.open` throws for a database that is open.
* Encryption, priorities of files, sizes, time stamps, the events for the log, the depth limit of pins (every pin has the largest
  depth), framing and parsing of RPC messages.
* Benchmarks, scripts and test helpers.
