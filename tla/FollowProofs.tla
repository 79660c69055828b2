----------------------------- MODULE FollowProofs -----------------------------
(***************************************************************************)
(* Proofs about the parts of a daemon that follow a database: GroupSync,   *)
(* for any paths, changes, deletions, errors and crashes, and Downloader,  *)
(* for any DAGs, pins and slots.                                           *)
(***************************************************************************)
EXTENDS Follow, FiniteSetTheorems, TLAPS

Entries == 0..Deleted

Passes ==
  {[pc |-> "none"]}
    \cup [pc : {"next"}, snapshot : [Paths -> Entries], left : SUBSET Paths]
    \cup [pc : {"read"}, snapshot : [Paths -> Entries], left : SUBSET Paths, path : Paths]
    \cup [pc : {"next", "remove", "put", "record"}, snapshot : [Paths -> Entries], left : SUBSET Paths,
          path : Paths, entry : Entries]

Edits == {[pc |-> "none"]} \cup [pc : {"remove", "put", "done"}, path : Paths, pin : 0..MaxVersion, met : BOOLEAN]

SyncTypes ==
  /\ db \in [Paths -> Entries] /\ hash \in [Paths -> Entries] /\ pins \in [Paths -> 0..MaxVersion]
  /\ version \in 0..MaxVersion /\ returned \subseteq Paths
  /\ tick \in {"waiting", "method", "stopped"} /\ stopping \in BOOLEAN
  /\ pass \in Passes /\ edit \in Edits /\ (pass.pc = "none") = (tick # "method")

Chosen == pass.pc \in {"remove", "put", "record"}
Handling == pass.pc = "read" \/ Chosen

\* Versions have been given out up to `version`: the next one is new.
Known(v) == v <= version \/ v = Deleted

\* Of a path that has not come back, a deletion that was seen is still there.
Seen ==
  \A p \in Paths :
    /\ Known(db[p]) /\ Known(hash[p]) /\ (pass.pc # "none" => Known(pass.snapshot[p]))
    /\ p \notin returned => /\ hash[p] = Deleted => db[p] = Deleted
                            /\ pass.pc # "none" /\ pass.snapshot[p] = Deleted => db[p] = Deleted

\* What counts as processed has not changed since the snapshot either.
Still == \A p \in Paths : pass.pc # "none" /\ hash[p] = db[p] /\ Told(p) => pass.snapshot[p] = db[p]

\* The pin of a path, or what the edit at work on it will make of it; unless the pass or a crash came between.
Holds(p, pin) ==
  \/ Editing(p) /\ edit.pin = pin
  \/ ~Editing(p) /\ pins[p] = pin
  \/ edit.pc # "none" /\ edit.path = p /\ edit.met

\* The entry that is handled is the one that will be recorded, unless the database went on.
Fits ==
  /\ Handling => hash[pass.path] # pass.snapshot[pass.path]
  /\ Chosen /\ pass.snapshot[pass.path] = db[pass.path] /\ Told(pass.path) => pass.entry = db[pass.path]
  /\ pass.pc = "record" => Holds(pass.path, PinFor(pass.entry))

Fitted == \A p \in Paths : hash[p] = db[p] /\ Told(p) => Holds(p, PinFor(db[p]))

SyncInv == SyncTypes /\ Seen /\ Still /\ Fits /\ Fitted

LEMMA PinForType == ASSUME ConstantsOK, NEW e \in Entries PROVE PinFor(e) \in 0..MaxVersion
BY DEF ConstantsOK, Entries, Deleted, PinFor, Absent, NoPin

LEMMA SyncInit == ASSUME ConstantsOK, Init PROVE SyncInv
<1>1. 0 \in Entries /\ 0 \in 0..MaxVersion  BY DEF ConstantsOK, Entries, Deleted
<1>2. SyncTypes
  <2>1. db \in [Paths -> Entries] /\ hash \in [Paths -> Entries]  BY <1>1 DEF Init, Absent
  <2>2. pins \in [Paths -> 0..MaxVersion]  BY <1>1 DEF Init, NoPin
  <2> QED  BY <1>1, <2>1, <2>2 DEF Init, SyncTypes, Passes, Edits
<1>3. \A p \in Paths : db[p] = 0 /\ hash[p] = 0 /\ pins[p] = 0  BY DEF Init, Absent, NoPin
<1>4. pass.pc = "none" /\ edit.pc = "none" /\ version = 0 /\ 0 # Deleted  BY DEF Init, Deleted, ConstantsOK
<1>5. Seen
  <2>1. Known(0)  BY <1>4 DEF Known
  <2> QED  BY <1>3, <1>4, <2>1 DEF Seen
<1>6. Still /\ Fits  BY <1>4 DEF Still, Fits, Handling, Chosen
<1>7. Fitted  BY <1>3, <1>4 DEF Fitted, Holds, Editing, PinFor, Absent, NoPin
<1> QED  BY <1>2, <1>5, <1>6, <1>7 DEF SyncInv

\* What the fields of a pass are.
LEMMA PassFields ==
  ASSUME SyncTypes
  PROVE  /\ pass.pc # "none" => pass.snapshot \in [Paths -> Entries] /\ pass.left \subseteq Paths
         /\ Handling => pass.path \in Paths
         /\ Chosen => /\ pass.entry \in Entries
                      /\ pass \in [pc : {"next", "remove", "put", "record"}, snapshot : [Paths -> Entries],
                                   left : SUBSET Paths, path : Paths, entry : Entries]
BY DEF SyncTypes, Passes, Handling, Chosen

LEMMA EditFields ==
  ASSUME SyncTypes, edit.pc # "none"
  PROVE  edit \in [pc : {"remove", "put", "done"}, path : Paths, pin : 0..MaxVersion, met : BOOLEAN]
BY DEF SyncTypes, Edits

\* The steps of the pass at the pin manager.
LEMMA Written ==
  ASSUME ConstantsOK, SyncTypes, NEW pin \in 0..MaxVersion, Chosen, Write(pin)
  PROVE  /\ pins' \in [Paths -> 0..MaxVersion] /\ edit' \in Edits
         /\ pins'[pass.path] = pin /\ \A p \in Paths : p # pass.path => pins'[p] = pins[p]
         /\ Editing(pass.path) => edit'.pc = edit.pc /\ edit'.path = pass.path /\ edit'.met
         /\ ~Editing(pass.path) => edit' = edit
<1>1. pass.path \in Paths  BY PassFields DEF Handling
<1>2. CASE Editing(pass.path)
  <2>1. edit \in [pc : {"remove", "put", "done"}, path : Paths, pin : 0..MaxVersion, met : BOOLEAN] /\ edit.path = pass.path
    BY <1>2, EditFields DEF Editing
  <2>2. edit' = [edit EXCEPT !.met = TRUE]  BY <1>2 DEF Write
  <2> QED  BY <1>1, <1>2, <2>1, <2>2 DEF Write, SyncTypes, Edits
<1>3. CASE ~Editing(pass.path)
  BY <1>1, <1>3 DEF Write, SyncTypes
<1> QED  BY <1>2, <1>3

LEMMA Going ==
  ASSUME ConstantsOK, SyncTypes
  PROVE  /\ Remove => /\ Chosen /\ pass.pc = "remove" /\ Write(0) /\ 0 \in 0..MaxVersion
                      /\ pass' \in Passes /\ pass'.snapshot = pass.snapshot /\ pass'.path = pass.path /\ pass'.entry = pass.entry
                      /\ pass'.pc = IF PinFor(pass.entry) = 0 THEN "record" ELSE "put"
         /\ Put => /\ Chosen /\ pass.pc = "put" /\ Write(PinFor(pass.entry)) /\ PinFor(pass.entry) \in 0..MaxVersion
                   /\ pass' \in Passes /\ pass'.snapshot = pass.snapshot /\ pass'.path = pass.path /\ pass'.entry = pass.entry
                   /\ pass'.pc = "record"
<1>1. ASSUME Remove PROVE /\ Chosen /\ pass.pc = "remove" /\ Write(0) /\ 0 \in 0..MaxVersion
                          /\ pass' \in Passes /\ pass'.snapshot = pass.snapshot /\ pass'.path = pass.path
                          /\ pass'.entry = pass.entry /\ pass'.pc = IF PinFor(pass.entry) = 0 THEN "record" ELSE "put"
  <2>1. pass.pc = "remove" /\ Chosen /\ Write(0) /\ 0 \in 0..MaxVersion  BY <1>1 DEF Remove, Chosen, NoPin, ConstantsOK
  <2>2. PICK c \in {"record", "put"} : c = IF PinFor(pass.entry) = 0 THEN "record" ELSE "put"  OBVIOUS
  <2>3. pass' = [pass EXCEPT !.pc = c]  BY <1>1, <2>2 DEF Remove, NoPin
  <2>4. pass' \in Passes /\ pass'.snapshot = pass.snapshot /\ pass'.path = pass.path /\ pass'.entry = pass.entry /\ pass'.pc = c
    BY <2>1, <2>3, PassFields DEF Passes
  <2> QED  BY <2>1, <2>2, <2>4
<1>2. ASSUME Put PROVE /\ Chosen /\ pass.pc = "put" /\ Write(PinFor(pass.entry)) /\ PinFor(pass.entry) \in 0..MaxVersion
                       /\ pass' \in Passes /\ pass'.snapshot = pass.snapshot /\ pass'.path = pass.path
                       /\ pass'.entry = pass.entry /\ pass'.pc = "record"
  <2>1. pass.pc = "put" /\ Chosen /\ Write(PinFor(pass.entry)) /\ pass' = [pass EXCEPT !.pc = "record"]
    BY <1>2 DEF Put, Chosen
  <2>2. PinFor(pass.entry) \in 0..MaxVersion  BY <2>1, PassFields, PinForType
  <2>3. pass' \in Passes /\ pass'.snapshot = pass.snapshot /\ pass'.path = pass.path /\ pass'.entry = pass.entry
        /\ pass'.pc = "record"
    BY <2>1, PassFields DEF Passes
  <2> QED  BY <2>1, <2>2, <2>3
<1> QED  BY <1>1, <1>2

LEMMA SyncTypesKept == ASSUME ConstantsOK, SyncTypes, Next PROVE SyncTypes'
<1> USE DEF SyncTypes
<1>1. ASSUME NEW p \in Paths, Change(p) PROVE SyncTypes'
  <2>1. version' \in 0..MaxVersion /\ version' \in Entries /\ Deleted \in Entries
    BY <1>1 DEF Change, ConstantsOK, Entries, Deleted
  <2>2. db' \in [Paths -> Entries]  BY <1>1, <2>1 DEF Change
  <2>3. returned' \subseteq Paths  BY <1>1 DEF Change
  <2> QED  BY <1>1, <2>1, <2>2, <2>3 DEF Change
<1>2. CASE Begin
  <2>1. [pc |-> "next", snapshot |-> db, left |-> {p \in Paths : db[p] # Absent}] \in Passes  BY DEF Passes
  <2> QED  BY <1>2, <2>1 DEF Begin
<1>3. CASE StopTick \/ LoopEnds \/ StartTick
  BY <1>3 DEF StopTick, LoopEnds, StartTick
<1>4. ASSUME NEW p \in Paths, Skip(p) PROVE SyncTypes'
  <2>1. pass' = [pass EXCEPT !.left = pass.left \ {p}] /\ pass.pc = "next"  BY <1>4 DEF Skip
  <2>2. pass' \in Passes /\ pass'.pc = "next"  BY <2>1 DEF Passes
  <2> QED  BY <1>4, <2>1, <2>2 DEF Skip
<1>5. ASSUME NEW p \in Paths, Yield(p) PROVE SyncTypes'
  <2>1. pass.snapshot \in [Paths -> Entries] /\ pass.left \subseteq Paths /\ pass.pc = "next"  BY <1>5, PassFields DEF Yield
  <2>2. pass' \in Passes /\ pass'.pc = "read"  BY <1>5, <2>1 DEF Yield, Handed, Passes
  <2> QED  BY <1>5, <2>1, <2>2 DEF Yield
<1>6. CASE Read
  <2>1. pass.pc = "read" /\ pass.path \in Paths /\ pass.snapshot \in [Paths -> Entries] /\ pass.left \subseteq Paths
    BY <1>6, PassFields DEF Read, Handling
  <2>2. (IF ReadsLatest THEN db[pass.path] ELSE pass.snapshot[pass.path]) \in Entries  BY <2>1
  <2>3. pass' \in Passes /\ pass'.pc = "remove"  BY <1>6, <2>1, <2>2 DEF Read, Passes
  <2> QED  BY <1>6, <2>1, <2>3 DEF Read
<1>7. CASE Remove
  <2>1. Chosen /\ Write(0) /\ 0 \in 0..MaxVersion /\ pass' \in Passes /\ pass.pc = "remove"
        /\ pass'.pc = IF PinFor(pass.entry) = 0 THEN "record" ELSE "put"
    BY <1>7, Going
  <2>2. pins' \in [Paths -> 0..MaxVersion] /\ edit' \in Edits  BY <2>1, Written
  <2> QED  BY <1>7, <2>1, <2>2 DEF Remove
<1>8. CASE Put
  <2>1. Chosen /\ Write(PinFor(pass.entry)) /\ PinFor(pass.entry) \in 0..MaxVersion /\ pass' \in Passes
        /\ pass.pc = "put" /\ pass'.pc = "record"
    BY <1>8, Going
  <2>2. pins' \in [Paths -> 0..MaxVersion] /\ edit' \in Edits  BY <2>1, Written
  <2> QED  BY <1>8, <2>1, <2>2 DEF Put
<1>9. CASE Record
  <2>1. pass.pc = "record" /\ Chosen /\ pass.path \in Paths /\ pass.snapshot \in [Paths -> Entries]
    BY <1>9, PassFields DEF Record, Handling, Chosen
  <2>2. hash' \in [Paths -> Entries]  BY <1>9, <2>1 DEF Record
  <2>3. pass' = [pass EXCEPT !.pc = "next"]  BY <1>9 DEF Record
  <2>4. pass' \in Passes /\ pass'.pc = "next"  BY <2>1, <2>3, PassFields DEF Passes
  <2> QED  BY <1>9, <2>1, <2>2, <2>4 DEF Record
<1>10. CASE EndMethod \/ MethodError
  <2>1. pass' \in Passes /\ pass'.pc = "none"  BY <1>10 DEF EndMethod, MethodError, Passes
  <2> QED  BY <1>10, <2>1 DEF EndMethod, MethodError
<1>11. CASE Crash
  <2>1. edit' \in Edits  BY <1>11, EditFields DEF Crash, Edits
  <2>2. pass' \in Passes /\ pass'.pc = "none"  BY <1>11 DEF Crash, Passes
  <2> QED  BY <1>11, <2>1, <2>2 DEF Crash
<1>12. ASSUME NEW p \in Paths, EditGet(p) PROVE SyncTypes'
  <2>1. edit' \in Edits  BY <1>12 DEF EditGet, Edits
  <2> QED  BY <1>12, <2>1 DEF EditGet
<1>13. CASE EditRemove \/ EditPut
  <2>1. edit.path \in Paths /\ edit.pin \in 0..MaxVersion /\ edit' \in Edits
    BY <1>13, EditFields DEF EditRemove, EditPut, Edits
  <2>2. NoPin \in 0..MaxVersion  BY DEF NoPin, ConstantsOK
  <2> QED  BY <1>13, <2>1, <2>2 DEF EditRemove, EditPut
<1> QED
  BY <1>1, <1>2, <1>3, <1>4, <1>5, <1>6, <1>7, <1>8, <1>9, <1>10, <1>11, <1>12, <1>13 DEF Next, Sync

\* Of the steps, only these touch what was seen of the database.
LEMMA StepKinds ==
  ASSUME ConstantsOK, SyncTypes, Next
  PROVE  \/ \E q \in Paths : Change(q)
         \/ Begin \/ Record
         \/ /\ UNCHANGED <<db, version, hash, returned>>
            /\ pass'.pc = "none" \/ (pass.pc # "none" /\ pass'.snapshot = pass.snapshot)
<1> DEFINE Quiet == /\ UNCHANGED <<db, version, hash, returned>>
                    /\ pass'.pc = "none" \/ (pass.pc # "none" /\ pass'.snapshot = pass.snapshot)
<1>1. CASE LoopEnds \/ StartTick \/ StopTick \/ EditRemove \/ EditPut \/ \E q \in Paths : EditGet(q)
  BY <1>1 DEF LoopEnds, StartTick, StopTick, EditRemove, EditPut, EditGet
<1>2. CASE EndMethod \/ MethodError \/ Crash
  BY <1>2 DEF EndMethod, MethodError, Crash
<1>3. CASE Read \/ \E q \in Paths : Skip(q) \/ Yield(q)
  <2>1. pass.pc # "none" /\ pass'.snapshot = pass.snapshot
    BY <1>3, PassFields DEF Read, Skip, Yield, Handed, SyncTypes, Passes
  <2> QED  BY <1>3, <2>1 DEF Read, Skip, Yield
<1>4. CASE Remove \/ Put
  <2>1. pass.pc # "none" /\ pass'.snapshot = pass.snapshot  BY <1>4, Going DEF Chosen
  <2> QED  BY <1>4, <2>1 DEF Remove, Put
<1> QED  BY <1>1, <1>2, <1>3, <1>4 DEF Next, Sync

\* A value that was known before the database changed and is there now was there before.
LEMMA ChangeTells ==
  ASSUME ConstantsOK, SyncTypes, NEW q \in Paths, Change(q), NEW p \in Paths, NEW v \in Entries, Known(v),
         p \notin returned /\ v = Deleted => db[p] = Deleted, v = db'[p], Told(p)'
  PROVE  v = db[p] /\ Told(p)
<1>1. CASE p # q
  <2>1. db'[p] = db[p] /\ (p \in returned' <=> p \in returned)  BY <1>1 DEF Change, SyncTypes
  <2> QED  BY <2>1 DEF Told
<1>2. CASE p = q /\ db' = [db EXCEPT ![q] = version'] /\ version' = version + 1
  <2>1. db'[p] = version + 1  BY <1>2 DEF SyncTypes
  <2>2. version < MaxVersion /\ version \in Nat /\ MaxVersion \in Nat /\ v \in Nat
    BY DEF Change, ConstantsOK, SyncTypes, Entries, Deleted
  <2>3. v # version + 1  BY <2>2 DEF Known, Deleted
  <2> QED  BY <2>1, <2>3
<1>3. CASE p = q /\ db' = [db EXCEPT ![q] = Deleted] /\ UNCHANGED returned
  <2>1. db'[p] = Deleted /\ p \notin returned  BY <1>3 DEF SyncTypes, Told
  <2> QED  BY <2>1 DEF Told
<1> QED  BY <1>1, <1>2, <1>3 DEF Change

LEMMA SeenKept == ASSUME ConstantsOK, SyncTypes, Seen, Next PROVE Seen'
<1> SUFFICES ASSUME NEW p \in Paths
             PROVE  /\ Known(db[p])' /\ Known(hash[p])' /\ (pass'.pc # "none" => Known(pass.snapshot[p])')
                    /\ p \notin returned' => /\ hash'[p] = Deleted => db'[p] = Deleted
                                             /\ pass'.pc # "none" /\ pass'.snapshot[p] = Deleted => db'[p] = Deleted
  BY DEF Seen, Known, Deleted
<1>1. /\ Known(db[p]) /\ Known(hash[p]) /\ (pass.pc # "none" => Known(pass.snapshot[p]))
      /\ p \notin returned => /\ hash[p] = Deleted => db[p] = Deleted
                              /\ pass.pc # "none" /\ pass.snapshot[p] = Deleted => db[p] = Deleted
  BY DEF Seen
<1>2. /\ db[p] \in Nat /\ hash[p] \in Nat /\ version \in Nat /\ MaxVersion \in Nat
      /\ pass.pc # "none" => pass.snapshot[p] \in Nat
  BY PassFields DEF SyncTypes, ConstantsOK, Entries, Deleted
<1>3. ASSUME NEW q \in Paths, Change(q)
      PROVE  /\ Known(db[p])' /\ Known(hash[p])' /\ (pass'.pc # "none" => Known(pass.snapshot[p])')
             /\ p \notin returned' => /\ hash'[p] = Deleted => db'[p] = Deleted
                                      /\ pass'.pc # "none" /\ pass'.snapshot[p] = Deleted => db'[p] = Deleted
  <2>1. hash' = hash /\ pass' = pass /\ version' = version + 1 /\ returned \subseteq returned'  BY <1>3 DEF Change
  <2>2. \A v \in Nat : v <= version => v <= version + 1  BY <1>2
  <2>3. Known(hash[p])' /\ (pass'.pc # "none" => Known(pass.snapshot[p])')
    BY <1>1, <1>2, <2>1, <2>2 DEF Known, Deleted
  <2>4. db'[p] \in {db[p], version + 1, Deleted}  BY <1>3 DEF Change, SyncTypes
  <2>5. version + 1 <= version + 1  BY <1>2
  <2>6. Known(db[p])'  BY <1>1, <1>2, <2>1, <2>2, <2>4, <2>5 DEF Known, Deleted
  <2>7. db[p] = Deleted /\ p \notin returned' => db'[p] = Deleted  BY <1>3 DEF Change, SyncTypes
  <2> QED  BY <1>1, <2>1, <2>3, <2>6, <2>7
<1>4. CASE Begin
  <2>1. pass'.snapshot = db /\ UNCHANGED <<db, hash, version, returned>>  BY <1>4 DEF Begin
  <2> QED  BY <1>1, <2>1 DEF Known, Deleted
<1>5. CASE Record
  <2>1. pass.pc = "record" /\ pass.path \in Paths /\ UNCHANGED <<db, version, returned>>
    BY <1>5, PassFields DEF Record, Handling, Chosen
  <2>2. pass'.snapshot = pass.snapshot  BY <1>5, <2>1, PassFields DEF Record, Chosen
  <2>3. hash'[p] = hash[p] \/ hash'[p] = pass.snapshot[p]  BY <1>5, <2>1 DEF Record, SyncTypes
  <2> QED  BY <1>1, <2>1, <2>2, <2>3 DEF Known, Deleted
<1>6. CASE /\ UNCHANGED <<db, version, hash, returned>>
           /\ pass'.pc = "none" \/ (pass.pc # "none" /\ pass'.snapshot = pass.snapshot)
  BY <1>1, <1>6 DEF Known, Deleted
<1> QED  BY <1>3, <1>4, <1>5, <1>6, StepKinds

LEMMA StillKept == ASSUME ConstantsOK, SyncTypes, Seen, Still, Next PROVE Still'
<1> SUFFICES ASSUME NEW p \in Paths, pass'.pc # "none", hash'[p] = db'[p], Told(p)'
             PROVE  pass'.snapshot[p] = db'[p]
  BY DEF Still
<1>1. ASSUME NEW q \in Paths, Change(q) PROVE pass'.snapshot[p] = db'[p]
  <2>1. hash' = hash /\ pass' = pass  BY <1>1 DEF Change
  <2>2. hash[p] = db[p] /\ Told(p)  BY <1>1, <2>1, ChangeTells DEF Seen, SyncTypes
  <2> QED  BY <2>1, <2>2 DEF Still
<1>2. CASE Begin
  BY <1>2 DEF Begin
<1>3. CASE Record
  <2>1. pass.pc = "record" /\ pass.path \in Paths /\ UNCHANGED <<db, version, returned>>
    BY <1>3, PassFields DEF Record, Handling, Chosen
  <2>2. pass'.snapshot = pass.snapshot  BY <1>3, <2>1, PassFields DEF Record, Chosen
  <2>3. hash'[p] = hash[p] \/ hash'[p] = pass.snapshot[p]  BY <1>3, <2>1 DEF Record, SyncTypes
  <2>4. Told(p)  BY <2>1 DEF Told, Deleted
  <2> QED  BY <2>1, <2>2, <2>3, <2>4 DEF Still
<1>4. CASE /\ UNCHANGED <<db, version, hash, returned>>
           /\ pass'.pc = "none" \/ (pass.pc # "none" /\ pass'.snapshot = pass.snapshot)
  <2>1. Told(p)  BY <1>4 DEF Told, Deleted
  <2> QED  BY <1>4, <2>1 DEF Still
<1> QED  BY <1>1, <1>2, <1>3, <1>4, StepKinds

\* A pin stays what it is, or what its edit will make of it, unless the pass writes it.
LEMMA HoldsKept ==
  ASSUME ConstantsOK, SyncTypes, Next, NEW p \in Paths, NEW pin, Holds(p, pin), ~(Chosen /\ pass.path = p /\ (Remove \/ Put))
  PROVE  (Holds(p, pin))'
<1>1. CASE UNCHANGED <<pins, edit>>
  BY <1>1 DEF Holds, Editing
<1>2. CASE Remove \/ Put
  <2>1. Chosen /\ pass.path # p /\ \E x \in 0..MaxVersion : Write(x)  BY <1>2, Going
  <2>2. pins'[p] = pins[p]  BY <2>1, Written
  <2>3. /\ Editing(pass.path) => edit'.pc = edit.pc /\ edit'.path = pass.path
        /\ ~Editing(pass.path) => edit' = edit
    BY <2>1, Written
  <2>4. CASE Editing(pass.path)
    <3>1. ~Editing(p) /\ ~Editing(p)' /\ edit.path # p  BY <2>1, <2>3, <2>4 DEF Editing
    <3> QED  BY <2>2, <3>1 DEF Holds
  <2>5. CASE ~Editing(pass.path)
    BY <2>2, <2>3, <2>5 DEF Holds, Editing
  <2> QED  BY <2>4, <2>5
<1>3. CASE Crash
  <2>1. CASE edit.pc \in {"remove", "put"}
    <3>1. edit' = [edit EXCEPT !.pc = "done", !.met = TRUE] /\ UNCHANGED pins  BY <1>3, <2>1 DEF Crash
    <3>2. edit'.pc = "done" /\ edit'.path = edit.path /\ edit'.met  BY <2>1, <3>1, EditFields
    <3> QED  BY <3>1, <3>2 DEF Holds, Editing
  <2>2. CASE edit.pc \notin {"remove", "put"}
    BY <1>1, <1>3, <2>2 DEF Crash
  <2> QED  BY <2>1, <2>2
<1>4. ASSUME NEW q \in Paths, EditGet(q) PROVE (Holds(p, pin))'
  <2>1. edit.pc = "none" /\ edit' = [pc |-> "remove", path |-> q, pin |-> pins[q], met |-> FALSE] /\ UNCHANGED pins
    BY <1>4 DEF EditGet
  <2>2. ~Editing(p) /\ pins[p] = pin  BY <2>1 DEF Holds, Editing
  <2> QED  BY <2>1, <2>2 DEF Holds, Editing
<1>5. CASE EditRemove \/ EditPut
  <2>1. edit.pc \in {"remove", "put"}  BY <1>5 DEF EditRemove, EditPut
  <2>2. edit \in [pc : {"remove", "put", "done"}, path : Paths, pin : 0..MaxVersion, met : BOOLEAN]  BY <2>1, EditFields
  <2>3. /\ edit'.path = edit.path /\ edit'.pin = edit.pin /\ edit'.met = edit.met
        /\ edit'.pc = IF EditRemove THEN "put" ELSE "done"
    BY <1>5, <2>1, <2>2 DEF EditRemove, EditPut
  <2>4. pins' = [pins EXCEPT ![edit.path] = IF EditRemove THEN NoPin ELSE edit.pin]
    BY <1>5 DEF EditRemove, EditPut
  <2>5. CASE p # edit.path
    <3>1. pins'[p] = pins[p]  BY <2>4, <2>5 DEF SyncTypes
    <3> QED  BY <2>3, <2>5, <3>1 DEF Holds, Editing
  <2>6. CASE p = edit.path
    <3>1. Editing(p) /\ (edit.pin = pin \/ edit.met)  BY <2>1, <2>6 DEF Holds, Editing
    <3>2. ~EditRemove => pins'[p] = edit.pin  BY <2>4, <2>6 DEF SyncTypes
    <3> QED  BY <2>3, <2>6, <3>1, <3>2 DEF Holds, Editing
  <2> QED  BY <2>5, <2>6
<1>6. CASE Begin \/ LoopEnds \/ StartTick \/ Read \/ Record \/ EndMethod \/ (\E q \in Paths : Skip(q) \/ Yield(q)) \/ StopTick
           \/ MethodError \/ \E q \in Paths : Change(q)
  BY <1>1, <1>6 DEF Begin, LoopEnds, StartTick, Read, Record, EndMethod, Skip, Yield, StopTick, MethodError, Change
<1> QED  BY <1>2, <1>3, <1>4, <1>5, <1>6 DEF Next, Sync

LEMMA FitsKept == ASSUME ConstantsOK, SyncTypes, Seen, Fits, Next PROVE Fits'
<1> DEFINE x == pass.path
<1>1. ASSUME NEW q \in Paths, Change(q) PROVE Fits'
  <2>1. UNCHANGED <<pass, hash, pins, edit>>  BY <1>1 DEF Change
  <2>2. (Handling => hash[x] # pass.snapshot[x])'  BY <2>1 DEF Fits, Handling, Chosen
  <2>3. ASSUME Chosen, pass.snapshot[x] = db'[x], Told(x)' PROVE pass.entry = db'[x]
    <3>1. x \in Paths /\ pass.snapshot \in [Paths -> Entries] /\ pass.pc # "none"
      BY <2>3, PassFields DEF Chosen, Handling
    <3>2. PICK y \in Paths : y = x  BY <3>1
    <3>3. Told(y)'  BY <2>1, <2>3, <3>2 DEF Told
    <3>4. pass.snapshot[y] = db[y] /\ Told(y)  BY <1>1, <2>3, <3>1, <3>2, <3>3, ChangeTells DEF Seen
    <3> QED  BY <2>3, <3>2, <3>4 DEF Fits
  <2>4. pass.pc = "record" => (Holds(x, PinFor(pass.entry)))'  BY <2>1 DEF Fits, Holds, Editing, PinFor, Deleted
  <2> QED  BY <2>1, <2>2, <2>3, <2>4 DEF Fits, Handling, Chosen, Told
<1>2. CASE UNCHANGED <<db, hash, pass, returned>>
  <2>1. (Handling => hash[x] # pass.snapshot[x])'  BY <1>2 DEF Fits, Handling, Chosen
  <2>2. (Chosen /\ pass.snapshot[x] = db[x] /\ Told(x) => pass.entry = db[x])'  BY <1>2 DEF Fits, Chosen, Told, Deleted
  <2>3. ASSUME pass.pc = "record" PROVE (Holds(x, PinFor(pass.entry)))'
    <3>1. x \in Paths  BY <2>3, PassFields DEF Handling, Chosen
    <3>2. PICK y \in Paths : y = x  BY <3>1
    <3>3. PICK pin \in {PinFor(pass.entry)} : pin = PinFor(pass.entry)  OBVIOUS
    <3>4. Holds(y, pin) /\ ~Remove /\ ~Put  BY <2>3, <3>2, <3>3 DEF Fits, Remove, Put
    <3>5. (Holds(y, pin))'  BY <3>4, HoldsKept
    <3>6. pass'.path = y /\ PinFor(pass'.entry) = pin  BY <1>2, <3>2, <3>3
    <3> QED  BY <3>5, <3>6 DEF Holds, Editing, PinFor, Deleted
  <2> QED  BY <1>2, <2>1, <2>2, <2>3 DEF Fits
<1>3. CASE ~Handling'
  BY <1>3 DEF Fits, Handling, Chosen
<1>4. ASSUME NEW q \in Paths, Yield(q) PROVE Fits'
  BY <1>4 DEF Yield, Handed, Fits, Handling, Chosen
<1>5. CASE Read
  <2>1. /\ pass'.pc = "remove" /\ pass'.path = x /\ pass'.snapshot = pass.snapshot /\ UNCHANGED <<db, hash>>
        /\ pass'.entry = IF ReadsLatest THEN db[x] ELSE pass.snapshot[x]
    BY <1>5 DEF Read
  <2>2. hash[x] # pass.snapshot[x]  BY <1>5 DEF Read, Fits, Handling
  <2> QED  BY <2>1, <2>2 DEF Fits, Handling, Chosen
<1>6. CASE Remove \/ Put
  <2>1. PICK pin \in 0..MaxVersion :
          /\ Write(pin) /\ Chosen /\ pass'.snapshot = pass.snapshot /\ pass'.path = x /\ pass'.entry = pass.entry
          /\ pass'.pc = "record" => pin = PinFor(pass.entry)
    BY <1>6, Going
  <2>2. UNCHANGED <<db, hash, returned>>  BY <1>6 DEF Remove, Put
  <2>3. hash[x] # pass.snapshot[x]  BY <2>1 DEF Fits, Handling
  <2>4. ASSUME pass'.pc = "record" PROVE (Holds(x, PinFor(pass.entry)))'
    <3>1. pins'[x] = pin /\ (Editing(x) => edit'.pc = edit.pc /\ edit'.path = x /\ edit'.met) /\ (~Editing(x) => edit' = edit)
      BY <2>1, Written
    <3>2. Editing(x) \/ ~Editing(x)'  BY <2>1, <3>1 DEF Editing
    <3>3. (Holds(x, pin))'  BY <2>1, <3>1, <3>2 DEF Holds, Editing
    <3>4. PinFor(pass'.entry) = pin  BY <2>1, <2>4
    <3> QED  BY <3>3, <3>4 DEF Holds, Editing, PinFor, Deleted
  <2>5. (Chosen /\ pass.snapshot[x] = db[x] /\ Told(x) => pass.entry = db[x])'
    BY <2>1, <2>2 DEF Fits, Told, Deleted
  <2> QED  BY <2>1, <2>2, <2>3, <2>4, <2>5 DEF Fits
<1>7. CASE Begin \/ EndMethod \/ MethodError \/ Crash \/ Record \/ \E q \in Paths : Skip(q)
  <2>1. pass'.pc \in {"none", "next"}
    BY <1>7, PassFields DEF Begin, EndMethod, MethodError, Crash, Record, Skip, SyncTypes, Passes, Chosen
  <2> QED  BY <1>3, <2>1 DEF Handling, Chosen
<1>8. CASE LoopEnds \/ StartTick \/ StopTick \/ EditRemove \/ EditPut \/ \E q \in Paths : EditGet(q)
  BY <1>2, <1>8 DEF LoopEnds, StartTick, StopTick, EditRemove, EditPut, EditGet
<1> QED  BY <1>1, <1>4, <1>5, <1>6, <1>7, <1>8 DEF Next, Sync

LEMMA FittedKept == ASSUME ConstantsOK, SyncTypes, Seen, Still, Fits, Fitted, Next PROVE Fitted'
<1> SUFFICES ASSUME NEW p \in Paths, hash'[p] = db'[p], Told(p)'
             PROVE  (Holds(p, PinFor(db[p])))'
  BY DEF Fitted
<1>1. hash'[p] = db[p] /\ db'[p] = db[p] /\ Told(p)
      /\ (hash[p] = db[p] \/ (Record /\ pass.path = p /\ pass.snapshot[p] = db[p]))
  <2>1. ASSUME NEW q \in Paths, Change(q) PROVE hash[p] = db[p] /\ db'[p] = db[p] /\ Told(p) /\ hash' = hash
    <3>1. hash' = hash  BY <2>1 DEF Change
    <3> QED  BY <2>1, <3>1, ChangeTells DEF Seen, SyncTypes
  <2>2. CASE Record
    <3>1. pass.pc = "record" /\ pass.path \in Paths /\ UNCHANGED <<db, returned>>
      BY <2>2, PassFields DEF Record, Handling, Chosen
    <3>2. p # pass.path => hash'[p] = hash[p]  BY <2>2, <3>1 DEF Record, SyncTypes
    <3>3. p = pass.path => hash'[p] = pass.snapshot[p]  BY <2>2, <3>1 DEF Record, SyncTypes
    <3> QED  BY <2>2, <3>1, <3>2, <3>3 DEF Told, Deleted
  <2>3. CASE UNCHANGED <<db, version, hash, returned>>
    BY <2>3 DEF Told, Deleted
  <2>4. CASE Begin
    BY <2>3, <2>4 DEF Begin
  <2> QED  BY <2>1, <2>2, <2>3, <2>4, StepKinds
<1>2. PICK pin \in {PinFor(db[p])} : pin = PinFor(db[p])  OBVIOUS
<1>3. Holds(p, pin)
  <2>1. CASE hash[p] = db[p]
    BY <1>1, <1>2, <2>1 DEF Fitted
  <2>2. CASE Record /\ pass.path = p /\ pass.snapshot[p] = db[p]
    <3>1. pass.pc = "record"  BY <2>2 DEF Record
    <3>2. pass.entry = db[p] /\ Holds(p, PinFor(pass.entry))  BY <1>1, <2>2, <3>1 DEF Fits, Chosen
    <3> QED  BY <1>2, <3>2
  <2> QED  BY <1>1, <2>1, <2>2
<1>4. ~(Chosen /\ pass.path = p /\ (Remove \/ Put))
  <2> SUFFICES ASSUME Chosen, pass.path = p, Remove \/ Put PROVE FALSE  OBVIOUS
  <2>1. hash[p] = db[p]
    <3>1. UNCHANGED hash  BY DEF Remove, Put
    <3> QED  BY <1>1, <3>1
  <2>2. hash[p] # pass.snapshot[p] /\ pass.pc # "none"  BY DEF Fits, Handling, Chosen
  <2> QED  BY <1>1, <2>1, <2>2 DEF Still
<1>5. (Holds(p, pin))'  BY <1>3, <1>4, HoldsKept
<1>6. PinFor(db'[p]) = pin  BY <1>1, <1>2
<1> QED  BY <1>5, <1>6 DEF Holds, Editing, PinFor, Deleted

\* The invariant of a followed database.
THEOREM SyncInvHolds == ASSUME ConstantsOK PROVE Spec => []SyncInv
<1>1. Init => SyncInv  BY SyncInit
<1>2. SyncInv /\ [Next]_vars => SyncInv'
  <2>1. ASSUME SyncInv, Next PROVE SyncInv'
    <3>1. SyncTypes' /\ Seen' /\ Still'  BY <2>1, SyncTypesKept, SeenKept, StillKept DEF SyncInv
    <3>2. Fits' /\ Fitted'  BY <2>1, FitsKept, FittedKept DEF SyncInv
    <3> QED  BY <3>1, <3>2 DEF SyncInv
  <2>2. ASSUME SyncInv, UNCHANGED vars PROVE SyncInv'
    <3>1. SyncTypes'  BY <2>2 DEF vars, SyncInv, SyncTypes
    <3>2. Seen'  BY <2>2 DEF vars, SyncInv, Seen, Known, Deleted
    <3>3. Still'  BY <2>2 DEF vars, SyncInv, Still, Told, Deleted
    <3>4. Fits'  BY <2>2 DEF vars, SyncInv, Fits, Handling, Chosen, Told, Holds, Editing, PinFor, Deleted
    <3>5. Fitted'  BY <2>2 DEF vars, SyncInv, Fitted, Told, Holds, Editing, PinFor, Deleted
    <3> QED  BY <3>1, <3>2, <3>3, <3>4, <3>5 DEF SyncInv
  <2> QED  BY <2>1, <2>2
<1> QED  BY <1>1, <1>2, PTL DEF Spec

\* sync-groups and sync-revisions: an entry that the tracker counts as processed has the pin it asks for, beside
\* changes, deletions, edits, errors, stops and crashes; but for the path of an edit that is not over or that the pass
\* or a crash came between, and for deletions after which the path had come back.
THEOREM ProcessedIsPinnedCorrect == ASSUME ConstantsOK PROVE Spec => []SyncedIsPinned
<1>1. SyncInv => TypeOK
  <2> SUFFICES ASSUME SyncInv PROVE TypeOK  OBVIOUS
  <2>1. pass.pc \in {"none", "next", "read", "remove", "put", "record"}  BY DEF SyncInv, SyncTypes, Passes
  <2> QED  BY <2>1 DEF SyncInv, SyncTypes, TypeOK, Entries
<1>2. SyncInv => ProcessedIsPinned
  <2> SUFFICES ASSUME SyncInv, NEW p \in Paths, hash[p] = db[p], Told(p) PROVE pins[p] = PinFor(db[p]) \/ Edited(p)
    BY DEF ProcessedIsPinned
  <2>1. Holds(p, PinFor(db[p]))  BY DEF SyncInv, Fitted
  <2>2. edit.pc \in {"none", "remove", "put", "done"}  BY DEF SyncInv, SyncTypes, Edits
  <2> QED  BY <2>1, <2>2 DEF Holds, Edited, Editing
<1>3. SyncInv => SyncedIsPinned
  BY <1>1, <1>2 DEF SyncedIsPinned
<1> QED  BY <1>3, SyncInvHolds, PTL

-----------------------------------------------------------------------------
(* Downloader *)

\* What is drawn but not started is not being downloaded; this is what the heads left out of Closures are for.
OnceEach == Download!OneEach /\ tasks \cap (running \cup stray) = {}

DownloadInv == Download!TypeOK /\ OnceEach

\* The operators of FiniteSets that Downloader sees are those of the theorems.
LEMMA SameFinite == \A S : Download!IsFiniteSet(S) <=> IsFiniteSet(S)
BY DEF Download!IsFiniteSet, IsFiniteSet

LEMMA SameCardinality == \A S : Download!Cardinality(S) = Cardinality(S)
BY DEF Download!Cardinality, Cardinality

LEMMA RunningFinite == ASSUME Download!ConstantsOK, Download!TypeOK PROVE IsFiniteSet(running)
BY FS_Subset, SameFinite DEF Download!ConstantsOK, Download!TypeOK

LEMMA FewerRun ==
  ASSUME Download!ConstantsOK, Download!TypeOK, NEW S \in SUBSET running
  PROVE  Cardinality(S) <= Slots /\ S \subseteq Heads
<1>1. Cardinality(S) <= Cardinality(running) /\ IsFiniteSet(S)  BY RunningFinite, FS_Subset
<1>2. Cardinality(S) \in Nat /\ Cardinality(running) \in Nat /\ Slots \in Nat
  BY <1>1, RunningFinite, FS_CardinalityType DEF Download!ConstantsOK
<1>3. Cardinality(running) <= Slots /\ running \subseteq Heads  BY SameCardinality DEF Download!TypeOK
<1> QED  BY <1>1, <1>2, <1>3

LEMMA ClosuresFit ==
  ASSUME Download!TypeOK, NEW p \in list
  PROVE  Download!Closures(p) \subseteq Heads /\ Download!Closures(p) \cap (running \cup stray) = {} /\ p \in Download!Pins
BY DEF Download!TypeOK, Download!Closures, Download!FirstHeads

\* What a pipeline that fails leaves.
LEMMA BrokenKept ==
  ASSUME Download!ConstantsOK, DownloadInv, NEW ended, Download!Broken(ended), UNCHANGED <<list, left, paused, stopped>>
  PROVE  DownloadInv'
<1>1. Cardinality({}) <= Slots  BY FewerRun DEF DownloadInv
<1>2. running' = {} /\ stray' \subseteq Heads  BY DEF Download!Broken, DownloadInv, Download!TypeOK
<1>3. Cardinality(running') <= Slots  BY <1>1, <1>2
<1>4. Download!TypeOK'  BY <1>2, <1>3, SameCardinality DEF Download!Broken, DownloadInv, Download!TypeOK
<1> QED  BY <1>4 DEF Download!Broken, DownloadInv, OnceEach, Download!OneEach

LEMMA DownloadNext == ASSUME Download!ConstantsOK, DownloadInv, Download!Next PROVE DownloadInv'
<1> USE DEF DownloadInv, OnceEach, Download!OneEach
<1>1. CASE Download!NextPass
  <2>1. UNCHANGED <<list, left, loop, tasks, running, stray, paused, stopped>> /\ closing' \in BOOLEAN
    BY <1>1 DEF Download!NextPass, Download!DrawReady, Download!Closing, Download!TypeOK
  <2>2. listPass' \subseteq Download!Pins
    BY <1>1 DEF Download!NextPass, Download!TypeOK, Download!Active
  <2> QED  BY <2>1, <2>2 DEF Download!TypeOK
<1>11. ASSUME NEW p \in Download!Pins, Download!Draw(p) PROVE DownloadInv'
  <2>1. UNCHANGED <<list, left, loop, running, stray, paused, stopped>> /\ closing' \in BOOLEAN /\ p \in list
    BY <1>11 DEF Download!Draw, Download!DrawReady, Download!Closing, Download!TypeOK
  <2>2. listPass' \subseteq Download!Pins /\ tasks' = Download!Closures(p)
    BY <1>11 DEF Download!Draw, Download!TypeOK
  <2>3. tasks' \subseteq Heads /\ tasks' \cap (running \cup stray) = {}
    BY <2>1, <2>2, ClosuresFit DEF Download!TypeOK
  <2>4. Download!TypeOK'  BY <2>1, <2>2, <2>3 DEF Download!TypeOK
  <2> QED  BY <2>1, <2>3, <2>4
<1>2. CASE Download!DrawFails
  BY <1>2, BrokenKept DEF Download!DrawFails
<1>3. ASSUME NEW h \in Heads, Download!StartTask(h) PROVE DownloadInv'
  <2>1. h \in tasks /\ running' = running \cup {h} /\ tasks' = tasks \ {h}  BY <1>3 DEF Download!StartTask
  <2>2. h \in Heads /\ h \notin running /\ h \notin stray  BY <2>1 DEF Download!TypeOK
  <2>3. Cardinality(running \cup {h}) <= Slots
    <3>1. Cardinality(running \cup {h}) = Cardinality(running) + 1  BY <2>2, RunningFinite, FS_AddElement
    <3>2. Cardinality(running) \in Nat /\ Slots \in Nat  BY RunningFinite, FS_CardinalityType DEF Download!ConstantsOK
    <3>3. Cardinality(running) < Slots  BY <1>3, SameCardinality DEF Download!StartTask
    <3> QED  BY <3>1, <3>2, <3>3
  <2>4. Download!TypeOK'  BY <1>3, <2>1, <2>2, <2>3, SameCardinality DEF Download!StartTask, Download!TypeOK
  <2> QED  BY <1>3, <2>1, <2>2, <2>4 DEF Download!StartTask
<1>4. CASE Download!Drained
  BY <1>4 DEF Download!Drained, Download!TypeOK
<1>5. CASE Download!Again \/ Download!StartLoop
  BY <1>5 DEF Download!Again, Download!StartLoop, Download!TypeOK
<1>6. CASE Download!Pause \/ Download!Resume \/ Download!StopLoop
  BY <1>6 DEF Download!Pause, Download!Resume, Download!StopLoop, Download!TypeOK, Download!pipeVars
<1>7. ASSUME NEW h \in Heads, Download!Arrive(h) PROVE DownloadInv'
  <2>1. left' \in [Download!Pins -> SUBSET Heads]
    <3>1. Links[h] \subseteq Heads  BY DEF Download!ConstantsOK
    <3>2. \A p \in Download!Pins : (IF h \in left[p] THEN (left[p] \ {h}) \cup Links[h] ELSE left[p]) \in SUBSET Heads
      BY <3>1 DEF Download!TypeOK
    <3> QED  BY <1>7, <3>2 DEF Download!Arrive
  <2>2. running' \subseteq running /\ Cardinality(running \ {h}) <= Slots /\ running' = running \ {h} /\ stray' = stray \ {h}
    BY <1>7, FewerRun DEF Download!Arrive
  <2>3. Download!TypeOK'  BY <1>7, <2>1, <2>2, SameCardinality DEF Download!Arrive, Download!TypeOK
  <2> QED  BY <1>7, <2>2, <2>3 DEF Download!Arrive
<1>8. ASSUME NEW h \in Heads, Download!Fail(h) PROVE DownloadInv'
  BY <1>8, BrokenKept DEF Download!Fail
<1>9. ASSUME NEW h \in Heads, Download!FailStray(h) PROVE DownloadInv'
  BY <1>9 DEF Download!FailStray, Download!TypeOK
<1>10. ASSUME NEW p \in Download!Pins, Download!RemovePin(p) PROVE DownloadInv'
  BY <1>10 DEF Download!RemovePin, Download!TypeOK, Download!pipeVars
<1> QED  BY <1>1, <1>2, <1>3, <1>4, <1>5, <1>6, <1>7, <1>8, <1>9, <1>10, <1>11 DEF Download!Next

\* Downloader.download: no block is downloaded by two pipelines at once, for any DAGs, pins, limits and slots, and
\* never more than `slots` by one pipeline, whichever closures time out beside which others.
THEOREM OneEachCorrect == ASSUME Download!ConstantsOK PROVE Download!Spec => []OneEach
<1>1. Download!Init => DownloadInv
  <2> SUFFICES ASSUME Download!Init PROVE DownloadInv  OBVIOUS
  <2>1. Cardinality(running) <= Slots  BY FS_EmptySet DEF Download!Init, Download!ConstantsOK
  <2>2. left \in [Download!Pins -> SUBSET Heads]  BY DEF Download!Init, Download!ConstantsOK, Download!Pins
  <2> QED  BY <2>1, <2>2, SameCardinality DEF Download!Init, DownloadInv, OnceEach, Download!OneEach, Download!TypeOK
<1>2. DownloadInv /\ [Download!Next]_(Download!vars) => DownloadInv'
  <2>1. ASSUME DownloadInv, Download!Next PROVE DownloadInv'  BY <2>1, DownloadNext
  <2>2. ASSUME DownloadInv, UNCHANGED Download!vars PROVE DownloadInv'
    BY <2>2 DEF Download!vars, DownloadInv, OnceEach, Download!OneEach, Download!TypeOK
  <2> QED  BY <2>1, <2>2
<1>3. DownloadInv => OneEach  BY DEF DownloadInv, OnceEach, OneEach
<1> QED  BY <1>1, <1>2, <1>3, PTL DEF Download!Spec

=============================================================================
