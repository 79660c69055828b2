--------------------------- MODULE ReferencesProofs ---------------------------
(* Proofs of TypeOK, Protected, NoLeak and Resumable for any keys, cids and callers. *)
EXTENDS ReferencesInv, TLAPS

\* The initial state is well typed.
LEMMA TypeInit == Init => TypeOK
  BY NoKeyAssumption, NoCidAssumption DEF Init, TypeOK, NoCall, CallRec, Pcs, None

\* What a call changes, read off its actions: it moves itself and leaves the others alone.
LEMMA Others ==
  ASSUME TypeOK, NEW k \in Callers, Step(k) PROVE \A j \in Callers \ {k} : call'[j] = call[j]
  BY DEF TypeOK, Step, Put, Remove, Edit, Get, Count, Delete, Store, UnpinGet, UnpinDestroy,
     UnpinDelete, PinGet, PinPut, CallTo, Removed

\* Every step keeps the types.
LEMMA TypeNext == TypeOK /\ [Next]_vars => TypeOK'
<1> SUFFICES ASSUME TypeOK, [Next]_vars PROVE TypeOK'
  OBVIOUS
<1> USE NoKeyAssumption, NoCidAssumption
<1>1. ASSUME NEW k \in Callers, Step(k), raced' = raced \cup {c \in Cids : Contended(c)'},
             UNCHANGED cut
      PROVE  TypeOK'
  <2>0. raced' \subseteq Cids /\ cut' \subseteq Cids
    BY <1>1 DEF TypeOK
  <2> DEFINE CallOK(rec) ==
        /\ rec \in CallRec
        /\ rec.pc = "idle" <=> rec.key = None
        /\ rec.pc = "idle" => rec = NoCall
        /\ rec.op = "put" <=> rec.cid \in Cids
        /\ rec.pc \in {"pin", "pin.put", "store"} => rec.op = "put"
        /\ rec.pc \in {"count", "unpin.get", "unpin.destroy", "unpin.delete", "delete"}
             <=> rec.old \in Cids
  <2>1. ASSUME NEW rec, CallOK(rec), CallTo(k, rec),
               refs' \in [Keys -> Cids \cup {None}],
               status' \in [Cids -> {"NOTFOUND", "PINNED", "DESTROYED"}]
        PROVE  TypeOK'
    BY <2>0, <2>1 DEF TypeOK, CallTo
  <2>2. CallOK(NoCall)
    BY DEF None, NoCall, CallRec, Pcs
  <2>3. CallOK(call[k])
    BY DEF TypeOK
  <2>4. ASSUME call[k].old \in Cids \/ call[k].pc = "get", Removed(k),
               refs' \in [Keys -> Cids \cup {None}], UNCHANGED status
        PROVE  TypeOK'
    <3>1. CASE call[k].op = "put"
      <4>1. CallOK([call[k] EXCEPT !.pc = "pin", !.old = None])
        BY <2>3, <2>4, <3>1 DEF CallRec, Pcs, NoCall
      <4> QED
        BY <2>1, <2>4, <3>1, <4>1 DEF Removed, TypeOK
    <3> QED
      BY <2>1, <2>2, <2>4, <3>1 DEF Removed, TypeOK
  <2>5. ASSUME NEW key \in Keys, NEW c \in Cids, Put(k, key, c) PROVE TypeOK'
    <3>1. CallOK([NoCall EXCEPT !.pc = "get", !.op = "put", !.key = key, !.cid = c])
      BY DEF NoCall, CallRec, Pcs
    <3> QED
      BY <2>1, <2>5, <3>1 DEF Put, TypeOK
  <2>6. ASSUME NEW key \in Keys, Remove(k, key) PROVE TypeOK'
    <3>1. CallOK([NoCall EXCEPT !.pc = "get", !.op = "remove", !.key = key])
      BY DEF NoCall, CallRec, Pcs
    <3> QED
      BY <2>1, <2>6, <3>1 DEF Remove, TypeOK
  <2>7. ASSUME NEW key \in Keys, Edit(k, key) PROVE TypeOK'
    <3>0. refs[key] \in Cids
      BY <2>7 DEF Edit, TypeOK
    <3>1. CallOK([NoCall EXCEPT !.pc = "get", !.op = "put", !.key = key, !.cid = refs[key]])
      BY <3>0 DEF NoCall, CallRec, Pcs
    <3> QED
      BY <2>1, <2>7, <3>1 DEF Edit, TypeOK
  <2>8. CASE Get(k)
    <3>1. CASE refs[call[k].key] = None
      BY <2>4, <2>8, <3>1 DEF Get, TypeOK
    <3>2. CASE refs[call[k].key] # None
      <4>1. call[k].key \in Keys /\ refs[call[k].key] \in Cids
        BY <2>3, <2>8, <3>2 DEF Get, TypeOK, CallRec
      <4>2. CallOK([call[k] EXCEPT !.pc = "count", !.old = refs[call[k].key]])
        BY <2>3, <2>8, <4>1 DEF Get, CallRec, Pcs
      <4> QED
        BY <2>1, <2>8, <3>2, <4>2 DEF Get, TypeOK
    <3> QED
      BY <3>1, <3>2
  <2>9. CASE Count(k) \/ UnpinGet(k) \/ PinGet(k)
    <3>1. PICK pc \in Pcs : CallTo(k, [call[k] EXCEPT !.pc = pc])
                            /\ CallOK([call[k] EXCEPT !.pc = pc])
      BY <2>3, <2>9 DEF Count, UnpinGet, PinGet, CallRec, Pcs
    <3> QED
      BY <2>1, <2>9, <3>1 DEF Count, UnpinGet, PinGet, TypeOK
  <2>10. CASE Delete(k)
    BY <2>4, <2>10, <2>3 DEF Delete, TypeOK
  <2>11. CASE Store(k)
    BY <2>1, <2>2, <2>3, <2>11 DEF Store, TypeOK, CallRec
  <2>12. CASE UnpinDestroy(k) \/ UnpinDelete(k) \/ PinPut(k)
    <3>1. PICK pc \in Pcs : CallTo(k, [call[k] EXCEPT !.pc = pc])
                            /\ CallOK([call[k] EXCEPT !.pc = pc])
      BY <2>3, <2>12 DEF UnpinDestroy, UnpinDelete, PinPut, CallRec, Pcs
    <3>2. status' \in [Cids -> {"NOTFOUND", "PINNED", "DESTROYED"}] /\ UNCHANGED refs
      BY <2>12 DEF UnpinDestroy, UnpinDelete, PinPut, TypeOK
    <3> QED
      BY <2>1, <3>1, <3>2 DEF TypeOK
  <2> QED
    BY <1>1, <2>5, <2>6, <2>7, <2>8, <2>9, <2>10, <2>11, <2>12 DEF Step
<1>2. CASE Crash
  <2>1. call' \in [Callers -> CallRec] /\ \A k \in Callers : call'[k] = NoCall
    BY <1>2 DEF Crash, NoCall, CallRec, Pcs
  <2>2. cut' \subseteq Cids /\ UNCHANGED <<refs, status, raced>>
    BY <1>2 DEF Crash, Touched, TypeOK, CallRec
  <2> QED
    BY <2>1, <2>2 DEF TypeOK, NoCall, None
<1>3. CASE UNCHANGED vars
  BY <1>3 DEF vars, TypeOK
<1> QED
  BY <1>1, <1>2, <1>3 DEF Next

\* Every reachable state is well typed.
THEOREM TypeCorrect == Spec => []TypeOK
<1> QED
  BY TypeInit, TypeNext, PTL DEF Spec

-----------------------------------------------------------------------------
\* Where a call goes, field by field.
LEMMA MovesTo ==
  ASSUME TypeOK, NEW k \in Callers
  PROVE  /\ call[k] \in CallRec
         /\ \A pc : CallTo(k, [call[k] EXCEPT !.pc = pc]) =>
              /\ call'[k].pc = pc /\ call'[k].op = call[k].op /\ call'[k].key = call[k].key
              /\ call'[k].cid = call[k].cid /\ call'[k].old = call[k].old
         /\ CallTo(k, NoCall) => call'[k] = NoCall
  BY DEF TypeOK, CallTo, CallRec

\* A call that starts or that finishes its remove holds no old cid.
LEMMA RemovedTo ==
  ASSUME TypeOK, NEW k \in Callers, Removed(k)
  PROVE  /\ call'[k].old = None
         /\ \/ call'[k] = NoCall
            \/ /\ call[k].op = "put" /\ call'[k].pc = "pin" /\ call'[k].key = call[k].key
               /\ call'[k].cid = call[k].cid
<1>1. CASE call[k].op = "put"
  <2>1. CallTo(k, [call[k] EXCEPT !.pc = "pin", !.old = None])
    BY <1>1 DEF Removed
  <2> QED
    BY <1>1, <2>1 DEF TypeOK, CallTo, CallRec
<1>2. CASE call[k].op # "put"
  BY <1>2, MovesTo DEF Removed, NoCall
<1> QED
  BY <1>1, <1>2

\* A call starts with its arguments and has read nothing yet.
LEMMA StartsTo ==
  ASSUME TypeOK, NEW k \in Callers,
         \E key \in Keys : Remove(k, key) \/ Edit(k, key) \/ \E d \in Cids : Put(k, key, d)
  PROVE  /\ call'[k].old = None /\ call'[k].pc = "get" /\ call[k] = NoCall
         /\ UNCHANGED <<refs, status>>
<1>1. call'[k].old = None /\ call'[k].pc = "get"
  <2>1. ASSUME NEW key \in Keys, Remove(k, key) PROVE call'[k].old = None /\ call'[k].pc = "get"
    BY <2>1 DEF Remove, TypeOK, CallTo, NoCall
  <2>2. ASSUME NEW key \in Keys, Edit(k, key) PROVE call'[k].old = None /\ call'[k].pc = "get"
    BY <2>2 DEF Edit, TypeOK, CallTo, NoCall
  <2>3. ASSUME NEW key \in Keys, NEW c \in Cids, Put(k, key, c)
        PROVE  call'[k].old = None /\ call'[k].pc = "get"
    BY <2>3 DEF Put, TypeOK, CallTo, NoCall
  <2> QED
    BY <2>1, <2>2, <2>3
<1>2. call[k].pc = "idle" /\ UNCHANGED <<refs, status>>
  BY DEF Remove, Edit, Put
<1> QED
  BY <1>1, <1>2 DEF TypeOK

\* A call that finds a reference will remove it.
LEMMA GetsTo ==
  ASSUME TypeOK, NEW k \in Callers, Get(k)
  PROVE  /\ call[k].key \in Keys /\ UNCHANGED <<refs, status>> /\ call[k].pc = "get"
         /\ \/ refs[call[k].key] = None /\ Removed(k)
            \/ /\ call'[k].old = refs[call[k].key] /\ call'[k].pc = "count"
               /\ call'[k].key = call[k].key /\ call'[k].cid = call[k].cid
<1>1. call[k].key \in Keys /\ UNCHANGED <<refs, status>> /\ call[k].pc = "get"
  BY DEF Get, TypeOK, CallRec
<1>2. CASE refs[call[k].key] # None
  <2>1. CallTo(k, [call[k] EXCEPT !.pc = "count", !.old = refs[call[k].key]])
    BY <1>2 DEF Get
  <2> QED
    BY <1>1, <2>1 DEF TypeOK, CallTo, CallRec
<1> QED
  BY <1>1, <1>2 DEF Get

\* Only deleting and storing changes references, only the reference of the call's key.
LEMMA RefEffect ==
  ASSUME TypeOK, NEW k \in Callers, Step(k), NEW key \in Keys, refs'[key] # refs[key]
  PROVE  /\ key = call[k].key
         /\ \/ Delete(k) /\ refs'[key] = None
            \/ Store(k) /\ refs'[key] = call[k].cid
<1>1. Delete(k) \/ Store(k)
  BY DEF Step, Put, Remove, Edit, Get, Count, UnpinGet, UnpinDestroy, UnpinDelete, PinGet, PinPut
<1> QED
  <2>1. CASE Delete(k)
    BY <2>1 DEF Delete, TypeOK
  <2>2. CASE Store(k)
    BY <2>2 DEF Store, TypeOK
  <2> QED
    BY <1>1, <2>1, <2>2

\* Only pinning and unpinning changes the row of a cid.
LEMMA StatusEffect ==
  ASSUME TypeOK, NEW k \in Callers, Step(k), NEW c \in Cids, status'[c] # status[c]
  PROVE  \/ PinPut(k) /\ call[k].cid = c /\ status'[c] = "PINNED"
         \/ UnpinDestroy(k) /\ call[k].old = c /\ status'[c] = "DESTROYED"
         \/ UnpinDelete(k) /\ call[k].old = c /\ status'[c] = "NOTFOUND"
<1>1. PinPut(k) \/ UnpinDestroy(k) \/ UnpinDelete(k)
  BY DEF Step, Put, Remove, Edit, Get, Count, Delete, Store, UnpinGet, PinGet
<1> QED
  BY <1>1 DEF PinPut, UnpinDestroy, UnpinDelete, TypeOK

\* A step of k leaves the cids of the other calls to them, when they are not raced.
LEMMA Apart ==
  ASSUME TypeOK, TypeOK', RacesSeen, NEW k \in Callers, Step(k),
         raced' = raced \cup {c \in Cids : Contended(c)'}, NEW c \in Cids \ raced'
  PROVE  /\ c \in Cids \ raced
         /\ c \in Touched(k) \/ c \in Touched(k)' =>
              \A j \in Callers \ {k} : call[j].cid # c /\ call[j].old # c
         /\ \A j \in Callers \ {k} : c \in Touched(j) => call[j].key # call[k].key
         /\ \A j \in Callers \ {k} : c \in Touched(k) => call[j].key # call[k].key
<1>1. c \in Cids \ raced /\ ~Contended(c) /\ ~Contended(c)'
  BY DEF RacesSeen
<1>2. \A j \in Callers \ {k} : call'[j] = call[j]
  BY Others
<1>3. ASSUME NEW j \in Callers \ {k}, c \in Touched(j)
      PROVE  c \notin Touched(k) /\ c \notin Touched(k)' /\ call[j].key # call[k].key
  BY <1>1, <1>2, <1>3 DEF Contended, Touched
<1>4. \A j \in Callers \ {k} : call[j].cid = c \/ call[j].old = c => c \in Touched(j)
  BY NoCidAssumption DEF Touched
<1>5. \A j \in Callers \ {k} : c \in Touched(k) => call[j].key # call[k].key
  BY <1>1 DEF Contended
<1> QED
  BY <1>1, <1>3, <1>4, <1>5

\* A step of a call that does not touch a cid changes nothing about the cid.
LEMMA Untouched ==
  ASSUME TypeOK, KeyHeld, NEW k \in Callers, Step(k), NEW c \in Cids \ raced,
         call[k].cid # c, call[k].old # c
  PROVE  KeysOf(c)' = KeysOf(c) /\ status'[c] = status[c]
<1>1. ASSUME NEW key \in Keys, refs'[key] # refs[key]
      PROVE  refs[key] # c /\ refs'[key] # c
  <2>1. /\ key = call[k].key
        /\ \/ Delete(k) /\ refs'[key] = None
           \/ Store(k) /\ refs'[key] = call[k].cid
    BY <1>1, RefEffect
  <2>2. refs'[key] # c
    BY <2>1, NoCidAssumption
  <2>3. CASE Delete(k)
    <3>1. call[k].old \in Cids
      BY <2>3 DEF Delete, TypeOK
    <3> QED
      BY <2>1, <2>2, <3>1 DEF KeyHeld
  <2>4. CASE Store(k)
    BY <2>1, <2>2, <2>4 DEF Store, KeyHeld
  <2> QED
    BY <2>1, <2>3, <2>4
<1>2. KeysOf(c)' = KeysOf(c)
  BY <1>1 DEF KeysOf
<1>3. status'[c] = status[c]
  BY StatusEffect
<1> QED
  BY <1>2, <1>3

\* A store writes a reference to a cid that, unless raced, no other call of the key knows of.
LEMMA KeyHeldKept ==
  ASSUME TypeOK, TypeOK', RacesSeen, KeyHeld, NEW k \in Callers, Step(k),
         raced' = raced \cup {c \in Cids : Contended(c)'}
  PROVE  KeyHeld'
<1> SUFFICES ASSUME NEW j \in Callers, NEW c \in Cids \ raced'
             PROVE  /\ call'[j].old \in Cids => (refs'[call'[j].key] = c <=> call'[j].old = c)
                    /\ call'[j].pc \in {"pin", "pin.put", "store"} => refs'[call'[j].key] # c
  BY DEF KeyHeld
<1>0. c \in Cids \ raced /\ c # None
  BY Apart, NoCidAssumption
<1>1. CASE j # k
  <2>1. call'[j] = call[j]
    BY <1>1, Others
  <2>2. /\ call[j].old \in Cids => (refs[call[j].key] = c <=> call[j].old = c)
        /\ call[j].pc \in {"pin", "pin.put", "store"} => refs[call[j].key] # c
    BY <1>0 DEF KeyHeld
  <2>3. CASE call[j].key # call[k].key \/ ~(Store(k) \/ Delete(k))
    <3>1. call[j].key \in Keys => refs'[call[j].key] = refs[call[j].key]
      BY <2>3, RefEffect
    <3>2. call[j].key \in Keys \/ call[j] = NoCall
      BY DEF TypeOK, CallRec
    <3> QED
      BY <2>1, <2>2, <3>1, <3>2, NoCidAssumption DEF NoCall, None
  <2>4. CASE call[j].key = call[k].key /\ (Store(k) \/ Delete(k))
    <3>1. c \notin Touched(j) /\ c \notin Touched(k)
      BY <1>1, <2>4, Apart
    <3>2. call[j].old # c /\ call[k].cid # c
      BY <1>0, <3>1 DEF Touched
    <3>3. call[k].key \in Keys
      BY <2>4 DEF TypeOK, CallRec, Store, Delete
    <3>4. refs'[call[k].key] \in {call[k].cid, None}
      BY <2>4, <3>3 DEF Store, Delete, TypeOK
    <3> QED
      BY <1>0, <2>1, <2>4, <3>2, <3>4
  <2> QED
    BY <2>3, <2>4
<1>2. CASE j = k
  <2>1. CASE Get(k)
    BY <1>0, <1>2, <2>1, GetsTo, RemovedTo, NoCidAssumption DEF NoCall
  <2>2. CASE Delete(k)
    <3>1. refs'[call[k].key] = None
      BY <2>2 DEF Delete, TypeOK, CallRec
    <3> QED
      BY <1>0, <1>2, <2>2, <3>1, RemovedTo, NoCidAssumption DEF Delete, NoCall
  <2>3. CASE Store(k)
    BY <1>2, <2>3, MovesTo, NoCidAssumption DEF Store, NoCall
  <2>4. CASE \E key \in Keys : Remove(k, key) \/ Edit(k, key) \/ \E d \in Cids : Put(k, key, d)
    BY <1>2, <2>4, StartsTo, NoCidAssumption
  <2>5. CASE Count(k) \/ UnpinGet(k) \/ UnpinDestroy(k) \/ UnpinDelete(k) \/ PinGet(k) \/ PinPut(k)
    <3>1. /\ UNCHANGED refs
          /\ call'[k].key = call[k].key /\ call'[k].old = call[k].old
          /\ call'[k].pc \in {"pin", "pin.put", "store"} => call[k].pc \in {"pin", "pin.put", "store"}
      BY <2>5, MovesTo, SMTT(30) DEF Count, UnpinGet, UnpinDestroy, UnpinDelete, PinGet, PinPut
    <3> QED
      BY <1>0, <1>2, <3>1 DEF KeyHeld
  <2> QED
    BY <2>1, <2>2, <2>3, <2>4, <2>5 DEF Step
<1> QED
  BY <1>1, <1>2

\* A removal that unpins has counted one key, and nobody adds another.
LEMMA UnpinsOnlyKept ==
  ASSUME TypeOK, TypeOK', RacesSeen, KeyHeld, UnpinsOnly, NEW k \in Callers, Step(k),
         raced' = raced \cup {c \in Cids : Contended(c)'}
  PROVE  UnpinsOnly'
<1> SUFFICES ASSUME NEW j \in Callers, NEW c \in Cids \ raced', call'[j].old = c
             PROVE  /\ call'[j].pc \in {"unpin.get", "unpin.destroy", "unpin.delete"} =>
                         OnlyKey(j, c)'
                    /\ call'[j].pc = "delete" =>
                         \/ status'[c] = "NOTFOUND" /\ OnlyKey(j, c)'
                         \/ \E key \in KeysOf(c)' : key # call'[j].key
  BY DEF UnpinsOnly
<1>0. c \in Cids \ raced /\ c # None
  BY Apart, NoCidAssumption
<1>1. CASE j # k
  <2>1. call'[j] = call[j] /\ c \in Touched(j)
    BY <1>0, <1>1, Others DEF Touched
  <2>2. call[k].cid # c /\ call[k].old # c /\ call[k].key # call[j].key
    BY <1>0, <1>1, <2>1, Apart DEF Touched
  <2>3. KeysOf(c)' = KeysOf(c) /\ status'[c] = status[c]
    BY <1>0, <2>2, Untouched
  <2> QED
    BY <1>0, <2>1, <2>3 DEF UnpinsOnly, OnlyKey
<1>2. CASE j = k
  <2>0. call[k].old = c => call[k].key \in Keys /\ refs[call[k].key] = c
    BY <1>0 DEF KeyHeld, TypeOK, CallRec, NoCall
  <2>1. CASE Get(k)
    BY <1>0, <1>2, <2>1, GetsTo, RemovedTo
  <2>2. CASE Count(k)
    <3>1. /\ call'[k].pc = (IF AtMostOne(KeysOf(call[k].old)) THEN "unpin.get" ELSE "delete")
          /\ call'[k].key = call[k].key /\ call[k].old = c
      BY <1>2, <2>2, MovesTo DEF Count
    <3>2. KeysOf(c)' = KeysOf(c) /\ call[k].key \in KeysOf(c)
      BY <2>0, <2>2, <3>1 DEF Count, KeysOf
    <3>3. CASE AtMostOne(KeysOf(c))
      BY <1>2, <3>1, <3>2, <3>3 DEF AtMostOne, OnlyKey
    <3>4. CASE ~AtMostOne(KeysOf(c))
      <4>1. \E key \in KeysOf(c) : key # call[k].key
        BY <3>2, <3>4 DEF AtMostOne
      <4> QED
        BY <1>2, <3>1, <3>2, <3>4, <4>1
    <3> QED
      BY <3>3, <3>4
  <2>3. CASE UnpinGet(k) \/ UnpinDestroy(k)
    <3>1. /\ call'[k].pc \in {"unpin.destroy", "unpin.delete"} /\ call'[k].key = call[k].key
          /\ call[k].old = c /\ call[k].pc \in {"unpin.get", "unpin.destroy"} /\ UNCHANGED refs
      BY <1>2, <2>3, MovesTo DEF UnpinGet, UnpinDestroy
    <3> QED
      BY <1>0, <1>2, <3>1 DEF UnpinsOnly, OnlyKey, KeysOf
  <2>4. CASE UnpinDelete(k)
    <3>1. /\ call'[k].pc = "delete" /\ call'[k].key = call[k].key
          /\ call[k].old = c /\ call[k].pc = "unpin.delete" /\ UNCHANGED refs
      BY <1>2, <2>4, MovesTo DEF UnpinDelete
    <3>2. status'[c] = "NOTFOUND"
      BY <1>0, <2>4, <3>1 DEF UnpinDelete, TypeOK
    <3> QED
      BY <1>0, <1>2, <3>1, <3>2 DEF UnpinsOnly, OnlyKey, KeysOf
  <2>5. CASE Delete(k)
    BY <1>0, <1>2, <2>5, RemovedTo DEF Delete
  <2>6. CASE Store(k)
    BY <1>0, <1>2, <2>6, MovesTo DEF Store, NoCall
  <2>7. CASE PinGet(k) \/ PinPut(k)
    <3>1. call[k].old = c /\ call[k].pc \in {"pin", "pin.put"}
      BY <1>2, <2>7, MovesTo DEF PinGet, PinPut
    <3> QED
      BY <1>0, <3>1 DEF TypeOK
  <2>8. CASE \E key \in Keys : Remove(k, key) \/ Edit(k, key) \/ \E d \in Cids : Put(k, key, d)
    BY <1>0, <1>2, <2>8, StartsTo
  <2> QED
    BY <2>1, <2>2, <2>3, <2>4, <2>5, <2>6, <2>7, <2>8 DEF Step
<1> QED
  BY <1>1, <1>2

\* A call comes to touch a cid when it starts and when it reads its reference.
LEMMA TouchesNew ==
  ASSUME TypeOK, NEW k \in Callers, Step(k), NEW c \in Cids, call[k].cid # c, call[k].old # c
  PROVE  c \notin Touched(k)' \/ call'[k].pc \in {"get", "count"}
<1>1. CASE Get(k)
  BY <1>1, GetsTo, RemovedTo, NoCidAssumption DEF Touched, NoCall
<1>2. CASE Delete(k)
  BY <1>2, RemovedTo, NoCidAssumption DEF Delete, Touched, NoCall
<1>3. CASE Store(k)
  BY <1>3, MovesTo, NoCidAssumption DEF Store, Touched, NoCall
<1>4. CASE Count(k) \/ UnpinGet(k) \/ UnpinDestroy(k) \/ UnpinDelete(k) \/ PinGet(k) \/ PinPut(k)
  BY <1>4, MovesTo DEF Count, UnpinGet, UnpinDestroy, UnpinDelete, PinGet, PinPut, Touched
<1>5. CASE \E key \in Keys : Remove(k, key) \/ Edit(k, key) \/ \E d \in Cids : Put(k, key, d)
  BY <1>5, StartsTo
<1> QED
  BY <1>1, <1>2, <1>3, <1>4, <1>5 DEF Step

\* The record of a call that works on an unraced cid decides about the cid.
LEMMA MatchKept ==
  ASSUME IInv, TypeOK', KeyHeld', UnpinsOnly', NEW k \in Callers, Step(k), UNCHANGED cut,
         raced' = raced \cup {c \in Cids : Contended(c)'}
  PROVE  AllMatch'
<1> SUFFICES ASSUME NEW c \in Cids \ (raced' \cup cut') PROVE Matches(c)'
  BY DEF AllMatch
<1>0. c \in Cids \ raced /\ c # None /\ Matches(c)
  BY Apart, NoCidAssumption DEF IInv, AllMatch
<1>1. \A j \in Callers \ {k} : call'[j] = call[j]
  BY Others DEF IInv
<1>2. CASE call[k].cid # c /\ call[k].old # c
  <2>1. KeysOf(c)' = KeysOf(c) /\ status'[c] = status[c]
    BY <1>0, <1>2, Untouched DEF IInv
  <2>2. c \notin Touched(k)' \/ call'[k].pc \in {"get", "count"}
    BY <1>0, <1>2, TouchesNew DEF IInv
  <2> QED
    BY <1>0, <1>1, <1>2, <2>1, <2>2 DEF Matches, Touched
<1>3. CASE call[k].cid = c \/ call[k].old = c
  <2>0. /\ \A j \in Callers \ {k} : call'[j].cid # c /\ call'[j].old # c
        /\ \A j \in Callers \ {k} : call[j].cid # c /\ call[j].old # c
    BY <1>0, <1>1, <1>3, Apart DEF IInv, Touched
  <2> DEFINE rec == call[k]
             Storing == rec.cid = c /\ rec.pc = "store"
             Unpinning == rec.old = c /\ rec.pc = "unpin.delete"
             Deleting == rec.old = c /\ rec.pc = "delete"
             Fits == /\ status[c] = "PINNED" => KeysOf(c) # {} \/ Storing
                     /\ status[c] = "DESTROYED" => Unpinning
                     /\ status[c] = "NOTFOUND" =>
                          \A key \in KeysOf(c) : Deleting /\ rec.key = key
                     /\ Storing => status[c] = "PINNED"
  <2>1. Fits
    BY <1>0, <2>0 DEF Matches
  <2>2. Fits' => Matches(c)'
    BY <2>0 DEF Matches
  <2>3. TypeOK /\ status[c] \in {"NOTFOUND", "PINNED", "DESTROYED"} /\ rec \in CallRec
    BY MovesTo DEF IInv, TypeOK
  <2>4. rec.pc \in {"pin", "pin.put", "store"} => rec.old # c
    BY <1>0, <2>3 DEF TypeOK
  <2> HIDE DEF Fits
  <2>5. ASSUME ~Storing, ~Unpinning, ~Deleting, ~Storing',
               KeysOf(c)' = KeysOf(c), status'[c] = status[c]
        PROVE  Fits'
    BY <2>1, <2>5 DEF Fits
  <2>6. CASE Get(k) \/ Count(k) \/ UnpinGet(k)
    <3>1. /\ rec.pc \in {"get", "count", "unpin.get"} /\ call'[k].pc # "store"
          /\ KeysOf(c)' = KeysOf(c) /\ status' = status
      <4>1. CASE Get(k)
        BY <2>3, <4>1, GetsTo, RemovedTo DEF KeysOf, NoCall
      <4>2. CASE Count(k)
        <5>1. PICK pc \in {"unpin.get", "delete"} : CallTo(k, [call[k] EXCEPT !.pc = pc])
          BY <4>2 DEF Count
        <5> QED
          BY <2>3, <4>2, <5>1, MovesTo DEF Count, KeysOf
      <4>3. CASE UnpinGet(k)
        <5>1. PICK pc \in {"unpin.delete", "unpin.destroy"} : CallTo(k, [call[k] EXCEPT !.pc = pc])
          BY <4>3 DEF UnpinGet
        <5> QED
          BY <2>3, <4>3, <5>1, MovesTo DEF UnpinGet, KeysOf
      <4> QED
        BY <2>6, <4>1, <4>2, <4>3
    <3> QED
      BY <2>2, <2>5, <3>1
  <2>7. CASE PinGet(k)
    <3>1. /\ rec.pc = "pin" /\ rec.cid = c /\ call'[k].cid = c
          /\ call'[k].pc = (IF status[c] = "NOTFOUND" THEN "pin.put" ELSE "store")
          /\ KeysOf(c)' = KeysOf(c) /\ status' = status
      BY <1>3, <2>3, <2>4, <2>7, MovesTo DEF PinGet, KeysOf
    <3> QED
      BY <2>1, <2>2, <2>3, <3>1 DEF Fits
  <2>8. CASE PinPut(k)
    <3>1. /\ call'[k].cid = c /\ call'[k].pc = "store" /\ status'[c] = "PINNED"
      <4>1. rec.pc = "pin.put" /\ call'[k].pc = "store" /\ call'[k].cid = rec.cid
        BY <2>3, <2>8, MovesTo DEF PinPut
      <4>2. rec.cid = c
        BY <1>3, <2>4, <4>1
      <4> QED
        BY <2>3, <2>8, <4>1, <4>2 DEF PinPut, TypeOK
    <3> QED
      BY <2>2, <3>1 DEF Fits
  <2>9. CASE UnpinDestroy(k)
    <3>1. /\ rec.pc = "unpin.destroy" /\ call'[k].pc = "unpin.delete" /\ call'[k].old = rec.old
          /\ KeysOf(c)' = KeysOf(c) /\ status' = [status EXCEPT ![rec.old] = "DESTROYED"]
      BY <2>3, <2>9, MovesTo DEF UnpinDestroy, KeysOf
    <3>2. CASE rec.old = c
      BY <2>2, <2>3, <3>1, <3>2 DEF Fits, TypeOK
    <3>3. CASE rec.old # c
      BY <2>2, <2>3, <2>5, <3>1, <3>3 DEF TypeOK
    <3> QED
      BY <3>2, <3>3
  <2>10. CASE UnpinDelete(k)
    <3>1. /\ rec.pc = "unpin.delete" /\ call'[k].pc = "delete" /\ call'[k].old = rec.old
          /\ call'[k].key = rec.key
          /\ KeysOf(c)' = KeysOf(c) /\ status' = [status EXCEPT ![rec.old] = "NOTFOUND"]
      BY <2>3, <2>10, MovesTo DEF UnpinDelete, KeysOf
    <3>2. CASE rec.old = c
      <4>1. KeysOf(c) \subseteq {rec.key}
        BY <1>0, <3>1, <3>2 DEF IInv, UnpinsOnly, OnlyKey
      <4> QED
        BY <2>2, <2>3, <3>1, <3>2, <4>1 DEF Fits, TypeOK
    <3>3. CASE rec.old # c
      BY <2>2, <2>3, <2>5, <3>1, <3>3 DEF TypeOK
    <3> QED
      BY <3>2, <3>3
  <2>11. CASE Delete(k)
    <3>1. /\ rec.pc = "delete" /\ rec.old \in Cids /\ call'[k].pc # "store" /\ status' = status
          /\ refs' = [refs EXCEPT ![rec.key] = None]
      BY <2>3, <2>11, RemovedTo DEF Delete, NoCall, TypeOK
    <3>2. KeysOf(c)' = KeysOf(c) \ {rec.key}
      BY <1>0, <2>3, <3>1 DEF KeysOf, TypeOK
    <3>3. CASE rec.old = c
      <4>1. \/ status[c] = "NOTFOUND" /\ KeysOf(c) \subseteq {rec.key}
            \/ \E key \in KeysOf(c) : key # rec.key
        BY <1>0, <3>1, <3>3 DEF IInv, UnpinsOnly, OnlyKey
      <4> QED
        BY <2>1, <2>2, <3>1, <3>2, <3>3, <4>1 DEF Fits
    <3>4. CASE rec.old # c
      <4>1. rec.key \notin KeysOf(c)
        BY <1>0, <3>1, <3>4 DEF IInv, KeyHeld, KeysOf
      <4> QED
        BY <2>2, <2>5, <3>1, <3>2, <3>4, <4>1
    <3> QED
      BY <3>3, <3>4
  <2>12. CASE Store(k)
    <3>1. /\ rec.pc = "store" /\ rec.cid = c /\ call'[k].cid # c /\ call'[k].old # c
          /\ status' = status /\ refs' = [refs EXCEPT ![rec.key] = c] /\ rec.key \in Keys
      <4>1. rec.pc = "store" /\ rec.cid = c /\ status' = status /\ call'[k] = NoCall
        BY <1>3, <2>3, <2>4, <2>12, MovesTo DEF Store
      <4>2. rec.key \in Keys
        BY <2>3, <4>1 DEF TypeOK, CallRec
      <4> QED
        BY <1>0, <2>12, <4>1, <4>2 DEF Store, NoCall
    <3>2. rec.key \in KeysOf(c)'
      BY <2>3, <3>1 DEF KeysOf, TypeOK
    <3> QED
      BY <2>1, <2>2, <3>1, <3>2 DEF Fits
  <2>13. ~ \E key \in Keys : Remove(k, key) \/ Edit(k, key) \/ \E d \in Cids : Put(k, key, d)
    BY <1>0, <1>3, <2>3, StartsTo DEF NoCall
  <2> QED
    BY <2>6, <2>7, <2>8, <2>9, <2>10, <2>11, <2>12, <2>13 DEF Step
<1> QED
  BY <1>2, <1>3

\* The reference through which a DESTROYED pin can be removed goes only after the pin.
LEMMA ResumableKept ==
  ASSUME IInv, TypeOK', NEW k \in Callers, Step(k),
         raced' = raced \cup {c \in Cids : Contended(c)'}
  PROVE  Resumable'
<1> SUFFICES ASSUME NEW c \in Cids \ raced', status'[c] = "DESTROYED" PROVE KeysOf(c)' # {}
  BY DEF Resumable
<1>0. /\ c \in Cids \ raced /\ c # None
      /\ TypeOK /\ RacesSeen /\ KeyHeld /\ UnpinsOnly /\ (status[c] = "DESTROYED" => KeysOf(c) # {})
  BY Apart, NoCidAssumption DEF IInv, Resumable
<1>1. CASE status[c] # "DESTROYED"
  <2>1. UnpinDestroy(k) /\ call[k].old = c
    BY <1>0, <1>1, StatusEffect
  <2>2. UNCHANGED refs /\ refs[call[k].key] = c /\ call[k].key \in Keys
    BY <1>0, <2>1 DEF UnpinDestroy, KeyHeld, TypeOK, CallRec, NoCall
  <2> QED
    BY <2>2 DEF KeysOf
<1>2. CASE status[c] = "DESTROYED"
  <2>1. PICK key \in Keys : refs[key] = c
    BY <1>0, <1>2 DEF KeysOf
  <2>2. CASE refs'[key] = c
    BY <2>2 DEF KeysOf
  <2>3. CASE refs'[key] # c
    <3>1. key = call[k].key /\ (Delete(k) \/ Store(k))
      BY <1>0, <2>1, <2>3, RefEffect
    <3>2. call[k].pc = "delete" /\ call[k].old = c
      BY <1>0, <2>1, <3>1 DEF Delete, Store, KeyHeld, TypeOK
    <3>3. PICK other \in KeysOf(c) : other # key
      BY <1>0, <1>2, <3>1, <3>2 DEF UnpinsOnly
    <3>4. refs'[other] = refs[other]
      BY <1>0, <3>1, <3>3, RefEffect DEF KeysOf
    <3> QED
      BY <3>3, <3>4 DEF KeysOf
  <2> QED
    BY <2>2, <2>3
<1> QED
  BY <1>1, <1>2

\* At the start nothing is there.
LEMMA InvInit == Init => IInv
<1> SUFFICES ASSUME Init PROVE IInv
  OBVIOUS
<1>1. TypeOK
  BY TypeInit
<1>2. RacesSeen /\ KeyHeld /\ UnpinsOnly
  BY NoCidAssumption DEF Init, RacesSeen, Contended, Touched, KeyHeld, UnpinsOnly, NoCall
<1>3. AllMatch /\ Resumable
  BY NoCidAssumption DEF Init, AllMatch, Matches, Resumable, KeysOf, NoCall
<1> QED
  BY <1>1, <1>2, <1>3 DEF IInv

\* A crash drops the calls: what the stores hold is enough.
LEMMA InvCrash == ASSUME IInv, TypeOK', Crash PROVE IInv'
<1>1. /\ \A k \in Callers : call'[k] = NoCall
      /\ UNCHANGED <<refs, status, raced>>
  BY DEF Crash
<1>2. ASSUME NEW c \in Cids \ (raced' \cup cut')
      PROVE  c \in Cids \ (raced \cup cut) /\ \A k \in Callers : call[k].cid # c /\ call[k].old # c
  BY NoCidAssumption DEF Crash, Touched
<1>3. RacesSeen' /\ KeyHeld' /\ UnpinsOnly'
  BY <1>1, NoCidAssumption DEF RacesSeen, Contended, Touched, KeyHeld, UnpinsOnly, NoCall
<1>4. AllMatch'
  BY <1>1, <1>2, NoCidAssumption DEF IInv, AllMatch, Matches, KeysOf, NoCall
<1>5. Resumable'
  BY <1>1 DEF IInv, Resumable, KeysOf
<1> QED
  BY <1>3, <1>4, <1>5 DEF IInv

\* Every step keeps the invariant.
LEMMA InvNext == IInv /\ [Next]_vars => IInv'
<1> SUFFICES ASSUME IInv, [Next]_vars PROVE IInv'
  OBVIOUS
<1>1. TypeOK'
  BY TypeNext DEF IInv
<1>2. ASSUME NEW k \in Callers, Step(k), raced' = raced \cup {c \in Cids : Contended(c)'},
             UNCHANGED cut
      PROVE  IInv'
  <2>1. RacesSeen'
    BY <1>2 DEF RacesSeen
  <2>2. KeyHeld'
    BY <1>1, <1>2, KeyHeldKept DEF IInv
  <2>3. UnpinsOnly'
    BY <1>1, <1>2, UnpinsOnlyKept DEF IInv
  <2>4. AllMatch'
    BY <1>1, <1>2, <2>2, <2>3, MatchKept
  <2>5. Resumable'
    BY <1>1, <1>2, ResumableKept
  <2> QED
    BY <1>1, <2>1, <2>2, <2>3, <2>4, <2>5 DEF IInv
<1>3. CASE Crash
  BY <1>1, <1>3, InvCrash
<1>4. CASE UNCHANGED vars
  <2>1. RacesSeen' /\ KeyHeld' /\ Resumable'
    BY <1>4 DEF vars, IInv, RacesSeen, Contended, Touched, KeyHeld, Resumable, KeysOf
  <2>2. UnpinsOnly' /\ AllMatch'
    BY <1>4 DEF vars, IInv, UnpinsOnly, OnlyKey, AllMatch, Matches, KeysOf
  <2> QED
    BY <1>1, <2>1, <2>2 DEF IInv
<1> QED
  BY <1>2, <1>3, <1>4 DEF Next

\* The inductive invariant holds in every reachable state.
THEOREM InvCorrect == Spec => []IInv
<1> QED
  BY InvInit, InvNext, PTL DEF Spec

\* A cid with a reference that no call works on stays pinned, whatever concurrent calls
\* do with its other references and with other cids.
THEOREM ProtectedCorrect == Spec => []Protected
<1>1. IInv => Protected
  <2> SUFFICES ASSUME IInv, NEW key \in Keys, NEW c \in Cids \ (raced \cup cut),
                      refs[key] = c, Idle(key)
               PROVE  status[c] = "PINNED"
    BY DEF Protected
  <2>1. Matches(c) /\ key \in KeysOf(c) /\ status[c] \in {"NOTFOUND", "PINNED", "DESTROYED"}
    BY DEF IInv, AllMatch, KeysOf, TypeOK
  <2>2. status[c] # "NOTFOUND"
    BY <2>1 DEF Matches, Idle
  <2>3. ASSUME status[c] = "DESTROYED" PROVE FALSE
    <3>1. PICK k \in Callers : call[k].old = c /\ call[k].pc = "unpin.delete"
      BY <2>1, <2>3 DEF Matches
    <3>2. key = call[k].key
      BY <2>1, <3>1 DEF IInv, UnpinsOnly, OnlyKey
    <3> QED
      BY <3>2 DEF Idle
  <2> QED
    BY <2>1, <2>2, <2>3
<1> QED
  BY <1>1, InvCorrect, PTL

\* No call leaves a cid pinned that nothing refers to.
THEOREM NoLeakCorrect == Spec => []NoLeak
<1>1. IInv => NoLeak
  BY DEF IInv, AllMatch, Matches, Resumable, NoLeak, TypeOK
<1> QED
  BY <1>1, InvCorrect, PTL

\* However calls are cut off by crashes, a DESTROYED pin keeps a reference.
THEOREM ResumableCorrect == Spec => []Resumable
<1>1. IInv => Resumable
  BY DEF IInv
<1> QED
  BY <1>1, InvCorrect, PTL
=============================================================================
