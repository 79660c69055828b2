------------------------------ MODULE References ------------------------------
(***************************************************************************)
(* packages/daemon/src/common/pin-manager: the daemon refers to a cid by   *)
(* the keys of the files and revisions that hold it.  The first reference  *)
(* pins the cid with Helia's pin manager, the last one to go unpins it.    *)
(*   refs    the datastore: key -> the cid it refers to                    *)
(*   status  the row of a cid in the pin manager's table.  A pin that is   *)
(*           there, at whatever stage, is "PINNED"; DESTROYED is the mark  *)
(*           that unpin sets before it removes the pin                     *)
(*   call    the calls in progress: from the sync of a group, the upload   *)
(*           operations and the edit command, which run concurrently       *)
(* An action is the code between two awaits and the datastore call that    *)
(* ends it.  Left out: priority and paused, which are stored with the cid  *)
(* and are read by nothing here.                                           *)
(***************************************************************************)

CONSTANTS
  Keys,     \* the keys of references
  Cids,     \* the cids they may refer to
  Callers,  \* concurrent calls
  Allowed   \* which of "put", "remove", "edit", "crash" may happen

None == "none"
ASSUME NoKeyAssumption == None \notin Keys
ASSUME NoCidAssumption == None \notin Cids

VARIABLES
  refs, status,   \* in the datastore
  call,           \* volatile
  raced, cut      \* history: cids whose calls overlapped, or were cut off by a crash

vars == <<refs, status, call, raced, cut>>

\* op, key and cid are the arguments, old is the cid that remove has read.
NoCall == [pc |-> "idle", op |-> None, key |-> None, cid |-> None, old |-> None]

CallTo(k, rec) == call' = [call EXCEPT ![k] = rec]

\* getByPin: the keys that refer to a cid.
KeysOf(c) == {key \in Keys : refs[key] = c}
AtMostOne(S) == \A x, y \in S : x = y

Init ==
  /\ refs = [key \in Keys |-> None]
  /\ status = [c \in Cids |-> "NOTFOUND"]
  /\ call = [k \in Callers |-> NoCall]
  /\ raced = {}
  /\ cut = {}

-----------------------------------------------------------------------------
(* put(key, cid) and remove(key).  put begins with remove, also for the same cid. *)

Put(k, key, c) ==
  /\ "put" \in Allowed
  /\ call[k].pc = "idle"
  /\ CallTo(k, [NoCall EXCEPT !.pc = "get", !.op = "put", !.key = key, !.cid = c])
  /\ UNCHANGED <<refs, status>>

Remove(k, key) ==
  /\ "remove" \in Allowed
  /\ call[k].pc = "idle"
  /\ CallTo(k, [NoCall EXCEPT !.pc = "get", !.op = "remove", !.key = key])
  /\ UNCHANGED <<refs, status>>

\* The edit command reads a reference and puts it again with another priority.
Edit(k, key) ==
  /\ "edit" \in Allowed
  /\ call[k].pc = "idle"
  /\ refs[key] # None
  /\ CallTo(k, [NoCall EXCEPT !.pc = "get", !.op = "put", !.key = key, !.cid = refs[key]])
  /\ UNCHANGED <<refs, status>>

\* Where the call goes when its remove returns.
Removed(k) ==
  CallTo(k, IF call[k].op = "put" THEN [call[k] EXCEPT !.pc = "pin", !.old = None] ELSE NoCall)

\* Mutant: put does not remove the old reference first.
GetNew(k) ==
  /\ call[k].pc = "get"
  /\ IF refs[call[k].key] = None \/ call[k].op = "put"
     THEN Removed(k)
     ELSE CallTo(k, [call[k] EXCEPT !.pc = "count", !.old = refs[call[k].key]])
  /\ UNCHANGED <<refs, status>>

\* A key without a reference: there is nothing to remove.
Get(k) ==
  /\ call[k].pc = "get"
  /\ IF refs[call[k].key] = None
     THEN Removed(k)
     ELSE CallTo(k, [call[k] EXCEPT !.pc = "count", !.old = refs[call[k].key]])
  /\ UNCHANGED <<refs, status>>

\* Mutant: the cid is unpinned whoever else refers to it.
CountAny(k) ==
  /\ call[k].pc = "count"
  /\ CallTo(k, [call[k] EXCEPT !.pc = "unpin.get"])
  /\ UNCHANGED <<refs, status>>

\* Mutant: the reference goes first, its cid is unpinned afterwards.
CountDelete(k) ==
  /\ call[k].pc = "count"
  /\ CallTo(k, [call[k] EXCEPT !.pc =
       IF AtMostOne(KeysOf(call[k].old)) THEN "unpin.get" ELSE "delete"])
  /\ refs' = [refs EXCEPT ![call[k].key] = None]
  /\ UNCHANGED status

\* The last reference unpins.
Count(k) ==
  /\ call[k].pc = "count"
  /\ CallTo(k, [call[k] EXCEPT !.pc =
       IF AtMostOne(KeysOf(call[k].old)) THEN "unpin.get" ELSE "delete"])
  /\ UNCHANGED <<refs, status>>

\* The reference goes last.
Delete(k) ==
  /\ call[k].pc = "delete"
  /\ refs' = [refs EXCEPT ![call[k].key] = None]
  /\ Removed(k)
  /\ UNCHANGED status

Store(k) ==
  /\ call[k].pc = "store"
  /\ refs' = [refs EXCEPT ![call[k].key] = call[k].cid]
  /\ CallTo(k, NoCall)
  /\ UNCHANGED status

-----------------------------------------------------------------------------
(* pin and unpin of Helia's pin manager, as far as the row of the cid goes. *)

UnpinGet(k) ==
  /\ call[k].pc = "unpin.get"
  /\ CallTo(k, [call[k] EXCEPT !.pc =
       IF status[call[k].old] = "NOTFOUND" THEN "unpin.delete" ELSE "unpin.destroy"])
  /\ UNCHANGED <<refs, status>>

UnpinDestroy(k) ==
  /\ call[k].pc = "unpin.destroy"
  /\ status' = [status EXCEPT ![call[k].old] = "DESTROYED"]
  /\ CallTo(k, [call[k] EXCEPT !.pc = "unpin.delete"])
  /\ UNCHANGED refs

UnpinDelete(k) ==
  /\ call[k].pc = "unpin.delete"
  /\ status' = [status EXCEPT ![call[k].old] = "NOTFOUND"]
  /\ CallTo(k, [call[k] EXCEPT !.pc = "delete"])
  /\ UNCHANGED refs

\* Nothing is done for a pin that is there, and one marked DESTROYED still is.
PinGet(k) ==
  /\ call[k].pc = "pin"
  /\ CallTo(k, [call[k] EXCEPT !.pc =
       IF status[call[k].cid] = "NOTFOUND" THEN "pin.put" ELSE "store"])
  /\ UNCHANGED <<refs, status>>

PinPut(k) ==
  /\ call[k].pc = "pin.put"
  /\ status' = [status EXCEPT ![call[k].cid] = "PINNED"]
  /\ CallTo(k, [call[k] EXCEPT !.pc = "store"])
  /\ UNCHANGED refs

-----------------------------------------------------------------------------
\* The cids a call works on.
Touched(k) == {call[k].cid, call[k].old} \ {None}

\* Another call works on the same key, or on the cid.
Contended(c) ==
  \E k \in Callers :
    /\ c \in Touched(k)
    /\ \E j \in Callers \ {k} : call[j].key = call[k].key \/ c \in Touched(j)

Step(k) ==
  \/ \E key \in Keys : Remove(k, key) \/ Edit(k, key) \/ \E c \in Cids : Put(k, key, c)
  \/ Get(k) \/ Count(k) \/ Delete(k) \/ Store(k)
  \/ UnpinGet(k) \/ UnpinDestroy(k) \/ UnpinDelete(k) \/ PinGet(k) \/ PinPut(k)

\* The daemon stops between two steps; what it was doing is not taken up again.
Crash ==
  /\ "crash" \in Allowed
  /\ call' = [k \in Callers |-> NoCall]
  /\ cut' = cut \cup UNION {Touched(k) : k \in Callers}
  /\ UNCHANGED <<refs, status, raced>>

Next ==
  \/ \E k \in Callers : Step(k) /\ raced' = raced \cup {c \in Cids : Contended(c)'} /\ UNCHANGED cut
  \/ Crash

Spec == Init /\ [][Next]_vars

-----------------------------------------------------------------------------
(* Properties *)

Pcs == {"idle", "get", "count", "unpin.get", "unpin.destroy", "unpin.delete", "delete",
        "pin", "pin.put", "store"}
CallRec ==
  [pc : Pcs, op : {"put", "remove", None}, key : Keys \cup {None},
   cid : Cids \cup {None}, old : Cids \cup {None}]

\* The type of every variable; a call has a key, a put its cid and a removal what it has read.
TypeOK ==
  /\ refs \in [Keys -> Cids \cup {None}]
  /\ status \in [Cids -> {"NOTFOUND", "PINNED", "DESTROYED"}]
  /\ call \in [Callers -> CallRec]
  /\ \A k \in Callers :
       /\ call[k].pc = "idle" <=> call[k].key = None
       /\ call[k].pc = "idle" => call[k] = NoCall
       /\ call[k].op = "put" <=> call[k].cid \in Cids
       /\ call[k].pc \in {"pin", "pin.put", "store"} => call[k].op = "put"
       /\ call[k].pc \in {"count", "unpin.get", "unpin.destroy", "unpin.delete", "delete"}
            <=> call[k].old \in Cids
  /\ raced \subseteq Cids
  /\ cut \subseteq Cids

Idle(key) == \A k \in Callers : call[k].key # key

\* A cid that a key refers to stays pinned while no call works on that key,
\* whatever other keys of the cid are put, removed or edited meanwhile.
Protected ==
  \A key \in Keys : \A c \in Cids \ (raced \cup cut) :
    refs[key] = c /\ Idle(key) => status[c] = "PINNED"

\* A pinned cid has a reference, or a put that pinned it is about to store one:
\* no pin is left that nothing will ever remove.
NoLeak ==
  \A c \in Cids \ (raced \cup cut) :
    status[c] # "NOTFOUND" =>
      KeysOf(c) # {} \/ \E k \in Callers : call[k].cid = c /\ call[k].pc = "store"

\* A crash in the middle of an unpin leaves a reference through which a later
\* removal can do it again: the reference is deleted last.
Resumable ==
  \A c \in Cids \ raced : status[c] = "DESTROYED" => KeysOf(c) # {}

\* "If we only have 1 reference be sure to unpin it.": when nothing is going on,
\* only cids with references are pinned.  Two calls may each count the other's reference.
LastUnpins ==
  (\A k \in Callers : call[k].pc = "idle") =>
    \A c \in Cids \ cut : status[c] = "PINNED" => KeysOf(c) # {}
=============================================================================
