---------------------------- MODULE ReferencesInv ----------------------------
(* The inductive invariant behind Protected, NoLeak and Resumable. *)
EXTENDS References

\* Every overlap of two calls is remembered.
RacesSeen == \A c \in Cids : Contended(c) => c \in raced

\* A removal has read the cid of its key, and a put has cleared its key before it
\* pins; unless another call of the key interfered.
KeyHeld ==
  \A k \in Callers : \A c \in Cids \ raced :
    /\ call[k].old \in Cids => (refs[call[k].key] = c <=> call[k].old = c)
    /\ call[k].pc \in {"pin", "pin.put", "store"} => refs[call[k].key] # c

\* A call that unpins removes the only reference.
OnlyKey(k, c) == KeysOf(c) \subseteq {call[k].key}
UnpinsOnly ==
  \A k \in Callers : \A c \in Cids \ raced :
    /\ call[k].old = c /\ call[k].pc \in {"unpin.get", "unpin.destroy", "unpin.delete"} =>
         OnlyKey(k, c)
    /\ call[k].old = c /\ call[k].pc = "delete" =>
         \/ status[c] = "NOTFOUND" /\ OnlyKey(k, c)
         \/ \E key \in KeysOf(c) : key # call[k].key

\* Status and references of a cid agree, up to what the one call that works on it does.
Matches(c) ==
  /\ status[c] = "PINNED" =>
       KeysOf(c) # {} \/ \E k \in Callers : call[k].cid = c /\ call[k].pc = "store"
  /\ status[c] = "DESTROYED" => \E k \in Callers : call[k].old = c /\ call[k].pc = "unpin.delete"
  /\ status[c] = "NOTFOUND" =>
       \A key \in KeysOf(c) :
         \E k \in Callers : call[k].old = c /\ call[k].key = key /\ call[k].pc = "delete"
  /\ \A k \in Callers : call[k].cid = c /\ call[k].pc = "store" => status[c] = "PINNED"

AllMatch == \A c \in Cids \ (raced \cup cut) : Matches(c)

IInv == TypeOK /\ RacesSeen /\ KeyHeld /\ UnpinsOnly /\ AllMatch /\ Resumable
=============================================================================
