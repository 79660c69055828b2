------------------------- MODULE HeliaPinManagerInv -------------------------
(***************************************************************************)
(* The inductive invariant behind CompletedWhole, UnpinClean and           *)
(* NothingForgotten.  Everything but the first two parts speaks of pins    *)
(* that no unpin has raced with.                                           *)
(***************************************************************************)
EXTENDS HeliaPinManager

\* The block is still to be downloaded for the pin, or its links were queued for it.
Covered(p, c) == <<p, c>> \in downloads \cup walked

\* Every overlap of an unpin with other work on its pin is remembered.
RacesSeen == \A p \in Pins : Contended(p) => p \in raced

\* Rows, and what a run holds, lie in the DAG of their pin.
RowsBelow ==
  /\ \A p \in Pins, c \in Cids : <<p, c>> \in downloads => c \in Dag[p]
  /\ \A c \in Cids : \A p \in run[c].snap : c \in Dag[p]

RunShape ==
  \A c \in Cids :
    /\ run[c].pc \in {"idle", "query"} => run[c].snap = {}
    /\ run[c].pc \in {"idle", "query", "fetch", "refs", "refput"} => run[c].todo = {}
    /\ run[c].pc \in {"record", "clear"} => run[c].todo \subseteq run[c].snap \X {c}
    /\ run[c].pc = "links" => run[c].todo \subseteq run[c].snap \X Links[c]

\* What the run of c has done for a pin it serves: it gives up the pin's row last.
Serves(c, p) ==
  /\ run[c].pc # "fetch" => c \in blockstore
  /\ run[c].pc # "clear" \/ <<p, c>> \in run[c].todo => <<p, c>> \in downloads
  /\ run[c].pc = "record" => <<p, c>> \in blocks \cup run[c].todo
  /\ run[c].pc \in {"links", "clear"} => <<p, c>> \in blocks
  /\ run[c].pc = "links" => \A l \in Links[c] : Covered(p, l) \/ <<p, l>> \in run[c].todo
  /\ run[c].pc = "clear" => \A l \in Links[c] : Covered(p, l)

RunProgress == \A c \in Cids : \A p \in run[c].snap \ raced : Serves(c, p)

\* A walked block is recorded and stored, and its links are covered.
Passed(p, c) == <<p, c>> \in blocks /\ c \in blockstore /\ \A l \in Links[c] : Covered(p, l)

Frontier == \A p \in Pins \ raced : \A c \in Cids : <<p, c>> \in walked => Passed(p, c)

\* Whoever has work on a pin has its root covered.
Rooted(p) ==
  /\ ~Unpinning(p) /\ (\E c \in Cids : Covered(p, c)) => Covered(p, p)
  /\ batch.pin = p /\ batch.pc = "yield" => Covered(p, p)
  /\ \A w \in Workers : worker[w].pin = p => Covered(p, p)

RootCovered == \A p \in Pins \ raced : Rooted(p)

\* How far the unpin k of p has come.
Unpins(k, p) ==
  /\ caller[k].pc \in {"unpin.rm", "unpin.release", "unpin.refput", "unpin.delete"} =>
       pins[p] \in {"NOTFOUND", "DESTROYED"}
  /\ caller[k].pc \in {"unpin.release", "unpin.refput", "unpin.delete"} => p \notin heliaPins
  /\ caller[k].pc = "unpin.delete" =>
       \A c \in Cids :
         /\ <<p, c>> \notin walked
         /\ <<p, c>> \in downloads => <<"downloads", c>> \in caller[k].todo
         /\ <<p, c>> \in blocks => <<"blocks", c>> \in caller[k].todo

UnpinProgress == \A k \in Callers : \A p \in Pins \ raced : caller[k].pin = p => Unpins(k, p)

\* A pin that is not there has nothing recorded, and nobody works on it.
Empty(p) == p \notin heliaPins /\ \A c \in Cids : <<p, c>> \notin downloads \cup blocks \cup walked

Gone(p) ==
  /\ ~Downloading(p)
  /\ \A k \in Callers : caller[k].pin = p => caller[k].pc \in {"pin.put", "local.put"} \cup UnpinPcs
  /\ ~Unpinning(p) => Empty(p)

Absent == \A p \in Pins \ raced : pins[p] = "NOTFOUND" => Gone(p)

LocalPcs == {"local.walk", "local.refs", "local.refput", "local.row"}
Reached(k) ==
  caller[k].visited \cup {caller[k].cid} \cup {c \in Cids : <<"walk", c>> \in caller[k].todo}

\* The local walk k of p has recorded what it visited and holds the links it has to follow.
Walks(k, p) ==
  /\ caller[k].pc \in {"local.put", "local.walk"} => caller[k].cid = None
  /\ caller[k].pc = "local.put" => caller[k].visited = {} /\ p \in Reached(k)
  /\ caller[k].pc \in LocalPcs => p \in Reached(k)
  /\ caller[k].pc \in LocalPcs =>
       \A c \in Cids \cap (caller[k].visited \cup {caller[k].cid}) :
         c \in blockstore /\ Links[c] \subseteq Reached(k)
  /\ caller[k].pc \in LocalPcs => \A c \in caller[k].visited : <<p, c>> \in blocks
  /\ caller[k].pc = "local.complete" => p \in heliaPins /\ Whole(p)

LocalProgress == \A k \in Callers : \A p \in Pins \ raced : caller[k].pin = p => Walks(k, p)

\* A closure about to complete its pin has found the whole DAG recorded.
Completes(w, p) ==
  /\ worker[w].pc \in {"pinref", "complete"} => Whole(p)
  /\ worker[w].pc = "complete" => p \in heliaPins

CompletingWhole == \A w \in Workers : \A p \in Pins \ raced : worker[w].pin = p => Completes(w, p)

IInv ==
  /\ TypeOK /\ RacesSeen /\ RowsBelow /\ RunShape /\ RunProgress /\ Frontier /\ RootCovered
  /\ UnpinProgress /\ Absent /\ LocalProgress /\ CompletingWhole /\ CompletedWhole
=============================================================================
