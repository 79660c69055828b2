------------------------------ MODULE Revisions ------------------------------
(***************************************************************************)
(* packages/daemon/src/modules/revisions on top of FileSystem: a listener  *)
(* of "file:added" stores the new entry as a revision of this author and   *)
(* then deletes the revisions that the strategy does not select.  Nothing  *)
(* waits for it: handlers of different events run beside each other and    *)
(* beside further changes of the files.                                    *)
(*   revs      the revisions in the database, [path, seq, data]; path and  *)
(*             seq are the key                                             *)
(*   handlers  [path, seq, data, pc, todo]: listeners that delete what     *)
(*             they have not selected; an event in `added` is a listener   *)
(*             that has been called and waits for the write of its         *)
(*             revision                                                    *)
(*   recorded  history: what was ever stored under a key                   *)
(*   deleted   history: the paths of which an entry was ever deleted       *)
(* A crash drops the handlers.  Operation n of the queue runs from time    *)
(* 10 n to 10 n + 9, and its revision has a later time stamp each time it  *)
(* is repeated.                                                            *)
(***************************************************************************)
EXTENDS FileSystem, SelectRevisions

CONSTANTS
  StrategyOf,  \* <<path, number of an operation>> -> "all", "none" or "log"; the place holder is number 0
  Default      \* the strategy of the configuration

VARIABLES revs, handlers, recorded, deleted

revVars == <<revs, handlers, recorded, deleted>>
allVars == <<vars, revVars>>

KeyOf(r) == <<r.path, r.seq>>
Without(key) == {r \in revs : KeyOf(r) # key}

RevInit == Init /\ revs = {} /\ handlers = {} /\ recorded = {} /\ deleted = {}

\* The dates of selectRevisions are all later than 0.
Time(r) == 100 + 10 * (CHOOSE n \in r.data : TRUE) + r.seq
Keep(rs, strategy) ==
  LET kept == Select({Time(r) : r \in rs}, 109 + 10 * ops, strategy) IN {r \in rs : Time(r) \in kept}

\* The entry has the strategy that its upload asked for; a write command leaves it, and has the default if there is none.
RevisionStrategy(e) ==
  LET numbers == e.data \cap (0..MaxOps)
  IN IF numbers = {} THEN Default ELSE StrategyOf[<<e.path, CHOOSE n \in numbers : TRUE>>]

RevPut(e) ==
  /\ added' = added \ {e}
  /\ revs' = Without(KeyOf(e)) \cup {e}
  /\ recorded' = recorded \cup {e}
  /\ handlers' = handlers \cup {[path |-> e.path, seq |-> e.seq, data |-> e.data, pc |-> "select", todo |-> {}]}
  /\ UNCHANGED <<db, pins, op, call, ops, crashes, deleted>>

Become(h, rec) == handlers' = (handlers \ {h}) \cup {rec}

\* Mutant: the revision that was just added is the one to keep.
RevSelectOwn(h) ==
  /\ h.pc = "select"
  /\ LET rs == {r \in revs : r.path \in Under[h.path]}
     IN Become(h, [h EXCEPT !.pc = "delete", !.todo = {r \in rs : KeyOf(r) # KeyOf(h)}])
  /\ UNCHANGED <<vars, revs, recorded, deleted>>

\* getAll lists the revisions of the path and of every path that begins with it.
RevSelect(h) ==
  /\ h.pc = "select"
  /\ LET rs == {r \in revs : r.path \in Under[h.path]}
     IN Become(h, [h EXCEPT !.pc = "delete", !.todo = rs \ Keep(rs, RevisionStrategy(h))])
  /\ UNCHANGED <<vars, revs, recorded, deleted>>

\* One after the other, by key: what is stored under the key by then is deleted.
RevDelete(h) ==
  /\ h.pc = "delete"
  /\ \/ h.todo = {} /\ handlers' = handlers \ {h} /\ UNCHANGED revs
     \/ \E r \in h.todo : /\ revs' = Without(KeyOf(r))
                          /\ Become(h, [h EXCEPT !.todo = @ \ {r}])
  /\ UNCHANGED <<vars, recorded, deleted>>

RevNext ==
  \/ /\ FileStep
     /\ deleted' = deleted \cup {p \in Paths : db[p] # NoEntry /\ db'[p] = NoEntry}
     /\ UNCHANGED <<revs, handlers, recorded>>
  \/ Crash /\ handlers' = {} /\ UNCHANGED <<revs, recorded, deleted>>
  \/ \E e \in added : RevPut(e)
  \/ \E h \in handlers : RevSelect(h) \/ RevDelete(h)

RevSpec == RevInit /\ [][RevNext]_allVars
-----------------------------------------------------------------------------
Resting == op = NoOp /\ added = {} /\ handlers = {} /\ \A q \in Procs : call[q].pc \in {"idle", "returned"}

\* The sequence number of a file names one content for ever, however crashes repeat its upload and however late its
\* handler is: no revision is ever stored over another one.  The numbers of a file that is deleted begin again.
RevisionsDistinct ==
  Unwritten => \A r, s \in recorded : KeyOf(r) = KeyOf(s) /\ r.path \notin deleted => r.data = s.data

StrategiesOK ==
  /\ StrategyOf \in [Paths \X (0..MaxOps) -> {"all", "none", "log"}] /\ Default \in {"all", "none", "log"}
  /\ \A p \in Paths : StrategyOf[<<p, 0>>] = "none"

\* All selections look for the revision that is closest to some one date: the code has dates up to four months back.
DatesMeet == \E d \in 0..109 + 10 * MaxOps : \A n \in 1..MaxOps : \E i \in DOMAIN Dates(109 + 10 * n) : Dates(109 + 10 * n)[i] = d

HasHistory(p) == \E r \in revs : r.path = p

\* Every upload of the file asked for a history, and it was never deleted.
AsksHistory(p) ==
  /\ p \notin deleted /\ \E r \in recorded : r.path = p
  /\ \A r \in recorded : r.path = p => RevisionStrategy(r) # "none"

\* Of the file and another one that was stored, the name of one begins with that of the other.
BeginAlike(p) == \E r \in recorded : r.path # p /\ (p \in Under[r.path] \/ r.path \in Under[p])

\* architecture.md:5, "The daemon keeps a list of historical versions": some version of a file is left, with any strategies
\* but "none", while handlers select and delete beside each other and other files are deleted.
HistoryKept == Unwritten => \A p \in Paths : AsksHistory(p) => HasHistory(p)

\* The same of files whose name does not begin as that of another file.  Although every handler may delete the oldest
\* revision, or the newest, and does so after others have selected, they never delete all that there was.
HistoryLeft == Unwritten => \A p \in Paths : AsksHistory(p) /\ ~BeginAlike(p) => HasHistory(p)

\* revisions.spec.ts, "creates a revision when a file is added to the filesystem": it is still there at rest.
EveryAddKept == Resting /\ (\A r \in recorded : RevisionStrategy(r) = "all") => recorded = revs
=============================================================================
