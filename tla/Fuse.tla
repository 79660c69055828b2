---------------------------------- MODULE Fuse ----------------------------------
(***************************************************************************)
(* packages/fuse: a group mounted as a filesystem, at present or with --at *)
(* a time.                                                                 *)
(*   now, cur, revs   the clock, and what the daemon has for each path: the*)
(*             time of its entry (0 without one) and of its revisions, in  *)
(*             the order list-revisions gives them                         *)
(*   data, fresh   the cached list (NoList until it is assigned for the    *)
(*             first time), and whether ts is less than 5 s old            *)
(*   phase, got   handler -> "idle", "list", "listed", "revs"; its list    *)
(*   shown     the last answer to readdir or getattr: the list it was made *)
(*             of, Thrown if it was undefined, Failed if the daemon refused*)
(*   refused   a handler has answered EACCES                               *)
(* The handlers of several requests of the kernel run at once.  A path is  *)
(* a sequence of names.                                                    *)
(***************************************************************************)
EXTENDS Naturals, Sequences, SequencesExt

CONSTANTS
  Handlers,
  Paths,        \* of the files
  Directories,  \* paths that are looked up besides
  NamePrefix,   \* pairs of names: the text of the first begins that of the second
  At,           \* argv.at: Undefined without --at, else a time
  Null, Undefined, NoList, Thrown, Failed, MaxTime

\* No file is below another one, and no name that is looked up begins the text of another one.
PlainNames ==
  LET Names == UNION {{p[i] : i \in DOMAIN p} : p \in Paths \cup Directories}
  IN /\ Paths \cup Directories \subseteq Seq(Names) /\ <<>> \notin Paths
     /\ \A n, m \in Names : <<n, m>> \in NamePrefix <=> m = n
     /\ \A p, q \in Paths : IsPrefix(p, q) => p = q

VARIABLES now, cur, revs, data, fresh, phase, got, shown, refused

vars == <<now, cur, revs, data, fresh, phase, got, shown, refused>>
daemonVars == <<now, cur, revs>>

Init ==
  /\ now = 1 /\ cur = [p \in Paths |-> 0] /\ revs = [p \in Paths |-> <<>>]
  /\ data = NoList /\ fresh = FALSE
  /\ phase = [h \in Handlers |-> "idle"] /\ got = [h \in Handlers |-> NoList]
  /\ shown = NoList /\ refused = FALSE
-----------------------------------------------------------------------------
(* The daemon. *)

Put(p) ==
  /\ now < MaxTime /\ now' = now + 1
  /\ cur' = [cur EXCEPT ![p] = now] /\ revs' = [revs EXCEPT ![p] = Append(@, now)]
  /\ UNCHANGED <<data, fresh, phase, got, shown, refused>>

Delete(p) ==
  /\ cur[p] # 0 /\ now < MaxTime /\ now' = now + 1
  /\ cur' = [cur EXCEPT ![p] = 0] /\ UNCHANGED revs
  /\ UNCHANGED <<data, fresh, phase, got, shown, refused>>
-----------------------------------------------------------------------------
(* group.query. *)

Expire ==
  /\ fresh /\ fresh' = FALSE
  /\ UNCHANGED <<daemonVars, data, phase, got, shown, refused>>

\* What a handler makes of the list: reading an undefined one throws.
Answered(list) == shown' = IF list = NoList THEN Thrown ELSE list

\* Mutant: ts is set when the list has come, and never grows old before.
QueryLate(h) ==
  /\ phase[h] = "idle"
  /\ IF data # NoList THEN Answered(data) /\ UNCHANGED <<fresh, phase>>
     ELSE fresh' = TRUE /\ phase' = [phase EXCEPT ![h] = "list"] /\ UNCHANGED shown
  /\ UNCHANGED <<daemonVars, data, got, refused>>

\* ts is set before the list is asked for: until it comes, others get the one before.
Query(h) ==
  /\ phase[h] = "idle"
  /\ IF fresh THEN Answered(data) /\ UNCHANGED <<fresh, phase>>
     ELSE fresh' = TRUE /\ phase' = [phase EXCEPT ![h] = "list"] /\ UNCHANGED shown
  /\ UNCHANGED <<daemonVars, data, got, refused>>

\* The daemon makes the list; responses can overtake each other.
List(h) ==
  /\ phase[h] = "list"
  /\ phase' = [phase EXCEPT ![h] = "listed"] /\ got' = [got EXCEPT ![h] = cur]
  /\ UNCHANGED <<daemonVars, data, fresh, shown, refused>>

\* The list arrives and is the cached one at once, before it is looked at for --at.
Listed(h) ==
  /\ phase[h] = "listed" /\ data' = got[h]
  /\ IF At = Undefined
     THEN phase' = [phase EXCEPT ![h] = "idle"] /\ Answered(data')
     ELSE phase' = [phase EXCEPT ![h] = "revs"] /\ UNCHANGED shown
  /\ UNCHANGED <<daemonVars, fresh, got, refused>>

\* The entry if it is older than --at, else the first revision in the list that is.
Older(p, t) ==
  LET old == SelectSeq(revs[p], LAMBDA r : r < At) IN IF t < At THEN t ELSE IF old = <<>> THEN 0 ELSE old[1]

Filtered(h) ==
  /\ phase[h] = "revs" /\ phase' = [phase EXCEPT ![h] = "idle"]
  /\ data' = [p \in Paths |-> Older(p, got[h][p])] /\ Answered(data')
  /\ UNCHANGED <<daemonVars, fresh, got, refused>>

\* A request to the daemon is rejected; ts stays.
Fails(h) ==
  /\ phase[h] \in {"listed", "revs"} /\ phase' = [phase EXCEPT ![h] = "idle"] /\ shown' = Failed
  /\ UNCHANGED <<daemonVars, data, fresh, got, refused>>

\* write, create, unlink, rename, mkdir and rmdir begin with the same test: null is not what a missing option is.
Change(h) ==
  /\ phase[h] = "idle" /\ At # Null
  /\ refused' = TRUE
  /\ UNCHANGED <<daemonVars, data, fresh, phase, got, shown>>

Next ==
  \/ \E p \in Paths : Put(p) \/ Delete(p)
  \/ Expire
  \/ \E h \in Handlers : Query(h) \/ List(h) \/ Listed(h) \/ Filtered(h) \/ Fails(h) \/ Change(h)

Spec == Init /\ [][Next]_vars

\* Somebody looks at the mount again and again, the daemon answers, its answers are rejections only so often.
Fairness ==
  /\ WF_vars(Expire) /\ <>[][\A h \in Handlers : ~Fails(h)]_vars
  /\ \A h \in Handlers : WF_vars(Query(h)) /\ WF_vars(List(h)) /\ WF_vars(Listed(h)) /\ WF_vars(Filtered(h))
FairSpec == Spec /\ Fairness
-----------------------------------------------------------------------------
(* What is made of a list. *)

Found(list) == {p \in Paths : list[p] # 0}

\* l.path.startsWith(path): the last name may be the beginning of one.
StartsWith(p, path) ==
  \/ path = <<>>
  \/ /\ Len(path) <= Len(p) /\ IsPrefix(Front(path), p)
     /\ <<path[Len(path)], p[Len(path)]>> \in NamePrefix

Getattr(list, path) ==
  IF path \in Found(list) THEN "file"
  ELSE IF path = <<>> \/ \E p \in Found(list) : StartsWith(p, path) THEN "dir" ELSE "none"

\* Mutant: all that is listed is a file.
ReaddirFiles(list, path) ==
  {[name |-> p[Len(path) + 1], mode |-> "file"] :
     p \in {q \in Found(list) : StartsWith(q, path) /\ Len(q) > Len(path)}}

Readdir(list, path) ==
  {[name |-> p[Len(path) + 1], mode |-> IF p = Append(path, p[Len(path) + 1]) THEN "file" ELSE "dir"] :
     p \in {q \in Found(list) : StartsWith(q, path) /\ Len(q) > Len(path)}}
-----------------------------------------------------------------------------
\* README, "After the group has been mounted through FUSE you can use it as you would a normal filesystem": what a
\* directory lists is found there, and is what the directory says it is.
ListedIsFound ==
  shown \notin {NoList, Thrown, Failed} =>
    \A path \in {x \in Directories : Getattr(shown, x) = "dir"} : \A e \in Readdir(shown, path) :
      Getattr(shown, Append(path, e.name)) = e.mode

\* README, same sentence: a mount without --at can be changed.
Changes == At = Undefined => ~refused

\* README, same sentence: no handler reads a list that is not there.
Answers == shown # Thrown

\* What changed in the daemon is seen in the mount, whatever was cached and whatever overtook what.
CatchesUp == At = Undefined => <>[](shown = cur)

\* A mount with --at shows, again and again, a list without anything that is newer.
ShowsOld == At # Undefined => []<>(shown \notin {NoList, Thrown, Failed} /\ \A p \in Found(shown) : shown[p] < At)
=============================================================================
