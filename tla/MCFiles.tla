--------------------------------- MODULE MCFiles ---------------------------------
(***************************************************************************)
(* Files, on small instances, with RevisionKeys and DagJson.               *)
(* They share no state, so that no interleaving of two of them shows more  *)
(* than each does: `which` is chosen at the start, only that component     *)
(* moves, and the properties are those of that component.  DagSize,        *)
(* Portation and DagJson, which begin with any DAG, disk and value, do so  *)
(* only when they are chosen.                                              *)
(***************************************************************************)
EXTENDS Files, RevisionKeys, DagJson

CONSTANTS
  Chosen,     \* the components that may be chosen
  XBeginsY,   \* whether the name of the file y begins with that of the file x
  dir, f, hold, holder, x, y, w1

VARIABLE which

timeVars == <<now, times>>
sizeVars == <<links, codec, queue, got, blocks, failed>>
portVars == <<disk, entries, calls, export, listed, out>>
mcVars == <<which, allVars, keyVars, timeVars, jsonVars, sizeVars, portVars>>

\* /dir, the file f = /dir/sub/f, and the place holders of dir and of the root; and two files x and y.
Tree == {dir, f, hold, holder}
Two == {x, y}
MCPaths == Tree \cup Two
MCUnder == [p \in MCPaths |-> IF p = dir THEN {dir, f, hold} ELSE IF XBeginsY /\ p = x THEN Two ELSE {p}]
MCAbove == [p \in MCPaths |-> IF p = f THEN {dir, f, hold} ELSE IF p \in Tree THEN Tree ELSE Two]
MCPlaceHolder == [p \in MCPaths |-> IF p = f THEN hold ELSE IF p \in Tree THEN holder ELSE x]
MCWriters == {w1}

\* What the uploads ask for: everything of some, nothing of one, and of most the dates.
MCStrategyOf ==
  [z \in MCPaths \X (0..4) |->
     IF z[2] = 0 \/ z = <<y, 3>> THEN "none" ELSE IF z \in {<<x, 3>>, <<y, 1>>, <<f, 2>>} THEN "all" ELSE "log"]

\* An interval that is longer than one operation: the dates are 119 and 102 at first, and 136 and 119 later.
MCIntervals == <<17>>

\* A file deep in a directory with the name of the version, and two files whose names begin alike.
KeyPaths == {<<"r", "e", "y">>, <<"n">>, <<"nn">>}
KeyAsked == {<<"r">>, <<"n">>}
KeyLonger == {<<"n", "nn">>}

\* Intervals of 2, 4 and 8 units stand for days, weeks and months.
MCSpans == <<2, 4, 8>>

\* Maps of up to two fields two deep, with two keys, and of one field five deep.
RECURSIVE Lists(_, _, _), Jsons(_, _, _), RankOf(_)
Lists(width, keys, vs) ==
  {<<"end">>} \cup
  IF width = 0 THEN {} ELSE {<<"field", k, v, l>> : k \in keys, v \in vs, l \in Lists(width - 1, keys, vs)}
Jsons(width, keys, depth) ==
  {<<"str">>, <<"num">>} \cup
  IF depth = 0 THEN {} ELSE {<<"map", l>> : l \in Lists(width, keys, Jsons(width, keys, depth - 1))}
RankOf(v) ==
  CASE v[1] = "map" -> 1 + RankOf(v[2])
    [] v[1] = "field" -> 1 + RankOf(v[3]) + RankOf(v[4])
    [] v[1] \in {"str", "num", "end"} -> 0

TwoKeys == {"/", "bytes"}
MCJsonKeys == TwoKeys \cup {"k"}
MCNodes ==
  Jsons(2, TwoKeys, 2) \cup Lists(2, TwoKeys, Jsons(2, TwoKeys, 1))
  \cup Jsons(1, MCJsonKeys, 5) \cup Lists(1, MCJsonKeys, Jsons(1, MCJsonKeys, 4))
MCRank == [v \in MCNodes |-> RankOf(v)]

\* A directory with two files of one name, one of them deeper, and a file beside it, all of one block; any of them may be
\* missing. The directories may be imported into one target, so that one file is put over the other; and the file beside
\* them may be put where another import makes a directory.
Disk == {<<"dir", "x">>, <<"dir", "sub", "x">>, <<"f">>}
MCDisks == {[p \in some |-> [of |-> p, kind |-> "raw"]] : some \in SUBSET Disk}
MCSources == {<<"dir">>, <<"dir", "sub">>, <<"f">>}
MCTargets == {<<"v">>, <<"v", "sub">>}
MCNameOf == [z \in {} |-> "cid"]

ASSUME FilesAssumption == TreeOK /\ StrategiesOK /\ DatesMeet /\ Write!IntervalsOK /\ NodesOK /\ Size!TopOK
ASSUME PortAssumption == Port!PathsOK({"dir", "sub", "x", "f", "v"})
-----------------------------------------------------------------------------
MCInit ==
  /\ which \in Chosen
  /\ RevInit /\ KeysInit /\ Write!Init
  /\ Size!Init /\ (which # "size" => links = [c \in 1..Top |-> {}] /\ codec = [c \in 1..Top |-> "raw"])
  /\ Port!Init /\ (which # "port" => disk = [p \in {} |-> Off])
  /\ (which # "json" => value = <<"str">>) /\ JsonInit

\* At most n operations and m crashes, on the paths of S.
Bounds(n, m, S) ==
  /\ ops' <= n /\ crashes' <= m
  /\ op' # NoOp => op'.path \in S
  /\ \A w \in Writers : call'[w] # Idle => call'[w].path \in S

\* A write command beside the queue; or uploads and deletes with the handlers of revisions; or more uploads with them.
FilesNext ==
  \/ which = "files" /\ Next /\ UNCHANGED revVars /\ Bounds(2, 1, Tree)
  \/ which = "queue" /\ RevNext /\ Bounds(3, 2, Tree) /\ Unwritten'
  \/ which = "revs" /\ RevNext /\ Bounds(4, 2, Two) /\ Unwritten' /\ op'.kind # "delete"

MCNext ==
  \/ FilesNext /\ UNCHANGED <<which, keyVars, timeVars, jsonVars, sizeVars, portVars>>
  \/ which = "keys" /\ KeysNext /\ UNCHANGED <<which, allVars, timeVars, jsonVars, sizeVars, portVars>>
  \/ which = "write" /\ Write!Next /\ UNCHANGED <<which, allVars, keyVars, jsonVars, sizeVars, portVars>>
  \/ which = "json" /\ JsonNext /\ UNCHANGED <<which, allVars, keyVars, timeVars, sizeVars, portVars>>
  \/ which = "size" /\ Size!Next /\ UNCHANGED <<which, allVars, keyVars, timeVars, jsonVars, portVars>>
  \/ which = "port" /\ Port!Next /\ UNCHANGED <<which, allVars, keyVars, timeVars, jsonVars, sizeVars>>

MCSpec == MCInit /\ [][MCNext]_mcVars
=============================================================================
