------------------------------- MODULE Portation --------------------------------
(***************************************************************************)
(* A directory or a file of the disk is imported under a path of a group,  *)
(* and exported again.                                                     *)
(*   disk      path -> the file there; a file is what was written and the  *)
(*             kind of its root block, "raw" or "file" (of several blocks) *)
(*   entries   virtual path -> file                                        *)
(*   calls     the imports, each with its id: where from, where to, what   *)
(*             globSource has not given yet                                *)
(*   export    one export: its path, the imports that were over when it    *)
(*             began, what it has listed and not written yet, and whether  *)
(*             it has failed; Off before                                   *)
(*   listed    all that it listed                                          *)
(*   out       path -> file, under the directory of the export             *)
(* Paths are sequences of names.  No virtual path begins in the middle of  *)
(* a name: FileSystem has what getDir does then.                           *)
(***************************************************************************)
EXTENDS Naturals, Sequences, FiniteSets, SequencesExt, Functions

CONSTANTS
  Disks,       \* what may be on the disk
  Imports,     \* ids of the imports
  Sources,     \* paths that are imported
  Targets,     \* where to, and what is exported
  NameOf,      \* the name that the exporter has for a file: its cid
  Off

VARIABLES disk, entries, calls, export, listed, out

vars == <<disk, entries, calls, export, listed, out>>

Below(files, path) == {p \in DOMAIN files : IsPrefix(path, p)}
Rest(p, path) == SubSeq(p, Len(path) + 1, Len(p))
With(f, p, v) == [x \in DOMAIN f \cup {p} |-> IF x = p THEN v ELSE f[x]]

\* Paths are sequences of names, and every file is of one block.
PathsOK(Names) ==
  /\ Sources \cup Targets \subseteq Seq(Names)
  /\ \A d \in Disks : DOMAIN d \subseteq Seq(Names) /\ \A p \in DOMAIN d : d[p].kind = "raw"
  /\ Off \notin [path : Targets, over : SUBSET Imports, failed : BOOLEAN, todo : SUBSET Seq(Names)]

Empty == [p \in {} |-> 0]
Init ==
  /\ disk \in Disks /\ entries = Empty /\ calls = {}
  /\ export = Off /\ listed = Empty /\ out = Empty

\* importer: the file, or everything below the directory.
Import(id, from, to) ==
  /\ Below(disk, from) # {} /\ \A c \in calls : c.id # id
  /\ calls' = calls \cup {[id |-> id, from |-> from, to |-> to, todo |-> Below(disk, from)]}
  /\ UNCHANGED <<disk, entries, export, listed, out>>

\* Mutant: the whole path of the file follows the target.
VirtualWhole(c, p) == c.to \o p

\* Path.join(params.path, r.path.replace(params.inPath, '')).
Virtual(c, p) == c.to \o Rest(p, c.from)

ImportOne(c, p) ==
  /\ c \in calls /\ p \in c.todo
  /\ entries' = With(entries, Virtual(c, p), disk[p])
  /\ calls' = (calls \ {c}) \cup {[c EXCEPT !.todo = @ \ {p}]}
  /\ UNCHANGED <<disk, export, listed, out>>

\* The export command lists the entries below the path.
Export(path) ==
  /\ export = Off
  /\ listed' = [p \in Below(entries, path) |-> entries[p]]
  /\ export' = [path |-> path, over |-> {c.id : c \in {d \in calls : d.todo = {}}}, failed |-> FALSE,
                todo |-> Below(entries, path)]
  /\ UNCHANGED <<disk, entries, calls, out>>

\* exporter: a raw block is written to the path, a file of several blocks into a directory of that path.
Written(p, file) == IF file.kind = "raw" THEN p ELSE Append(p, NameOf[file])

\* Of two files one is where a directory of the other has to be.
InWay(p, q) == p # q /\ (IsPrefix(p, q) \/ IsPrefix(q, p))

\* A file in the way makes the export throw.
ExportOne(p) ==
  /\ export # Off /\ ~export.failed /\ p \in export.todo
  /\ LET place == Written(Rest(p, export.path), listed[p])
     IN \/ /\ \A q \in DOMAIN out : ~InWay(q, place)
           /\ out' = With(out, place, listed[p])
           /\ export' = [export EXCEPT !.todo = @ \ {p}]
        \/ /\ \E q \in DOMAIN out : InWay(q, place)
           /\ export' = [export EXCEPT !.failed = TRUE] /\ UNCHANGED out
  /\ UNCHANGED <<disk, entries, calls, listed>>

Next ==
  \/ \E id \in Imports, from \in Sources, to \in Targets : Import(id, from, to)
  \/ \E c \in calls : \E p \in c.todo : ImportOne(c, p)
  \/ \E path \in Targets : Export(path)
  \/ \E p \in DOMAIN entries : ExportOne(p)

Spec == Init /\ [][Next]_vars
-----------------------------------------------------------------------------
Exported == export # Off /\ export.todo = {}

\* daemon/test/modules/filesystem.spec.ts:290, "rpc - export (directory)", whatever imports run beside it, from the same or
\* from other sources and into the same or nested targets: each file that an export has written is one that an import had
\* put at that place below its target; and whatever an import that was over when the export began has put below the path
\* of the export, some file is written there.
RoundTrip ==
  Exported =>
    LET at(c, p) == c.to \o Rest(p, c.from)
    IN /\ \A q \in DOMAIN out : \E c \in calls : \E p \in Below(disk, c.from) \ c.todo :
            at(c, p) = export.path \o q /\ out[q] = disk[p]
       /\ \A c \in calls : c.id \in export.over =>
            \A p \in Below(disk, c.from) :
              IsPrefix(export.path, at(c, p)) => Rest(at(c, p), export.path) \in DOMAIN out
=============================================================================
