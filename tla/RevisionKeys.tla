----------------------------- MODULE RevisionKeys ------------------------------
(***************************************************************************)
(* The keys of the revisions of a group and the commands that read them:   *)
(* list-revisions, read-revision and export-revision beside changes of the *)
(* database (Revisions has who makes those).                               *)
(*   stored    key -> cid; a key is a sequence of names: the version, the  *)
(*             names of the path, the author, the sequence number          *)
(*   listing   the last answer of list-revisions and the path asked for    *)
(*   answer    the last answer of read-revision to what was listed         *)
(*   exporting one export: what was asked, the paths that are left         *)
(*   exported  path -> cid, in the directory of the export                 *)
(*   held      history: <<path, author, number, cid>>, what the database   *)
(*             had of each revision at some time since the list or the     *)
(*             export began                                                *)
(***************************************************************************)
EXTENDS Naturals, Sequences

CONSTANTS
  Version,     \* VERSION_KEY
  FilePaths,   \* paths of files, sequences of names
  Asked,       \* paths of files and directories that clients ask for
  Longer,      \* <<n, m>>: the name m is longer than the name n and begins with it
  Authors, Numbers, Cids,
  MaxChanges, None

ASSUME PathsAssumption ==
  /\ \A p \in FilePaths : p \in Seq(UNION {{q[i] : i \in DOMAIN q} : q \in FilePaths}) /\ p # <<>>
  /\ Numbers \subseteq Nat /\ None \notin Cids
  /\ None \notin [path : Asked, author : Authors, sequence : Numbers, todo : SUBSET FilePaths]

VARIABLES stored, listing, answer, exporting, exported, changes, held

keyVars == <<stored, listing, answer, exporting, exported, changes, held>>

\* Mutant: the version is left out.
KeyForBare(path, author, sequence) == path \o <<author, sequence>>

\* pathToKey
KeyFor(path, author, sequence) == <<Version>> \o path \o <<author, sequence>>

\* decodeKey
Decoded(key) ==
  LET first == IF key[1] = Version THEN 2 ELSE 1
  IN [path |-> SubSeq(key, first, Len(key) - 2), author |-> key[Len(key) - 1], sequence |-> key[Len(key)]]

\* The text of the path begins with the text of the prefix.
Begins(path, prefix) ==
  /\ Len(prefix) <= Len(path)
  /\ \A i \in 1..Len(prefix) :
       path[i] = prefix[i] \/ (i = Len(prefix) /\ <<prefix[i], path[i]>> \in Longer)

KeysInit ==
  /\ stored = [k \in {} |-> None] /\ changes = 0 /\ held = {}
  /\ listing = None /\ answer = None /\ exporting = None /\ exported = [p \in {} |-> None]

\* get
Found(p, a, s) == IF KeyFor(p, a, s) \in DOMAIN stored THEN stored[KeyFor(p, a, s)] ELSE None

\* What the database has of each revision.
Holding == {<<p, a, s, Found(p, a, s)>> : p \in FilePaths, a \in Authors, s \in Numbers}

Change ==
  /\ changes < MaxChanges /\ changes' = changes + 1
  /\ held' = IF listing = None /\ exporting = None THEN {} ELSE held \cup Holding'

Put(p, a, s, c) ==
  /\ stored' = [k \in DOMAIN stored \cup {KeyFor(p, a, s)} |-> IF k = KeyFor(p, a, s) THEN c ELSE stored[k]]
  /\ Change
  /\ UNCHANGED <<listing, answer, exporting, exported>>

Delete(p, a, s) ==
  /\ KeyFor(p, a, s) \in DOMAIN stored
  /\ stored' = [k \in DOMAIN stored \ {KeyFor(p, a, s)} |-> stored[k]]
  /\ Change
  /\ UNCHANGED <<listing, answer, exporting, exported>>

\* getAll: the keys that the query yields for the prefix.
GetAll(path) == {k \in DOMAIN stored : Begins(Decoded(k).path, path)}

\* list-revisions: the answer names authors and numbers, and no paths.
List(path) ==
  /\ exporting = None
  /\ listing' = [path |-> path,
                 items |-> {[author |-> Decoded(k).author, sequence |-> Decoded(k).sequence, cid |-> stored[k]]
                              : k \in GetAll(path)}]
  /\ answer' = None /\ held' = Holding
  /\ UNCHANGED <<stored, exporting, exported, changes>>

\* read-revision of an item of the list.
Read(item) ==
  /\ listing # None /\ item \in listing.items
  /\ answer' = [asked |-> item, cid |-> Found(listing.path, item.author, item.sequence)]
  /\ UNCHANGED <<stored, listing, exporting, exported, changes, held>>

Export(path, a, s) ==
  /\ exporting = None
  /\ exporting' = [path |-> path, author |-> a, sequence |-> s, todo |-> {Decoded(k).path : k \in GetAll(path)}]
  /\ listing' = None /\ answer' = None /\ held' = Holding
  /\ UNCHANGED <<stored, exported, changes>>

\* Mutant: what the listing has found is written, whichever revision it is.
ExportOneAny(p) ==
  /\ exporting # None /\ p \in exporting.todo
  /\ exporting' = [exporting EXCEPT !.todo = @ \ {p}]
  /\ \E k \in DOMAIN stored :
       /\ Decoded(k).path = p
       /\ exported' = [q \in DOMAIN exported \cup {p} |-> IF q = p THEN stored[k] ELSE exported[q]]
  /\ UNCHANGED <<stored, listing, answer, changes, held>>

\* Each path is looked up with the author and the number that were asked for; one without them is left out.
ExportOne(p) ==
  /\ exporting # None /\ p \in exporting.todo
  /\ exporting' = [exporting EXCEPT !.todo = @ \ {p}]
  /\ LET c == Found(p, exporting.author, exporting.sequence)
     IN exported' = IF c = None THEN exported
                    ELSE [q \in DOMAIN exported \cup {p} |-> IF q = p THEN c ELSE exported[q]]
  /\ UNCHANGED <<stored, listing, answer, changes, held>>

KeysNext ==
  \/ \E p \in FilePaths, a \in Authors, s \in Numbers :
       Delete(p, a, s) \/ \E c \in Cids : Put(p, a, s, c)
  \/ \E path \in Asked : List(path) \/ \E a \in Authors, s \in Numbers : Export(path, a, s)
  \/ listing # None /\ \E item \in listing.items : Read(item)
  \/ exporting # None /\ \E p \in exporting.todo : ExportOne(p)

KeysSpec == KeysInit /\ [][KeysNext]_keyVars
-----------------------------------------------------------------------------
\* Every key says which revision it is: decodeKey gives the path, the author and the number that the revision was put
\* under, wherever the path is and however long.
KeysDecode ==
  \A k \in DOMAIN stored :
    LET d == Decoded(k) IN d.path \in FilePaths /\ d.author \in Authors /\ d.sequence \in Numbers
                           /\ k = KeyFor(d.path, d.author, d.sequence)

\* revisions.spec.ts, "rpc - it exports a revision (directory)", while others put and delete revisions: when an export has
\* ended, each file that it has written has the content that its revision of the author and the number had at some time
\* since the export began, and each one that it has not written had no such revision at some time since then. It is about
\* the files whose path begins with the text that was asked for: those below it, and those with longer names.
ExportWhole ==
  exporting # None /\ exporting.todo = {} =>
    \A p \in FilePaths :
      LET had(c) == <<p, exporting.author, exporting.sequence, c>> \in held
      IN IF p \in DOMAIN exported THEN Begins(p, exporting.path) /\ had(exported[p])
         ELSE Begins(p, exporting.path) => had(None)

\* packages/cli/src/commands/revisions.ts, "Get a list of the revisions of an item.": what is listed for the path of a
\* file is a revision that the file itself has had since then.
ListedIsRead ==
  listing # None /\ listing.path \in FilePaths =>
    \A item \in listing.items : <<listing.path, item.author, item.sequence, item.cid>> \in held
=============================================================================
