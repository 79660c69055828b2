---------------------------------- MODULE Files ----------------------------------
(***************************************************************************)
(* What the files of a group are made of: the entries (FileSystem) with    *)
(* their history (Revisions on top of it), what becomes of the history of  *)
(* one file in the long run (Retention), the size that an entry says its   *)
(* DAG has (DagSize), and the way of files into a group and out of it      *)
(* (Portation).  Revisions has its own names here; the others are          *)
(* instances, and share no state with it.                                  *)
(***************************************************************************)
EXTENDS Revisions

\* Retention, with intervals of its own
CONSTANTS Spans, PerSpan, Start, End, MaxPause

VARIABLES now, times

Write == INSTANCE Retention WITH revs <- times, Intervals <- Spans, PerInterval <- PerSpan

\* DagSize
CONSTANTS Top, Codecs

VARIABLES links, codec, queue, got, blocks, failed

Size == INSTANCE DagSize

\* Portation
CONSTANTS Disks, Imports, Sources, Targets, NameOf, Off

VARIABLES disk, entries, calls, export, listed, out

Port == INSTANCE Portation
-----------------------------------------------------------------------------
\* However crashes repeat an upload and however late its handler is: no revision is stored over another one.
VersionsDistinct == TypeOK /\ RevisionsDistinct

\* The "log" strategy, write after write: for every date between the first write and now there is a revision that is
\* closer to it than the interval that ends there.
Reaches == Write!TypeOK /\ Write!Reaches

\* getDagSize: everything that the root leads to was counted, and nothing else.
AllCounted == Size!AllCounted

\* import and export: an export writes what imports had put below its path, and all that those that were over had put.
RoundTrip == Port!RoundTrip
=============================================================================
