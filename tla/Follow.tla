--------------------------------- MODULE Follow ---------------------------------
(***************************************************************************)
(* How a daemon follows what its groups hold: GroupSync lets the entries   *)
(* of a group pin their content, Downloader fetches what is pinned.  What  *)
(* connects the two, the pins and their blocks, is HeliaPinManager; here   *)
(* they share no state.  GroupSync has its own names, Downloader is an     *)
(* instance.                                                               *)
(***************************************************************************)
EXTENDS GroupSync

\* Downloader, under its own names but for `list` and `listPass`.
CONSTANTS Heads, Links, RootOf, Position, Priority, Slots, Available

VARIABLES list, left, loop, listPass, tasks, running, stray, closing, paused, stopped

Download == INSTANCE Downloader WITH pins <- list, pass <- listPass
-----------------------------------------------------------------------------
\* Whichever method syncs the group, and beside deletions, errors and crashes: an entry that counts as processed has the
\* pin it asks for. Not so the path of an edit that is at work, or that the pass or a crash came between, and a deletion
\* after which the path had come back before.
SyncedIsPinned == TypeOK /\ ProcessedIsPinned

\* Downloader.download and the pipelines that it leaves behind: no block is downloaded by two of them at once.
OneEach == Download!TypeOK /\ Download!OneEach
=============================================================================
