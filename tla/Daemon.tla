-------------------------------- MODULE Daemon --------------------------------
(***************************************************************************)
(* The start-up of packages/daemon/src/index.ts and common/index.ts: the   *)
(* groups are replayed, the commands of the common part are added, then    *)
(* the file system module replays the uploads of earlier runs, and only    *)
(* then its own commands exist and the daemon is ready.  An upload is the  *)
(* group it is for: the row of an upload is written before anyone looks    *)
(* for its group, and it goes away when the upload has succeeded           *)
(* (operation-manager.ts, modelled in full by OperationManager).           *)
(*   setup    "none", "commands" (of the common part), "replay" (of the    *)
(*            uploads), "ready"                                            *)
(*   rows     persisted uploads; their keys count up                       *)
(*   queue    what this run has still to do of them, in the order of keys  *)
(*   dead     history: a start-up has failed                               *)
(*   blind    history: which groups imports were for that no create or     *)
(*            join has returned: "listed" by the daemon, or "unknown" to it*)
(***************************************************************************)
EXTENDS Groups

CONSTANT MaxUploads

VARIABLES setup, rows, queue, used, dead, blind

daemonVars == <<setup, rows, queue, used, dead, blind>>
allVars == <<groupVars, daemonVars>>

DaemonInit == Init /\ setup = "none" /\ rows = {} /\ queue = {} /\ used = 0 /\ dead = FALSE /\ blind = {}

\* The replay sorts the rows by their keys, and what is added has a later one.
First(upload) == upload \in queue /\ \A u \in queue : upload.key <= u.key

\* The other components are made, the downloader runs, and handleCommands adds the commands that need no module.
HandleCommands ==
  /\ phase = "up" /\ setup = "none"
  /\ setup' = "commands"
  /\ UNCHANGED <<groupVars, rows, queue, used, dead, blind>>

\* setupCommon has returned and the modules are set up: createUploadManager starts its queue.
StartModules ==
  /\ phase = "up" /\ setup = "commands"
  /\ setup' = "replay" /\ queue' = rows
  /\ UNCHANGED <<groupVars, rows, used, dead, blind>>

\* put asks for the file system of the group, and throws if the daemon is not in it.
RunUpload(upload) ==
  /\ setup # "none" /\ First(upload) /\ upload.group \in map
  /\ rows' = rows \ {upload} /\ queue' = queue \ {upload}
  /\ UNCHANGED <<groupVars, setup, used, dead, blind>>

\* The caller of import gets the error; the row stays.
RefuseUpload(upload) ==
  /\ setup = "ready" /\ phase = "up" /\ First(upload) /\ upload.group \notin map
  /\ queue' = queue \ {upload}
  /\ UNCHANGED <<groupVars, setup, rows, used, dead, blind>>

\* During the replay nobody handles the error: the set-up of the module rejects, and the process ends.
FailSetup(upload) ==
  /\ setup = "replay" /\ phase = "up" /\ First(upload) /\ upload.group \notin map
  /\ Off /\ UNCHANGED crashes
  /\ setup' = "none" /\ queue' = {} /\ dead' = TRUE
  /\ UNCHANGED <<rows, used, blind>>

Ready ==
  /\ setup = "replay" /\ queue = {}
  /\ setup' = "ready"
  /\ UNCHANGED <<groupVars, rows, queue, used, dead, blind>>

\* Nothing looks for the group before the row is written.
Import(g) ==
  /\ setup = "ready" /\ phase = "up" /\ used < MaxUploads
  /\ used' = used + 1
  /\ blind' = blind \cup (IF g \notin map THEN {"unknown"} ELSE IF g \notin joined THEN {"listed"} ELSE {})
  /\ rows' = rows \cup {[key |-> used, group |-> g]}
  /\ queue' = queue \cup {[key |-> used, group |-> g]}
  /\ UNCHANGED <<groupVars, setup, dead>>

DaemonNext ==
  \/ GroupStep /\ UNCHANGED daemonVars
  \/ setup # "none" /\ Requests /\ UNCHANGED daemonVars
  \/ setup = "ready" /\ StopGroups /\ UNCHANGED daemonVars   \* until then SIGINT has no handler: a crash
  \/ (Exit \/ Crash) /\ setup' = "none" /\ queue' = {} /\ UNCHANGED <<rows, used, dead, blind>>
  \/ HandleCommands \/ StartModules \/ Ready
  \/ \E upload \in queue : RunUpload(upload) \/ RefuseUpload(upload) \/ FailSetup(upload)
  \/ \E g \in GroupIds : Import(g)

DaemonSpec == DaemonInit /\ [][DaemonNext]_allVars
DaemonFairSpec == DaemonSpec /\ Fairness
-----------------------------------------------------------------------------
\* A start-up fails only after an import for a group that the daemon was not in, or for a listed one whose create or
\* join never returned, with a crash or a failing write between: uploads for the groups that clients got are replayed.
StartsKnown == TypeOK /\ (dead => "unknown" \in blind \/ ("listed" \in blind /\ crashes + fails > 0))

\* groups.spec.ts, "bootstraps a group from config", with uploads, restarts and crashes around it: if no fetch and no
\* write fails, every configured group is served in the end, unless a start-up has failed.
ConfigServed == Bootstrapped \/ <>dead

\* lifecycle.spec.ts, "starts cleanly", for every start: no start-up ends with an error.
StartsCleanly == ~dead
=============================================================================
