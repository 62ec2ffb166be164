------------------------------ MODULE Launcher ------------------------------
(***************************************************************************)
(* The launcher's plugin inventory (mod_run/run_srv/LauncherService.go,    *)
(* driven by mod_run/run_cmd/main.go).  main runs Start in its goroutine:  *)
(* the core binary is added, a folder watcher is started, the plugin       *)
(* folder is scanned, the core is started, the hub is connected and the    *)
(* RPC capability registered.  When Start fails main calls Stop and        *)
(* exits; otherwise it waits for a signal, calls Stop and returns.  The    *)
(* watcher goroutine rescans the folder on every file event while          *)
(* isRunning is set.  ScanPlugins holds svc.mux, so a scan is one step.   *)
(*                                                                         *)
(* _startPlugin, StopAllPlugins and updateStatus are called but not in the *)
(* repository: starting the core is a step that may fail, stopping the     *)
(* plugins changes no modelled state, and the Running flags are left out.  *)
(* A file's mode, size and modification time are one model value of       *)
(* FileStates, or Absent.                                                  *)
(***************************************************************************)
EXTENDS Naturals

CONSTANTS
  PluginNames,  \* names of the files the plugin folder may hold
  FileStates,   \* records [dir, exec, size, mtime] a file may have
  Absent,       \* no file of that name
  NotListed,    \* no svc.plugins entry of that name
  MaxChanges,   \* bound on file changes in the plugin folder
  StartCanFail  \* whether starting the core or connecting to the hub may fail

VARIABLES
  lpc,          \* main's goroutine: "new", "watch", "scan", "core", "running",
                \* "failed" (Start returned an error) or "exited"
  isRunning,    \* svc.isRunning
  hasCore,      \* cfg.CoreBin is set
  coreFound,    \* the core binary exists in the bin folder
  coreListed,   \* svc.plugins holds the core
  dirExists,    \* the plugin folder exists
  folder,       \* plugin name -> its file in the plugin folder, or Absent
  plugins,      \* plugin name -> svc.plugins' size and time, or NotListed
  watcher,      \* the watcher goroutine: "none", "idle", "scan" or "ended"
  events,       \* file events queued for the watcher
  changes       \* file changes so far

launcherVars == <<lpc, isRunning, hasCore, coreFound, coreListed, dirExists,
                  folder, plugins, watcher, events, changes>>

\* The PluginInfo fields addPlugins copies from a file.
Info(st) == [size |-> st.size, mtime |-> st.mtime]

\* addPlugins' filter: a regular, executable, non-empty file.
Eligible(st) == st # Absent /\ ~st.dir /\ st.exec /\ st.size > 0

LauncherInit ==
  /\ lpc = "new"
  /\ isRunning = FALSE
  /\ hasCore \in BOOLEAN
  /\ coreFound \in BOOLEAN
  /\ coreListed = FALSE
  /\ dirExists \in BOOLEAN
  /\ folder \in [PluginNames -> IF dirExists THEN FileStates \cup {Absent} ELSE {Absent}]
  /\ plugins = [n \in PluginNames |-> NotListed]
  /\ watcher = "none"
  /\ events = 0
  /\ changes = 0

\* Mutant: a plugin that is already listed keeps its old size and time.
ScannedNewOnly(old, st) == IF Eligible(st) /\ old = NotListed THEN Info(st) ELSE old

\* addPlugins' entry for one directory entry: an eligible file is added or
\* has its size and time updated; any other file leaves the entry as it
\* was, so a removed plugin stays listed.
Scanned(old, st) == IF Eligible(st) THEN Info(st) ELSE old

\* ScanPlugins: addPlugins over the plugin folder; ReadDir fails when the
\* folder does not exist.
ScanPlugins == plugins' = [n \in PluginNames |-> Scanned(plugins[n], folder[n])]

\* addCore: a configured core binary that exists is listed; a missing one
\* is an error.
AddCore == coreListed' = (hasCore /\ coreFound)

\* Start, up to the watcher: isRunning is set and addCore adds the core;
\* its error ends Start.
StartBegin ==
  /\ lpc = "new"
  /\ isRunning' = TRUE
  /\ AddCore
  /\ lpc' = IF hasCore /\ ~coreFound THEN "failed" ELSE "watch"
  /\ UNCHANGED <<hasCore, coreFound, dirExists, folder, plugins, watcher, events, changes>>

\* WatchPlugins: the watcher is added to the bin and plugin folders and its
\* goroutine started; Start ignores the error of a missing folder.
WatchPlugins ==
  /\ lpc = "watch"
  /\ watcher' = IF dirExists THEN "idle" ELSE "none"
  /\ lpc' = "scan"
  /\ UNCHANGED <<isRunning, hasCore, coreFound, coreListed, dirExists, folder,
                 plugins, events, changes>>

\* Start's ScanPlugins; its error ends Start.
StartScan ==
  /\ lpc = "scan"
  /\ IF dirExists THEN ScanPlugins ELSE UNCHANGED plugins
  /\ lpc' = IF dirExists THEN "core" ELSE "failed"
  /\ UNCHANGED <<isRunning, hasCore, coreFound, coreListed, dirExists, folder,
                 watcher, events, changes>>

\* The rest of Start: the core is started if listed, the hub connected, the
\* capability registered and the autostart plugins started, their errors
\* ignored.
StartRest ==
  /\ lpc = "core"
  /\ \E ok \in IF StartCanFail THEN BOOLEAN ELSE {TRUE} :
       lpc' = IF ok THEN "running" ELSE "failed"
  /\ UNCHANGED <<isRunning, hasCore, coreFound, coreListed, dirExists, folder,
                 plugins, watcher, events, changes>>

\* Stop, called by main after a failed Start or on a signal, and the exit
\* that follows: isRunning is cleared and every plugin stopped.
Stop ==
  /\ lpc \in {"running", "failed"}
  /\ isRunning' = FALSE
  /\ lpc' = "exited"
  /\ UNCHANGED <<hasCore, coreFound, coreListed, dirExists, folder, plugins,
                 watcher, events, changes>>

\* A plugin file is written, added or removed; fsnotify queues an event
\* when the folder is watched.
ChangeFile(n, st) ==
  /\ dirExists /\ changes < MaxChanges
  /\ st # folder[n]
  /\ folder' = [folder EXCEPT ![n] = st]
  /\ events' = IF watcher \in {"idle", "scan"} THEN events + 1 ELSE events
  /\ changes' = changes + 1
  /\ UNCHANGED <<lpc, isRunning, hasCore, coreFound, coreListed, dirExists,
                 plugins, watcher>>

\* The watcher goroutine takes an event and loads isRunning: it goes on to
\* rescan, or returns when the service is stopped.
WatchEvent ==
  /\ lpc # "exited" /\ watcher = "idle" /\ events > 0
  /\ events' = events - 1
  /\ watcher' = IF isRunning THEN "scan" ELSE "ended"
  /\ UNCHANGED <<lpc, isRunning, hasCore, coreFound, coreListed, dirExists,
                 folder, plugins, changes>>

\* The watcher's ScanPlugins; its error is ignored.
WatchScan ==
  /\ lpc # "exited" /\ watcher = "scan"
  /\ ScanPlugins
  /\ watcher' = "idle"
  /\ UNCHANGED <<lpc, isRunning, hasCore, coreFound, coreListed, dirExists,
                 folder, events, changes>>

LauncherNext ==
  \/ StartBegin \/ WatchPlugins \/ StartScan \/ StartRest \/ Stop
  \/ WatchEvent \/ WatchScan
  \/ \E n \in PluginNames, st \in FileStates \cup {Absent} : ChangeFile(n, st)

\* Every plugin file of the folder is listed with its current size and time.
Synced == \A n \in PluginNames : Eligible(folder[n]) => plugins[n] = Info(folder[n])

(* The comments of WatchPlugins and addPlugins: plugins added to or        *)
(* updated in the plugin folder are detected without a restart.  Once the  *)
(* folder stops changing, a launcher whose Start succeeded lists every    *)
(* plugin file with its current size and time, whatever                    *)
(* changes happened before, during and after Start's own scan.             *)
PluginsEventuallyCurrent ==
  <>[](lpc = "running" => Synced)
=============================================================================
