---------------------------- MODULE VaultWatcher ----------------------------
(***************************************************************************)
(* The watcher of qid (internal/watcher, cmd/qid/main.go), which keeps the *)
(* search index (internal/index) and the task files in step with the       *)
(* vault, and the commands that write the index from another process:      *)
(* `qi index rebuild` and `qi embed`.  Users and programs change files at  *)
(* any time.  Changes are numbered; a file's content is the number of the  *)
(* change that made it.  Reconcile is one step here (TaskSync has the      *)
(* detail).                                                                *)
(***************************************************************************)
EXTENDS Integers, FiniteSets, FiniteSetsExt

CONSTANTS
  NPaths,       \* markdown files, in name order
  Dirs, DirOf,  \* directories, and the one each file is in
  Parent,       \* the directory a late one is created in
  LateDirs,     \* directories that do not exist at first
  MainDirs,     \* directories of the main vault
  TaskDirs,     \* watcher.DirsFor: directories of canon and projections
  MaxChanges,   \* bound: changes of files
  MaxCommands,  \* bound: runs of qi index rebuild and qi embed
  MaxFailures   \* bound: calls that fail and processes that die

ASSUME WatcherAssumption ==
  /\ {NPaths, MaxChanges, MaxCommands, MaxFailures} \subseteq Nat
  /\ LateDirs \subseteq Dirs /\ MainDirs \subseteq Dirs /\ TaskDirs \subseteq Dirs
  /\ DirOf \in [1 .. NPaths -> Dirs] /\ Parent \in [LateDirs -> Dirs]

Paths == 1 .. NPaths
MainPaths == {p \in Paths : DirOf[p] \in MainDirs}
TaskPaths == {p \in Paths : DirOf[p] \in TaskDirs}
Numbers == 1 .. MaxChanges
None == -1

VARIABLES
  file,       \* per path: number of its last change, and whether it is there
  change,     \* history: per number the path and what the change was
  exists,     \* directories that exist
  watch,      \* watcher state, directories still to add, directories watched
  events,     \* fsnotify: changes and new directories not yet received
  pending,    \* changes recorded since the debounce timer last fired
  onChange,   \* the callback under way
  rows,       \* index: content of each path's row, or None
  vectors,    \* index: content each path's embedding was made from, or None
  synced,     \* per task path: the change the last reconcile saw
  command,    \* the qi command under way
  lost,       \* history: changes whose path the index was never told of
  unsynced,   \* history: changes no reconcile was started for
  ghosts,     \* history: paths embedded after they were removed
  spent       \* changes, commands and failures so far

watcherVars == <<file, change, exists, watch, events, pending, onChange, rows, vectors,
                 synced, command, lost, unsynced, ghosts, spent>>

Content(p) == IF file[p].here THEN file[p].num ELSE None
NoCallback == [stage |-> "idle", batch |-> {}, todo |-> {}, path |-> 0, content |-> None]
NoCommand == [op |-> "", todo |-> {}, walked |-> [p \in Paths |-> None], path |-> 0]

WatcherInit ==
  /\ exists = Dirs \ LateDirs
  /\ file = [p \in Paths |-> [num |-> 0, here |-> DirOf[p] \in exists]]
  /\ change = [n \in Numbers |-> [path |-> 0, op |-> ""]]
  /\ watch = [state |-> "starting", toAdd |-> {}, dirs |-> {}]
  /\ events = [files |-> {}, dirs |-> {}] /\ pending = {} /\ onChange = NoCallback
  /\ rows = [p \in Paths |-> IF p \in MainPaths THEN Content(p) ELSE None]
  /\ vectors = rows /\ synced = [p \in Paths |-> 0]
  /\ command = NoCommand /\ lost = {} /\ unsynced = {} /\ ghosts = {}
  /\ spent = [changes |-> 0, commands |-> 0, failures |-> 0]

Fails == spent.failures < MaxFailures /\ spent' = [spent EXCEPT !.failures = @ + 1]

---------------------------------------------------------------------------
(* The vault                                                               *)

\* Mutant of IsChangeEvent: a removal is no reason to call the callback.
IsChangeEventWrites(op) == op = "write"

\* isChangeEvent, on the operations of a change to a markdown file.
IsChangeEvent(op) == op \in {"write", "remove"}

\* Change number n of the files in S.  It is an event where the directory is
\* watched; otherwise nobody hears of it.
Changed(n, S, op) ==
  LET heard == \A p \in S : DirOf[p] \in watch.dirs IN
  /\ file' = [p \in Paths |-> IF p \in S THEN [num |-> n, here |-> op = "write"] ELSE file[p]]
  /\ change' = [change EXCEPT ![n] = [path |-> CHOOSE p \in S : TRUE, op |-> op]]
  /\ IF heard THEN events' = [events EXCEPT !.files = @ \cup {n}] /\ UNCHANGED lost
     ELSE lost' = lost \cup {n} /\ UNCHANGED events

NextNumber == spent.changes + 1
CountChange == NextNumber \in Numbers /\ spent' = [spent EXCEPT !.changes = NextNumber]

EditFile(p, op) ==
  /\ DirOf[p] \in exists /\ (op = "remove" => file[p].here) /\ CountChange
  /\ Changed(NextNumber, {p}, op)
  /\ unsynced' = unsynced \cup (lost' \ lost)
  /\ UNCHANGED <<exists, watch, pending, onChange, rows, vectors, synced, command, ghosts>>

MakeDir(d) ==
  /\ d \notin exists /\ exists' = exists \cup {d}
  /\ events' = IF Parent[d] \in watch.dirs THEN [events EXCEPT !.dirs = @ \cup {d}] ELSE events
  /\ UNCHANGED <<file, change, watch, pending, onChange, rows, vectors, synced, command,
                 lost, unsynced, ghosts, spent>>

\* A directory moved out of the vault: fsnotify names the directory and none of
\* the files in it.
MoveDirAway(d) ==
  LET inside == {p \in Paths : DirOf[p] = d} IN
  /\ d \in exists /\ exists' = exists \ {d} /\ CountChange
  /\ watch' = [watch EXCEPT !.dirs = @ \ {d}]
  /\ events' = [events EXCEPT !.dirs = @ \ {d}]
  /\ file' = [p \in Paths |-> IF p \in inside THEN [num |-> NextNumber, here |-> FALSE] ELSE file[p]]
  /\ lost' = lost \cup {NextNumber} /\ unsynced' = unsynced \cup {NextNumber}
  /\ UNCHANGED <<change, pending, onChange, rows, vectors, synced, command, ghosts>>

---------------------------------------------------------------------------
(* The watcher                                                             *)

\* The walk of VaultDirs; past its patience the state is blocked, and the walk
\* goes on.
WalkBlocked ==
  /\ watch.state = "starting" /\ watch' = [watch EXCEPT !.state = "blocked"]
  /\ UNCHANGED <<file, change, exists, events, pending, onChange, rows, vectors, synced,
                 command, lost, unsynced, ghosts, spent>>

WalkDone ==
  /\ watch.state \in {"starting", "blocked"}
  /\ watch' = [state |-> "running", toAdd |-> TaskDirs \cup (MainDirs \cap exists), dirs |-> {}]
  /\ UNCHANGED <<file, change, exists, events, pending, onChange, rows, vectors, synced,
                 command, lost, unsynced, ghosts, spent>>

\* Run: fsw.Add of each directory; one that is not there is skipped.
AddDir ==
  /\ watch.state = "running" /\ watch.toAdd # {}
  /\ LET d == Min(watch.toAdd) IN
     watch' = [watch EXCEPT !.toAdd = @ \ {d}, !.dirs = @ \cup ({d} \cap exists)]
  /\ UNCHANGED <<file, change, exists, events, pending, onChange, rows, vectors, synced,
                 command, lost, unsynced, ghosts, spent>>

Looping == watch.state = "running" /\ watch.toAdd = {} /\ onChange.stage = "idle"

\* An event of a markdown file: recorded, and the debounce timer armed.
ReceiveFile ==
  /\ Looping
  /\ \E n \in events.files :
       /\ events' = [events EXCEPT !.files = @ \ {n}]
       /\ pending' = IF IsChangeEvent(change[n].op) THEN pending \cup {n} ELSE pending
  /\ UNCHANGED <<file, change, exists, watch, onChange, rows, vectors, synced, command,
                 lost, unsynced, ghosts, spent>>

\* The event of a new directory: from now on it is watched.
ReceiveDir ==
  /\ Looping
  /\ \E d \in events.dirs :
       /\ events' = [events EXCEPT !.dirs = @ \ {d}]
       /\ watch' = [watch EXCEPT !.dirs = @ \cup ({d} \cap exists)]
  /\ UNCHANGED <<file, change, exists, pending, onChange, rows, vectors, synced, command,
                 lost, unsynced, ghosts, spent>>

\* The kernel's event queue overflows: fsnotify reports an error, which is
\* logged.
Overflow ==
  /\ Looping /\ events.files # {} /\ Fails
  /\ events' = [events EXCEPT !.files = {}]
  /\ lost' = lost \cup events.files /\ unsynced' = unsynced \cup events.files
  /\ UNCHANGED <<file, change, exists, watch, pending, onChange, rows, vectors, synced,
                 command, ghosts>>

\* The debounce timer fires: the callback runs in the loop.
Fire ==
  /\ Looping /\ pending # {}
  /\ onChange' = [NoCallback EXCEPT !.stage = "open", !.batch = pending,
                                    !.todo = {change[n].path : n \in pending}]
  /\ pending' = {}
  /\ UNCHANGED <<file, change, exists, watch, events, rows, vectors, synced, command,
                 lost, unsynced, ghosts, spent>>

\* A rebuild holds SQLite's write lock from its first statement to its commit.
\* No busy timeout is set: a statement that meets the lock fails.
Locked == command.op = "rebuild"
BusyOrFails == (Locked /\ UNCHANGED spent) \/ (~Locked /\ Fails)

\* index.Open: if it fails the batch is dropped.
OpenIndex ==
  /\ onChange.stage = "open"
  /\ \/ onChange' = [onChange EXCEPT !.stage = "paths"] /\ UNCHANGED <<lost, unsynced, spent>>
     \/ /\ BusyOrFails
        /\ onChange' = NoCallback
        /\ lost' = lost \cup onChange.batch /\ unsynced' = unsynced \cup onChange.batch
  /\ UNCHANGED <<file, change, exists, watch, events, pending, rows, vectors, synced, command, ghosts>>

\* The next path of the batch: only main-vault paths are indexed, by os.Stat.
NextPath ==
  /\ onChange.stage = "paths" /\ onChange.todo # {}
  /\ LET p == Min(onChange.todo)
         next == IF p \notin MainPaths THEN "paths" ELSE IF file[p].here THEN "read" ELSE "delete"
     IN onChange' = [onChange EXCEPT !.todo = @ \ {p}, !.path = p, !.stage = next]
  /\ UNCHANGED <<file, change, exists, watch, events, pending, rows, vectors, synced,
                 command, lost, unsynced, ghosts, spent>>

\* UpsertFile reads the file; one that is gone by now is an error, logged.
ReadFile ==
  /\ onChange.stage = "read"
  /\ onChange' = [onChange EXCEPT !.stage = IF file[onChange.path].here THEN "upsert" ELSE "paths",
                                  !.content = Content(onChange.path)]
  /\ UNCHANGED <<file, change, exists, watch, events, pending, rows, vectors, synced,
                 command, lost, unsynced, ghosts, spent>>

\* A write of the index that fails is logged and the path left as it was; a
\* busy database fails it too.
WriteFails ==
  /\ BusyOrFails
  /\ lost' = lost \cup {n \in onChange.batch : change[n].path = onChange.path}
  /\ UNCHANGED <<rows, vectors>>

\* UpsertFile's transaction.
Upsert ==
  /\ onChange.stage = "upsert" /\ onChange' = [onChange EXCEPT !.stage = "paths"]
  /\ \/ /\ ~Locked /\ rows' = [rows EXCEPT ![onChange.path] = onChange.content]
        /\ UNCHANGED <<vectors, lost, spent>>
     \/ WriteFails
  /\ UNCHANGED <<file, change, exists, watch, events, pending, synced, command, unsynced, ghosts>>

\* DeleteFile: the row and the embedding, in one transaction.
DropFile ==
  /\ onChange.stage = "delete" /\ onChange' = [onChange EXCEPT !.stage = "paths"]
  /\ \/ /\ ~Locked
        /\ rows' = [rows EXCEPT ![onChange.path] = None]
        /\ vectors' = [vectors EXCEPT ![onChange.path] = None]
        /\ UNCHANGED <<lost, spent>>
     \/ WriteFails
  /\ UNCHANGED <<file, change, exists, watch, events, pending, synced, command, unsynced, ghosts>>

TaskChanges == {n \in onChange.batch : change[n].path \in TaskPaths}
Unseen == {p \in TaskPaths : synced[p] # file[p].num}

\* The end of the callback.  If a task file changed, sync.Reconcile sees all of
\* them and may rewrite another one, which comes back as an event.
Reconcile ==
  /\ onChange.stage = "paths" /\ onChange.todo = {} /\ onChange' = NoCallback
  /\ \/ /\ TaskChanges = {}
        /\ UNCHANGED <<file, change, events, synced, lost, unsynced, spent>>
     \/ /\ TaskChanges # {} /\ synced' = [p \in Paths |-> IF p \in TaskPaths THEN file[p].num ELSE 0]
        /\ UNCHANGED <<file, change, events, lost, unsynced, spent>>
     \/ \E p \in TaskPaths \ Unseen :
          /\ TaskChanges # {} /\ Unseen # {} /\ file[p].here /\ CountChange
          /\ Changed(NextNumber, {p}, "write")
          /\ synced' = [q \in Paths |-> IF q \in TaskPaths THEN file'[q].num ELSE 0]
          /\ UNCHANGED unsynced
     \/ /\ TaskChanges # {} /\ Fails /\ unsynced' = unsynced \cup TaskChanges
        /\ UNCHANGED <<file, change, events, synced, lost>>
  /\ UNCHANGED <<exists, watch, pending, rows, vectors, command, ghosts>>

\* qid stops; when it is started again the watcher starts from nothing.
StopQid ==
  LET dropped == events.files \cup pending \cup onChange.batch IN
  /\ watch.state # "stopped" /\ Fails
  /\ watch' = [state |-> "stopped", toAdd |-> {}, dirs |-> {}]
  /\ events' = [files |-> {}, dirs |-> {}] /\ pending' = {} /\ onChange' = NoCallback
  /\ lost' = lost \cup dropped /\ unsynced' = unsynced \cup dropped
  /\ UNCHANGED <<file, change, exists, rows, vectors, synced, command, ghosts>>

StartQid ==
  /\ watch.state = "stopped" /\ watch' = [watch EXCEPT !.state = "starting"]
  /\ UNCHANGED <<file, change, exists, events, pending, onChange, rows, vectors, synced,
                 command, lost, unsynced, ghosts, spent>>

---------------------------------------------------------------------------
(* qi index rebuild and qi embed                                           *)

StartCommand(op) ==
  /\ command.op = "" /\ spent.commands < MaxCommands
  /\ spent' = [spent EXCEPT !.commands = @ + 1]
  /\ command' = [NoCommand EXCEPT !.op = op, !.todo = MainPaths]
  /\ vectors' = IF op = "embed" THEN [p \in Paths |-> None] ELSE vectors
  /\ UNCHANGED <<file, change, exists, watch, events, pending, onChange, rows, synced,
                 lost, unsynced, ghosts>>

\* WalkVault comes to the next file and reads it, if it is there.
Walk ==
  /\ command.op # "" /\ command.path = 0 /\ command.todo # {}
  /\ LET p == Min(command.todo) IN
     command' = [command EXCEPT !.todo = @ \ {p}, !.walked[p] = Content(p),
                   !.path = IF command.op = "embed" /\ file[p].here THEN p ELSE 0]
  /\ UNCHANGED <<file, change, exists, watch, events, pending, onChange, rows, vectors,
                 synced, lost, unsynced, ghosts, spent>>

\* The vector is back from Ollama: UpsertEmbedding, or a warning.
Embed ==
  LET p == command.path IN
  /\ p # 0 /\ command' = [command EXCEPT !.path = 0]
  /\ \/ /\ vectors' = [vectors EXCEPT ![p] = command.walked[p]]
        /\ ghosts' = IF file[p].here THEN ghosts ELSE ghosts \cup {p}
     \/ UNCHANGED <<vectors, ghosts>>
  /\ UNCHANGED <<file, change, exists, watch, events, pending, onChange, rows, synced,
                 lost, unsynced, spent>>

\* Rebuild commits: the table is what the walk read.
EndCommand ==
  /\ command.op # "" /\ command.path = 0 /\ command.todo = {} /\ command' = NoCommand
  /\ rows' = IF command.op = "rebuild" THEN command.walked ELSE rows
  /\ UNCHANGED <<file, change, exists, watch, events, pending, onChange, vectors, synced,
                 lost, unsynced, ghosts, spent>>

\* The command dies; a rebuild's transaction is rolled back.
KillCommand ==
  /\ command.op # "" /\ Fails /\ command' = NoCommand
  /\ UNCHANGED <<file, change, exists, watch, events, pending, onChange, rows, vectors,
                 synced, lost, unsynced, ghosts>>

---------------------------------------------------------------------------
Loop ==
  \/ AddDir \/ ReceiveFile \/ ReceiveDir \/ Fire
  \/ OpenIndex \/ NextPath \/ ReadFile \/ Upsert \/ DropFile \/ Reconcile

Command == Walk \/ Embed \/ EndCommand

WatcherNext ==
  \/ \E p \in Paths, op \in {"write", "remove"} : EditFile(p, op)
  \/ \E d \in LateDirs : MakeDir(d) \/ MoveDirAway(d)
  \/ WalkBlocked \/ WalkDone \/ Loop \/ Overflow \/ StopQid \/ StartQid
  \/ \E op \in {"rebuild", "embed"} : StartCommand(op)
  \/ Command \/ KillCommand

\* The watcher's goroutine and a command that was started are scheduled.
WatcherSpec ==
  /\ WatcherInit /\ [][WatcherNext]_watcherVars
  /\ WF_watcherVars(Loop) /\ WF_watcherVars(Command)

---------------------------------------------------------------------------
\* The index says what the vault says: a row for every main-vault file, with
\* its content, and for no other; no embedding of a removed note.
IndexMatches ==
  \A p \in Paths :
    IF p \notin MainPaths THEN rows[p] = None
    ELSE \/ file[p].num \in lost
         \/ /\ rows[p] = Content(p)
            /\ vectors[p] # None => (file[p].here \/ p \in ghosts)

\* A reconcile has seen the last change of every task file.
TasksMatch == \A p \in TaskPaths : synced[p] = file[p].num \/ file[p].num \in unsynced

\* Once the vault is left alone, the index and the task files catch up with its
\* last state and stay there, however the changes, the debounced callback, a
\* rebuild and an embedding run overlapped (cmd/qid/main.go:377-391,
\* index.go:242-248, 274-275).  Exempt are exactly the changes the code drops:
\* those made where or while nothing is watched, and those whose callback fails
\* to open, write or reconcile; and a note removed while it was being embedded.
WatcherCatchesUp == <>[](IndexMatches /\ TasksMatch)
=============================================================================
