--------------------------- MODULE DaemonControl ---------------------------
(***************************************************************************)
(* `qi daemon start`, `stop` and `restart` (internal/commands/daemon.go),  *)
(* the qid processes they start and stop (cmd/qid/main.go), the socket     *)
(* file the processes fight for (internal/daemon/socket.go) and a process  *)
(* supervisor that may relaunch qid.  There is no pid file and no lock:    *)
(* the socket path is the only thing they share.                           *)
(*                                                                         *)
(* A command waits with deadlines; a deadline may pass at any moment at    *)
(* which what it waits for has not happened.  A daemon too old to know     *)
(* the status or shutdown method is left out.                              *)
(***************************************************************************)
EXTENDS Integers, FiniteSets

CONSTANTS
  MaxDaemons,   \* bound: qid processes alive or remembered at once
  Commands,     \* qi processes, each running one command
  MaxCrashes    \* bound: kills of a qid process

ASSUME ControlAssumption ==
  /\ MaxDaemons \in Nat \ {0} /\ MaxCrashes \in Nat /\ IsFiniteSet(Commands)

Daemons == 1 .. MaxDaemons
NoFile == 0
NoPid == 0

VARIABLES
  qid,        \* stage of each process; "gone" before it runs and after it exits
  sockFile,   \* whose listener the file at the socket path belongs to, or NoFile
  supervisor, \* whether one relaunches qid, whether qi can ask it, and its child
  cmd,        \* per qi process: operation, program counter, locals, what it said
  crashes,
  raced       \* history: some Listen removed the file of a live listener

controlVars == <<qid, sockFile, supervisor, cmd, crashes, raced>>

\* The listener is open from bind to the cancellation of the serve context.
Listening == {"starting", "serving", "stopping"}

\* daemon.Alive: a dial reaches an open listener through the file.
Alive == sockFile # NoFile /\ qid[sockFile] \in Listening

\* ... and the process behind it answers requests.
Answering == Alive /\ qid[sockFile] # "starting"

Referenced(d) ==
  \/ sockFile = d \/ supervisor.child = d
  \/ \E c \in Commands : d \in {cmd[c].pid, cmd[c].conn, cmd[c].child}
Free == {d \in Daemons : qid[d] = "gone" /\ ~Referenced(d)}
NextFree == CHOOSE d \in Free : TRUE

---------------------------------------------------------------------------
(* A qid process                                                           *)

\* Listen: stat and dial.  A daemon that answers ends the new one; a file that
\* does not answer is taken for stale.
ListenProbe(d) ==
  /\ qid[d] = "probe"
  /\ qid' = [qid EXCEPT ![d] = IF sockFile = NoFile THEN "bind"
                               ELSE IF Alive THEN "gone" ELSE "remove"]
  /\ UNCHANGED <<sockFile, supervisor, cmd, crashes, raced>>

\* os.Remove takes whatever is at the path by now.
ListenRemove(d) ==
  /\ qid[d] = "remove"
  /\ raced' = (raced \/ Alive)
  /\ sockFile' = NoFile
  /\ qid' = [qid EXCEPT ![d] = "bind"]
  /\ UNCHANGED <<supervisor, cmd, crashes>>

\* net.Listen: bind fails if there is a file at the path.
ListenBind(d) ==
  /\ qid[d] = "bind"
  /\ IF sockFile = NoFile
     THEN sockFile' = d /\ qid' = [qid EXCEPT ![d] = "starting"]
     ELSE UNCHANGED sockFile /\ qid' = [qid EXCEPT ![d] = "gone"]
  /\ UNCHANGED <<supervisor, cmd, crashes, raced>>

\* MCP servers, the audit log and its replay come before Serve.
Serve(d) ==
  /\ qid[d] = "starting"
  /\ qid' = [qid EXCEPT ![d] = "serving"]
  /\ UNCHANGED <<sockFile, supervisor, cmd, crashes, raced>>

\* Closing the listener unlinks the path, whoever's file is there; the process
\* lives on until its handlers, MCP servers and log are closed.  A process that
\* could not open the log closes it the same way and exits.
CloseListener(d) ==
  /\ \/ qid[d] = "stopping" /\ qid' = [qid EXCEPT ![d] = "draining"]
     \/ qid[d] = "starting" /\ qid' = [qid EXCEPT ![d] = "gone"] /\ crashes < MaxCrashes
  /\ crashes' = IF qid[d] = "starting" THEN crashes + 1 ELSE crashes
  /\ sockFile' = NoFile
  /\ UNCHANGED <<supervisor, cmd, raced>>

\* Mutant of Exit: the deferred cleanup removes the socket file.
ExitRemovesSocket(d) ==
  /\ qid[d] = "draining"
  /\ qid' = [qid EXCEPT ![d] = "gone"]
  /\ sockFile' = NoFile
  /\ UNCHANGED <<supervisor, cmd, crashes, raced>>

\* The deferred Close of the listener finds it closed and unlinks nothing.
Exit(d) ==
  /\ qid[d] = "draining"
  /\ qid' = [qid EXCEPT ![d] = "gone"]
  /\ UNCHANGED <<sockFile, supervisor, cmd, crashes, raced>>

\* SIGKILL: the listener dies with the process, the file stays.
Kill(d) ==
  /\ qid[d] # "gone" /\ crashes < MaxCrashes
  /\ qid' = [qid EXCEPT ![d] = "gone"]
  /\ crashes' = crashes + 1
  /\ UNCHANGED <<sockFile, supervisor, cmd, raced>>

\* launchd or systemd relaunches the qid it started once it has exited.
Relaunch ==
  /\ supervisor.supervised
  /\ supervisor.child = NoPid \/ qid[supervisor.child] = "gone"
  /\ Free # {}
  /\ supervisor' = [supervisor EXCEPT !.child = NextFree]
  /\ qid' = [qid EXCEPT ![NextFree] = "probe"]
  /\ UNCHANGED <<sockFile, cmd, crashes, raced>>

---------------------------------------------------------------------------
(* A qi process: stop, then start; pc names the call it is at              *)

Goto(c, pc) == cmd' = [cmd EXCEPT ![c].pc = pc]
Say(c, what) ==
  cmd' = [cmd EXCEPT ![c] = [op |-> @.op, pc |-> "done", conn |-> NoPid, pid |-> NoPid,
                             child |-> NoPid, said |-> what]]

\* stop returned without a respawn: restart goes on to start.
Stopped(c, what) ==
  IF cmd[c].op = "restart" THEN Goto(c, "start") ELSE Say(c, what)

\* Alive dials and hangs up.
StopAlive(c) ==
  /\ cmd[c].pc = "stop"
  /\ IF Alive THEN Goto(c, "dial") ELSE Stopped(c, "not running")
  /\ UNCHANGED <<qid, sockFile, supervisor, crashes, raced>>

\* The connection is to the process that accepts this second dial, if one does.
StopDial(c) ==
  /\ cmd[c].pc = "dial"
  /\ IF Alive
     THEN cmd' = [cmd EXCEPT ![c].pc = "status", ![c].conn = sockFile]
     ELSE Say(c, "error")
  /\ UNCHANGED <<qid, sockFile, supervisor, crashes, raced>>

\* The status call may fail or time out; then the pid stays unknown.
StopStatus(c) ==
  /\ cmd[c].pc = "status"
  /\ \E pid \in {NoPid} \cup {d \in {cmd[c].conn} : qid[d] \in {"serving", "stopping"}} :
       cmd' = [cmd EXCEPT ![c].pc = "shutdown", ![c].pid = pid]
  /\ UNCHANGED <<qid, sockFile, supervisor, crashes, raced>>

\* daemon.shutdown: answered, then the serve context is cancelled; a closed
\* connection counts as success, a call that times out as an error.
StopShutdown(c) ==
  LET d == cmd[c].conn IN
  /\ cmd[c].pc = "shutdown"
  /\ \/ /\ qid[d] \in {"serving", "stopping"}
        /\ qid' = [qid EXCEPT ![d] = "stopping"]
        /\ Goto(c, "gone")
     \/ /\ qid[d] \notin Listening
        /\ Goto(c, "gone") /\ UNCHANGED qid
     \/ /\ qid[d] = "starting"
        /\ Say(c, "error") /\ UNCHANGED qid
  /\ UNCHANGED <<sockFile, supervisor, crashes, raced>>

\* Mutant of StopWaitGone: the shutdown's answer is taken for its end.
StopWaitGoneSkipped(c) ==
  /\ cmd[c].pc = "gone"
  /\ Stopped(c, "stopped")
  /\ UNCHANGED <<qid, sockFile, supervisor, crashes, raced>>

StopWaitGone(c) ==
  /\ cmd[c].pc = "gone"
  /\ IF Alive THEN Say(c, "error") ELSE Goto(c, "process")
  /\ UNCHANGED <<qid, sockFile, supervisor, crashes, raced>>

\* Mutant of StopWaitProcess: a quiet socket is enough.
StopWaitProcessSkipped(c) ==
  /\ cmd[c].pc = "process"
  /\ Goto(c, "supervisor")
  /\ UNCHANGED <<qid, sockFile, supervisor, crashes, raced>>

StopWaitProcess(c) ==
  /\ cmd[c].pc = "process"
  /\ IF cmd[c].pid = NoPid \/ qid[cmd[c].pid] = "gone"
     THEN Goto(c, "supervisor") ELSE Say(c, "error")
  /\ UNCHANGED <<qid, sockFile, supervisor, crashes, raced>>

\* Ask the supervisor if qi can; otherwise watch the socket for a while.
StopSupervisor(c) ==
  /\ cmd[c].pc = "supervisor"
  /\ IF supervisor.known
     THEN IF supervisor.supervised THEN Say(c, "respawned") ELSE Stopped(c, "stopped")
     ELSE IF Alive THEN Say(c, "respawned") ELSE Stopped(c, "stopped")
  /\ UNCHANGED <<qid, sockFile, supervisor, crashes, raced>>

StartSpawn(c) ==
  /\ cmd[c].pc = "start"
  /\ IF Alive
     THEN Say(c, "running") /\ UNCHANGED qid
     ELSE /\ Free # {}
          /\ qid' = [qid EXCEPT ![NextFree] = "probe"]
          /\ cmd' = [cmd EXCEPT ![c].pc = "ready", ![c].child = NextFree]
  /\ UNCHANGED <<sockFile, supervisor, crashes, raced>>

\* The child's exit races WaitReady, which any daemon on the socket satisfies;
\* a child that is not ready in time is killed.
StartReady(c) ==
  LET d == cmd[c].child IN
  /\ cmd[c].pc = "ready"
  /\ \/ Answering /\ Say(c, "started") /\ UNCHANGED qid
     \/ qid[d] = "gone" /\ Say(c, "error") /\ UNCHANGED qid
     \/ ~Answering /\ Say(c, "error") /\ qid' = [qid EXCEPT ![d] = "gone"]
  /\ UNCHANGED <<sockFile, supervisor, crashes, raced>>

---------------------------------------------------------------------------
\* One daemon runs, the supervisor's if there is one; or none does, perhaps
\* with a stale socket file.
ControlInit ==
  /\ \E first \in {"gone", "serving"} : qid = [d \in Daemons |-> IF d = 1 THEN first ELSE "gone"]
  /\ sockFile \in IF qid[1] = "serving" THEN {1} ELSE {NoFile, 1}
  /\ \E s \in BOOLEAN, k \in BOOLEAN :
       supervisor = [supervised |-> s, known |-> k, child |-> IF s THEN 1 ELSE NoPid]
  /\ cmd \in [Commands -> {[op |-> o, pc |-> IF o = "start" THEN "start" ELSE "stop",
                            conn |-> NoPid, pid |-> NoPid, child |-> NoPid, said |-> ""] :
                             o \in {"start", "stop", "restart"}}]
  /\ crashes = 0 /\ raced = FALSE

Daemon(d) == \/ ListenProbe(d) \/ ListenRemove(d) \/ ListenBind(d)
             \/ Serve(d) \/ Exit(d) \/ (CloseListener(d) /\ qid[d] = "stopping")

Command(c) == \/ StopAlive(c) \/ StopDial(c) \/ StopStatus(c) \/ StopShutdown(c) \/ StopWaitGone(c)
              \/ StopWaitProcess(c) \/ StopSupervisor(c) \/ StartSpawn(c) \/ StartReady(c)

ControlNext ==
  \/ \E d \in Daemons : Daemon(d) \/ Kill(d) \/ CloseListener(d)
  \/ Relaunch
  \/ \E c \in Commands : Command(c)

ControlSpec == ControlInit /\ [][ControlNext]_controlVars

---------------------------------------------------------------------------
\* Every open listener is reachable: the file at the socket path is its own, so
\* a predecessor that is still draining never takes its successor's socket away
\* (main.go:85-93).  The exception is two processes that find the same stale
\* file: one may remove what the other has just bound.
ListenerReachable ==
  raced \/ \A d \in Daemons : qid[d] \in Listening => sockFile = d

\* "qid stopped" is said only when the process that answered is gone
\* (daemon.go:275-279), not merely silent.
StoppedMeansGone ==
  [][\A c \in Commands :
       /\ cmd[c].said = "" /\ cmd'[c].said = "stopped" /\ cmd[c].pid # NoPid
       => qid[cmd[c].pid] = "gone"]_controlVars

\* When start and restart commands are over, none failed, nothing was killed and
\* no live socket was removed, a daemon is there and stays: a restart never
\* leaves the machine without one.
RestartRestores ==
  (/\ crashes = 0 /\ ~raced
   /\ \A c \in Commands : /\ cmd[c].pc = "done" /\ cmd[c].op # "stop"
                          /\ cmd[c].said \in {"started", "running", "respawned"})
  ~> [](crashes > 0 \/ raced \/ Alive)
=============================================================================
