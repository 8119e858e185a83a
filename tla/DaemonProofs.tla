---------------------------- MODULE DaemonProofs ----------------------------
(***************************************************************************)
(* Theorems about the socket qid processes fight for, the commands that    *)
(* stop and start them, the connection that callers share and the log that *)
(* two qid processes write, for any number of processes, commands, kills,  *)
(* goroutines, calls and entries.                                          *)
(***************************************************************************)
EXTENDS DaemonControl, DaemonClient, DaemonOverlap, SequenceTheorems,
        FiniteSetTheorems, TLAPS

---------------------------------------------------------------------------
\* qid processes and qi commands

Stages == {"gone", "probe", "remove", "bind", "starting", "serving", "stopping", "draining"}

Pids == Daemons \cup {NoPid}

Answers == {"", "not running", "error", "stopped", "respawned", "started", "running"}

CommandType ==
  [op : {"start", "stop", "restart"},
   pc : {"stop", "dial", "status", "shutdown", "gone", "process", "supervisor", "start", "ready",
         "done"},
   conn : Pids, pid : Pids, child : Pids, said : Answers]

ControlType ==
  /\ qid \in [Daemons -> Stages]
  /\ sockFile \in Daemons \cup {NoFile}
  /\ supervisor \in [supervised : BOOLEAN, known : BOOLEAN, child : Pids]
  /\ cmd \in [Commands -> CommandType]
  /\ raced \in BOOLEAN

\* What stop has learned of the process it asked to end: at "supervisor" it has
\* seen it gone, and no process reuses a pid a command still holds.
GoneOK ==
  \A c \in Commands :
    cmd[c].pc = "supervisor" /\ cmd[c].pid # NoPid => qid[cmd[c].pid] = "gone"

ControlInv == ControlType /\ ListenerReachable /\ GoneOK

\* A process id that is free is a process id, of a process that is not running
\* and that no command refers to.
LEMMA NextFreeIs ==
  ASSUME Free # {}
  PROVE  /\ NextFree \in Daemons /\ qid[NextFree] = "gone"
         /\ \A c \in Commands : cmd[c].pid # NextFree
<1>1. NextFree \in Free
  BY DEF NextFree
<1> QED
  BY <1>1 DEF Free, Referenced

\* 0 is no process.
LEMMA PidsAreNotFiles == NoFile \notin Daemons /\ NoPid \notin Daemons
  BY ControlAssumption DEF Daemons, NoFile, NoPid

\* A command moves on, or has said something: its record keeps its type, and
\* those of the other commands are as they were.
LEMMA CommandMoves ==
  ASSUME ControlType, NEW c \in Commands, NEW pc \in {"status", "shutdown", "gone", "process",
           "supervisor", "start", "ready", "dial"},
         Goto(c, pc)
  PROVE  /\ cmd' \in [Commands -> CommandType]
         /\ cmd'[c].pc = pc /\ cmd'[c].pid = cmd[c].pid /\ cmd'[c].said = cmd[c].said
         /\ \A b \in Commands \ {c} : cmd'[b] = cmd[b]
  BY DEF ControlType, Goto, CommandType

\* A command that has its answer is done and holds no process any more.
LEMMA CommandSays ==
  ASSUME ControlType, NEW c \in Commands, NEW what \in Answers, Say(c, what)
  PROVE  /\ cmd' \in [Commands -> CommandType]
         /\ cmd'[c].pc = "done" /\ cmd'[c].said = what
         /\ \A b \in Commands \ {c} : cmd'[b] = cmd[b]
<1> DEFINE r == [op |-> cmd[c].op, pc |-> "done", conn |-> NoPid, pid |-> NoPid,
                 child |-> NoPid, said |-> what]
<1>1. r \in CommandType
  BY DEF ControlType, CommandType, Pids
<1>2. cmd' = [cmd EXCEPT ![c] = r]
  BY DEF Say
<1> QED
  BY <1>1, <1>2 DEF ControlType

\* The stop half of a command ends it, or lets a restart go on to its start.
LEMMA CommandStopped ==
  ASSUME ControlType, NEW c \in Commands, NEW what \in Answers, Stopped(c, what)
  PROVE  /\ cmd' \in [Commands -> CommandType]
         /\ cmd'[c].pc \in {"start", "done"} /\ cmd'[c].said \in {cmd[c].said, what}
         /\ \A b \in Commands \ {c} : cmd'[b] = cmd[b]
  BY CommandMoves, CommandSays DEF Stopped

\* What every step of a command does to the table of commands.
LEMMA CommandTable ==
  ASSUME ControlType, NEW c \in Commands, Command(c)
  PROVE  /\ cmd' \in [Commands -> CommandType]
         /\ \A b \in Commands \ {c} : cmd'[b] = cmd[b]
         /\ cmd'[c].pc = "supervisor" =>
              /\ cmd'[c].pid = cmd[c].pid /\ UNCHANGED qid
              /\ cmd[c].pid = NoPid \/ qid[cmd[c].pid] = "gone"
         /\ cmd'[c].said = "stopped" => cmd[c].said = "stopped" \/ cmd[c].pc = "supervisor"
<1>s. {"not running", "error", "stopped", "respawned", "started", "running"} \subseteq Answers
  BY DEF Answers
<1>p. NoPid \in Pids /\ sockFile \in Pids /\ cmd[c] \in CommandType
  BY DEF ControlType, Pids, NoFile, NoPid
<1>1. CASE StopDial(c)
  <2>1. CASE Alive
    <3>1. cmd' = [cmd EXCEPT ![c].pc = "status", ![c].conn = sockFile]
      BY <1>1, <2>1 DEF StopDial
    <3> QED BY <1>p, <3>1 DEF ControlType, CommandType
  <2>2. CASE ~Alive
    BY <1>1, <1>s, <2>2, CommandSays DEF StopDial
  <2> QED BY <2>1, <2>2
<1>2. CASE StopStatus(c)
  <2>1. PICK pid \in Pids : cmd' = [cmd EXCEPT ![c].pc = "shutdown", ![c].pid = pid]
    BY <1>2, <1>p DEF StopStatus, CommandType
  <2> QED BY <2>1, ZenonT(30) DEF ControlType, CommandType
<1>3. CASE StopShutdown(c)
  BY <1>3, <1>s, CommandMoves, CommandSays DEF StopShutdown
<1>4. CASE StopWaitGone(c)
  BY <1>4, <1>s, CommandMoves, CommandSays DEF StopWaitGone
<1>5. CASE StopWaitProcess(c)
  BY <1>5, <1>s, CommandMoves, CommandSays DEF StopWaitProcess
<1>6. CASE StopSupervisor(c)
  BY <1>6, <1>s, CommandStopped, CommandSays DEF StopSupervisor
<1>7. CASE StartSpawn(c)
  <2>1. CASE Alive
    BY <1>7, <1>s, <2>1, CommandSays DEF StartSpawn
  <2>2. CASE ~Alive
    <3>1. NextFree \in Pids /\ cmd' = [cmd EXCEPT ![c].pc = "ready", ![c].child = NextFree]
      BY <1>7, <2>2, NextFreeIs DEF StartSpawn, Pids
    <3> QED BY <1>p, <3>1 DEF ControlType, CommandType
  <2> QED BY <2>1, <2>2
<1>8. CASE StartReady(c)
  BY <1>8, <1>s, CommandSays DEF StartReady
<1>9. CASE StopAlive(c)
  BY <1>9, <1>s, CommandMoves, CommandStopped DEF StopAlive
<1> QED
  BY <1>1, <1>2, <1>3, <1>4, <1>5, <1>6, <1>7, <1>8, <1>9 DEF Command

\* A step starts at most one process, whose pid no command holds; every other
\* process that was gone stays gone.
LEMMA GoneStays ==
  ASSUME ControlType, [ControlNext]_controlVars
  PROVE  /\ qid' \in [Daemons -> Stages]
         /\ \A d \in Daemons : qid[d] = "gone" /\ (\E c \in Commands : cmd[c].pid = d)
              => qid'[d] = "gone"
<1> USE DEF Stages
<1>1. ASSUME NEW d \in Daemons, Daemon(d) \/ Kill(d) \/ CloseListener(d)
      PROVE  /\ qid' \in [Daemons -> Stages] /\ qid[d] # "gone"
             /\ \A e \in Daemons \ {d} : qid'[e] = qid[e]
  BY <1>1 DEF ControlType, Daemon, Kill, CloseListener, ListenProbe, ListenRemove, ListenBind,
              Serve, Exit
<1>2. CASE Relaunch
  BY <1>2, NextFreeIs DEF ControlType, Relaunch
<1>3. ASSUME NEW c \in Commands, Command(c)
      PROVE  /\ qid' \in [Daemons -> Stages]
             /\ \A d \in Daemons : qid[d] = "gone" /\ (\E b \in Commands : cmd[b].pid = d)
                  => qid'[d] = "gone"
  <2>1. CASE StopShutdown(c)
    BY <2>1 DEF ControlType, StopShutdown
  <2>2. CASE StartSpawn(c)
    BY <2>2, NextFreeIs DEF ControlType, StartSpawn
  <2>3. CASE StartReady(c)
    BY <2>3 DEF ControlType, StartReady
  <2>4. CASE UNCHANGED qid
    BY <2>4 DEF ControlType
  <2> QED
    BY <1>3, <2>1, <2>2, <2>3, <2>4
    DEF Command, StopAlive, StopDial, StopStatus, StopWaitGone, StopWaitProcess, StopSupervisor
<1>4. CASE UNCHANGED controlVars
  BY <1>4 DEF ControlType, controlVars
<1> QED
  BY <1>1, <1>2, <1>3, <1>4 DEF ControlNext

\* The types of the daemon control variables.
LEMMA ControlTypeStep ==
  ASSUME ControlType, [ControlNext]_controlVars
  PROVE  ControlType'
<1>1. qid' \in [Daemons -> Stages]
  BY GoneStays
<1>2. cmd' \in [Commands -> CommandType]
  <2>1. CASE \E c \in Commands : Command(c)
    BY <2>1, CommandTable
  <2>2. CASE ~\E c \in Commands : Command(c)
    <3>1. UNCHANGED cmd
      BY <2>2 DEF ControlNext, controlVars, Daemon, Kill, CloseListener, ListenProbe,
                  ListenRemove, ListenBind, Serve, Exit, Relaunch
    <3> QED BY <3>1 DEF ControlType
  <2> QED BY <2>1, <2>2
<1>3. sockFile' \in Daemons \cup {NoFile}
  BY DEF ControlType, ControlNext, controlVars, Daemon, Kill, CloseListener, ListenProbe,
         ListenRemove, ListenBind, Serve, Exit, Relaunch, Command, StopAlive, StopDial, StopStatus,
         StopShutdown, StopWaitGone, StopWaitProcess, StopSupervisor, StartSpawn, StartReady
<1>4. supervisor' \in [supervised : BOOLEAN, known : BOOLEAN, child : Pids]
  <2>1. CASE Relaunch
    <3>1. NextFree \in Pids /\ supervisor' = [supervisor EXCEPT !.child = NextFree]
      BY <2>1, NextFreeIs DEF Relaunch, Pids
    <3> QED BY <3>1 DEF ControlType
  <2>2. CASE ~Relaunch
    <3>1. UNCHANGED supervisor
      BY <2>2 DEF ControlNext, controlVars, Daemon, Kill, CloseListener, ListenProbe,
         ListenRemove, ListenBind, Serve, Exit, Command, StopAlive, StopDial, StopStatus,
         StopShutdown, StopWaitGone, StopWaitProcess, StopSupervisor, StartSpawn, StartReady
    <3> QED BY <3>1 DEF ControlType
  <2> QED BY <2>1, <2>2
<1>5. raced' \in BOOLEAN
  <2>1. UNCHANGED raced \/ raced' = (raced \/ Alive)
    BY DEF ControlNext, controlVars, Daemon, Kill, CloseListener, ListenProbe,
         ListenRemove, ListenBind, Serve, Exit, Relaunch, Command, StopAlive, StopDial, StopStatus,
         StopShutdown, StopWaitGone, StopWaitProcess, StopSupervisor, StartSpawn, StartReady
  <2> QED BY <2>1, Zenon DEF ControlType, Alive
<1> QED
  BY <1>1, <1>2, <1>3, <1>4, <1>5 DEF ControlType

\* A listener keeps its file until it closes, unless Listen races another one.
LEMMA ReachableStep ==
  ASSUME ControlType, ListenerReachable, [ControlNext]_controlVars
  PROVE  ListenerReachable'
<1> USE PidsAreNotFiles
<1>q. raced => raced'
  <2>1. UNCHANGED raced \/ raced' = (raced \/ Alive)
    BY DEF ControlNext, controlVars, Daemon, Kill, CloseListener, ListenProbe,
         ListenRemove, ListenBind, Serve, Exit, Relaunch, Command, StopAlive, StopDial, StopStatus,
         StopShutdown, StopWaitGone, StopWaitProcess, StopSupervisor, StartSpawn, StartReady
  <2> QED BY <2>1
<1> SUFFICES ASSUME ~raced PROVE ListenerReachable'
  BY <1>q DEF ListenerReachable
<1>i. /\ \A d \in Daemons : qid[d] \in Listening => sockFile = d
      /\ qid \in [Daemons -> Stages]
  BY DEF ListenerReachable, ControlType
\* no process starts to listen and the file stays
<1>k. ASSUME UNCHANGED sockFile,
             \A d \in Daemons : qid'[d] \in Listening => qid[d] \in Listening
      PROVE  ListenerReachable'
  BY <1>k, <1>i DEF ListenerReachable
<1>1. ASSUME NEW d \in Daemons, ListenProbe(d) \/ Serve(d) \/ Exit(d) \/ Kill(d)
      PROVE  ListenerReachable'
  BY <1>1, <1>i, <1>k DEF ListenProbe, Serve, Exit, Kill, Listening
<1>2. ASSUME NEW d \in Daemons, ListenRemove(d) PROVE ListenerReachable'
  <2>1. CASE Alive
    <3>1. raced'
      BY <1>2, <2>1 DEF ListenRemove
    <3> QED BY <3>1 DEF ListenerReachable
  <2>2. CASE ~Alive
    <3>1. \A e \in Daemons : qid[e] \notin Listening
      BY <1>i, <2>2 DEF Alive
    <3>2. \A e \in Daemons : qid'[e] \notin Listening
      BY <1>2, <1>i, <3>1 DEF ListenRemove, Listening
    <3> QED BY <3>2 DEF ListenerReachable
  <2> QED BY <2>1, <2>2
<1>3. ASSUME NEW d \in Daemons, ListenBind(d) PROVE ListenerReachable'
  <2>1. CASE sockFile = NoFile
    <3>1. \A e \in Daemons : qid[e] \notin Listening
      BY <1>i, <2>1
    <3>2. sockFile' = d /\ \A e \in Daemons \ {d} : qid'[e] = qid[e]
      BY <1>3, <1>i, <2>1 DEF ListenBind
    <3> QED BY <3>1, <3>2 DEF ListenerReachable
  <2>2. CASE sockFile # NoFile
    BY <1>3, <1>i, <1>k, <2>2 DEF ListenBind, Listening
  <2> QED BY <2>1, <2>2
<1>4. ASSUME NEW d \in Daemons, CloseListener(d) PROVE ListenerReachable'
  <2>1. qid[d] \in Listening /\ qid'[d] \notin Listening
        /\ \A e \in Daemons \ {d} : qid'[e] = qid[e]
    BY <1>4, <1>i DEF CloseListener, Listening
  <2>2. \A e \in Daemons \ {d} : qid[e] \notin Listening
    BY <1>i, <2>1
  <2> QED BY <2>1, <2>2 DEF ListenerReachable
<1>5. CASE Relaunch
  BY <1>5, <1>i, <1>k DEF Relaunch, Listening
<1>6. ASSUME NEW c \in Commands, Command(c) PROVE ListenerReachable'
  <2>1. UNCHANGED sockFile
    BY <1>6 DEF Command, StopAlive, StopDial, StopStatus, StopShutdown, StopWaitGone, StopWaitProcess,
                StopSupervisor, StartSpawn, StartReady
  <2>2. \A d \in Daemons : qid'[d] \in Listening => qid[d] \in Listening
    <3>1. CASE StopShutdown(c)
      BY <3>1, <1>i DEF StopShutdown, Listening
    <3>2. CASE StartSpawn(c) \/ StartReady(c)
      BY <3>2, <1>i DEF StartSpawn, StartReady, Listening
    <3>3. CASE UNCHANGED qid
      BY <3>3
    <3> QED
      BY <1>6, <3>1, <3>2, <3>3
      DEF Command, StopAlive, StopDial, StopStatus, StopWaitGone, StopWaitProcess, StopSupervisor
  <2> QED BY <1>k, <2>1, <2>2
<1>7. CASE UNCHANGED controlVars
  BY <1>7, <1>i, <1>k DEF controlVars
<1> QED
  BY <1>1, <1>2, <1>3, <1>4, <1>5, <1>6, <1>7 DEF ControlNext, Daemon

\* A command past StopWaitProcess holds the pid of a process that is gone.
LEMMA GoneStep ==
  ASSUME ControlInv, [ControlNext]_controlVars
  PROVE  GoneOK'
<1>t. /\ ControlType /\ GoneOK
      /\ \A c \in Commands : cmd[c].pid \in Daemons \cup {NoPid}
  BY DEF ControlInv, ControlType, CommandType, Pids
<1>1. ASSUME NEW c \in Commands, cmd'[c] = cmd[c],
             cmd[c].pc = "supervisor", cmd[c].pid # NoPid
      PROVE  qid'[cmd[c].pid] = "gone"
  BY <1>1, <1>t, GoneStays DEF GoneOK
<1>2. ASSUME NEW c \in Commands, Command(c) PROVE GoneOK'
  BY <1>1, <1>2, <1>t, CommandTable DEF GoneOK
<1>3. CASE ~\E c \in Commands : Command(c)
  <2>1. UNCHANGED cmd
    BY <1>3 DEF ControlNext, controlVars, Daemon, Kill, CloseListener, ListenProbe,
                ListenRemove, ListenBind, Serve, Exit, Relaunch
  <2> QED BY <1>1, <2>1 DEF GoneOK
<1> QED
  BY <1>2, <1>3

\* The initial states: one daemon, or none and perhaps a stale file.
LEMMA ControlInitially == ControlInit => ControlInv
<1> SUFFICES ASSUME ControlInit PROVE ControlInv
  OBVIOUS
<1>d. 1 \in Daemons
  BY ControlAssumption DEF Daemons
<1>1. PICK first \in {"gone", "serving"} :
        qid = [d \in Daemons |-> IF d = 1 THEN first ELSE "gone"]
  BY Zenon DEF ControlInit
<1>2. qid \in [Daemons -> Stages] /\ \A d \in Daemons \ {1} : qid[d] = "gone"
  BY <1>1 DEF Stages
<1>3. sockFile \in Daemons \cup {NoFile} /\ (qid[1] = "serving" => sockFile = 1)
  <2>1. sockFile \in IF qid[1] = "serving" THEN {1} ELSE {NoFile, 1}
    BY Zenon DEF ControlInit
  <2> QED BY <1>d, <2>1
<1>4. supervisor \in [supervised : BOOLEAN, known : BOOLEAN, child : Pids]
  <2>1. \E s \in BOOLEAN, k \in BOOLEAN :
          supervisor = [supervised |-> s, known |-> k, child |-> IF s THEN 1 ELSE NoPid]
    BY Zenon DEF ControlInit
  <2>2. PICK s \in BOOLEAN, k \in BOOLEAN :
          supervisor = [supervised |-> s, known |-> k, child |-> IF s THEN 1 ELSE NoPid]
    BY <2>1
  <2>3. (IF s THEN 1 ELSE NoPid) \in Pids
    BY <1>d DEF Pids
  <2> QED BY <2>2, <2>3
<1>5. cmd \in [Commands -> CommandType] /\ raced = FALSE
      /\ \A c \in Commands : cmd[c].pc # "supervisor"
  <2> DEFINE First(o) == [op |-> o, pc |-> IF o = "start" THEN "start" ELSE "stop",
                          conn |-> NoPid, pid |-> NoPid, child |-> NoPid, said |-> ""]
  <2>1. cmd \in [Commands -> {First(o) : o \in {"start", "stop", "restart"}}] /\ raced = FALSE
    BY Zenon DEF ControlInit
  <2>2. \A o \in {"start", "stop", "restart"} :
          First(o) \in CommandType /\ First(o).pc # "supervisor"
    BY DEF CommandType, Pids, Answers
  <2> HIDE DEF First
  <2>3. \A c \in Commands : \E o \in {"start", "stop", "restart"} : cmd[c] = First(o)
    BY <2>1
  <2>4. \A c \in Commands : cmd[c] \in CommandType /\ cmd[c].pc # "supervisor"
    BY <2>2, <2>3
  <2> QED BY <2>1, <2>4
<1>6. qid[1] \in {"gone", "serving"}
  BY <1>d, <1>1
<1>7. ListenerReachable
  BY <1>2, <1>3, <1>6 DEF ListenerReachable, Listening
<1> QED
  BY <1>2, <1>3, <1>4, <1>5, <1>7 DEF ControlInv, ControlType, GoneOK

\* The invariant of daemons and commands.
LEMMA ControlInvariant == ControlSpec => []ControlInv
<1>1. ControlInv /\ [ControlNext]_controlVars => ControlInv'
  BY ControlTypeStep, ReachableStep, GoneStep DEF ControlInv
<1> QED
  BY <1>1, ControlInitially, PTL DEF ControlSpec

\* However many qid processes start, stop, drain and are killed, the file at
\* the socket path belongs to the listener that is open, unless Listen removed
\* a live socket it took for stale: a draining predecessor's deferred Close
\* never unlinks its successor's file.
THEOREM OpenListenerReachable == ControlSpec => []ListenerReachable
<1>1. ControlInv => ListenerReachable
  BY DEF ControlInv
<1> QED
  BY <1>1, ControlInvariant, PTL

\* `qi daemon stop` says "qid stopped" of a process whose pid it knows only
\* when that process has exited, whatever other commands, kills and relaunches
\* happen while it waits.
THEOREM StopIsTruthful == ControlSpec => StoppedMeansGone
<1>1. ControlInv /\ [ControlNext]_controlVars =>
        [\A c \in Commands :
           /\ cmd[c].said = "" /\ cmd'[c].said = "stopped" /\ cmd[c].pid # NoPid
           => qid[cmd[c].pid] = "gone"]_controlVars
  <2> SUFFICES ASSUME ControlInv, [ControlNext]_controlVars, NEW c \in Commands,
                      cmd[c].said = "", cmd'[c].said = "stopped", cmd[c].pid # NoPid
               PROVE  qid[cmd[c].pid] = "gone"
    OBVIOUS
  <2>1. cmd'[c] # cmd[c]
    OBVIOUS
  <2>2. Command(c)
    <3>1. CASE \E b \in Commands : Command(b)
      BY <2>1, <3>1, CommandTable DEF ControlInv
    <3>2. CASE ~\E b \in Commands : Command(b)
      <4>1. UNCHANGED cmd
        BY <3>2 DEF ControlNext, controlVars, Daemon, Kill, CloseListener, ListenProbe,
                    ListenRemove, ListenBind, Serve, Exit, Relaunch
      <4> QED BY <2>1, <4>1
    <3> QED BY <3>1, <3>2
  <2>3. cmd[c].pc = "supervisor"
    BY <2>2, CommandTable DEF ControlInv
  <2> QED BY <2>3 DEF ControlInv, GoneOK
<1> QED
  BY <1>1, ControlInvariant, PTL DEF ControlSpec, StoppedMeansGone

---------------------------------------------------------------------------
\* One connection and the goroutines that share it

CallType == [stage : {"idle", "write", "read"}, id : CallIds \cup {NoReplyId}]

ClientType ==
  /\ call \in [Goroutines -> CallType]
  /\ nextID \in 0 .. MaxCalls
  /\ outcome \in [CallIds -> {"", "ok", "error"}]
  /\ accepted \in [CallIds -> CallIds \cup {NoReplyId}]
  /\ open \in BOOLEAN /\ timedOut \in BOOLEAN

\* The mutex: one goroutine at most is inside Call, with an id of its own.
MutexOK ==
  /\ \A c, d \in Goroutines : call[c].stage # "idle" /\ call[d].stage # "idle" => c = d
  /\ \A c \in Goroutines : call[c].stage # "idle" => call[c].id \in CallIds

Line(i) == <<Piece(i, "head"), Piece(i, "tail")>>

Silence == toServer = <<>> /\ toClient = <<>> /\ replying = <<>>

\* The request is on its way, qid is writing the reply, or the reply is there.
Exchange(i) ==
  \/ toServer = Line(i) /\ toClient = <<>> /\ replying = <<>>
  \/ toServer = <<>> /\ toClient = <<Piece(i, "head")>> /\ replying = <<i>>
  \/ toServer = <<>> /\ toClient = Line(i) /\ replying = <<>>

\* Until a deadline passes or qid closes the connection, what is on the wire is
\* the one exchange of the goroutine that waits for its reply.
WireOK ==
  (~timedOut /\ open) =>
    /\ (\A c \in Goroutines : call[c].stage # "read") => Silence
    /\ \A c \in Goroutines : call[c].stage = "read" => Exchange(call[c].id)

ClientInv == ClientType /\ MutexOK /\ WireOK /\ CallsPaired

\* A head and its tail are a line.
LEMMA AppendTwo == \A p, q : Append(<<p>>, q) = <<p, q>>
<1> SUFFICES ASSUME NEW p, NEW q PROVE Append(<<p>>, q) = <<p, q>>
  OBVIOUS
<1> DEFINE s == Append(<<p>>, q)
           t == <<p, q>>
<1>1. s \in Seq({p, q}) /\ t \in Seq({p, q})
  OBVIOUS
<1>2. Len(s) = 2 /\ Len(t) = 2 /\ s[1] = p /\ s[2] = q /\ t[1] = p /\ t[2] = q
  OBVIOUS
<1> HIDE DEF s, t
<1>3. Len(s) = Len(t) /\ \A i \in 1 .. Len(s) : s[i] = t[i]
  BY <1>2
<1>4. s = t
  BY <1>1, <1>3, SeqEqual
<1> QED
  BY <1>4 DEF s, t

\* Where the first line of the wires above ends, and whose it is.
LEMMA LineEnds ==
  /\ LineEnd(<<>>) = 0
  /\ \A i : /\ LineEnd(<<Piece(i, "head")>>) = 0
            /\ LineEnd(Line(i)) = 2
            /\ LineId(SubSeq(Line(i), 1, 2)) = i
            /\ SubSeq(Line(i), 3, Len(Line(i))) = <<>>
<1>1. LineEnd(<<>>) = 0
  BY DEF LineEnd, SelectInSeq
<1>2. ASSUME NEW i PROVE LineEnd(<<Piece(i, "head")>>) = 0
  BY DEF LineEnd, SelectInSeq, Piece
<1>3. ASSUME NEW i PROVE LineEnd(Line(i)) = 2
  <2> DEFINE I == {k \in 1 .. Len(Line(i)) : Line(i)[k].piece = "tail"}
  <2>1. I = {2}
    BY DEF Line, Piece
  <2>2. Min({2}) = 2
    BY DEF Min
  <2>3. LineEnd(Line(i)) = IF I # {} THEN Min(I) ELSE 0
    BY DEF LineEnd, SelectInSeq
  <2> QED BY <2>1, <2>2, <2>3
<1>4. ASSUME NEW i PROVE LineId(SubSeq(Line(i), 1, 2)) = i
                         /\ SubSeq(Line(i), 3, Len(Line(i))) = <<>>
  BY DEF Line, Piece, LineId
<1> QED
  BY <1>1, <1>2, <1>3, <1>4

\* What Return does: the goroutine leaves Call and its id has an outcome.
LEMMA Returned ==
  ASSUME ClientType, MutexOK, NEW c \in Goroutines, call[c].stage # "idle",
         NEW result \in {"ok", "error"}, Return(c, result)
  PROVE  /\ call' \in [Goroutines -> CallType] /\ outcome' \in [CallIds -> {"", "ok", "error"}]
         /\ MutexOK' /\ \A d \in Goroutines : call'[d].stage = "idle"
         /\ outcome'[call[c].id] = result /\ call[c].id \in CallIds
         /\ \A i \in CallIds \ {call[c].id} : outcome'[i] = outcome[i]
<1>1. [stage |-> "idle", id |-> NoReplyId] \in CallType
  BY DEF CallType
<1>2. call' = [call EXCEPT ![c] = [stage |-> "idle", id |-> NoReplyId]] /\ call[c].id \in CallIds
  BY DEF Return, MutexOK
<1>3. call' \in [Goroutines -> CallType]
  BY <1>1, <1>2 DEF ClientType
<1>4. \A d \in Goroutines : call'[d].stage = "idle"
  BY <1>2 DEF ClientType, MutexOK
<1>5. MutexOK'
  BY <1>4 DEF MutexOK
<1> QED
  BY <1>2, <1>3, <1>4, <1>5 DEF Return, ClientType

\* An outcome of an earlier call is kept, and an error is only reported once a
\* deadline has passed or the connection is closed.
LEMMA ErrorReturned ==
  ASSUME ClientType, MutexOK, CallsPaired, NEW c \in Goroutines, call[c].stage # "idle",
         Return(c, "error"), UNCHANGED accepted, timedOut' \/ ~open'
  PROVE  CallsPaired' /\ WireOK'
<1>1. ReplyIsOwn'
  BY Returned DEF CallsPaired, ReplyIsOwn
<1>2. SharedCallsSucceed' /\ WireOK'
  BY DEF SharedCallsSucceed, WireOK
<1> QED
  BY <1>1, <1>2 DEF CallsPaired

\* Every step keeps the exchange on the wire in order.
LEMMA ClientStep == ClientInv /\ [ClientNext]_clientVars => ClientInv'
<1> SUFFICES ASSUME ClientInv, [ClientNext]_clientVars PROVE ClientInv'
  OBVIOUS
<1>i. ClientType /\ MutexOK /\ WireOK /\ CallsPaired
  BY DEF ClientInv
<1>c. NoReplyId \notin CallIds /\ "ok" \in {"ok", "error"} /\ "error" \in {"ok", "error"}
  BY DEF NoReplyId, CallIds
<1>1. ASSUME NEW c \in Goroutines, Lock(c) PROVE ClientInv'
  <2>1. /\ \A d \in Goroutines : call[d].stage = "idle"
        /\ nextID' = nextID + 1 /\ nextID < MaxCalls
        /\ call' = [call EXCEPT ![c] = [stage |-> "write", id |-> nextID + 1]]
        /\ UNCHANGED <<toServer, toClient, replying, open, outcome, accepted, timedOut>>
    BY <1>1 DEF Lock
  <2>2. nextID + 1 \in CallIds /\ nextID' \in 0 .. MaxCalls
    <3>1. nextID \in 0 .. MaxCalls /\ MaxCalls \in Nat
      BY <1>i, ClientAssumption DEF ClientType
    <3> QED BY <2>1, <3>1 DEF CallIds
  <2>3. [stage |-> "write", id |-> nextID + 1] \in CallType
    BY <2>2 DEF CallType
  <2>4. ClientType'
    BY <1>i, <2>1, <2>2, <2>3 DEF ClientType
  <2>5. /\ \A d \in Goroutines \ {c} : call'[d].stage = "idle"
        /\ call'[c].stage = "write" /\ call'[c].id \in CallIds
    BY <1>i, <2>1, <2>2 DEF ClientType
  <2>6. MutexOK' /\ WireOK'
    BY <1>i, <2>1, <2>5 DEF MutexOK, WireOK, Silence
  <2>7. CallsPaired'
    BY <1>i, <2>1 DEF CallsPaired, ReplyIsOwn, SharedCallsSucceed
  <2> QED BY <2>4, <2>6, <2>7 DEF ClientInv
<1>2. ASSUME NEW c \in Goroutines, Write(c) PROVE ClientInv'
  <2>0. call[c].stage = "write" /\ UNCHANGED <<nextID, toClient, replying, open, accepted, timedOut>>
    BY <1>2 DEF Write
  <2>1. CASE open
    <3>1. /\ toServer' = toServer \o <<Piece(call[c].id, "head"), Piece(call[c].id, "tail")>>
          /\ call' = [call EXCEPT ![c].stage = "read"] /\ UNCHANGED outcome
      BY <1>2, <2>1 DEF Write
    <3>2. /\ call' \in [Goroutines -> CallType]
          /\ call'[c].stage = "read" /\ call'[c].id = call[c].id
          /\ \A d \in Goroutines \ {c} : call'[d] = call[d]
      BY <1>i, <3>1 DEF ClientType, CallType
    <3>3. MutexOK' /\ ClientType'
      BY <1>i, <2>0, <3>1, <3>2 DEF MutexOK, ClientType
    <3>4. \A d \in Goroutines : (d # c => call[d].stage = "idle")
      BY <1>i, <2>0 DEF MutexOK
    <3>5. WireOK'
      <4> SUFFICES ASSUME ~timedOut PROVE WireOK'
        BY <2>0 DEF WireOK
      <4>1. Silence
        BY <1>i, <2>0, <2>1, <3>4 DEF WireOK
      <4>2. toServer' = Line(call[c].id) /\ toClient' = <<>> /\ replying' = <<>>
        BY <2>0, <3>1, <4>1 DEF Silence, Line
      <4>3. Exchange(call[c].id)'
        BY <3>2, <4>2 DEF Exchange
      <4> QED BY <3>2, <3>4, <4>3 DEF WireOK
    <3>6. CallsPaired'
      BY <1>i, <2>0, <3>1 DEF CallsPaired, ReplyIsOwn, SharedCallsSucceed
    <3> QED BY <3>3, <3>5, <3>6 DEF ClientInv
  <2>2. CASE ~open
    <3>1. Return(c, "error") /\ ~open'
      BY <1>2, <2>0, <2>2 DEF Write
    <3>2. CallsPaired' /\ WireOK'
      BY <1>i, <2>0, <3>1, ErrorReturned
    <3> QED BY <1>c, <1>i, <2>0, <3>1, <3>2, Returned DEF ClientInv, ClientType
  <2> QED BY <2>1, <2>2
<1>3. ASSUME NEW c \in Goroutines, WriteTimeout(c) \/ ReadTimeout(c) PROVE ClientInv'
  <2>1. /\ call[c].stage # "idle" /\ Return(c, "error") /\ timedOut' = TRUE
        /\ UNCHANGED <<nextID, open, accepted>>
    BY <1>3 DEF WriteTimeout, ReadTimeout
  <2>2. CallsPaired' /\ WireOK'
    BY <1>i, <2>1, ErrorReturned
  <2> QED BY <1>c, <1>i, <2>1, <2>2, Returned DEF ClientInv, ClientType
<1>4. ASSUME NEW c \in Goroutines, Read(c) PROVE ClientInv'
  <2> DEFINE e == LineEnd(toClient)
             id == LineId(SubSeq(toClient, 1, e))
             own == e > 0 /\ id = call[c].id
             result == IF own THEN "ok" ELSE "error"
  <2>1. /\ call[c].stage = "read" /\ (e > 0 \/ ~open)
        /\ toClient' = SubSeq(toClient, e + 1, Len(toClient))
        /\ Return(c, result)
        /\ accepted' = IF own THEN [accepted EXCEPT ![call[c].id] = id] ELSE accepted
        /\ UNCHANGED <<nextID, toServer, replying, open, timedOut>>
    BY <1>4 DEF Read
  <2>2. result \in {"ok", "error"} /\ call[c].stage # "idle"
    BY <2>1
  <2>3. own => id = call[c].id
    OBVIOUS
  <2>4. ASSUME open, ~timedOut PROVE own /\ toClient' = <<>> /\ toServer' = <<>> /\ replying' = <<>>
    <3>1. Exchange(call[c].id) /\ e > 0
      BY <1>i, <2>1, <2>4 DEF WireOK
    <3>2. toClient = Line(call[c].id) /\ toServer = <<>> /\ replying = <<>>
      BY <3>1, LineEnds DEF Exchange
    <3>3. e = 2 /\ id = call[c].id
      BY <3>2, LineEnds
    <3>4. toClient' = <<>>
      BY <2>1, <3>2, <3>3, LineEnds
    <3> QED BY <2>1, <3>1, <3>2, <3>3, <3>4
  <2> HIDE DEF own, result, id, e
  <2>5. /\ call' \in [Goroutines -> CallType] /\ outcome' \in [CallIds -> {"", "ok", "error"}]
        /\ MutexOK' /\ \A d \in Goroutines : call'[d].stage = "idle"
        /\ outcome'[call[c].id] = result /\ call[c].id \in CallIds
        /\ \A i \in CallIds \ {call[c].id} : outcome'[i] = outcome[i]
    BY <1>i, <2>1, <2>2, Returned
  <2>6. /\ accepted' \in [CallIds -> CallIds \cup {NoReplyId}]
        /\ own => accepted'[call[c].id] = call[c].id
        /\ \A i \in CallIds \ {call[c].id} : accepted'[i] = accepted[i]
    BY <1>i, <2>1, <2>3, <2>5 DEF ClientType
  <2>7. ClientType'
    BY <1>i, <2>1, <2>5, <2>6 DEF ClientType
  <2>8. WireOK'
    BY <2>1, <2>4, <2>5 DEF WireOK, Silence
  <2>9. ReplyIsOwn'
    BY <1>i, <2>5, <2>6 DEF CallsPaired, ReplyIsOwn, result
  <2>10. SharedCallsSucceed'
    BY <1>i, <2>1, <2>4, <2>5 DEF CallsPaired, SharedCallsSucceed, result
  <2> QED BY <2>5, <2>7, <2>8, <2>9, <2>10 DEF ClientInv, CallsPaired
<1>5. CASE Handle \/ Reply
  <2>1. UNCHANGED <<call, nextID, open, outcome, accepted, timedOut>> /\ open
    BY <1>5 DEF Handle, Reply
  <2>2. ClientType' /\ MutexOK' /\ CallsPaired'
    BY <1>i, <2>1 DEF ClientType, MutexOK, CallsPaired, ReplyIsOwn, SharedCallsSucceed
  <2>3. WireOK'
    <3> SUFFICES ASSUME ~timedOut PROVE WireOK'
      BY <2>1 DEF WireOK
    <3>1. PICK c \in Goroutines : call[c].stage = "read" /\ Exchange(call[c].id)
      BY <1>5, <1>i, <2>1, LineEnds DEF WireOK, Silence, Handle, Reply
    <3> DEFINE i == call[c].id
    <3>2. \A d \in Goroutines \ {c} : call[d].stage = "idle"
      BY <1>i, <3>1 DEF MutexOK
    <3> HIDE DEF i
    <3>3. Exchange(i)
      BY <3>1 DEF i
    <3>4. CASE Handle
      <4>1. toServer = Line(i) /\ toClient = <<>>
        BY <3>3, <3>4, LineEnds DEF Handle, Exchange
      <4>2. toServer' = <<>> /\ replying' = <<i>>
        BY <3>4, <4>1, LineEnds DEF Handle
      <4>3. toClient' = Append(<<>>, Piece(i, "head"))
        BY <3>4, <4>1, <4>2 DEF Handle
      <4>4. Append(<<>>, Piece(i, "head")) = <<Piece(i, "head")>>
        OBVIOUS
      <4> QED BY <2>1, <3>1, <3>2, <4>2, <4>3, <4>4 DEF WireOK, Exchange, i
    <3>5. CASE Reply
      <4>1. toServer = <<>> /\ toClient = <<Piece(i, "head")>> /\ replying = <<i>>
        BY <3>3, <3>5 DEF Reply, Exchange
      <4>2. toServer' = <<>> /\ replying' = <<>> /\ toClient' = Append(toClient, Piece(i, "tail"))
        BY <3>5, <4>1 DEF Reply
      <4>3. toClient' = Line(i)
        BY <4>1, <4>2, AppendTwo DEF Line
      <4> QED BY <2>1, <3>1, <3>2, <4>2, <4>3 DEF WireOK, Exchange, i
    <3> QED BY <1>5, <3>4, <3>5
  <2> QED BY <2>2, <2>3 DEF ClientInv
<1>6. CASE CloseConn
  <2>1. open' = FALSE /\ UNCHANGED <<call, nextID, outcome, accepted, timedOut>>
    BY <1>6 DEF CloseConn
  <2> QED
    BY <1>i, <2>1 DEF ClientInv, ClientType, MutexOK, WireOK, CallsPaired, ReplyIsOwn,
                      SharedCallsSucceed
<1>7. CASE UNCHANGED clientVars
  <2>1. ClientType' /\ MutexOK' /\ CallsPaired'
    BY <1>i, <1>7
    DEF clientVars, ClientType, MutexOK, CallsPaired, ReplyIsOwn, SharedCallsSucceed
  <2>2. WireOK'
    BY <1>i, <1>7 DEF clientVars, WireOK, Silence, Exchange
  <2> QED BY <2>1, <2>2 DEF ClientInv
<1> QED
  BY <1>1, <1>2, <1>3, <1>4, <1>5, <1>6, <1>7 DEF ClientNext

\* A new connection is silent.
LEMMA ClientInitially == ClientInit => ClientInv
<1> SUFFICES ASSUME ClientInit PROVE ClientInv
  OBVIOUS
<1>1. ClientType
  <2>1. [stage |-> "idle", id |-> NoReplyId] \in CallType
    BY DEF CallType
  <2>2. call \in [Goroutines -> CallType]
    BY <2>1 DEF ClientInit
  <2>3. nextID \in 0 .. MaxCalls
    <3>1. nextID = 0 /\ MaxCalls \in Nat
      BY ClientAssumption DEF ClientInit
    <3> QED BY <3>1
  <2> QED BY <2>2, <2>3 DEF ClientInit, ClientType
<1> QED
  BY <1>1 DEF ClientInit, ClientInv, MutexOK, WireOK, Silence, CallsPaired, ReplyIsOwn,
              SharedCallsSucceed

\* Client.Call never returns another call's reply, however deadlines cut
\* requests and replies on the connection; and until one has passed, or qid has
\* closed the connection, no call of the goroutines that share it fails.
THEOREM RepliesPaired == ClientSpec => []CallsPaired
<1>1. ClientInv => CallsPaired
  BY DEF ClientInv
<1> QED
  BY <1>1, ClientInitially, ClientStep, PTL DEF ClientSpec

---------------------------------------------------------------------------
\* Two qid processes on one audit log

PA == INSTANCE ApprovalLifecycleProofs
        WITH mode <- modeA, items <- itemsA, history <- historyA,
             reserved <- reservedA, reservedBytes <- reservedBytesA,
             recordCount <- recordCountA, conn <- connA

PB == INSTANCE ApprovalLifecycleProofs
        WITH mode <- modeB, items <- itemsB, history <- historyB,
             reserved <- reservedB, reservedBytes <- reservedBytesB,
             recordCount <- recordCountB, conn <- connB

\* The approve records of the shared log pay for the runs that were begun and
\* for the one each process may still begin.
AllPaid ==
  \A id \in Ids :
    /\ PA!Approvals(id) \in Nat /\ runs[id] \in Nat
    /\ runs[id] + PA!Owed(id) + PB!Owed(id) <= PA!Approvals(id)

OverlapInv == PA!FileWhole /\ PA!MemoryOK /\ PB!MemoryOK /\ AllPaid

\* What a process owes is a number.
LEMMA OwedType ==
  ASSUME NEW id
  PROVE  PA!Owed(id) \in {0, 1} /\ PB!Owed(id) \in {0, 1}
  BY DEF PA!Owed, PB!Owed

\* Both processes read the same file.
LEMMA OneFile ==
  /\ PA!FileWhole <=> PB!FileWhole
  /\ \A id \in Ids : PA!Approvals(id) = PB!Approvals(id)
<1>1. PA!FileWhole <=> PB!FileWhole
  BY Zenon DEF PA!FileWhole, PB!FileWhole, PA!Lines, PB!Lines, PA!Events, PB!Events,
               PA!NoTail, PB!NoTail
<1>2. \A id \in Ids : PA!Approvals(id) = PB!Approvals(id)
  BY Zenon DEF PA!Approvals, PB!Approvals, PA!ApproveRecords, PB!ApproveRecords,
               PA!Replayed, PB!Replayed, PA!Record, PB!Record,
               PA!Cardinality, PB!Cardinality
<1> QED
  BY <1>1, <1>2

\* A step of the first process, as its own proofs know it.
LEMMA StepOfA ==
  ASSUME "write" \notin Faults, OverlapInv, A!Work
  PROVE  PA!FileWhole' /\ PA!MemoryOK' /\ PA!Pays
<1>1. PA!Work
  BY Zenon DEF A!Work, A!Handle, A!Receive, A!ToolsCallDirect, A!ToolsCallConfirm,
    A!ApprovalApprove, A!ApprovalDeny, A!RejectTransition, A!Execute, A!RecordResult,
    A!Shutdown, A!Stop, A!Crash, A!Start, A!Die, A!OpenAuditAccepts, A!OpenAudit,
    A!Restore, A!RestoredItem, A!RestoredHistory, A!Enqueued, A!Latest, A!OutcomeStatus,
    A!Replayed, A!Fresh, A!Enqueue, A!Approve, A!Deny, A!Recordable, A!TerminalBody,
    A!AuditAppend, A!Fits, A!WriteLine, A!WritePart, A!Account, A!Record, A!Junk,
    A!NoTail, A!Idle, A!Request, A!Callers, A!Tools, A!Decide, A!disk, A!audit, A!queue,
    A!ghost, A!Cardinality, PA!Work, PA!Handle, PA!Receive, PA!ToolsCallDirect,
    PA!ToolsCallConfirm, PA!ApprovalApprove, PA!ApprovalDeny, PA!RejectTransition,
    PA!Execute, PA!RecordResult, PA!Shutdown, PA!Stop, PA!Crash, PA!Start, PA!Die,
    PA!OpenAuditAccepts, PA!OpenAudit, PA!Restore, PA!RestoredItem, PA!RestoredHistory,
    PA!Enqueued, PA!Latest, PA!OutcomeStatus, PA!Replayed, PA!Fresh, PA!Enqueue,
    PA!Approve, PA!Deny, PA!Recordable, PA!TerminalBody, PA!AuditAppend, PA!Fits,
    PA!WriteLine, PA!WritePart, PA!Account, PA!Record, PA!Junk, PA!NoTail, PA!Idle,
    PA!Request, PA!Callers, PA!Tools, PA!Decide, PA!disk, PA!audit, PA!queue, PA!ghost,
    PA!Cardinality
<1>2. PA!IsFiniteSet(Ids)
  BY OverlapAssumption DEF IsFiniteSet, PA!IsFiniteSet
<1> QED
  BY <1>1, <1>2, PA!WorkPays, OverlapAssumption DEF OverlapInv

\* A step of the second.
LEMMA StepOfB ==
  ASSUME "write" \notin Faults, OverlapInv, B!Work
  PROVE  PB!FileWhole' /\ PB!MemoryOK' /\ PB!Pays
<1>1. PB!Work
  BY Zenon DEF B!Work, B!Handle, B!Receive, B!ToolsCallDirect, B!ToolsCallConfirm,
    B!ApprovalApprove, B!ApprovalDeny, B!RejectTransition, B!Execute, B!RecordResult,
    B!Shutdown, B!Stop, B!Crash, B!Start, B!Die, B!OpenAuditAccepts, B!OpenAudit,
    B!Restore, B!RestoredItem, B!RestoredHistory, B!Enqueued, B!Latest, B!OutcomeStatus,
    B!Replayed, B!Fresh, B!Enqueue, B!Approve, B!Deny, B!Recordable, B!TerminalBody,
    B!AuditAppend, B!Fits, B!WriteLine, B!WritePart, B!Account, B!Record, B!Junk,
    B!NoTail, B!Idle, B!Request, B!Callers, B!Tools, B!Decide, B!disk, B!audit, B!queue,
    B!ghost, B!Cardinality, PB!Work, PB!Handle, PB!Receive, PB!ToolsCallDirect,
    PB!ToolsCallConfirm, PB!ApprovalApprove, PB!ApprovalDeny, PB!RejectTransition,
    PB!Execute, PB!RecordResult, PB!Shutdown, PB!Stop, PB!Crash, PB!Start, PB!Die,
    PB!OpenAuditAccepts, PB!OpenAudit, PB!Restore, PB!RestoredItem, PB!RestoredHistory,
    PB!Enqueued, PB!Latest, PB!OutcomeStatus, PB!Replayed, PB!Fresh, PB!Enqueue,
    PB!Approve, PB!Deny, PB!Recordable, PB!TerminalBody, PB!AuditAppend, PB!Fits,
    PB!WriteLine, PB!WritePart, PB!Account, PB!Record, PB!Junk, PB!NoTail, PB!Idle,
    PB!Request, PB!Callers, PB!Tools, PB!Decide, PB!disk, PB!audit, PB!queue, PB!ghost,
    PB!Cardinality
<1>2. PB!IsFiniteSet(Ids)
  BY OverlapAssumption DEF IsFiniteSet, PB!IsFiniteSet
<1>3. PB!FileWhole
  BY OneFile DEF OverlapInv
<1> QED
  BY <1>1, <1>2, <1>3, PB!WorkPays, OverlapAssumption DEF OverlapInv

\* What the process that does not move keeps.
LEMMA Bystander ==
  /\ UNCHANGED memoryA => (PA!MemoryOK => PA!MemoryOK') /\ \A id : PA!Owed(id)' = PA!Owed(id)
  /\ UNCHANGED memoryB => (PB!MemoryOK => PB!MemoryOK') /\ \A id : PB!Owed(id)' = PB!Owed(id)
<1>1. UNCHANGED memoryA => (PA!MemoryOK => PA!MemoryOK') /\ \A id : PA!Owed(id)' = PA!Owed(id)
  BY DEF memoryA, PA!MemoryOK, PA!QueueOK, PA!ConnOK, PA!HandlerOK, PA!HoldersOK, PA!DownOK,
         PA!Owed
<1>2. UNCHANGED memoryB => (PB!MemoryOK => PB!MemoryOK') /\ \A id : PB!Owed(id)' = PB!Owed(id)
  BY DEF memoryB, PB!MemoryOK, PB!QueueOK, PB!ConnOK, PB!HandlerOK, PB!HoldersOK, PB!DownOK,
         PB!Owed
<1> QED
  BY <1>1, <1>2

\* The invariant of the pair: each process pays for its own runs.
LEMMA OverlapStep ==
  ASSUME "write" \notin Faults, OverlapInv, [OverlapNext]_allVars
  PROVE  OverlapInv'
<1>1. CASE StepA
  <2>1. A!Work /\ UNCHANGED memoryB
    BY <1>1 DEF StepA
  <2>2. PA!FileWhole' /\ PA!MemoryOK' /\ PA!Pays
    BY <2>1, StepOfA
  <2>3. PB!MemoryOK' /\ \A id : PB!Owed(id)' = PB!Owed(id)
    BY <2>1, Bystander DEF OverlapInv
  <2>4. ASSUME NEW id \in Ids
        PROVE  /\ PA!Approvals(id)' \in Nat /\ runs'[id] \in Nat
               /\ runs'[id] + PA!Owed(id)' + PB!Owed(id)' <= PA!Approvals(id)'
    <3>1. /\ PA!Approvals(id) \in Nat /\ PA!Approvals(id)' \in Nat
          /\ runs[id] \in Nat /\ runs'[id] \in Nat
          /\ runs'[id] + PA!Owed(id)' + PA!Approvals(id)
               <= runs[id] + PA!Owed(id) + PA!Approvals(id)'
      BY <2>2 DEF PA!Pays
    <3>2. runs[id] + PA!Owed(id) + PB!Owed(id) <= PA!Approvals(id)
      BY DEF OverlapInv, AllPaid
    <3>3. PA!Owed(id) \in {0, 1} /\ PB!Owed(id) \in {0, 1} /\ PA!Owed(id)' \in {0, 1}
      BY OwedType DEF PA!Owed
    <3> QED BY <2>3, <3>1, <3>2, <3>3
  <2> QED BY <2>2, <2>3, <2>4 DEF OverlapInv, AllPaid
<1>2. CASE StepB
  <2>1. B!Work /\ UNCHANGED memoryA
    BY <1>2 DEF StepB
  <2>2. PB!FileWhole' /\ PB!MemoryOK' /\ PB!Pays
    BY <2>1, StepOfB
  <2>3. PA!MemoryOK' /\ \A id : PA!Owed(id)' = PA!Owed(id)
    BY <2>1, Bystander DEF OverlapInv
  <2>4. PA!FileWhole' /\ \A id \in Ids : PA!Approvals(id)' = PB!Approvals(id)'
    <3>1. (PA!FileWhole <=> PB!FileWhole)'
      BY Zenon DEF PA!FileWhole, PB!FileWhole, PA!Lines, PB!Lines, PA!Events, PB!Events,
                   PA!NoTail, PB!NoTail
    <3>2. \A id \in Ids : PA!Approvals(id)' = PB!Approvals(id)'
      BY Zenon DEF PA!Approvals, PB!Approvals, PA!ApproveRecords, PB!ApproveRecords,
                   PA!Replayed, PB!Replayed, PA!Record, PB!Record,
                   PA!Cardinality, PB!Cardinality
    <3> QED BY <2>2, <3>1, <3>2
  <2>5. ASSUME NEW id \in Ids
        PROVE  /\ PA!Approvals(id)' \in Nat /\ runs'[id] \in Nat
               /\ runs'[id] + PA!Owed(id)' + PB!Owed(id)' <= PA!Approvals(id)'
    <3>1. /\ PB!Approvals(id) \in Nat /\ PB!Approvals(id)' \in Nat
          /\ runs[id] \in Nat /\ runs'[id] \in Nat
          /\ runs'[id] + PB!Owed(id)' + PB!Approvals(id)
               <= runs[id] + PB!Owed(id) + PB!Approvals(id)'
      BY <2>2 DEF PB!Pays
    <3>2. runs[id] + PA!Owed(id) + PB!Owed(id) <= PA!Approvals(id)
      BY DEF OverlapInv, AllPaid
    <3>3. PA!Owed(id) \in {0, 1} /\ PB!Owed(id) \in {0, 1} /\ PB!Owed(id)' \in {0, 1}
      BY OwedType DEF PB!Owed
    <3>4. PA!Approvals(id) = PB!Approvals(id) /\ PA!Approvals(id)' = PB!Approvals(id)'
      BY <2>4, OneFile
    <3> QED BY <2>3, <3>1, <3>2, <3>3, <3>4
  <2> QED BY <2>2, <2>3, <2>4, <2>5 DEF OverlapInv, AllPaid
<1>3. CASE UNCHANGED allVars
  <2>1. UNCHANGED <<log, tail, runs, bypassed>> /\ UNCHANGED memoryA /\ UNCHANGED memoryB
    BY <1>3 DEF allVars
  <2>2. PA!FileWhole' /\ \A id \in Ids : PA!Approvals(id)' = PA!Approvals(id)
    BY <2>1 DEF OverlapInv, PA!FileWhole, PA!Approvals, PA!ApproveRecords, PA!Replayed
  <2> QED BY <2>1, <2>2, Bystander DEF OverlapInv, AllPaid
<1> QED
  BY <1>1, <1>2, <1>3 DEF OverlapNext

\* No log, nobody running, nothing owed.
LEMMA OverlapInitially ==
  ASSUME OverlapInit
  PROVE  OverlapInv
<1>1. /\ log = <<>> /\ tail = PA!NoTail
      /\ runs = [id \in Ids |-> 0] /\ bypassed = {}
      /\ itemsA = [id \in Ids |-> "none"] /\ historyA = [id \in Ids |-> "none"]
      /\ itemsB = [id \in Ids |-> "none"] /\ historyB = [id \in Ids |-> "none"]
      /\ connA = [c \in Conns |-> PA!Idle] /\ connB = [c \in Conns |-> PB!Idle]
  BY DEF OverlapInit, A!Init, B!Init, A!NoTail, PA!NoTail, A!Idle, PA!Idle, B!Idle, PB!Idle
<1>2. log \in PA!Lines /\ Len(log) = 0
  BY <1>1 DEF PA!Lines
<1>3. PA!FileWhole
  BY <1>1, <1>2 DEF PA!FileWhole
<1>4. \A c \in Conns : connA[c].pc = "idle" /\ connB[c].pc = "idle"
  BY <1>1 DEF PA!Idle, PB!Idle
<1>5. PA!MemoryOK
  BY <1>1, <1>4 DEF PA!MemoryOK, PA!QueueOK, PA!ConnOK, PA!HandlerOK, PA!HoldersOK, PA!DownOK,
                    PA!Idle
<1>6. PB!MemoryOK
  BY <1>1, <1>4 DEF PB!MemoryOK, PB!QueueOK, PB!ConnOK, PB!HandlerOK, PB!HoldersOK, PB!DownOK,
                    PB!Idle
<1>7. ASSUME NEW id \in Ids PROVE PA!Approvals(id) = 0 /\ PA!Owed(id) = 0 /\ PB!Owed(id) = 0
  <2>1. PA!ApproveRecords(PA!Replayed, id) = {}
    BY <1>1, <1>2 DEF PA!ApproveRecords, PA!Replayed, PA!NoTail
  <2>2. PA!Cardinality({}) = Cardinality({})
    BY Zenon DEF PA!Cardinality, Cardinality
  <2>3. PA!Approvals(id) = 0
    BY <2>1, <2>2, FS_EmptySet DEF PA!Approvals
  <2> QED BY <1>4, <2>3 DEF PA!Owed, PB!Owed
<1> QED
  BY <1>1, <1>3, <1>5, <1>6, <1>7 DEF OverlapInv, AllPaid

\* Two qid processes on one log, one draining while its successor serves, or
\* any other overlap of their steps: no tool runs more often than the log holds
\* approve records for its entry, and no mutating call skips the queue.  It
\* needs whole lines: a Write that is cut short glues the next record to its
\* torn line.
THEOREM OverlapRunsNeedApproval ==
  ASSUME "write" \notin Faults
  PROVE  OverlapSpec => []OverlapRunsAreApproved
<1>1. OverlapInit => OverlapInv
  BY OverlapInitially
<1>2. OverlapInv /\ [OverlapNext]_allVars => OverlapInv'
  BY OverlapStep
<1>3. OverlapInv => OverlapRunsAreApproved
  <2> SUFFICES ASSUME OverlapInv PROVE OverlapRunsAreApproved
    OBVIOUS
  <2>1. bypassed = {}
    BY DEF OverlapInv, PA!FileWhole
  <2>2. \A id \in Ids : runs[id] <= PA!Approvals(id)
    <3>1. \A id \in Ids : PA!Owed(id) \in {0, 1} /\ PB!Owed(id) \in {0, 1}
      BY OwedType
    <3> QED BY <3>1 DEF OverlapInv, AllPaid
  <2>3. \A id \in Ids : PA!Approvals(id) = A!Approvals(id)
    BY Zenon DEF PA!Approvals, A!Approvals, PA!ApproveRecords, A!ApproveRecords, PA!Replayed,
                 A!Replayed, PA!Record, A!Record, PA!Cardinality, A!Cardinality
  <2> QED BY <2>1, <2>2, <2>3 DEF OverlapRunsAreApproved, A!RunsAreApproved
<1> QED
  BY <1>1, <1>2, <1>3, PTL DEF OverlapSpec
=============================================================================
