------------------------------ MODULE MCDaemon ------------------------------
(* Three scenarios around the daemon, chosen once: "overlap" has two qid     *)
(* processes on one audit log, "control" the qi commands that start and stop *)
(* qid, "client" goroutines sharing a connection.  They share no state.      *)
EXTENDS DaemonOverlap, DaemonControl, DaemonClient

VARIABLE scenario

allDaemonVars == <<allVars, controlVars, clientVars, scenario>>

\* The two commands are interchangeable, so their operations come in one order.
MCOrder == [op \in {"start", "stop", "restart"} |->
              CASE op = "start" -> 1 [] op = "stop" -> 2 [] OTHER -> 3]

\* A scenario that is not chosen rests in one of its initial states.
MCInit ==
  /\ scenario \in {"overlap", "control", "client"}
  /\ OverlapInit /\ ClientInit /\ ControlInit
  /\ MCOrder[cmd[1].op] <= MCOrder[cmd[2].op]
  /\ scenario # "control" =>
       /\ qid[1] = "gone" /\ sockFile = NoFile
       /\ ~supervisor.supervised /\ ~supervisor.known
       /\ \A c \in Commands : cmd[c].op = "stop"

Rest(v) == UNCHANGED <<v, scenario>>

MCNext ==
  \/ scenario = "overlap" /\ OverlapNext /\ Rest(<<controlVars, clientVars>>)
  \/ scenario = "control" /\ ControlNext /\ Rest(<<allVars, clientVars>>)
  \/ scenario = "client" /\ ClientNext /\ Rest(<<allVars, controlVars>>)

\* A qid process is scheduled; a supervisor relaunches what it keeps alive.
Control(Step) == scenario = "control" /\ Step /\ Rest(<<allVars, clientVars>>)

MCSpec ==
  /\ MCInit /\ [][MCNext]_allDaemonVars
  /\ WF_controlVars(Control(Relaunch))
  /\ \A d \in Daemons : WF_controlVars(Control(Daemon(d)))
=============================================================================
