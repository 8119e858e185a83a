------------------------------- MODULE MCGate -------------------------------
(* What qi does on somebody's word, in two scenarios, chosen once, that share *)
(* no state: "approval" is the approval gate with two ids, two connections,   *)
(* records of a few bytes and a log that fills up; "voice" the voice loop     *)
(* with two panes in two workspaces, three Claude agents, one of them without *)
(* a session id, and a Codex agent.                                           *)
EXTENDS ApprovalQueue, VoiceAgents, TLC

CONSTANTS c1, c2, c3, x1

VARIABLE scenario

MCWorkspace == [p \in Panes |-> IF p = 1 THEN "qi" ELSE "web"]
MCKind == (c1 :> "claude" @@ c2 :> "claude" @@ c3 :> "claude" @@ x1 :> "codex")
MCSession == (c1 :> "s1" @@ c2 :> "s2" @@ c3 :> "" @@ x1 :> "sx")

Said(k, w, here, f, s) ==
  [kind |-> k, workspace |-> w, thisWorkspace |-> here, focused |-> f, state |-> s]
MCTargets ==
  {Said("claude", "", FALSE, FALSE, ""), Said("", "", FALSE, TRUE, ""),
   Said("claude", "web", FALSE, FALSE, ""), Said("codex", "", TRUE, FALSE, ""),
   Said("claude", "", FALSE, FALSE, "idle")}

allVars == <<vars, voiceVars, scenario>>

\* Which Claude is in the first pane does not matter, so it is c1.
MCInit ==
  /\ Init /\ VoiceInit
  /\ \/ scenario = "voice" /\ occupant[1] = c1
     \/ /\ scenario = "approval"
        /\ occupant = [p \in Panes |-> NoAgent] /\ focus = 1 /\ ~dryRun

Gate(step) == scenario = "approval" /\ step /\ UNCHANGED <<voiceVars, scenario>>
Voice(step) == scenario = "voice" /\ step /\ UNCHANGED <<vars, scenario>>

\* A conversation may be over; the gate never is.
Over == Voice(UNCHANGED voiceVars)

\* The fairness of ApprovalQueue and of VoiceAgents.
MCSpec ==
  /\ MCInit /\ [][Gate(Next) \/ Voice(VoiceNext) \/ Over]_allVars
  /\ \A c \in Conns : WF_vars(Gate(Handle(c)))
  /\ WF_vars(Gate(Stop))
  /\ WF_voiceVars(Voice(Turn))
=============================================================================
