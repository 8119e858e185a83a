---------------------------- MODULE VoiceAgents ----------------------------
(***************************************************************************)
(* The voice loop and the agents it talks to: HandleUtterance and its      *)
(* conversational memory (internal/voice/loop.go, context.go), Resolve     *)
(* (internal/service/agent_service.go) and herdr's panes                   *)
(* (internal/agentrt/herdr.go).  An agent is addressed by its pane; what   *)
(* runs in a pane, what it does and which pane has the focus change behind *)
(* the loop's back between any two of its calls.                           *)
(*                                                                         *)
(* Left out: names and working directories, which filter like kinds and    *)
(* workspaces; label folding; the wording of replies.  Workspaces do not   *)
(* change.                                                                 *)
(***************************************************************************)
EXTENDS Integers, Sequences, FiniteSets

CONSTANTS
  NPanes,       \* panes 1 .. NPanes, in the order List sorts agents
  PaneWorkspace,\* the workspace of each pane
  Here,         \* HERDR_WORKSPACE_ID of the loop
  Agents,       \* agent processes that may come to run in a pane
  NoAgent,
  None,         \* no conversation yet, no question open, nothing referred to
  AgentKind, SessionId,  \* functions on Agents; SessionId "" if herdr reports none
  Targets,      \* the targets utterances name
  MaxTurns,     \* bound: instructions spoken in a session
  MaxMoves      \* bound: changes of panes, agents' states and the focus

ASSUME VoiceAssumption ==
  /\ NPanes \in Nat \ {0} /\ MaxTurns \in Nat /\ MaxMoves \in Nat
  /\ NoAgent \notin Agents
  /\ DOMAIN PaneWorkspace = 1 .. NPanes
  /\ DOMAIN AgentKind = Agents /\ DOMAIN SessionId = Agents
  /\ \A a, b \in Agents : SessionId[a] = SessionId[b] /\ SessionId[a] # "" => a = b

Panes == 1 .. NPanes
Activities == {"idle", "working", "blocked"}
Workspaces == {PaneWorkspace[p] : p \in Panes}
Kinds == {AgentKind[a] : a \in Agents}

\* A Target as Parse builds it; "" and FALSE are what was not said.
Target == [kind : Kinds \cup {""}, workspace : Workspaces \cup {""},
           thisWorkspace : BOOLEAN, focused : BOOLEAN,
           state : Activities \cup {""}]

\* AgentInstance as a listing reports it; who is the process behind it, which
\* the code cannot see.
Instance == [pane : Panes, kind : Kinds, session : {SessionId[a] : a \in Agents},
             state : Activities, who : Agents]

VARIABLES
  occupant, activity, focus, moves,  \* herdr: pane -> agent and its state, the focus
  dryRun,                            \* Options.DryRun
  last,                              \* Context.LastAgent and LastInstruction
  pending,                           \* Context.Pending and PendingIntent
  turns,                             \* instructions heard so far: the last one's number
  stage, req,                        \* the call HandleUtterance is at, its locals
  sent,                              \* history: prompts that reached a pane
  withdrawn                          \* history: held instructions given up for a status

voiceVars == <<occupant, activity, focus, moves, dryRun, last, pending, turns,
               stage, req, sent, withdrawn>>
herdrVars == <<occupant, activity, focus, moves>>

\* The locals of a turn, before any is set: pane is the focused pane, later the
\* one waited for; how and listing say how the agent was found.
NoRequest == [turn |-> 0, target |-> None, pronoun |-> FALSE, pane |-> 0,
              agent |-> None, how |-> "", listing |-> {}, ref |-> None]

---------------------------------------------------------------------------
(* herdr, a separate program, as its commands show it                      *)

Running(p) == occupant[p] # NoAgent

\* ListAgents: one record per pane that hosts an agent.
ListAgents ==
  {[pane |-> p, kind |-> AgentKind[occupant[p]], session |-> SessionId[occupant[p]],
    state |-> activity[p], who |-> occupant[p]] : p \in {q \in Panes : Running(q)}}

\* An agent exits, or another one is started in its pane.
Move(p) ==
  /\ moves < MaxMoves
  /\ \E a \in (Agents \cup {NoAgent}) \ {occupant[p]} :
       /\ a = NoAgent \/ \A q \in Panes : occupant[q] # a
       /\ occupant' = [occupant EXCEPT ![p] = a]
       /\ \E s \in Activities :
            /\ a = NoAgent => s = "idle"
            /\ activity' = [activity EXCEPT ![p] = s]
  /\ moves' = moves + 1
  /\ UNCHANGED <<focus, dryRun, last, pending, turns, stage, req, sent, withdrawn>>

AgentWorks(p) ==
  /\ Running(p) /\ moves < MaxMoves
  /\ moves' = moves + 1
  /\ \E s \in Activities \ {activity[p]} : activity' = [activity EXCEPT ![p] = s]
  /\ UNCHANGED <<occupant, focus, dryRun, last, pending, turns, stage, req, sent, withdrawn>>

Look(p) ==
  /\ focus # p /\ moves < MaxMoves
  /\ moves' = moves + 1
  /\ focus' = p
  /\ UNCHANGED <<occupant, activity, dryRun, last, pending, turns, stage, req, sent, withdrawn>>

---------------------------------------------------------------------------
(* Resolving a target                                                      *)

IsConversational(t) ==
  t.kind # "" /\ t.workspace = "" /\ ~t.thisWorkspace /\ ~t.focused

\* Query, and the filter of Resolve that does not depend on the state.
MatchesQuery(a, t) ==
  /\ t.kind # "" => a.kind = t.kind
  /\ t.thisWorkspace => PaneWorkspace[a.pane] = Here
  /\ (t.workspace # "" /\ ~t.thisWorkspace) => PaneWorkspace[a.pane] = t.workspace

\* The state is a soft filter: it is dropped when it leaves nothing.
Candidates(agents, t, focusPane) ==
  LET named == {a \in agents : MatchesQuery(a, t) /\ (t.focused => a.pane = focusPane)}
      inState == {a \in named : a.state = t.state}
  IN  IF t.state = "" \/ inState = {} THEN named ELSE inState

\* Mutant of Preferred: the pane alone identifies the agent.
PreferredByPane(cands, t) ==
  {a \in cands : /\ last # None /\ IsConversational(t) /\ last.agent.kind = t.kind
                 /\ a.pane = last.agent.pane}

\* PreferID and PreferSessionID: a bare kind means the agent last addressed, if
\* it is among the candidates and is still the same session.
Preferred(cands, t) ==
  {a \in cands : /\ last # None /\ IsConversational(t) /\ last.agent.kind = t.kind
                 /\ a.pane = last.agent.pane
                 /\ last.agent.session = "" \/ a.session = last.agent.session}

\* Choose: the candidates a clarification answer picks out.
Ordinal(cands, n) == {a \in cands : Cardinality({b \in cands : b.pane <= a.pane}) = n}
Answered(cands, ans) ==
  CASE ans.by = "ordinal" -> Ordinal(cands, ans.n)
    [] ans.by = "pane" -> {a \in cands : a.pane = ans.n}
    [] ans.by = "workspace" -> {a \in cands : PaneWorkspace[a.pane] = ans.workspace}
    [] ans.by = "state" -> {a \in cands : a.state = ans.state}

Answers == [by : {"ordinal", "pane"}, n : Panes]
           \cup [by : {"workspace"}, workspace : Workspaces]
           \cup [by : {"state"}, state : Activities]

---------------------------------------------------------------------------
(* HandleUtterance                                                         *)

Return == stage' = "listening" /\ req' = NoRequest

\* A blank or unknown utterance is answered and changes nothing, so it has no
\* action; neither has an answer when no question is open.
HearQuit ==
  /\ stage = "listening"
  /\ stage' = "quit"
  /\ UNCHANGED <<herdrVars, dryRun, last, pending, turns, req, sent, withdrawn>>

\* Mutant of HearStatus: the question stays open.
HearStatusKeepsPending ==
  /\ stage = "listening" /\ pending # None
  /\ withdrawn' = withdrawn \cup {pending.turn}
  /\ UNCHANGED <<herdrVars, dryRun, last, pending, turns, stage, req, sent>>

\* dropPending comes before the listing, whose result is only spoken.
HearStatus ==
  /\ stage = "listening" /\ pending # None
  /\ pending' = None
  /\ withdrawn' = withdrawn \cup {pending.turn}
  /\ UNCHANGED <<herdrVars, dryRun, last, turns, stage, req, sent>>

HearInstruct ==
  /\ stage = "listening" /\ turns < MaxTurns
  /\ \E t \in Targets, pronoun \in BOOLEAN :
       /\ req' = [NoRequest EXCEPT !.turn = turns + 1, !.target = t, !.pronoun = pronoun]
       /\ stage' = IF t.focused THEN "focus" ELSE "list"
  /\ turns' = turns + 1
  /\ pending' = None
  /\ UNCHANGED <<herdrVars, dryRun, last, sent, withdrawn>>

\* A failing call of the runtime ends the turn with an apology.
RuntimeFails ==
  /\ stage \in {"focus", "list"}
  /\ Return
  /\ UNCHANGED <<herdrVars, dryRun, last, pending, turns, sent, withdrawn>>

\* rt.Focused: the focused pane, if it hosts an agent.
Focused ==
  /\ stage = "focus"
  /\ IF Running(focus)
     THEN stage' = "list" /\ req' = [req EXCEPT !.pane = focus]
     ELSE Return
  /\ UNCHANGED <<herdrVars, dryRun, last, pending, turns, sent, withdrawn>>

\* The addressee is settled: what send is called with, and how it was found.
Address(r, a, how, listing) ==
  /\ stage' = "announce"
  /\ req' = [NoRequest EXCEPT !.turn = r.turn, !.target = r.target,
                              !.pronoun = r.pronoun, !.agent = a, !.how = how,
                              !.listing = listing]

MustAsk(cands) == Cardinality(cands) > 1

\* List and the rest of Resolve: preferred, none, one, or a question.
Resolve ==
  /\ stage = "list"
  /\ LET cands == Candidates(ListAgents, req.target, req.pane)
         prefer == Preferred(cands, req.target)
     IN  \/ \E a \in prefer :
              Address(req, a, "preferred", cands) /\ UNCHANGED pending
         \/ /\ prefer = {} /\ cands = {}
            /\ Return /\ UNCHANGED pending
         \/ /\ prefer = {} /\ cands # {} /\ ~MustAsk(cands)
            /\ \E a \in cands : Address(req, a, "only", cands)
            /\ UNCHANGED pending
         \/ /\ prefer = {} /\ MustAsk(cands)
            /\ pending' = [turn |-> req.turn, target |-> req.target,
                           pronoun |-> req.pronoun, candidates |-> cands]
            /\ Return
  /\ UNCHANGED <<herdrVars, dryRun, last, turns, sent, withdrawn>>

\* clarify: the held instruction goes to the chosen candidate of the listing
\* the question was asked from.  An answer that does not pick exactly one
\* leaves the question open.
HearClarify ==
  /\ stage = "listening" /\ pending # None
  /\ \E ans \in Answers :
       LET chosen == Answered(pending.candidates, ans) IN
       /\ Cardinality(chosen) = 1
       /\ \E a \in chosen : Address(pending, a, "answered", pending.candidates)
  /\ pending' = None
  /\ UNCHANGED <<herdrVars, dryRun, last, turns, sent, withdrawn>>

Remember == last' = [agent |-> req.agent, instruction |-> req.turn]

\* send up to the announcement: the text is expanded with the conversation as
\* it is now; a dry run ends here; a speaker that fails ends the turn unsent.
Announce ==
  /\ stage = "announce"
  /\ \/ dryRun /\ Remember /\ Return
     \/ /\ ~dryRun /\ UNCHANGED last
        /\ \/ /\ stage' = "send"
              /\ req' = [req EXCEPT !.ref = IF req.pronoun THEN last ELSE None]
           \/ Return
  /\ UNCHANGED <<herdrVars, dryRun, pending, turns, sent, withdrawn>>

\* What reaches the pane: the turn, the kind of the agent that runs there by
\* now, whether that is another one than was listed, and what it refers to.
Prompt(acked) ==
  [turn |-> req.turn, kind |-> AgentKind[occupant[req.agent.pane]],
   other |-> occupant[req.agent.pane] # req.agent.who, acked |-> acked,
   ref |-> IF req.ref = None THEN None
           ELSE [instruction |-> req.ref.instruction, kind |-> req.ref.agent.kind]]

\* Instruct: herdr takes the prompt for whatever runs in the pane now; it may
\* still answer with an error, and refuses it when the pane is empty or blocked.
SendAccepted ==
  /\ stage = "send" /\ Running(req.agent.pane) /\ activity[req.agent.pane] # "blocked"
  /\ sent' = Append(sent, Prompt(TRUE))
  /\ Remember
  /\ stage' = "await" /\ req' = [NoRequest EXCEPT !.turn = req.turn, !.pane = req.agent.pane]
  /\ UNCHANGED <<herdrVars, dryRun, pending, turns, withdrawn>>

\* Mutant of SendFails: the conversation is updated before the call.
SendFailsRemembered ==
  /\ stage = "send"
  /\ UNCHANGED sent
  /\ Remember
  /\ Return
  /\ UNCHANGED <<herdrVars, dryRun, pending, turns, withdrawn>>

SendFails ==
  /\ stage = "send"
  /\ \/ UNCHANGED sent
     \/ /\ Running(req.agent.pane) /\ activity[req.agent.pane] # "blocked"
        /\ sent' = Append(sent, Prompt(FALSE))
  /\ Return
  /\ UNCHANGED <<herdrVars, dryRun, last, pending, turns, withdrawn>>

\* AwaitResult: the pane settles, or the deadline passes, or a call fails; in
\* each case the turn ends with a reply.
AwaitSettled ==
  /\ stage = "await" /\ activity[req.pane] # "working"
  /\ Return
  /\ UNCHANGED <<herdrVars, dryRun, last, pending, turns, sent, withdrawn>>

\* Mutant of AwaitTimeout: the deadline only fires on a settled agent.
AwaitTimeoutLate == AwaitSettled

AwaitTimeout ==
  /\ stage = "await"
  /\ Return
  /\ UNCHANGED <<herdrVars, dryRun, last, pending, turns, sent, withdrawn>>

---------------------------------------------------------------------------
VoiceInit ==
  /\ occupant \in {o \in [Panes -> Agents \cup {NoAgent}] :
                     \A p, q \in Panes : p # q /\ o[p] # NoAgent => o[p] # o[q]}
  /\ activity \in {s \in [Panes -> Activities] : \A p \in Panes : ~Running(p) => s[p] = "idle"}
  /\ focus \in Panes /\ moves = 0
  /\ dryRun \in BOOLEAN
  /\ last = None /\ pending = None /\ turns = 0
  /\ stage = "listening" /\ req = NoRequest
  /\ sent = <<>> /\ withdrawn = {}

\* The steps HandleUtterance takes by itself once an utterance was heard.
Turn == \/ RuntimeFails \/ Focused \/ Resolve \/ Announce
        \/ SendAccepted \/ SendFails \/ AwaitSettled \/ AwaitTimeout

Hear == HearQuit \/ HearStatus \/ HearInstruct \/ HearClarify

VoiceNext ==
  \/ \E p \in Panes : Move(p) \/ AgentWorks(p) \/ Look(p)
  \/ Hear
  \/ Turn

VoiceSpec == VoiceInit /\ [][VoiceNext]_voiceVars

\* "Under-specifying produces a question, never a pick" (context.go:133): a
\* prompt was addressed to an agent that matched the words when it was listed,
\* and if it was not the only one either the user chose it or it is the very
\* agent the conversation was with, unless that one reports no session.
NeverGuesses ==
  [][Len(sent') > Len(sent) =>
       /\ MatchesQuery(req.agent, req.target)
       /\ \/ req.how = "answered" /\ Cardinality(req.listing) > 1
          \/ req.listing = {req.agent}
          \/ last # None /\ (\/ last.agent.who = req.agent.who
                             \/ last.agent.session = "")]_voiceVars

\* An instruction reaches at most one pane, once, and never after the user has
\* moved on to another instruction or asked for the status instead of
\* answering (dropPending, Choose).
HeldInstructionOnce ==
  [][Len(sent') > Len(sent) =>
       LET t == sent'[Len(sent')].turn IN
       /\ t = turns /\ t \notin withdrawn
       /\ \A i \in 1 .. Len(sent) : sent[i].turn # t]_voiceVars

\* Expand quotes the last instruction herdr acknowledged, never one that failed,
\* was dropped or came earlier, and names the kind of the agent that got it,
\* unless another agent had taken over the pane since the listing.
RefersToLastSent ==
  \A i \in 1 .. Len(sent) :
    LET ref == sent[i].ref
        acked == {j \in 1 .. i - 1 : sent[j].acked}
    IN  ref # None =>
          \E j \in acked : /\ \A k \in acked : k <= j
                           /\ sent[j].turn = ref.instruction
                           /\ sent[j].other \/ sent[j].kind = ref.kind

\* HandleUtterance returns to the user, whatever the agents do and whether or
\* not the runtime reports their state: AwaitResult gives up at its deadline.
\* The agent list, the pane list and the prompt have none (herdr.go); that
\* those calls answer or fail is assumed by the fairness of Turn.
TurnEnds == stage \notin {"listening", "quit"} ~> stage = "listening"
=============================================================================
