---------------------------- MODULE MCServices ----------------------------
(* The services and screens behind the commands, in scenarios chosen once    *)
(* that share no state: "edits" has processes and an editor on one task      *)
(* file, "recurrence" a recurring task, "due" the daily notifier, "triage"   *)
(* qi inbox and the skill on the same captures, "refine" and "screen" the    *)
(* classifier and the screen of qi inbox, "grammar" what a voice utterance   *)
(* is heard as.                                                              *)
EXTENDS TaskEdits, Recurrence, DueToday, InboxTriage, InboxRefine, TriageScreen,
        VoiceGrammar, TLC

CONSTANT MaxTriageUpsets  \* bound: failures, deaths and edits in a triage, together

VARIABLE scenario

\* Mid-month, 31 January, 28 February before a leap year, 29 February.
MCFirstDays == {14, 30, 423, 424}
MCGaps == {-2, 0}
MCOffsets == {-5, 0, 2}
MCDelays == {-1, 0, 40}

MCDaily ==
  [rule |-> [n |-> 1, unit |-> "day", whenDone |-> FALSE], due |-> 14, scheduled |-> NoDate,
   offset |-> 0, number |-> 1]

MCProposed == [i \in 1 .. NCards |-> IF i = 1 THEN "delete" ELSE "task"]

\* Two captures that repeat each other, that share a first line, or neither, and
\* the empty one.
MCBody(key, summary) == [key |-> key, summary |-> summary]
MCContents == {MCBody("a", "a"), MCBody("a b", "a"), MCBody("", "")}
MCNoContent == MCBody("", "")

\* Instructions by kind, state and workspace; instructions to the agent in
\* view; instructions to an agent with a name; answers; the two short intents.
MCContinuations ==
  ("tell" :> [words |-> {"claude", "codex", "the", "idle", "in", "qi", "workspace",
                         "and", "to", "that", "run", "one"}, max |-> 6]
   @@ "hey" :> [words |-> {"ask", "this", "the", "focused", "agent", "named", "i'm",
                           "looking", "at", "here", "run"}, max |-> 5]
   @@ "ask" :> [words |-> {"codex", "agent", "named", "claude", "please", "to", "run"}, max |-> 7]
   @@ "the" :> [words |-> {"one", "first", "idle", "in", "qi", "workspace", "pane",
                           "5-3", "that", "is", "number", "this"}, max |-> 5]
   @@ "status" :> [words |-> {"now"}, max |-> 2]
   @@ "quit" :> [words |-> {}, max |-> 1])

serviceVars == <<editVars, recurVars, dueVars, triageVars, refineVars, screenVars, utterance>>

\* A scenario that is not chosen rests in one of its initial states.  Captures are
\* interchangeable but for their order: the first can be read, and the longer one
\* is the first.
MCInit ==
  /\ scenario \in {"edits", "recurrence", "due", "triage", "refine", "screen", "grammar"}
  /\ ScreenInit /\ GrammarInit
  /\ EditsInit /\ (scenario # "edits" => newline)
  /\ RecurInit /\ (scenario # "recurrence" => recurring = MCDaily)
  /\ DueInit /\ (scenario # "due" => at = 0 /\ wall = 0)
  /\ InboxInit /\ 1 \notin unreadable /\ inbox[2] # MCBody("a b", "a")
  /\ scenario # "triage" =>
       notes = {} /\ unreadable = {} /\ inbox = [c \in Captures |-> MCNoContent]
  /\ RefineInit
  /\ scenario # "refine" => bodies = [i \in Items |-> "empty"] /\ limit = 0

Only(s, step, others) == scenario = s /\ step /\ UNCHANGED <<scenario, others>>

MCNext ==
  \/ Only("edits", EditsNext,
          <<recurVars, dueVars, triageVars, refineVars, screenVars, utterance>>)
  \/ Only("recurrence", RecurNext,
          <<editVars, dueVars, triageVars, refineVars, screenVars, utterance>>)
  \/ Only("due", DueNext,
          <<editVars, recurVars, triageVars, refineVars, screenVars, utterance>>)
  \/ Only("triage", InboxNext /\ faults' + edits' <= MaxTriageUpsets,
          <<editVars, recurVars, dueVars, refineVars, screenVars, utterance>>)
  \/ Only("refine", RefineNext,
          <<editVars, recurVars, dueVars, triageVars, screenVars, utterance>>)
  \/ Only("screen", ScreenNext,
          <<editVars, recurVars, dueVars, triageVars, refineVars, utterance>>)
  \/ Only("grammar", Speak,
          <<editVars, recurVars, dueVars, triageVars, refineVars, screenVars>>)

MCSpec == MCInit /\ [][MCNext]_<<serviceVars, scenario>>
=============================================================================
