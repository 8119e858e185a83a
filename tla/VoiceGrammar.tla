---------------------------- MODULE VoiceGrammar ----------------------------
(***************************************************************************)
(* Parse of internal/voice/intent.go: the hand-written grammar that turns  *)
(* an utterance into an intent.  An utterance is its sequence of lowercase *)
(* words; punctuation, casing, the splitting of a hyphenated first word    *)
(* and spellings that stand for the same word are left out.  The state     *)
(* machine speaks an utterance word by word, so every prefix is parsed.    *)
(***************************************************************************)
EXTENDS Integers, Sequences, FiniteSets

CONSTANT Continuations  \* opening word -> words that may follow and the length bound

NoWord == ""
Words == STRING \ {NoWord}

ASSUME GrammarAssumption ==
  /\ \A word \in DOMAIN Continuations : word \in Words
  /\ \A word \in DOMAIN Continuations : \A next \in Continuations[word].words : next \in Words

VARIABLE utterance

WakeWords == {"hey", "ok", "please", "qi"}
InstructVerbs == {"tell", "ask", "have"}
Articles == {"the"}
StateWords == {"idle", "working", "blocked", "done"}
OrdinalWords == {"first", "second", "one"}
OrdinalOf(word) == IF word = "second" THEN 2 ELSE 1
QuitPhrases == {<<"quit">>, <<"never", "mind">>}
StatusPhrases == {<<"status">>, <<"list", "agents">>}
Fillers == {"currently", "now", "please"}
PaneLabels == {"5-3"}
Separators == {"to", "that"}

NoTarget == [kind |-> NoWord, workspace |-> <<>>, name |-> NoWord, thisWorkspace |-> FALSE,
             focused |-> FALSE, ordinal |-> 0, pane |-> NoWord, state |-> NoWord]
Unknown == [intent |-> "unknown", target |-> NoTarget, from |-> 0]

---------------------------------------------------------------------------
(* Words of w at position i; none past the end                             *)

At(w, i) == IF i \in 1 .. Len(w) THEN w[i] ELSE NoWord
HasPrefix(w, i, phrase) == \A k \in 1 .. Len(phrase) : At(w, i + k - 1) = phrase[k]
From(w, i) == SubSeq(w, i, Len(w))
FirstIn(S) == IF S = {} THEN 0 ELSE CHOOSE i \in S : \A j \in S : i <= j
TrimLeading(w, word) == IF At(w, 1) = word THEN Tail(w) ELSE w

\* The words that are not fillers, in their order.
Canonicalize(w) ==
  LET kept == {i \in 1 .. Len(w) : w[i] \notin Fillers}
  IN  [n \in 1 .. Cardinality(kept) |->
         w[CHOOSE i \in kept : Cardinality({j \in kept : j <= i}) = n]]

DropWakeWords(w) ==
  From(w, FirstIn({i \in 1 .. Len(w) + 1 : At(w, i) \notin WakeWords}))

\* The number of words of the kind named at i, 0 if none is.
MatchKind(w, i) ==
  IF HasPrefix(w, i, <<"claude", "code">>) THEN 2
  ELSE IF At(w, i) \in {"claude", "codex"} THEN 1 ELSE 0

\* "[that is | that's] [currently | now] <state>": the state and the words taken.
StateAfter(w, i, n) ==
  LET a == IF At(w, i + n) \in {"currently", "now"} THEN n + 1 ELSE n
  IN  IF At(w, i + a) \in StateWords
      THEN [state |-> At(w, i + a), n |-> a + 1] ELSE [state |-> NoWord, n |-> 0]

MatchStateQualifier(w, i) ==
  StateAfter(w, i, IF HasPrefix(w, i, <<"that", "is">>) THEN 2
                   ELSE IF At(w, i) = "that's" THEN 1 ELSE 0)

MatchLookingAt(w, i) ==
  IF HasPrefix(w, i, <<"i'm", "looking", "at">>) THEN 3
  ELSE IF HasPrefix(w, i, <<"i", "am", "looking", "at">>) THEN 4 ELSE 0

NoWorkspace == [label |-> <<>>, this |-> FALSE, n |-> 0]

\* The word "workspace" that ends a label of at most two words at j, 0 if none does.
WorkspaceKeyword(w, j) == FirstIn({k \in j .. j + 2 : At(w, k) = "workspace"})

\* Mutant of MatchLabel: the label ends a word too early.
MatchLabelShort(w, i, j, keyword) ==
  IF keyword > j
  THEN [label |-> SubSeq(w, j, keyword - 2), this |-> FALSE, n |-> keyword + 1 - i]
  ELSE NoWorkspace

EndsLabel(word) == word \in Separators \cup {NoWord}

\* A workspace clause from i whose label starts at j: the shapes in their order.
MatchLabel(w, i, j, keyword) ==
  IF j > Len(w) THEN NoWorkspace
  ELSE IF HasPrefix(w, j, <<"this", "workspace">>)
  THEN [label |-> <<>>, this |-> TRUE, n |-> j + 2 - i]
  ELSE IF At(w, j) = "workspace" /\ ~EndsLabel(At(w, j + 1)) /\ EndsLabel(At(w, j + 2))
  THEN [label |-> <<w[j + 1]>>, this |-> FALSE, n |-> j + 2 - i]
  ELSE IF keyword > j
  THEN [label |-> SubSeq(w, j, keyword - 1), this |-> FALSE, n |-> keyword + 1 - i]
  ELSE IF keyword # j /\ At(w, j) # "to" /\ EndsLabel(At(w, j + 1))
  THEN [label |-> <<w[j]>>, this |-> FALSE, n |-> j + 1 - i]
  ELSE NoWorkspace

\* The workspace clause that starts with the "in" at i: its label, and the words
\* it takes, 0 if "in" belongs to the instruction.
MatchWorkspace(w, i) ==
  LET j == IF At(w, i + 1) = "the" THEN i + 2 ELSE i + 1
  IN  MatchLabel(w, i, j, WorkspaceKeyword(w, j))

---------------------------------------------------------------------------
(* parseTarget: the target phrase at i, the position after it, and whether *)
(* it names an agent at all                                                *)

NotATarget == [target |-> NoTarget, next |-> 0, ok |-> FALSE]

FocusPhrases == {<<"focused", "agent">>, <<"current", "agent">>,
                 <<"agent", "in", "front", "of", "me">>}

\* [state] kind [agent [named x]]: the kind, of kn words, is at k.
AgentPhrase(w, k, kn, state) ==
  LET a == k + kn
      agent == At(w, a) = "agent"
      named == agent /\ At(w, a + 1) \in {"named", "called"} /\ At(w, a + 2) # NoWord
  IN  [target |-> [NoTarget EXCEPT !.kind = IF kn > 0 THEN w[k] ELSE NoWord, !.state = state,
                                   !.name = IF named THEN w[a + 2] ELSE NoWord],
       next |-> IF named THEN a + 3 ELSE IF agent THEN a + 1 ELSE a,
       ok |-> kn > 0 \/ agent]

\* The state qualifier after an agent p, which overrides the state before it.
WithState(p, q) ==
  IF p.ok /\ q.n > 0
  THEN [target |-> [p.target EXCEPT !.state = q.state], next |-> p.next + q.n, ok |-> TRUE]
  ELSE p

\* "I'm looking at", n words, after p.
WithLook(p, n) ==
  [target |-> [p.target EXCEPT !.focused = n > 0], next |-> p.next + n, ok |-> p.ok \/ n > 0]

Qualified(w, p) == WithState(p, MatchStateQualifier(w, p.next))
LookedAt(w, p) == WithLook(p, MatchLookingAt(w, p.next))

NamedAgent(w, i) ==
  LET stateFirst == At(w, i) \in StateWords /\ MatchKind(w, i + 1) > 0
      k == IF stateFirst THEN i + 1 ELSE i
  IN  LookedAt(w, Qualified(w, AgentPhrase(w, k, MatchKind(w, k),
                                           IF stateFirst THEN w[i] ELSE NoWord)))

\* The optional workspace clause ws after the agent; "and" is "in" misheard, and
\* is taken only when the clause says "workspace".
WithWorkspace(w, p, ws) ==
  LET explicit == ws.this \/ At(w, p.next + ws.n - 1) = "workspace" IN
  IF ~p.ok THEN NotATarget
  ELSE IF At(w, p.next) = "here"
  THEN [target |-> [p.target EXCEPT !.thisWorkspace = TRUE], next |-> p.next + 1, ok |-> TRUE]
  ELSE IF ws.n > 0 /\ (At(w, p.next) = "in" \/ (At(w, p.next) = "and" /\ explicit))
  THEN [target |-> [p.target EXCEPT !.workspace = ws.label, !.thisWorkspace = ws.this],
        next |-> p.next + ws.n, ok |-> TRUE]
  ELSE p

LocatedAgent(w, p) == WithWorkspace(w, p, MatchWorkspace(w, p.next))

\* The phrase at j, after the article.
DescribedAgent(w, j) ==
  LET focusPhrase == {f \in FocusPhrases : HasPrefix(w, j, f)}
  IN  IF focusPhrase # {}
      THEN [target |-> [NoTarget EXCEPT !.focused = TRUE],
            next |-> j + Len(CHOOSE f \in focusPhrase : TRUE), ok |-> TRUE]
      ELSE NamedAgent(w, j)

ParseTarget(w, i) ==
  LET j == IF At(w, i) \in Articles THEN i + 1 ELSE i IN
  IF HasPrefix(w, i, <<"this", "agent">>)
  THEN [target |-> [NoTarget EXCEPT !.focused = TRUE], next |-> i + 2, ok |-> TRUE]
  ELSE IF j > Len(w) THEN NotATarget
  ELSE LocatedAgent(w, DescribedAgent(w, j))

\* Mutant of NamesAnotherAgent: only a conjunction gives a second agent away.
NamesAnotherAgentConj(w, i) == At(w, i) \in {"and", "plus", "then", "or"}

\* A second addressee before the word that introduces the instruction.
NamesAnotherAgent(w, i) ==
  \/ At(w, i) \in {"and", "plus", "then", "or"}
  \/ \E j \in i .. Len(w) : /\ \A k \in i .. j : w[k] \notin Separators
                            /\ MatchKind(w, j) > 0

---------------------------------------------------------------------------
(* parseClarification: answers to "which one do you mean?"                 *)

MatchPanePhrase(w) ==
  LET c == TrimLeading(IF HasPrefix(w, 1, <<"one", "in">>) THEN From(w, 3)
                       ELSE TrimLeading(w, "in"), "the")
  IN  IF Len(c) = 2 /\ c[1] = "pane" /\ c[2] \in PaneLabels THEN c[2] ELSE NoWord

\* "in [the] <label...> [workspace]", to the end of the answer; the label is at j.
MatchLabelAnswer(w, i, j) ==
  LET end == IF w[Len(w)] = "workspace" THEN Len(w) - 1 ELSE Len(w)
  IN  IF HasPrefix(w, j, <<"this", "workspace">>)
      THEN [label |-> <<>>, this |-> TRUE, n |-> j + 2 - i]
      ELSE IF end < j THEN NoWorkspace
      ELSE [label |-> SubSeq(w, j, end), this |-> FALSE, n |-> Len(w) + 1 - i]

MatchWorkspaceAnswer(w, i) ==
  MatchLabelAnswer(w, i, IF At(w, i + 1) = "the" THEN i + 2 ELSE i + 1)

\* The answer that is the clause ws at i, to the end of c.
InWorkspaceClause(c, i, ws) ==
  IF At(c, i) = "in" /\ ws.n > 0 /\ i + ws.n = Len(c) + 1
  THEN {[NoTarget EXCEPT !.workspace = ws.label, !.thisWorkspace = ws.this]} ELSE {}

InWorkspace(c, i) == InWorkspaceClause(c, i, MatchWorkspaceAnswer(c, i))

\* Mutant of ParseClarification: a label of any length before "one".
ParseClarificationAnyLength(w) ==
  LET c == TrimLeading(w, "the") IN
  IF Len(c) >= 2 /\ c[Len(c)] = "one"
  THEN {[NoTarget EXCEPT !.workspace = SubSeq(c, 1, Len(c) - 1)]} ELSE InWorkspace(c, 1)

\* The shapes of an answer c, tried in order; q is a state qualifier after its
\* first word, and located a workspace clause there.
AnswerShape(c, q, located) ==
  LET n == Len(c)
      short == n = 1 \/ (n = 2 /\ c[2] = "one")
  IN  IF c = <<>> THEN {}
      ELSE IF c[1] \in OrdinalWords /\ short
      THEN {[NoTarget EXCEPT !.ordinal = OrdinalOf(c[1])]}
      ELSE IF c[1] \in StateWords /\ short THEN {[NoTarget EXCEPT !.state = c[1]]}
      ELSE IF n >= 2 /\ c[1] = "one" /\ q.n > 0 /\ q.n + 1 = n
      THEN {[NoTarget EXCEPT !.state = q.state]}
      ELSE IF n >= 2 /\ c[1] = "one" /\ located # {} THEN located
      ELSE IF n \in 2 .. 4 /\ c[n] = "one" /\ c[1] \notin StateWords \cup OrdinalWords
      THEN {[NoTarget EXCEPT !.workspace = SubSeq(c, 1, n - 1)]}
      ELSE InWorkspace(c, 1)

Answer(c) == AnswerShape(c, MatchStateQualifier(c, 2), InWorkspace(c, 2))

\* The answer without its article.
PaneOrAnswer(c, pane) ==
  IF c = <<>> THEN {}
  ELSE IF pane # NoWord THEN {[NoTarget EXCEPT !.pane = pane]}
  ELSE Answer(TrimLeading(c, "number"))

PlainAnswer(c) == PaneOrAnswer(c, MatchPanePhrase(c))

\* The answer as a set: its target, or nothing if w is no answer.
ParseClarification(w) == PlainAnswer(TrimLeading(w, "the"))

---------------------------------------------------------------------------
\* The instruction to the target p after the verb; from is where it starts.
InstructionAt(w, p, from) ==
  IF w[1] \in InstructVerbs /\ p.ok /\ ~NamesAnotherAgent(w, p.next) /\ from > 0
  THEN [intent |-> "instruct", target |-> p.target, from |-> from] ELSE Unknown

Instruction(w, p) ==
  LET r == IF At(w, p.next) \in Separators THEN p.next + 1 ELSE p.next
  IN  InstructionAt(w, p, FirstIn({i \in r .. Len(w) : w[i] # "please"}))

\* Quit, status, an answer, or a verb, one addressee and an instruction.
Intent(w, canonical, answer) ==
  IF w = <<>> THEN Unknown
  ELSE IF canonical \in QuitPhrases THEN [Unknown EXCEPT !.intent = "quit"]
  ELSE IF canonical \in StatusPhrases THEN [Unknown EXCEPT !.intent = "status"]
  ELSE IF answer # {}
  THEN [intent |-> "clarify", target |-> CHOOSE t \in answer : TRUE, from |-> 0]
  ELSE Instruction(w, ParseTarget(w, 2))

ParseWords(w) == Intent(w, Canonicalize(w), ParseClarification(w))

Parse(said) == ParseWords(DropWakeWords(said))

---------------------------------------------------------------------------
GrammarInit == utterance = <<>>

Speak ==
  \E word \in IF utterance = <<>> THEN DOMAIN Continuations
              ELSE Continuations[utterance[1]].words :
    /\ utterance # <<>> => Len(utterance) < Continuations[utterance[1]].max
    /\ utterance' = Append(utterance, word)

GrammarSpec == GrammarInit /\ [][Speak]_utterance

---------------------------------------------------------------------------
\* Words of the grammar: they may be consumed without being relayed.
Keywords ==
  Articles \cup Separators \cup StateWords \cup Fillers
  \cup {"claude", "codex", "code", "agent", "in", "and", "here", "workspace", "this",
        "named", "called", "focused", "current", "front", "of", "me", "is", "that's",
        "i'm", "i", "am", "looking", "at"}

DropsNothing(w, p) ==
  p.intent = "instruct" =>
    \A i \in 2 .. p.from - 1 :
      w[i] \in Keywords \cup {p.target.name}
               \cup {p.target.workspace[k] : k \in 1 .. Len(p.target.workspace)}

\* What the user said is relayed or recorded: before the instruction, every word
\* that is not the grammar's own is the workspace label or the name of the
\* target, and the instruction is the rest of the utterance.
NothingDropped == DropsNothing(DropWakeWords(utterance), Parse(utterance))

KindsIn(s) == {i \in 1 .. Len(s) : MatchKind(s, i) > 0}

AddressesOne(w, p, body) ==
  p.intent = "instruct" =>
    /\ Cardinality(KindsIn(SubSeq(w, 1, p.from - 1)))
         <= 1 + Cardinality(KindsIn(p.target.workspace)) + Cardinality(KindsIn(<<p.target.name>>))
    /\ w[p.from - 1] \in Separators \cup {"please"}
         \/ \A i \in KindsIn(body) : \E k \in 1 .. i : body[k] \in Separators

Addressed(w, p) == AddressesOne(w, p, From(w, p.from))

\* qi addresses one agent per instruction (intent.go:242): outside a workspace
\* clause and the agent's own name no word before the instruction names another
\* kind than the one addressed, and none in it before its first separator does.
\* An instruction introduced by a separator or "please" may name any kind: "tell
\* Claude to ask Codex for the diff" is one instruction (intent.go:379-381).
OneAddressee == Addressed(DropWakeWords(utterance), Parse(utterance))

HeardAsSaid(w, p) ==
  /\ At(w, 1) \in InstructVerbs /\ At(w, 2) \in {"claude", "codex"} /\ At(w, 3) = "to"
  /\ \E i \in 4 .. Len(w) : w[i] # "please"
  /\ Len(w) > 4 \/ w[Len(w)] # "one"
  => /\ p.intent = "instruct" /\ p.target.kind = w[2]
     /\ p.from \in 4 .. Len(w) /\ w[p.from] # "please" /\ \A i \in 4 .. p.from - 1 : w[i] = "please"

\* "<verb> <kind> to ..." is heard as an instruction to that kind, which starts at
\* the first word that is not "please": no phrase of the other intents takes it.
\* The exception is four words that end in "one", which parseClarification reads
\* as a workspace label ("tell claude to one" answers a question instead).
InstructionHeard == HeardAsSaid(DropWakeWords(utterance), Parse(utterance))
=============================================================================
