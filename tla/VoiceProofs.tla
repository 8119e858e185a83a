---------------------------- MODULE VoiceProofs ----------------------------
(***************************************************************************)
(* Theorems about the voice loop, for any number of panes, agents,         *)
(* instructions and changes behind its back: whom an instruction goes to,  *)
(* how often, and what its pronouns refer to; and about the grammar, for   *)
(* every utterance of any words and length: what an instruction may lose,  *)
(* whom it is addressed to and whether it is heard.                        *)
(***************************************************************************)
EXTENDS VoiceAgents, VoiceGrammar, WellFoundedInduction, FiniteSetTheorems, SequenceTheorems,
        TLAPS

\* What a listing can report: kind and session are the ones of the process.
Seen == {a \in Instance : a.kind = AgentKind[a.who] /\ a.session = SessionId[a.who]}

Memory == [agent : Seen, instruction : Nat]
Question == [turn : Nat, target : Targets, pronoun : BOOLEAN, candidates : SUBSET Seen]
Quote == [instruction : Nat, kind : Kinds]
Prompts == [turn : Nat, kind : Kinds, other : BOOLEAN, acked : BOOLEAN,
            ref : Quote \cup {None}]
Request == [turn : Nat, target : Targets \cup {None}, pronoun : BOOLEAN, pane : Nat,
            agent : Seen \cup {None}, how : {"", "preferred", "only", "answered"},
            listing : SUBSET Seen, ref : Memory \cup {None}]
Addressing == {"announce", "send"}
Resolving == {"focus", "list"}

HerdrType ==
  /\ occupant \in [Panes -> Agents \cup {NoAgent}]
  /\ activity \in [Panes -> Activities]
  /\ focus \in Panes
  /\ moves \in Nat

LoopType ==
  /\ dryRun \in BOOLEAN /\ turns \in Nat /\ withdrawn \subseteq Nat
  /\ stage \in {"listening", "quit", "await"} \cup Resolving \cup Addressing
  /\ last \in Memory \cup {None}
  /\ pending \in Question \cup {None}
  /\ req \in Request
  /\ stage \in Resolving \cup Addressing => req.target \in Targets
  /\ stage \in Addressing => req.agent \in Seen
  /\ sent \in Seq(Prompts)

\* An instruction that has not reached a pane and that the user has not moved
\* on from.
Open(t) == t = turns /\ t \notin withdrawn /\ \A i \in 1 .. Len(sent) : sent[i].turn # t

\* The instruction being handled or held is the last one heard and still open;
\* while one is handled no other is held.
TurnOK ==
  /\ stage \in Resolving \cup Addressing => Open(req.turn) /\ pending = None
  /\ stage = "await" => pending = None
  /\ pending # None => Open(pending.turn)
  /\ \A i \in 1 .. Len(sent) : sent[i].turn <= turns
  /\ \A t \in withdrawn : t <= turns

\* A question is asked about several agents that all match the words.
PendingOK ==
  pending # None => /\ Cardinality(pending.candidates) > 1
                    /\ \A a \in pending.candidates : MatchesQuery(a, pending.target)

Same(a, b) == a.session = "" \/ a.who = b.who

\* The addressee was listed, matches the words, and was found in one of the
\* three ways Resolve and clarify have.
AddressOK ==
  stage \in Addressing =>
    /\ MatchesQuery(req.agent, req.target)
    /\ \/ req.how = "answered" /\ Cardinality(req.listing) > 1
       \/ req.listing = {req.agent}
       \/ last # None /\ Same(last.agent, req.agent)

\* Prompt j is the last one herdr acknowledged of the first n, and m remembers it.
LastAcked(m, j, n) ==
  /\ j \in 1 .. n /\ sent[j].acked
  /\ \A k \in 1 .. n : sent[k].acked => k <= j
  /\ sent[j].turn = m.instruction
  /\ sent[j].other \/ sent[j].kind = m.agent.kind

\* The conversation remembers the last acknowledged prompt, except in a dry
\* run, which sends none; a text was expanded with the conversation as it is.
LastOK == ~dryRun /\ last # None => \E j \in 1 .. Len(sent) : LastAcked(last, j, Len(sent))
RefOK == stage = "send" => ~dryRun /\ req.ref \in {None, last}

VoiceInv == /\ HerdrType /\ LoopType /\ TurnOK /\ PendingOK /\ AddressOK
            /\ LastOK /\ RefOK /\ RefersToLastSent

---------------------------------------------------------------------------
\* Listings

\* A listing reports agents with their own sessions, and it is finite.
LEMMA ListAgentsIs ==
  ASSUME HerdrType
  PROVE  ListAgents \subseteq Seen /\ IsFiniteSet(ListAgents)
<1> DEFINE Up == {q \in Panes : Running(q)}
           line(p) == [pane |-> p, kind |-> AgentKind[occupant[p]],
                       session |-> SessionId[occupant[p]],
                       state |-> activity[p], who |-> occupant[p]]
           lines == [p \in Up |-> line(p)]
<1>1. ListAgents = {line(p) : p \in Up}
  BY DEF ListAgents
<1>2. \A p \in Up : line(p) \in Seen
  <2>1. \A p \in Up : occupant[p] \in Agents /\ activity[p] \in Activities /\ p \in Panes
    BY DEF HerdrType, Running
  <2> QED BY <2>1 DEF Seen, Instance, Kinds
<1>3. IsFiniteSet(Up)
  <2>1. IsFiniteSet(Panes)
    <3>1. NPanes \in Nat \ {0}
      BY VoiceAssumption, Zenon
    <3>2. 1 \in Int /\ NPanes \in Int
      BY <3>1
    <3> QED BY <3>2, FS_Interval DEF Panes
  <2> QED BY <2>1, FS_Subset
<1> HIDE DEF line
<1>4. lines \in Surjection(Up, ListAgents)
  <2>1. lines \in [Up -> ListAgents]
    BY <1>1
  <2>2. \A x \in ListAgents : \E p \in Up : lines[p] = x
    BY <1>1
  <2> QED BY <2>1, <2>2 DEF Surjection
<1>5. IsFiniteSet(ListAgents)
  <2> HIDE DEF lines, Up
  <2> QED BY <1>3, <1>4, FS_Surjection
<1> QED BY <1>1, <1>2, <1>5

\* Resolve's candidates are listed and match the words.
LEMMA CandidatesAre ==
  ASSUME NEW agents, NEW t, NEW pane
  PROVE  /\ Candidates(agents, t, pane) \subseteq agents
         /\ \A a \in Candidates(agents, t, pane) : MatchesQuery(a, t)
<1> HIDE DEF MatchesQuery
<1> QED BY DEF Candidates

\* The agent Resolve prefers is the one of the conversation.
LEMMA PreferredIs ==
  ASSUME NEW cands \in SUBSET Seen, NEW t, last \in Memory \cup {None},
         NEW a \in Preferred(cands, t)
  PROVE  a \in cands /\ last # None /\ Same(last.agent, a)
<1>1. /\ a \in cands /\ last # None
      /\ last.agent.session = "" \/ a.session = last.agent.session
  BY DEF Preferred
<1>2. a \in Seen /\ last.agent \in Seen
  BY <1>1 DEF Memory
<1>3. /\ a.who \in Agents /\ a.session = SessionId[a.who]
      /\ last.agent.who \in Agents /\ last.agent.session = SessionId[last.agent.who]
  BY <1>2 DEF Seen, Instance
<1> QED BY <1>1, <1>3, VoiceAssumption DEF Same

\* One candidate is all the candidates when no question has to be asked.
LEMMA OnlyCandidate ==
  ASSUME NEW cands, IsFiniteSet(cands), ~MustAsk(cands), NEW a \in cands
  PROVE  cands = {a}
<1>1. Cardinality(cands) \in Nat /\ Cardinality(cands) # 0
  BY FS_CardinalityType, FS_EmptySet
<1>2. Cardinality(cands) = 1
  BY <1>1 DEF MustAsk
<1>3. PICK x : cands = {x}
  BY <1>2, FS_Singleton
<1> QED BY <1>3

\* An answer picks among the candidates of the question.
LEMMA AnsweredIn ==
  ASSUME NEW cands, NEW ans \in Answers
  PROVE  Answered(cands, ans) \subseteq cands
<1>1. ans.by \in {"ordinal", "pane", "workspace", "state"}
  BY DEF Answers
<1>2. CASE ans.by = "ordinal"
  BY <1>2 DEF Answered, Ordinal
<1>3. CASE ans.by = "pane"
  BY <1>3 DEF Answered
<1>4. CASE ans.by = "workspace"
  BY <1>4 DEF Answered
<1>5. CASE ans.by = "state"
  BY <1>5 DEF Answered
<1> QED BY <1>1, <1>2, <1>3, <1>4, <1>5

---------------------------------------------------------------------------
\* The steps of the loop

loopVars == <<dryRun, last, pending, turns, sent, withdrawn>>

\* What Return and Address leave in the locals of the turn.
LEMMA NoRequestType == NoRequest \in Request
BY DEF NoRequest, Request

\* Address fills the locals of the turn with the agent it settled on.
LEMMA AddressIs ==
  ASSUME NEW r, NEW a, NEW how, NEW listing, Address(r, a, how, listing)
  PROVE  /\ stage' = "announce"
         /\ req'.turn = r.turn /\ req'.target = r.target /\ req'.agent = a
         /\ req'.how = how /\ req'.listing = listing
         /\ r.turn \in Nat /\ r.target \in Targets /\ r.pronoun \in BOOLEAN
              /\ a \in Seen /\ how \in {"preferred", "only", "answered"}
              /\ listing \in SUBSET Seen => req' \in Request
BY DEF Address, NoRequest, Request

\* Whatever changes behind the loop's back changes nothing it remembers.
LEMMA BehindItsBack ==
  ASSUME VoiceInv, HerdrType', UNCHANGED loopVars, UNCHANGED <<stage, req>>
  PROVE  VoiceInv'
<1>1. LoopType'
  BY DEF VoiceInv, LoopType, loopVars
<1>2. TurnOK' /\ PendingOK'
  BY DEF VoiceInv, TurnOK, Open, PendingOK, loopVars, MatchesQuery
<1>3. AddressOK' /\ LastOK' /\ RefOK'
  BY DEF VoiceInv, AddressOK, LastOK, RefOK, LastAcked, loopVars, MatchesQuery, Same
<1>4. RefersToLastSent'
  BY DEF VoiceInv, RefersToLastSent, loopVars
<1> QED BY <1>1, <1>2, <1>3, <1>4 DEF VoiceInv

\* Agents that come and go, work or get the focus.
LEMMA HerdrStep ==
  ASSUME VoiceInv, NEW p \in Panes, Move(p) \/ AgentWorks(p) \/ Look(p)
  PROVE  VoiceInv'
<1>1. UNCHANGED loopVars /\ UNCHANGED <<stage, req>>
  BY DEF Move, AgentWorks, Look, loopVars
<1>2. HerdrType'
  <2>1. CASE Move(p)
    BY <2>1 DEF Move, VoiceInv, HerdrType
  <2>2. CASE AgentWorks(p)
    BY <2>2 DEF AgentWorks, VoiceInv, HerdrType
  <2>3. CASE Look(p)
    BY <2>3 DEF Look, VoiceInv, HerdrType
  <2> QED BY <2>1, <2>2, <2>3
<1> QED BY <1>1, <1>2, BehindItsBack

\* A turn that ends without a prompt leaves the conversation as it was.
LEMMA TurnReturns ==
  ASSUME VoiceInv, Return, UNCHANGED loopVars, UNCHANGED herdrVars
  PROVE  VoiceInv'
<1>1. stage' = "listening" /\ req' \in Request
  BY NoRequestType DEF Return
<1>2. HerdrType' /\ LoopType'
  BY <1>1 DEF VoiceInv, HerdrType, LoopType, herdrVars, loopVars, Resolving, Addressing
<1>3. TurnOK' /\ PendingOK'
  BY <1>1 DEF VoiceInv, TurnOK, Open, PendingOK, loopVars, MatchesQuery, Resolving, Addressing
<1>4. AddressOK' /\ LastOK' /\ RefOK'
  BY <1>1 DEF VoiceInv, AddressOK, LastOK, RefOK, LastAcked, loopVars, Addressing
<1>5. RefersToLastSent'
  BY DEF VoiceInv, RefersToLastSent, loopVars
<1> QED BY <1>2, <1>3, <1>4, <1>5 DEF VoiceInv

\* Giving another instruction or asking for the status closes the question.
LEMMA HearStep ==
  ASSUME VoiceInv, HearQuit \/ HearStatus \/ HearInstruct
  PROVE  VoiceInv'
<1>0. HerdrType' /\ UNCHANGED <<dryRun, last, sent>> /\ stage = "listening"
  BY DEF HearQuit, HearStatus, HearInstruct, VoiceInv, HerdrType, herdrVars
<1>1. CASE HearQuit
  <2>1. stage' = "quit" /\ UNCHANGED req /\ UNCHANGED loopVars
    BY <1>1 DEF HearQuit, loopVars
  <2>2. LoopType'
    BY <2>1 DEF VoiceInv, LoopType, loopVars, Resolving, Addressing
  <2>3. TurnOK' /\ PendingOK'
    BY <2>1 DEF VoiceInv, TurnOK, Open, PendingOK, loopVars, MatchesQuery, Resolving, Addressing
  <2>4. AddressOK' /\ LastOK' /\ RefOK'
    BY <2>1 DEF VoiceInv, AddressOK, LastOK, RefOK, LastAcked, loopVars, Addressing
  <2>5. RefersToLastSent'
    BY <2>1 DEF VoiceInv, RefersToLastSent, loopVars
  <2> QED BY <1>0, <2>2, <2>3, <2>4, <2>5 DEF VoiceInv
<1>2. CASE HearStatus
  <2>1. /\ pending # None /\ pending' = None /\ withdrawn' = withdrawn \cup {pending.turn}
        /\ UNCHANGED <<turns, stage, req>>
    BY <1>2 DEF HearStatus
  <2>2. LoopType'
    <3>1. pending.turn \in Nat
      BY <2>1 DEF VoiceInv, LoopType, Question
    <3> QED BY <1>0, <2>1, <3>1 DEF VoiceInv, LoopType
  <2>3. TurnOK' /\ PendingOK'
    <3>1. pending.turn <= turns'
      BY <2>1 DEF VoiceInv, TurnOK, Open, LoopType
    <3> QED BY <1>0, <2>1, <3>1 DEF VoiceInv, TurnOK, PendingOK, Resolving, Addressing
  <2>4. AddressOK' /\ LastOK' /\ RefOK'
    BY <1>0, <2>1 DEF VoiceInv, AddressOK, LastOK, RefOK, LastAcked, Addressing
  <2>5. RefersToLastSent'
    BY <1>0 DEF VoiceInv, RefersToLastSent
  <2> QED BY <1>0, <2>2, <2>3, <2>4, <2>5 DEF VoiceInv
<1>3. CASE HearInstruct
  <2>1. PICK t \in Targets, pronoun \in BOOLEAN :
          /\ req' = [NoRequest EXCEPT !.turn = turns + 1, !.target = t, !.pronoun = pronoun]
          /\ stage' = IF t.focused THEN "focus" ELSE "list"
    BY <1>3 DEF HearInstruct
  <2>2. /\ turns' = turns + 1 /\ pending' = None /\ withdrawn' = withdrawn
        /\ stage' \in Resolving
    BY <1>3, <2>1 DEF HearInstruct, Resolving
  <2>3. turns \in Nat
    BY DEF VoiceInv, LoopType
  <2>4. req' \in Request /\ req'.turn = turns' /\ req'.target \in Targets
    <3>1. req' = [turn |-> turns + 1, target |-> t, pronoun |-> pronoun, pane |-> 0,
                  agent |-> None, how |-> "", listing |-> {}, ref |-> None]
      BY <2>1 DEF NoRequest
    <3>2. req'.turn = turns + 1 /\ req'.target = t
      BY <3>1
    <3>3. turns + 1 \in Nat
      BY <2>3
    <3>4. req' \in Request
      BY <3>1, <3>3 DEF Request
    <3> QED BY <2>2, <3>2, <3>4
  <2>5. LoopType'
    BY <1>0, <2>2, <2>3, <2>4 DEF VoiceInv, LoopType, Resolving, Addressing
  <2>6. TurnOK' /\ PendingOK'
    <3>1. \A i \in 1 .. Len(sent) : sent[i].turn \in Nat /\ sent[i].turn <= turns
      <4>1. \A i \in 1 .. Len(sent) : sent[i] \in Prompts
        BY DEF VoiceInv, LoopType
      <4> QED BY <4>1 DEF VoiceInv, TurnOK, Prompts
    <3>2. \A u \in withdrawn : u \in Nat /\ u <= turns
      BY DEF VoiceInv, TurnOK, LoopType
    <3>3. Open(req.turn)'
      BY <1>0, <2>2, <2>3, <2>4, <3>1, <3>2 DEF Open
    <3>4. /\ \A i \in 1 .. Len(sent') : sent'[i].turn <= turns'
          /\ \A u \in withdrawn' : u <= turns'
      BY <1>0, <2>2, <2>3, <3>1, <3>2
    <3> QED BY <2>2, <3>3, <3>4 DEF TurnOK, PendingOK, Resolving
  <2>7. AddressOK' /\ LastOK' /\ RefOK'
    BY <1>0, <2>2 DEF VoiceInv, AddressOK, LastOK, RefOK, LastAcked, Addressing, Resolving
  <2>8. RefersToLastSent'
    BY <1>0 DEF VoiceInv, RefersToLastSent
  <2> QED BY <1>0, <2>5, <2>6, <2>7, <2>8 DEF VoiceInv
<1> QED BY <1>1, <1>2, <1>3

\* An agent is addressed with an open instruction: it matches the words and was
\* found the way the code allows.
LEMMA AddressStep ==
  ASSUME VoiceInv, UNCHANGED <<herdrVars, dryRun, last, turns, sent, withdrawn>>,
         pending' = None, NEW r, NEW a \in Seen, NEW how, NEW listing \in SUBSET Seen,
         Address(r, a, how, listing), how \in {"preferred", "only", "answered"},
         r.turn \in Nat, r.target \in Targets, r.pronoun \in BOOLEAN,
         Open(r.turn), MatchesQuery(a, r.target),
         \/ how = "answered" /\ Cardinality(listing) > 1
         \/ listing = {a}
         \/ last # None /\ Same(last.agent, a)
  PROVE  VoiceInv'
<1>1. /\ stage' = "announce" /\ req' \in Request
      /\ req'.turn = r.turn /\ req'.target = r.target /\ req'.agent = a
      /\ req'.how = how /\ req'.listing = listing
  BY AddressIs
<1>2. HerdrType' /\ LoopType'
  BY <1>1 DEF VoiceInv, HerdrType, LoopType, herdrVars, Resolving, Addressing
<1>3. TurnOK' /\ PendingOK'
  <2>1. Open(req.turn)'
    BY <1>1 DEF Open
  <2> QED BY <1>1, <2>1 DEF VoiceInv, TurnOK, PendingOK
<1>4. AddressOK'
  <2>1. MatchesQuery(req.agent, req.target)'
    BY <1>1 DEF MatchesQuery
  <2>2. \/ req'.how = "answered" /\ Cardinality(req'.listing) > 1
        \/ req'.listing = {req'.agent}
        \/ last' # None /\ Same(last.agent, req.agent)'
    BY <1>1 DEF Same
  <2> QED BY <2>1, <2>2 DEF AddressOK
<1>5. LastOK' /\ RefOK'
  BY <1>1 DEF VoiceInv, LastOK, RefOK, LastAcked
<1>6. RefersToLastSent'
  BY DEF VoiceInv, RefersToLastSent
<1> QED BY <1>2, <1>3, <1>4, <1>5, <1>6 DEF VoiceInv

\* An answer addresses a candidate of the question, with the held instruction.
LEMMA ClarifyStep ==
  ASSUME VoiceInv, HearClarify
  PROVE  VoiceInv'
<1>1. /\ pending # None /\ pending' = None
      /\ UNCHANGED <<herdrVars, dryRun, last, turns, sent, withdrawn>>
  BY DEF HearClarify
<1>2. PICK ans \in Answers : \E a \in Answered(pending.candidates, ans) :
        Address(pending, a, "answered", pending.candidates)
  BY DEF HearClarify
<1>3. PICK a \in Answered(pending.candidates, ans) :
        Address(pending, a, "answered", pending.candidates)
  BY <1>2
<1>4. pending \in Question
  BY <1>1 DEF VoiceInv, LoopType
<1>5. /\ pending.turn \in Nat /\ pending.target \in Targets /\ pending.pronoun \in BOOLEAN
      /\ pending.candidates \in SUBSET Seen
  BY <1>4 DEF Question
<1>6. a \in pending.candidates
  BY <1>3, AnsweredIn
<1>7. /\ Cardinality(pending.candidates) > 1 /\ MatchesQuery(a, pending.target)
      /\ Open(pending.turn)
  BY <1>1, <1>6 DEF VoiceInv, PendingOK, TurnOK
<1> QED BY <1>1, <1>3, <1>5, <1>6, <1>7, AddressStep

\* The focused pane is only remembered.
LEMMA FocusedStep ==
  ASSUME VoiceInv, Focused
  PROVE  VoiceInv'
<1>1. UNCHANGED loopVars /\ UNCHANGED herdrVars /\ stage = "focus"
  BY DEF Focused, loopVars
<1>2. CASE Running(focus)
  <2>1. stage' = "list" /\ req' = [req EXCEPT !.pane = focus]
    BY <1>2 DEF Focused
  <2>2. focus \in Nat
    <3>1. NPanes \in Nat \ {0}
      BY VoiceAssumption, Zenon
    <3> QED BY <3>1 DEF VoiceInv, HerdrType, Panes
  <2>3. req \in Request
    BY DEF VoiceInv, LoopType
  <2>4. req' \in Request /\ req'.turn = req.turn /\ req'.target = req.target
    BY <2>1, <2>2, <2>3 DEF Request
  <2>5. HerdrType' /\ LoopType'
    BY <1>1, <2>1, <2>4 DEF VoiceInv, HerdrType, LoopType, herdrVars, loopVars, Resolving,
                            Addressing
  <2>6. TurnOK' /\ PendingOK'
    BY <1>1, <2>1, <2>4 DEF VoiceInv, TurnOK, Open, PendingOK, loopVars, MatchesQuery, Resolving
  <2>7. AddressOK' /\ LastOK' /\ RefOK'
    BY <1>1, <2>1 DEF VoiceInv, AddressOK, LastOK, RefOK, LastAcked, loopVars, Addressing
  <2>8. RefersToLastSent'
    BY <1>1 DEF VoiceInv, RefersToLastSent, loopVars
  <2> QED BY <2>5, <2>6, <2>7, <2>8 DEF VoiceInv
<1>3. CASE ~Running(focus)
  <2>1. Return
    BY <1>3 DEF Focused
  <2> QED BY <1>1, <2>1, TurnReturns
<1> QED BY <1>2, <1>3

\* Resolve picks only the agent of the conversation or the only candidate;
\* otherwise it asks, about candidates that all match, or gives up.
LEMMA ResolveStep ==
  ASSUME VoiceInv, Resolve
  PROVE  VoiceInv'
<1> DEFINE cands == Candidates(ListAgents, req.target, req.pane)
           prefer == Preferred(cands, req.target)
<1>0. /\ stage = "list" /\ UNCHANGED <<herdrVars, dryRun, last, turns, sent, withdrawn>>
      /\ \/ \E a \in prefer : Address(req, a, "preferred", cands) /\ UNCHANGED pending
         \/ Return /\ UNCHANGED pending
         \/ /\ ~MustAsk(cands) /\ UNCHANGED pending
            /\ \E a \in cands : Address(req, a, "only", cands)
         \/ /\ MustAsk(cands) /\ Return
            /\ pending' = [turn |-> req.turn, target |-> req.target,
                           pronoun |-> req.pronoun, candidates |-> cands]
  BY DEF Resolve
<1>1. cands \in SUBSET Seen /\ IsFiniteSet(cands) /\ \A a \in cands : MatchesQuery(a, req.target)
  <2>1. ListAgents \subseteq Seen /\ IsFiniteSet(ListAgents)
    BY ListAgentsIs DEF VoiceInv
  <2>2. cands \subseteq ListAgents /\ \A a \in cands : MatchesQuery(a, req.target)
    BY CandidatesAre
  <2> QED BY <2>1, <2>2, FS_Subset
<1>2. /\ req.turn \in Nat /\ req.target \in Targets /\ req.pronoun \in BOOLEAN
      /\ Open(req.turn) /\ pending = None /\ last \in Memory \cup {None}
  BY <1>0 DEF VoiceInv, LoopType, TurnOK, Request, Resolving
<1> HIDE DEF cands
<1>3. CASE \E a \in prefer : Address(req, a, "preferred", cands) /\ UNCHANGED pending
  <2>1. PICK a \in prefer : Address(req, a, "preferred", cands) /\ UNCHANGED pending
    BY <1>3
  <2>2. a \in cands /\ last # None /\ Same(last.agent, a)
    BY <1>1, <1>2, PreferredIs
  <2>3. a \in Seen /\ MatchesQuery(a, req.target) /\ pending' = None
    BY <1>1, <1>2, <2>1, <2>2
  <2> HIDE DEF prefer
  <2> QED BY <1>0, <1>1, <1>2, <2>1, <2>2, <2>3, AddressStep
<1>4. CASE Return /\ UNCHANGED pending
  <2>1. UNCHANGED loopVars /\ UNCHANGED herdrVars
    BY <1>0, <1>4 DEF loopVars
  <2> QED BY <1>4, <2>1, TurnReturns
<1>5. CASE /\ ~MustAsk(cands) /\ UNCHANGED pending
           /\ \E a \in cands : Address(req, a, "only", cands)
  <2>1. PICK a \in cands : Address(req, a, "only", cands)
    BY <1>5
  <2>2. cands = {a}
    BY <1>1, <1>5, OnlyCandidate
  <2>3. a \in Seen /\ MatchesQuery(a, req.target) /\ pending' = None
    BY <1>1, <1>2, <1>5
  <2> HIDE DEF prefer
  <2> QED BY <1>0, <1>1, <1>2, <2>1, <2>2, <2>3, AddressStep
<1>6. CASE /\ MustAsk(cands) /\ Return
           /\ pending' = [turn |-> req.turn, target |-> req.target,
                          pronoun |-> req.pronoun, candidates |-> cands]
  <2>1. stage' = "listening" /\ req' \in Request
    BY <1>6, NoRequestType DEF Return
  <2>2. /\ pending' \in Question /\ pending'.turn = req.turn /\ pending'.target = req.target
        /\ pending'.candidates = cands
    BY <1>1, <1>2, <1>6 DEF Question
  <2>3. HerdrType' /\ LoopType'
    BY <1>0, <2>1, <2>2 DEF VoiceInv, HerdrType, LoopType, herdrVars, Resolving, Addressing
  <2>4. TurnOK'
    <3>1. Open(pending.turn)'
      BY <1>0, <1>2, <2>2 DEF Open
    <3> QED BY <1>0, <2>1, <3>1 DEF VoiceInv, TurnOK, Resolving, Addressing
  <2>5. PendingOK'
    <3>1. Cardinality(pending'.candidates) > 1
      BY <1>6, <2>2 DEF MustAsk
    <3>2. \A a \in pending'.candidates : MatchesQuery(a, pending.target)'
      BY <1>1, <2>2 DEF MatchesQuery
    <3> QED BY <3>1, <3>2 DEF PendingOK
  <2>6. AddressOK' /\ LastOK' /\ RefOK'
    BY <1>0, <2>1 DEF VoiceInv, AddressOK, LastOK, RefOK, LastAcked, Addressing
  <2>7. RefersToLastSent'
    BY <1>0 DEF VoiceInv, RefersToLastSent
  <2> QED BY <2>3, <2>4, <2>5, <2>6, <2>7 DEF VoiceInv
<1> QED BY <1>0, <1>3, <1>4, <1>5, <1>6

\* A text that is about to be sent was expanded with the conversation as it is.
LEMMA AnnounceStep ==
  ASSUME VoiceInv, Announce
  PROVE  VoiceInv'
<1>1. /\ stage = "announce" /\ UNCHANGED <<herdrVars, dryRun, pending, turns, sent, withdrawn>>
      /\ \/ dryRun /\ Remember /\ Return
         \/ /\ ~dryRun /\ UNCHANGED last /\ stage' = "send"
            /\ req' = [req EXCEPT !.ref = IF req.pronoun THEN last ELSE None]
         \/ UNCHANGED last /\ Return
  BY DEF Announce
<1>2. req \in Request /\ req.agent \in Seen /\ req.target \in Targets
  BY <1>1 DEF VoiceInv, LoopType, Addressing
<1>3. CASE dryRun /\ Remember /\ Return
  <2>1. stage' = "listening" /\ req' \in Request
    BY <1>3, NoRequestType DEF Return
  <2>2. last' \in Memory
    BY <1>2, <1>3 DEF Remember, Memory, Request
  <2>3. HerdrType' /\ LoopType'
    BY <1>1, <2>1, <2>2 DEF VoiceInv, HerdrType, LoopType, herdrVars, Resolving, Addressing
  <2>4. TurnOK' /\ PendingOK'
    BY <1>1, <2>1 DEF VoiceInv, TurnOK, Open, PendingOK, MatchesQuery, Resolving, Addressing
  <2>5. AddressOK' /\ LastOK' /\ RefOK'
    BY <1>1, <1>3, <2>1 DEF AddressOK, LastOK, RefOK, Addressing
  <2>6. RefersToLastSent'
    BY <1>1 DEF VoiceInv, RefersToLastSent
  <2> QED BY <2>3, <2>4, <2>5, <2>6 DEF VoiceInv
<1>4. CASE /\ ~dryRun /\ UNCHANGED last /\ stage' = "send"
           /\ req' = [req EXCEPT !.ref = IF req.pronoun THEN last ELSE None]
  <2>1. last \in Memory \cup {None}
    BY DEF VoiceInv, LoopType
  <2>2. /\ req' \in Request /\ req'.turn = req.turn /\ req'.target = req.target
        /\ req'.agent = req.agent /\ req'.how = req.how /\ req'.listing = req.listing
        /\ req'.ref \in {None, last}
    BY <1>2, <1>4, <2>1 DEF Request
  <2>3. HerdrType' /\ LoopType'
    BY <1>1, <1>2, <1>4, <2>2 DEF VoiceInv, HerdrType, LoopType, herdrVars, Addressing
  <2>4. TurnOK' /\ PendingOK'
    BY <1>1, <1>4, <2>2 DEF VoiceInv, TurnOK, Open, PendingOK, MatchesQuery, Addressing
  <2>5. AddressOK'
    BY <1>1, <1>4, <2>2 DEF VoiceInv, AddressOK, MatchesQuery, Same, Addressing
  <2>6. LastOK' /\ RefOK'
    BY <1>1, <1>4, <2>2 DEF VoiceInv, LastOK, RefOK, LastAcked
  <2>7. RefersToLastSent'
    BY <1>1 DEF VoiceInv, RefersToLastSent
  <2> QED BY <2>3, <2>4, <2>5, <2>6, <2>7 DEF VoiceInv
<1>5. CASE UNCHANGED last /\ Return
  <2>1. UNCHANGED loopVars /\ UNCHANGED herdrVars
    BY <1>1, <1>5 DEF loopVars
  <2> QED BY <1>5, <2>1, TurnReturns
<1> QED BY <1>1, <1>3, <1>4, <1>5

\* What reaches a pane: the last instruction heard, for the first time, quoting
\* the last prompt herdr acknowledged before it.
LEMMA Sending ==
  ASSUME VoiceInv, stage = "send", Running(req.agent.pane), NEW ack \in BOOLEAN,
         sent' = Append(sent, Prompt(ack)), UNCHANGED <<turns, withdrawn>>
  PROVE  /\ sent' \in Seq(Prompts) /\ Len(sent) \in Nat /\ Len(sent') = Len(sent) + 1
         /\ \A i \in 1 .. Len(sent) : sent'[i] = sent[i]
         /\ sent'[Len(sent')] = Prompt(ack)
         /\ \A i \in 1 .. Len(sent') : sent'[i].turn <= turns'
         /\ RefersToLastSent'
<1> DEFINE e == Prompt(ack)
<1>1. /\ req \in Request /\ req.agent \in Seen /\ req.turn \in Nat /\ req.turn = turns
      /\ ~dryRun /\ req.ref \in {None, last} /\ last \in Memory \cup {None}
  BY DEF VoiceInv, LoopType, RefOK, TurnOK, Open, Request, Addressing
<1>2. e.kind \in Kinds
  <2>1. occupant[req.agent.pane] \in Agents
    BY <1>1 DEF VoiceInv, HerdrType, Running, Seen, Instance
  <2> QED BY <2>1 DEF Kinds, Prompt
<1>3. /\ e.turn = req.turn /\ e.other \in BOOLEAN /\ e.acked = ack
      /\ e.ref = IF req.ref = None THEN None
                 ELSE [instruction |-> req.ref.instruction, kind |-> req.ref.agent.kind]
      /\ DOMAIN e = {"turn", "kind", "other", "acked", "ref"}
  BY DEF Prompt
<1>4. req.ref # None => /\ last # None /\ last \in Memory /\ req.ref = last
                        /\ last.instruction \in Nat /\ last.agent.kind \in Kinds
  BY <1>1 DEF Memory, Seen, Instance
<1>5. e.ref \in Quote \cup {None}
  BY <1>3, <1>4 DEF Quote
<1>6. e \in Prompts
  BY <1>1, <1>2, <1>3, <1>5 DEF Prompts, Prompt
<1>7. sent \in Seq(Prompts)
  BY DEF VoiceInv, LoopType
<1> HIDE DEF e
<1>8. sent' = Append(sent, e)
  BY DEF e
<1>9. /\ sent' \in Seq(Prompts) /\ Len(sent) \in Nat /\ Len(sent') = Len(sent) + 1
      /\ \A i \in 1 .. Len(sent) : sent'[i] = sent[i]
      /\ sent'[Len(sent) + 1] = e
  BY <1>6, <1>7, <1>8
<1>10. \A i \in 1 .. Len(sent') : sent'[i].turn <= turns'
  <2>1. \A i \in 1 .. Len(sent) : sent'[i].turn <= turns'
    BY <1>9 DEF VoiceInv, TurnOK
  <2>2. sent'[Len(sent) + 1].turn <= turns'
    BY <1>1, <1>3, <1>9
  <2> QED BY <1>9, <2>1, <2>2
<1>11. RefersToLastSent'
  <2> SUFFICES ASSUME NEW i \in 1 .. Len(sent'), sent'[i].ref # None
               PROVE  \E j \in {k \in 1 .. i - 1 : sent'[k].acked} :
                        /\ \A k \in {k \in 1 .. i - 1 : sent'[k].acked} : k <= j
                        /\ sent'[j].turn = sent'[i].ref.instruction
                        /\ sent'[j].other \/ sent'[j].kind = sent'[i].ref.kind
    BY DEF RefersToLastSent
  <2>1. CASE i \in 1 .. Len(sent)
    <3>1. \A k \in 1 .. i - 1 : k \in 1 .. Len(sent)
      BY <1>9, <2>1
    <3>2. sent'[i] = sent[i] /\ \A k \in 1 .. i - 1 : sent'[k] = sent[k]
      BY <1>9, <2>1, <3>1
    <3>3. PICK j \in {k \in 1 .. i - 1 : sent[k].acked} :
            /\ \A k \in {k \in 1 .. i - 1 : sent[k].acked} : k <= j
            /\ sent[j].turn = sent[i].ref.instruction
            /\ sent[j].other \/ sent[j].kind = sent[i].ref.kind
      BY <2>1, <3>2 DEF VoiceInv, RefersToLastSent
    <3> QED BY <3>2, <3>3
  <2>2. CASE i = Len(sent) + 1
    <3>1. sent'[i] = e /\ i - 1 = Len(sent)
      BY <1>9, <2>2
    <3>2. e.ref # None
      BY <3>1
    <3>3. /\ last # None /\ e.ref.instruction = last.instruction
          /\ e.ref.kind = last.agent.kind
      BY <1>3, <1>4, <3>2
    <3>4. PICK j \in 1 .. Len(sent) : LastAcked(last, j, Len(sent))
      BY <1>1, <3>3 DEF VoiceInv, LastOK
    <3>5. /\ sent[j].acked /\ \A k \in 1 .. Len(sent) : sent[k].acked => k <= j
          /\ sent[j].turn = last.instruction
          /\ sent[j].other \/ sent[j].kind = last.agent.kind
      BY <3>4 DEF LastAcked
    <3>6. /\ sent'[j].acked /\ \A k \in 1 .. Len(sent) : sent'[k].acked => k <= j
          /\ sent'[j].turn = sent'[i].ref.instruction
          /\ sent'[j].other \/ sent'[j].kind = sent'[i].ref.kind
      BY <1>9, <3>1, <3>3, <3>5
    <3> QED BY <3>1, <3>6
  <2> QED BY <1>9, <2>1, <2>2
<1> QED BY <1>9, <1>10, <1>11 DEF e

\* An acknowledged prompt becomes what the conversation is about.
LEMMA AcceptedStep ==
  ASSUME VoiceInv, SendAccepted
  PROVE  VoiceInv'
<1>1. /\ stage = "send" /\ Running(req.agent.pane)
      /\ sent' = Append(sent, Prompt(TRUE)) /\ Remember
      /\ stage' = "await" /\ req' = [NoRequest EXCEPT !.turn = req.turn, !.pane = req.agent.pane]
      /\ UNCHANGED <<herdrVars, dryRun, pending, turns, withdrawn>>
  BY DEF SendAccepted
<1>2. /\ sent' \in Seq(Prompts) /\ Len(sent) \in Nat /\ Len(sent') = Len(sent) + 1
      /\ \A i \in 1 .. Len(sent) : sent'[i] = sent[i]
      /\ sent'[Len(sent')] = Prompt(TRUE)
      /\ \A i \in 1 .. Len(sent') : sent'[i].turn <= turns'
      /\ RefersToLastSent'
  BY <1>1, Sending
<1>3. req \in Request /\ req.agent \in Seen /\ req.turn \in Nat /\ pending = None
  BY <1>1 DEF VoiceInv, LoopType, TurnOK, Request, Addressing
<1>4. req.agent.pane \in Nat
  <2>1. NPanes \in Nat \ {0}
    BY VoiceAssumption, Zenon
  <2> QED BY <1>3, <2>1 DEF Seen, Instance, Panes
<1>5. req' \in Request
  BY <1>1, <1>3, <1>4 DEF NoRequest, Request
<1>6. last' \in Memory /\ last'.instruction = req.turn /\ last'.agent = req.agent
  BY <1>1, <1>3 DEF Remember, Memory
<1>7. HerdrType' /\ LoopType'
  BY <1>1, <1>2, <1>5, <1>6 DEF VoiceInv, HerdrType, LoopType, herdrVars, Resolving, Addressing
<1>8. TurnOK' /\ PendingOK'
  BY <1>1, <1>2, <1>3 DEF VoiceInv, TurnOK, PendingOK, Resolving, Addressing
<1>9. AddressOK' /\ RefOK'
  BY <1>1 DEF AddressOK, RefOK, Addressing
<1>10. LastOK'
  <2>3. /\ Prompt(TRUE).acked /\ Prompt(TRUE).turn = req.turn
        /\ Prompt(TRUE).other \/ Prompt(TRUE).kind = req.agent.kind
    <3>1. req.agent.kind = AgentKind[req.agent.who]
      BY <1>3 DEF Seen
    <3> QED BY <3>1 DEF Prompt
  <2>1. /\ sent'[Len(sent')].acked /\ sent'[Len(sent')].turn = last'.instruction
        /\ sent'[Len(sent')].other \/ sent'[Len(sent')].kind = last'.agent.kind
    BY <1>2, <1>6, <2>3
  <2>2. Len(sent') \in 1 .. Len(sent') /\ \A k \in 1 .. Len(sent') : k <= Len(sent')
    BY <1>2
  <2> QED BY <2>1, <2>2 DEF LastOK, LastAcked
<1> QED BY <1>2, <1>7, <1>8, <1>9, <1>10 DEF VoiceInv

\* A failing send leaves the conversation as it was, even if herdr had taken
\* the prompt.
LEMMA FailsStep ==
  ASSUME VoiceInv, SendFails
  PROVE  VoiceInv'
<1>1. /\ stage = "send" /\ Return
      /\ UNCHANGED <<herdrVars, dryRun, last, pending, turns, withdrawn>>
  BY DEF SendFails
<1>2. CASE UNCHANGED sent
  <2>1. UNCHANGED loopVars /\ UNCHANGED herdrVars
    BY <1>1, <1>2 DEF loopVars
  <2> QED BY <1>1, <2>1, TurnReturns
<1>3. CASE Running(req.agent.pane) /\ sent' = Append(sent, Prompt(FALSE))
  <2>1. /\ sent' \in Seq(Prompts) /\ Len(sent) \in Nat /\ Len(sent') = Len(sent) + 1
        /\ \A i \in 1 .. Len(sent) : sent'[i] = sent[i]
        /\ sent'[Len(sent')] = Prompt(FALSE)
        /\ \A i \in 1 .. Len(sent') : sent'[i].turn <= turns'
        /\ RefersToLastSent'
    BY <1>1, <1>3, Sending
  <2>2. stage' = "listening" /\ req' \in Request /\ pending = None
    BY <1>1, NoRequestType DEF Return, VoiceInv, TurnOK, Addressing
  <2>3. HerdrType' /\ LoopType'
    BY <1>1, <2>1, <2>2 DEF VoiceInv, HerdrType, LoopType, herdrVars, Resolving, Addressing
  <2>4. TurnOK' /\ PendingOK'
    BY <1>1, <2>1, <2>2 DEF VoiceInv, TurnOK, PendingOK, Resolving, Addressing
  <2>5. AddressOK' /\ RefOK'
    BY <2>2 DEF AddressOK, RefOK, Addressing
  <2>6. LastOK'
    <3> SUFFICES ASSUME ~dryRun', last' # None
                 PROVE  \E j \in 1 .. Len(sent') : LastAcked(last, j, Len(sent))'
      BY DEF LastOK
    <3>1. PICK j \in 1 .. Len(sent) : LastAcked(last, j, Len(sent))
      BY <1>1 DEF VoiceInv, LastOK
    <3>2. /\ sent[j].acked /\ \A k \in 1 .. Len(sent) : sent[k].acked => k <= j
          /\ sent[j].turn = last.instruction
          /\ sent[j].other \/ sent[j].kind = last.agent.kind
      BY <3>1 DEF LastAcked
    <3>3. sent'[Len(sent')].acked = FALSE
      BY <2>1 DEF Prompt
    <3>4. /\ j \in 1 .. Len(sent') /\ sent'[j].acked
          /\ sent'[j].turn = last'.instruction
          /\ sent'[j].other \/ sent'[j].kind = last'.agent.kind
      BY <1>1, <2>1, <3>2
    <3>5. \A k \in 1 .. Len(sent') : sent'[k].acked => k <= j
      <4>1. \A k \in 1 .. Len(sent') : k = Len(sent') \/ k \in 1 .. Len(sent)
        BY <2>1, SMTT(30)
      <4> QED BY <2>1, <3>2, <3>3, <4>1
    <3> QED BY <3>4, <3>5 DEF LastAcked
  <2> QED BY <2>1, <2>3, <2>4, <2>5, <2>6 DEF VoiceInv
<1> QED BY <1>2, <1>3 DEF SendFails

\* A conversation that has not begun.
LEMMA VoiceInitially == VoiceInit => VoiceInv
<1> SUFFICES ASSUME VoiceInit PROVE VoiceInv
  OBVIOUS
<1>1. HerdrType
  BY DEF VoiceInit, HerdrType
<1>2. /\ last = None /\ pending = None /\ turns = 0 /\ stage = "listening" /\ req \in Request
      /\ sent = <<>> /\ withdrawn = {} /\ dryRun \in BOOLEAN
  BY NoRequestType DEF VoiceInit
<1>3. Len(sent) = 0 /\ sent \in Seq(Prompts)
  BY <1>2
<1>4. LoopType
  BY <1>2, <1>3 DEF LoopType, Resolving, Addressing
<1>5. TurnOK /\ PendingOK /\ AddressOK /\ LastOK /\ RefOK
  BY <1>2, <1>3 DEF TurnOK, PendingOK, AddressOK, LastOK, RefOK, Resolving, Addressing
<1>6. RefersToLastSent
  BY <1>3 DEF RefersToLastSent
<1> QED BY <1>1, <1>4, <1>5, <1>6 DEF VoiceInv

\* Every step keeps every part of the invariant.
LEMMA VoiceStep == VoiceInv /\ [VoiceNext]_voiceVars => VoiceInv'
<1> SUFFICES ASSUME VoiceInv, [VoiceNext]_voiceVars PROVE VoiceInv'
  OBVIOUS
<1>1. CASE UNCHANGED voiceVars
  <2>1. HerdrType' /\ UNCHANGED loopVars /\ UNCHANGED <<stage, req>>
    BY <1>1 DEF voiceVars, loopVars, VoiceInv, HerdrType
  <2> QED BY <2>1, BehindItsBack
<1>2. CASE \E p \in Panes : Move(p) \/ AgentWorks(p) \/ Look(p)
  BY <1>2, HerdrStep
<1>3. CASE Hear
  BY <1>3, HearStep, ClarifyStep DEF Hear
<1>4. CASE RuntimeFails \/ AwaitSettled \/ AwaitTimeout
  <2>1. Return /\ UNCHANGED loopVars /\ UNCHANGED herdrVars
    BY <1>4 DEF RuntimeFails, AwaitSettled, AwaitTimeout, loopVars
  <2> QED BY <2>1, TurnReturns
<1>5. CASE Focused \/ Resolve \/ Announce \/ SendAccepted \/ SendFails
  BY <1>5, FocusedStep, ResolveStep, AnnounceStep, AcceptedStep, FailsStep
<1> QED BY <1>1, <1>2, <1>3, <1>4, <1>5 DEF VoiceNext, Turn

\* The invariant holds in every reachable state.
LEMMA VoiceInvariant == VoiceSpec => []VoiceInv
BY VoiceInitially, VoiceStep, PTL DEF VoiceSpec

---------------------------------------------------------------------------
\* The theorems

\* Only a call of Instruct makes sent longer.
LEMMA OnlySends ==
  ASSUME VoiceInv, [VoiceNext]_voiceVars, Len(sent') > Len(sent)
  PROVE  /\ stage = "send" /\ UNCHANGED <<turns, withdrawn>> /\ Running(req.agent.pane)
         /\ \E ack \in BOOLEAN : sent' = Append(sent, Prompt(ack))
<1>0. Len(sent) \in Nat /\ sent' # sent
  BY DEF VoiceInv, LoopType
<1>1. SendAccepted \/ SendFails
  <2>1. ~UNCHANGED voiceVars
    BY <1>0 DEF voiceVars
  <2>2. ~\E p \in Panes : Move(p) \/ AgentWorks(p) \/ Look(p)
    BY <1>0 DEF Move, AgentWorks, Look
  <2>3. ~Hear
    BY <1>0 DEF Hear, HearQuit, HearStatus, HearInstruct, HearClarify
  <2>4. ~(RuntimeFails \/ AwaitSettled \/ AwaitTimeout \/ Focused \/ Resolve \/ Announce)
    BY <1>0 DEF RuntimeFails, AwaitSettled, AwaitTimeout, Focused, Resolve, Announce
  <2> QED BY <2>1, <2>2, <2>3, <2>4 DEF VoiceNext, Turn
<1>2. stage = "send" /\ UNCHANGED <<turns, withdrawn>>
  BY <1>1 DEF SendAccepted, SendFails
<1>3. /\ Running(req.agent.pane)
      /\ sent' = Append(sent, Prompt(TRUE)) \/ sent' = Append(sent, Prompt(FALSE))
  BY <1>0, <1>1 DEF SendAccepted, SendFails
<1> QED BY <1>2, <1>3

\* A pronoun is expanded with the last instruction herdr acknowledged, however
\* many sends failed, were dropped or were held back for a question in between,
\* and with the kind of the agent that got it if the pane still ran the agent
\* that was listed there.
THEOREM PronounsReferToLastSent == VoiceSpec => []RefersToLastSent
<1>1. VoiceInv => RefersToLastSent
  BY DEF VoiceInv
<1> QED BY <1>1, VoiceInvariant, PTL

\* An instruction reaches at most one pane, once, and never after the user has
\* given another or asked for the status instead of answering the question.
THEOREM InstructionReachesOnePane == VoiceSpec => HeldInstructionOnce
<1> DEFINE Once == Len(sent') > Len(sent) =>
                     LET t == sent'[Len(sent')].turn IN
                     /\ t = turns /\ t \notin withdrawn
                     /\ \A i \in 1 .. Len(sent) : sent[i].turn # t
<1>1. VoiceInv /\ [VoiceNext]_voiceVars => Once
  <2> SUFFICES ASSUME VoiceInv, [VoiceNext]_voiceVars, Len(sent') > Len(sent)
               PROVE  Open(sent'[Len(sent')].turn)
    BY DEF Open
  <2>1. PICK ack \in BOOLEAN : sent' = Append(sent, Prompt(ack))
    BY OnlySends
  <2>2. stage = "send" /\ UNCHANGED <<turns, withdrawn>> /\ Running(req.agent.pane)
    BY OnlySends
  <2>3. sent'[Len(sent')] = Prompt(ack)
    BY <2>1, <2>2, Sending
  <2>4. sent'[Len(sent')].turn = req.turn
    BY <2>3 DEF Prompt
  <2>5. Open(req.turn)
    BY <2>2 DEF VoiceInv, TurnOK, Addressing
  <2> QED BY <2>4, <2>5
<1> QED BY <1>1, VoiceInvariant, PTL DEF VoiceSpec, HeldInstructionOnce

\* Whatever the panes do between the listing and the send, the agent addressed
\* matched the words when it was listed, and it was the only one, the user's
\* choice, or the one the conversation was with.
THEOREM AddresseeNeverGuessed == VoiceSpec => NeverGuesses
<1> DEFINE Chosen == Len(sent') > Len(sent) =>
                       /\ MatchesQuery(req.agent, req.target)
                       /\ \/ req.how = "answered" /\ Cardinality(req.listing) > 1
                          \/ req.listing = {req.agent}
                          \/ last # None /\ (\/ last.agent.who = req.agent.who
                                             \/ last.agent.session = "")
<1>1. VoiceInv /\ [VoiceNext]_voiceVars => Chosen
  <2> SUFFICES ASSUME VoiceInv, [VoiceNext]_voiceVars, Len(sent') > Len(sent)
               PROVE  /\ MatchesQuery(req.agent, req.target)
                      /\ \/ req.how = "answered" /\ Cardinality(req.listing) > 1
                         \/ req.listing = {req.agent}
                         \/ last # None /\ Same(last.agent, req.agent)
    BY DEF Same
  <2>1. stage = "send"
    BY OnlySends
  <2> QED BY <2>1 DEF VoiceInv, AddressOK, Addressing
<1> QED BY <1>1, VoiceInvariant, PTL DEF VoiceSpec, NeverGuesses

---------------------------------------------------------------------------
(* What an utterance is heard as                                           *)

\* A set of numbers that is not empty has a least member.
LEMMA LeastExists ==
  ASSUME NEW T, T \subseteq Nat, T # {}
  PROVE  \E x \in T : \A y \in T : x <= y
<1> DEFINE R == OpToRel(<, Nat)
<1>1. \A x, y \in Nat : x < y => <<x, y>> \in R
  BY DEF OpToRel
<1>2. IsWellFoundedOn(R, Nat)
  BY NatLessThanWellFounded
<1> HIDE DEF R
<1>3. PICK x \in T : \A y \in T : ~ (<<y, x>> \in R)
  BY <1>2, WFMin
<1>4. \A y \in T : ~ (y < x)
  BY <1>1, <1>3
<1>5. \A y \in T : x <= y
  BY <1>4
<1> QED
  BY <1>5

KindWords == {"claude", "codex"}

\* Words the grammar may take without naming a kind of agent.
Plain == Keywords \ KindWords

\* A phrase and its target.
TargetRec == [kind : KindWords \cup {NoWord}, workspace : Seq(Words), name : Words \cup {NoWord},
              thisWorkspace : BOOLEAN, focused : BOOLEAN, ordinal : Nat,
              pane : PaneLabels \cup {NoWord}, state : StateWords \cup {NoWord}]
Phrase == [target : TargetRec, next : Nat, ok : BOOLEAN]

\* The n words from i are words of the grammar.
Took(w, i, n) == n \in Nat /\ \A x \in i .. i + n - 1 : At(w, x) \in Plain

\* Word x is the label word at its distance from l, where the label starts.
InLabel(w, label, x, l) ==
  x + 1 - l \in 1 .. Len(label) /\ At(w, x) = label[x + 1 - l]

\* Word x is the grammar's, the kind addressed at k, the name at m, or of the label.
Explained(w, name, label, x, k, m, l) ==
  \/ At(w, x) \in Plain
  \/ x = k /\ At(w, x) \in KindWords
  \/ x = m /\ At(w, x) = name /\ name # NoWord
  \/ InLabel(w, label, x, l)

\* The phrase p from i: each of its words is explained by its target.
Heard(w, i, p, k, m, l) ==
  /\ p \in Phrase /\ i <= p.next
  /\ \A x \in i .. p.next - 1 : Explained(w, p.target.name, p.target.workspace, x, k, m, l)

\* The same of a phrase without a workspace clause.
HeardBare(w, i, p, k, m) == Heard(w, i, p, k, m, 0) /\ p.target.workspace = <<>>

\* Positions past either end of an utterance hold no word.
LEMMA AtIs ==
  ASSUME NEW w \in Seq(Words), NEW i \in Int
  PROVE  /\ i \in 1 .. Len(w) => At(w, i) = w[i] /\ At(w, i) \in Words /\ At(w, i) # NoWord
         /\ i \notin 1 .. Len(w) => At(w, i) = NoWord
<1>1. i \in 1 .. Len(w) => w[i] \in Words
  OBVIOUS
<1>2. i \in 1 .. Len(w) => At(w, i) = w[i]
  BY DEF At
<1>3. i \notin 1 .. Len(w) => At(w, i) = NoWord
  BY DEF At
<1> QED BY <1>1, <1>2, <1>3 DEF Words

\* A phrase of two words.
LEMMA PrefixOfTwo ==
  ASSUME NEW w, NEW i \in Int, NEW a, NEW b
  PROVE  HasPrefix(w, i, <<a, b>>) <=> At(w, i) = a /\ At(w, i + 1) = b
<1>1. Len(<<a, b>>) = 2 /\ <<a, b>>[1] = a /\ <<a, b>>[2] = b
  OBVIOUS
<1>2. i + 1 - 1 = i /\ i + 2 - 1 = i + 1 /\ 1 .. 2 = {1, 2}
  OBVIOUS
<1> QED BY <1>1, <1>2 DEF HasPrefix

\* A phrase of three words.
LEMMA PrefixOfThree ==
  ASSUME NEW w, NEW i \in Int, NEW a, NEW b, NEW c, HasPrefix(w, i, <<a, b, c>>)
  PROVE  At(w, i) = a /\ At(w, i + 1) = b /\ At(w, i + 2) = c
<1>1. /\ Len(<<a, b, c>>) = 3 /\ <<a, b, c>>[1] = a /\ <<a, b, c>>[2] = b
      /\ <<a, b, c>>[3] = c
  OBVIOUS
<1>2. i + 1 - 1 = i /\ i + 2 - 1 = i + 1 /\ i + 3 - 1 = i + 2 /\ 1 .. 3 = {1, 2, 3}
  OBVIOUS
<1> QED BY <1>1, <1>2 DEF HasPrefix

\* A phrase of four words.
LEMMA PrefixOfFour ==
  ASSUME NEW w, NEW i \in Int, NEW a, NEW b, NEW c, NEW d, HasPrefix(w, i, <<a, b, c, d>>)
  PROVE  At(w, i) = a /\ At(w, i + 1) = b /\ At(w, i + 2) = c /\ At(w, i + 3) = d
<1>1. /\ Len(<<a, b, c, d>>) = 4 /\ <<a, b, c, d>>[1] = a /\ <<a, b, c, d>>[2] = b
      /\ <<a, b, c, d>>[3] = c /\ <<a, b, c, d>>[4] = d
  OBVIOUS
<1>2. i + 1 - 1 = i /\ i + 2 - 1 = i + 1 /\ i + 3 - 1 = i + 2 /\ i + 4 - 1 = i + 3
      /\ 1 .. 4 = {1, 2, 3, 4}
  OBVIOUS
<1> QED BY <1>1, <1>2 DEF HasPrefix

\* A phrase of five words.
LEMMA PrefixOfFive ==
  ASSUME NEW w, NEW i \in Int, NEW a, NEW b, NEW c, NEW d, NEW e,
         HasPrefix(w, i, <<a, b, c, d, e>>)
  PROVE  /\ At(w, i) = a /\ At(w, i + 1) = b /\ At(w, i + 2) = c /\ At(w, i + 3) = d
         /\ At(w, i + 4) = e
<1>1. /\ Len(<<a, b, c, d, e>>) = 5 /\ <<a, b, c, d, e>>[1] = a /\ <<a, b, c, d, e>>[2] = b
      /\ <<a, b, c, d, e>>[3] = c /\ <<a, b, c, d, e>>[4] = d /\ <<a, b, c, d, e>>[5] = e
  OBVIOUS
<1>2. /\ i + 1 - 1 = i /\ i + 2 - 1 = i + 1 /\ i + 3 - 1 = i + 2 /\ i + 4 - 1 = i + 3
      /\ i + 5 - 1 = i + 4 /\ 1 .. 5 = {1, 2, 3, 4, 5}
  OBVIOUS
<1> QED BY <1>1, <1>2 DEF HasPrefix

\* FirstIn is the least member, or 0.
LEMMA FirstInIs ==
  ASSUME NEW S \in SUBSET Nat
  PROVE  /\ S = {} => FirstIn(S) = 0
         /\ S # {} => FirstIn(S) \in S /\ \A y \in S : FirstIn(S) <= y
<1>1. S # {} => \E x \in S : \A y \in S : x <= y
  BY LeastExists
<1> QED BY <1>1 DEF FirstIn

\* A kind of agent is one word or two, the second of which is "code".
LEMMA MatchKindIs ==
  ASSUME NEW w, NEW i \in Nat
  PROVE  /\ MatchKind(w, i) \in 0 .. 2
         /\ MatchKind(w, i) > 0 <=> At(w, i) \in KindWords
         /\ MatchKind(w, i) = 2 => At(w, i + 1) = "code"
         /\ At(w, i + 1) # "code" /\ At(w, i) \in KindWords => MatchKind(w, i) = 1
<1>1. HasPrefix(w, i, <<"claude", "code">>) <=> At(w, i) = "claude" /\ At(w, i + 1) = "code"
  BY PrefixOfTwo
<1> HIDE DEF HasPrefix, At
<1> QED BY <1>1 DEF MatchKind, KindWords

\* No word is taken.
LEMMA TookNone ==
  ASSUME NEW w, NEW i \in Nat
  PROVE  Took(w, i, 0)
BY DEF Took

\* One more word of the grammar is taken.
LEMMA TookMore ==
  ASSUME NEW w, NEW i \in Nat, NEW n \in Nat, Took(w, i, n), At(w, i + n) \in Plain
  PROVE  Took(w, i, n + 1)
BY DEF Took

\* A state qualifier is made of words of the grammar.
LEMMA StateQualifierTakes ==
  ASSUME NEW w, NEW i \in Nat
  PROVE  /\ Took(w, i, MatchStateQualifier(w, i).n)
         /\ MatchStateQualifier(w, i).state \in StateWords \cup {NoWord}
<1>1. \A n \in Nat : Took(w, i, n) => /\ Took(w, i, StateAfter(w, i, n).n)
                                      /\ StateAfter(w, i, n).state \in StateWords \cup {NoWord}
  <2> SUFFICES ASSUME NEW n \in Nat, Took(w, i, n)
               PROVE  /\ Took(w, i, StateAfter(w, i, n).n)
                      /\ StateAfter(w, i, n).state \in StateWords \cup {NoWord}
    OBVIOUS
  <2> DEFINE more == At(w, i + n) \in {"currently", "now"}
             a == IF more THEN n + 1 ELSE n
  <2>1. {"currently", "now"} \cup StateWords \subseteq Plain
    BY DEF Plain, Keywords, KindWords, StateWords, Fillers
  <2>2. Took(w, i, a) /\ a \in Nat
    <3>1. CASE more
      <4>1. At(w, i + n) \in Plain
        BY <2>1, <3>1
      <4>2. Took(w, i, n + 1)
        BY <4>1, TookMore
      <4> QED BY <3>1, <4>2
    <3>2. CASE ~more
      BY <3>2
    <3> QED BY <3>1, <3>2
  <2> HIDE DEF a
  <2>3. At(w, i + a) \in StateWords => Took(w, i, a + 1)
    <3>1. At(w, i + a) \in StateWords => At(w, i + a) \in Plain
      BY <2>1
    <3> QED BY <2>2, <3>1, TookMore
  <2>4. StateAfter(w, i, n) = IF At(w, i + a) \in StateWords
                              THEN [state |-> At(w, i + a), n |-> a + 1]
                              ELSE [state |-> NoWord, n |-> 0]
    BY DEF StateAfter, a
  <2>5. CASE At(w, i + a) \in StateWords
    <3>1. StateAfter(w, i, n) = [state |-> At(w, i + a), n |-> a + 1]
      BY <2>4, <2>5
    <3>2. StateAfter(w, i, n).n = a + 1 /\ StateAfter(w, i, n).state = At(w, i + a)
      BY <3>1
    <3> QED BY <2>3, <2>5, <3>2
  <2>6. CASE At(w, i + a) \notin StateWords
    <3>1. StateAfter(w, i, n) = [state |-> NoWord, n |-> 0]
      BY <2>4, <2>6
    <3>2. StateAfter(w, i, n).n = 0 /\ StateAfter(w, i, n).state = NoWord
      BY <3>1
    <3> QED BY <3>2, TookNone
  <2> QED BY <2>5, <2>6
<1>2. {"that", "is", "that's"} \subseteq Plain
  BY DEF Plain, Keywords, KindWords, Separators
<1>3. HasPrefix(w, i, <<"that", "is">>) => Took(w, i, 2)
  <2> SUFFICES ASSUME HasPrefix(w, i, <<"that", "is">>) PROVE Took(w, i, 2)
    OBVIOUS
  <2>1. At(w, i) \in Plain /\ At(w, i + 1) \in Plain
    BY <1>2, PrefixOfTwo
  <2>2. i .. i + 2 - 1 = {i, i + 1}
    OBVIOUS
  <2> QED BY <2>1, <2>2 DEF Took
<1>4. At(w, i) = "that's" => Took(w, i, 1)
  BY <1>2, TookNone DEF Took
<1> QED BY <1>1, <1>3, <1>4, TookNone DEF MatchStateQualifier

\* So is "I'm looking at".
LEMMA LookingAtTakes ==
  ASSUME NEW w, NEW i \in Nat
  PROVE  Took(w, i, MatchLookingAt(w, i))
<1>1. {"i'm", "i", "am", "looking", "at"} \subseteq Plain
  BY DEF Plain, Keywords, KindWords
<1>2. CASE HasPrefix(w, i, <<"i'm", "looking", "at">>)
  <2>1. At(w, i) \in Plain /\ At(w, i + 1) \in Plain /\ At(w, i + 2) \in Plain
    BY <1>1, <1>2, PrefixOfThree
  <2>2. i .. i + 3 - 1 = {i, i + 1, i + 2}
    OBVIOUS
  <2>3. Took(w, i, 3)
    BY <2>1, <2>2 DEF Took
  <2> QED BY <1>2, <2>3 DEF MatchLookingAt
<1>3. CASE /\ ~HasPrefix(w, i, <<"i'm", "looking", "at">>)
           /\ HasPrefix(w, i, <<"i", "am", "looking", "at">>)
  <2>1. /\ At(w, i) \in Plain /\ At(w, i + 1) \in Plain /\ At(w, i + 2) \in Plain
        /\ At(w, i + 3) \in Plain
    BY <1>1, <1>3, PrefixOfFour
  <2>2. i .. i + 4 - 1 = {i, i + 1, i + 2, i + 3}
    OBVIOUS
  <2>3. Took(w, i, 4)
    BY <2>1, <2>2 DEF Took
  <2> QED BY <1>3, <2>3 DEF MatchLookingAt
<1> QED BY <1>2, <1>3, TookNone DEF MatchLookingAt

\* A target with no word about it.
LEMMA NoTargetType == NoTarget \in TargetRec /\ NoTarget.workspace = <<>> /\ NoTarget.name = NoWord
<1>1. <<>> \in Seq(Words)
  OBVIOUS
<1> QED BY <1>1 DEF NoTarget, TargetRec

\* The same target said with n more words of the grammar.
LEMMA HeardOn ==
  ASSUME NEW w, NEW i \in Nat, NEW p, NEW k, NEW m, NEW l, Heard(w, i, p, k, m, l),
         NEW q \in Phrase, NEW n, Took(w, p.next, n), q.next = p.next + n,
         q.target.name = p.target.name, q.target.workspace = p.target.workspace
  PROVE  Heard(w, i, q, k, m, l)
<1>1. p.next \in Nat /\ n \in Nat /\ i <= q.next
  BY DEF Heard, Phrase, Took
<1>2. \A x \in i .. q.next - 1 : x \in i .. p.next - 1 \/ x \in p.next .. p.next + n - 1
  BY <1>1
<1>3. \A x \in p.next .. p.next + n - 1 : At(w, x) \in Plain
  BY DEF Took
<1> QED BY <1>1, <1>2, <1>3 DEF Heard, Explained

\* A word of the grammar said before the phrase.
LEMMA HeardAfter ==
  ASSUME NEW w, NEW i \in Nat, NEW p, NEW k, NEW m, NEW l, Heard(w, i + 1, p, k, m, l),
         At(w, i) \in Plain
  PROVE  Heard(w, i, p, k, m, l)
<1>1. p.next \in Nat /\ i <= p.next
  BY DEF Heard, Phrase
<1>2. \A x \in i .. p.next - 1 : x = i \/ x \in i + 1 .. p.next - 1
  BY <1>1
<1> QED BY <1>1, <1>2 DEF Heard, Explained

\* The kind at k, "agent" and the name after it.
LEMMA AgentHeard ==
  ASSUME NEW w \in Seq(Words), NEW k \in Nat, NEW state \in StateWords \cup {NoWord}
  PROVE  \E m \in Nat : HeardBare(w, k, AgentPhrase(w, k, MatchKind(w, k), state), k, m)
<1> DEFINE kn == MatchKind(w, k)
           a == k + kn
           agent == At(w, a) = "agent"
           named == agent /\ At(w, a + 1) \in {"named", "called"} /\ At(w, a + 2) # NoWord
           kind == IF kn > 0 THEN w[k] ELSE NoWord
           name == IF named THEN w[a + 2] ELSE NoWord
           next == IF named THEN a + 3 ELSE IF agent THEN a + 1 ELSE a
           t == [NoTarget EXCEPT !.kind = kind, !.state = state, !.name = name]
           p == AgentPhrase(w, k, kn, state)
<1>1. /\ kn \in 0 .. 2 /\ (kn > 0 <=> At(w, k) \in KindWords)
      /\ kn = 2 => At(w, k + 1) = "code"
  BY MatchKindIs
<1>2. a \in Nat /\ next \in Nat /\ k <= next
  BY <1>1
<1>3. NoWord \notin Words
  BY DEF Words
<1>4. kind \in KindWords \cup {NoWord}
  <2>1. NoWord \notin KindWords
    BY Zenon DEF NoWord, KindWords
  <2>2. kn > 0 => w[k] \in KindWords
    BY <1>1, <2>1, AtIs
  <2> QED BY <2>2
<1>5. /\ name \in Words \cup {NoWord}
      /\ named => name = At(w, a + 2) /\ name # NoWord
  BY <1>2, AtIs
<1> HIDE DEF kn, kind, name
<1>6. p = [target |-> t, next |-> next, ok |-> kn > 0 \/ agent]
  BY DEF AgentPhrase, kn, kind, name
<1> HIDE DEF p
<1>7. t \in TargetRec /\ t.workspace = <<>> /\ t.name = name
  BY <1>4, <1>5, NoTargetType DEF TargetRec
<1> HIDE DEF t
<1>8. p \in Phrase /\ p.target.workspace = <<>> /\ p.target.name = name /\ p.next = next
  BY <1>2, <1>6, <1>7 DEF Phrase
<1>9. {"code", "agent", "named", "called"} \subseteq Plain
  BY DEF Plain, Keywords, KindWords
<1>10. \A x \in k .. a - 1 : Explained(w, name, <<>>, x, k, a + 2, 0)
  <2> SUFFICES ASSUME NEW x \in k .. a - 1 PROVE Explained(w, name, <<>>, x, k, a + 2, 0)
    OBVIOUS
  <2>1. CASE x = k
    BY <1>1, <2>1 DEF Explained
  <2>2. CASE x # k
    <3>1. x = k + 1 /\ kn = 2
      BY <1>1, <2>2
    <3> QED BY <1>1, <1>9, <3>1 DEF Explained
  <2> QED BY <2>1, <2>2
<1>11. agent => Explained(w, name, <<>>, a, k, a + 2, 0)
  BY <1>9 DEF Explained
<1>12. named => /\ Explained(w, name, <<>>, a + 1, k, a + 2, 0)
                /\ Explained(w, name, <<>>, a + 2, k, a + 2, 0)
  BY <1>5, <1>9 DEF Explained
<1>13. \A x \in k .. next - 1 :
         \/ x \in k .. a - 1
         \/ x = a /\ agent
         \/ x \in {a + 1, a + 2} /\ named
  BY <1>1, <1>2
<1>14. \A x \in k .. next - 1 : Explained(w, name, <<>>, x, k, a + 2, 0)
  <2> HIDE DEF agent, named, next, a
  <2> QED BY <1>10, <1>11, <1>12, <1>13
<1>15. HeardBare(w, k, p, k, a + 2)
  BY <1>2, <1>8, <1>14 DEF HeardBare, Heard
<1>16. a + 2 \in Nat
  BY <1>2
<1> HIDE DEF a
<1> QED BY <1>15, <1>16 DEF p, kn

\* The state qualifier after the agent.
LEMMA QualifiedHeard ==
  ASSUME NEW w, NEW i \in Nat, NEW p, NEW k, NEW m, HeardBare(w, i, p, k, m)
  PROVE  HeardBare(w, i, Qualified(w, p), k, m)
<1> DEFINE q == MatchStateQualifier(w, p.next)
           t == [p.target EXCEPT !.state = q.state]
           r == [target |-> t, next |-> p.next + q.n, ok |-> TRUE]
<1>1. /\ p \in Phrase /\ p.next \in Nat /\ p.target \in TargetRec
      /\ p.target.workspace = <<>> /\ Heard(w, i, p, k, m, 0)
  BY DEF HeardBare, Heard, Phrase
<1>2. Took(w, p.next, q.n) /\ q.n \in Nat /\ q.state \in StateWords \cup {NoWord}
  BY <1>1, StateQualifierTakes DEF Took
<1> HIDE DEF q
<1>3. t \in TargetRec /\ t.name = p.target.name /\ t.workspace = p.target.workspace
  BY <1>1, <1>2 DEF TargetRec
<1>4. Qualified(w, p) \in {p, r}
  BY DEF Qualified, WithState, q
<1> HIDE DEF t
<1>5. /\ r \in Phrase /\ r.next = p.next + q.n /\ r.target = t
  BY <1>1, <1>2, <1>3 DEF Phrase
<1> HIDE DEF r
<1>6. HeardBare(w, i, r, k, m)
  BY <1>1, <1>2, <1>3, <1>5, HeardOn DEF HeardBare
<1> QED BY <1>4, <1>6

\* "I'm looking at" after the agent.
LEMMA LookedAtHeard ==
  ASSUME NEW w, NEW i \in Nat, NEW p, NEW k, NEW m, HeardBare(w, i, p, k, m)
  PROVE  HeardBare(w, i, LookedAt(w, p), k, m)
<1> DEFINE n == MatchLookingAt(w, p.next)
           focused == n > 0
           t == [p.target EXCEPT !.focused = focused]
           r == [target |-> t, next |-> p.next + n, ok |-> p.ok \/ focused]
<1>1. /\ p \in Phrase /\ p.next \in Nat /\ p.target \in TargetRec
      /\ p.target.workspace = <<>> /\ Heard(w, i, p, k, m, 0)
  BY DEF HeardBare, Heard, Phrase
<1>2. Took(w, p.next, n) /\ n \in Nat
  BY <1>1, LookingAtTakes DEF Took
<1>3. LookedAt(w, p) = r
  BY DEF LookedAt, WithLook, n
<1>4. focused \in BOOLEAN
  OBVIOUS
<1> HIDE DEF n, focused
<1>5. t \in TargetRec /\ t.name = p.target.name /\ t.workspace = p.target.workspace
  BY <1>1, <1>4 DEF TargetRec
<1> HIDE DEF t
<1>6. r \in Phrase /\ r.next = p.next + n /\ r.target = t
  BY <1>1, <1>2, <1>4, <1>5 DEF Phrase
<1> HIDE DEF r
<1>7. HeardBare(w, i, r, k, m)
  BY <1>1, <1>2, <1>5, <1>6, HeardOn DEF HeardBare
<1> QED BY <1>3, <1>7

\* "[state] kind [agent [named x]]" and what qualifies it.
LEMMA NamedAgentHeard ==
  ASSUME NEW w \in Seq(Words), NEW i \in Nat
  PROVE  \E k, m \in Nat : HeardBare(w, i, NamedAgent(w, i), k, m)
<1> DEFINE stateFirst == At(w, i) \in StateWords /\ MatchKind(w, i + 1) > 0
           k == IF stateFirst THEN i + 1 ELSE i
           state == IF stateFirst THEN w[i] ELSE NoWord
           p == AgentPhrase(w, k, MatchKind(w, k), state)
<1>1. StateWords \subseteq Plain
  BY DEF Plain, Keywords, KindWords, StateWords
<1>2. k \in Nat /\ state \in StateWords \cup {NoWord}
  <2>1. NoWord \notin StateWords
    BY Zenon DEF NoWord, StateWords
  <2> QED BY <2>1, AtIs
<1> HIDE DEF state
<1>3. PICK m \in Nat : HeardBare(w, k, p, k, m)
  BY <1>2, AgentHeard
<1>4. HeardBare(w, i, p, k, m)
  <2>1. CASE stateFirst
    BY <1>1, <1>3, <2>1, HeardAfter DEF HeardBare
  <2>2. CASE ~stateFirst
    BY <1>3, <2>2
  <2> QED BY <2>1, <2>2
<1> HIDE DEF k, p
<1>5. HeardBare(w, i, LookedAt(w, Qualified(w, p)), k, m)
  BY <1>4, QualifiedHeard, LookedAtHeard
<1>6. NamedAgent(w, i) = LookedAt(w, Qualified(w, p))
  BY DEF NamedAgent, p, k, state
<1> QED BY <1>2, <1>3, <1>5, <1>6

\* The words from j to before end are the grammar's or the label's.
LabelTakes(w, j, end, label, l) ==
  \A x \in j .. end - 1 : At(w, x) \in Plain \/ InLabel(w, label, x, l)

\* The words of the grammar are words.
LEMMA KeywordsAreWords == NoWord \notin Keywords
BY Zenon DEF NoWord, Keywords, Articles, Separators, StateWords, Fillers

\* The word "workspace" after a label, or none.
LEMMA WorkspaceKeywordIs ==
  ASSUME NEW w, NEW j \in Nat
  PROVE  \/ WorkspaceKeyword(w, j) = 0
         \/ /\ WorkspaceKeyword(w, j) \in j .. j + 2
            /\ At(w, WorkspaceKeyword(w, j)) = "workspace"
<1> DEFINE S == {x \in j .. j + 2 : At(w, x) = "workspace"}
<1>1. S \in SUBSET Nat /\ \A x \in S : x \in j .. j + 2 /\ At(w, x) = "workspace"
  OBVIOUS
<1>2. WorkspaceKeyword(w, j) = FirstIn(S)
  BY DEF WorkspaceKeyword
<1> HIDE DEF S
<1> QED BY <1>1, <1>2, FirstInIs

\* The clause r from i, whose label starts at j or after it, at l.
ClauseOK(w, i, j, r, l) ==
  /\ r.label \in Seq(Words) /\ r.this \in BOOLEAN /\ r.n \in Nat /\ l \in Nat
  /\ r.n > 0 => i + r.n > j
  /\ LabelTakes(w, j, i + r.n, r.label, l)

\* A clause is well formed if its parts are.
LEMMA ClauseIs ==
  ASSUME NEW w, NEW i \in Nat, NEW j \in Nat, NEW label \in Seq(Words), NEW this \in BOOLEAN,
         NEW n \in Nat, NEW l \in Nat, i + n > j, LabelTakes(w, j, i + n, label, l)
  PROVE  ClauseOK(w, i, j, [label |-> label, this |-> this, n |-> n], l)
BY DEF ClauseOK

\* What a workspace clause takes: "workspace", "this" and its label.
LEMMA LabelIs ==
  ASSUME NEW w \in Seq(Words), NEW i \in Nat, NEW j \in Nat, i < j
  PROVE  LET r == MatchLabel(w, i, j, WorkspaceKeyword(w, j))
         IN  \E l : ClauseOK(w, i, j, r, l)
<1> DEFINE keyword == WorkspaceKeyword(w, j)
           r == MatchLabel(w, i, j, keyword)
<1>1. SUFFICES \E l : ClauseOK(w, i, j, r, l)
  OBVIOUS
<1>2. keyword = 0 \/ (keyword \in j .. j + 2 /\ At(w, keyword) = "workspace")
  BY WorkspaceKeywordIs
<1>3. {"this", "workspace"} \subseteq Plain
  BY DEF Plain, Keywords, KindWords
<1>9. \/ r = NoWorkspace
      \/ /\ HasPrefix(w, j, <<"this", "workspace">>)
         /\ r = [label |-> <<>>, this |-> TRUE, n |-> j + 2 - i]
      \/ /\ At(w, j) = "workspace" /\ ~EndsLabel(At(w, j + 1))
         /\ r = [label |-> <<w[j + 1]>>, this |-> FALSE, n |-> j + 2 - i]
      \/ /\ keyword > j
         /\ r = [label |-> SubSeq(w, j, keyword - 1), this |-> FALSE, n |-> keyword + 1 - i]
      \/ /\ j <= Len(w)
         /\ r = [label |-> <<w[j]>>, this |-> FALSE, n |-> j + 1 - i]
  <2>1. j > Len(w) \/ j <= Len(w)
    OBVIOUS
  <2> HIDE DEF keyword
  <2> QED BY <2>1 DEF MatchLabel
<1> HIDE DEF keyword, r
<1>4. CASE r = NoWorkspace
  <2>1. r.label = <<>> /\ r.this \in BOOLEAN /\ r.n = 0 /\ <<>> \in Seq(Words)
    BY <1>4 DEF NoWorkspace
  <2>2. LabelTakes(w, j, i, <<>>, 0)
    BY DEF LabelTakes
  <2>3. i + r.n = i /\ ~(r.n > 0) /\ r.n \in Nat
    BY <2>1
  <2>4. LabelTakes(w, j, i + r.n, r.label, 0)
    BY <2>1, <2>2, <2>3
  <2>5. ClauseOK(w, i, j, r, 0)
    BY <2>1, <2>3, <2>4 DEF ClauseOK
  <2> QED BY <2>5
<1>5. CASE /\ HasPrefix(w, j, <<"this", "workspace">>)
           /\ r = [label |-> <<>>, this |-> TRUE, n |-> j + 2 - i]
  <2>1. At(w, j) \in Plain /\ At(w, j + 1) \in Plain
    BY <1>3, <1>5, PrefixOfTwo
  <2>2. j .. i + (j + 2 - i) - 1 = {j, j + 1}
    OBVIOUS
  <2>3. LabelTakes(w, j, i + (j + 2 - i), <<>>, 0)
    BY <2>1, <2>2 DEF LabelTakes
  <2>4. j + 2 - i \in Nat /\ i + (j + 2 - i) > j /\ <<>> \in Seq(Words)
    OBVIOUS
  <2>5. ClauseOK(w, i, j, r, 0)
    BY <1>5, <2>3, <2>4, ClauseIs
  <2> QED BY <2>5
<1>6. CASE /\ At(w, j) = "workspace" /\ ~EndsLabel(At(w, j + 1))
           /\ r = [label |-> <<w[j + 1]>>, this |-> FALSE, n |-> j + 2 - i]
  <2>1. At(w, j + 1) = w[j + 1] /\ w[j + 1] \in Words
    BY <1>6, AtIs DEF EndsLabel
  <2>2. /\ <<w[j + 1]>> \in Seq(Words) /\ Len(<<w[j + 1]>>) = 1
        /\ <<w[j + 1]>>[1] = w[j + 1]
    BY <2>1
  <2>3. InLabel(w, <<w[j + 1]>>, j + 1, j + 1)
    BY <2>1, <2>2 DEF InLabel
  <2>4. j .. i + (j + 2 - i) - 1 = {j, j + 1}
    OBVIOUS
  <2>5. LabelTakes(w, j, i + (j + 2 - i), <<w[j + 1]>>, j + 1)
    BY <1>3, <1>6, <2>3, <2>4 DEF LabelTakes
  <2>6. j + 2 - i \in Nat /\ i + (j + 2 - i) > j /\ j + 1 \in Nat
    OBVIOUS
  <2>7. ClauseOK(w, i, j, r, j + 1)
    BY <1>6, <2>2, <2>5, <2>6, ClauseIs
  <2> QED BY <2>7
<1>7. CASE /\ keyword > j
           /\ r = [label |-> SubSeq(w, j, keyword - 1), this |-> FALSE, n |-> keyword + 1 - i]
  <2> DEFINE label == SubSeq(w, j, keyword - 1)
  <2>1. keyword \in Nat /\ keyword \in j .. j + 2 /\ At(w, keyword) = "workspace"
    BY <1>2, <1>7
  <2>2. keyword \in 1 .. Len(w) /\ j \in 1 .. Len(w)
    <3>1. At(w, keyword) # NoWord
      BY <1>3, <2>1, KeywordsAreWords DEF Plain
    <3>2. keyword \in 1 .. Len(w)
      BY <2>1, <3>1, AtIs
    <3>3. j >= 1
      OBVIOUS
    <3> QED BY <1>7, <2>1, <3>2, <3>3
  <2>3. /\ label \in Seq(Words) /\ Len(label) = keyword - j
        /\ \A x \in 1 .. keyword - j : label[x] = w[j + x - 1]
    BY <2>1, <2>2
  <2>4. LabelTakes(w, j, i + (keyword + 1 - i), label, j)
    <3> SUFFICES ASSUME NEW x \in j .. keyword
                 PROVE  At(w, x) \in Plain \/ InLabel(w, label, x, j)
      BY <2>1 DEF LabelTakes
    <3>1. CASE x = keyword
      BY <1>3, <2>1, <3>1
    <3>2. CASE x # keyword
      <4>1. x + 1 - j \in 1 .. keyword - j /\ j + (x + 1 - j) - 1 = x /\ x \in 1 .. Len(w)
        BY <2>1, <2>2, <3>2
      <4>2. label[x + 1 - j] = w[x] /\ At(w, x) = w[x]
        BY <2>3, <4>1, AtIs
      <4> QED BY <2>3, <4>1, <4>2 DEF InLabel
    <3> QED BY <3>1, <3>2
  <2>5. keyword + 1 - i \in Nat /\ i + (keyword + 1 - i) > j
    BY <1>7, <2>1
  <2> HIDE DEF label
  <2>6. ClauseOK(w, i, j, r, j)
    BY <1>7, <2>3, <2>4, <2>5, ClauseIs DEF label
  <2> QED BY <2>6
<1>8. CASE /\ j <= Len(w)
           /\ r = [label |-> <<w[j]>>, this |-> FALSE, n |-> j + 1 - i]
  <2>1. At(w, j) = w[j] /\ w[j] \in Words
    BY <1>8, AtIs
  <2>2. <<w[j]>> \in Seq(Words) /\ Len(<<w[j]>>) = 1 /\ <<w[j]>>[1] = w[j]
    BY <2>1
  <2>3. InLabel(w, <<w[j]>>, j, j)
    BY <2>1, <2>2 DEF InLabel
  <2>4. j .. i + (j + 1 - i) - 1 = {j}
    OBVIOUS
  <2>5. LabelTakes(w, j, i + (j + 1 - i), <<w[j]>>, j)
    BY <2>3, <2>4 DEF LabelTakes
  <2>6. j + 1 - i \in Nat /\ i + (j + 1 - i) > j
    OBVIOUS
  <2>7. ClauseOK(w, i, j, r, j)
    BY <1>8, <2>2, <2>5, <2>6, ClauseIs
  <2> QED BY <2>7
<1> QED BY <1>4, <1>5, <1>6, <1>7, <1>8, <1>9

\* A workspace clause that starts with the word at i.
LEMMA WorkspaceIs ==
  ASSUME NEW w \in Seq(Words), NEW i \in Nat, At(w, i) \in Plain
  PROVE  LET r == MatchWorkspace(w, i)
         IN  /\ r.label \in Seq(Words) /\ r.this \in BOOLEAN /\ r.n \in Nat
             /\ \E l \in Nat : LabelTakes(w, i, i + r.n, r.label, l)
<1> DEFINE j == IF At(w, i + 1) = "the" THEN i + 2 ELSE i + 1
           r == MatchLabel(w, i, j, WorkspaceKeyword(w, j))
<1>1. j \in Nat /\ i < j /\ \A x \in i .. j - 1 : At(w, x) \in Plain
  <2>1. "the" \in Plain
    BY DEF Plain, Keywords, KindWords, Articles
  <2> QED BY <2>1
<1> HIDE DEF j
<1>2. MatchWorkspace(w, i) = r
  BY DEF MatchWorkspace, j
<1>3. PICK l : ClauseOK(w, i, j, r, l)
  BY <1>1, LabelIs
<1> HIDE DEF r
<1>4. /\ r.label \in Seq(Words) /\ r.this \in BOOLEAN /\ r.n \in Nat /\ l \in Nat
      /\ r.n > 0 => i + r.n > j
      /\ LabelTakes(w, j, i + r.n, r.label, l)
  BY <1>3 DEF ClauseOK
<1>5. LabelTakes(w, i, i + r.n, r.label, l)
  <2> SUFFICES ASSUME NEW x \in i .. i + r.n - 1
               PROVE  At(w, x) \in Plain \/ InLabel(w, r.label, x, l)
    BY <1>4 DEF LabelTakes
  <2>1. x \in i .. j - 1 \/ x \in j .. i + r.n - 1
    BY <1>1, <1>4
  <2> QED BY <1>1, <1>4, <2>1 DEF LabelTakes
<1> QED BY <1>2, <1>4, <1>5

\* The agent and the workspace it is said to be in.
LEMMA LocatedAgentHeard ==
  ASSUME NEW w \in Seq(Words), NEW i \in Nat, NEW p, NEW k, NEW m, HeardBare(w, i, p, k, m),
         LocatedAgent(w, p).ok
  PROVE  \E l \in Nat : Heard(w, i, LocatedAgent(w, p), k, m, l)
<1> DEFINE ws == MatchWorkspace(w, p.next)
           here == [p.target EXCEPT !.thisWorkspace = TRUE]
           q == [target |-> here, next |-> p.next + 1, ok |-> TRUE]
           there == [p.target EXCEPT !.workspace = ws.label, !.thisWorkspace = ws.this]
           r == [target |-> there, next |-> p.next + ws.n, ok |-> TRUE]
<1>1. /\ p \in Phrase /\ p.next \in Nat /\ p.target \in TargetRec
      /\ p.target.workspace = <<>> /\ Heard(w, i, p, k, m, 0) /\ i <= p.next
  BY DEF HeardBare, Heard, Phrase
<1>2. {"here", "in", "and"} \subseteq Plain
  BY DEF Plain, Keywords, KindWords
<1>3. \/ LocatedAgent(w, p) = p
      \/ At(w, p.next) = "here" /\ LocatedAgent(w, p) = q
      \/ At(w, p.next) \in {"in", "and"} /\ LocatedAgent(w, p) = r
  <2>1. ~NotATarget.ok
    BY DEF NotATarget
  <2>2. p.ok
    BY <2>1 DEF LocatedAgent, WithWorkspace
  <2> QED BY <2>2 DEF LocatedAgent, WithWorkspace
<1>4. CASE LocatedAgent(w, p) = p
  BY <1>1, <1>4
<1>5. CASE At(w, p.next) = "here" /\ LocatedAgent(w, p) = q
  <2>1. /\ here \in TargetRec /\ here.name = p.target.name
        /\ here.workspace = p.target.workspace
    BY <1>1 DEF TargetRec
  <2> HIDE DEF here
  <2>2. q \in Phrase /\ q.next = p.next + 1 /\ q.target = here
    BY <1>1, <2>1 DEF Phrase
  <2>3. Took(w, p.next, 1)
    BY <1>1, <1>2, <1>5 DEF Took
  <2> HIDE DEF q
  <2>4. Heard(w, i, q, k, m, 0)
    BY <1>1, <2>1, <2>2, <2>3, HeardOn
  <2> QED BY <1>5, <2>4
<1>6. CASE At(w, p.next) \in {"in", "and"} /\ LocatedAgent(w, p) = r
  <2>1. At(w, p.next) \in Plain
    BY <1>2, <1>6
  <2>2. /\ ws.label \in Seq(Words) /\ ws.this \in BOOLEAN /\ ws.n \in Nat
        /\ \E l \in Nat : LabelTakes(w, p.next, p.next + ws.n, ws.label, l)
    BY <1>1, <2>1, WorkspaceIs
  <2> HIDE DEF ws
  <2>3. PICK l \in Nat : LabelTakes(w, p.next, p.next + ws.n, ws.label, l)
    BY <2>2
  <2>4. there \in TargetRec /\ there.name = p.target.name /\ there.workspace = ws.label
    BY <1>1, <2>2 DEF TargetRec
  <2> HIDE DEF there
  <2>5. r \in Phrase /\ r.next = p.next + ws.n /\ r.target = there
    BY <1>1, <2>2, <2>4 DEF Phrase
  <2> HIDE DEF r
  <2>6. \A x \in i .. p.next - 1 : Explained(w, there.name, there.workspace, x, k, m, l)
    <3> SUFFICES ASSUME NEW x \in i .. p.next - 1
                 PROVE  Explained(w, there.name, there.workspace, x, k, m, l)
      OBVIOUS
    <3>1. Explained(w, p.target.name, <<>>, x, k, m, 0)
      BY <1>1 DEF Heard
    <3>2. ~InLabel(w, <<>>, x, 0)
      BY DEF InLabel
    <3> QED BY <2>4, <3>1, <3>2 DEF Explained
  <2>7. \A x \in p.next .. p.next + ws.n - 1 :
          Explained(w, there.name, there.workspace, x, k, m, l)
    <3> SUFFICES ASSUME NEW x \in p.next .. p.next + ws.n - 1
                 PROVE  Explained(w, there.name, there.workspace, x, k, m, l)
      OBVIOUS
    <3>1. At(w, x) \in Plain \/ InLabel(w, ws.label, x, l)
      BY <1>1, <2>2, <2>3 DEF LabelTakes
    <3>2. At(w, x) \in Plain \/ InLabel(w, there.workspace, x, l)
      BY <2>4, <3>1
    <3> QED BY <3>2 DEF Explained
  <2>8. \A x \in i .. r.next - 1 : x \in i .. p.next - 1 \/ x \in p.next .. p.next + ws.n - 1
    BY <1>1, <2>2, <2>5
  <2>9. i <= r.next
    BY <1>1, <2>2, <2>5
  <2>10. Heard(w, i, r, k, m, l)
    BY <2>5, <2>6, <2>7, <2>8, <2>9 DEF Heard
  <2> QED BY <1>6, <2>10
<1> QED BY <1>3, <1>4, <1>5, <1>6

\* The focused agent, in n words of the grammar.
LEMMA FocusedHeard ==
  ASSUME NEW w, NEW i \in Nat, NEW n \in Nat, Took(w, i, n)
  PROVE  HeardBare(w, i, [target |-> [NoTarget EXCEPT !.focused = TRUE], next |-> i + n,
                          ok |-> TRUE], 0, 0)
<1> DEFINE t == [NoTarget EXCEPT !.focused = TRUE]
           p == [target |-> t, next |-> i + n, ok |-> TRUE]
<1>1. t \in TargetRec /\ t.workspace = <<>>
  BY NoTargetType DEF TargetRec
<1> HIDE DEF t
<1>2. p \in Phrase /\ p.next = i + n /\ p.target = t
  BY <1>1 DEF Phrase
<1> HIDE DEF p
<1>3. \A x \in i .. p.next - 1 : At(w, x) \in Plain
  BY <1>2 DEF Took
<1>4. i <= p.next
  BY <1>2
<1>5. HeardBare(w, i, p, 0, 0)
  BY <1>1, <1>2, <1>3, <1>4 DEF HeardBare, Heard, Explained
<1> QED BY <1>5 DEF p, t

\* A phrase for the focused agent is made of words of the grammar.
LEMMA FocusPhraseTakes ==
  ASSUME NEW w, NEW i \in Nat, NEW f \in FocusPhrases, HasPrefix(w, i, f)
  PROVE  Len(f) \in Nat /\ Took(w, i, Len(f))
<1>1. {"focused", "agent", "current", "in", "front", "of", "me"} \subseteq Plain
  BY DEF Plain, Keywords, KindWords
<1>2. CASE f = <<"focused", "agent">> \/ f = <<"current", "agent">>
  <2>1. Len(f) = 2
    BY <1>2
  <2>2. At(w, i) \in Plain /\ At(w, i + 1) \in Plain
    BY <1>1, <1>2, PrefixOfTwo
  <2>3. i .. i + 2 - 1 = {i, i + 1}
    OBVIOUS
  <2> QED BY <2>1, <2>2, <2>3 DEF Took
<1>3. CASE f = <<"agent", "in", "front", "of", "me">>
  <2>1. Len(f) = 5
    BY <1>3
  <2>2. HasPrefix(w, i, <<"agent", "in", "front", "of", "me">>)
    BY <1>3
  <2>3. /\ At(w, i) \in Plain /\ At(w, i + 1) \in Plain /\ At(w, i + 2) \in Plain
        /\ At(w, i + 3) \in Plain /\ At(w, i + 4) \in Plain
    BY <1>1, <2>2, PrefixOfFive
  <2>4. i .. i + 5 - 1 = {i, i + 1, i + 2, i + 3, i + 4}
    OBVIOUS
  <2> QED BY <2>1, <2>3, <2>4 DEF Took
<1> QED BY <1>2, <1>3 DEF FocusPhrases

\* The phrase after the article.
LEMMA DescribedAgentHeard ==
  ASSUME NEW w \in Seq(Words), NEW i \in Nat
  PROVE  \E k, m \in Nat : HeardBare(w, i, DescribedAgent(w, i), k, m)
<1> DEFINE focusPhrase == {f \in FocusPhrases : HasPrefix(w, i, f)}
           f == CHOOSE f \in focusPhrase : TRUE
<1>1. CASE focusPhrase = {}
  <2>1. DescribedAgent(w, i) = NamedAgent(w, i)
    BY <1>1 DEF DescribedAgent
  <2> QED BY <2>1, NamedAgentHeard
<1>2. CASE focusPhrase # {}
  <2>1. f \in FocusPhrases /\ HasPrefix(w, i, f)
    BY <1>2
  <2>2. DescribedAgent(w, i) = [target |-> [NoTarget EXCEPT !.focused = TRUE],
                                next |-> i + Len(f), ok |-> TRUE]
    BY <1>2 DEF DescribedAgent
  <2> HIDE DEF f
  <2>3. Len(f) \in Nat /\ Took(w, i, Len(f))
    BY <2>1, FocusPhraseTakes
  <2>4. HeardBare(w, i, DescribedAgent(w, i), 0, 0)
    BY <2>2, <2>3, FocusedHeard
  <2> QED BY <2>4
<1> QED BY <1>1, <1>2

\* A target phrase says nothing that its target does not hold.
LEMMA ParseTargetHeard ==
  ASSUME NEW w \in Seq(Words), NEW i \in Nat, ParseTarget(w, i).ok
  PROVE  \E k, m, l \in Nat : Heard(w, i, ParseTarget(w, i), k, m, l)
<1> DEFINE j == IF At(w, i) \in Articles THEN i + 1 ELSE i
<1>1. CASE HasPrefix(w, i, <<"this", "agent">>)
  <2>1. {"this", "agent"} \subseteq Plain
    BY DEF Plain, Keywords, KindWords
  <2>2. At(w, i) \in Plain /\ At(w, i + 1) \in Plain
    BY <1>1, <2>1, PrefixOfTwo
  <2>3. i .. i + 2 - 1 = {i, i + 1}
    OBVIOUS
  <2>4. Took(w, i, 2)
    BY <2>2, <2>3 DEF Took
  <2>5. ParseTarget(w, i) = [target |-> [NoTarget EXCEPT !.focused = TRUE], next |-> i + 2,
                             ok |-> TRUE]
    BY <1>1 DEF ParseTarget
  <2>6. HeardBare(w, i, ParseTarget(w, i), 0, 0)
    BY <2>4, <2>5, FocusedHeard
  <2> QED BY <2>6 DEF HeardBare
<1>2. CASE ~HasPrefix(w, i, <<"this", "agent">>)
  <2> DEFINE p == DescribedAgent(w, j)
  <2>1. ParseTarget(w, i) \in {NotATarget, LocatedAgent(w, p)}
    BY <1>2 DEF ParseTarget
  <2>2. ParseTarget(w, i) = LocatedAgent(w, p)
    <3>1. ~NotATarget.ok
      BY DEF NotATarget
    <3> HIDE DEF p
    <3> QED BY <2>1, <3>1
  <2>3. j \in Nat /\ (j = i \/ (j = i + 1 /\ At(w, i) \in Plain))
    <3>1. Articles \subseteq Plain
      BY DEF Plain, Keywords, KindWords, Articles
    <3> QED BY <3>1
  <2> HIDE DEF j
  <2>4. PICK k, m \in Nat : HeardBare(w, j, p, k, m)
    BY <2>3, DescribedAgentHeard
  <2> HIDE DEF p
  <2>5. PICK l \in Nat : Heard(w, j, LocatedAgent(w, p), k, m, l)
    BY <2>2, <2>3, <2>4, LocatedAgentHeard
  <2>6. Heard(w, i, LocatedAgent(w, p), k, m, l)
    BY <2>3, <2>5, HeardAfter
  <2> QED BY <2>2, <2>4, <2>5, <2>6
<1> QED BY <1>1, <1>2

\* What is left of an utterance without its wake words.
LEMMA WakeWordsDropped ==
  ASSUME NEW w \in Seq(Words)
  PROVE  DropWakeWords(w) \in Seq(Words)
<1> DEFINE S == {i \in 1 .. Len(w) + 1 : At(w, i) \notin WakeWords}
<1>1. S \in SUBSET Nat /\ Len(w) \in Nat /\ \A i \in S : i \in 1 .. Len(w) + 1
  OBVIOUS
<1>2. Len(w) + 1 \in S
  <2>1. NoWord \notin WakeWords
    BY Zenon DEF NoWord, WakeWords
  <2>2. At(w, Len(w) + 1) = NoWord
    BY AtIs
  <2>3. Len(w) + 1 \in 1 .. Len(w) + 1
    OBVIOUS
  <2> QED BY <2>1, <2>2, <2>3
<1> HIDE DEF S
<1>3. FirstIn(S) \in 1 .. Len(w) + 1
  BY <1>1, <1>2, FirstInIs
<1>4. SubSeq(w, FirstIn(S), Len(w)) \in Seq(Words)
  BY <1>1, <1>3, SubSeqProperties
<1> QED BY <1>4 DEF DropWakeWords, From, S

\* Where the instruction to p starts: after the separator, at the first word that
\* is not "please".
Starts(w, next, from) ==
  \E r \in {next, next + 1} :
    /\ r = next + 1 => At(w, next) \in Separators
    /\ from \in r .. Len(w) /\ w[from] # "please"
    /\ \A i \in r .. from - 1 : w[i] = "please"

\* What an utterance heard as an instruction is.
LEMMA Instructs ==
  ASSUME NEW w \in Seq(Words), ParseWords(w).intent = "instruct"
  PROVE  LET p == ParseTarget(w, 2)
             heard == ParseWords(w)
         IN  /\ w # <<>> /\ w[1] \in InstructVerbs /\ p.ok /\ ~NamesAnotherAgent(w, p.next)
             /\ heard.target = p.target /\ Starts(w, p.next, heard.from)
<1> DEFINE p == ParseTarget(w, 2)
           r == IF At(w, p.next) \in Separators THEN p.next + 1 ELSE p.next
           S == {i \in r .. Len(w) : w[i] # "please"}
           from == FirstIn(S)
<1>1. Unknown.intent # "instruct" /\ [Unknown EXCEPT !.intent = "quit"].intent # "instruct"
      /\ [Unknown EXCEPT !.intent = "status"].intent # "instruct"
  BY DEF Unknown
<1>2. w # <<>> /\ ParseWords(w) = Instruction(w, p)
  <2> DEFINE answer == ParseClarification(w)
             t == CHOOSE t \in answer : TRUE
  <2>1. [intent |-> "clarify", target |-> t, from |-> 0].intent # "instruct"
    OBVIOUS
  <2> HIDE DEF p, t
  <2>2. \/ ParseWords(w) \in {Unknown, [Unknown EXCEPT !.intent = "quit"],
                              [Unknown EXCEPT !.intent = "status"],
                              [intent |-> "clarify", target |-> t, from |-> 0]}
        \/ w # <<>> /\ ParseWords(w) = Instruction(w, p)
    BY DEF ParseWords, Intent, t, p
  <2> HIDE DEF Unknown
  <2> QED BY <1>1, <2>1, <2>2
<1>3. Instruction(w, p) = InstructionAt(w, p, from)
  BY DEF Instruction
<1> HIDE DEF from, p
<1>4. /\ w[1] \in InstructVerbs /\ p.ok /\ ~NamesAnotherAgent(w, p.next) /\ from > 0
      /\ ParseWords(w) = [intent |-> "instruct", target |-> p.target, from |-> from]
  BY <1>1, <1>2, <1>3 DEF InstructionAt
<1>5. ParseWords(w).target = p.target /\ ParseWords(w).from = from
  BY <1>4
<1>6. p.next \in Nat
  <2>1. \E k, m, l \in Nat : Heard(w, 2, p, k, m, l)
    BY <1>4, ParseTargetHeard DEF p
  <2> QED BY <2>1 DEF Heard, Phrase
<1>7. Starts(w, p.next, from)
  <2>1. /\ r \in {p.next, p.next + 1} /\ r \in Nat
        /\ r = p.next + 1 => At(w, p.next) \in Separators
    BY <1>6
  <2>2. S \in SUBSET Nat /\ \A i \in S : i \in r .. Len(w) /\ w[i] # "please"
    BY <2>1
  <2>3. \A i \in r .. Len(w) : i \notin S => w[i] = "please"
    OBVIOUS
  <2> HIDE DEF r, S
  <2>4. S # {}
    BY <1>4, FirstInIs DEF from
  <2>5. from \in S /\ \A y \in S : from <= y
    BY <2>2, <2>4, FirstInIs DEF from
  <2>6. from \in r .. Len(w) /\ w[from] # "please"
    BY <2>2, <2>5
  <2>7. \A i \in r .. from - 1 : w[i] = "please"
    <3> SUFFICES ASSUME NEW i \in r .. from - 1 PROVE w[i] = "please"
      OBVIOUS
    <3>1. i \in r .. Len(w) /\ ~(from <= i)
      BY <2>1, <2>6
    <3> QED BY <2>3, <2>5, <3>1
  <2> QED BY <2>1, <2>6, <2>7 DEF Starts
<1> QED BY <1>2, <1>4, <1>5, <1>7 DEF p

\* The words before an instruction: each is explained by its target, separates it
\* from the instruction, or is a "please".
LEMMA WordsBefore ==
  ASSUME NEW w \in Seq(Words), ParseWords(w).intent = "instruct"
  PROVE  LET heard == ParseWords(w)
             name == heard.target.name
             label == heard.target.workspace
         IN  /\ heard.target \in TargetRec /\ heard.from \in 2 .. Len(w)
             /\ \E k, m, l \in Nat : \A x \in 2 .. heard.from - 1 :
                  \/ Explained(w, name, label, x, k, m, l)
                  \/ w[x] \in Separators \cup {"please"}
<1> DEFINE p == ParseTarget(w, 2)
           heard == ParseWords(w)
<1>1. p.ok /\ heard.target = p.target /\ Starts(w, p.next, heard.from)
  BY Instructs
<1>2. PICK k, m, l \in Nat : Heard(w, 2, p, k, m, l)
  BY <1>1, ParseTargetHeard
<1> HIDE DEF p, heard
<1>3. PICK r \in {p.next, p.next + 1} :
        /\ r = p.next + 1 => At(w, p.next) \in Separators
        /\ heard.from \in r .. Len(w)
        /\ \A i \in r .. heard.from - 1 : w[i] = "please"
  BY <1>1 DEF Starts
<1>4. /\ p.next \in Nat /\ 2 <= p.next /\ p.target \in TargetRec
      /\ \A x \in 2 .. p.next - 1 : Explained(w, p.target.name, p.target.workspace, x, k, m, l)
  BY <1>2 DEF Heard, Phrase
<1>5. heard.from \in 2 .. Len(w)
  BY <1>3, <1>4
<1>6. \A x \in 2 .. heard.from - 1 :
         \/ Explained(w, p.target.name, p.target.workspace, x, k, m, l)
         \/ w[x] \in Separators \cup {"please"}
  <2> SUFFICES ASSUME NEW x \in 2 .. heard.from - 1, x \notin 2 .. p.next - 1
               PROVE  w[x] \in Separators \cup {"please"}
    BY <1>4
  <2>1. CASE x \in r .. heard.from - 1
    BY <1>3, <2>1
  <2>2. CASE x \notin r .. heard.from - 1
    <3>1. x = p.next /\ r = p.next + 1
      BY <1>3, <1>4, <1>5, <2>2
    <3>2. x \in 1 .. Len(w)
      BY <1>5
    <3> QED BY <1>3, <3>1, <3>2, AtIs
  <2> QED BY <2>1, <2>2
<1> QED BY <1>1, <1>4, <1>5, <1>6 DEF heard

\* Nothing said before the instruction is lost.
LEMMA NothingLost ==
  ASSUME NEW w \in Seq(Words)
  PROVE  DropsNothing(w, ParseWords(w))
<1> DEFINE heard == ParseWords(w)
           name == heard.target.name
           label == heard.target.workspace
<1> SUFFICES ASSUME heard.intent = "instruct", NEW i \in 2 .. heard.from - 1
             PROVE  w[i] \in Keywords \cup {name} \cup {label[x] : x \in 1 .. Len(label)}
  BY DEF DropsNothing
<1>1. heard.from \in 2 .. Len(w)
  BY WordsBefore
<1>2. PICK k, m, l \in Nat : \A x \in 2 .. heard.from - 1 :
        Explained(w, name, label, x, k, m, l) \/ w[x] \in Separators \cup {"please"}
  BY WordsBefore
<1> HIDE DEF heard, name, label
<1>3. i \in 1 .. Len(w)
  BY <1>1
<1>4. At(w, i) = w[i]
  BY <1>3, AtIs
<1>5. CASE w[i] \in Separators \cup {"please"}
  BY <1>5 DEF Keywords, Separators, Fillers
<1>6. CASE Explained(w, name, label, i, k, m, l)
  <2>1. CASE At(w, i) \in Plain \/ At(w, i) \in KindWords
    BY <1>4, <2>1 DEF Plain, KindWords, Keywords
  <2>2. CASE At(w, i) = name
    BY <1>4, <2>2
  <2>3. CASE InLabel(w, label, i, l)
    BY <1>4, <2>3 DEF InLabel
  <2> QED BY <1>6, <2>1, <2>2, <2>3 DEF Explained
<1> QED BY <1>2, <1>5, <1>6 DEF name, label

\* The positions where a kind of agent is named.
LEMMA KindsInIs ==
  ASSUME NEW s, Len(s) \in Nat
  PROVE  /\ KindsIn(s) = {x \in 1 .. Len(s) : s[x] \in KindWords}
         /\ KindsIn(s) \in SUBSET Nat /\ IsFiniteSet(KindsIn(s))
         /\ Cardinality(KindsIn(s)) \in Nat
<1>1. KindsIn(s) = {x \in 1 .. Len(s) : s[x] \in KindWords}
  <2> SUFFICES ASSUME NEW x \in 1 .. Len(s)
               PROVE  MatchKind(s, x) > 0 <=> s[x] \in KindWords
    BY DEF KindsIn
  <2>1. At(s, x) = s[x]
    BY DEF At
  <2> QED BY <2>1, MatchKindIs
<1>2. IsFiniteSet(1 .. Len(s))
  BY FS_Interval
<1>3. KindsIn(s) \subseteq 1 .. Len(s)
  BY <1>1
<1>4. IsFiniteSet(KindsIn(s))
  BY <1>2, <1>3, FS_Subset
<1> QED BY <1>1, <1>3, <1>4, FS_CardinalityType

\* Two finite sets have no more members together than in all.
LEMMA UnionAtMost ==
  ASSUME NEW S, NEW T, IsFiniteSet(S), IsFiniteSet(T)
  PROVE  /\ IsFiniteSet(S \cup T) /\ Cardinality(S \cup T) \in Nat
         /\ Cardinality(S \cup T) <= Cardinality(S) + Cardinality(T)
<1>1. IsFiniteSet(S \cap T)
  BY FS_Intersection
<1>2. /\ IsFiniteSet(S \cup T)
      /\ Cardinality(S \cup T) = Cardinality(S) + Cardinality(T) - Cardinality(S \cap T)
  BY FS_Union
<1>3. /\ Cardinality(S \cap T) \in Nat /\ Cardinality(S \cup T) \in Nat
      /\ Cardinality(S) \in Nat /\ Cardinality(T) \in Nat
  BY <1>1, <1>2, FS_CardinalityType
<1> QED BY <1>2, <1>3

Shifted(S, l) == {l + x - 1 : x \in S}

\* A finite set of positions keeps its size at most when it is moved.
LEMMA ShiftedAtMost ==
  ASSUME NEW S \in SUBSET Nat, IsFiniteSet(S), NEW l \in Nat
  PROVE  IsFiniteSet(Shifted(S, l)) /\ Cardinality(Shifted(S, l)) <= Cardinality(S)
<1> DEFINE f == [x \in S |-> l + x - 1]
<1>1. f \in Surjection(S, Shifted(S, l))
  BY DEF Surjection, Shifted
<1> QED BY <1>1, FS_Surjection

\* A name of a target is a kind, or says none.
LEMMA KindsInName ==
  ASSUME NEW name
  PROVE  KindsIn(<<name>>) = IF name \in KindWords THEN {1} ELSE {}
<1>1. Len(<<name>>) = 1 /\ <<name>>[1] = name /\ 1 .. 1 = {1}
  OBVIOUS
<1>2. KindsIn(<<name>>) = {x \in {1} : <<name>>[x] \in KindWords}
  BY <1>1, KindsInIs
<1>3. \A x \in {1} : <<name>>[x] = name
  BY <1>1
<1> HIDE DEF KindWords
<1> QED BY <1>2, <1>3

\* The kinds named before an instruction: the addressee's, the name's and the label's.
LEMMA KindsBefore ==
  ASSUME NEW w \in Seq(Words), ParseWords(w).intent = "instruct"
  PROVE  LET heard == ParseWords(w)
             name == heard.target.name
             label == heard.target.workspace
         IN  Cardinality(KindsIn(SubSeq(w, 1, heard.from - 1)))
               <= 1 + Cardinality(KindsIn(label)) + Cardinality(KindsIn(<<name>>))
<1> DEFINE heard == ParseWords(w)
           from == heard.from
           name == heard.target.name
           label == heard.target.workspace
           s == SubSeq(w, 1, from - 1)
<1>1. heard.target \in TargetRec /\ from \in 2 .. Len(w)
  BY WordsBefore
<1>2. PICK k, m, l \in Nat : \A x \in 2 .. from - 1 :
        Explained(w, name, label, x, k, m, l) \/ w[x] \in Separators \cup {"please"}
  BY WordsBefore
<1>3. w[1] \in InstructVerbs
  BY Instructs
<1>4. label \in Seq(Words) /\ Len(label) \in Nat
  BY <1>1 DEF TargetRec
<1> HIDE DEF heard, from, name, label
<1>5. /\ Len(s) = from - 1 /\ Len(s) \in Nat
      /\ \A x \in 1 .. from - 1 : s[x] = w[x] /\ x \in 1 .. Len(w)
  BY <1>1
<1> HIDE DEF s
<1> DEFINE named == IF name \in KindWords THEN {m} ELSE {}
           inLabel == Shifted(KindsIn(label), l)
           all == ({k} \cup named) \cup inLabel
<1>6. /\ KindsIn(label) = {x \in 1 .. Len(label) : label[x] \in KindWords}
      /\ KindsIn(label) \in SUBSET Nat /\ IsFiniteSet(KindsIn(label))
      /\ Cardinality(KindsIn(label)) \in Nat
  BY <1>4, KindsInIs
<1>7. KindsIn(s) \subseteq all
  <2> SUFFICES ASSUME NEW x \in KindsIn(s) PROVE x \in all
    OBVIOUS
  <2>1. x \in 1 .. from - 1 /\ w[x] \in KindWords
    BY <1>5, KindsInIs
  <2>2. x # 1
    <3>1. InstructVerbs \cap KindWords = {}
      BY DEF InstructVerbs, KindWords
    <3> QED BY <1>3, <2>1, <3>1
  <2>3. x \in 2 .. from - 1
    BY <1>1, <2>1, <2>2
  <2>4. w[x] \notin Separators \cup {"please"}
    BY <2>1 DEF KindWords, Separators
  <2>5. Explained(w, name, label, x, k, m, l)
    BY <1>2, <2>3, <2>4
  <2>6. At(w, x) = w[x]
    BY <1>5, <2>1, AtIs
  <2>7. \/ x = k
        \/ x = m /\ name \in KindWords
        \/ InLabel(w, label, x, l)
    BY <2>1, <2>5, <2>6 DEF Explained, Plain
  <2>8. CASE InLabel(w, label, x, l)
    <3>1. x + 1 - l \in 1 .. Len(label) /\ label[x + 1 - l] \in KindWords
      BY <2>1, <2>6, <2>8 DEF InLabel
    <3>2. x + 1 - l \in KindsIn(label)
      BY <1>6, <3>1
    <3>3. l + (x + 1 - l) - 1 = x
      BY <1>1, <2>1
    <3>4. x \in inLabel
      BY <3>2, <3>3 DEF Shifted
    <3> QED BY <3>4
  <2> QED BY <2>7, <2>8
<1>8. IsFiniteSet(inLabel) /\ Cardinality(inLabel) <= Cardinality(KindsIn(label))
  BY <1>6, ShiftedAtMost
<1>9. IsFiniteSet(named) /\ Cardinality(named) = Cardinality(KindsIn(<<name>>))
  <2>1. CASE name \in KindWords
    BY <2>1, KindsInName, FS_Singleton
  <2>2. CASE name \notin KindWords
    BY <2>2, KindsInName, FS_EmptySet
  <2> QED BY <2>1, <2>2
<1>10. IsFiniteSet({k}) /\ Cardinality({k}) = 1
  BY FS_Singleton
<1> HIDE DEF named, inLabel
<1>11. /\ IsFiniteSet({k} \cup named)
       /\ Cardinality({k} \cup named) <= Cardinality({k}) + Cardinality(named)
       /\ Cardinality({k} \cup named) \in Nat
  BY <1>9, <1>10, UnionAtMost
<1>12. /\ IsFiniteSet(all) /\ Cardinality(all) \in Nat
       /\ Cardinality(all) <= Cardinality({k} \cup named) + Cardinality(inLabel)
  BY <1>8, <1>11, UnionAtMost
<1>13. Cardinality(KindsIn(s)) <= Cardinality(all)
  BY <1>7, <1>12, FS_Subset
<1>14. Cardinality(inLabel) \in Nat /\ Cardinality(named) \in Nat /\ Cardinality(KindsIn(s)) \in Nat
  BY <1>5, <1>8, <1>9, KindsInIs, FS_CardinalityType
<1> HIDE DEF all
<1>15. Cardinality(KindsIn(s)) <= 1 + Cardinality(KindsIn(label)) + Cardinality(KindsIn(<<name>>))
  BY <1>6, <1>8, <1>9, <1>10, <1>11, <1>12, <1>13, <1>14
<1> QED BY <1>15 DEF s, from, name, label, heard

\* No second addressee is named in front of the instruction's first separator.
LEMMA NoSecondAddressee ==
  ASSUME NEW w \in Seq(Words), ParseWords(w).intent = "instruct"
  PROVE  LET from == ParseWords(w).from
             body == From(w, from)
         IN  \/ w[from - 1] \in Separators \cup {"please"}
             \/ \A i \in KindsIn(body) : \E x \in 1 .. i : body[x] \in Separators
<1> DEFINE from == ParseWords(w).from
           body == From(w, from)
           next == ParseTarget(w, 2).next
<1>1. ~NamesAnotherAgent(w, next) /\ Starts(w, next, from) /\ ParseTarget(w, 2).ok
  BY Instructs
<1>2. next \in Nat /\ 2 <= next
  <2>1. \E k, m, l \in Nat : Heard(w, 2, ParseTarget(w, 2), k, m, l)
    BY <1>1, ParseTargetHeard
  <2> QED BY <2>1 DEF Heard, Phrase
<1> HIDE DEF from, next
<1>3. PICK r \in {next, next + 1} :
        /\ r = next + 1 => At(w, next) \in Separators
        /\ from \in r .. Len(w)
        /\ \A i \in r .. from - 1 : w[i] = "please"
  BY <1>1 DEF Starts
<1>4. CASE from # r
  <2>1. from - 1 \in r .. from - 1
    BY <1>2, <1>3, <1>4
  <2>2. w[from - 1] = "please"
    BY <1>3, <2>1
  <2> QED BY <2>2 DEF from
<1>5. CASE from = r /\ r = next + 1
  <2>1. from - 1 = next /\ next \in 1 .. Len(w)
    BY <1>2, <1>3, <1>5
  <2>2. w[from - 1] \in Separators
    BY <1>3, <1>5, <2>1, AtIs
  <2> QED BY <2>2 DEF from
<1>6. CASE from = next
  <2>1. /\ Len(body) = Len(w) + 1 - next /\ Len(body) \in Nat
        /\ \A x \in 1 .. Len(body) : body[x] = w[next + x - 1]
    BY <1>2, <1>3, <1>6 DEF From
  <2> HIDE DEF body
  <2> SUFFICES ASSUME NEW i \in KindsIn(body)
               PROVE  \E x \in 1 .. i : body[x] \in Separators
    BY DEF body, from
  <2>2. i \in 1 .. Len(body) /\ body[i] \in KindWords
    BY <2>1, KindsInIs
  <2>3. /\ next + i - 1 \in next .. Len(w) /\ next + i - 1 \in 1 .. Len(w)
        /\ w[next + i - 1] \in KindWords
    BY <1>2, <2>1, <2>2
  <2>4. MatchKind(w, next + i - 1) > 0
    BY <2>3, AtIs, MatchKindIs
  <2>5. PICK y \in next .. next + i - 1 : w[y] \in Separators
    BY <1>1, <2>3, <2>4 DEF NamesAnotherAgent
  <2>6. /\ y - next + 1 \in 1 .. i /\ y - next + 1 \in 1 .. Len(body)
        /\ next + (y - next + 1) - 1 = y
    <3>1. i \in Nat /\ i <= Len(body) /\ Len(body) \in Nat
      BY <2>1, <2>2
    <3>2. y \in Nat /\ next <= y /\ y <= next + i - 1
      BY <1>2, <3>1
    <3>3. y - next + 1 \in Nat /\ 1 <= y - next + 1 /\ y - next + 1 <= i
      BY <1>2, <3>1, <3>2
    <3> QED BY <1>2, <3>1, <3>2, <3>3
  <2>7. body[y - next + 1] = w[y]
    BY <2>1, <2>6
  <2> QED BY <2>5, <2>6, <2>7
<1> QED BY <1>3, <1>4, <1>5, <1>6

\* An instruction is addressed to one agent.
LEMMA OneAddressed ==
  ASSUME NEW w \in Seq(Words)
  PROVE  Addressed(w, ParseWords(w))
<1> SUFFICES ASSUME ParseWords(w).intent = "instruct" PROVE Addressed(w, ParseWords(w))
  BY DEF Addressed, AddressesOne
<1> QED BY KindsBefore, NoSecondAddressee DEF Addressed, AddressesOne

\* The word that opens an utterance is not a filler, so it opens what is left.
LEMMA CanonicalOpens ==
  ASSUME NEW w \in Seq(Words), w # <<>>, w[1] \notin Fillers
  PROVE  Canonicalize(w)[1] = w[1]
<1> DEFINE kept == {i \in 1 .. Len(w) : w[i] \notin Fillers}
           upTo(i) == {j \in kept : j <= i}
           first == CHOOSE i \in kept : Cardinality(upTo(i)) = 1
<1>1. Len(w) \in Nat /\ 1 \in 1 .. Len(w)
  OBVIOUS
<1>2. 1 \in kept /\ kept \subseteq 1 .. Len(w) /\ \A i \in kept : i \in Nat /\ 1 <= i
  BY <1>1
<1>3. IsFiniteSet(kept) /\ Cardinality(kept) \in Nat
  <2>1. IsFiniteSet(1 .. Len(w))
    BY <1>1, FS_Interval
  <2> HIDE DEF kept
  <2>2. IsFiniteSet(kept)
    BY <1>2, <2>1, FS_Subset
  <2> QED BY <2>2, FS_CardinalityType
<1>4. Canonicalize(w) = [n \in 1 .. Cardinality(kept) |->
                           w[CHOOSE i \in kept : Cardinality(upTo(i)) = n]]
  BY DEF Canonicalize
<1> HIDE DEF kept
<1>5. Cardinality(upTo(1)) = 1
  <2>1. \A j \in kept : j <= 1 <=> j = 1
    BY <1>2
  <2>2. upTo(1) = {1}
    BY <1>2, <2>1
  <2> HIDE DEF upTo
  <2> QED BY <2>2, FS_Singleton
<1>6. \A i \in kept : Cardinality(upTo(i)) = 1 => i = 1
  <2> SUFFICES ASSUME NEW i \in kept, Cardinality(upTo(i)) = 1 PROVE i = 1
    OBVIOUS
  <2>1. IsFiniteSet(upTo(i))
    <3>1. upTo(i) \subseteq kept
      OBVIOUS
    <3> HIDE DEF upTo
    <3> QED BY <1>3, <3>1, FS_Subset
  <2>2. 1 \in upTo(i) /\ i \in upTo(i)
    BY <1>2
  <2> HIDE DEF upTo
  <2>3. \E x : upTo(i) = {x}
    BY <2>1, FS_Singleton
  <2> QED BY <2>2, <2>3
<1> HIDE DEF upTo
<1>7. first = 1
  BY <1>2, <1>5, <1>6
<1>8. 1 \in 1 .. Cardinality(kept)
  <2>1. Cardinality(kept) # 0
    BY <1>2, <1>3, FS_EmptySet
  <2> QED BY <1>3, <2>1
<1> QED BY <1>4, <1>7, <1>8

\* "<verb> <kind> to" is neither a word to stop or to list, nor an answer.
LEMMA NotAnAnswer ==
  ASSUME NEW w \in Seq(Words), Len(w) >= 4, w[1] \in InstructVerbs,
         Len(w) > 4 \/ w[Len(w)] # "one"
  PROVE  /\ Canonicalize(w) \notin QuitPhrases \cup StatusPhrases
         /\ ParseClarification(w) = {}
<1>1. w # <<>> /\ Len(w) \in Nat /\ At(w, 1) = w[1]
  BY AtIs
<1>2. w[1] \notin {"quit", "never", "status", "list", "the", "one", "in", "number"}
      /\ w[1] \notin Fillers \cup OrdinalWords \cup StateWords
  BY DEF InstructVerbs, Fillers, OrdinalWords, StateWords
<1>3. Canonicalize(w) \notin QuitPhrases \cup StatusPhrases
  <2>1. Canonicalize(w)[1] = w[1]
    BY <1>1, <1>2, CanonicalOpens
  <2>2. \A c \in QuitPhrases \cup StatusPhrases : c[1] \in {"quit", "never", "status", "list"}
    BY DEF QuitPhrases, StatusPhrases
  <2> QED BY <1>2, <2>1, <2>2
<1>4. \A word : word \in {"the", "in", "number"} => TrimLeading(w, word) = w
  BY <1>1, <1>2 DEF TrimLeading
<1>5. MatchPanePhrase(w) = NoWord
  <2>1. ~HasPrefix(w, 1, <<"one", "in">>)
    BY <1>1, <1>2, PrefixOfTwo
  <2>2. TrimLeading(w, "in") = w /\ TrimLeading(w, "the") = w
    BY <1>4
  <2>3. TrimLeading(IF HasPrefix(w, 1, <<"one", "in">>) THEN From(w, 3)
                    ELSE TrimLeading(w, "in"), "the") = w
    BY <2>1, <2>2
  <2>4. Len(w) # 2
    <3>1. Len(w) \in Nat
      OBVIOUS
    <3>2. \A n \in Nat : n >= 4 => n # 2
      OBVIOUS
    <3> QED BY <3>1, <3>2
  <2> QED BY <2>3, <2>4 DEF MatchPanePhrase
<1>6. Answer(w) = {}
  <2>1. InWorkspace(w, 1) = {}
    BY <1>1, <1>2 DEF InWorkspace, InWorkspaceClause
  <2>2. Len(w) \notin {1, 2, 3} /\ ~(Len(w) \in 2 .. 4 /\ w[Len(w)] = "one")
    BY <1>1
  <2> QED BY <1>1, <1>2, <2>1, <2>2 DEF Answer, AnswerShape
<1>7. ParseClarification(w) = {}
  BY <1>1, <1>4, <1>5, <1>6 DEF ParseClarification, PlainAnswer, PaneOrAnswer
<1> QED BY <1>3, <1>7

\* The target of "<verb> <kind> to".
LEMMA TargetSaid ==
  ASSUME NEW w \in Seq(Words), Len(w) >= 4, w[2] \in KindWords, w[3] = "to"
  PROVE  LET p == ParseTarget(w, 2)
         IN  p.ok /\ p.next = 3 /\ p.target.kind = w[2] /\ ~NamesAnotherAgent(w, 3)
<1>1. At(w, 2) = w[2] /\ At(w, 3) = "to" /\ Len(w) \in Nat
  BY AtIs
<1>2. /\ w[2] \notin Articles \cup StateWords \cup {"this", "focused", "current", "agent"}
      /\ "to" \notin StateWords \cup {"code", "agent", "that", "that's", "currently", "now",
                                       "i'm", "i", "here", "in", "and", "plus", "then", "or"}
      /\ "to" \in Separators
  BY DEF KindWords, Articles, StateWords, Separators
<1> DEFINE a == [target |-> [NoTarget EXCEPT !.kind = w[2], !.state = NoWord, !.name = NoWord],
                 next |-> 3, ok |-> TRUE]
<1>3. MatchKind(w, 2) = 1
  BY <1>1, <1>2, MatchKindIs
<1>4. AgentPhrase(w, 2, 1, NoWord) = a
  <2>1. 2 + 1 = 3 /\ 1 > 0 /\ At(w, 3) # "agent"
    BY <1>1, <1>2
  <2> QED BY <2>1 DEF AgentPhrase
<1>5. /\ a.ok /\ a.next = 3 /\ a.target.kind = w[2]
      /\ a = [target |-> a.target, next |-> 3, ok |-> TRUE] /\ a.target \in TargetRec
  <2>1. /\ [NoTarget EXCEPT !.kind = w[2], !.state = NoWord, !.name = NoWord] \in TargetRec
        /\ [NoTarget EXCEPT !.kind = w[2], !.state = NoWord, !.name = NoWord].kind = w[2]
    BY NoTargetType DEF TargetRec
  <2> QED BY <2>1
<1> HIDE DEF a
<1>6. MatchStateQualifier(w, 3).n = 0
  <2>1. ~HasPrefix(w, 3, <<"that", "is">>)
    BY <1>1, <1>2, PrefixOfTwo
  <2>2. MatchStateQualifier(w, 3) = StateAfter(w, 3, 0)
    BY <1>1, <1>2, <2>1 DEF MatchStateQualifier
  <2>3. StateAfter(w, 3, 0) = [state |-> NoWord, n |-> 0]
    BY <1>1, <1>2 DEF StateAfter
  <2> QED BY <2>2, <2>3
<1>7. MatchLookingAt(w, 3) = 0
  BY <1>1, <1>2, PrefixOfThree, PrefixOfFour DEF MatchLookingAt
<1> DEFINE p == LookedAt(w, a)
<1>8. Qualified(w, a) = a
  BY <1>5, <1>6 DEF Qualified, WithState
<1>9. p.ok /\ p.next = 3 /\ p.target.kind = w[2]
  <2> DEFINE looking == MatchLookingAt(w, 3) > 0
  <2>1. p = [target |-> [a.target EXCEPT !.focused = looking],
             next |-> 3 + MatchLookingAt(w, 3), ok |-> a.ok \/ looking]
    BY <1>5 DEF LookedAt, WithLook
  <2>2. looking \in BOOLEAN /\ 3 + MatchLookingAt(w, 3) = 3
    BY <1>7
  <2> HIDE DEF looking
  <2>3. [a.target EXCEPT !.focused = looking].kind = w[2]
    BY <1>5, <2>2 DEF TargetRec
  <2> HIDE DEF p
  <2> QED BY <1>5, <2>1, <2>2, <2>3
<1> HIDE DEF p
<1>10. NamedAgent(w, 2) = p
  BY <1>1, <1>2, <1>3, <1>4, <1>8 DEF NamedAgent, p
<1>11. DescribedAgent(w, 2) = p
  <2>1. \A f \in FocusPhrases : ~HasPrefix(w, 2, f)
    BY <1>1, <1>2, PrefixOfTwo, PrefixOfFive DEF FocusPhrases
  <2> QED BY <1>10, <2>1 DEF DescribedAgent
<1>12. LocatedAgent(w, p) = p
  BY <1>1, <1>2, <1>9 DEF LocatedAgent, WithWorkspace
<1>13. ParseTarget(w, 2) = p
  <2>1. ~HasPrefix(w, 2, <<"this", "agent">>)
    BY <1>1, <1>2, PrefixOfTwo
  <2> QED BY <1>1, <1>2, <1>11, <1>12, <2>1 DEF ParseTarget
<1>14. ~NamesAnotherAgent(w, 3)
  <2>1. \A j \in 3 .. Len(w) : 3 \in 3 .. j
    OBVIOUS
  <2> QED BY <1>1, <1>2, <2>1 DEF NamesAnotherAgent
<1> QED BY <1>9, <1>13, <1>14

\* "<verb> <kind> to <instruction>" is heard as said.
LEMMA Heeded ==
  ASSUME NEW w \in Seq(Words)
  PROVE  HeardAsSaid(w, ParseWords(w))
<1> SUFFICES ASSUME At(w, 1) \in InstructVerbs, At(w, 2) \in KindWords, At(w, 3) = "to",
                    \E i \in 4 .. Len(w) : w[i] # "please",
                    Len(w) > 4 \/ w[Len(w)] # "one"
             PROVE  LET heard == ParseWords(w)
                    IN  /\ heard.intent = "instruct" /\ heard.target.kind = w[2]
                        /\ heard.from \in 4 .. Len(w) /\ w[heard.from] # "please"
                        /\ \A i \in 4 .. heard.from - 1 : w[i] = "please"
  <2>1. \A i \in 1 .. Len(w) : At(w, i) = w[i]
    BY AtIs
  <2> QED BY <2>1 DEF HeardAsSaid, KindWords
<1> DEFINE p == ParseTarget(w, 2)
           S == {i \in 4 .. Len(w) : w[i] # "please"}
           from == FirstIn(S)
<1>1. Len(w) \in Nat /\ Len(w) >= 4 /\ w # <<>>
  OBVIOUS
<1>2. w[1] \in InstructVerbs /\ w[2] \in KindWords /\ w[3] = "to"
  BY <1>1, AtIs
<1>3. p.ok /\ p.next = 3 /\ p.target.kind = w[2] /\ ~NamesAnotherAgent(w, 3)
  BY <1>1, <1>2, TargetSaid
<1> HIDE DEF p
<1>4. /\ S \in SUBSET Nat /\ S # {} /\ \A i \in S : i \in 4 .. Len(w) /\ w[i] # "please"
      /\ \A i \in 4 .. Len(w) : i \notin S => w[i] = "please"
  OBVIOUS
<1>5. Instruction(w, p) = InstructionAt(w, p, from)
  <2>1. "to" \in Separators
    BY DEF Separators
  <2>2. At(w, p.next) \in Separators /\ p.next + 1 = 4
    BY <1>3, <2>1
  <2> QED BY <2>2 DEF Instruction
<1> HIDE DEF S
<1>6. from \in S /\ \A y \in S : from <= y
  BY <1>4, FirstInIs
<1> HIDE DEF from
<1>7. from \in 4 .. Len(w) /\ w[from] # "please"
  BY <1>4, <1>6
<1>8. \A i \in 4 .. from - 1 : w[i] = "please"
  <2> SUFFICES ASSUME NEW i \in 4 .. from - 1 PROVE w[i] = "please"
    OBVIOUS
  <2>1. i \in 4 .. Len(w) /\ ~(from <= i)
    BY <1>1, <1>7
  <2> QED BY <1>4, <1>6, <2>1
<1>9. InstructionAt(w, p, from) = [intent |-> "instruct", target |-> p.target, from |-> from]
  BY <1>2, <1>3, <1>7 DEF InstructionAt
<1>10. ParseWords(w) = Instruction(w, p)
  <2>1. Canonicalize(w) \notin QuitPhrases \cup StatusPhrases /\ ParseClarification(w) = {}
    BY <1>1, <1>2, NotAnAnswer
  <2> QED BY <1>1, <2>1 DEF ParseWords, Intent, p
<1>11. /\ ParseWords(w).intent = "instruct" /\ ParseWords(w).target = p.target
       /\ ParseWords(w).from = from
  BY <1>5, <1>9, <1>10
<1> QED BY <1>3, <1>7, <1>8, <1>11

\* What has been said is a sequence of words that a known one opens.
UtteranceOK == /\ utterance \in Seq(Words)
               /\ utterance # <<>> => utterance[1] \in DOMAIN Continuations

\* Every utterance that can be spoken is one.
LEMMA UtteranceInvariant == GrammarSpec => []UtteranceOK
<1>1. GrammarInit => UtteranceOK
  BY DEF GrammarInit, UtteranceOK
<1>2. UtteranceOK /\ [Speak]_utterance => UtteranceOK'
  <2> SUFFICES ASSUME UtteranceOK, [Speak]_utterance PROVE UtteranceOK'
    OBVIOUS
  <2>1. CASE Speak
    <3>1. PICK word : /\ utterance = <<>> => word \in DOMAIN Continuations
                      /\ utterance # <<>> => word \in Continuations[utterance[1]].words
                      /\ utterance' = Append(utterance, word)
      BY <2>1 DEF Speak
    <3>2. word \in Words
      BY <3>1, GrammarAssumption DEF UtteranceOK
    <3>3. utterance' \in Seq(Words)
      BY <3>1, <3>2 DEF UtteranceOK
    <3>4. utterance'[1] = IF utterance = <<>> THEN word ELSE utterance[1]
      BY <3>1 DEF UtteranceOK
    <3> QED BY <3>1, <3>3, <3>4 DEF UtteranceOK
  <2>2. CASE UNCHANGED utterance
    BY <2>2 DEF UtteranceOK
  <2> QED BY <2>1, <2>2
<1> QED BY <1>1, <1>2, PTL DEF GrammarSpec

\* Whatever is said and however long, every word in front of a relayed instruction
\* is the grammar's own or kept in the target: qi drops nothing the user said.
THEOREM NothingSaidIsDropped == GrammarSpec => []NothingDropped
<1>1. UtteranceOK => NothingDropped
  BY WakeWordsDropped, NothingLost DEF UtteranceOK, NothingDropped, Parse
<1> QED BY <1>1, UtteranceInvariant, PTL

\* An instruction is addressed to one agent, however the user phrases the target:
\* every other kind named before it is part of the workspace's or agent's name, and
\* none is named in it before its first separator.
THEOREM OneAgentAddressed == GrammarSpec => []OneAddressee
<1>1. UtteranceOK => OneAddressee
  BY WakeWordsDropped, OneAddressed DEF UtteranceOK, OneAddressee, Parse
<1> QED BY <1>1, UtteranceInvariant, PTL

\* "<verb> <kind> to ..." is always an instruction to that kind: no quit, status or
\* clarification phrase takes it, whatever the instruction says.
THEOREM InstructionIsHeard == GrammarSpec => []InstructionHeard
<1>1. UtteranceOK => InstructionHeard
  BY WakeWordsDropped, Heeded DEF UtteranceOK, InstructionHeard, Parse
<1> QED BY <1>1, UtteranceInvariant, PTL
=============================================================================
