---------------------------- MODULE InboxRefine ----------------------------
(***************************************************************************)
(* The proposals of `qi inbox`: the heuristics of List                     *)
(* (internal/service/inbox_service.go) and, opted in, their refinement by  *)
(* a remote classifier (inbox_classify.go, commands/inbox.go,              *)
(* internal/typesafe).  The captures a heuristic is not sure of go out in  *)
(* batches, some at once; answers, retries, failures and the end of the    *)
(* time budget come in any order.                                          *)
(***************************************************************************)
EXTENDS Integers, FiniteSets

CONSTANTS
  NItems,        \* captures listed
  Bodies,        \* kinds of bodies a capture may have
  Verdicts,       \* what the classifier may answer
  Limits,        \* values of classify_limit, 0 for none
  BatchSize,     \* service.InboxClassifyBatchSize
  Concurrency,   \* service.InboxClassifyConcurrency
  MaxAttempts    \* typesafe.maxAttempts

ASSUME RefineAssumption ==
  /\ NItems \in Nat /\ Limits \subseteq Nat
  /\ {BatchSize, Concurrency, MaxAttempts} \subseteq Nat \ {0}

Items == 1 .. NItems
Actions == {"task", "note", "archive"}

\* proposeInboxAction, on what a body is: empty; with a task marker; an email
\* summary with a known tag, by its tag; one short line; anything else.
ProposeInboxAction(body) ==
  CASE body = "empty" -> "archive" [] body = "marked" -> "task"
    [] body = "email reply" -> "task" [] body = "email read" -> "archive"
    [] body = "short" -> "task" [] OTHER -> "note"

\* heuristicIsAuthoritative: a rule, not a guess.
Authoritative(body) == body \in {"empty", "marked"}

VARIABLES
  bodies,     \* body of each listed capture
  limit,      \* classify_limit of this run
  proposal,   \* per capture: action, and the capture the verdict it rests on was about
  batch,      \* per batch: stage and attempts
  expired,    \* the time budget of the run is over
  stats,      \* refined, unsure, failed
  sent        \* history: captures whose text was sent

refineVars == <<bodies, limit, proposal, batch, expired, stats, sent>>

\* The place of a capture among those of a set, in the order of List.
Place(i, captures) == Cardinality({j \in captures : j <= i})

\* selectForRefine: the eligible captures, the first ones up to the limit.
Eligible == {i \in Items : ~Authoritative(bodies[i])}
Selected == {i \in Eligible : limit > 0 => Place(i, Eligible) <= limit}

\* Refine cuts them into batches, numbered in the order they are launched.
BatchOf(i) == (Place(i, Selected) - 1) \div BatchSize + 1
Batches == {BatchOf(i) : i \in Selected}
Batch(b) == {i \in Selected : BatchOf(i) = b}

InFlight == {b \in Batches : batch[b].stage \in {"asked", "backoff"}}

NoVerdict == 0

RefineInit ==
  /\ bodies \in [Items -> Bodies] /\ limit \in Limits
  /\ proposal = [i \in Items |-> [action |-> ProposeInboxAction(bodies[i]), about |-> NoVerdict]]
  /\ batch = [b \in Items |-> [stage |-> "waiting", attempt |-> 0]]
  /\ expired = FALSE /\ stats = [refined |-> 0, unsure |-> 0, failed |-> 0] /\ sent = {}

\* The loop of Refine: a batch starts when the semaphore has room.
Launch(b) ==
  /\ batch[b].stage = "waiting" /\ Cardinality(InFlight) < Concurrency
  /\ \A a \in Batches : a < b => batch[a].stage # "waiting"
  /\ batch' = [batch EXCEPT ![b] = [stage |-> "asked", attempt |-> 1]]
  /\ sent' = sent \cup Batch(b)
  /\ UNCHANGED <<bodies, limit, proposal, expired, stats>>

\* A batch that fails as a whole: its captures keep their proposals.
BatchFails(b) ==
  /\ batch' = [batch EXCEPT ![b].stage = "over"]
  /\ stats' = [stats EXCEPT !.failed = @ + Cardinality(Batch(b))]
  /\ UNCHANGED <<bodies, limit, proposal, expired, sent>>

\* 429 or 529: wait and ask again, a bounded number of times.
Overloaded(b) ==
  /\ batch[b].stage = "asked"
  /\ IF batch[b].attempt < MaxAttempts
     THEN /\ batch' = [batch EXCEPT ![b].stage = "backoff"]
          /\ UNCHANGED <<bodies, limit, proposal, expired, stats, sent>>
     ELSE BatchFails(b)

Resend(b) ==
  /\ batch[b].stage = "backoff" /\ ~expired
  /\ batch' = [batch EXCEPT ![b] = [stage |-> "asked", attempt |-> @.attempt + 1]]
  /\ UNCHANGED <<bodies, limit, proposal, expired, stats, sent>>

\* Another status, a transport error, a timeout; or the budget is over.
Broken(b) ==
  /\ batch[b].stage = "asked" \/ (batch[b].stage = "backoff" /\ expired)
  /\ BatchFails(b)

\* An answer per question: an action, something that is not one, or none.
Answers == [choice : Verdicts, confident : BOOLEAN]
NoAnswer == [choice |-> "", confident |-> FALSE]

\* applyInboxClassification: a known action with enough confidence wins.
Wins(answer) == answer.choice \in Actions /\ answer.confident

\* The answers of a batch are counted by what came of them.
Counted(answer) ==
  LET won    == {k \in DOMAIN answer : Wins(answer[k])}
      failed == {k \in DOMAIN answer : answer[k] = NoAnswer}
  IN [refined |-> stats.refined + Cardinality(won),
      unsure |-> stats.unsure + Cardinality(DOMAIN answer \ (won \cup failed)),
      failed |-> stats.failed + Cardinality(failed)]

\* The capture question k of a batch is about.
Asked(b, k) == CHOOSE i \in Batch(b) : Place(i, Batch(b)) = k

\* Mutant of Answered: the k-th verdict is applied to the k-th capture listed.
AnsweredInListOrder(b) ==
  \E answer \in [1 .. Cardinality(Batch(b)) -> Answers \cup {NoAnswer}] :
    /\ batch[b].stage = "asked" /\ ~expired
    /\ batch' = [batch EXCEPT ![b].stage = "over"]
    /\ proposal' = [i \in Items |->
         IF i \in DOMAIN answer /\ Wins(answer[i])
         THEN [action |-> answer[i].choice, about |-> Asked(b, i)] ELSE proposal[i]]
    /\ stats' = Counted(answer)
    /\ UNCHANGED <<bodies, limit, expired, sent>>

\* The answers of a batch: a capture gets the one at its own place.
Answered(b) ==
  \E answer \in [1 .. Cardinality(Batch(b)) -> Answers \cup {NoAnswer}] :
    LET k(i) == Place(i, Batch(b)) IN
    /\ batch[b].stage = "asked" /\ ~expired
    /\ batch' = [batch EXCEPT ![b].stage = "over"]
    /\ proposal' = [i \in Items |->
         IF i \in Batch(b) /\ Wins(answer[k(i)])
         THEN [action |-> answer[k(i)].choice, about |-> Asked(b, k(i))] ELSE proposal[i]]
    /\ stats' = Counted(answer)
    /\ UNCHANGED <<bodies, limit, expired, sent>>

\* inboxClassifyBudget runs out.
Expire ==
  /\ ~expired /\ expired' = TRUE
  /\ UNCHANGED <<bodies, limit, proposal, batch, stats, sent>>

BatchStep(b) == Launch(b) \/ Overloaded(b) \/ Resend(b) \/ Broken(b) \/ Answered(b)

RefineNext == Expire \/ \E b \in Batches : BatchStep(b)

RefineSpec == RefineInit /\ [][RefineNext]_refineVars

RefineOver == \A b \in Batches : batch[b].stage = "over"

---------------------------------------------------------------------------
\* Every proposal is the heuristic's or a verdict on that very capture, however
\* the batches were cut and in whichever order they came back; what the help of
\* `qi inbox` promises stays on the machine does, and no more than
\* classify_limit captures leave it; at the end every capture sent is counted
\* once (inbox_classify.go:130-190).
RefineFaithful ==
  /\ \A i \in Items :
       IF proposal[i].about = NoVerdict
       THEN proposal[i].action = ProposeInboxAction(bodies[i])
       ELSE proposal[i].about = i /\ i \in sent
  /\ \A i \in sent : ~Authoritative(bodies[i])
  /\ limit > 0 => Cardinality(sent) <= limit
  /\ RefineOver =>
       /\ sent = Selected
       /\ stats.refined + stats.unsure + stats.failed = Cardinality(sent)
=============================================================================
