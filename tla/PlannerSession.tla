--------------------------- MODULE PlannerSession ---------------------------
(***************************************************************************)
(* `qi ai run` and `qi ai resume`: the planner's tool-use loop             *)
(* (internal/ai/planner_loop.go, planner_resume.go), the session it saves  *)
(* when it stops at the approval gate (session_store.go), the lease that   *)
(* keeps two resumes apart (session_lock.go), provider failover            *)
(* (fallback.go) and the commands around them (commands/ai_planner.go).    *)
(*                                                                         *)
(* One conversation, any number of processes that resume it, a user who    *)
(* approves or denies what it proposed, and qid, of which this module      *)
(* knows what ApprovalLifecycle promises.  Processes die, replies get      *)
(* lost, files cannot be written, providers fail.                          *)
(***************************************************************************)
EXTENDS Integers, FiniteSets

CONSTANTS
  Procs,          \* processes that run or resume the conversation
  MaxApprovals,   \* bound: mutating calls the model proposes
  MaxCalls,       \* bound: tool calls in a turn
  MaxIterations,  \* planner.go: DefaultMaxIterations
  Chain,          \* providers in the failover chain
  MaxGrants,      \* bound: approvals of one call
  MaxFaults       \* bound: crashes, lost replies, failed writes and providers

Approvals == 1..MaxApprovals

ASSUME PlannerAssumption ==
  /\ IsFiniteSet(Procs) /\ MaxApprovals \in Nat /\ MaxGrants \in Nat /\ MaxFaults \in Nat
  /\ MaxCalls \in Nat \ {0} /\ MaxIterations \in Nat \ {0} /\ Chain \in Nat \ {0}

VARIABLES
  session,   \* <id>.json: the saved point, its pending approvals and provider
  lockFile,  \* <id>.lock: the inode the name refers to
  proc,      \* each process
  phase,     \* qid: where each approval is in its life
  grants,    \* qid: approvals given to each call
  runs,      \* qid: runs of each call
  filed,     \* history: approvals that have been in a saved session
  started,   \* history: the conversation has been started
  faults,    \* history: failures so far
  outran,    \* history: approvals a user granted before a failed attempt came to
             \* deny them
  lost,      \* history: a process died with approvals in hand or lost a reply
  misread    \* history: some process could not read an existing session

qid     == <<phase, grants, runs>>
history == <<filed, started, outran, lost, misread>>
vars == <<session, lockFile, proc, phase, grants, runs, filed, started, faults,
          outran, lost, misread>>

Qid == INSTANCE ApprovalLifecycle WITH Ids <- Approvals

---------------------------------------------------------------------------
NoSession == [turn |-> 0, pending |-> {}, active |-> 0]

NoInode == 0
Inodes  == 1..(Cardinality(Procs) + 1)

\* A process that does nothing; turn is the saved point it continues, 0 for
\* `qi ai run`.
Idle == [pc |-> "idle", inode |-> NoInode, turn |-> 0, waiting |-> {}, active |-> 0,
         iteration |-> 0, left |-> 0, pending |-> {}]

\* The states in which a process has flock'ed the inode it opened.
Locked == {"load", "resolve", "llm", "calls", "save", "deny", "delete", "verify", "remove",
           "close"}

Holds(p, inode) == proc[p].inode = inode /\ proc[p].pc \in Locked

Resuming(p) == proc[p].inode # NoInode

Goto(p, pc) == proc' = [proc EXCEPT ![p].pc = pc]

\* The process returns; closing the lease file gives up its lock.
Exit(p) == proc' = [proc EXCEPT ![p] = Idle]

Fault == faults < MaxFaults /\ faults' = faults + 1

\* Approvals an attempt knows of that nobody has decided.
Undecided(p) == {a \in proc[p].pending : phase[a] = "pending"}

---------------------------------------------------------------------------
\* The commands

\* qi ai run: a new conversation, under an id nobody else knows yet.
Run(p) ==
  /\ ~started
  /\ started' = TRUE
  /\ Goto(p, "llm")
  /\ UNCHANGED <<session, lockFile, qid, filed, faults, outran, lost, misread>>

\* The id of the conversation is known: its session was saved, and is perhaps
\* deleted again (printPlannerResult prints it after the first save).
Known == session # NoSession \/ filed # {}

\* qi ai resume, of a conversation that waits or is over.
\* AcquireLease: create the lease file or open the one that is there ...
OpenLease(p) ==
  /\ Known
  /\ proc[p].pc = "idle"
  /\ IF lockFile = NoInode
       THEN \E inode \in {i \in Inodes : \A q \in Procs : proc[q].inode # i} :
              /\ lockFile' = inode
              /\ proc' = [proc EXCEPT ![p].pc = "flock", ![p].inode = inode]
       ELSE /\ proc' = [proc EXCEPT ![p].pc = "flock", ![p].inode = lockFile]
            /\ UNCHANGED lockFile
  /\ UNCHANGED <<session, qid, history, faults>>

\* Mutant of Flock: a lease file left behind by a dead process is a lease.
FlockByName(p) ==
  /\ proc[p].pc = "flock"
  /\ \/ Goto(p, "load") /\ \A q \in Procs : ~Holds(q, proc[p].inode) /\ lockFile # proc[p].inode
     \/ Exit(p) /\ lockFile = proc[p].inode
  /\ UNCHANGED <<session, lockFile, qid, history, faults>>

\* Mutant of Flock: the lease is the open file.
FlockShared(p) ==
  /\ proc[p].pc = "flock"
  /\ Goto(p, "load")
  /\ UNCHANGED <<session, lockFile, qid, history, faults>>

\* ... and lock it, or report ErrSessionLeaseHeld.
Flock(p) ==
  /\ proc[p].pc = "flock"
  /\ IF \E q \in Procs : Holds(q, proc[p].inode) THEN Exit(p) ELSE Goto(p, "load")
  /\ UNCHANGED <<session, lockFile, qid, history, faults>>

\* Mutant of Load: the chain starts at its head again.
LoadFromHead(p) ==
  /\ proc[p].pc = "load"
  /\ proc' = [proc EXCEPT ![p].pc = IF session = NoSession THEN "verify" ELSE "resolve",
                          ![p].turn = session.turn, ![p].waiting = session.pending]
  /\ UNCHANGED <<session, lockFile, qid, history, faults>>

\* SessionStore.Load and buildResumeLLM: the saved point and provider.
Load(p) ==
  /\ proc[p].pc = "load"
  /\ proc' = [proc EXCEPT ![p].pc = IF session = NoSession THEN "verify" ELSE "resolve",
                          ![p].turn = session.turn, ![p].waiting = session.pending,
                          ![p].active = session.active]
  /\ UNCHANGED <<session, lockFile, qid, history, faults>>

\* Load cannot read the file: the lease is completed all the same.
LoadFails(p) ==
  /\ proc[p].pc = "load" /\ session # NoSession
  /\ Fault
  /\ misread' = TRUE
  /\ Goto(p, "verify")
  /\ UNCHANGED <<session, lockFile, qid, filed, started, outran, lost>>

\* Planner.Resume: every pending approval has an outcome, or it is an error.
ResolvePending(p) ==
  /\ proc[p].pc = "resolve"
  /\ IF \A a \in proc[p].waiting : phase[a] \in {"executed", "denied", "failed"}
       THEN proc' = [proc EXCEPT ![p].pc = "llm", ![p].waiting = {}] ELSE Exit(p)
  /\ UNCHANGED <<session, lockFile, qid, history, faults>>

---------------------------------------------------------------------------
\* Planner.loop

\* A conversation that is over: a resume deletes its session.
Finish(p) == IF Resuming(p) THEN Goto(p, "delete") ELSE Exit(p)

\* Mutant of Generate: the iterations are counted one too far.
GenerateOnceMore(p) ==
  /\ proc[p].pc = "llm"
  /\ \/ Finish(p)
     \/ /\ proc[p].iteration <= MaxIterations
        /\ \E n \in 1..MaxCalls :
             proc' = [proc EXCEPT ![p].pc = "calls", ![p].left = n, ![p].iteration = @ + 1]
  /\ UNCHANGED <<session, lockFile, qid, history, faults>>

\* Generate: a last text, or tool calls, as long as iterations are left.
Generate(p) ==
  /\ proc[p].pc = "llm"
  /\ \/ Finish(p)
     \/ /\ proc[p].iteration < MaxIterations
        /\ \E n \in 1..MaxCalls :
             proc' = [proc EXCEPT ![p].pc = "calls", ![p].left = n, ![p].iteration = @ + 1]
  /\ UNCHANGED <<session, lockFile, qid, history, faults>>

\* FallbackLLM.Generate: the active provider fails and the next one takes over;
\* after the last one it is an error.
Failover(p) ==
  /\ proc[p].pc = "llm" /\ proc[p].iteration < MaxIterations
  /\ Fault
  /\ IF proc[p].active + 1 < Chain THEN proc' = [proc EXCEPT ![p].active = @ + 1] ELSE Exit(p)
  /\ UNCHANGED <<session, lockFile, qid, history>>

\* runToolCalls, a call that needs no approval or is refused.
CallDirect(p) ==
  /\ proc[p].pc = "calls" /\ proc[p].left > 0
  /\ proc' = [proc EXCEPT ![p].left = @ - 1]
  /\ UNCHANGED <<session, lockFile, qid, history, faults>>

\* qid queues the call under a fresh approval.
Propose(p, a) ==
  /\ proc[p].pc = "calls" /\ proc[p].left > 0
  /\ \A b \in 1..(a - 1) : phase[b] # "none"
  /\ Qid!Submit(a)

CallPending(p) ==
  /\ \E a \in Approvals :
       /\ Propose(p, a)
       /\ proc' = [proc EXCEPT ![p].left = @ - 1, ![p].pending = @ \cup {a}]
  /\ UNCHANGED <<session, lockFile, history, faults>>

\* The reply is lost: the planner takes an error for the result of the call.
CallLost(p) ==
  /\ \E a \in Approvals : Propose(p, a)
  /\ Fault
  /\ lost' = TRUE
  /\ proc' = [proc EXCEPT ![p].left = @ - 1]
  /\ UNCHANGED <<session, lockFile, filed, started, outran, misread>>

\* The turn is over: stop at the gate if something is pending, else go on.
EndTurn(p) ==
  /\ proc[p].pc = "calls" /\ proc[p].left = 0
  /\ Goto(p, IF proc[p].pending # {} THEN "save" ELSE "llm")
  /\ UNCHANGED <<session, lockFile, qid, history, faults>>

Snapshot(p) ==
  [turn |-> proc[p].turn + 1, pending |-> proc[p].pending, active |-> proc[p].active]

\* Session.Save; Release is all a resume does with its lease then.
Save(p) ==
  /\ proc[p].pc = "save"
  /\ session' = Snapshot(p)
  /\ filed' = filed \cup proc[p].pending
  /\ Exit(p)
  /\ UNCHANGED <<lockFile, qid, started, faults, outran, lost, misread>>

\* Mutant of SaveFails: the error is returned, the approvals stay.
SaveFailsQuietly(p) ==
  /\ proc[p].pc = "save"
  /\ Fault
  /\ Exit(p)
  /\ UNCHANGED <<session, lockFile, qid, history>>

\* Save fails, before the rename or, in the sync of the directory, after it.
SaveFails(p) ==
  /\ proc[p].pc = "save"
  /\ Fault
  /\ session' \in {session, Snapshot(p)}
  /\ Goto(p, "deny")
  /\ UNCHANGED <<lockFile, qid, history>>

\* denyUnpersistedApprovals: deny them all; qid refuses that for one a user has
\* just approved, which runs although no session knows of it.
Deny(p) ==
  /\ proc[p].pc = "deny"
  /\ \/ /\ \E a \in Undecided(p) : Qid!Refuse(a)
        /\ UNCHANGED <<proc, outran>>
     \/ /\ Undecided(p) = {}
        /\ outran' = outran \cup {a \in proc[p].pending : phase[a] # "denied"}
        /\ Exit(p)
        /\ UNCHANGED qid
  /\ UNCHANGED <<session, lockFile, filed, started, faults, lost, misread>>

---------------------------------------------------------------------------
\* The end of a resume

Delete(p) ==
  /\ proc[p].pc = "delete"
  /\ session' = NoSession
  /\ Goto(p, "verify")
  /\ UNCHANGED <<lockFile, qid, history, faults>>

\* SessionLease.Complete: is the lease file still the one this process locked?
Verify(p) ==
  /\ proc[p].pc = "verify"
  /\ IF lockFile = proc[p].inode THEN Goto(p, "remove") ELSE Exit(p)
  /\ UNCHANGED <<session, lockFile, qid, history, faults>>

\* completeSessionLease: remove the name, then close.
Remove(p) ==
  /\ proc[p].pc = "remove"
  /\ lockFile' = NoInode
  /\ Goto(p, "close")
  /\ UNCHANGED <<session, qid, history, faults>>

Close(p) ==
  /\ proc[p].pc = "close"
  /\ Exit(p)
  /\ UNCHANGED <<session, lockFile, qid, history, faults>>

\* The process dies, or a call of its command fails and it returns the error:
\* the kernel drops the lock, files and approvals stay.
Die(p) ==
  /\ proc[p].pc # "idle"
  /\ Fault
  /\ lost' = (lost \/ proc[p].pending # {})
  /\ Exit(p)
  /\ UNCHANGED <<session, lockFile, qid, filed, started, outran, misread>>

---------------------------------------------------------------------------
\* The user and qid

Decide(a) ==
  /\ \/ phase[a] = "pending" /\ grants[a] < MaxGrants /\ Qid!Grant(a)
     \/ phase[a] = "pending" /\ Qid!Refuse(a)
  /\ UNCHANGED <<session, lockFile, proc, history, faults>>

\* qid was restarted in between: the call is granted or refused once more.
DecideAgain(a) ==
  /\ phase[a] = "authorised"
  /\ Fault
  /\ \/ grants[a] < MaxGrants /\ Qid!Grant(a)
     \/ Qid!Refuse(a)
  /\ UNCHANGED <<session, lockFile, proc, history>>

Execute(a) ==
  /\ Qid!Run(a) \/ Qid!Settle(a)
  /\ UNCHANGED <<session, lockFile, proc, history, faults>>

---------------------------------------------------------------------------
Init ==
  /\ session = NoSession
  /\ lockFile = NoInode
  /\ proc = [p \in Procs |-> Idle]
  /\ Qid!LifecycleInit
  /\ filed = {}
  /\ started = FALSE
  /\ faults = 0
  /\ outran = {}
  /\ lost = FALSE
  /\ misread = FALSE

\* What a process does on its own once its command has been given.
ProcStep(p) ==
  \/ Flock(p) \/ Load(p) \/ ResolvePending(p) \/ Generate(p) \/ CallDirect(p) \/ CallPending(p)
  \/ EndTurn(p) \/ Save(p) \/ Deny(p) \/ Delete(p) \/ Verify(p) \/ Remove(p) \/ Close(p)

ProcFault(p) == LoadFails(p) \/ Failover(p) \/ CallLost(p) \/ SaveFails(p) \/ Die(p)

Next ==
  \/ \E p \in Procs : Run(p) \/ OpenLease(p) \/ ProcStep(p) \/ ProcFault(p)
  \/ \E a \in Approvals : Decide(a) \/ DecideAgain(a) \/ Execute(a)

\* Processes run on, qid executes what was approved, and the user decides what
\* is pending and resumes what is saved, as the planner's output asks.
Fairness ==
  /\ \A p \in Procs : WF_vars(ProcStep(p)) /\ WF_vars(session # NoSession /\ OpenLease(p))
  /\ \A a \in Approvals : WF_vars(Decide(a)) /\ WF_vars(Execute(a))

Spec == Init /\ [][Next]_vars /\ Fairness

---------------------------------------------------------------------------
\* Properties

ProcType ==
  [pc : {"idle", "flock"} \cup Locked, inode : Inodes \cup {NoInode},
   turn : 0..MaxApprovals, waiting : SUBSET Approvals,
   active : 0..(Chain - 1), iteration : 0..MaxIterations,
   left : 0..MaxCalls, pending : SUBSET Approvals]

\* Types of session, lease file and processes; the loop keeps to its iterations
\* and the failover chain to its entries.
TypeOK ==
  /\ session \in [turn : 0..MaxApprovals, pending : SUBSET Approvals, active : 0..(Chain - 1)]
  /\ lockFile \in Inodes \cup {NoInode}
  /\ proc \in [Procs -> ProcType]
  /\ Qid!LifecycleTypeOK
  /\ filed \cup outran \subseteq Approvals
  /\ started \in BOOLEAN /\ lost \in BOOLEAN /\ misread \in BOOLEAN
  /\ faults \in 0..MaxFaults

\* A process that goes on with the conversation.
Continues(p) == proc[p].pc \in {"resolve", "llm", "calls", "save", "deny", "delete"}

\* "concurrent resume attempts for the same session fail rather than running
\* the continuation twice" (README.md:495): no two resumes act on the saved
\* session at once, although the lease file is unlinked and created anew while
\* others have it open.  A session that could not be read is the exception: its
\* lease file is removed while the session stays.
OneContinuation ==
  ~misread =>
    \A p, q \in Procs :
      Continues(p) /\ Resuming(p) /\ Continues(q) /\ Resuming(q) => p = q

\* A point of the conversation may be continued more than once, after a failed
\* save, delete or provider.  Still, between attempts every call the model
\* proposed is denied or was saved in the session, which then moved on: no call
\* is left to run that the conversation does not know of, and none is proposed
\* twice from one point.  There are two exceptions: a process that died or lost
\* a reply, and a call that a user approved while the attempt that proposed it
\* was failing, before denyUnpersistedApprovals came to it: qid then refuses the
\* denial and the call runs.
ApprovalsOwned ==
  (\A p \in Procs : ~Continues(p)) /\ ~lost =>
    \A a \in Approvals : phase[a] \in {"none", "denied"} \/ a \in filed \cup outran

\* README.md:486: a resume starts at the saved "active fallback entry", so the
\* provider of a saved conversation never moves back to one that failed.  After
\* a session could not be read two processes may continue it (OneContinuation),
\* and the one that started earlier may save the earlier provider last.
StickyProvider ==
  [][~misread /\ session # NoSession /\ session' # NoSession =>
       session'.active >= session.active]_vars

\* Every conversation ends: whatever lease files, half-made attempts and failed
\* saves are left behind, resuming it after its approvals were decided gets it
\* to its end.
ConversationEnds == started ~> [](session = NoSession /\ \A p \in Procs : ~Continues(p))
=============================================================================
