------------------------ MODULE PlannerSessionProofs ------------------------
(***************************************************************************)
(* Theorems about PlannerSession, for any number of processes, approvals,  *)
(* providers, iterations and faults.                                       *)
(***************************************************************************)
EXTENDS PlannerSession, TLAPS, FiniteSetTheorems

---------------------------------------------------------------------------
\* Type correctness

\* The approvals qid has been asked for.
Submitted == {a \in Approvals : phase[a] # "none"}

\* The turn of a session is bounded by the approvals asked for: a turn ends in
\* a save only if it has asked for one.
TurnsBelow(n) ==
  /\ session.turn <= n
  /\ \A p \in Procs :
       /\ proc[p].turn <= n
       /\ proc[p].pending # {} => proc[p].turn + 1 <= n
       /\ proc[p].pc = "save" => proc[p].pending # {}

TurnsOK == TurnsBelow(Cardinality(Submitted))

\* A process that runs the conversation from its start, without a lease.
Runner(p) == proc[p].pc # "idle" /\ ~Resuming(p)

\* What the step a process is at says of it.
ShapeOK ==
  \A p \in Procs :
    /\ proc[p].pc = "idle" => ~Resuming(p)
    /\ proc[p].pc \in {"flock", "load", "resolve", "delete", "verify", "remove", "close"} =>
         Resuming(p)
    /\ proc[p].pc \notin {"calls", "save", "deny"} => proc[p].pending = {}

\* The conversation is started once, and once its id is known or used the
\* process that started it has nothing left to do but to deny approvals.
RunnerOK ==
  /\ ~started => session = NoSession /\ filed = {} /\ \A p \in Procs : proc[p].pc = "idle"
  /\ \A p, q \in Procs : Runner(p) /\ Runner(q) => p = q
  /\ Known \/ (\E q \in Procs : Resuming(q)) =>
       \A p \in Procs : Runner(p) => proc[p].pc = "deny"

\* flock(2): an inode is locked by one process.
LockOK ==
  \A p, q \in Procs : Holds(p, proc[p].inode) /\ Holds(q, proc[p].inode) /\ Resuming(p) => p = q

\* As long as there is a session, every resume has the one lease file open; who
\* continues has found a session and nobody has deleted it since; who completes
\* a lease leaves none behind.
LeaseOK ==
  ~misread =>
    \A p \in Procs :
      /\ Resuming(p) /\ session # NoSession => lockFile = proc[p].inode
      /\ Resuming(p) /\ Continues(p) => session # NoSession /\ proc[p].active >= session.active
      /\ proc[p].pc \in {"verify", "remove", "close"} => session = NoSession

\* Every approval that may still run is in a saved session or known to an attempt.
OwnedOK ==
  ~lost =>
    \A a \in Approvals :
      phase[a] \in {"none", "denied"} \/ a \in filed \cup outran \/ \E p \in Procs : a \in proc[p].pending

PlannerInv ==
  TypeOK /\ TurnsOK /\ ShapeOK /\ RunnerOK /\ LockOK /\ LeaseOK /\ OwnedOK

\* A set of approvals can be counted, and is within the bound.
LEMMA ApprovalsFinite ==
  ASSUME NEW S, S \subseteq Approvals
  PROVE  IsFiniteSet(S) /\ Cardinality(S) \in 0..MaxApprovals
<1>1. IsFiniteSet(Approvals) /\ Cardinality(Approvals) = MaxApprovals
  BY FS_Interval, PlannerAssumption DEF Approvals
<1> QED
  BY <1>1, FS_Subset, FS_CardinalityType, PlannerAssumption

\* What a step does to the approvals asked for.
LEMMA SubmittedGrows ==
  ASSUME phase \in [Approvals -> Qid!Phases], NEW a \in Approvals, NEW s, s # "none",
         phase' = [phase EXCEPT ![a] = s]
  PROVE  /\ Submitted' = Submitted \cup {a}
         /\ Cardinality(Submitted) \in Nat /\ Cardinality(Submitted') \in Nat
         /\ Cardinality(Submitted') >= Cardinality(Submitted)
         /\ phase[a] = "none" => Cardinality(Submitted') = Cardinality(Submitted) + 1
<1>1. Submitted' = Submitted \cup {a}
  BY DEF Submitted
<1>2. IsFiniteSet(Submitted) /\ Cardinality(Submitted) \in Nat
  BY ApprovalsFinite DEF Submitted
<1>3. CASE a \in Submitted
  <2>1. Submitted' = Submitted /\ phase[a] # "none"
    BY <1>1, <1>3 DEF Submitted
  <2> QED
    BY <1>1, <1>2, <2>1
<1>4. CASE a \notin Submitted
  <2>1. Cardinality(Submitted \cup {a}) = Cardinality(Submitted) + 1
    BY <1>2, <1>4, FS_AddElement
  <2> QED
    BY <1>1, <1>2, <2>1
<1> QED
  BY <1>3, <1>4

\* The approvals asked for only grow, and no step takes one back.
LEMMA SubmittedStep ==
  ASSUME TypeOK, [Next]_vars
  PROVE  /\ Qid!LifecycleTypeOK'
         /\ Cardinality(Submitted) \in 0..MaxApprovals
         /\ Cardinality(Submitted') \in 0..MaxApprovals
         /\ Cardinality(Submitted') >= Cardinality(Submitted)
         /\ Submitted \subseteq Submitted'
<1> USE DEF TypeOK, Qid!LifecycleTypeOK, Qid!Phases
<1>1. Cardinality(Submitted) \in 0..MaxApprovals /\ Cardinality(Submitted') \in 0..MaxApprovals
  BY ApprovalsFinite DEF Submitted
<1>2. ASSUME UNCHANGED <<phase, grants, runs>>
      PROVE  /\ Qid!LifecycleTypeOK' /\ Submitted \subseteq Submitted'
             /\ Cardinality(Submitted') >= Cardinality(Submitted)
  BY <1>1, <1>2 DEF Submitted
<1>3. ASSUME NEW a \in Approvals, Qid!Submit(a) \/ Qid!Grant(a) \/ Qid!Refuse(a) \/ Qid!Run(a) \/ Qid!Settle(a)
      PROVE  /\ Qid!LifecycleTypeOK' /\ Submitted \subseteq Submitted'
             /\ Cardinality(Submitted') >= Cardinality(Submitted)
  <2>1. Qid!LifecycleTypeOK'
    BY <1>3 DEF Qid!Submit, Qid!Grant, Qid!Refuse, Qid!Run, Qid!Settle
  <2>2. UNCHANGED phase \/ \E s \in Qid!Phases \ {"none"} : phase' = [phase EXCEPT ![a] = s]
    BY <1>3 DEF Qid!Submit, Qid!Grant, Qid!Refuse, Qid!Run, Qid!Settle
  <2>3. CASE UNCHANGED phase
    BY <1>1, <2>1, <2>3 DEF Submitted
  <2>4. ASSUME NEW s \in Qid!Phases \ {"none"}, phase' = [phase EXCEPT ![a] = s]
        PROVE  Submitted \subseteq Submitted' /\ Cardinality(Submitted') >= Cardinality(Submitted)
    BY <2>4, SubmittedGrows
  <2> QED
    BY <2>1, <2>2, <2>3, <2>4
<1>4. \/ UNCHANGED <<phase, grants, runs>>
      \/ \E a \in Approvals :
           Qid!Submit(a) \/ Qid!Grant(a) \/ Qid!Refuse(a) \/ Qid!Run(a) \/ Qid!Settle(a)
  <2>1. ASSUME NEW p \in Procs, Run(p) \/ OpenLease(p) \/ ProcStep(p) \/ ProcFault(p)
        PROVE  \/ UNCHANGED <<phase, grants, runs>>
               \/ \E a \in Approvals : Qid!Submit(a) \/ Qid!Refuse(a)
    <3>1. CASE Run(p) \/ OpenLease(p) \/ Flock(p) \/ Load(p) \/ ResolvePending(p) \/ Generate(p)
               \/ CallDirect(p) \/ EndTurn(p) \/ Save(p) \/ Delete(p) \/ Verify(p) \/ Remove(p)
               \/ Close(p) \/ LoadFails(p) \/ Failover(p) \/ SaveFails(p) \/ Die(p)
      BY <3>1 DEF Run, OpenLease, Flock, Load, ResolvePending, Generate, CallDirect, EndTurn, Save,
        Delete, Verify, Remove, Close, LoadFails, Failover, SaveFails, Die, qid
    <3>2. CASE CallPending(p) \/ CallLost(p)
      BY <3>2 DEF CallPending, CallLost, Propose
    <3>3. CASE Deny(p)
      BY <3>3 DEF Deny, Undecided, qid, ProcType
    <3> QED
      BY <2>1, <3>1, <3>2, <3>3 DEF ProcStep, ProcFault
  <2>2. ASSUME NEW a \in Approvals, Decide(a) \/ DecideAgain(a) \/ Execute(a)
        PROVE  Qid!Grant(a) \/ Qid!Refuse(a) \/ Qid!Run(a) \/ Qid!Settle(a)
    BY <2>2 DEF Decide, DecideAgain, Execute
  <2> QED
    BY <2>1, <2>2 DEF Next, vars
<1> QED
  BY <1>1, <1>2, <1>3, <1>4

\* The steps that change several fields of a process keep its type.
LEMMA ProcTypeStep ==
  ASSUME TypeOK, NEW p \in Procs, Load(p) \/ Generate(p) \/ CallPending(p)
  PROVE  proc' \in [Procs -> ProcType]
<1>0. proc \in [Procs -> ProcType]
  BY DEF TypeOK
<1>1. SUFFICES \E r \in ProcType : proc' = [proc EXCEPT ![p] = r]
  BY <1>0
<1>2. CASE Load(p)
  <2> DEFINE pc == IF session = NoSession THEN "verify" ELSE "resolve"
             r == [proc[p] EXCEPT !.pc = pc, !.turn = session.turn,
                     !.waiting = session.pending, !.active = session.active]
  <2>1. /\ session.turn \in 0..MaxApprovals /\ session.pending \in SUBSET Approvals
        /\ session.active \in 0..(Chain - 1)
    BY DEF TypeOK
  <2>2. pc \in {"idle", "flock"} \cup Locked
    BY DEF Locked
  <2>3. r \in ProcType
    <3> HIDE DEF pc
    <3> QED
      BY <1>0, <2>1, <2>2 DEF ProcType
  <2>4. proc' = [proc EXCEPT ![p] = r]
    BY <1>0, <1>2 DEF Load
  <2> QED
    BY <2>3, <2>4
<1>3. CASE Generate(p)
  <2>1. CASE Finish(p)
    <3>1. CASE Resuming(p)
      <4>1. [proc[p] EXCEPT !.pc = "delete"] \in ProcType
        BY <1>0 DEF ProcType, Locked
      <4>2. proc' = [proc EXCEPT ![p] = [proc[p] EXCEPT !.pc = "delete"]]
        BY <1>0, <2>1, <3>1 DEF Finish, Goto
      <4> QED
        BY <4>1, <4>2
    <3>2. CASE ~Resuming(p)
      <4>1. Idle \in ProcType
        BY PlannerAssumption DEF ProcType, Idle
      <4> QED
        BY <2>1, <3>2, <4>1 DEF Finish, Exit
    <3> QED
      BY <3>1, <3>2
  <2>2. ASSUME NEW n \in 1..MaxCalls, proc[p].iteration < MaxIterations,
               proc' = [proc EXCEPT ![p].pc = "calls", ![p].left = n, ![p].iteration = @ + 1]
        PROVE  \E r \in ProcType : proc' = [proc EXCEPT ![p] = r]
    <3> DEFINE r == [proc[p] EXCEPT !.pc = "calls", !.left = n, !.iteration = @ + 1]
    <3>1. proc[p].iteration + 1 \in 0..MaxIterations /\ n \in 0..MaxCalls
      BY <1>0, <2>2, PlannerAssumption DEF ProcType
    <3>2. r \in ProcType
      BY <1>0, <3>1, ZenonT(30) DEF ProcType, Locked
    <3>3. proc' = [proc EXCEPT ![p] = r]
      BY <1>0, <2>2
    <3> QED
      BY <3>2, <3>3
  <2> QED
    BY <1>3, <2>1, <2>2 DEF Generate
<1>4. CASE CallPending(p)
  <2>1. PICK a \in Approvals : Propose(p, a) /\
          proc' = [proc EXCEPT ![p].left = @ - 1, ![p].pending = @ \cup {a}]
    BY <1>4 DEF CallPending
  <2> DEFINE r == [proc[p] EXCEPT !.left = @ - 1, !.pending = @ \cup {a}]
  <2>2. proc[p].left - 1 \in 0..MaxCalls /\ proc[p].pending \cup {a} \in SUBSET Approvals
    BY <1>0, <2>1, PlannerAssumption DEF ProcType, Propose
  <2>3. r \in ProcType
    BY <1>0, <2>2 DEF ProcType
  <2>4. proc' = [proc EXCEPT ![p] = r]
    BY <1>0, <2>1
  <2> QED
    BY <2>3, <2>4
<1> QED
  BY <1>2, <1>3, <1>4

\* Types: no step leaves the sets the state is declared in.
LEMMA TypeStep ==
  ASSUME TypeOK, TurnsOK, ShapeOK, [Next]_vars
  PROVE  TypeOK'
<1>0. Qid!LifecycleTypeOK'
  BY SubmittedStep
<1> USE <1>0, SubmittedStep, PlannerAssumption
    DEF TypeOK, ProcType, Locked, Inodes, NoInode, Idle, TurnsOK, TurnsBelow, ShapeOK, qid, history
<1>1. ASSUME NEW p \in Procs, Run(p) PROVE TypeOK'
  BY <1>1 DEF Run, Goto
<1>2. ASSUME NEW p \in Procs, OpenLease(p) PROVE TypeOK'
  BY <1>2 DEF OpenLease
<1>3. ASSUME NEW p \in Procs, Flock(p) PROVE TypeOK'
  BY <1>3 DEF Flock, Goto, Exit
<1>4. ASSUME NEW p \in Procs, Load(p) PROVE TypeOK'
  <2>1. proc' \in [Procs -> ProcType]
    BY <1>4, ProcTypeStep DEF TypeOK
  <2> QED
    BY <1>4, <2>1 DEF Load
<1>5. ASSUME NEW p \in Procs, ResolvePending(p) PROVE TypeOK'
  BY <1>5 DEF ResolvePending, Exit
<1>6. ASSUME NEW p \in Procs, Generate(p) PROVE TypeOK'
  <2>1. proc' \in [Procs -> ProcType]
    BY <1>6, ProcTypeStep DEF TypeOK
  <2> QED
    BY <1>6, <2>1 DEF Generate
<1>7. ASSUME NEW p \in Procs, Failover(p) PROVE TypeOK'
  BY <1>7 DEF Failover, Fault, Exit
<1>8. ASSUME NEW p \in Procs, CallDirect(p) PROVE TypeOK'
  BY <1>8 DEF CallDirect
<1>9. ASSUME NEW p \in Procs, CallPending(p) PROVE TypeOK'
  <2>1. proc' \in [Procs -> ProcType]
    BY <1>9, ProcTypeStep DEF TypeOK
  <2> QED
    BY <1>9, <2>1 DEF CallPending
<1>10. ASSUME NEW p \in Procs, CallLost(p) PROVE TypeOK'
  BY <1>10 DEF CallLost, Propose, Fault
<1>11. ASSUME NEW p \in Procs, EndTurn(p) PROVE TypeOK'
  <2>1. proc' \in [Procs -> ProcType]
    <3>1. PICK pc \in {"save", "llm"} : proc' = [proc EXCEPT ![p].pc = pc]
      BY <1>11 DEF EndTurn, Goto
    <3> QED BY <3>1
  <2> QED
    BY <1>11, <2>1 DEF EndTurn
<1>12. ASSUME NEW p \in Procs, Save(p) PROVE TypeOK'
  BY <1>12 DEF Save, Snapshot, Exit
<1>13. ASSUME NEW p \in Procs, SaveFails(p) PROVE TypeOK'
  BY <1>13 DEF SaveFails, Snapshot, Fault, Goto
<1>14. ASSUME NEW p \in Procs, Deny(p) PROVE TypeOK'
  <2>1. outran' \subseteq Approvals
    BY <1>14 DEF Deny
  <2> QED
    BY <1>14, <2>1 DEF Deny, Exit
<1>15. ASSUME NEW p \in Procs, Delete(p) PROVE TypeOK'
  BY <1>15 DEF Delete, Goto, NoSession
<1>16. ASSUME NEW p \in Procs, Verify(p) PROVE TypeOK'
  BY <1>16 DEF Verify, Goto, Exit
<1>17. ASSUME NEW p \in Procs, Remove(p) PROVE TypeOK'
  BY <1>17 DEF Remove, Goto
<1>18. ASSUME NEW p \in Procs, Close(p) PROVE TypeOK'
  BY <1>18 DEF Close, Exit
<1>19. ASSUME NEW p \in Procs, Die(p) PROVE TypeOK'
  BY <1>19 DEF Die, Fault, Exit
<1>20. ASSUME NEW p \in Procs, LoadFails(p) PROVE TypeOK'
  BY <1>20 DEF LoadFails, Fault, Goto
<1>21. ASSUME NEW a \in Approvals, Decide(a) \/ DecideAgain(a) \/ Execute(a) PROVE TypeOK'
  BY <1>21 DEF Decide, DecideAgain, Execute, Fault
<1>22. CASE UNCHANGED vars
  BY <1>22 DEF vars
<1> QED
  BY <1>1, <1>2, <1>3, <1>4, <1>5, <1>6, <1>7, <1>8, <1>9, <1>10, <1>11, <1>12, <1>13, <1>14,
     <1>15, <1>16, <1>17, <1>18, <1>19, <1>20, <1>21, <1>22 DEF Next, ProcStep, ProcFault

---------------------------------------------------------------------------
\* What an action does, field by field

\* Process p is where the arguments say, and no other process has moved.
Moved(p, pc, inode, turn, active, pending) ==
  /\ \A q \in Procs \ {p} : proc'[q] = proc[q]
  /\ proc'[p].pc = pc /\ proc'[p].inode = inode /\ proc'[p].turn = turn
  /\ proc'[p].active = active /\ proc'[p].pending = pending

Went(p, pc) == Moved(p, pc, proc[p].inode, proc[p].turn, proc[p].active, proc[p].pending)
Left(p)     == Moved(p, "idle", NoInode, 0, 0, {})

Quiet == UNCHANGED <<session, lockFile, phase, filed, started, outran, lost, misread>>

\* What each step of a process does, field by field.
LEMMA Effects ==
  ASSUME TypeOK, NEW p \in Procs
  PROVE  /\ Run(p) =>
              /\ ~started /\ started' /\ Went(p, "llm")
              /\ UNCHANGED <<session, lockFile, phase, filed, outran, lost, misread>>
         /\ OpenLease(p) =>
              /\ Known /\ proc[p].pc = "idle"
              /\ lockFile' \in Inodes /\ (lockFile = NoInode \/ lockFile' = lockFile)
              /\ Moved(p, "flock", lockFile', proc[p].turn, proc[p].active, proc[p].pending)
              /\ UNCHANGED <<session, phase, filed, started, outran, lost, misread>>
         /\ Flock(p) =>
              /\ proc[p].pc = "flock" /\ Quiet
              /\ Left(p) \/ (Went(p, "load") /\ \A q \in Procs : ~Holds(q, proc[p].inode))
         /\ Load(p) =>
              /\ proc[p].pc = "load" /\ Quiet
              /\ Moved(p, IF session = NoSession THEN "verify" ELSE "resolve", proc[p].inode,
                       session.turn, session.active, proc[p].pending)
         /\ LoadFails(p) =>
              /\ proc[p].pc = "load" /\ misread' /\ Went(p, "verify")
              /\ UNCHANGED <<session, lockFile, phase, filed, started, outran, lost>>
         /\ ResolvePending(p) =>
              proc[p].pc = "resolve" /\ Quiet /\ (Left(p) \/ Went(p, "llm"))
         /\ Generate(p) =>
              /\ proc[p].pc = "llm" /\ Quiet
              /\ \/ IF Resuming(p) THEN Went(p, "delete") ELSE Left(p)
                 \/ Went(p, "calls")
         /\ Failover(p) =>
              /\ proc[p].pc = "llm" /\ Quiet
              /\ \/ Left(p)
                 \/ Moved(p, "llm", proc[p].inode, proc[p].turn, proc[p].active + 1, proc[p].pending)
         /\ CallDirect(p) =>
              proc[p].pc = "calls" /\ Quiet /\ Went(p, "calls")
         /\ CallPending(p) =>
              /\ proc[p].pc = "calls"
              /\ \E a \in Approvals :
                   /\ phase[a] = "none" /\ phase' = [phase EXCEPT ![a] = "pending"]
                   /\ Moved(p, "calls", proc[p].inode, proc[p].turn, proc[p].active, proc[p].pending \cup {a})
              /\ UNCHANGED <<session, lockFile, filed, started, outran, lost, misread>>
         /\ CallLost(p) =>
              /\ proc[p].pc = "calls" /\ Went(p, "calls") /\ lost'
              /\ \E a \in Approvals : phase[a] = "none" /\ phase' = [phase EXCEPT ![a] = "pending"]
              /\ UNCHANGED <<session, lockFile, filed, started, outran, misread>>
         /\ EndTurn(p) =>
              /\ proc[p].pc = "calls" /\ Quiet
              /\ Went(p, IF proc[p].pending # {} THEN "save" ELSE "llm")
         /\ Save(p) =>
              /\ proc[p].pc = "save" /\ Left(p)
              /\ session' = Snapshot(p) /\ filed' = filed \cup proc[p].pending
              /\ UNCHANGED <<lockFile, phase, started, outran, lost, misread>>
         /\ SaveFails(p) =>
              /\ proc[p].pc = "save" /\ Went(p, "deny") /\ session' \in {session, Snapshot(p)}
              /\ UNCHANGED <<lockFile, phase, filed, started, outran, lost, misread>>
         /\ Deny(p) =>
              /\ proc[p].pc = "deny" /\ UNCHANGED <<session, lockFile, filed, started, lost, misread>>
              /\ \/ /\ \E a \in proc[p].pending : phase[a] = "pending" /\ phase' = [phase EXCEPT ![a] = "denied"]
                    /\ UNCHANGED <<proc, outran>>
                 \/ /\ Left(p) /\ UNCHANGED phase
                    /\ outran' = outran \cup {a \in proc[p].pending : phase[a] # "denied"}
         /\ Delete(p) =>
              /\ proc[p].pc = "delete" /\ session' = NoSession /\ Went(p, "verify")
              /\ UNCHANGED <<lockFile, phase, filed, started, outran, lost, misread>>
         /\ Verify(p) =>
              /\ proc[p].pc = "verify" /\ Quiet
              /\ Left(p) \/ (Went(p, "remove") /\ lockFile = proc[p].inode)
         /\ Remove(p) =>
              /\ proc[p].pc = "remove" /\ lockFile' = NoInode /\ Went(p, "close")
              /\ UNCHANGED <<session, phase, filed, started, outran, lost, misread>>
         /\ Close(p) =>
              proc[p].pc = "close" /\ Quiet /\ Left(p)
         /\ Die(p) =>
              /\ proc[p].pc # "idle" /\ Left(p) /\ lost' = (lost \/ proc[p].pending # {})
              /\ UNCHANGED <<session, lockFile, phase, filed, started, outran, misread>>
<1> USE DEF Went, Left, Moved, Quiet, qid, history
<1>0. proc \in [Procs -> ProcType]
  BY DEF TypeOK
<1> USE <1>0 DEF ProcType
<1>g. ASSUME NEW pc, Goto(p, pc) PROVE Went(p, pc)
  BY <1>g DEF Goto
<1>x. ASSUME Exit(p) PROVE Left(p)
  BY <1>x DEF Exit, Idle
<1> HIDE DEF Went, Left
<1>1. Run(p) =>
      /\ ~started /\ started' /\ Went(p, "llm")
      /\ UNCHANGED <<session, lockFile, phase, filed, outran, lost, misread>>
  BY <1>g, <1>x DEF Run
<1>2. OpenLease(p) =>
      /\ Known /\ proc[p].pc = "idle"
      /\ lockFile' \in Inodes /\ (lockFile = NoInode \/ lockFile' = lockFile)
      /\ Moved(p, "flock", lockFile', proc[p].turn, proc[p].active, proc[p].pending)
      /\ UNCHANGED <<session, phase, filed, started, outran, lost, misread>>
  BY <1>g, <1>x DEF OpenLease, Known, TypeOK, Inodes, NoInode
<1>3. Flock(p) =>
      /\ proc[p].pc = "flock" /\ Quiet
      /\ Left(p) \/ (Went(p, "load") /\ \A q \in Procs : ~Holds(q, proc[p].inode))
  BY <1>g, <1>x DEF Flock
<1>4. Load(p) =>
      /\ proc[p].pc = "load" /\ Quiet
      /\ Moved(p, IF session = NoSession THEN "verify" ELSE "resolve", proc[p].inode,
               session.turn, session.active, proc[p].pending)
  BY <1>g, <1>x DEF Load, Went
<1>5. LoadFails(p) =>
      /\ proc[p].pc = "load" /\ misread' /\ Went(p, "verify")
      /\ UNCHANGED <<session, lockFile, phase, filed, started, outran, lost>>
  BY <1>g, <1>x DEF LoadFails
<1>6. ResolvePending(p) =>
      proc[p].pc = "resolve" /\ Quiet /\ (Left(p) \/ Went(p, "llm"))
  BY <1>g, <1>x DEF ResolvePending, Went
<1>7. Generate(p) =>
      /\ proc[p].pc = "llm" /\ Quiet
      /\ \/ IF Resuming(p) THEN Went(p, "delete") ELSE Left(p)
         \/ Went(p, "calls")
  <2>1. Finish(p) => IF Resuming(p) THEN Went(p, "delete") ELSE Left(p)
    BY <1>g, <1>x DEF Finish
  <2>2. ASSUME NEW n \in 1..MaxCalls,
               proc' = [proc EXCEPT ![p].pc = "calls", ![p].left = n, ![p].iteration = @ + 1]
        PROVE  Went(p, "calls")
    BY <2>2 DEF Went
  <2> QED
    BY <2>1, <2>2 DEF Generate
<1>8. Failover(p) =>
      /\ proc[p].pc = "llm" /\ Quiet
      /\ \/ Left(p)
         \/ Moved(p, "llm", proc[p].inode, proc[p].turn, proc[p].active + 1, proc[p].pending)
  BY <1>g, <1>x DEF Failover
<1>9. CallDirect(p) =>
      proc[p].pc = "calls" /\ Quiet /\ Went(p, "calls")
  BY <1>g, <1>x DEF CallDirect, Went
<1>10. CallPending(p) =>
      /\ proc[p].pc = "calls"
      /\ \E a \in Approvals :
           /\ phase[a] = "none" /\ phase' = [phase EXCEPT ![a] = "pending"]
           /\ Moved(p, "calls", proc[p].inode, proc[p].turn, proc[p].active, proc[p].pending \cup {a})
      /\ UNCHANGED <<session, lockFile, filed, started, outran, lost, misread>>
  <2>1. ASSUME NEW a \in Approvals,
               proc' = [proc EXCEPT ![p].left = @ - 1, ![p].pending = @ \cup {a}],
               proc[p].pc = "calls"
        PROVE  Moved(p, "calls", proc[p].inode, proc[p].turn, proc[p].active,
                     proc[p].pending \cup {a})
    BY <2>1
  <2> HIDE DEF Moved
  <2> QED
    BY <2>1 DEF CallPending, Propose, Qid!Submit
<1>11. CallLost(p) =>
      /\ proc[p].pc = "calls" /\ Went(p, "calls") /\ lost'
      /\ \E a \in Approvals : phase[a] = "none" /\ phase' = [phase EXCEPT ![a] = "pending"]
      /\ UNCHANGED <<session, lockFile, filed, started, outran, misread>>
  BY <1>g, <1>x, ZenonT(30) DEF CallLost, Propose, Qid!Submit, Went
<1>12. EndTurn(p) =>
      /\ proc[p].pc = "calls" /\ Quiet
      /\ Went(p, IF proc[p].pending # {} THEN "save" ELSE "llm")
  BY <1>g, <1>x DEF EndTurn
<1>13. Save(p) =>
      /\ proc[p].pc = "save" /\ Left(p)
      /\ session' = Snapshot(p) /\ filed' = filed \cup proc[p].pending
      /\ UNCHANGED <<lockFile, phase, started, outran, lost, misread>>
  BY <1>g, <1>x DEF Save
<1>14. SaveFails(p) =>
      /\ proc[p].pc = "save" /\ Went(p, "deny") /\ session' \in {session, Snapshot(p)}
      /\ UNCHANGED <<lockFile, phase, filed, started, outran, lost, misread>>
  BY <1>g, <1>x DEF SaveFails
<1>15. Deny(p) =>
      /\ proc[p].pc = "deny" /\ UNCHANGED <<session, lockFile, filed, started, lost, misread>>
      /\ \/ /\ \E a \in proc[p].pending : phase[a] = "pending" /\ phase' = [phase EXCEPT ![a] = "denied"]
            /\ UNCHANGED <<proc, outran>>
         \/ /\ Left(p) /\ UNCHANGED phase
            /\ outran' = outran \cup {a \in proc[p].pending : phase[a] # "denied"}
  BY <1>g, <1>x DEF Deny, Undecided, Qid!Refuse
<1>16. Delete(p) =>
      /\ proc[p].pc = "delete" /\ session' = NoSession /\ Went(p, "verify")
      /\ UNCHANGED <<lockFile, phase, filed, started, outran, lost, misread>>
  BY <1>g, <1>x DEF Delete
<1>17. Verify(p) =>
      /\ proc[p].pc = "verify" /\ Quiet
      /\ Left(p) \/ (Went(p, "remove") /\ lockFile = proc[p].inode)
  BY <1>g, <1>x DEF Verify
<1>18. Remove(p) =>
      /\ proc[p].pc = "remove" /\ lockFile' = NoInode /\ Went(p, "close")
      /\ UNCHANGED <<session, phase, filed, started, outran, lost, misread>>
  BY <1>g, <1>x DEF Remove
<1>19. Close(p) =>
      proc[p].pc = "close" /\ Quiet /\ Left(p)
  BY <1>g, <1>x DEF Close
<1>20. Die(p) =>
      /\ proc[p].pc # "idle" /\ Left(p) /\ lost' = (lost \/ proc[p].pending # {})
      /\ UNCHANGED <<session, lockFile, phase, filed, started, outran, misread>>
  BY <1>g, <1>x DEF Die
<1> QED
  BY <1>1, <1>2, <1>3, <1>4, <1>5, <1>6, <1>7, <1>8, <1>9, <1>10, <1>11, <1>12, <1>13, <1>14,
     <1>15, <1>16, <1>17, <1>18, <1>19, <1>20

---------------------------------------------------------------------------
\* The invariant, step by step

\* No lock file is not a lock file.
LEMMA NoInodeIsNone == NoInode \notin Inodes
<1>1. Cardinality(Procs) \in Nat
  BY PlannerAssumption, FS_CardinalityType
<1> QED
  BY <1>1 DEF NoInode, Inodes

\* A process leaves a step as the step requires.
LEMMA ShapeStep ==
  ASSUME TypeOK, ShapeOK, RunnerOK, [Next]_vars
  PROVE  ShapeOK'
<1> USE DEF ShapeOK, Resuming, Went, Left, Moved, Quiet, qid, history
<1>1. ASSUME NEW p \in Procs, Run(p) PROVE ShapeOK'
  BY <1>1, Effects DEF RunnerOK
<1>2. ASSUME NEW p \in Procs, OpenLease(p) PROVE ShapeOK'
  BY <1>2, Effects, NoInodeIsNone
<1>3. ASSUME NEW p \in Procs, Flock(p) PROVE ShapeOK'
  BY <1>3, Effects
<1>4. ASSUME NEW p \in Procs, Load(p) PROVE ShapeOK'
  BY <1>4, Effects
<1>5. ASSUME NEW p \in Procs, LoadFails(p) PROVE ShapeOK'
  BY <1>5, Effects
<1>6. ASSUME NEW p \in Procs, ResolvePending(p) PROVE ShapeOK'
  BY <1>6, Effects
<1>7. ASSUME NEW p \in Procs, Generate(p) PROVE ShapeOK'
  BY <1>7, Effects
<1>8. ASSUME NEW p \in Procs, Failover(p) PROVE ShapeOK'
  BY <1>8, Effects
<1>9. ASSUME NEW p \in Procs, CallDirect(p) PROVE ShapeOK'
  BY <1>9, Effects
<1>10. ASSUME NEW p \in Procs, CallPending(p) PROVE ShapeOK'
  BY <1>10, Effects
<1>11. ASSUME NEW p \in Procs, CallLost(p) PROVE ShapeOK'
  BY <1>11, Effects
<1>12. ASSUME NEW p \in Procs, EndTurn(p) PROVE ShapeOK'
  BY <1>12, Effects
<1>13. ASSUME NEW p \in Procs, Save(p) PROVE ShapeOK'
  BY <1>13, Effects
<1>14. ASSUME NEW p \in Procs, SaveFails(p) PROVE ShapeOK'
  BY <1>14, Effects
<1>15. ASSUME NEW p \in Procs, Deny(p) PROVE ShapeOK'
  BY <1>15, Effects
<1>16. ASSUME NEW p \in Procs, Delete(p) PROVE ShapeOK'
  BY <1>16, Effects
<1>17. ASSUME NEW p \in Procs, Verify(p) PROVE ShapeOK'
  BY <1>17, Effects
<1>18. ASSUME NEW p \in Procs, Remove(p) PROVE ShapeOK'
  BY <1>18, Effects
<1>19. ASSUME NEW p \in Procs, Close(p) PROVE ShapeOK'
  BY <1>19, Effects
<1>20. ASSUME NEW p \in Procs, Die(p) PROVE ShapeOK'
  BY <1>20, Effects
<1>21. ASSUME NEW a \in Approvals, Decide(a) \/ DecideAgain(a) \/ Execute(a) PROVE ShapeOK'
  BY <1>21 DEF Decide, DecideAgain, Execute
<1>22. CASE UNCHANGED vars
  BY <1>22 DEF vars
<1> QED
  BY <1>1, <1>2, <1>3, <1>4, <1>5, <1>6, <1>7, <1>8, <1>9, <1>10, <1>11, <1>12, <1>13, <1>14,
     <1>15, <1>16, <1>17, <1>18, <1>19, <1>20, <1>21, <1>22 DEF Next, ProcStep, ProcFault

\* Only Flock takes a lock, and only one nobody has.
LEMMA LockStep ==
  ASSUME TypeOK, ShapeOK, RunnerOK, LockOK, [Next]_vars
  PROVE  LockOK'
<1> USE DEF ShapeOK, RunnerOK, LockOK, Holds, Locked, Resuming, Went, Left, Moved, Quiet, qid, history
<1>1. ASSUME NEW p \in Procs, Run(p) PROVE LockOK'
  BY <1>1, Effects
<1>2. ASSUME NEW p \in Procs, OpenLease(p) PROVE LockOK'
  BY <1>2, Effects
<1>3. ASSUME NEW p \in Procs, Flock(p) PROVE LockOK'
  BY <1>3, Effects
<1>4. ASSUME NEW p \in Procs, Load(p) PROVE LockOK'
  BY <1>4, Effects
<1>5. ASSUME NEW p \in Procs, LoadFails(p) PROVE LockOK'
  BY <1>5, Effects
<1>6. ASSUME NEW p \in Procs, ResolvePending(p) PROVE LockOK'
  BY <1>6, Effects
<1>7. ASSUME NEW p \in Procs, Generate(p) PROVE LockOK'
  BY <1>7, Effects
<1>8. ASSUME NEW p \in Procs, Failover(p) PROVE LockOK'
  BY <1>8, Effects
<1>9. ASSUME NEW p \in Procs, CallDirect(p) PROVE LockOK'
  BY <1>9, Effects
<1>10. ASSUME NEW p \in Procs, CallPending(p) PROVE LockOK'
  BY <1>10, Effects
<1>11. ASSUME NEW p \in Procs, CallLost(p) PROVE LockOK'
  BY <1>11, Effects
<1>12. ASSUME NEW p \in Procs, EndTurn(p) PROVE LockOK'
  BY <1>12, Effects
<1>13. ASSUME NEW p \in Procs, Save(p) PROVE LockOK'
  BY <1>13, Effects
<1>14. ASSUME NEW p \in Procs, SaveFails(p) PROVE LockOK'
  BY <1>14, Effects
<1>15. ASSUME NEW p \in Procs, Deny(p) PROVE LockOK'
  BY <1>15, Effects
<1>16. ASSUME NEW p \in Procs, Delete(p) PROVE LockOK'
  BY <1>16, Effects
<1>17. ASSUME NEW p \in Procs, Verify(p) PROVE LockOK'
  BY <1>17, Effects
<1>18. ASSUME NEW p \in Procs, Remove(p) PROVE LockOK'
  BY <1>18, Effects
<1>19. ASSUME NEW p \in Procs, Close(p) PROVE LockOK'
  BY <1>19, Effects
<1>20. ASSUME NEW p \in Procs, Die(p) PROVE LockOK'
  BY <1>20, Effects
<1>21. ASSUME NEW a \in Approvals, Decide(a) \/ DecideAgain(a) \/ Execute(a) PROVE LockOK'
  BY <1>21 DEF Decide, DecideAgain, Execute
<1>22. CASE UNCHANGED vars
  BY <1>22 DEF vars
<1> QED
  BY <1>1, <1>2, <1>3, <1>4, <1>5, <1>6, <1>7, <1>8, <1>9, <1>10, <1>11, <1>12, <1>13, <1>14,
     <1>15, <1>16, <1>17, <1>18, <1>19, <1>20, <1>21, <1>22 DEF Next, ProcStep, ProcFault

\* The process that started the conversation stays the only one without a lease.
LEMMA RunnerStep ==
  ASSUME TypeOK, ShapeOK, RunnerOK, [Next]_vars
  PROVE  RunnerOK'
<1> USE DEF ShapeOK, RunnerOK, Runner, Known, Resuming, Went, Left, Moved, Quiet, qid, history
<1>1. ASSUME NEW p \in Procs, Run(p) PROVE RunnerOK'
  BY <1>1, Effects
<1>2. ASSUME NEW p \in Procs, OpenLease(p) PROVE RunnerOK'
  BY <1>2, Effects, NoInodeIsNone
<1>3. ASSUME NEW p \in Procs, Flock(p) PROVE RunnerOK'
  BY <1>3, Effects
<1>4. ASSUME NEW p \in Procs, Load(p) PROVE RunnerOK'
  BY <1>4, Effects
<1>5. ASSUME NEW p \in Procs, LoadFails(p) PROVE RunnerOK'
  BY <1>5, Effects
<1>6. ASSUME NEW p \in Procs, ResolvePending(p) PROVE RunnerOK'
  BY <1>6, Effects
<1>7. ASSUME NEW p \in Procs, Generate(p) PROVE RunnerOK'
  BY <1>7, Effects
<1>8. ASSUME NEW p \in Procs, Failover(p) PROVE RunnerOK'
  BY <1>8, Effects
<1>9. ASSUME NEW p \in Procs, CallDirect(p) PROVE RunnerOK'
  BY <1>9, Effects
<1>10. ASSUME NEW p \in Procs, CallPending(p) PROVE RunnerOK'
  BY <1>10, Effects
<1>11. ASSUME NEW p \in Procs, CallLost(p) PROVE RunnerOK'
  BY <1>11, Effects
<1>12. ASSUME NEW p \in Procs, EndTurn(p) PROVE RunnerOK'
  BY <1>12, Effects
<1>13. ASSUME NEW p \in Procs, Save(p) PROVE RunnerOK'
  BY <1>13, Effects
<1>14. ASSUME NEW p \in Procs, SaveFails(p) PROVE RunnerOK'
  BY <1>14, Effects
<1>15. ASSUME NEW p \in Procs, Deny(p) PROVE RunnerOK'
  BY <1>15, Effects
<1>16. ASSUME NEW p \in Procs, Delete(p) PROVE RunnerOK'
  BY <1>16, Effects
<1>17. ASSUME NEW p \in Procs, Verify(p) PROVE RunnerOK'
  BY <1>17, Effects
<1>18. ASSUME NEW p \in Procs, Remove(p) PROVE RunnerOK'
  BY <1>18, Effects
<1>19. ASSUME NEW p \in Procs, Close(p) PROVE RunnerOK'
  BY <1>19, Effects
<1>20. ASSUME NEW p \in Procs, Die(p) PROVE RunnerOK'
  BY <1>20, Effects
<1>21. ASSUME NEW a \in Approvals, Decide(a) \/ DecideAgain(a) \/ Execute(a) PROVE RunnerOK'
  BY <1>21 DEF Decide, DecideAgain, Execute
<1>22. CASE UNCHANGED vars
  BY <1>22 DEF vars
<1> QED
  BY <1>1, <1>2, <1>3, <1>4, <1>5, <1>6, <1>7, <1>8, <1>9, <1>10, <1>11, <1>12, <1>13, <1>14,
     <1>15, <1>16, <1>17, <1>18, <1>19, <1>20, <1>21, <1>22 DEF Next, ProcStep, ProcFault

\* What saveSession writes: the process's turn, one on, and its provider.
LEMMA SnapshotIs ==
  ASSUME TypeOK, NEW p \in Procs
  PROVE  /\ Snapshot(p).turn = proc[p].turn + 1 /\ Snapshot(p).active = proc[p].active
         /\ Snapshot(p) # NoSession
         /\ proc[p].turn \in Nat /\ proc[p].active \in Nat
         /\ session.turn \in Nat /\ session.active \in Nat
<1>1. proc[p].turn \in Nat /\ proc[p].active \in Nat /\ session.turn \in Nat /\ session.active \in Nat
  BY PlannerAssumption DEF TypeOK, ProcType
<1>2. Snapshot(p).turn = proc[p].turn + 1 /\ Snapshot(p).active = proc[p].active
  BY DEF Snapshot
<1>3. NoSession.turn = 0
  BY DEF NoSession
<1> QED
  BY <1>1, <1>2, <1>3

\* No step lets two processes continue a session, or lose it to a third.
LEMMA LeaseStep ==
  ASSUME TypeOK, ShapeOK, RunnerOK, LockOK, LeaseOK, [Next]_vars
  PROVE  LeaseOK'
<1> USE DEF ShapeOK, LeaseOK, Resuming, Continues, Went, Left, Moved, Quiet, qid, history
<1>1. ASSUME NEW p \in Procs, Run(p) PROVE LeaseOK'
  BY <1>1, Effects DEF RunnerOK
<1>2. ASSUME NEW p \in Procs, OpenLease(p) PROVE LeaseOK'
  BY <1>2, Effects, NoInodeIsNone
<1>3. ASSUME NEW p \in Procs, Flock(p) PROVE LeaseOK'
  BY <1>3, Effects
<1>4. ASSUME NEW p \in Procs, Load(p) PROVE LeaseOK'
  BY <1>4, Effects, SnapshotIs
<1>5. ASSUME NEW p \in Procs, LoadFails(p) PROVE LeaseOK'
  BY <1>5, Effects
<1>6. ASSUME NEW p \in Procs, ResolvePending(p) PROVE LeaseOK'
  BY <1>6, Effects
<1>7. ASSUME NEW p \in Procs, Generate(p) PROVE LeaseOK'
  BY <1>7, Effects
<1>8. ASSUME NEW p \in Procs, Failover(p) PROVE LeaseOK'
  BY <1>8, Effects, SnapshotIs
<1>9. ASSUME NEW p \in Procs, CallDirect(p) PROVE LeaseOK'
  BY <1>9, Effects
<1>10. ASSUME NEW p \in Procs, CallPending(p) PROVE LeaseOK'
  BY <1>10, Effects
<1>11. ASSUME NEW p \in Procs, CallLost(p) PROVE LeaseOK'
  BY <1>11, Effects
<1>12. ASSUME NEW p \in Procs, EndTurn(p) PROVE LeaseOK'
  BY <1>12, Effects
<1>13. ASSUME NEW p \in Procs, Save(p) PROVE LeaseOK'
  BY <1>13, Effects, SnapshotIs DEF RunnerOK, Runner, LockOK, Holds, Locked
<1>14. ASSUME NEW p \in Procs, SaveFails(p) PROVE LeaseOK'
  BY <1>14, Effects, SnapshotIs DEF RunnerOK, Runner, LockOK, Holds, Locked
<1>15. ASSUME NEW p \in Procs, Deny(p) PROVE LeaseOK'
  BY <1>15, Effects
<1>16. ASSUME NEW p \in Procs, Delete(p) PROVE LeaseOK'
  BY <1>16, Effects, SnapshotIs DEF RunnerOK, Runner, LockOK, Holds, Locked
<1>17. ASSUME NEW p \in Procs, Verify(p) PROVE LeaseOK'
  BY <1>17, Effects
<1>18. ASSUME NEW p \in Procs, Remove(p) PROVE LeaseOK'
  BY <1>18, Effects
<1>19. ASSUME NEW p \in Procs, Close(p) PROVE LeaseOK'
  BY <1>19, Effects
<1>20. ASSUME NEW p \in Procs, Die(p) PROVE LeaseOK'
  BY <1>20, Effects
<1>21. ASSUME NEW a \in Approvals, Decide(a) \/ DecideAgain(a) \/ Execute(a) PROVE LeaseOK'
  BY <1>21 DEF Decide, DecideAgain, Execute
<1>22. CASE UNCHANGED vars
  BY <1>22 DEF vars
<1> QED
  BY <1>1, <1>2, <1>3, <1>4, <1>5, <1>6, <1>7, <1>8, <1>9, <1>10, <1>11, <1>12, <1>13, <1>14,
     <1>15, <1>16, <1>17, <1>18, <1>19, <1>20, <1>21, <1>22 DEF Next, ProcStep, ProcFault

\* No step forgets an approval that may still run.
LEMMA OwnedStep ==
  ASSUME TypeOK, ShapeOK, OwnedOK, [Next]_vars
  PROVE  OwnedOK'
<1> USE DEF ShapeOK, OwnedOK, Resuming, Went, Left, Moved, Quiet, qid, history
<1>1. ASSUME NEW p \in Procs, Run(p) PROVE OwnedOK'
  BY <1>1, Effects
<1>2. ASSUME NEW p \in Procs, OpenLease(p) PROVE OwnedOK'
  BY <1>2, Effects
<1>3. ASSUME NEW p \in Procs, Flock(p) PROVE OwnedOK'
  BY <1>3, Effects
<1>4. ASSUME NEW p \in Procs, Load(p) PROVE OwnedOK'
  BY <1>4, Effects
<1>5. ASSUME NEW p \in Procs, LoadFails(p) PROVE OwnedOK'
  BY <1>5, Effects
<1>6. ASSUME NEW p \in Procs, ResolvePending(p) PROVE OwnedOK'
  BY <1>6, Effects
<1>7. ASSUME NEW p \in Procs, Generate(p) PROVE OwnedOK'
  BY <1>7, Effects
<1>8. ASSUME NEW p \in Procs, Failover(p) PROVE OwnedOK'
  BY <1>8, Effects
<1>9. ASSUME NEW p \in Procs, CallDirect(p) PROVE OwnedOK'
  BY <1>9, Effects
<1>10. ASSUME NEW p \in Procs, CallPending(p) PROVE OwnedOK'
  <2> SUFFICES ASSUME ~lost', NEW b \in Approvals, phase'[b] \notin {"none", "denied"},
                      b \notin filed' \cup outran'
               PROVE  \E q \in Procs : b \in proc'[q].pending
    OBVIOUS
  <2>1. PICK a \in Approvals :
          /\ phase' = [phase EXCEPT ![a] = "pending"]
          /\ Moved(p, "calls", proc[p].inode, proc[p].turn, proc[p].active,
                   proc[p].pending \cup {a})
    BY <1>10, Effects
  <2>2. ~lost /\ filed' = filed /\ outran' = outran
    BY <1>10, Effects
  <2>3. CASE b = a
    BY <2>1, <2>3
  <2>4. CASE b # a
    <3>1. phase'[b] = phase[b]
      BY <2>1, <2>4 DEF TypeOK, Qid!LifecycleTypeOK
    <3>2. PICK q \in Procs : b \in proc[q].pending
      BY <2>2, <3>1
    <3> QED
      BY <2>1, <3>2
  <2> QED
    BY <2>3, <2>4
<1>11. ASSUME NEW p \in Procs, CallLost(p) PROVE OwnedOK'
  BY <1>11, Effects
<1>12. ASSUME NEW p \in Procs, EndTurn(p) PROVE OwnedOK'
  BY <1>12, Effects
<1>13. ASSUME NEW p \in Procs, Save(p) PROVE OwnedOK'
  BY <1>13, Effects
<1>14. ASSUME NEW p \in Procs, SaveFails(p) PROVE OwnedOK'
  BY <1>14, Effects
<1>15. ASSUME NEW p \in Procs, Deny(p) PROVE OwnedOK'
  <2>1. CASE /\ \E a \in proc[p].pending : phase' = [phase EXCEPT ![a] = "denied"]
             /\ UNCHANGED <<proc, outran>>
    <3>1. PICK a \in proc[p].pending : phase' = [phase EXCEPT ![a] = "denied"]
      BY <2>1
    <3>2. a \in Approvals
      BY DEF TypeOK, ProcType
    <3>3. UNCHANGED <<filed, lost>>
      BY <1>15, Effects
    <3> QED
      BY <2>1, <3>1, <3>2, <3>3 DEF TypeOK, Qid!LifecycleTypeOK
  <2>2. CASE /\ Left(p) /\ UNCHANGED phase
             /\ outran' = outran \cup {a \in proc[p].pending : phase[a] # "denied"}
    <3>1. \A a \in proc[p].pending : phase[a] = "denied" \/ a \in outran'
      BY <2>2
    <3>2. UNCHANGED <<filed, lost>>
      BY <1>15, Effects
    <3> QED
      BY <2>2, <3>1, <3>2
  <2> QED
    BY <1>15, <2>1, <2>2, Effects
<1>16. ASSUME NEW p \in Procs, Delete(p) PROVE OwnedOK'
  BY <1>16, Effects
<1>17. ASSUME NEW p \in Procs, Verify(p) PROVE OwnedOK'
  BY <1>17, Effects
<1>18. ASSUME NEW p \in Procs, Remove(p) PROVE OwnedOK'
  BY <1>18, Effects
<1>19. ASSUME NEW p \in Procs, Close(p) PROVE OwnedOK'
  BY <1>19, Effects
<1>20. ASSUME NEW p \in Procs, Die(p) PROVE OwnedOK'
  <2>1. ~lost' => ~lost /\ proc[p].pending = {}
    BY <1>20, Zenon DEF Die
  <2> QED
    BY <1>20, <2>1, Effects
<1>21. ASSUME NEW a \in Approvals, Decide(a) \/ DecideAgain(a) \/ Execute(a) PROVE OwnedOK'
  BY <1>21 DEF Decide, DecideAgain, Execute, TypeOK, Qid!LifecycleTypeOK, Qid!Grant, Qid!Refuse, Qid!Run, Qid!Settle
<1>22. CASE UNCHANGED vars
  BY <1>22 DEF vars
<1> QED
  BY <1>1, <1>2, <1>3, <1>4, <1>5, <1>6, <1>7, <1>8, <1>9, <1>10, <1>11, <1>12, <1>13, <1>14,
     <1>15, <1>16, <1>17, <1>18, <1>19, <1>20, <1>21, <1>22 DEF Next, ProcStep, ProcFault

\* A turn that is saved has asked for an approval: turns stay below any bound that grows
\* with the approvals.
LEMMA TurnsBelowStep ==
  ASSUME TypeOK, ShapeOK, NEW n \in Nat, NEW m \in Nat, m >= n, TurnsBelow(n),
         \A a \in Approvals : phase[a] = "none" /\ phase'[a] # "none" => m >= n + 1, [Next]_vars
  PROVE  TurnsBelow(m)'
<1>0. session.turn \in Nat /\ \A q \in Procs : proc[q].turn \in Nat
  BY PlannerAssumption DEF TypeOK, ProcType
<1> USE <1>0, SnapshotIs DEF ShapeOK, TurnsBelow, Resuming, Went, Left, Moved, Quiet, qid, history
<1>1. ASSUME NEW p \in Procs, Run(p) PROVE TurnsBelow(m)'
  BY <1>1, Effects
<1>2. ASSUME NEW p \in Procs, OpenLease(p) PROVE TurnsBelow(m)'
  BY <1>2, Effects
<1>3. ASSUME NEW p \in Procs, Flock(p) PROVE TurnsBelow(m)'
  BY <1>3, Effects
<1>4. ASSUME NEW p \in Procs, Load(p) PROVE TurnsBelow(m)'
  BY <1>4, Effects
<1>5. ASSUME NEW p \in Procs, LoadFails(p) PROVE TurnsBelow(m)'
  BY <1>5, Effects
<1>6. ASSUME NEW p \in Procs, ResolvePending(p) PROVE TurnsBelow(m)'
  BY <1>6, Effects
<1>7. ASSUME NEW p \in Procs, Generate(p) PROVE TurnsBelow(m)'
  BY <1>7, Effects
<1>8. ASSUME NEW p \in Procs, Failover(p) PROVE TurnsBelow(m)'
  BY <1>8, Effects
<1>9. ASSUME NEW p \in Procs, CallDirect(p) PROVE TurnsBelow(m)'
  BY <1>9, Effects
<1>10. ASSUME NEW p \in Procs, CallPending(p) PROVE TurnsBelow(m)'
  <2>1. PICK a \in Approvals : phase[a] = "none" /\ phase' = [phase EXCEPT ![a] = "pending"]
    BY <1>10, Effects
  <2>2. m >= n + 1
    BY <2>1 DEF TypeOK, Qid!LifecycleTypeOK
  <2> QED
    BY <1>10, <2>2, Effects
<1>11. ASSUME NEW p \in Procs, CallLost(p) PROVE TurnsBelow(m)'
  BY <1>11, Effects
<1>12. ASSUME NEW p \in Procs, EndTurn(p) PROVE TurnsBelow(m)'
  BY <1>12, Effects
<1>13. ASSUME NEW p \in Procs, Save(p) PROVE TurnsBelow(m)'
  BY <1>13, Effects
<1>14. ASSUME NEW p \in Procs, SaveFails(p) PROVE TurnsBelow(m)'
  BY <1>14, Effects
<1>15. ASSUME NEW p \in Procs, Deny(p) PROVE TurnsBelow(m)'
  BY <1>15, Effects
<1>16. ASSUME NEW p \in Procs, Delete(p) PROVE TurnsBelow(m)'
  BY <1>16, Effects DEF NoSession
<1>17. ASSUME NEW p \in Procs, Verify(p) PROVE TurnsBelow(m)'
  BY <1>17, Effects
<1>18. ASSUME NEW p \in Procs, Remove(p) PROVE TurnsBelow(m)'
  BY <1>18, Effects
<1>19. ASSUME NEW p \in Procs, Close(p) PROVE TurnsBelow(m)'
  BY <1>19, Effects
<1>20. ASSUME NEW p \in Procs, Die(p) PROVE TurnsBelow(m)'
  BY <1>20, Effects
<1>21. ASSUME NEW a \in Approvals, Decide(a) \/ DecideAgain(a) \/ Execute(a) PROVE TurnsBelow(m)'
  BY <1>21 DEF Decide, DecideAgain, Execute
<1>22. CASE UNCHANGED vars
  BY <1>22 DEF vars
<1> QED
  BY <1>1, <1>2, <1>3, <1>4, <1>5, <1>6, <1>7, <1>8, <1>9, <1>10, <1>11, <1>12, <1>13, <1>14,
     <1>15, <1>16, <1>17, <1>18, <1>19, <1>20, <1>21, <1>22 DEF Next, ProcStep, ProcFault

\* Turns are paid for by approvals that were submitted.
LEMMA TurnsStep ==
  ASSUME TypeOK, ShapeOK, TurnsOK, [Next]_vars
  PROVE  TurnsOK'
<1>1. /\ Cardinality(Submitted) \in 0..MaxApprovals /\ Cardinality(Submitted') \in 0..MaxApprovals
      /\ Cardinality(Submitted') >= Cardinality(Submitted)
      /\ Submitted \subseteq Submitted'
  BY SubmittedStep
<1>2. Cardinality(Submitted) \in Nat /\ Cardinality(Submitted') \in Nat
  BY <1>1, PlannerAssumption
<1>3. ASSUME NEW a \in Approvals, phase[a] = "none", phase'[a] # "none"
      PROVE  Cardinality(Submitted') >= Cardinality(Submitted) + 1
  <2>1. a \notin Submitted /\ Submitted \cup {a} \subseteq Submitted'
    BY <1>1, <1>3 DEF Submitted
  <2>2. Cardinality(Submitted \cup {a}) = Cardinality(Submitted) + 1
    BY <2>1, ApprovalsFinite, FS_AddElement DEF Submitted
  <2>3. IsFiniteSet(Submitted')
    BY ApprovalsFinite DEF Submitted
  <2>4. Cardinality(Submitted \cup {a}) <= Cardinality(Submitted')
    BY <2>1, <2>3, FS_Subset
  <2> QED
    BY <1>2, <2>2, <2>4
<1>4. ASSUME NEW n \in Nat, NEW m \in Nat, n = Cardinality(Submitted), m = Cardinality(Submitted')
      PROVE  TurnsBelow(m)'
  <2>1. TurnsBelow(n) /\ m >= n
    BY <1>1, <1>4 DEF TurnsOK
  <2>2. \A a \in Approvals : phase[a] = "none" /\ phase'[a] # "none" => m >= n + 1
    BY <1>3, <1>4
  <2> QED
    BY <2>1, <2>2, TurnsBelowStep
<1> QED
  BY <1>2, <1>4 DEF TurnsOK

\* No session, no lease and no process at work.
LEMMA PlannerInvInit == Init => PlannerInv
<1> SUFFICES ASSUME Init PROVE PlannerInv
  OBVIOUS
<1> USE DEF Init, NoSession, Idle, NoInode
<1>1. TypeOK
  <2>1. session \in [turn : 0..MaxApprovals, pending : SUBSET Approvals, active : 0..(Chain - 1)]
    BY PlannerAssumption
  <2>2. Idle \in ProcType
    BY PlannerAssumption DEF ProcType
  <2>3. Qid!LifecycleTypeOK
    BY DEF Qid!LifecycleTypeOK, Qid!LifecycleInit, Qid!Phases
  <2> HIDE DEF Idle, NoSession
  <2>4. started \in BOOLEAN /\ lost \in BOOLEAN /\ misread \in BOOLEAN
    BY Zenon
  <2>5. faults \in 0..MaxFaults
    BY PlannerAssumption
  <2>6. proc \in [Procs -> ProcType] /\ lockFile \in Inodes \cup {NoInode} /\ filed \cup outran \subseteq Approvals
    BY <2>2
  <2> HIDE DEF Init
  <2> QED
    BY <2>1, <2>3, <2>4, <2>5, <2>6 DEF TypeOK
<1>2. TurnsOK
  <2>1. Cardinality(Submitted) \in Nat
    BY ApprovalsFinite DEF Submitted
  <2> QED
    BY <2>1 DEF TurnsOK, TurnsBelow
<1>3. ShapeOK /\ RunnerOK /\ LockOK /\ LeaseOK /\ OwnedOK
  BY DEF ShapeOK, RunnerOK, LockOK, LeaseOK, OwnedOK, Resuming, Runner, Known, Holds, Continues,
    Locked, Qid!LifecycleInit
<1> QED
  BY <1>1, <1>2, <1>3 DEF PlannerInv

\* Every step keeps every part of the invariant.
LEMMA PlannerInvStep == PlannerInv /\ [Next]_vars => PlannerInv'
BY TypeStep, TurnsStep, ShapeStep, RunnerStep, LockStep, LeaseStep, OwnedStep DEF PlannerInv

\* The invariant holds in every reachable state.
LEMMA PlannerInvariant == Spec => []PlannerInv
BY PlannerInvInit, PlannerInvStep, PTL DEF Spec

---------------------------------------------------------------------------
\* The theorems

\* Session, lease file, processes and approvals keep their types: the loop never
\* exceeds DefaultMaxIterations, the failover chain is never left, and no more
\* turns are saved than approvals were asked for.
THEOREM PlannerTypeCorrect == Spec => []TypeOK
BY PlannerInvariant, PTL DEF PlannerInv

\* However many `qi ai resume` are started, and whoever creates, opens, unlinks
\* or leaves the lease file behind, one of them at a time continues the session.
THEOREM ResumesExclude == Spec => []OneContinuation
<1>1. PlannerInv => OneContinuation
  <2> SUFFICES ASSUME PlannerInv, ~misread, NEW p \in Procs, NEW q \in Procs,
                      Continues(p), Resuming(p), Continues(q), Resuming(q)
               PROVE  p = q
    BY DEF OneContinuation
  <2>1. session # NoSession
    BY DEF PlannerInv, LeaseOK
  <2>2. lockFile = proc[p].inode /\ lockFile = proc[q].inode
    BY <2>1 DEF PlannerInv, LeaseOK
  <2>3. Holds(p, proc[p].inode) /\ Holds(q, proc[p].inode)
    BY <2>2 DEF Holds, Continues, Locked
  <2> QED
    BY <2>3 DEF PlannerInv, LockOK
<1> QED
  BY <1>1, PlannerInvariant, PTL

\* denyUnpersistedApprovals: between attempts an approval that may still run is in
\* a session that was saved, also when sessions could not be read and two
\* processes continued one; but for one a user granted before the failing attempt
\* could deny it, and for attempts that died or lost a reply.
THEOREM NoApprovalOrphaned == Spec => []ApprovalsOwned
<1>1. PlannerInv => ApprovalsOwned
  BY DEF PlannerInv, ApprovalsOwned, OwnedOK, ShapeOK, Continues
<1> QED
  BY <1>1, PlannerInvariant, PTL

\* buildResumeLLM: no step saves an earlier provider over a later one.
THEOREM ProviderNeverMovesBack == Spec => StickyProvider
<1>1. PlannerInv /\ [Next]_vars =>
        [~misread /\ session # NoSession /\ session' # NoSession =>
           session'.active >= session.active]_vars
  <2> SUFFICES ASSUME PlannerInv, Next, ~misread, session # NoSession, session' # NoSession
               PROVE  session'.active >= session.active
    BY DEF vars
  <2>0. TypeOK /\ session.active \in Nat
    BY PlannerAssumption DEF PlannerInv, TypeOK
  <2>1. CASE UNCHANGED session
    BY <2>0, <2>1
  <2>2. CASE \E p \in Procs : session' = Snapshot(p) /\ (Save(p) \/ SaveFails(p))
    <3>1. PICK p \in Procs : session' = Snapshot(p) /\ (Save(p) \/ SaveFails(p))
      BY <2>2
    <3>2. proc[p].pc = "save"
      BY <3>1 DEF Save, SaveFails
    <3>3. Resuming(p) /\ Continues(p)
      BY <3>2 DEF PlannerInv, RunnerOK, Runner, Known, Continues
    <3> QED
      BY <2>0, <3>1, <3>3, SnapshotIs DEF PlannerInv, LeaseOK
  <2>3. \/ UNCHANGED session
        \/ session' = NoSession
        \/ \E p \in Procs : session' = Snapshot(p) /\ (Save(p) \/ SaveFails(p))
    <3>1. ASSUME NEW p \in Procs, Run(p) \/ OpenLease(p) \/ ProcStep(p) \/ ProcFault(p)
          PROVE  \/ UNCHANGED session
                 \/ session' = NoSession
                 \/ session' = Snapshot(p) /\ (Save(p) \/ SaveFails(p))
      <4>1. CASE Save(p) \/ SaveFails(p) \/ Delete(p)
        BY <4>1 DEF Save, SaveFails, Delete
      <4>2. ASSUME \/ Run(p) \/ OpenLease(p) \/ Flock(p) \/ Load(p) \/ LoadFails(p) \/ ResolvePending(p)
                   \/ Generate(p) \/ Failover(p) \/ CallDirect(p) \/ CallPending(p) \/ CallLost(p)
                   \/ EndTurn(p) \/ Deny(p) \/ Verify(p) \/ Remove(p) \/ Close(p) \/ Die(p)
            PROVE  UNCHANGED session
        BY <4>2 DEF Run, OpenLease, Flock, Load, LoadFails, ResolvePending, Generate, Failover,
          CallDirect, CallPending, CallLost, EndTurn, Deny, Verify, Remove, Close, Die
      <4>3. \/ Run(p) \/ OpenLease(p) \/ Flock(p) \/ Load(p) \/ LoadFails(p) \/ ResolvePending(p)
            \/ Generate(p) \/ Failover(p) \/ CallDirect(p) \/ CallPending(p) \/ CallLost(p)
            \/ EndTurn(p) \/ Deny(p) \/ Verify(p) \/ Remove(p) \/ Close(p) \/ Die(p)
            \/ Save(p) \/ SaveFails(p) \/ Delete(p)
        BY <3>1 DEF ProcStep, ProcFault
      <4> QED
        BY <4>1, <4>2, <4>3
    <3>2. ASSUME NEW a \in Approvals, Decide(a) \/ DecideAgain(a) \/ Execute(a)
          PROVE  UNCHANGED session
      BY <3>2 DEF Decide, DecideAgain, Execute
    <3> QED
      BY <3>1, <3>2 DEF Next
  <2> QED
    BY <2>1, <2>2, <2>3
<1> QED
  BY <1>1, PlannerInvariant, PTL DEF Spec, StickyProvider
=============================================================================
