------------------------ MODULE ApprovalQueueProofs ------------------------
(***************************************************************************)
(* Theorems about ApprovalQueue, for every set of ids and connections and  *)
(* every value of the limits.                                              *)
(***************************************************************************)
EXTENDS ApprovalQueue, TLAPS, FiniteSetTheorems

---------------------------------------------------------------------------
\* Type correctness

DiskOK ==
  /\ log \in Seq([event : Events \cup {"junk"}, id : Ids \cup {NoId}])
  /\ tail \in [kind : {"none", "torn", "whole"}, event : Events \cup {"none"},
               id : Ids \cup {NoId}, size : Nat]
  /\ bytes \in Nat
  /\ tail.size <= bytes
  /\ tail.kind = "whole" => tail.event \in Events /\ tail.id \in Ids

AuditOK ==
  /\ reserved \subseteq Ids
  /\ reservedBytes \in Nat
  /\ recordCount \in Nat
  /\ reservedBytes = MaxAuditRecordBytes * Cardinality(reserved)

QueueOK ==
  /\ items \in [Ids -> Statuses \cup {"none"}]
  /\ history \in [Ids -> Terminal \cup {"none"}]

ConnOK ==
  conn \in [Conns -> [pc : {"idle", "request", "execute", "record"},
                      id : Ids \cup {NoId},
                      event : {"none", "execute", "fail"},
                      size : Nat]]

\* A handler past Queue.Approve works on an id and, once the tool has
\* returned, holds a terminal event.
HandlerOK ==
  \A c \in Conns :
    /\ conn[c].pc \in {"execute", "record"} => conn[c].id \in Ids
    /\ conn[c].pc = "record" => conn[c].event \in {"execute", "fail"}

GhostOK == runs \in [Ids -> Nat] /\ bypassed \subseteq Callers \X Tools

ModeOK == mode \in {"down", "up", "draining"}

\* TypeOK alone is not inductive: reservedBytes stays a natural number because
\* it is the reservation of each id in reserved, summed.
TypeInv == DiskOK /\ AuditOK /\ QueueOK /\ ConnOK /\ HandlerOK /\ GhostOK /\ ModeOK

\* The invariant that is proved is at least the one the runs check.
LEMMA TypeInvImpliesTypeOK == TypeInv => TypeOK
  BY DEF TypeInv, TypeOK, DiskOK, AuditOK, QueueOK, ConnOK, GhostOK, ModeOK

\* Sets of entries are finite, so reservations can be counted.
LEMMA SubsetFinite ==
  ASSUME NEW S, S \subseteq Ids
  PROVE  IsFiniteSet(S) /\ Cardinality(S) \in Nat
  BY IdsAssumption, FS_Subset, FS_CardinalityType

\* Writing a whole line keeps the file well typed.
LEMMA WriteLineType ==
  ASSUME DiskOK, NEW event \in Events, NEW id \in Ids, NEW body \in Nat,
         WriteLine(event, id, body)
  PROVE  DiskOK'
<1> DEFINE R == [event : Events \cup {"junk"}, id : Ids \cup {NoId}]
<1>1. Record(event, id) \in R /\ Junk \in R
  BY DEF Record, Junk
<1>2. log' \in Seq(R)
  BY <1>1 DEF WriteLine, DiskOK
<1>3. bytes' \in Nat
  BY DEF WriteLine, DiskOK
<1>4. tail' \in [kind : {"none", "torn", "whole"}, event : Events \cup {"none"},
                 id : Ids \cup {NoId}, size : Nat] /\ tail'.size = 0 /\ tail'.kind = "none"
  BY DEF WriteLine, NoTail
<1> QED
  BY <1>2, <1>3, <1>4 DEF DiskOK

\* Writing a part of a line keeps the file well typed.
LEMMA WritePartType ==
  ASSUME DiskOK, NEW event \in Events, NEW id \in Ids, NEW body \in Nat,
         NEW n \in 1..body, WritePart(event, id, body, n)
  PROVE  DiskOK'
<1>1. bytes' = bytes + n /\ bytes \in Nat /\ n \in Nat /\ tail.size \in Nat
  BY DEF WritePart, DiskOK
<1>2. /\ tail' \in [kind : {"none", "torn", "whole"}, event : Events \cup {"none"},
                   id : Ids \cup {NoId}, size : Nat]
      /\ tail'.size \in {n, tail.size + n}
      /\ tail'.kind = "whole" => tail'.event \in Events /\ tail'.id \in Ids
  <2>1. CASE tail = NoTail /\ n = body
    BY <1>1, <2>1 DEF WritePart
  <2>2. CASE ~(tail = NoTail /\ n = body)
    BY <1>1, <2>2 DEF WritePart
  <2> QED BY <2>1, <2>2
<1> QED
  BY <1>1, <1>2 DEF WritePart, DiskOK

\* The bookkeeping of a synced record keeps the reservation total exact.
LEMMA AccountType ==
  ASSUME AuditOK, NEW event \in Events, NEW id \in Ids,
         event = "approve" => id \notin reserved,
         Account(event, id)
  PROVE  /\ AuditOK'
         /\ recordCount' = recordCount + 1
         /\ event = "approve" =>
              /\ reservedBytes' = reservedBytes + MaxAuditRecordBytes
              /\ Cardinality(reserved') = Cardinality(reserved) + 1
         /\ event \in {"execute", "fail"} /\ id \in reserved =>
              /\ reservedBytes' = reservedBytes - MaxAuditRecordBytes
              /\ Cardinality(reserved') = Cardinality(reserved) - 1
         /\ event \in {"enqueue", "deny"} =>
              reservedBytes' = reservedBytes /\ reserved' = reserved
<1>1. /\ IsFiniteSet(reserved) /\ Cardinality(reserved) \in Nat
      /\ MaxAuditRecordBytes \in Nat
      /\ recordCount' = recordCount + 1 /\ recordCount' \in Nat
  BY SubsetFinite, SizeAssumption DEF AuditOK, Account
<1>2. CASE event = "approve"
  <2>1. reserved' = reserved \cup {id} /\ reservedBytes' = reservedBytes + MaxAuditRecordBytes
    BY <1>2 DEF Account
  <2>2. Cardinality(reserved') = Cardinality(reserved) + 1
    BY <1>1, <1>2, <2>1, FS_AddElement
  <2>3. MaxAuditRecordBytes * (Cardinality(reserved) + 1)
          = MaxAuditRecordBytes * Cardinality(reserved) + MaxAuditRecordBytes
    BY <1>1
  <2> QED BY <1>1, <1>2, <2>1, <2>2, <2>3 DEF AuditOK
<1>3. CASE event \in {"execute", "fail"} /\ id \in reserved
  <2>1. reserved' = reserved \ {id} /\ reservedBytes' = reservedBytes - MaxAuditRecordBytes
    BY <1>3 DEF Account
  <2>2. Cardinality(reserved') = Cardinality(reserved) - 1
    BY <1>1, <1>3, <2>1, FS_RemoveElement
  <2>3. reserved' \subseteq Ids /\ Cardinality(reserved') \in Nat
    BY <2>1, SubsetFinite DEF AuditOK
  <2>4. MaxAuditRecordBytes * (Cardinality(reserved) - 1)
          = MaxAuditRecordBytes * Cardinality(reserved) - MaxAuditRecordBytes
    BY <1>1
  <2>5. MaxAuditRecordBytes * Cardinality(reserved') \in Nat
    BY <1>1, <2>3
  <2> QED BY <1>1, <1>3, <2>1, <2>2, <2>3, <2>4, <2>5 DEF AuditOK
<1>4. CASE event \in {"execute", "fail"} /\ id \notin reserved
  <2>1. reserved' = reserved /\ reservedBytes' = reservedBytes
    BY <1>4 DEF Account
  <2> QED BY <1>1, <1>4, <2>1 DEF AuditOK
<1>5. CASE event \in {"enqueue", "deny"}
  <2>1. reserved' = reserved /\ reservedBytes' = reservedBytes
    BY <1>5 DEF Account
  <2> QED BY <1>1, <1>5, <2>1 DEF AuditOK
<1> QED
  BY <1>2, <1>3, <1>4, <1>5 DEF Events

\* So does an append, whether it succeeds, fails or is refused.
LEMMA AppendType ==
  ASSUME DiskOK, AuditOK, NEW event \in Events, NEW id \in Ids, NEW body \in Nat,
         NEW ok \in BOOLEAN, AuditAppend(event, id, body, ok)
  PROVE  DiskOK' /\ AuditOK'
<1>1. ASSUME UNCHANGED disk PROVE DiskOK'
  BY <1>1 DEF DiskOK, disk
<1>2. ASSUME UNCHANGED audit PROVE AuditOK'
  BY <1>2 DEF AuditOK, audit
<1>3. CASE Fits(event, id, body) /\ WriteLine(event, id, body) /\ Account(event, id)
  BY <1>3, WriteLineType, AccountType DEF Fits
<1>4. CASE UNCHANGED <<disk, audit>>
  BY <1>1, <1>2, <1>4
<1>5. CASE WriteLine(event, id, body) /\ UNCHANGED audit
  BY <1>2, <1>5, WriteLineType
<1>6. CASE (\E n \in 1..body : WritePart(event, id, body, n)) /\ UNCHANGED audit
  BY <1>2, <1>6, WritePartType
<1> QED
  BY <1>3, <1>4, <1>5, <1>6 DEF AuditAppend

\* The entry table stays well typed when one entry changes status.
LEMMA ItemsType ==
  ASSUME QueueOK, NEW id \in Ids, NEW status \in Statuses,
         items' \in {items, [items EXCEPT ![id] = status]},
         UNCHANGED history
  PROVE  QueueOK'
  BY DEF QueueOK

\* A connection goes back to waiting for a request, or starts one.
LEMMA ConnType ==
  ASSUME ConnOK, HandlerOK, NEW c \in Conns,
         conn' \in {[conn EXCEPT ![c] = Idle], [conn EXCEPT ![c] = Request]}
  PROVE  ConnOK' /\ HandlerOK'
<1>1. Idle \in [pc : {"idle", "request", "execute", "record"}, id : Ids \cup {NoId},
               event : {"none", "execute", "fail"}, size : Nat]
  BY DEF Idle
<1>2. Request \in [pc : {"idle", "request", "execute", "record"}, id : Ids \cup {NoId},
               event : {"none", "execute", "fail"}, size : Nat]
  BY DEF Request, Idle
<1>3. Idle.pc = "idle" /\ Request.pc = "request"
  BY DEF Idle, Request
<1>4. ConnOK'
  BY <1>1, <1>2 DEF ConnOK
<1>5. \A d \in Conns : d # c => conn'[d] = conn[d]
  BY DEF ConnOK
<1>6. conn'[c] \in {Idle, Request}
  BY DEF ConnOK
<1> QED
  BY <1>3, <1>4, <1>5, <1>6 DEF HandlerOK

\* A process that dies leaves an empty memory.
LEMMA DieType ==
  ASSUME TypeInv, Die
  PROVE  AuditOK' /\ QueueOK' /\ ConnOK' /\ HandlerOK' /\ ModeOK'
<1>1. AuditOK'
  BY FS_EmptySet, SizeAssumption DEF Die, AuditOK
<1>2. QueueOK' /\ ModeOK'
  BY DEF Die, QueueOK, ModeOK
<1>3. ConnOK' /\ HandlerOK'
  BY DEF Die, ConnOK, HandlerOK, Idle
<1> QED
  BY <1>1, <1>2, <1>3

\* Replaying and repairing the log keeps the file well typed.
LEMMA OpenAuditType ==
  ASSUME DiskOK, OpenAudit
  PROVE  DiskOK' /\ AuditOK'
<1> DEFINE R == [event : Events \cup {"junk"}, id : Ids \cup {NoId}]
<1>1. tail.kind = "whole" => Record(tail.event, tail.id) \in R
  BY DEF DiskOK, Record
<1>2. Replayed \in Seq(R) /\ Len(Replayed) \in Nat
  <2>1. log \in Seq(R)
    BY DEF DiskOK
  <2> HIDE DEF R
  <2>2. CASE tail.kind = "whole"
    <3> DEFINE rec == Record(tail.event, tail.id)
    <3>1. rec \in R /\ Replayed = Append(log, rec)
      BY <1>1, <2>2 DEF Replayed
    <3> HIDE DEF rec
    <3> QED BY <2>1, <3>1
  <2>3. CASE tail.kind # "whole"
    BY <2>1, <2>3 DEF Replayed
  <2> QED BY <2>2, <2>3
<1>3. bytes' \in {bytes, bytes + 1, bytes - tail.size}
  BY DEF OpenAudit
<1>4. bytes' \in Nat
  BY <1>3 DEF DiskOK
<1>5. tail' \in [kind : {"none", "torn", "whole"}, event : Events \cup {"none"},
                 id : Ids \cup {NoId}, size : Nat] /\ tail'.size = 0 /\ tail'.kind = "none"
  BY DEF OpenAudit, NoTail
<1>6. DiskOK'
  BY <1>2, <1>4, <1>5 DEF OpenAudit, DiskOK
<1>7. AuditOK'
  BY <1>2, FS_EmptySet, SizeAssumption DEF OpenAudit, AuditOK
<1> QED
  BY <1>6, <1>7

\* Replay gives every entry a status.
LEMMA RestoreType ==
  ASSUME Restore
  PROVE  QueueOK'
<1>1. \A id \in Ids : RestoredItem(Replayed, id) \in Statuses \cup {"none"}
  BY DEF RestoredItem, Statuses, Live
<1>2. \A event : OutcomeStatus(event) \in Terminal \cup {"none"}
  BY DEF OutcomeStatus, Terminal
<1>3. \A id \in Ids : RestoredHistory(Replayed, id) \in Terminal \cup {"none"}
  BY <1>2 DEF RestoredHistory
<1> QED
  BY <1>1, <1>3 DEF Restore, QueueOK

\* What each step does to the types, one action at a time.
LEMMA TypeStep == TypeInv /\ [Next]_vars => TypeInv'
<1> SUFFICES ASSUME TypeInv, [Next]_vars PROVE TypeInv'
  OBVIOUS
<1> USE DEF TypeInv
<1>s. /\ "enqueue" \in Events /\ "approve" \in Events /\ "deny" \in Events
      /\ "execute" \in Events /\ "fail" \in Events
      /\ "pending" \in Statuses /\ "approved" \in Statuses /\ "denied" \in Statuses
      /\ \A event \in {"execute", "fail"} : OutcomeStatus(event) \in Statuses
      /\ Overhead \in Nat /\ \A p \in ParamSizes : Overhead + p \in Nat
  BY SizeAssumption DEF Events, Statuses, Live, Terminal, OutcomeStatus
<1>1. ASSUME NEW c \in Conns, Receive(c) PROVE TypeInv'
  BY <1>1, ConnType DEF Receive, disk, queue, audit, ghost, DiskOK, AuditOK, QueueOK, GhostOK, ModeOK
<1>2. ASSUME NEW c \in Conns, ToolsCallDirect(c) PROVE TypeInv'
  <2>1. ConnOK' /\ HandlerOK'
    BY <1>2, ConnType DEF ToolsCallDirect
  <2>2. GhostOK'
    <3>1. PICK caller \in Callers, tool \in Tools :
            bypassed' \in {bypassed, bypassed \cup {<<caller, tool>>}}
      BY <1>2 DEF ToolsCallDirect
    <3>2. <<caller, tool>> \in Callers \X Tools
      OBVIOUS
    <3>3. runs' = runs
      BY <1>2 DEF ToolsCallDirect
    <3> QED BY <3>1, <3>2, <3>3 DEF GhostOK
  <2> QED
    BY <1>2, <2>1, <2>2 DEF ToolsCallDirect, disk, queue, audit, DiskOK, AuditOK, QueueOK, ModeOK
<1>3. ASSUME NEW c \in Conns, ToolsCallConfirm(c) PROVE TypeInv'
  <2>1. ConnOK' /\ HandlerOK' /\ GhostOK' /\ ModeOK' /\ UNCHANGED history
    BY <1>3, ConnType DEF ToolsCallConfirm, ghost, GhostOK, ModeOK
  <2>2. PICK id \in Ids, paramSize \in ParamSizes : Enqueue(id, paramSize)
    BY <1>3 DEF ToolsCallConfirm
  <2>3. PICK ok \in BOOLEAN :
          /\ AuditAppend("enqueue", id, Overhead + paramSize, ok)
          /\ items' = IF ok THEN [items EXCEPT ![id] = "pending"] ELSE items
    BY <2>2 DEF Enqueue
  <2>4. DiskOK' /\ AuditOK'
    BY <1>s, <2>3, AppendType
  <2>5. QueueOK'
    BY <1>s, <2>1, <2>3, ItemsType
  <2> QED BY <2>1, <2>4, <2>5
<1>4. ASSUME NEW c \in Conns, ApprovalApprove(c) PROVE TypeInv'
  <2>1. GhostOK' /\ ModeOK' /\ UNCHANGED history
    BY <1>4 DEF ApprovalApprove, ghost, GhostOK, ModeOK
  <2>2. PICK id \in Ids : Approve(c, id)
    BY <1>4 DEF ApprovalApprove
  <2>3. PICK ok \in BOOLEAN :
          /\ AuditAppend("approve", id, Overhead, ok)
          /\ items' = IF ok THEN [items EXCEPT ![id] = "approved"] ELSE items
          /\ conn' = [conn EXCEPT ![c] = IF ok THEN [Idle EXCEPT !.pc = "execute", !.id = id]
                                                ELSE Idle]
    BY <2>2 DEF Approve
  <2>4. DiskOK' /\ AuditOK'
    BY <1>s, <2>3, AppendType
  <2>5. QueueOK'
    BY <1>s, <2>1, <2>3, ItemsType
  <2>6. ConnOK' /\ HandlerOK'
    <3>1. CASE ok = FALSE
      BY <2>3, <3>1, ConnType
    <3>2. CASE ok = TRUE
      BY <2>3, <3>2 DEF ConnOK, HandlerOK, Idle
    <3> QED BY <3>1, <3>2
  <2> QED BY <2>1, <2>4, <2>5, <2>6
<1>5. ASSUME NEW c \in Conns, ApprovalDeny(c) PROVE TypeInv'
  <2>1. ConnOK' /\ HandlerOK' /\ GhostOK' /\ ModeOK' /\ UNCHANGED history
    BY <1>5, ConnType DEF ApprovalDeny, ghost, GhostOK, ModeOK
  <2>2. PICK id \in Ids : Deny(id)
    BY <1>5 DEF ApprovalDeny
  <2>3. PICK ok \in BOOLEAN :
          /\ AuditAppend("deny", id, Overhead, ok)
          /\ items' = IF ok THEN [items EXCEPT ![id] = "denied"] ELSE items
    BY <2>2 DEF Deny
  <2>4. DiskOK' /\ AuditOK'
    BY <1>s, <2>3, AppendType
  <2>5. QueueOK'
    BY <1>s, <2>1, <2>3, ItemsType
  <2> QED BY <2>1, <2>4, <2>5
<1>6. ASSUME NEW c \in Conns, RejectTransition(c) PROVE TypeInv'
  BY <1>6, ConnType DEF RejectTransition, disk, queue, audit, ghost, DiskOK, AuditOK, QueueOK, GhostOK, ModeOK
<1>7. ASSUME NEW c \in Conns, Execute(c) PROVE TypeInv'
  <2>1. DiskOK' /\ AuditOK' /\ QueueOK' /\ ModeOK'
    BY <1>7 DEF Execute, disk, queue, audit, DiskOK, AuditOK, QueueOK, ModeOK
  <2>2. conn[c].id \in Ids /\ conn[c].pc = "execute"
    BY <1>7 DEF Execute, HandlerOK
  <2>3. GhostOK'
    BY <1>7, <2>2 DEF Execute, GhostOK
  <2>4. ConnOK' /\ HandlerOK'
    <3>1. ASSUME NEW size \in ResultSizes,
                 conn' = [conn EXCEPT ![c].pc = "record", ![c].event = "execute", ![c].size = size]
          PROVE  ConnOK' /\ HandlerOK'
      BY <2>2, <3>1, SizeAssumption, ZenonT(30) DEF ConnOK, HandlerOK
    <3>2. ASSUME conn' = [conn EXCEPT ![c].pc = "record", ![c].event = "fail"]
          PROVE  ConnOK' /\ HandlerOK'
      BY <2>2, <3>2 DEF ConnOK, HandlerOK
    <3> QED BY <1>7, <3>1, <3>2 DEF Execute
  <2> QED BY <2>1, <2>3, <2>4
<1>8. ASSUME NEW c \in Conns, RecordResult(c) PROVE TypeInv'
  <2>1. ConnOK' /\ HandlerOK' /\ GhostOK' /\ ModeOK' /\ UNCHANGED history
    BY <1>8, ConnType DEF RecordResult, ghost, GhostOK, ModeOK
  <2>2. /\ conn[c].id \in Ids /\ conn[c].event \in {"execute", "fail"}
        /\ TerminalBody(c) \in Nat
    BY <1>8, <1>s DEF RecordResult, HandlerOK, TerminalBody, ConnOK
  <2>3. CASE UNCHANGED <<disk, audit, items>>
    BY <2>1, <2>3 DEF disk, audit, DiskOK, AuditOK, QueueOK
  <2>4. ASSUME NEW ok \in BOOLEAN,
               AuditAppend(conn[c].event, conn[c].id, TerminalBody(c), ok),
               items' = IF ok THEN [items EXCEPT ![conn[c].id] = OutcomeStatus(conn[c].event)]
                              ELSE items
        PROVE  TypeInv'
    <3>1. conn[c].event \in Events /\ OutcomeStatus(conn[c].event) \in Statuses
      BY <1>s, <2>2
    <3>2. DiskOK' /\ AuditOK'
      BY <2>2, <2>4, <3>1, AppendType
    <3>3. QueueOK'
      BY <2>1, <2>2, <2>4, <3>1, ItemsType
    <3> QED BY <2>1, <3>2, <3>3
  <2> QED BY <1>8, <2>3, <2>4 DEF RecordResult
<1>9. CASE Shutdown
  BY <1>9 DEF Shutdown, disk, queue, audit, ghost, DiskOK, AuditOK, QueueOK, ConnOK, HandlerOK, GhostOK, ModeOK
<1>10. CASE Stop
  BY <1>10, DieType DEF Stop, disk, ghost, DiskOK, GhostOK
<1>11. CASE Crash
  BY <1>11, DieType DEF Crash, disk, ghost, DiskOK, GhostOK
<1>12. CASE CrashInAppend
  <2>1. AuditOK' /\ QueueOK' /\ ConnOK' /\ HandlerOK' /\ ModeOK' /\ GhostOK'
    BY <1>12, DieType DEF CrashInAppend, ghost, GhostOK
  <2>2. PICK event \in Events, id \in Ids,
             body \in {Overhead + s : s \in {0} \cup ParamSizes \cup ResultSizes} :
          \/ WriteLine(event, id, body)
          \/ \E n \in 1..body : WritePart(event, id, body, n)
    BY <1>12 DEF CrashInAppend
  <2>3. body \in Nat
    BY SizeAssumption
  <2> QED BY <2>1, <2>2, <2>3, WriteLineType, WritePartType
<1>13. CASE Start
  BY <1>13, OpenAuditType, RestoreType
  DEF Start, ghost, ConnOK, HandlerOK, GhostOK, ModeOK
<1>14. CASE UNCHANGED vars
  BY <1>14 DEF vars, DiskOK, AuditOK, QueueOK, ConnOK, HandlerOK, GhostOK, ModeOK
<1> QED
  BY <1>1, <1>2, <1>3, <1>4, <1>5, <1>6, <1>7, <1>8, <1>9, <1>10, <1>11, <1>12, <1>13, <1>14
  DEF Next, Work, Handle

\* An empty log and no process.
LEMMA TypeInitially == Init => TypeInv
<1> SUFFICES ASSUME Init PROVE TypeInv
  OBVIOUS
<1>1. DiskOK
  BY DEF Init, DiskOK, NoTail
<1>2. AuditOK
  BY FS_EmptySet, SizeAssumption DEF Init, AuditOK
<1>3. QueueOK /\ ConnOK /\ HandlerOK /\ GhostOK /\ ModeOK
  BY DEF Init, QueueOK, ConnOK, HandlerOK, GhostOK, ModeOK, Idle
<1> QED
  BY <1>1, <1>2, <1>3 DEF TypeInv

\* The types hold in every reachable state.
LEMMA TypeInvariant == Spec => []TypeInv
  BY TypeInitially, TypeStep, PTL DEF Spec

\* Every variable of queue, log and handlers keeps its type, whatever I/O
\* errors and crashes happen; reservedBytes is never negative.
THEOREM TypeCorrect == Spec => []TypeOK
  BY TypeInvariant, TypeInvImpliesTypeOK, PTL

---------------------------------------------------------------------------
\* Capacity: the inductive invariant, for a file system that reports no error
\* (Faults = {}) but with crashes anywhere, also inside an append.

\* What is written and what is promised to approved entries fits both limits.
CapacityOK ==
  /\ bytes + reservedBytes <= MaxAuditLogBytes
  /\ recordCount + Cardinality(reserved) <= MaxAuditReplayEntries

\* An approved entry holds a reservation.
ApprovedReserved == \A id \in Ids : items[id] = "approved" => id \in reserved

\* Only a successful result has a size.
SizesOK ==
  \A c \in Conns :
    conn[c].pc = "execute" \/ (conn[c].pc = "record" /\ conn[c].event = "fail") =>
      conn[c].size = 0

\* The file between two appends: whole, counted and within the limits; and
\* after a crash inside one: repairable.
FileOK ==
  /\ \A i \in DOMAIN log : log[i] # Junk
  /\ tail.size <= MaxAuditRecordBytes
  /\ Len(Replayed) <= MaxAuditReplayEntries
  /\ tail.kind = "whole" => bytes < MaxAuditLogBytes
  /\ mode # "down" => tail = NoTail /\ recordCount = Len(log)

\* A process that is not running handles no request.
DownOK == mode = "down" => \A c \in Conns : conn[c] = Idle

SafeInv == TypeInv /\ CapacityOK /\ ApprovedReserved /\ SizesOK /\ FileOK /\ DownOK

\* The records replay reads, as a sequence.
LEMMA ReplayedType ==
  ASSUME DiskOK
  PROVE  /\ Replayed \in Seq([event : Events \cup {"junk"}, id : Ids \cup {NoId}])
         /\ Len(Replayed) \in Nat
         /\ tail.kind # "whole" => Replayed = log
<1> DEFINE R == [event : Events \cup {"junk"}, id : Ids \cup {NoId}]
<1>1. log \in Seq(R)
  BY DEF DiskOK
<1>2. tail.kind = "whole" => Record(tail.event, tail.id) \in R
  BY DEF DiskOK, Record
<1> HIDE DEF R
<1>3. CASE tail.kind = "whole"
  <2> DEFINE rec == Record(tail.event, tail.id)
  <2>1. rec \in R /\ Replayed = Append(log, rec)
    BY <1>2, <1>3 DEF Replayed
  <2> HIDE DEF rec
  <2> QED BY <1>1, <1>3, <2>1 DEF R
<1>4. CASE tail.kind # "whole"
  BY <1>1, <1>4 DEF Replayed, R
<1> QED
  BY <1>3, <1>4

\* A record that passes Append's checks fits the file even if nothing is given
\* back: reservations are never negative.
LEMMA FitsBounds ==
  ASSUME DiskOK, AuditOK, NEW event \in Events, NEW id \in Ids, NEW body \in Nat,
         Fits(event, id, body)
  PROVE  /\ bytes + body + 1 <= MaxAuditLogBytes
         /\ recordCount + 1 <= MaxAuditReplayEntries
         /\ body <= MaxAuditRecordBytes
<1>1. /\ MaxAuditRecordBytes \in Nat /\ MaxAuditLogBytes \in Nat /\ MaxAuditReplayEntries \in Nat
      /\ Cardinality(reserved) \in Nat /\ reservedBytes \in Nat /\ recordCount \in Nat
      /\ bytes \in Nat
      /\ reservedBytes = MaxAuditRecordBytes * Cardinality(reserved)
  BY SizeAssumption, SubsetFinite DEF DiskOK, AuditOK
<1>2. id \in reserved => Cardinality(reserved) >= 1 /\ reservedBytes >= MaxAuditRecordBytes
  <2>1. SUFFICES ASSUME id \in reserved
                 PROVE  Cardinality(reserved) >= 1 /\ reservedBytes >= MaxAuditRecordBytes
    OBVIOUS
  <2>2. IsFiniteSet(reserved) /\ reserved # {}
    BY <2>1, SubsetFinite DEF AuditOK
  <2>3. Cardinality(reserved) # 0
    BY <2>2, FS_EmptySet
  <2>4. Cardinality(reserved) >= 1
    BY <1>1, <2>3
  <2>5. \A m, n \in Nat : n >= 1 => m * n >= m
    OBVIOUS
  <2> QED BY <1>1, <2>4, <2>5
<1> QED
  BY <1>1, <1>2 DEF Fits

\* Without I/O errors Append either writes and accounts for one whole record
\* or changes nothing, and capacity is kept either way.
LEMMA AppendSafe ==
  ASSUME Faults = {}, SafeInv, mode # "down",
         NEW event \in Events, NEW id \in Ids, NEW body \in Nat,
         NEW ok \in BOOLEAN, AuditAppend(event, id, body, ok)
  PROVE  /\ CapacityOK'
         /\ tail' = NoTail
         /\ recordCount' = Len(log')
         /\ log' \in {log, Append(log, Record(event, id))}
         /\ ok => /\ log' = Append(log, Record(event, id))
                  /\ event = "approve" => reserved' = reserved \cup {id}
                  /\ event \in {"execute", "fail"} => reserved' = reserved \ {id}
                  /\ event \in {"enqueue", "deny"} => reserved' = reserved
         /\ ~ok => UNCHANGED <<log, tail, bytes, reserved, reservedBytes, recordCount>>
<1>1. /\ DiskOK /\ AuditOK /\ tail = NoTail /\ recordCount = Len(log)
      /\ log \in Seq([event : Events \cup {"junk"}, id : Ids \cup {NoId}])
  BY DEF SafeInv, TypeInv, FileOK, DiskOK
<1>2. CASE ok /\ Fits(event, id, body) /\ WriteLine(event, id, body) /\ Account(event, id)
  <2> DEFINE rec == Record(event, id)
  <2>1. log' = Append(log, rec) /\ tail' = NoTail /\ bytes' = bytes + body + 1
    BY <1>1, <1>2 DEF WriteLine
  <2> HIDE DEF rec
  <2>2. Len(log') = Len(log) + 1
    BY <1>1, <2>1
  <2>3. /\ AuditOK' /\ recordCount' = recordCount + 1
        /\ event = "approve" =>
              /\ reservedBytes' = reservedBytes + MaxAuditRecordBytes
              /\ Cardinality(reserved') = Cardinality(reserved) + 1
        /\ event \in {"execute", "fail"} /\ id \in reserved =>
              /\ reservedBytes' = reservedBytes - MaxAuditRecordBytes
              /\ Cardinality(reserved') = Cardinality(reserved) - 1
        /\ event \in {"enqueue", "deny"} =>
              reservedBytes' = reservedBytes /\ reserved' = reserved
    BY <1>1, <1>2, AccountType DEF Fits
  <2>4. /\ event = "approve" => reserved' = reserved \cup {id}
        /\ event \in {"execute", "fail"} => reserved' = reserved \ {id}
        /\ event \in {"execute", "fail"} /\ id \notin reserved =>
              reservedBytes' = reservedBytes /\ reserved' = reserved
    BY <1>2 DEF Account
  <2>5. /\ MaxAuditRecordBytes \in Nat /\ MaxAuditLogBytes \in Nat /\ MaxAuditReplayEntries \in Nat
        /\ Cardinality(reserved) \in Nat /\ reservedBytes \in Nat /\ recordCount \in Nat
        /\ bytes \in Nat
    BY <1>1, SizeAssumption, SubsetFinite DEF DiskOK, AuditOK
  <2>6. CASE event = "approve"
    BY <1>2, <2>1, <2>2, <2>3, <2>4, <2>5, <2>6, <1>1 DEF Fits, CapacityOK, rec
  <2>7. CASE event \in {"execute", "fail"} /\ id \in reserved
    BY <1>2, <2>1, <2>2, <2>3, <2>4, <2>5, <2>7, <1>1 DEF Fits, CapacityOK, rec
  <2>8. CASE event \in {"execute", "fail"} /\ id \notin reserved
    BY <1>2, <2>1, <2>2, <2>3, <2>4, <2>5, <2>8, <1>1 DEF Fits, CapacityOK, rec
  <2>9. CASE event \in {"enqueue", "deny"}
    BY <1>2, <2>1, <2>2, <2>3, <2>4, <2>5, <2>9, <1>1 DEF Fits, CapacityOK, rec
  <2> QED BY <2>6, <2>7, <2>8, <2>9 DEF Events
<1>3. CASE ~ok /\ UNCHANGED <<disk, audit>>
  BY <1>1, <1>3 DEF disk, audit, SafeInv, CapacityOK
<1> QED
  BY <1>2, <1>3 DEF AuditAppend

\* A file that only grew by whole records, all counted, stays acceptable.
LEMMA FileStays ==
  ASSUME SafeInv, DiskOK', AuditOK', CapacityOK', tail' = NoTail, recordCount' = Len(log'),
         NEW event \in Events, NEW id \in Ids,
         log' \in {log, Append(log, Record(event, id))}
  PROVE  FileOK'
<1>1. log \in Seq([event : Events \cup {"junk"}, id : Ids \cup {NoId}])
  BY DEF SafeInv, TypeInv, DiskOK
<1>2. Record(event, id) # Junk
  BY IdsAssumption DEF Record, Junk
<1>3. \A i \in DOMAIN log' : log'[i] # Junk
  <2> DEFINE rec == Record(event, id)
  <2> HIDE DEF rec
  <2>1. CASE log' = log
    BY <2>1 DEF SafeInv, FileOK
  <2>2. CASE log' = Append(log, rec)
    <3>1. \A i \in DOMAIN log : log[i] # Junk
      BY DEF SafeInv, FileOK
    <3>2. rec # Junk
      BY <1>2 DEF rec
    <3> QED BY <1>1, <2>2, <3>1, <3>2
  <2> QED BY <2>1, <2>2 DEF rec
<1>4. Replayed' = log' /\ tail'.size = 0 /\ tail'.kind = "none"
  BY DEF Replayed, NoTail
<1>5. Len(log') <= MaxAuditReplayEntries
  <2>1. Cardinality(reserved') \in Nat /\ recordCount' \in Nat /\ MaxAuditReplayEntries \in Nat
    BY SizeAssumption, SubsetFinite DEF AuditOK
  <2> QED BY <2>1 DEF CapacityOK
<1> QED
  BY <1>3, <1>4, <1>5, SizeAssumption DEF FileOK

\* The result sizes are untouched when a connection becomes idle, starts a
\* request or starts to execute.
LEMMA SizesStay ==
  ASSUME ConnOK, SizesOK, NEW c \in Conns, NEW state, state.size = 0,
         conn' = [conn EXCEPT ![c] = state]
  PROVE  SizesOK'
<1> SUFFICES ASSUME NEW d \in Conns,
                    \/ conn'[d].pc = "execute"
                    \/ conn'[d].pc = "record" /\ conn'[d].event = "fail"
             PROVE  conn'[d].size = 0
  BY DEF SizesOK
<1>1. CASE d = c
  BY <1>1 DEF ConnOK
<1>2. CASE d # c
  <2>1. conn'[d] = conn[d]
    BY <1>2 DEF ConnOK
  <2> QED BY <2>1 DEF SizesOK
<1> QED
  BY <1>1, <1>2

\* A process that ends leaves a safe state if its last write, whole or
\* partial, passed Append's checks.
LEMMA DieSafe ==
  ASSUME SafeInv, Die, DiskOK', bytes' <= MaxAuditLogBytes,
         \A i \in DOMAIN log' : log'[i] # Junk,
         tail'.size <= MaxAuditRecordBytes, Len(Replayed)' <= MaxAuditReplayEntries,
         tail'.kind = "whole" => bytes' < MaxAuditLogBytes
  PROVE  CapacityOK' /\ ApprovedReserved' /\ SizesOK' /\ FileOK' /\ DownOK'
<1>1. CapacityOK'
  <2>1. /\ reserved' = {} /\ reservedBytes' = 0 /\ recordCount' = 0
        /\ Cardinality({}) = 0
    BY FS_EmptySet DEF Die
  <2>2. bytes' \in Nat /\ MaxAuditReplayEntries \in Nat
    BY SizeAssumption DEF DiskOK
  <2> QED BY <2>1, <2>2 DEF CapacityOK
<1>2. ApprovedReserved' /\ SizesOK' /\ DownOK'
  BY DEF Die, ApprovedReserved, SizesOK, DownOK, Idle
<1>3. FileOK'
  BY DEF Die, FileOK
<1> QED
  BY <1>1, <1>2, <1>3

\* One step of one daemon keeps the capacity invariant.
LEMMA SafeStep == Faults = {} /\ SafeInv /\ [Next]_vars => SafeInv'
<1> SUFFICES ASSUME Faults = {}, SafeInv, [Next]_vars PROVE SafeInv'
  OBVIOUS
<1>t. TypeInv'
  BY TypeStep DEF SafeInv
<1>u. /\ DiskOK /\ AuditOK /\ QueueOK /\ ConnOK /\ HandlerOK
      /\ DiskOK' /\ AuditOK' /\ QueueOK' /\ ConnOK' /\ HandlerOK'
      /\ CapacityOK /\ ApprovedReserved /\ SizesOK /\ FileOK
  BY <1>t DEF SafeInv, TypeInv
<1>s. /\ "enqueue" \in Events /\ "approve" \in Events /\ "deny" \in Events
      /\ "execute" \in Events /\ "fail" \in Events
      /\ \A event \in {"execute", "fail"} : OutcomeStatus(event) # "approved"
      /\ Overhead \in Nat /\ \A p \in ParamSizes : Overhead + p \in Nat
      /\ Idle.size = 0 /\ Request.size = 0
  BY SizeAssumption DEF Events, OutcomeStatus, Idle, Request
<1>d. bytes <= MaxAuditLogBytes
  BY <1>u, SizeAssumption, SMTT(30) DEF DiskOK, AuditOK, CapacityOK
<1>q. ASSUME UNCHANGED <<log, tail, bytes, mode, items, reserved, reservedBytes, recordCount>>
      PROVE  CapacityOK' /\ ApprovedReserved' /\ FileOK'
  BY <1>q, <1>u DEF CapacityOK, ApprovedReserved, FileOK, Replayed
<1>m. ASSUME NEW c \in Conns, conn[c].pc # "idle" PROVE mode # "down"
  BY <1>m DEF SafeInv, DownOK, Idle
<1>n. ASSUME mode # "down", UNCHANGED mode PROVE DownOK'
  BY <1>n DEF DownOK
<1>1. ASSUME NEW c \in Conns, Receive(c) PROVE SafeInv'
  <2>1. UNCHANGED <<log, tail, bytes, mode, items, reserved, reservedBytes, recordCount>>
    BY <1>1 DEF Receive, disk, queue, audit
  <2>2. SizesOK'
    BY <1>1, <1>s, <1>u, SizesStay DEF Receive
  <2>3. DownOK'
    BY <1>1 DEF Receive, DownOK
  <2> QED BY <1>t, <1>q, <2>1, <2>2, <2>3 DEF SafeInv
<1>2. ASSUME NEW c \in Conns, ToolsCallDirect(c) \/ RejectTransition(c) PROVE SafeInv'
  <2>1. UNCHANGED <<log, tail, bytes, mode, items, reserved, reservedBytes, recordCount>>
    BY <1>2 DEF ToolsCallDirect, RejectTransition, disk, queue, audit
  <2>2. conn' = [conn EXCEPT ![c] = Idle] /\ conn[c].pc = "request"
    BY <1>2 DEF ToolsCallDirect, RejectTransition
  <2>3. SizesOK' /\ DownOK'
    BY <1>m, <1>n, <1>s, <1>u, <2>1, <2>2, SizesStay
  <2> QED BY <1>t, <1>q, <2>1, <2>3 DEF SafeInv
<1>3. ASSUME NEW c \in Conns, ToolsCallConfirm(c) PROVE SafeInv'
  <2>1. conn' = [conn EXCEPT ![c] = Idle] /\ conn[c].pc = "request" /\ UNCHANGED mode
    BY <1>3 DEF ToolsCallConfirm
  <2>2. SizesOK' /\ DownOK' /\ mode # "down"
    BY <1>m, <1>n, <1>s, <1>u, <2>1, SizesStay
  <2>3. PICK id \in Ids, paramSize \in ParamSizes : Enqueue(id, paramSize)
    BY <1>3 DEF ToolsCallConfirm
  <2>4. PICK ok \in BOOLEAN :
          /\ AuditAppend("enqueue", id, Overhead + paramSize, ok)
          /\ items' = IF ok THEN [items EXCEPT ![id] = "pending"] ELSE items
    BY <2>3 DEF Enqueue
  <2>5. /\ CapacityOK' /\ tail' = NoTail /\ recordCount' = Len(log')
        /\ log' \in {log, Append(log, Record("enqueue", id))}
        /\ reserved' = reserved
    BY <1>s, <2>2, <2>4, AppendSafe
  <2>6. FileOK'
    BY <1>s, <1>u, <2>5, FileStays
  <2>7. ApprovedReserved'
    BY <1>u, <2>4, <2>5 DEF ApprovedReserved, QueueOK
  <2> QED BY <1>t, <2>2, <2>5, <2>6, <2>7 DEF SafeInv
<1>4. ASSUME NEW c \in Conns, ApprovalApprove(c) PROVE SafeInv'
  <2>1. conn[c].pc = "request" /\ UNCHANGED mode
    BY <1>4 DEF ApprovalApprove
  <2>2. DownOK' /\ mode # "down"
    BY <1>m, <1>n, <2>1
  <2>3. PICK id \in Ids : Approve(c, id)
    BY <1>4 DEF ApprovalApprove
  <2>4. PICK ok \in BOOLEAN :
          /\ AuditAppend("approve", id, Overhead, ok)
          /\ items' = IF ok THEN [items EXCEPT ![id] = "approved"] ELSE items
          /\ conn' = [conn EXCEPT ![c] = IF ok THEN [Idle EXCEPT !.pc = "execute", !.id = id]
                                                ELSE Idle]
    BY <2>3 DEF Approve
  <2>5. /\ CapacityOK' /\ tail' = NoTail /\ recordCount' = Len(log')
        /\ log' \in {log, Append(log, Record("approve", id))}
        /\ ok => reserved' = reserved \cup {id}
        /\ ~ok => reserved' = reserved
    BY <1>s, <2>2, <2>4, AppendSafe
  <2>6. FileOK'
    BY <1>s, <1>u, <2>5, FileStays
  <2>7. ApprovedReserved'
    BY <1>u, <2>4, <2>5 DEF ApprovedReserved, QueueOK
  <2>8. SizesOK'
    <3>1. (IF ok THEN [Idle EXCEPT !.pc = "execute", !.id = id] ELSE Idle).size = 0
      BY DEF Idle
    <3> QED BY <1>u, <2>4, <3>1, SizesStay
  <2> QED BY <1>t, <2>2, <2>5, <2>6, <2>7, <2>8 DEF SafeInv
<1>5. ASSUME NEW c \in Conns, ApprovalDeny(c) PROVE SafeInv'
  <2>1. conn' = [conn EXCEPT ![c] = Idle] /\ conn[c].pc = "request" /\ UNCHANGED mode
    BY <1>5 DEF ApprovalDeny
  <2>2. SizesOK' /\ DownOK' /\ mode # "down"
    BY <1>m, <1>n, <1>s, <1>u, <2>1, SizesStay
  <2>3. PICK id \in Ids : Deny(id)
    BY <1>5 DEF ApprovalDeny
  <2>4. PICK ok \in BOOLEAN :
          /\ AuditAppend("deny", id, Overhead, ok)
          /\ items' = IF ok THEN [items EXCEPT ![id] = "denied"] ELSE items
    BY <2>3 DEF Deny
  <2>5. /\ CapacityOK' /\ tail' = NoTail /\ recordCount' = Len(log')
        /\ log' \in {log, Append(log, Record("deny", id))}
        /\ reserved' = reserved
    BY <1>s, <2>2, <2>4, AppendSafe
  <2>6. FileOK'
    BY <1>s, <1>u, <2>5, FileStays
  <2>7. ApprovedReserved'
    BY <1>u, <2>4, <2>5 DEF ApprovedReserved, QueueOK
  <2> QED BY <1>t, <2>2, <2>5, <2>6, <2>7 DEF SafeInv
<1>6. ASSUME NEW c \in Conns, Execute(c) PROVE SafeInv'
  <2>1. UNCHANGED <<log, tail, bytes, mode, items, reserved, reservedBytes, recordCount>>
    BY <1>6 DEF Execute, disk, queue, audit
  <2>2. conn[c].pc = "execute" /\ conn[c].size = 0
    BY <1>6, <1>u DEF Execute, SizesOK
  <2>3. DownOK'
    BY <1>m, <1>n, <2>1, <2>2
  <2>4. SizesOK'
    <3>1. ASSUME NEW size \in ResultSizes,
                 conn' = [conn EXCEPT ![c].pc = "record", ![c].event = "execute", ![c].size = size]
          PROVE  SizesOK'
      BY <1>u, <3>1 DEF ConnOK, SizesOK
    <3>2. ASSUME conn' = [conn EXCEPT ![c].pc = "record", ![c].event = "fail"]
          PROVE  SizesOK'
      BY <1>u, <2>2, <3>2 DEF ConnOK, SizesOK
    <3> QED BY <1>6, <3>1, <3>2 DEF Execute
  <2> QED BY <1>t, <1>q, <2>1, <2>3, <2>4 DEF SafeInv
<1>7. ASSUME NEW c \in Conns, RecordResult(c) PROVE SafeInv'
  <2>1. conn' = [conn EXCEPT ![c] = Idle] /\ conn[c].pc = "record" /\ UNCHANGED mode
    BY <1>7 DEF RecordResult
  <2>2. SizesOK' /\ DownOK' /\ mode # "down"
    BY <1>m, <1>n, <1>s, <1>u, <2>1, SizesStay
  <2>3. /\ conn[c].id \in Ids /\ conn[c].event \in {"execute", "fail"}
        /\ conn[c].event \in Events /\ TerminalBody(c) \in Nat
    BY <1>s, <1>u, <2>1 DEF HandlerOK, TerminalBody, ConnOK
  <2>4. CASE UNCHANGED <<disk, audit, items>>
    BY <1>t, <1>q, <2>1, <2>2, <2>4 DEF disk, audit, SafeInv
  <2>5. ASSUME NEW ok \in BOOLEAN,
               AuditAppend(conn[c].event, conn[c].id, TerminalBody(c), ok),
               items' = IF ok THEN [items EXCEPT ![conn[c].id] = OutcomeStatus(conn[c].event)]
                              ELSE items
        PROVE  SafeInv'
    <3>1. /\ CapacityOK' /\ tail' = NoTail /\ recordCount' = Len(log')
          /\ log' \in {log, Append(log, Record(conn[c].event, conn[c].id))}
          /\ ok => reserved' = reserved \ {conn[c].id}
          /\ ~ok => reserved' = reserved
      BY <2>2, <2>3, <2>5, AppendSafe
    <3>2. FileOK'
      BY <1>u, <2>3, <3>1, FileStays
    <3>3. OutcomeStatus(conn[c].event) # "approved"
      BY <1>s, <2>3
    <3>4. ApprovedReserved'
      BY <1>u, <2>3, <2>5, <3>1, <3>3 DEF ApprovedReserved, QueueOK
    <3> QED BY <1>t, <2>2, <3>1, <3>2, <3>4 DEF SafeInv
  <2> QED BY <1>7, <2>4, <2>5 DEF RecordResult
<1>8. CASE Shutdown
  <2>1. CapacityOK' /\ ApprovedReserved' /\ SizesOK' /\ FileOK' /\ DownOK'
    BY <1>8, <1>u DEF Shutdown, disk, queue, audit, CapacityOK, ApprovedReserved, SizesOK,
                      FileOK, DownOK, Replayed
  <2> QED BY <1>t, <2>1 DEF SafeInv
<1>9. CASE Stop \/ Crash
  <2>1. Die /\ UNCHANGED <<log, tail, bytes>>
    BY <1>9 DEF Stop, Crash, disk
  <2>2. CapacityOK' /\ ApprovedReserved' /\ SizesOK' /\ FileOK' /\ DownOK'
    <3>1. Len(Replayed)' <= MaxAuditReplayEntries
      BY <1>u, <2>1 DEF FileOK, Replayed
    <3> QED BY <1>d, <1>u, <2>1, <3>1, DieSafe DEF FileOK
  <2> QED BY <1>t, <2>2 DEF SafeInv
<1>10. CASE CrashInAppend
  <2>1. PICK event \in Events, id \in Ids,
             body \in {Overhead + s : s \in {0} \cup ParamSizes \cup ResultSizes} :
          /\ Fits(event, id, body)
          /\ \/ WriteLine(event, id, body)
             \/ \E n \in 1..body : WritePart(event, id, body, n)
    BY <1>10 DEF CrashInAppend
  <2>2. body \in Nat
    BY SizeAssumption
  <2>3. /\ bytes + body + 1 <= MaxAuditLogBytes /\ recordCount + 1 <= MaxAuditReplayEntries
        /\ body <= MaxAuditRecordBytes
    BY <1>u, <2>1, <2>2, FitsBounds
  <2>4. /\ Die /\ mode # "down" /\ tail = NoTail /\ recordCount = Len(log)
        /\ tail.size = 0
    BY <1>10, <1>u DEF CrashInAppend, FileOK, NoTail
  <2>5. /\ bytes \in Nat /\ MaxAuditLogBytes \in Nat /\ MaxAuditRecordBytes \in Nat
        /\ log \in Seq([event : Events \cup {"junk"}, id : Ids \cup {NoId}])
        /\ \A i \in DOMAIN log : log[i] # Junk
    BY <1>u, SizeAssumption DEF DiskOK, FileOK
  <2> DEFINE rec == Record(event, id)
  <2>6. rec # Junk
    BY IdsAssumption DEF Record, Junk
  <2>7. CASE WriteLine(event, id, body)
    <3>1. log' = Append(log, rec) /\ tail' = NoTail /\ bytes' = bytes + body + 1
      BY <2>4, <2>7 DEF WriteLine
    <3> HIDE DEF rec
    <3>2. Len(log') = Len(log) + 1 /\ \A i \in DOMAIN log' : log'[i] # Junk
      BY <2>5, <2>6, <3>1
    <3>3. tail'.size = 0 /\ tail'.kind = "none" /\ Replayed' = log'
      BY <3>1 DEF NoTail, Replayed
    <3>4. CapacityOK' /\ ApprovedReserved' /\ SizesOK' /\ FileOK' /\ DownOK'
      BY <1>u, <2>3, <2>4, <2>5, <3>1, <3>2, <3>3, DieSafe
    <3> QED BY <1>t, <3>4 DEF SafeInv
  <2>8. ASSUME NEW n \in 1..body, WritePart(event, id, body, n) PROVE SafeInv'
    <3>1. /\ log' = log /\ bytes' = bytes + n
          /\ tail' \in {[kind |-> "whole", event |-> event, id |-> id, size |-> n],
                       [kind |-> "torn", event |-> "none", id |-> NoId, size |-> n]}
      BY <2>2, <2>4, <2>8 DEF WritePart
    <3>2. tail'.size = n /\ (tail'.kind = "whole" => tail'.event = event /\ tail'.id = id)
      BY <3>1
    <3>3. Replayed' \in {log, Append(log, rec)}
      BY <3>1, <3>2 DEF Replayed
    <3> HIDE DEF rec
    <3>4. Len(Replayed)' <= MaxAuditReplayEntries
      <4>1. Len(log) \in Nat /\ Len(Append(log, rec)) = Len(log) + 1
        BY <2>5
      <4> QED BY <2>3, <2>4, <3>3, <4>1, SizeAssumption
    <3>5. bytes' < MaxAuditLogBytes /\ tail'.size <= MaxAuditRecordBytes
      BY <2>2, <2>3, <2>5, <3>1, <3>2
    <3>6. bytes' <= MaxAuditLogBytes
      BY <1>u, <2>5, <3>5 DEF DiskOK
    <3>7. CapacityOK' /\ ApprovedReserved' /\ SizesOK' /\ FileOK' /\ DownOK'
      BY <1>u, <2>4, <2>5, <3>1, <3>4, <3>5, <3>6, DieSafe
    <3> QED BY <1>t, <3>7 DEF SafeInv
  <2> QED BY <2>1, <2>7, <2>8
<1>11. CASE Start
  <2>1. OpenAuditAccepts /\ OpenAudit /\ Restore /\ UNCHANGED conn /\ mode' = "up"
    BY <1>11 DEF Start
  <2>2. SizesOK' /\ DownOK'
    BY <1>u, <2>1 DEF SizesOK, DownOK
  <2>3. ApprovedReserved'
    BY <2>1 DEF Restore, RestoredItem, ApprovedReserved
  <2>4. bytes' <= MaxAuditLogBytes
    BY <1>u, <2>1, SizeAssumption DEF OpenAudit, OpenAuditAccepts, DiskOK
  <2>5. CapacityOK'
    BY <1>u, <2>1, <2>4, FS_EmptySet, SizeAssumption, ReplayedType
    DEF OpenAudit, OpenAuditAccepts, CapacityOK, DiskOK
  <2>6. \A i \in DOMAIN Replayed : Replayed[i] # Junk
    <3> DEFINE rec == Record(tail.event, tail.id)
    <3>1. CASE tail.kind = "whole"
      <4>1. rec # Junk /\ Replayed = Append(log, rec)
        BY <1>u, <3>1, IdsAssumption DEF DiskOK, Record, Junk, Replayed
      <4>2. log \in Seq([event : Events \cup {"junk"}, id : Ids \cup {NoId}])
        BY <1>u DEF DiskOK
      <4>3. \A i \in DOMAIN log : log[i] # Junk
        BY <2>1 DEF OpenAuditAccepts
      <4> HIDE DEF rec
      <4> QED BY <4>1, <4>2, <4>3
    <3>2. CASE tail.kind # "whole"
      BY <2>1, <3>2 DEF OpenAuditAccepts, Replayed
    <3> QED BY <3>1, <3>2
  <2>7. /\ log' = Replayed /\ tail' = NoTail /\ recordCount' = Len(log')
        /\ tail'.size = 0 /\ tail'.kind = "none" /\ Replayed' = log'
    BY <2>1 DEF OpenAudit, NoTail, Replayed
  <2>8. FileOK'
    BY <2>1, <2>6, <2>7, SizeAssumption DEF FileOK, OpenAuditAccepts
  <2> QED BY <1>t, <2>2, <2>3, <2>5, <2>8 DEF SafeInv
<1>12. CASE UNCHANGED vars
  <2>1. CapacityOK' /\ ApprovedReserved' /\ SizesOK' /\ FileOK' /\ DownOK'
    BY <1>12, <1>u DEF SafeInv, vars, CapacityOK, ApprovedReserved, SizesOK, FileOK, DownOK, Replayed
  <2> QED BY <1>t, <2>1 DEF SafeInv
<1> QED
  BY <1>1, <1>2, <1>3, <1>4, <1>5, <1>6, <1>7, <1>8, <1>9, <1>10, <1>11, <1>12
  DEF Next, Work, Handle

\* The strengthened invariant holds of an empty log ...
LEMMA SafeInitially == Init => SafeInv
<1> SUFFICES ASSUME Init PROVE SafeInv
  OBVIOUS
<1>1. TypeInv
  BY TypeInitially
<1>2. Cardinality({}) = 0
  BY FS_EmptySet
<1>3. CapacityOK /\ ApprovedReserved /\ SizesOK /\ DownOK
  BY <1>2, SizeAssumption DEF Init, CapacityOK, ApprovedReserved, SizesOK, DownOK, Idle
<1>4. FileOK
  BY SizeAssumption DEF Init, FileOK, Replayed, NoTail
<1> QED
  BY <1>1, <1>3, <1>4 DEF SafeInv

\* ... and in every reachable state.
LEMMA SafeInvariant ==
  ASSUME Faults = {}
  PROVE  Spec => []SafeInv
<1>1. SafeInv /\ [Next]_vars => SafeInv'
  BY SafeStep
<1> QED
  BY <1>1, SafeInitially, PTL DEF Spec

\* On a file system that reports no error, once Approve has recorded a
\* decision the outcome of the tool can always be recorded, whatever other
\* handlers append in between: the reservation Append makes is enough.
THEOREM OutcomeAlwaysRecordable ==
  ASSUME Faults = {}
  PROVE  Spec => []TerminalRecordFits
<1>1. SafeInv => TerminalRecordFits
  <2> SUFFICES ASSUME SafeInv, NEW c \in Conns, conn[c].pc = "record", Recordable(c)
               PROVE  Fits(conn[c].event, conn[c].id, TerminalBody(c))
    BY DEF TerminalRecordFits
  <2>1. /\ conn[c].id \in Ids /\ conn[c].event \in {"execute", "fail"} /\ conn[c].size \in Nat
        /\ conn[c].event = "fail" => conn[c].size = 0
        /\ conn[c].id \in reserved
    BY DEF SafeInv, TypeInv, HandlerOK, ConnOK, SizesOK, Recordable, ApprovedReserved
  <2>2. /\ MaxTerminalResultBytes \in Nat /\ MaxAuditRecordBytes \in Nat
        /\ MaxAuditLogBytes \in Nat /\ MaxAuditReplayEntries \in Nat /\ Overhead \in Nat
        /\ reservedBytes \in Nat /\ recordCount \in Nat /\ bytes \in Nat
        /\ Cardinality(reserved) \in Nat
    BY SizeAssumption, SubsetFinite DEF SafeInv, TypeInv, DiskOK, AuditOK
  <2>3. conn[c].size <= MaxTerminalResultBytes
    BY <2>1, <2>2 DEF Recordable
  <2>4. TerminalBody(c) + 1 <= MaxAuditRecordBytes /\ TerminalBody(c) \in Nat
    BY <2>1, <2>2, <2>3, RecordAssumption DEF TerminalBody
  <2>5. /\ bytes + reservedBytes <= MaxAuditLogBytes
        /\ recordCount + Cardinality(reserved) <= MaxAuditReplayEntries
    BY DEF SafeInv, CapacityOK
  <2> QED
    BY <2>1, <2>2, <2>4, <2>5 DEF Fits
<1> QED
  BY <1>1, SafeInvariant, PTL

\* On a file system that reports no error qid can always be started again:
\* OpenAudit accepts the log at any moment, also after a crash in mid-append.
THEOREM AlwaysRestartable ==
  ASSUME Faults = {}
  PROVE  Spec => []RestartAccepts
<1>1. SafeInv => RestartAccepts
  <2> SUFFICES ASSUME SafeInv PROVE OpenAuditAccepts
    BY DEF RestartAccepts
  <2>1. bytes <= MaxAuditLogBytes
    BY SizeAssumption DEF SafeInv, TypeInv, DiskOK, AuditOK, CapacityOK
  <2> QED
    BY <2>1 DEF SafeInv, FileOK, OpenAuditAccepts
<1> QED
  BY <1>1, SafeInvariant, PTL
=============================================================================
