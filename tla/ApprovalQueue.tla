--------------------------- MODULE ApprovalQueue ---------------------------
(***************************************************************************)
(* qid's approval gate: policy.Decide, the in-memory approval queue        *)
(* (internal/approval/queue.go), its append-only audit log (audit.go), the *)
(* replay that rebuilds the queue at startup (restore.go) and the JSON-RPC *)
(* handlers that drive them (internal/daemon/server.go).                   *)
(*                                                                         *)
(* One daemon process serves a set of connections, each on its own         *)
(* goroutine.  Approve, Deny, Enqueue and RecordResult each hold the queue *)
(* mutex, so each is one step; approvalApprove releases it around          *)
(* tools.Execute, so approving, running the tool and recording its outcome *)
(* are three steps that other connections, a crash or a shutdown interleave.*)
(***************************************************************************)
EXTENDS Integers, Sequences, FiniteSets

CONSTANTS
  Ids,                     \* approval ids newID can mint
  NoId,                    \* the id of a connection that handles no approval
  Conns,                   \* client connections
  MaxTerminalResultBytes,  \* audit.go: largest result RecordResult accepts
  MaxAuditRecordBytes,     \* audit.go: largest marshalled record
  MaxAuditLogBytes,        \* audit.go: cap on the log file
  MaxAuditReplayEntries,   \* audit.go: cap on the number of records
  Overhead,                \* bytes of a record without its params or result
  ParamSizes,              \* sizes of the params a caller may send
  ResultSizes,             \* sizes of the results a tool may return
  Faults                   \* I/O errors Append may meet: subset of {"write", "sync"}

\* Ids and connections are finite sets, so len(a.reserved) is a number.
ASSUME IdsAssumption == IsFiniteSet(Ids) /\ NoId \notin Ids

\* The limits are counted in the same unit; all sizes are lengths.
ASSUME SizeAssumption ==
  /\ MaxTerminalResultBytes \in Nat
  /\ MaxAuditRecordBytes \in Nat
  /\ MaxAuditLogBytes \in Nat
  /\ MaxAuditReplayEntries \in Nat
  /\ Overhead \in Nat \ {0}
  /\ ParamSizes \subseteq Nat
  /\ ResultSizes \subseteq Nat

\* audit.go:22 leaves 512 KiB beside the largest result; the caller, call id,
\* tool name and error text the queue accepts (queue.go:28-31), JSON-escaped,
\* and the newline fit in it.
ASSUME RecordAssumption ==
  MaxTerminalResultBytes + Overhead + 1 <= MaxAuditRecordBytes

ASSUME FaultsAssumption == Faults \subseteq {"write", "sync"}

VARIABLES
  log,            \* audit.log: the newline-terminated lines
  tail,           \* audit.log: bytes after the last newline
  bytes,          \* audit.log: file size
  mode,           \* the process: "down", "up", "draining"
  items,          \* Queue.items: status of each live entry
  history,        \* Queue.history: status of each restored terminal entry
  reserved,       \* Audit.reserved: ids holding a terminal reservation
  reservedBytes,  \* Audit.reservedBytes
  recordCount,    \* Audit.recordCount
  conn,           \* what each connection's handler is doing
  runs,           \* history: how often the tool of each entry has run
  bypassed        \* history: mutating calls by a non-cli caller run unapproved

disk  == <<log, tail, bytes>>
audit == <<reserved, reservedBytes, recordCount>>
queue == <<items, history>>
ghost == <<runs, bypassed>>
vars  == <<log, tail, bytes, mode, items, history, reserved, reservedBytes,
           recordCount, conn, runs, bypassed>>

---------------------------------------------------------------------------
\* Vocabulary

Live      == {"pending", "approved"}
Terminal  == {"denied", "executed", "failed"}
Statuses  == Live \cup Terminal
Events    == {"enqueue", "approve", "deny", "execute", "fail"}

\* The status the outcome of a terminal event carries (terminalOutcomeMatches).
OutcomeStatus(event) ==
  CASE event = "deny"    -> "denied"
    [] event = "execute" -> "executed"
    [] event = "fail"    -> "failed"
    [] OTHER             -> "none"

Record(event, id) == [event |-> event, id |-> id]
\* A terminated line json.Unmarshal rejects.
Junk == Record("junk", NoId)

NoTail == [kind |-> "none", event |-> "none", id |-> NoId, size |-> 0]

Idle    == [pc |-> "idle", id |-> NoId, event |-> "none", size |-> 0]
Request == [Idle EXCEPT !.pc = "request"]

Callers == {"", "cli", "ai"}
Tools   == {"mutating", "readonly"}

\* policy.DefaultDecider.Decide.
Decide(caller, tool) ==
  IF caller = "" THEN "deny"
  ELSE IF caller = "cli" \/ tool = "readonly" THEN "allow"
  ELSE "confirm"

\* The last record about id in a sequence of log lines, "none" if there is none.
Latest(lines, id) ==
  IF \E i \in DOMAIN lines : lines[i].id = id
    THEN lines[CHOOSE i \in DOMAIN lines :
                 /\ lines[i].id = id
                 /\ \A j \in DOMAIN lines : lines[j].id = id => j <= i].event
    ELSE "none"

Enqueued(lines, id) ==
  \E i \in DOMAIN lines : lines[i] = Record("enqueue", id)

---------------------------------------------------------------------------
\* The audit log

\* Mutant of Fits: an approval reserves no room for its outcome.
FitsWithoutReserve(event, id, body) ==
  /\ body <= MaxAuditRecordBytes
  /\ recordCount + 1 <= MaxAuditReplayEntries
  /\ bytes + body + 1 <= MaxAuditLogBytes

\* Append's checks before it writes: record size, the terminal capacity an
\* approval reserves and an execute or fail gives back, entry and byte limits.
Fits(event, id, body) ==
  LET releases      == event \in {"execute", "fail"} /\ id \in reserved
      reservedAfter == reservedBytes - (IF releases THEN MaxAuditRecordBytes ELSE 0)
      entriesAfter  == Cardinality(reserved) - (IF releases THEN 1 ELSE 0)
      required      == body + 1 + (IF event = "approve" THEN MaxAuditRecordBytes ELSE 0)
      entries       == IF event = "approve" THEN 2 ELSE 1
  IN /\ body <= MaxAuditRecordBytes
     /\ event = "approve" => id \notin reserved
     /\ recordCount + entriesAfter + entries <= MaxAuditReplayEntries
     /\ bytes + reservedAfter + required <= MaxAuditLogBytes

\* write(2) takes the whole line.  After a torn line the new one is glued to
\* it, and the result is a terminated line that does not decode.
WriteLine(event, id, body) ==
  /\ log' = Append(log, IF tail = NoTail THEN Record(event, id) ELSE Junk)
  /\ tail' = NoTail
  /\ bytes' = bytes + body + 1

\* write(2) takes the first n bytes of the line only; a record that misses
\* nothing but its newline still decodes.
WritePart(event, id, body, n) ==
  /\ bytes' = bytes + n
  /\ tail' = IF tail = NoTail /\ n = body
               THEN [kind |-> "whole", event |-> event, id |-> id, size |-> n]
               ELSE [kind |-> "torn", event |-> "none", id |-> NoId, size |-> tail.size + n]
  /\ UNCHANGED log

\* Mutant of Account: every terminal record gives a reservation back.
AccountReleasesDenied(event, id) ==
  /\ reserved' = IF event = "approve" THEN reserved \cup {id} ELSE reserved \ {id}
  /\ reservedBytes' =
       CASE event = "approve" -> reservedBytes + MaxAuditRecordBytes
         [] event \in {"deny", "execute", "fail"} -> reservedBytes - MaxAuditRecordBytes
         [] OTHER -> reservedBytes
  /\ recordCount' = recordCount + 1

\* The bookkeeping Append does once the line is synced.
Account(event, id) ==
  /\ reserved' = CASE event = "approve" -> reserved \cup {id}
                   [] event \in {"execute", "fail"} -> reserved \ {id}
                   [] OTHER -> reserved
  /\ reservedBytes' =
       CASE event = "approve" -> reservedBytes + MaxAuditRecordBytes
         [] event \in {"execute", "fail"} /\ id \in reserved ->
              reservedBytes - MaxAuditRecordBytes
         [] OTHER -> reservedBytes
  /\ recordCount' = recordCount + 1

\* Audit.Append; ok is whether it returns nil.  A failed Sync leaves the line
\* in the file, a failed Write a prefix of it, and neither is accounted for.
AuditAppend(event, id, body, ok) ==
  \/ /\ ok
     /\ Fits(event, id, body)
     /\ WriteLine(event, id, body)
     /\ Account(event, id)
  \/ /\ ~ok
     /\ ~Fits(event, id, body)
     /\ UNCHANGED <<disk, audit>>
  \/ /\ ~ok
     /\ "sync" \in Faults
     /\ Fits(event, id, body)
     /\ WriteLine(event, id, body)
     /\ UNCHANGED audit
  \/ /\ ~ok
     /\ "write" \in Faults
     /\ Fits(event, id, body)
     /\ \E n \in 1..body : WritePart(event, id, body, n)
     /\ UNCHANGED audit

\* What ReadAuditLog returns: the terminated lines and a whole last record.
Replayed ==
  IF tail.kind = "whole" THEN Append(log, Record(tail.event, tail.id)) ELSE log

\* OpenAudit (with ReadAuditLog and repairAuditTail) accepts the file: every
\* terminated line decodes, the file and the replay are within their limits and
\* there is room for the newline a whole last record still needs.
OpenAuditAccepts ==
  /\ bytes <= MaxAuditLogBytes
  /\ \A i \in DOMAIN log : log[i] # Junk
  /\ tail.size <= MaxAuditRecordBytes
  /\ Len(Replayed) <= MaxAuditReplayEntries
  /\ tail.kind = "whole" => bytes < MaxAuditLogBytes

\* Mutant of OpenAudit: the replayed records are not counted.
OpenAuditForgetsCount ==
  /\ log' = Replayed
  /\ tail' = NoTail
  /\ bytes' = CASE tail.kind = "whole" -> bytes + 1
                [] tail.kind = "torn"  -> bytes - tail.size
                [] OTHER               -> bytes
  /\ reserved' = {}
  /\ reservedBytes' = 0
  /\ recordCount' = 0

\* OpenAudit: repair the tail, count the records, hold no reservation.
OpenAudit ==
  /\ log' = Replayed
  /\ tail' = NoTail
  /\ bytes' = CASE tail.kind = "whole" -> bytes + 1
                [] tail.kind = "torn"  -> bytes - tail.size
                [] OTHER               -> bytes
  /\ reserved' = {}
  /\ reservedBytes' = 0
  /\ recordCount' = Len(Replayed)

---------------------------------------------------------------------------
\* The queue

\* Mutant of RestoredItem: a failed call is pending again after a restart.
RestoredItemRetriesFailed(lines, id) ==
  IF Enqueued(lines, id) /\ Latest(lines, id) \in {"enqueue", "approve", "fail"}
    THEN "pending" ELSE "none"

\* Queue.Restore: an entry whose last record is terminal is lookup-only
\* history; one without a terminal record, approved or not, is pending again.
\* Restore also skips an entry whose terminal record does not belong to its
\* enqueue record (restore.go:53-57): a record here carries its own id only, and
\* Deny and Approve copy caller, call, tool and parameters from the entry.
RestoredItem(lines, id) ==
  IF Enqueued(lines, id) /\ Latest(lines, id) \in {"enqueue", "approve"}
    THEN "pending" ELSE "none"

RestoredHistory(lines, id) ==
  IF Enqueued(lines, id) THEN OutcomeStatus(Latest(lines, id)) ELSE "none"

Restore ==
  /\ items' = [id \in Ids |-> RestoredItem(Replayed, id)]
  /\ history' = [id \in Ids |-> RestoredHistory(Replayed, id)]

\* Queue.Get: the live entry, else the historical one.
Get(id) == IF items[id] # "none" THEN items[id] ELSE history[id]

\* newID never returns a live or historical id.
Fresh(id) == items[id] = "none" /\ history[id] = "none"

\* Queue.EnqueueWithCallID: the entry is published only if its record is.
Enqueue(id, paramSize) ==
  \E ok \in BOOLEAN :
    /\ AuditAppend("enqueue", id, Overhead + paramSize, ok)
    /\ items' = IF ok THEN [items EXCEPT ![id] = "pending"] ELSE items

\* Mutant of Approve: the handler executes although the audit append failed.
ApproveIgnoresAudit(c, id) ==
  \E ok \in BOOLEAN :
    /\ AuditAppend("approve", id, Overhead, ok)
    /\ items' = [items EXCEPT ![id] = "approved"]
    /\ conn' = [conn EXCEPT ![c] = [Idle EXCEPT !.pc = "execute", !.id = id]]

\* Queue.Approve on a pending entry: record, then status, and the handler goes
\* on to execute; an audit error is the handler's answer.
Approve(c, id) ==
  \E ok \in BOOLEAN :
    /\ AuditAppend("approve", id, Overhead, ok)
    /\ items' = IF ok THEN [items EXCEPT ![id] = "approved"] ELSE items
    /\ conn' = [conn EXCEPT ![c] = IF ok THEN [Idle EXCEPT !.pc = "execute", !.id = id]
                                         ELSE Idle]

\* Mutant of Deny: the status changes although the audit append failed.
DenyIgnoresAudit(id) ==
  \E ok \in BOOLEAN :
    /\ AuditAppend("deny", id, Overhead, ok)
    /\ items' = [items EXCEPT ![id] = "denied"]

\* Queue.Deny on a pending entry.
Deny(id) ==
  \E ok \in BOOLEAN :
    /\ AuditAppend("deny", id, Overhead, ok)
    /\ items' = IF ok THEN [items EXCEPT ![id] = "denied"] ELSE items

---------------------------------------------------------------------------
\* The handlers

\* ServeConn reads a request; only while the serve context is live.
Receive(c) ==
  /\ mode = "up"
  /\ conn[c] = Idle
  /\ conn' = [conn EXCEPT ![c] = Request]
  /\ UNCHANGED <<disk, mode, queue, audit, ghost>>

\* toolsCall, verdicts Deny (an error) and Allow (the tool runs at once).
ToolsCallDirect(c) ==
  /\ conn[c].pc = "request"
  /\ \E caller \in Callers, tool \in Tools :
       /\ Decide(caller, tool) # "confirm"
       /\ bypassed' = IF Decide(caller, tool) = "allow" /\ tool = "mutating" /\ caller # "cli"
                        THEN bypassed \cup {<<caller, tool>>} ELSE bypassed
  /\ conn' = [conn EXCEPT ![c] = Idle]
  /\ UNCHANGED <<disk, mode, queue, audit, runs>>

\* toolsCall, verdict Confirm: queue the call under a fresh id.
ToolsCallConfirm(c) ==
  /\ conn[c].pc = "request"
  /\ \E caller \in Callers, tool \in Tools : Decide(caller, tool) = "confirm"
  /\ \E id \in Ids, paramSize \in ParamSizes : Fresh(id) /\ Enqueue(id, paramSize)
  /\ conn' = [conn EXCEPT ![c] = Idle]
  /\ UNCHANGED <<mode, history, ghost>>

\* approvalApprove up to the end of Queue.Approve.
ApprovalApprove(c) ==
  /\ conn[c].pc = "request"
  /\ \E id \in Ids : items[id] = "pending" /\ Approve(c, id)
  /\ UNCHANGED <<mode, history, ghost>>

\* approvalDeny.
ApprovalDeny(c) ==
  /\ conn[c].pc = "request"
  /\ \E id \in Ids : items[id] = "pending" /\ Deny(id)
  /\ conn' = [conn EXCEPT ![c] = Idle]
  /\ UNCHANGED <<mode, history, ghost>>

\* approvalApprove or approvalDeny of an unknown id or of one that is not
\* pending: pendingForTransition's errors.
RejectTransition(c) ==
  /\ conn[c].pc = "request"
  /\ \E id \in Ids : items[id] # "pending"
  /\ conn' = [conn EXCEPT ![c] = Idle]
  /\ UNCHANGED <<disk, mode, queue, audit, ghost>>

\* approvalApprove's tools.Execute: the tool runs and returns a result or an
\* error, or dispatch fails before any tool runs (ErrNotFound and the like).
Execute(c) ==
  /\ conn[c].pc = "execute"
  /\ \/ /\ \E size \in ResultSizes :
             conn' = [conn EXCEPT ![c].pc = "record", ![c].event = "execute", ![c].size = size]
        /\ runs' = [runs EXCEPT ![conn[c].id] = @ + 1]
     \/ /\ conn' = [conn EXCEPT ![c].pc = "record", ![c].event = "fail"]
        /\ runs' \in {runs, [runs EXCEPT ![conn[c].id] = @ + 1]}
  /\ UNCHANGED <<disk, mode, queue, audit, bypassed>>

\* The length of the terminal record a handler is about to append.
TerminalBody(c) == Overhead + conn[c].size

\* Queue.RecordResult gets past its checks: the result is not too large and
\* the entry is still approved.
Recordable(c) ==
  /\ conn[c].event = "execute" => conn[c].size <= MaxTerminalResultBytes
  /\ items[conn[c].id] = "approved"

\* Mutant of RecordResult: a refused result is not answered.
RecordResultHangs(c) ==
  /\ conn[c].pc = "record"
  /\ Recordable(c)
  /\ \E ok \in BOOLEAN :
       /\ AuditAppend(conn[c].event, conn[c].id, TerminalBody(c), ok)
       /\ items' = IF ok THEN [items EXCEPT ![conn[c].id] = OutcomeStatus(conn[c].event)]
                        ELSE items
  /\ conn' = [conn EXCEPT ![c] = Idle]
  /\ UNCHANGED <<mode, history, ghost>>

\* Queue.RecordResult: the record first, then the terminal status.
RecordResult(c) ==
  /\ conn[c].pc = "record"
  /\ LET id == conn[c].id
         event == conn[c].event
     IN \/ /\ Recordable(c)
           /\ \E ok \in BOOLEAN :
                /\ AuditAppend(event, id, TerminalBody(c), ok)
                /\ items' = IF ok THEN [items EXCEPT ![id] = OutcomeStatus(event)] ELSE items
        \/ /\ ~Recordable(c)
           /\ UNCHANGED <<disk, audit, items>>
  /\ conn' = [conn EXCEPT ![c] = Idle]
  /\ UNCHANGED <<mode, history, ghost>>

---------------------------------------------------------------------------
\* The process

\* The serve context is cancelled (SIGTERM or daemon.shutdown): the listener
\* closes, handlers already running go on.
Shutdown ==
  /\ mode = "up"
  /\ mode' = "draining"
  /\ UNCHANGED <<disk, queue, audit, conn, ghost>>

\* The process ends: everything in memory is gone.
Die ==
  /\ mode' = "down"
  /\ items' = [id \in Ids |-> "none"]
  /\ history' = [id \in Ids |-> "none"]
  /\ reserved' = {}
  /\ reservedBytes' = 0
  /\ recordCount' = 0
  /\ conn' = [c \in Conns |-> Idle]

\* Serve's wg.Wait returns and main runs its defers.
Stop ==
  /\ mode = "draining"
  /\ \A c \in Conns : conn[c] = Idle
  /\ Die
  /\ UNCHANGED <<disk, ghost>>

Crash ==
  /\ mode # "down"
  /\ Die
  /\ UNCHANGED <<disk, ghost>>

\* A handler is about to append this record.
Appending(event, id, body) ==
  \/ /\ event = "enqueue"
     /\ Fresh(id)
     /\ \E c \in Conns : conn[c].pc = "request"
     /\ \E paramSize \in ParamSizes : body = Overhead + paramSize
  \/ /\ event \in {"approve", "deny"}
     /\ items[id] = "pending"
     /\ \E c \in Conns : conn[c].pc = "request"
     /\ body = Overhead
  \/ \E c \in Conns :
       /\ conn[c].pc = "record"
       /\ conn[c].event = event
       /\ conn[c].id = id
       /\ Recordable(c)
       /\ body = TerminalBody(c)

\* The process dies inside Append, with the line or a prefix of it written.
CrashInAppend ==
  /\ mode # "down"
  /\ \E event \in Events, id \in Ids :
       \E body \in {Overhead + s : s \in {0} \cup ParamSizes \cup ResultSizes} :
         /\ Appending(event, id, body)
         /\ Fits(event, id, body)
         /\ \/ WriteLine(event, id, body)
            \/ \E n \in 1..body : WritePart(event, id, body, n)
  /\ Die
  /\ UNCHANGED ghost

\* cmd/qid main: open the log, replay it, serve.  OpenAudit's refusal ends the
\* process again.
Start ==
  /\ mode = "down"
  /\ OpenAuditAccepts
  /\ mode' = "up"
  /\ OpenAudit
  /\ Restore
  /\ UNCHANGED <<conn, ghost>>

---------------------------------------------------------------------------
Init ==
  /\ log = <<>>
  /\ tail = NoTail
  /\ bytes = 0
  /\ mode = "down"
  /\ items = [id \in Ids |-> "none"]
  /\ history = [id \in Ids |-> "none"]
  /\ reserved = {}
  /\ reservedBytes = 0
  /\ recordCount = 0
  /\ conn = [c \in Conns |-> Idle]
  /\ runs = [id \in Ids |-> 0]
  /\ bypassed = {}

\* The step that ends or advances the request a connection is handling.
Handle(c) ==
  \/ ToolsCallDirect(c)
  \/ ToolsCallConfirm(c)
  \/ ApprovalApprove(c)
  \/ ApprovalDeny(c)
  \/ RejectTransition(c)
  \/ Execute(c)
  \/ RecordResult(c)

\* Everything a daemon does short of dying inside an append.
Work ==
  \/ \E c \in Conns : Receive(c) \/ Handle(c)
  \/ Shutdown
  \/ Stop
  \/ Crash
  \/ Start

Next == Work \/ CrashInAppend

\* Handlers run on goroutines the Go scheduler keeps running and tools return;
\* a drained daemon reaches the end of main.  Nothing promises a restart.
Fairness ==
  /\ \A c \in Conns : WF_vars(Handle(c))
  /\ WF_vars(Stop)

Spec == Init /\ [][Next]_vars /\ Fairness

---------------------------------------------------------------------------
\* Properties

\* Types of every variable; in particular reservedBytes never goes negative,
\* however approvals, denials and results interleave.
TypeOK ==
  /\ log \in Seq([event : Events \cup {"junk"}, id : Ids \cup {NoId}])
  /\ tail \in [kind : {"none", "torn", "whole"}, event : Events \cup {"none"},
               id : Ids \cup {NoId}, size : Nat]
  /\ bytes \in Nat
  /\ mode \in {"down", "up", "draining"}
  /\ items \in [Ids -> Statuses \cup {"none"}]
  /\ history \in [Ids -> Terminal \cup {"none"}]
  /\ reserved \subseteq Ids
  /\ reservedBytes \in Nat
  /\ recordCount \in Nat
  /\ conn \in [Conns -> [pc : {"idle", "request", "execute", "record"},
                         id : Ids \cup {NoId},
                         event : {"none", "execute", "fail"},
                         size : Nat]]
  /\ runs \in [Ids -> Nat]
  /\ bypassed \subseteq Callers \X Tools

\* Once an approval is recorded, the outcome of its tool can be recorded too:
\* whatever else was appended since Approve, RecordResult's record fits the
\* entry and byte limits, because Append reserved room for it.
TerminalRecordFits ==
  \A c \in Conns :
    conn[c].pc = "record" /\ Recordable(c) =>
      Fits(conn[c].event, conn[c].id, TerminalBody(c))

\* At any moment, also with a record half written, OpenAudit would accept the
\* log Append has produced: qid can always be started again.
RestartAccepts == OpenAuditAccepts

\* The status an id would have after a crash and a restart from the log as it
\* is now.
AfterRestart(id) ==
  IF RestoredItem(Replayed, id) # "none"
    THEN RestoredItem(Replayed, id)
    ELSE RestoredHistory(Replayed, id)

\* While the daemon runs, what clients see is what the log says: a restart
\* would show every entry with the status it has now, an approved one as
\* pending again (restore.go), and would bring back nothing else.
RestartForgetsNothing ==
  mode # "down" =>
    \A id \in Ids :
      AfterRestart(id) = IF Get(id) = "approved" THEN "pending" ELSE Get(id)

ApproveRecords(lines, id) == {i \in DOMAIN lines : lines[i] = Record("approve", id)}

Approvals(id) == Cardinality(ApproveRecords(Replayed, id))

\* No mutating call of a non-cli caller runs without a decision of its own:
\* none skips the queue, and the tool of an entry has run at most once for
\* each approve record the log holds for it, across any number of restarts.
RunsAreApproved ==
  /\ bypassed = {}
  /\ \A id \in Ids : runs[id] <= Approvals(id)

\* The phase of a call as the log tells it: the last event about it decides.
EventPhase(event) ==
  CASE event = "none"    -> "none"
    [] event = "enqueue" -> "pending"
    [] event = "approve" -> "authorised"
    [] OTHER             -> OutcomeStatus(event)

LogPhase(id) == EventPhase(Latest(Replayed, id))

Lifecycle ==
  INSTANCE ApprovalLifecycle
    WITH phase  <- [id \in Ids |-> LogPhase(id)],
         grants <- [id \in Ids |-> Approvals(id)]

\* Queue, log, replay and handlers together keep the promise of the approval
\* gate: read from the log, every behaviour is one of ApprovalLifecycle.
ImplementsLifecycle == Lifecycle!LifecycleSpec

\* A daemon told to stop does stop: every handler still running gets to its
\* end, also when its result is refused or its record does not fit.
DrainCompletes == mode = "draining" ~> mode = "down"

\* Every status a client has been told is the status a restart would give the
\* entry, as far as a terminal status goes, and a restart is possible: "the
\* audit log on disk is the durable record" (audit.go:3).
AuditIsDurableRecord ==
  mode # "down" =>
    /\ OpenAuditAccepts
    /\ \A id \in Ids : Get(id) \in Terminal => AfterRestart(id) = Get(id)
=============================================================================
