--------------------------- MODULE DaemonOverlap ---------------------------
(***************************************************************************)
(* Two qid processes on one audit log.  Serve closes the listener as soon  *)
(* as the serve context is cancelled and then waits for its handlers, so a *)
(* successor started by `qi daemon restart` can bind the socket, open the  *)
(* log and replay it while its predecessor still runs an approved tool     *)
(* (cmd/qid/main.go:85-94, internal/daemon/server.go:69-91).  Each process *)
(* has a queue, an audit handle and connections of its own; the file is    *)
(* shared.                                                                 *)
(***************************************************************************)
EXTENDS Integers, Sequences, FiniteSets

CONSTANTS Ids, NoId, Conns, MaxTerminalResultBytes, MaxAuditRecordBytes,
          MaxAuditLogBytes, MaxAuditReplayEntries, Overhead, ParamSizes,
          ResultSizes, Faults

\* What ApprovalQueue assumes of them.
ASSUME OverlapAssumption ==
  /\ IsFiniteSet(Ids) /\ NoId \notin Ids
  /\ MaxTerminalResultBytes \in Nat /\ MaxAuditRecordBytes \in Nat
  /\ MaxAuditLogBytes \in Nat /\ MaxAuditReplayEntries \in Nat
  /\ Overhead \in Nat \ {0} /\ ParamSizes \subseteq Nat /\ ResultSizes \subseteq Nat
  /\ MaxTerminalResultBytes + Overhead + 1 <= MaxAuditRecordBytes
  /\ Faults \subseteq {"write", "sync"}

VARIABLES
  log, tail, bytes, runs, bypassed,          \* shared: the file, the history
  modeA, itemsA, historyA, reservedA, reservedBytesA, recordCountA, connA,
  modeB, itemsB, historyB, reservedB, reservedBytesB, recordCountB, connB

memoryA == <<modeA, itemsA, historyA, reservedA, reservedBytesA, recordCountA, connA>>
memoryB == <<modeB, itemsB, historyB, reservedB, reservedBytesB, recordCountB, connB>>
allVars == <<log, tail, bytes, runs, bypassed, memoryA, memoryB>>

A == INSTANCE ApprovalQueue
       WITH mode <- modeA, items <- itemsA, history <- historyA,
            reserved <- reservedA, reservedBytes <- reservedBytesA,
            recordCount <- recordCountA, conn <- connA

B == INSTANCE ApprovalQueue
       WITH mode <- modeB, items <- itemsB, history <- historyB,
            reserved <- reservedB, reservedBytes <- reservedBytesB,
            recordCount <- recordCountB, conn <- connB

OverlapInit == A!Init /\ B!Init

\* daemon.Listen succeeds only if nothing answers on the socket: a daemon
\* starts while the other is down or draining, never while it serves.  A
\* daemon may be killed between two appends; the torn line that a kill inside
\* one leaves to the other daemon is the subject of ApprovalQueue's "write"
\* fault.
StepA ==
  /\ A!Work
  /\ modeA = "down" => modeB # "up"
  /\ UNCHANGED memoryB

StepB ==
  /\ B!Work
  /\ modeB = "down" => modeA # "up"
  /\ UNCHANGED memoryA

OverlapNext == StepA \/ StepB

OverlapSpec == OverlapInit /\ [][OverlapNext]_allVars

---------------------------------------------------------------------------
\* Even with two daemons on the log, no tool has run more often than the log
\* holds approvals for its entry, and no mutating call skipped the queue.
OverlapRunsAreApproved == A!RunsAreApproved

\* What README.md:480 says of a restart between the approval and its use: a
\* terminal mutation is never executed again.  No tool runs once the log holds
\* a terminal record for its entry.
NeverReexecutesTerminal ==
  [][\A id \in Ids : runs'[id] # runs[id] => A!Latest(log, id) = "approve"]_allVars
=============================================================================
