---------------------- MODULE ApprovalLifecycleProofs ----------------------
(***************************************************************************)
(* Theorems about what the approval gate means to a caller: no tool runs   *)
(* without a decision of its own, a restart forgets nothing, and queue,    *)
(* log, replay and handlers together implement ApprovalLifecycle.  They    *)
(* hold for every set of ids and connections and every value of the        *)
(* limits, with crashes anywhere, on a file system that reports no error.  *)
(***************************************************************************)
EXTENDS ApprovalQueueProofs

---------------------------------------------------------------------------
\* What appending one record does to the reading of the log

Lines == Seq([event : Events \cup {"junk"}, id : Ids \cup {NoId}])

\* The last record about id is the one at position m.
IsLast(lines, id, m) ==
  /\ m \in DOMAIN lines
  /\ lines[m].id = id
  /\ \A j \in DOMAIN lines : lines[j].id = id => j <= m

\* The log with one more record.
Grown(longer, lines, event, id) == longer = Append(lines, Record(event, id))

\* Every id the log mentions has a last record.
LastOK(lines) ==
  \A id \in Ids : (\E i \in DOMAIN lines : lines[i].id = id) => \E m : IsLast(lines, id, m)

\* The last record is unique, so Latest reads its event.
LEMMA LatestIs ==
  ASSUME NEW lines \in Lines, NEW id \in Ids, NEW m, IsLast(lines, id, m)
  PROVE  Latest(lines, id) = lines[m].event
<1> DEFINE P(i) == /\ lines[i].id = id
                   /\ \A j \in DOMAIN lines : lines[j].id = id => j <= i
           last == CHOOSE i \in DOMAIN lines : P(i)
<1>1. m \in DOMAIN lines /\ P(m)
  BY DEF IsLast
<1>2. last \in DOMAIN lines /\ P(last)
  BY <1>1
<1>3. DOMAIN lines \subseteq Int
  BY DEF Lines
<1>4. last = m
  <2>1. last <= m /\ m <= last
    BY <1>1, <1>2
  <2> HIDE DEF last
  <2> QED BY <1>1, <1>2, <1>3, <2>1
<1>5. Latest(lines, id) = lines[last].event
  BY <1>1 DEF Latest
<1> QED
  BY <1>4, <1>5

\* Appending a record about id makes its event the latest one of id, and
\* leaves the latest event of every other id alone.
LEMMA LatestOfAppend ==
  ASSUME NEW lines \in Lines, LastOK(lines), NEW event \in Events, NEW id \in Ids,
         NEW longer, Grown(longer, lines, event, id)
  PROVE  /\ longer \in Lines
         /\ LastOK(longer)
         /\ Latest(longer, id) = event
         /\ \A other \in Ids \ {id} : Latest(longer, other) = Latest(lines, other)
         /\ \A other \in Ids : Enqueued(longer, other) <=>
              (Enqueued(lines, other) \/ (other = id /\ event = "enqueue"))
<1> DEFINE rec == Record(event, id)
           n == Len(lines)
<1>1. rec.event = event /\ rec.id = id
      /\ rec \in [event : Events \cup {"junk"}, id : Ids \cup {NoId}]
  BY DEF Record
<1>e. \A other : rec = Record("enqueue", other) <=> (other = id /\ event = "enqueue")
  BY DEF Record
<1>2. longer = Append(lines, rec)
  BY DEF Grown
<1> HIDE DEF rec
<1>3. /\ n \in Nat /\ DOMAIN lines = 1..n /\ DOMAIN longer = 1..(n+1)
      /\ longer[n+1] = rec /\ \A i \in 1..n : longer[i] = lines[i]
  BY <1>2, <1>1 DEF Lines
<1>4. longer \in Lines
  BY <1>1, <1>2 DEF Lines
<1>5. IsLast(longer, id, n+1)
  BY <1>1, <1>3 DEF IsLast
<1>6. Latest(longer, id) = event
  <2>1. Latest(longer, id) = longer[n+1].event
    BY <1>4, <1>5, LatestIs
  <2> QED BY <1>1, <1>3, <2>1
<1>7. ASSUME NEW other \in Ids \ {id}, NEW m, IsLast(lines, other, m)
      PROVE  IsLast(longer, other, m) /\ longer[m] = lines[m]
  BY <1>1, <1>3, <1>7 DEF IsLast
<1>8. ASSUME NEW other \in Ids \ {id}
      PROVE  (\E i \in DOMAIN longer : longer[i].id = other)
               <=> (\E i \in DOMAIN lines : lines[i].id = other)
  BY <1>1, <1>3, <1>8
<1>9. LastOK(longer)
  BY <1>5, <1>7, <1>8 DEF LastOK
<1>10. ASSUME NEW other \in Ids \ {id} PROVE Latest(longer, other) = Latest(lines, other)
  <2>1. CASE \E i \in DOMAIN lines : lines[i].id = other
    <3>1. PICK m : IsLast(lines, other, m)
      BY <1>10, <2>1 DEF LastOK
    <3>2. Latest(lines, other) = lines[m].event
      BY <1>10, <3>1, LatestIs
    <3>3. Latest(longer, other) = longer[m].event
      BY <1>4, <1>7, <1>10, <3>1, LatestIs
    <3> QED BY <1>7, <1>10, <3>1, <3>2, <3>3
  <2>2. CASE ~ \E i \in DOMAIN lines : lines[i].id = other
    BY <1>8, <1>10, <2>2 DEF Latest
  <2> QED BY <2>1, <2>2
<1>11. ASSUME NEW other \in Ids
       PROVE  Enqueued(longer, other) <=>
                (Enqueued(lines, other) \/ (other = id /\ event = "enqueue"))
  BY <1>3, <1>e DEF Enqueued
<1> QED
  BY <1>4, <1>6, <1>9, <1>10, <1>11

\* An approve record adds one to the approvals of its id, and no other record
\* changes any count.
LEMMA ApprovalsOfAppend ==
  ASSUME NEW lines \in Lines, NEW event \in Events, NEW id \in Ids,
         NEW longer, Grown(longer, lines, event, id), NEW other \in Ids
  PROVE  /\ Cardinality(ApproveRecords(lines, other)) \in Nat
         /\ Cardinality(ApproveRecords(longer, other)) =
              Cardinality(ApproveRecords(lines, other))
                + (IF other = id /\ event = "approve" THEN 1 ELSE 0)
<1> DEFINE rec == Record(event, id)
           n == Len(lines)
           A == ApproveRecords(lines, other)
           B == ApproveRecords(longer, other)
<1>1. rec \in [event : Events \cup {"junk"}, id : Ids \cup {NoId}]
  BY DEF Record
<1>e. rec = Record("approve", other) <=> (other = id /\ event = "approve")
  BY DEF Record
<1>2. longer = Append(lines, rec)
  BY DEF Grown
<1> HIDE DEF rec
<1>3. /\ n \in Nat /\ DOMAIN lines = 1..n /\ DOMAIN longer = 1..(n+1)
      /\ longer[n+1] = rec /\ \A i \in 1..n : longer[i] = lines[i]
  BY <1>2, <1>1 DEF Lines
<1>4. A \subseteq 1..n /\ n+1 \notin A
  BY <1>3 DEF ApproveRecords
<1>5. IsFiniteSet(1..n)
  BY <1>3, FS_Interval
<1>6. IsFiniteSet(A) /\ Cardinality(A) \in Nat
  BY <1>4, <1>5, FS_Subset, FS_CardinalityType
<1>7. CASE other = id /\ event = "approve"
  <2>1. B = A \cup {n+1}
    BY <1>3, <1>e, <1>7 DEF ApproveRecords
  <2>2. Cardinality(B) = Cardinality(A) + 1
    BY <2>1, <1>4, <1>6, FS_AddElement
  <2> QED BY <1>6, <1>7, <2>2
<1>8. CASE ~(other = id /\ event = "approve")
  <2>1. B = A
    BY <1>3, <1>e, <1>8 DEF ApproveRecords
  <2> QED BY <1>6, <1>8, <2>1
<1> QED
  BY <1>7, <1>8

---------------------------------------------------------------------------
\* The inductive invariant

\* An id the log mentions was enqueued, and its last record is an event.
EnqueuedOK ==
  \A id \in Ids :
    /\ Latest(Replayed, id) \in Events \cup {"none"}
    /\ Enqueued(Replayed, id) <=> Latest(Replayed, id) # "none"

\* While the daemon runs, the status of every entry is the reading of its last
\* record; a pending entry may have been approved before a restart.
EntriesOK ==
  mode # "down" =>
    \A id \in Ids :
      LET last == Latest(Replayed, id)
      IN /\ items[id] = "none" => history[id] = OutcomeStatus(last)
                                  /\ last \notin {"enqueue", "approve"}
         /\ items[id] = "pending" => last \in {"enqueue", "approve"}
         /\ items[id] = "approved" => last = "approve"
         /\ items[id] \in Terminal => OutcomeStatus(last) = items[id]

\* A handler past Approve holds an approved entry, and holds it alone.
HoldersOK ==
  \A c \in Conns : conn[c].pc \in {"execute", "record"} =>
    /\ items[conn[c].id] = "approved"
    /\ \A d \in Conns : conn[d].pc \in {"execute", "record"} /\ conn[d].id = conn[c].id => d = c

\* A tool ran at most once per approve record; the approval of a handler about
\* to execute is still unused, and a handler that reports a result has run.
RunsOK ==
  /\ \A id \in Ids : runs[id] <= Approvals(id) /\ Approvals(id) \in Nat
  /\ \A c \in Conns : conn[c].pc = "execute" => runs[conn[c].id] < Approvals(conn[c].id)
  /\ \A c \in Conns : conn[c].pc = "record" /\ conn[c].event = "execute" => runs[conn[c].id] > 0

LifeInv ==
  /\ SafeInv
  /\ LastOK(Replayed)
  /\ EnqueuedOK
  /\ EntriesOK
  /\ HoldersOK
  /\ RunsOK
  /\ bypassed = {}

\* The log is read as a sequence of records in every safe state.
LEMMA ReplayedLines == SafeInv => Replayed \in Lines
  BY ReplayedType DEF SafeInv, TypeInv, Lines

---------------------------------------------------------------------------
\* What a step may do, read from the log

\* A record the gate may add: what the last record about id permits.
Allowed(event, id) ==
  LET last == Latest(Replayed, id)
  IN /\ event = "enqueue" => last = "none"
     /\ event \in {"approve", "deny"} => last \in {"enqueue", "approve"}
     /\ event \in {"execute", "fail"} => last = "approve"
     /\ event = "execute" => runs[id] > 0

Quiet == Replayed' = Replayed /\ runs' = runs

Ran(id) ==
  /\ Replayed' = Replayed
  /\ Latest(Replayed, id) = "approve"
  /\ runs[id] < Approvals(id)
  /\ runs' = [runs EXCEPT ![id] = @ + 1]

Recorded(event, id) ==
  /\ Replayed' = Append(Replayed, Record(event, id))
  /\ Allowed(event, id)
  /\ runs' = runs

\* What the log says of each id after a step that changes neither log nor runs.
LEMMA QuietReads ==
  ASSUME LifeInv, Replayed' = Replayed
  PROVE  /\ LastOK(Replayed)'
         /\ EnqueuedOK'
         /\ \A id \in Ids : Latest(Replayed, id)' = Latest(Replayed, id)
         /\ \A id \in Ids : Approvals(id)' = Approvals(id)
  BY DEF LifeInv, LastOK, EnqueuedOK, Approvals

\* What the log says of each id after a step that adds a record.
LEMMA RecordedReads ==
  ASSUME LifeInv, NEW event \in Events, NEW id \in Ids, Recorded(event, id)
  PROVE  /\ LastOK(Replayed)'
         /\ EnqueuedOK'
         /\ Latest(Replayed, id)' = event
         /\ \A other \in Ids \ {id} : Latest(Replayed, other)' = Latest(Replayed, other)
         /\ \A other \in Ids :
              /\ Approvals(other) \in Nat
              /\ Approvals(other)' = Approvals(other)
                   + (IF other = id /\ event = "approve" THEN 1 ELSE 0)
<1>1. Replayed \in Lines /\ LastOK(Replayed) /\ EnqueuedOK
  BY ReplayedLines DEF LifeInv
<1> DEFINE longer == Append(Replayed, Record(event, id))
<1>2. Replayed' = longer
  BY DEF Recorded
<1>3. /\ LastOK(longer)
      /\ Latest(longer, id) = event
      /\ \A other \in Ids \ {id} : Latest(longer, other) = Latest(Replayed, other)
      /\ \A other \in Ids : Enqueued(longer, other) <=>
           (Enqueued(Replayed, other) \/ (other = id /\ event = "enqueue"))
  <2>1. Grown(longer, Replayed, event, id)
    BY DEF Grown
  <2> HIDE DEF longer
  <2> QED BY <1>1, <2>1, LatestOfAppend
<1>4. ASSUME NEW other \in Ids
      PROVE  /\ Approvals(other) \in Nat
             /\ Cardinality(ApproveRecords(longer, other)) = Approvals(other)
                   + (IF other = id /\ event = "approve" THEN 1 ELSE 0)
  <2>1. Grown(longer, Replayed, event, id)
    BY DEF Grown
  <2> HIDE DEF longer
  <2> QED BY <1>1, <2>1, ApprovalsOfAppend DEF Approvals
<1> HIDE DEF longer
<1>5. EnqueuedOK'
  <2>1. event # "none"
    BY DEF Events
  <2>2. event # "enqueue" => Enqueued(Replayed, id)
    BY <1>1 DEF Recorded, Allowed, EnqueuedOK, Events
  <2> QED BY <1>1, <1>2, <1>3, <2>1, <2>2 DEF EnqueuedOK
<1>6. LastOK(Replayed)' /\ Latest(Replayed, id)' = event
      /\ \A other \in Ids \ {id} : Latest(Replayed, other)' = Latest(Replayed, other)
  BY <1>2, <1>3
<1>7. \A other \in Ids : Approvals(other)' = Cardinality(ApproveRecords(longer, other))
  BY <1>2 DEF Approvals
<1> QED
  BY <1>4, <1>5, <1>6, <1>7

\* Without I/O errors a running daemon's Append adds its record to the log, or
\* leaves what a replay reads as it is.
LEMMA Appended ==
  ASSUME Faults = {}, SafeInv, mode # "down",
         NEW event \in Events, NEW id \in Ids, NEW body \in Nat,
         NEW ok \in BOOLEAN, AuditAppend(event, id, body, ok)
  PROVE  /\ ok => Replayed' = Append(Replayed, Record(event, id))
         /\ ~ok => Replayed' = Replayed
<1>1. /\ tail' = NoTail
      /\ ok => log' = Append(log, Record(event, id))
      /\ ~ok => log' = log
  BY AppendSafe
<1>2. tail = NoTail
  BY DEF SafeInv, FileOK
<1>3. NoTail.kind # "whole"
  BY DEF NoTail
<1> QED
  BY <1>1, <1>2, <1>3 DEF Replayed

\* A request that is not past Approve ends: the handlers past it are untouched.
Released(c) ==
  /\ conn'[c].pc \notin {"execute", "record"}
  /\ \A d \in Conns \ {c} : conn'[d] = conn[d]

\* A connection that returns to idle, or to a new request, runs nothing.
LEMMA ReleasedBy ==
  ASSUME ConnOK, NEW c \in Conns,
         conn' \in {[conn EXCEPT ![c] = Idle], [conn EXCEPT ![c] = Request]}
  PROVE  Released(c)
<1>1. Idle.pc = "idle" /\ Request.pc = "request"
  BY DEF Idle, Request
<1> QED
  BY <1>1 DEF Released, ConnOK

\* No run, no new handler past Approve and no approval lost: the runs stay paid.
LEMMA RunsStay ==
  ASSUME LifeInv, NEW c \in Conns, Released(c), runs' = runs,
         \A id \in Ids : Approvals(id)' \in Nat /\ Approvals(id)' >= Approvals(id)
  PROVE  RunsOK'
<1>1. /\ \A id \in Ids : runs[id] \in Nat /\ Approvals(id) \in Nat
      /\ \A d \in Conns : conn[d].pc \in {"execute", "record"} => conn[d].id \in Ids
      /\ RunsOK
  BY DEF LifeInv, SafeInv, TypeInv, GhostOK, HandlerOK, RunsOK
<1>2. \A d \in Conns : conn'[d].pc \in {"execute", "record"} => conn'[d] = conn[d]
  BY DEF Released
<1> QED
  BY <1>1, <1>2 DEF RunsOK

\* Handlers past Approve keep their entries when nothing approved changes.
LEMMA HoldersStay ==
  ASSUME LifeInv, NEW c \in Conns, Released(c),
         \A d \in Conns \ {c} : conn[d].pc \in {"execute", "record"} =>
            items'[conn[d].id] = items[conn[d].id]
  PROVE  HoldersOK'
<1>1. HoldersOK
  BY DEF LifeInv
<1>2. \A d \in Conns : conn'[d].pc \in {"execute", "record"} => d # c /\ conn'[d] = conn[d]
  BY DEF Released
<1> QED
  BY <1>1, <1>2 DEF HoldersOK

\* A step of a running daemon that changes neither entries nor log.
LEMMA EntriesStay ==
  ASSUME LifeInv, mode # "down", Replayed' = Replayed, UNCHANGED <<items, history>>
  PROVE  EntriesOK'
<1>1. \A id \in Ids : Latest(Replayed, id)' = Latest(Replayed, id)
  BY QuietReads
<1> QED
  BY <1>1 DEF LifeInv, EntriesOK

\* The status an entry takes with each record.
StatusAfter(event) ==
  CASE event = "enqueue" -> "pending"
    [] event = "approve" -> "approved"
    [] OTHER             -> OutcomeStatus(event)

\* A record and the status that goes with it keep entries and log in step.
LEMMA EntriesMove ==
  ASSUME LifeInv, mode # "down", NEW event \in Events, NEW id \in Ids, Recorded(event, id),
         items' = [items EXCEPT ![id] = StatusAfter(event)], UNCHANGED history
  PROVE  EntriesOK'
<1>1. /\ Latest(Replayed, id)' = event
      /\ \A other \in Ids \ {id} : Latest(Replayed, other)' = Latest(Replayed, other)
  BY RecordedReads
<1>2. /\ items'[id] = StatusAfter(event)
      /\ \A other \in Ids \ {id} : items'[other] = items[other]
  BY DEF LifeInv, SafeInv, TypeInv, QueueOK
<1>3. ASSUME NEW other \in Ids \ {id}
      PROVE  LET last == Latest(Replayed, other)'
             IN /\ items'[other] = "none" => history'[other] = OutcomeStatus(last)
                                             /\ last \notin {"enqueue", "approve"}
                /\ items'[other] = "pending" => last \in {"enqueue", "approve"}
                /\ items'[other] = "approved" => last = "approve"
                /\ items'[other] \in Terminal => OutcomeStatus(last) = items'[other]
  BY <1>1, <1>2, <1>3 DEF LifeInv, EntriesOK
<1>4. /\ StatusAfter(event) # "none"
      /\ StatusAfter(event) = "pending" => event = "enqueue"
      /\ StatusAfter(event) = "approved" => event = "approve"
      /\ StatusAfter(event) \in Terminal => OutcomeStatus(event) = StatusAfter(event)
  BY DEF StatusAfter, OutcomeStatus, Events, Terminal
<1> QED
  BY <1>1, <1>2, <1>3, <1>4 DEF EntriesOK

\* The part of the invariant that a handler's step which appends a record of a
\* call that is not running keeps: an enqueue or a denial.
LEMMA AppendLife ==
  ASSUME Faults = {}, LifeInv, mode # "down", NEW c \in Conns, Released(c),
         NEW event \in Events, NEW id \in Ids, NEW body \in Nat, NEW ok \in BOOLEAN,
         AuditAppend(event, id, body, ok), Allowed(event, id), event # "approve",
         items' = IF ok THEN [items EXCEPT ![id] = StatusAfter(event)] ELSE items,
         \A d \in Conns \ {c} : conn[d].pc \in {"execute", "record"} => conn[d].id # id,
         UNCHANGED <<history, runs, bypassed>>, SafeInv'
  PROVE  LifeInv' /\ (Quiet \/ Recorded(event, id))
<1>1. /\ ok => Replayed' = Append(Replayed, Record(event, id))
      /\ ~ok => Replayed' = Replayed
  BY Appended DEF LifeInv
<1>2. HoldersOK'
  <2>1. \A d \in Conns \ {c} : conn[d].pc \in {"execute", "record"} =>
            items'[conn[d].id] = items[conn[d].id]
    BY DEF LifeInv, SafeInv, TypeInv, QueueOK, HandlerOK
  <2> QED BY <2>1, HoldersStay
<1>3. CASE ok
  <2>1. Recorded(event, id)
    BY <1>1, <1>3 DEF Recorded
  <2>2. LastOK(Replayed)' /\ EnqueuedOK' /\ \A other \in Ids : Approvals(other) \in Nat /\ Approvals(other)' = Approvals(other)
    BY <2>1, RecordedReads
  <2>3. EntriesOK'
    BY <1>3, <2>1, EntriesMove
  <2>4. RunsOK'
    BY <2>2, RunsStay
  <2> QED BY <1>2, <2>1, <2>2, <2>3, <2>4 DEF LifeInv
<1>4. CASE ~ok
  <2>1. Quiet /\ Replayed' = Replayed
    BY <1>1, <1>4 DEF Quiet
  <2>2. LastOK(Replayed)' /\ EnqueuedOK' /\ \A other \in Ids : Approvals(other)' = Approvals(other)
    BY <2>1, QuietReads
  <2>3. EntriesOK'
    BY <1>4, <2>1, EntriesStay
  <2>4. RunsOK'
    <3>1. \A other \in Ids : Approvals(other) \in Nat
      BY DEF LifeInv, RunsOK
    <3> QED BY <2>2, <3>1, RunsStay
  <2> QED BY <1>2, <2>1, <2>2, <2>3, <2>4 DEF LifeInv
<1> QED
  BY <1>3, <1>4

\* A handler's step that touches neither entries nor log.
LEMMA IdleLife ==
  ASSUME LifeInv, mode # "down", NEW c \in Conns, Released(c),
         UNCHANGED <<log, tail, items, history, runs, bypassed>>, SafeInv'
  PROVE  LifeInv' /\ Quiet
<1>1. Replayed' = Replayed /\ Quiet
  BY DEF Replayed, Quiet
<1>2. LastOK(Replayed)' /\ EnqueuedOK' /\ \A other \in Ids : Approvals(other)' = Approvals(other)
  BY <1>1, QuietReads
<1>3. EntriesOK'
  BY <1>1, EntriesStay
<1>4. RunsOK'
  <2>1. \A other \in Ids : Approvals(other) \in Nat
    BY DEF LifeInv, RunsOK
  <2> QED BY <1>2, <2>1, RunsStay
<1>5. HoldersOK'
  BY HoldersStay
<1> QED
  BY <1>1, <1>2, <1>3, <1>4, <1>5 DEF LifeInv

\* A fresh id is one the log has no record of; a pending entry's last record is
\* its enqueueing or an approval from before a restart; an approved entry's is
\* its approval.
LEMMA EntryReads ==
  ASSUME LifeInv, mode # "down", NEW id \in Ids
  PROVE  /\ Fresh(id) => Latest(Replayed, id) = "none"
         /\ items[id] = "pending" => Latest(Replayed, id) \in {"enqueue", "approve"}
         /\ items[id] = "approved" => Latest(Replayed, id) = "approve"
<1>1. Latest(Replayed, id) \in Events \cup {"none"} /\ EntriesOK
  BY DEF LifeInv, EnqueuedOK
<1>2. ASSUME Fresh(id) PROVE Latest(Replayed, id) = "none"
  <2>1. OutcomeStatus(Latest(Replayed, id)) = "none"
        /\ Latest(Replayed, id) \notin {"enqueue", "approve"}
    BY <1>1, <1>2 DEF EntriesOK, Fresh
  <2> QED BY <1>1, <2>1 DEF OutcomeStatus, Events
<1> QED
  BY <1>1, <1>2 DEF EntriesOK

\* The end of the process, after a last write or none, keeps the log readable
\* and every run paid.
LEMMA DieLife ==
  ASSUME LifeInv, Die, LastOK(Replayed)', EnqueuedOK', SafeInv', UNCHANGED <<runs, bypassed>>,
         \A id \in Ids : Approvals(id)' \in Nat /\ Approvals(id)' >= Approvals(id)
  PROVE  LifeInv'
<1>1. EntriesOK'
  BY DEF Die, EntriesOK
<1>2. \A c \in Conns : conn'[c].pc = "idle"
  BY DEF Die, Idle
<1>3. HoldersOK'
  BY <1>2 DEF HoldersOK
<1>4. RunsOK'
  <2>1. \A id \in Ids : runs[id] \in Nat /\ Approvals(id) \in Nat /\ runs[id] <= Approvals(id)
    BY DEF LifeInv, SafeInv, TypeInv, GhostOK, RunsOK
  <2> QED BY <1>2, <2>1 DEF RunsOK
<1> QED
  BY <1>1, <1>3, <1>4 DEF LifeInv

\* A step that only advances the state of the process.
LEMMA QuietCounts ==
  ASSUME LifeInv, Replayed' = Replayed
  PROVE  \A id \in Ids : /\ Approvals(id)' = Approvals(id)
                         /\ Approvals(id)' \in Nat /\ Approvals(id)' >= Approvals(id)
<1>1. \A id \in Ids : Approvals(id)' = Approvals(id) /\ Approvals(id) \in Nat
  BY QuietReads DEF LifeInv, RunsOK
<1> QED
  BY <1>1

\* Queue.Approve and the start of the handler's execution.
LEMMA ApproveLife ==
  ASSUME Faults = {}, LifeInv, SafeInv', NEW c \in Conns, ApprovalApprove(c)
  PROVE  LifeInv' /\ (Quiet \/ \E id \in Ids : Recorded("approve", id))
<1>1. conn[c].pc = "request" /\ UNCHANGED <<mode, history, runs, bypassed>> /\ mode # "down"
  BY DEF ApprovalApprove, ghost, LifeInv, SafeInv, DownOK, Idle
<1>2. PICK id \in Ids : items[id] = "pending" /\ Approve(c, id)
  BY DEF ApprovalApprove
<1>3. PICK ok \in BOOLEAN :
        /\ AuditAppend("approve", id, Overhead, ok)
        /\ items' = IF ok THEN [items EXCEPT ![id] = "approved"] ELSE items
        /\ conn' = [conn EXCEPT ![c] = IF ok THEN [Idle EXCEPT !.pc = "execute", !.id = id]
                                              ELSE Idle]
  BY <1>2 DEF Approve
<1>4. "approve" \in Events /\ Overhead \in Nat /\ ConnOK /\ QueueOK
  BY SizeAssumption DEF Events, LifeInv, SafeInv, TypeInv
<1>5. /\ ok => Replayed' = Append(Replayed, Record("approve", id))
      /\ ~ok => Replayed' = Replayed
  BY <1>1, <1>3, <1>4, Appended DEF LifeInv
<1>6. CASE ~ok
  <2>1. Replayed' = Replayed /\ UNCHANGED items /\ conn' = [conn EXCEPT ![c] = Idle]
    BY <1>3, <1>5, <1>6
  <2>2. Released(c)
    BY <1>4, <2>1, ReleasedBy
  <2>3. LastOK(Replayed)' /\ EnqueuedOK' /\ EntriesOK' /\ Quiet
    BY <1>1, <2>1, QuietReads, EntriesStay DEF Quiet
  <2>4. HoldersOK' /\ RunsOK'
    BY <1>1, <2>1, <2>2, QuietCounts, RunsStay, HoldersStay
  <2> QED BY <1>1, <2>3, <2>4 DEF LifeInv
<1>7. CASE ok
  <2>1. Recorded("approve", id)
    BY <1>1, <1>2, <1>5, <1>7, EntryReads DEF Recorded, Allowed
  <2>2. /\ LastOK(Replayed)' /\ EnqueuedOK'
        /\ \A other \in Ids : /\ Approvals(other) \in Nat
                              /\ Approvals(other)' = Approvals(other) + (IF other = id THEN 1 ELSE 0)
    BY <1>4, <2>1, RecordedReads
  <2>3. StatusAfter("approve") = "approved"
    BY DEF StatusAfter
  <2>4. EntriesOK'
    BY <1>1, <1>3, <1>4, <1>7, <2>1, <2>3, EntriesMove
  <2>5. /\ conn'[c].pc = "execute" /\ conn'[c].id = id
        /\ \A d \in Conns \ {c} : conn'[d] = conn[d]
        /\ items'[id] = "approved" /\ \A other \in Ids \ {id} : items'[other] = items[other]
    BY <1>3, <1>4, <1>7 DEF ConnOK, QueueOK, Idle
  <2>6. \A d \in Conns : conn[d].pc \in {"execute", "record"} =>
           conn[d].id \in Ids \ {id} /\ d # c
    BY <1>1, <1>2 DEF LifeInv, HoldersOK, SafeInv, TypeInv, HandlerOK
  <2>7. HoldersOK'
    <3>1. HoldersOK
      BY DEF LifeInv
    <3> QED BY <2>5, <2>6, <3>1 DEF HoldersOK
  <2>8. RunsOK'
    <3>1. RunsOK /\ \A other \in Ids : runs[other] \in Nat
      BY DEF LifeInv, SafeInv, TypeInv, GhostOK
    <3>2. \A other \in Ids : Approvals(other)' \in Nat /\ Approvals(other)' >= Approvals(other)
      BY <2>2
    <3>3. runs[id] < Approvals(id)'
      BY <2>2, <3>1 DEF RunsOK
    <3>4. \A other \in Ids : runs'[other] <= Approvals(other)' /\ Approvals(other)' \in Nat
      BY <1>1, <2>2, <3>1, <3>2 DEF RunsOK
    <3>5. ASSUME NEW d \in Conns, conn'[d].pc = "execute"
          PROVE  (runs[conn[d].id] < Approvals(conn[d].id))'
      <4>1. CASE d = c
        BY <1>1, <2>5, <3>3, <4>1
      <4>2. CASE d # c
        BY <1>1, <2>2, <2>5, <2>6, <3>1, <3>5, <4>2 DEF RunsOK
      <4> QED BY <4>1, <4>2
    <3>6. ASSUME NEW d \in Conns, conn'[d].pc = "record", conn'[d].event = "execute"
          PROVE  runs'[conn'[d].id] > 0
      BY <1>1, <2>5, <3>1, <3>6 DEF RunsOK
    <3> QED BY <3>4, <3>5, <3>6 DEF RunsOK
  <2> QED BY <1>1, <2>1, <2>2, <2>4, <2>7, <2>8 DEF LifeInv
<1> QED
  BY <1>6, <1>7

\* approvalApprove's tools.Execute.
LEMMA ExecuteLife ==
  ASSUME LifeInv, SafeInv', NEW c \in Conns, Execute(c)
  PROVE  LifeInv' /\ (Quiet \/ \E id \in Ids : Ran(id))
<1> DEFINE id == conn[c].id
<1>1. /\ conn[c].pc = "execute" /\ id \in Ids /\ mode # "down"
      /\ UNCHANGED <<log, tail, mode, items, history, bypassed>>
  BY DEF Execute, disk, queue, LifeInv, SafeInv, TypeInv, HandlerOK, DownOK, Idle
<1>2. /\ \A d \in Conns \ {c} : conn'[d] = conn[d]
      /\ conn'[c].pc = "record" /\ conn'[c].id = id
      /\ runs' \in {runs, [runs EXCEPT ![id] = @ + 1]}
      /\ conn'[c].event = "execute" => runs' = [runs EXCEPT ![id] = @ + 1]
  <2>1. ConnOK
    BY DEF LifeInv, SafeInv, TypeInv
  <2>2. ASSUME NEW size \in ResultSizes,
               conn' = [conn EXCEPT ![c].pc = "record", ![c].event = "execute", ![c].size = size]
        PROVE  /\ \A d \in Conns \ {c} : conn'[d] = conn[d]
               /\ conn'[c].pc = "record" /\ conn'[c].id = id
    BY <2>1, <2>2 DEF ConnOK
  <2>3. ASSUME conn' = [conn EXCEPT ![c].pc = "record", ![c].event = "fail"]
        PROVE  /\ \A d \in Conns \ {c} : conn'[d] = conn[d]
               /\ conn'[c].pc = "record" /\ conn'[c].id = id /\ conn'[c].event = "fail"
    BY <2>1, <2>3 DEF ConnOK
  <2> QED BY <2>2, <2>3 DEF Execute
<1> HIDE DEF id
<1>3. /\ HoldersOK /\ RunsOK /\ runs \in [Ids -> Nat]
      /\ \A d \in Conns : conn[d].pc \in {"execute", "record"} => conn[d].id \in Ids
      /\ items[id] = "approved" /\ runs[id] < Approvals(id)
      /\ conn[c].id = id
  BY <1>1 DEF LifeInv, SafeInv, TypeInv, GhostOK, HandlerOK, HoldersOK, RunsOK, id
<1>4. Replayed' = Replayed
  BY <1>1 DEF Replayed
<1>5. /\ LastOK(Replayed)' /\ EnqueuedOK' /\ EntriesOK'
      /\ \A other \in Ids : Approvals(other)' = Approvals(other) /\ Approvals(other) \in Nat
  BY <1>1, <1>4, QuietReads, QuietCounts, EntriesStay
<1>6. HoldersOK'
  BY <1>1, <1>2, <1>3 DEF HoldersOK
<1>7. /\ \A other \in Ids : runs'[other] \in Nat /\ runs'[other] >= runs[other]
      /\ \A other \in Ids \ {id} : runs'[other] = runs[other]
      /\ runs'[id] <= Approvals(id)
      /\ conn'[c].event = "execute" => runs'[id] > 0
  BY <1>1, <1>2, <1>3, <1>5
<1>8. RunsOK'
  <2>1. \A other \in Ids : runs'[other] <= Approvals(other)' /\ Approvals(other)' \in Nat
    BY <1>3, <1>5, <1>7 DEF RunsOK
  <2>2. ASSUME NEW d \in Conns, conn'[d].pc = "execute"
        PROVE  (runs[conn[d].id] < Approvals(conn[d].id))'
    <3>1. d # c /\ conn'[d] = conn[d] /\ conn[d].pc = "execute"
      BY <1>2, <2>2
    <3>2. conn[d].id \in Ids \ {id}
      BY <1>1, <1>3, <3>1 DEF HoldersOK
    <3> QED BY <1>3, <1>5, <1>7, <3>1, <3>2 DEF RunsOK
  <2>3. ASSUME NEW d \in Conns, conn'[d].pc = "record", conn'[d].event = "execute"
        PROVE  runs'[conn'[d].id] > 0
    <3>1. CASE d = c
      BY <1>2, <1>7, <2>3, <3>1
    <3>2. CASE d # c
      <4>1. conn'[d] = conn[d] /\ conn[d].id \in Ids /\ runs[conn[d].id] > 0
        BY <1>2, <1>3, <2>3, <3>2 DEF RunsOK
      <4> QED BY <1>3, <1>7, <4>1
    <3> QED BY <3>1, <3>2
  <2> QED BY <2>1, <2>2, <2>3 DEF RunsOK
<1>9. LifeInv'
  BY <1>1, <1>5, <1>6, <1>8 DEF LifeInv
<1>10. Quiet \/ Ran(id)
  BY <1>1, <1>2, <1>3, <1>4, EntryReads DEF Quiet, Ran
<1> QED
  BY <1>1, <1>9, <1>10

\* The process dies inside Append: the record is in the log, or a torn line the
\* replay drops.
LEMMA CrashInAppendLife ==
  ASSUME LifeInv, SafeInv', CrashInAppend
  PROVE  LifeInv' /\ (Quiet \/ \E event \in Events, id \in Ids : Recorded(event, id))
<1>1. mode # "down" /\ Die /\ UNCHANGED <<runs, bypassed>> /\ tail = NoTail
  BY DEF CrashInAppend, ghost, LifeInv, SafeInv, FileOK
<1>2. PICK event \in Events, id \in Ids,
           body \in {Overhead + s : s \in {0} \cup ParamSizes \cup ResultSizes} :
        /\ Appending(event, id, body)
        /\ \/ WriteLine(event, id, body)
           \/ \E n \in 1..body : WritePart(event, id, body, n)
  BY DEF CrashInAppend
<1>3. NoTail.kind = "none" /\ Replayed = log
  BY <1>1 DEF NoTail, Replayed
<1>4. Replayed' = Append(Replayed, Record(event, id)) \/ Replayed' = Replayed
  <2>1. CASE WriteLine(event, id, body)
    BY <1>1, <1>3, <2>1 DEF WriteLine, Replayed
  <2>2. ASSUME NEW n \in 1..body, WritePart(event, id, body, n)
        PROVE  Replayed' = Append(Replayed, Record(event, id)) \/ Replayed' = Replayed
    BY <1>1, <1>3, <2>2 DEF WritePart, Replayed
  <2> QED BY <1>2, <2>1, <2>2
<1>5. Allowed(event, id)
  <2>1. /\ \A c \in Conns : conn[c].pc = "record" /\ conn[c].id = id => items[id] = "approved"
        /\ \A c \in Conns : conn[c].pc = "record" => conn[c].event \in {"execute", "fail"}
        /\ \A c \in Conns : conn[c].pc = "record" /\ conn[c].event = "execute"
                              => runs[conn[c].id] > 0
    BY DEF LifeInv, SafeInv, TypeInv, HandlerOK, HoldersOK, RunsOK
  <2> QED BY <1>1, <1>2, <2>1, EntryReads DEF Appending, Allowed
<1>6. CASE Replayed' = Replayed
  <2>1. LastOK(Replayed)' /\ EnqueuedOK'
    BY <1>6, QuietReads
  <2> QED BY <1>1, <1>6, <2>1, QuietCounts, DieLife DEF Quiet
<1>7. CASE Replayed' = Append(Replayed, Record(event, id))
  <2>1. Recorded(event, id)
    BY <1>1, <1>5, <1>7 DEF Recorded
  <2>2. LastOK(Replayed)' /\ EnqueuedOK'
        /\ \A other \in Ids : Approvals(other)' \in Nat /\ Approvals(other)' >= Approvals(other)
    BY <2>1, RecordedReads
  <2> QED BY <1>1, <2>1, <2>2, DieLife
<1> QED
  BY <1>4, <1>6, <1>7

\* Opening and replaying the log brings back exactly what it says.
LEMMA StartLife ==
  ASSUME LifeInv, SafeInv', Start
  PROVE  LifeInv' /\ Quiet
<1>1. /\ mode = "down" /\ OpenAudit /\ Restore /\ UNCHANGED <<conn, runs, bypassed>>
  BY DEF Start, ghost
<1>2. Replayed' = Replayed
  BY <1>1 DEF OpenAudit, Replayed, NoTail
<1>3. /\ LastOK(Replayed)' /\ EnqueuedOK' /\ EnqueuedOK
      /\ \A id \in Ids : Latest(Replayed, id)' = Latest(Replayed, id)
  BY <1>2, QuietReads DEF LifeInv
<1>4. EntriesOK'
  <2>1. \A id \in Ids : /\ items'[id] = RestoredItem(Replayed, id)
                        /\ history'[id] = RestoredHistory(Replayed, id)
    BY <1>1 DEF Restore
  <2> SUFFICES ASSUME NEW id \in Ids
               PROVE  LET last == Latest(Replayed, id)
                      IN /\ items'[id] = "none" => history'[id] = OutcomeStatus(last)
                                                   /\ last \notin {"enqueue", "approve"}
                         /\ items'[id] = "pending" => last \in {"enqueue", "approve"}
                         /\ items'[id] = "approved" => last = "approve"
                         /\ items'[id] \in Terminal => OutcomeStatus(last) = items'[id]
    BY <1>3 DEF EntriesOK
  <2>2. OutcomeStatus("none") = "none"
    BY DEF OutcomeStatus
  <2> QED BY <1>3, <2>1, <2>2 DEF RestoredItem, RestoredHistory, EnqueuedOK, Terminal
<1>5. \A c \in Conns : conn'[c].pc = "idle"
  BY <1>1 DEF LifeInv, SafeInv, DownOK, Idle
<1>6. HoldersOK'
  BY <1>5 DEF HoldersOK
<1>7. RunsOK'
  <2>1. \A id \in Ids : runs[id] <= Approvals(id)
    BY DEF LifeInv, RunsOK
  <2> QED BY <1>1, <1>2, <1>5, <2>1, QuietCounts DEF RunsOK
<1> QED
  BY <1>1, <1>2, <1>3, <1>4, <1>6, <1>7 DEF LifeInv, Quiet

\* Every step keeps the invariant, and is quiet, a paid run of one call, or one
\* record the gate allows.
LEMMA LifeStep ==
  ASSUME Faults = {}, LifeInv, [Next]_vars
  PROVE  /\ LifeInv'
         /\ \/ Quiet
            \/ \E id \in Ids : Ran(id)
            \/ \E event \in Events, id \in Ids : Recorded(event, id)
<1>s. SafeInv'
  BY SafeStep DEF LifeInv
<1>u. /\ ConnOK /\ QueueOK /\ HandlerOK /\ HoldersOK
      /\ \A c \in Conns : conn[c].pc # "idle" => mode # "down"
  BY DEF LifeInv, SafeInv, TypeInv, DownOK, Idle
<1>e. /\ "enqueue" \in Events /\ "deny" \in Events /\ "approve" \in Events
      /\ "execute" \in Events /\ "fail" \in Events
      /\ StatusAfter("enqueue") = "pending" /\ StatusAfter("deny") = "denied"
      /\ \A event \in {"execute", "fail"} : StatusAfter(event) = OutcomeStatus(event)
      /\ Overhead \in Nat /\ \A size \in ParamSizes : Overhead + size \in Nat
  BY SizeAssumption DEF Events, StatusAfter, OutcomeStatus
<1>1. ASSUME NEW c \in Conns, Receive(c) PROVE LifeInv' /\ Quiet
  <2>1. /\ mode # "down" /\ Released(c)
        /\ UNCHANGED <<log, tail, items, history, runs, bypassed>>
    BY <1>1, <1>u, ReleasedBy DEF Receive, disk, queue, ghost
  <2> QED BY <1>s, <2>1, IdleLife
<1>2. ASSUME NEW c \in Conns, ToolsCallDirect(c) PROVE LifeInv' /\ Quiet
  <2>1. /\ mode # "down" /\ Released(c)
        /\ UNCHANGED <<log, tail, items, history, runs>>
    BY <1>2, <1>u, ReleasedBy DEF ToolsCallDirect, disk, queue
  <2>2. UNCHANGED bypassed
    BY <1>2 DEF ToolsCallDirect, Decide, Callers, Tools
  <2> QED BY <1>s, <2>1, <2>2, IdleLife
<1>3. ASSUME NEW c \in Conns, ToolsCallConfirm(c)
      PROVE  LifeInv' /\ (Quiet \/ \E id \in Ids : Recorded("enqueue", id))
  <2>1. mode # "down" /\ Released(c) /\ UNCHANGED <<history, runs, bypassed>>
    BY <1>3, <1>u, ReleasedBy DEF ToolsCallConfirm, ghost
  <2>2. PICK id \in Ids, paramSize \in ParamSizes : Fresh(id) /\ Enqueue(id, paramSize)
    BY <1>3 DEF ToolsCallConfirm
  <2>3. PICK ok \in BOOLEAN :
          /\ AuditAppend("enqueue", id, Overhead + paramSize, ok)
          /\ items' = IF ok THEN [items EXCEPT ![id] = "pending"] ELSE items
    BY <2>2 DEF Enqueue
  <2>4. Allowed("enqueue", id)
    BY <2>1, <2>2, EntryReads DEF Allowed
  <2>5. \A d \in Conns : conn[d].pc \in {"execute", "record"} => conn[d].id # id
    BY <1>u, <2>2 DEF HoldersOK, Fresh
  <2> QED BY <1>e, <1>s, <2>1, <2>3, <2>4, <2>5, AppendLife
<1>4. ASSUME NEW c \in Conns, ApprovalDeny(c)
      PROVE  LifeInv' /\ (Quiet \/ \E id \in Ids : Recorded("deny", id))
  <2>1. mode # "down" /\ Released(c) /\ UNCHANGED <<history, runs, bypassed>>
    BY <1>4, <1>u, ReleasedBy DEF ApprovalDeny, ghost
  <2>2. PICK id \in Ids : items[id] = "pending" /\ Deny(id)
    BY <1>4 DEF ApprovalDeny
  <2>3. PICK ok \in BOOLEAN :
          /\ AuditAppend("deny", id, Overhead, ok)
          /\ items' = IF ok THEN [items EXCEPT ![id] = "denied"] ELSE items
    BY <2>2 DEF Deny
  <2>4. Allowed("deny", id)
    BY <2>1, <2>2, EntryReads DEF Allowed
  <2>5. \A d \in Conns : conn[d].pc \in {"execute", "record"} => conn[d].id # id
    BY <1>u, <2>2 DEF HoldersOK
  <2> QED BY <1>e, <1>s, <2>1, <2>3, <2>4, <2>5, AppendLife
<1>5. ASSUME NEW c \in Conns, RejectTransition(c) PROVE LifeInv' /\ Quiet
  <2>1. /\ mode # "down" /\ Released(c)
        /\ UNCHANGED <<log, tail, items, history, runs, bypassed>>
    BY <1>5, <1>u, ReleasedBy DEF RejectTransition, disk, queue, ghost
  <2> QED BY <1>s, <2>1, IdleLife
<1>6. ASSUME NEW c \in Conns, RecordResult(c)
      PROVE  LifeInv' /\ (Quiet \/ \E event \in Events, id \in Ids : Recorded(event, id))
  <2> DEFINE id == conn[c].id
             event == conn[c].event
  <2>1. /\ mode # "down" /\ Released(c) /\ UNCHANGED <<history, runs, bypassed>>
        /\ conn[c].pc = "record"
    BY <1>6, <1>u, ReleasedBy DEF RecordResult, ghost
  <2>2. /\ id \in Ids /\ event \in {"execute", "fail"} /\ TerminalBody(c) \in Nat
        /\ items[id] = "approved"
    BY <1>e, <1>u, <2>1 DEF HandlerOK, HoldersOK, TerminalBody, ConnOK
  <2>3. CASE UNCHANGED <<disk, audit, items>>
    BY <1>s, <2>1, <2>3, IdleLife DEF disk
  <2>4. ASSUME NEW ok \in BOOLEAN,
               AuditAppend(event, id, TerminalBody(c), ok),
               items' = IF ok THEN [items EXCEPT ![id] = OutcomeStatus(event)] ELSE items
        PROVE  LifeInv' /\ (Quiet \/ Recorded(event, id))
    <3>1. event = "execute" => runs[id] > 0
      BY <2>1 DEF LifeInv, RunsOK
    <3>2. \A d \in Conns \ {c} : conn[d].pc \in {"execute", "record"} => conn[d].id # id
      BY <1>u, <2>1 DEF HoldersOK
    <3> HIDE DEF id, event
    <3>3. Allowed(event, id)
      BY <2>1, <2>2, <3>1, EntryReads DEF Allowed
    <3>4. event \in Events /\ event # "approve" /\ StatusAfter(event) = OutcomeStatus(event)
      BY <1>e, <2>2
    <3> QED BY <1>s, <2>1, <2>2, <2>4, <3>2, <3>3, <3>4, AppendLife
  <2>5. event \in Events
    BY <1>e, <2>2
  <2> QED BY <1>6, <2>2, <2>3, <2>4, <2>5 DEF RecordResult
<1>7. ASSUME Replayed' = Replayed, UNCHANGED <<items, history, conn, runs, bypassed>>,
             mode' # "down" => mode # "down"
      PROVE  LifeInv' /\ Quiet
  <2>1. LastOK(Replayed)' /\ EnqueuedOK'
        /\ \A id \in Ids : Latest(Replayed, id)' = Latest(Replayed, id)
    BY <1>7, QuietReads
  <2>2. \A id \in Ids : Approvals(id)' = Approvals(id) /\ Approvals(id)' \in Nat
    BY <1>7, QuietCounts
  <2>3. HoldersOK' /\ Quiet
    BY <1>7, <1>u DEF HoldersOK, Quiet
  <2>4. RunsOK'
    <3>1. RunsOK /\ \A c \in Conns : conn[c].pc = "execute" => conn[c].id \in Ids
      BY <1>u DEF LifeInv, HandlerOK
    <3> QED BY <1>7, <2>2, <3>1 DEF RunsOK
  <2>5. EntriesOK'
    BY <1>7, <2>1 DEF LifeInv, EntriesOK
  <2> QED BY <1>7, <1>s, <2>1, <2>3, <2>4, <2>5 DEF LifeInv
<1>8. CASE Shutdown \/ UNCHANGED vars
  <2>1. Replayed' = Replayed /\ UNCHANGED <<items, history, conn, runs, bypassed>>
    BY <1>8 DEF Shutdown, disk, queue, ghost, vars, Replayed
  <2>2. mode' # "down" => mode # "down"
    BY <1>8 DEF Shutdown, vars
  <2> QED BY <1>7, <2>1, <2>2
<1>9. CASE Stop \/ Crash
  <2>1. Die /\ UNCHANGED <<log, tail, runs, bypassed>>
    BY <1>9 DEF Stop, Crash, disk, ghost
  <2>2. Replayed' = Replayed
    BY <2>1 DEF Replayed
  <2>3. LastOK(Replayed)' /\ EnqueuedOK'
    BY <2>2, QuietReads
  <2> QED BY <1>s, <2>1, <2>2, <2>3, QuietCounts, DieLife DEF Quiet
<1>10. ASSUME NEW c \in Conns, Handle(c)
       PROVE  /\ LifeInv'
              /\ \/ Quiet
                 \/ \E id \in Ids : Ran(id)
                 \/ \E event \in Events, id \in Ids : Recorded(event, id)
  BY <1>2, <1>3, <1>4, <1>5, <1>6, <1>10, <1>e, <1>s, ApproveLife, ExecuteLife DEF Handle
<1>11. CASE Start
  BY <1>11, <1>s, StartLife
<1>12. CASE CrashInAppend
  BY <1>12, <1>s, CrashInAppendLife
<1> QED
  BY <1>1, <1>8, <1>9, <1>10, <1>11, <1>12 DEF Next, Work

\* An empty log mentions no id.
LEMMA LifeInitially == Init => LifeInv
<1> SUFFICES ASSUME Init PROVE LifeInv
  OBVIOUS
<1>1. SafeInv
  BY SafeInitially
<1>2. Replayed = <<>> /\ DOMAIN Replayed = {}
  BY DEF Init, Replayed, NoTail
<1>3. \A id \in Ids : Latest(Replayed, id) = "none" /\ ~Enqueued(Replayed, id)
  BY <1>2 DEF Latest, Enqueued
<1>4. LastOK(Replayed) /\ EnqueuedOK
  BY <1>2, <1>3 DEF LastOK, EnqueuedOK
<1>5. \A id \in Ids : Approvals(id) = 0
  BY <1>2, FS_EmptySet DEF Approvals, ApproveRecords
<1>6. EntriesOK /\ HoldersOK /\ RunsOK /\ bypassed = {}
  BY <1>5 DEF Init, EntriesOK, HoldersOK, RunsOK, Idle
<1> QED
  BY <1>1, <1>4, <1>6 DEF LifeInv

\* The invariant holds in every state the daemon and its log reach.
LEMMA LifeInvariant ==
  ASSUME Faults = {}
  PROVE  Spec => []LifeInv
<1>1. LifeInv /\ [Next]_vars => LifeInv'
  BY LifeStep
<1> QED
  BY <1>1, LifeInitially, PTL DEF Spec

---------------------------------------------------------------------------
\* Theorems

\* No mutating call of a non-cli caller runs without a decision of its own:
\* toolsCall lets none past the queue, and approvalApprove runs the tool of an
\* entry at most once for each approve record in the log, however handlers
\* interleave and however often qid crashes and replays.
THEOREM RunsNeedApproval ==
  ASSUME Faults = {}
  PROVE  Spec => []RunsAreApproved
<1>1. LifeInv => RunsAreApproved
  BY DEF LifeInv, RunsOK, RunsAreApproved
<1> QED
  BY <1>1, LifeInvariant, PTL

\* While qid runs, Queue.Restore would give every entry the status Queue.Get
\* gives it now, an approved one as pending again.
THEOREM NothingForgotten ==
  ASSUME Faults = {}
  PROVE  Spec => []RestartForgetsNothing
<1>1. LifeInv => RestartForgetsNothing
  <2> SUFFICES ASSUME LifeInv, mode # "down", NEW id \in Ids
               PROVE  AfterRestart(id) = IF Get(id) = "approved" THEN "pending" ELSE Get(id)
    BY DEF RestartForgetsNothing
  <2> DEFINE last == Latest(Replayed, id)
  <2>1. /\ last \in Events \cup {"none"}
        /\ Enqueued(Replayed, id) <=> last # "none"
        /\ items[id] \in Statuses \cup {"none"} /\ history[id] \in Terminal \cup {"none"}
        /\ items[id] = "none" => history[id] = OutcomeStatus(last)
                                 /\ last \notin {"enqueue", "approve"}
        /\ items[id] = "pending" => last \in {"enqueue", "approve"}
        /\ items[id] = "approved" => last = "approve"
        /\ items[id] \in Terminal => OutcomeStatus(last) = items[id]
    BY DEF LifeInv, EnqueuedOK, EntriesOK, SafeInv, TypeInv, QueueOK
  <2> HIDE DEF last
  <2>2. AfterRestart(id) = IF last \in {"enqueue", "approve"} THEN "pending"
                           ELSE IF last # "none" THEN OutcomeStatus(last) ELSE "none"
    BY <2>1 DEF AfterRestart, RestoredItem, RestoredHistory, last
  <2>3. last \in {"enqueue", "approve", "none"} => OutcomeStatus(last) = "none"
    BY DEF OutcomeStatus
  <2>4. CASE items[id] = "none"
    BY <2>1, <2>2, <2>3, <2>4 DEF Get, Terminal
  <2>5. CASE items[id] \in {"pending", "approved"}
    BY <2>1, <2>2, <2>5 DEF Get
  <2>6. CASE items[id] \in Terminal
    BY <2>1, <2>2, <2>3, <2>6 DEF Get, Terminal
  <2> QED BY <2>1, <2>4, <2>5, <2>6 DEF Statuses, Live
<1> QED
  BY <1>1, LifeInvariant, PTL

\* One step of the daemon is, read from the log, one step of the lifecycle or
\* none.
LEMMA LifecycleStep ==
  ASSUME Faults = {}, LifeInv, [Next]_vars
  PROVE  [Lifecycle!LifecycleNext]_<<[id \in Ids |-> LogPhase(id)],
                                     [id \in Ids |-> Approvals(id)], runs>>
<1> DEFINE phase == [id \in Ids |-> LogPhase(id)]
           grants == [id \in Ids |-> Approvals(id)]
<1>e. EventPhase("none") = "none" /\ EventPhase("enqueue") = "pending"
      /\ EventPhase("approve") = "authorised" /\ EventPhase("deny") = "denied"
      /\ EventPhase("execute") = "executed" /\ EventPhase("fail") = "failed"
  BY DEF EventPhase, OutcomeStatus
<1>1. ASSUME Replayed' = Replayed PROVE phase' = phase /\ grants' = grants
  BY <1>1, QuietReads DEF LogPhase
<1>2. CASE Quiet
  BY <1>1, <1>2 DEF Quiet
<1>3. ASSUME NEW id \in Ids, Ran(id) PROVE Lifecycle!Run(id)
  <2>1. phase[id] = "authorised" /\ grants[id] = Approvals(id)
    BY <1>3, <1>e DEF Ran, LogPhase
  <2> QED BY <1>1, <1>3, <2>1 DEF Ran, Lifecycle!Run
<1>4. ASSUME NEW event \in Events, NEW id \in Ids, Recorded(event, id)
      PROVE  \/ Lifecycle!Submit(id) \/ Lifecycle!Grant(id)
             \/ Lifecycle!Refuse(id) \/ Lifecycle!Settle(id)
  <2>1. /\ Latest(Replayed, id)' = event
        /\ \A other \in Ids \ {id} : Latest(Replayed, other)' = Latest(Replayed, other)
        /\ \A other \in Ids :
              Approvals(other)' = Approvals(other)
                   + (IF other = id /\ event = "approve" THEN 1 ELSE 0)
        /\ \A other \in Ids : Approvals(other) \in Nat
    BY <1>4, RecordedReads
  <2>2. phase' = [phase EXCEPT ![id] = EventPhase(event)]
    BY <2>1 DEF LogPhase
  <2>3. event = "approve" => grants' = [grants EXCEPT ![id] = @ + 1]
    <3> SUFFICES ASSUME event = "approve" PROVE grants' = [grants EXCEPT ![id] = @ + 1]
      OBVIOUS
    <3>1. /\ grants[id] = Approvals(id) /\ Approvals(id)' = Approvals(id) + 1
          /\ \A other \in Ids \ {id} : Approvals(other)' = Approvals(other)
      BY <2>1
    <3> QED BY <3>1
  <2>4. event # "approve" => grants' = grants
    BY <2>1
  <2>5. phase[id] = EventPhase(Latest(Replayed, id)) /\ runs' = runs /\ Allowed(event, id)
    BY <1>4 DEF LogPhase, Recorded
  <2>6. CASE event = "enqueue"
    BY <1>e, <2>2, <2>4, <2>5, <2>6 DEF Allowed, Lifecycle!Submit
  <2>7. CASE event = "approve"
    BY <1>e, <2>2, <2>3, <2>5, <2>7 DEF Allowed, Lifecycle!Grant
  <2>8. CASE event = "deny"
    BY <1>e, <2>2, <2>4, <2>5, <2>8 DEF Allowed, Lifecycle!Refuse
  <2>9. CASE event \in {"execute", "fail"}
    BY <1>e, <2>2, <2>4, <2>5, <2>9 DEF Allowed, Lifecycle!Settle
  <2> QED BY <2>6, <2>7, <2>8, <2>9 DEF Events
<1> QED
  BY <1>2, <1>3, <1>4, LifeStep DEF Lifecycle!LifecycleNext

\* Queue, audit log, replay and JSON-RPC handlers together implement the
\* approval lifecycle: read from the log, a queued call runs only under a
\* grant that no earlier run has used, a refused or settled call never runs or
\* changes again, and a call is reported executed only if it ran, across any
\* crashes and restarts.
THEOREM GateImplementsLifecycle ==
  ASSUME Faults = {}
  PROVE  Spec => ImplementsLifecycle
<1>1. Init => Lifecycle!LifecycleInit
  <2> SUFFICES ASSUME Init PROVE Lifecycle!LifecycleInit
    OBVIOUS
  <2>1. Replayed = <<>> /\ DOMAIN Replayed = {}
    BY DEF Init, Replayed, NoTail
  <2>2. \A id \in Ids : LogPhase(id) = "none"
    BY <2>1 DEF LogPhase, EventPhase, Latest
  <2>3. \A id \in Ids : Approvals(id) = 0
    BY <2>1, FS_EmptySet DEF Approvals, ApproveRecords
  <2> QED BY <2>2, <2>3 DEF Init, Lifecycle!LifecycleInit
<1>2. LifeInv /\ [Next]_vars
        => [Lifecycle!LifecycleNext]_<<[id \in Ids |-> LogPhase(id)],
                                       [id \in Ids |-> Approvals(id)], runs>>
  BY LifecycleStep
<1> QED
  BY <1>1, <1>2, LifeInvariant, PTL DEF Spec, ImplementsLifecycle, Lifecycle!LifecycleSpec

---------------------------------------------------------------------------
\* One daemon of several on the log: what it may rely on when others append to
\* the file between any two of its steps, and what it does for them.  The file
\* system may fail a Sync here, never a Write.

\* The file: whole lines only.
FileWhole ==
  /\ log \in Lines /\ tail = NoTail
  /\ runs \in [Ids -> Nat] /\ bypassed = {}

\* The memory of one process.
MemoryOK == QueueOK /\ ConnOK /\ HandlerOK /\ HoldersOK /\ DownOK

\* The run a handler past Approve may still start.
Owed(id) == IF \E c \in Conns : conn[c].pc = "execute" /\ conn[c].id = id THEN 1 ELSE 0

\* The log has gained a record about id, or nothing.
Kept(event, id) == log' \in Lines /\ tail' = NoTail /\ (log' = log \/ Grown(log', log, event, id))

\* No approval is lost, and each run begun or allowed has one of its own.
Pays ==
  \A id \in Ids :
    /\ Approvals(id) \in Nat /\ Approvals(id)' \in Nat
    /\ runs[id] \in Nat /\ runs'[id] \in Nat
    /\ runs'[id] + Owed(id)' + Approvals(id) <= runs[id] + Owed(id) + Approvals(id)'

\* Append adds its record when it succeeds, and no other ever.
LEMMA AppendKeeps ==
  ASSUME "write" \notin Faults, FileWhole, NEW event \in Events, NEW id \in Ids,
         NEW body, NEW ok \in BOOLEAN, AuditAppend(event, id, body, ok)
  PROVE  Kept(event, id) /\ (ok => Grown(log', log, event, id))
<1>1. \/ log' = Append(log, Record(event, id)) /\ tail' = NoTail
      \/ ~ok /\ log' = log /\ tail' = NoTail
  BY DEF AuditAppend, WriteLine, FileWhole, disk
<1>2. Record(event, id) \in [event : Events \cup {"junk"}, id : Ids \cup {NoId}]
  BY DEF Record
<1>3. Append(log, Record(event, id)) \in Lines
  <2> DEFINE rec == Record(event, id)
  <2> HIDE DEF rec
  <2>1. rec \in [event : Events \cup {"junk"}, id : Ids \cup {NoId}]
    BY <1>2 DEF rec
  <2>2. Append(log, rec) \in Lines
    BY <2>1 DEF FileWhole, Lines
  <2> QED BY <2>2 DEF rec
<1> QED
  BY <1>1, <1>3 DEF Kept, Grown, FileWhole

\* What that does to the approvals the log holds.
LEMMA KeptCounts ==
  ASSUME FileWhole, NEW event \in Events, NEW id \in Ids, Kept(event, id), NEW other \in Ids
  PROVE  /\ Approvals(other) \in Nat /\ Approvals(other)' \in Nat
         /\ Approvals(other)' >= Approvals(other)
         /\ Grown(log', log, event, id) /\ event = "approve" /\ other = id =>
              Approvals(other)' = Approvals(other) + 1
<1>1. Replayed = log /\ Replayed' = log'
  BY DEF FileWhole, Kept, Replayed, NoTail
<1>2. Approvals(other) = Cardinality(ApproveRecords(log, other))
      /\ Approvals(other)' = Cardinality(ApproveRecords(log', other))
  BY <1>1 DEF Approvals, ApproveRecords
<1>3. ASSUME NEW longer, Grown(longer, log, event, id)
      PROVE  /\ Cardinality(ApproveRecords(log, other)) \in Nat
             /\ Cardinality(ApproveRecords(longer, other)) =
                  Cardinality(ApproveRecords(log, other))
                    + (IF other = id /\ event = "approve" THEN 1 ELSE 0)
  BY <1>3, ApprovalsOfAppend DEF FileWhole
<1>4. Cardinality(ApproveRecords(log, other)) \in Nat
  <2>1. Grown(Append(log, Record(event, id)), log, event, id)
    BY DEF Grown
  <2> QED BY <2>1, <1>3
<1>5. CASE log' = log
  <2>1. ~Grown(log', log, event, id)
    <3>1. Len(log) \in Nat /\ log \in Seq([event : Events \cup {"junk"}, id : Ids \cup {NoId}])
      BY DEF FileWhole, Lines
    <3>2. Record(event, id) \in [event : Events \cup {"junk"}, id : Ids \cup {NoId}]
      BY DEF Record
    <3>3. ASSUME NEW r \in [event : Events \cup {"junk"}, id : Ids \cup {NoId}]
          PROVE  Len(Append(log, r)) = Len(log) + 1
      BY <3>1
    <3> QED BY <1>5, <3>1, <3>2, <3>3 DEF Grown
  <2> QED BY <1>2, <1>4, <1>5, <2>1
<1>6. CASE Grown(log', log, event, id)
  BY <1>2, <1>3, <1>4, <1>6
<1> QED
  BY <1>5, <1>6 DEF Kept

\* A connection lets go: nobody else's entry changes, and no run is newly owed.
LEMMA LetsGo ==
  ASSUME MemoryOK, NEW c \in Conns, Released(c),
         \A id \in Ids : items[id] = "approved" /\ items'[id] # "approved" =>
            conn[c].pc \in {"execute", "record"} /\ conn[c].id = id
  PROVE  HoldersOK' /\ \A id \in Ids : Owed(id)' \in {0, 1} /\ Owed(id) \in {0, 1} /\ Owed(id)' <= Owed(id)
<1>1. HoldersOK /\ HandlerOK
  BY DEF MemoryOK
<1>2. \A d \in Conns : conn'[d].pc \in {"execute", "record"} => d # c /\ conn'[d] = conn[d]
  BY DEF Released
<1>3. HoldersOK'
  BY <1>1, <1>2 DEF HoldersOK, HandlerOK
<1>4. \A id \in Ids : (\E d \in Conns : conn'[d].pc = "execute" /\ conn'[d].id = id) =>
                        \E d \in Conns : conn[d].pc = "execute" /\ conn[d].id = id
  BY <1>2
<1> QED
  BY <1>3, <1>4 DEF Owed

\* A handler's step that appends at most one record and starts no run.
LEMMA AppendPays ==
  ASSUME FileWhole, MemoryOK, NEW c \in Conns, Released(c), QueueOK', ConnOK', HandlerOK',
         NEW event \in Events, NEW id \in Ids, Kept(event, id), UNCHANGED <<runs, bypassed>>,
         mode # "down", UNCHANGED mode,
         \A other \in Ids : items[other] = "approved" /\ items'[other] # "approved" =>
            conn[c].pc \in {"execute", "record"} /\ conn[c].id = other
  PROVE  FileWhole' /\ MemoryOK' /\ Pays
<1>1. FileWhole'
  BY DEF FileWhole, Kept
<1>2. MemoryOK'
  BY LetsGo DEF MemoryOK, DownOK
<1>3. ASSUME NEW other \in Ids
      PROVE  /\ Approvals(other) \in Nat /\ Approvals(other)' \in Nat
             /\ runs[other] \in Nat /\ runs'[other] \in Nat
             /\ runs'[other] + Owed(other)' + Approvals(other)
                  <= runs[other] + Owed(other) + Approvals(other)'
  <2>1. /\ Approvals(other) \in Nat /\ Approvals(other)' \in Nat
        /\ Approvals(other)' >= Approvals(other)
    BY KeptCounts
  <2>2. Owed(other)' \in {0, 1} /\ Owed(other) \in {0, 1} /\ Owed(other)' <= Owed(other)
    BY LetsGo
  <2>3. runs[other] \in Nat /\ runs' = runs
    BY DEF FileWhole
  <2> QED BY <2>1, <2>2, <2>3
<1> QED
  BY <1>1, <1>2, <1>3 DEF Pays

\* A step that leaves the file alone and owes no new run.
LEMMA SameFilePays ==
  ASSUME FileWhole, UNCHANGED <<log, tail, runs, bypassed>>,
         \A id \in Ids : Owed(id)' \in {0, 1} /\ Owed(id) \in {0, 1} /\ Owed(id)' <= Owed(id)
  PROVE  FileWhole' /\ Pays
<1>1. ASSUME NEW id \in Ids
      PROVE  /\ Approvals(id) \in Nat /\ Approvals(id)' = Approvals(id)
             /\ runs[id] \in Nat /\ runs'[id] = runs[id]
  <2>1. Approvals(id)' = Approvals(id)
    BY DEF Approvals, ApproveRecords, Replayed
  <2>2. Kept("deny", id)
    BY DEF FileWhole, Kept
  <2>3. Approvals(id) \in Nat
    BY <2>2, KeptCounts DEF Events
  <2> QED BY <2>1, <2>3 DEF FileWhole
<1> QED
  BY <1>1 DEF Pays, FileWhole

\* A process that ends or has just started has no handler and owes nothing.
LEMMA RestPays ==
  ASSUME FileWhole, MemoryOK, QueueOK', UNCHANGED <<log, tail, runs, bypassed>>,
         conn' = [c \in Conns |-> Idle]
  PROVE  FileWhole' /\ MemoryOK' /\ Pays
<1>1. Idle.pc = "idle" /\ Idle \in [pc : {"idle", "request", "execute", "record"},
                                     id : Ids \cup {NoId},
                                     event : {"none", "execute", "fail"}, size : Nat]
  BY DEF Idle
<1>2. \A c \in Conns : conn'[c].pc = "idle" /\ conn'[c] = Idle
  BY <1>1
<1>3. ConnOK' /\ HandlerOK' /\ HoldersOK' /\ DownOK'
  BY <1>1, <1>2 DEF ConnOK, HandlerOK, HoldersOK, DownOK
<1>4. \A id \in Ids : Owed(id)' \in {0, 1} /\ Owed(id) \in {0, 1} /\ Owed(id)' <= Owed(id)
  BY <1>2 DEF Owed
<1> QED
  BY <1>3, <1>4, SameFilePays DEF MemoryOK

\* Approve: the record it appends pays for the run it allows.
LEMMA ApprovePays ==
  ASSUME "write" \notin Faults, FileWhole, MemoryOK, mode # "down",
         NEW c \in Conns, ApprovalApprove(c)
  PROVE  FileWhole' /\ MemoryOK' /\ Pays
<1>1. PICK id \in Ids, ok \in BOOLEAN :
        /\ items[id] = "pending" /\ AuditAppend("approve", id, Overhead, ok)
        /\ items' = IF ok THEN [items EXCEPT ![id] = "approved"] ELSE items
        /\ conn' = [conn EXCEPT ![c] = IF ok THEN [Idle EXCEPT !.pc = "execute", !.id = id]
                                             ELSE Idle]
  BY DEF ApprovalApprove, Approve
<1>2. conn[c].pc = "request" /\ UNCHANGED <<mode, history, runs, bypassed>>
  BY DEF ApprovalApprove, ghost
<1>3. Kept("approve", id) /\ (ok => Grown(log', log, "approve", id))
  BY <1>1, AppendKeeps DEF Events
<1>4. QueueOK'
  BY <1>1, <1>2, ItemsType DEF MemoryOK, Statuses, Live
<1>5. CASE ~ok
  <2>1. conn' = [conn EXCEPT ![c] = Idle] /\ items' = items
    BY <1>1, <1>5
  <2>2. Released(c) /\ ConnOK' /\ HandlerOK'
    BY <2>1, ReleasedBy, ConnType DEF MemoryOK
  <2> QED BY <1>2, <1>3, <1>4, <2>1, <2>2, AppendPays DEF Events
<1>6. CASE ok
  <2> DEFINE h == [Idle EXCEPT !.pc = "execute", !.id = id]
  <2>1. h.pc = "execute" /\ h.id = id
        /\ h \in [pc : {"idle", "request", "execute", "record"}, id : Ids \cup {NoId},
                  event : {"none", "execute", "fail"}, size : Nat]
    BY DEF Idle
  <2>2. conn' = [conn EXCEPT ![c] = h] /\ items' = [items EXCEPT ![id] = "approved"]
    BY <1>1, <1>6
  <2> HIDE DEF h
  <2>3. /\ conn'[c] = h /\ \A d \in Conns \ {c} : conn'[d] = conn[d]
        /\ items'[id] = "approved" /\ \A other \in Ids \ {id} : items'[other] = items[other]
    BY <2>2 DEF MemoryOK, ConnOK, QueueOK
  <2>4. ConnOK' /\ HandlerOK' /\ DownOK'
    BY <1>2, <2>1, <2>2, <2>3 DEF MemoryOK, ConnOK, HandlerOK, DownOK
  <2>5. \A d \in Conns : conn[d].pc \in {"execute", "record"} =>
          conn[d].id \in Ids \ {id} /\ items[conn[d].id] = "approved"
    BY <1>1 DEF MemoryOK, HoldersOK, HandlerOK
  <2>6. HoldersOK'
    BY <2>1, <2>3, <2>5 DEF MemoryOK, HoldersOK
  <2>7. FileWhole'
    BY <1>2, <1>3 DEF FileWhole, Kept
  <2>8. ASSUME NEW other \in Ids
        PROVE  /\ Approvals(other) \in Nat /\ Approvals(other)' \in Nat
               /\ runs[other] \in Nat /\ runs'[other] \in Nat
               /\ runs'[other] + Owed(other)' + Approvals(other)
                    <= runs[other] + Owed(other) + Approvals(other)'
    <3>1. /\ Approvals(other) \in Nat /\ Approvals(other)' \in Nat
          /\ Approvals(other)' >= Approvals(other)
          /\ other = id => Approvals(other)' = Approvals(other) + 1
      BY <1>3, <1>6, KeptCounts DEF Events
    <3>2. Owed(other)' \in {0, 1} /\ Owed(other) \in {0, 1}
      BY DEF Owed
    <3>3. other # id => Owed(other)' <= Owed(other)
      <4>1. other # id /\ (\E d \in Conns : conn'[d].pc = "execute" /\ conn'[d].id = other) =>
              \E d \in Conns : conn[d].pc = "execute" /\ conn[d].id = other
        BY <2>1, <2>3
      <4> QED BY <4>1 DEF Owed
    <3>4. runs[other] \in Nat /\ runs' = runs
      BY <1>2 DEF FileWhole
    <3> QED BY <3>1, <3>2, <3>3, <3>4
  <2> QED BY <1>4, <2>4, <2>6, <2>7, <2>8 DEF MemoryOK, Pays
<1> QED
  BY <1>5, <1>6

\* Execute: the run that was owed is begun, and nobody else begins it.
LEMMA ExecutePays ==
  ASSUME FileWhole, MemoryOK, mode # "down", NEW c \in Conns, Execute(c)
  PROVE  FileWhole' /\ MemoryOK' /\ Pays
<1> DEFINE id == conn[c].id
<1>1. /\ conn[c].pc = "execute" /\ UNCHANGED <<log, tail, mode, items, history, bypassed>>
      /\ runs' \in {runs, [runs EXCEPT ![id] = @ + 1]}
  BY DEF Execute, disk, queue
<1>2. /\ ConnOK' /\ conn'[c].pc = "record" /\ conn'[c].id = id
      /\ conn'[c].event \in {"execute", "fail"}
      /\ \A d \in Conns \ {c} : conn'[d] = conn[d]
  BY SizeAssumption DEF Execute, MemoryOK, ConnOK
<1>3. id \in Ids
  BY <1>1 DEF MemoryOK, HandlerOK
<1>4. QueueOK' /\ HandlerOK' /\ DownOK'
  BY <1>1, <1>2, <1>3 DEF MemoryOK, QueueOK, HandlerOK, DownOK
<1>5. HoldersOK'
  BY <1>1, <1>2 DEF MemoryOK, HoldersOK
<1>6. \A d \in Conns : conn'[d].pc = "execute" => conn'[d] = conn[d] /\ conn[d].id # id
  BY <1>1, <1>2 DEF MemoryOK, HoldersOK
<1>7. FileWhole'
  BY <1>1, <1>3 DEF FileWhole
<1>8. ASSUME NEW other \in Ids
      PROVE  /\ Approvals(other) \in Nat /\ Approvals(other)' \in Nat
             /\ runs[other] \in Nat /\ runs'[other] \in Nat
             /\ runs'[other] + Owed(other)' + Approvals(other)
                  <= runs[other] + Owed(other) + Approvals(other)'
  <2>1. Approvals(other)' = Approvals(other)
    BY <1>1 DEF Approvals, ApproveRecords, Replayed
  <2>2. Approvals(other) \in Nat
    <3>1. Kept("deny", other)
      BY <1>1 DEF FileWhole, Kept
    <3> QED BY <3>1, KeptCounts DEF Events
  <2>3. runs[other] \in Nat /\ runs'[other] \in Nat /\ runs'[other] <= runs[other] + 1
        /\ (other # id => runs'[other] = runs[other])
    BY <1>1, <1>3 DEF FileWhole
  <2>4. CASE other = id
    <3>1. Owed(other)' = 0 /\ Owed(other) = 1
      BY <1>1, <1>6, <2>4 DEF Owed
    <3> QED BY <2>1, <2>2, <2>3, <3>1
  <2>5. CASE other # id
    <3>1. (\E d \in Conns : conn'[d].pc = "execute" /\ conn'[d].id = other) =>
            \E d \in Conns : conn[d].pc = "execute" /\ conn[d].id = other
      BY <1>6
    <3>2. Owed(other)' \in {0, 1} /\ Owed(other) \in {0, 1} /\ Owed(other)' <= Owed(other)
      BY <3>1 DEF Owed
    <3> QED BY <2>1, <2>2, <2>3, <2>5, <3>2
  <2> QED BY <2>4, <2>5
<1> QED
  BY <1>2, <1>4, <1>5, <1>7, <1>8 DEF MemoryOK, Pays

\* Whatever a daemon does, other processes' approvals stay paid for.
LEMMA WorkPays ==
  ASSUME "write" \notin Faults, FileWhole, MemoryOK, Work
  PROVE  FileWhole' /\ MemoryOK' /\ Pays
<1> USE DEF Events
<1>0. ASSUME NEW c \in Conns, conn[c].pc # "idle" PROVE mode # "down"
  BY <1>0 DEF MemoryOK, DownOK, Idle
<1>a. ASSUME NEW c \in Conns,
             conn' \in {[conn EXCEPT ![c] = Idle], [conn EXCEPT ![c] = Request]}
      PROVE  Released(c) /\ ConnOK' /\ HandlerOK'
  BY <1>a, ReleasedBy, ConnType DEF MemoryOK
<1>1. ASSUME NEW c \in Conns, Receive(c) \/ ToolsCallDirect(c) \/ RejectTransition(c)
      PROVE  FileWhole' /\ MemoryOK' /\ Pays
  <2>1. /\ conn' \in {[conn EXCEPT ![c] = Idle], [conn EXCEPT ![c] = Request]}
        /\ UNCHANGED <<log, tail, items, history, mode, runs>> /\ mode # "down"
    BY <1>0, <1>1 DEF Receive, ToolsCallDirect, RejectTransition, disk, queue, ghost
  <2>2. UNCHANGED bypassed
    BY <1>1 DEF Receive, ToolsCallDirect, RejectTransition, ghost, Decide, Callers, Tools
  <2>3. QueueOK' /\ DownOK'
    BY <2>1 DEF MemoryOK, QueueOK, DownOK
  <2> QED BY <1>a, <2>1, <2>2, <2>3, LetsGo, SameFilePays DEF MemoryOK
<1>2. ASSUME NEW c \in Conns, ToolsCallConfirm(c) PROVE FileWhole' /\ MemoryOK' /\ Pays
  <2>1. PICK id \in Ids, paramSize \in ParamSizes, ok \in BOOLEAN :
          /\ Fresh(id) /\ AuditAppend("enqueue", id, Overhead + paramSize, ok)
          /\ items' = IF ok THEN [items EXCEPT ![id] = "pending"] ELSE items
    BY <1>2 DEF ToolsCallConfirm, Enqueue
  <2>2. /\ conn' = [conn EXCEPT ![c] = Idle] /\ UNCHANGED <<mode, history, runs, bypassed>>
        /\ mode # "down"
    BY <1>0, <1>2 DEF ToolsCallConfirm, ghost
  <2>3. Kept("enqueue", id)
    BY <2>1, AppendKeeps
  <2>4. QueueOK'
    BY <2>1, <2>2, ItemsType DEF MemoryOK, Statuses, Live
  <2>5. \A other \in Ids : items[other] = "approved" => items'[other] = "approved"
    BY <2>1 DEF Fresh, MemoryOK, QueueOK
  <2> QED BY <1>a, <2>2, <2>3, <2>4, <2>5, AppendPays
<1>3. ASSUME NEW c \in Conns, ApprovalDeny(c) PROVE FileWhole' /\ MemoryOK' /\ Pays
  <2>1. PICK id \in Ids, ok \in BOOLEAN :
          /\ items[id] = "pending" /\ AuditAppend("deny", id, Overhead, ok)
          /\ items' = IF ok THEN [items EXCEPT ![id] = "denied"] ELSE items
    BY <1>3 DEF ApprovalDeny, Deny
  <2>2. /\ conn' = [conn EXCEPT ![c] = Idle] /\ UNCHANGED <<mode, history, runs, bypassed>>
        /\ mode # "down"
    BY <1>0, <1>3 DEF ApprovalDeny, ghost
  <2>3. Kept("deny", id)
    BY <2>1, AppendKeeps
  <2>4. QueueOK'
    BY <2>1, <2>2, ItemsType DEF MemoryOK, Statuses, Terminal
  <2>5. \A other \in Ids : items[other] = "approved" => items'[other] = "approved"
    BY <2>1 DEF MemoryOK, QueueOK
  <2> QED BY <1>a, <2>2, <2>3, <2>4, <2>5, AppendPays
<1>4. ASSUME NEW c \in Conns, RecordResult(c) PROVE FileWhole' /\ MemoryOK' /\ Pays
  <2> DEFINE id == conn[c].id
             event == conn[c].event
  <2>1. /\ conn[c].pc = "record" /\ conn' = [conn EXCEPT ![c] = Idle]
        /\ UNCHANGED <<mode, history, runs, bypassed>> /\ mode # "down"
    BY <1>0, <1>4 DEF RecordResult, ghost
  <2>2. id \in Ids /\ event \in {"execute", "fail"}
    BY <2>1 DEF MemoryOK, HandlerOK
  <2>3. OutcomeStatus(event) \in Statuses
    BY <2>2 DEF OutcomeStatus, Statuses, Terminal
  <2>4. CASE Recordable(c)
    <3>1. PICK ok \in BOOLEAN :
            /\ AuditAppend(event, id, TerminalBody(c), ok)
            /\ items' = IF ok THEN [items EXCEPT ![id] = OutcomeStatus(event)] ELSE items
      BY <1>4, <2>4 DEF RecordResult
    <3>2. Kept(event, id)
      BY <2>2, <3>1, AppendKeeps
    <3>3. QueueOK'
      BY <2>1, <2>2, <2>3, <3>1, ItemsType DEF MemoryOK
    <3>4. \A other \in Ids \ {id} : items'[other] = items[other]
      BY <2>2, <3>1 DEF MemoryOK, QueueOK
    <3> QED BY <1>a, <2>1, <2>2, <3>2, <3>3, <3>4, AppendPays
  <2>5. CASE ~Recordable(c)
    <3>1. UNCHANGED <<log, tail, items>>
      BY <1>4, <2>5 DEF RecordResult, disk
    <3>2. QueueOK' /\ DownOK'
      BY <2>1, <3>1 DEF MemoryOK, QueueOK, DownOK
    <3> QED BY <1>a, <2>1, <3>1, <3>2, LetsGo, SameFilePays DEF MemoryOK
  <2> QED BY <2>4, <2>5
<1>5. ASSUME NEW c \in Conns, Execute(c) \/ ApprovalApprove(c)
      PROVE  FileWhole' /\ MemoryOK' /\ Pays
  <2>1. mode # "down"
    BY <1>0, <1>5 DEF Execute, ApprovalApprove
  <2> QED BY <1>5, <2>1, ExecutePays, ApprovePays
<1>6. ASSUME Stop \/ Crash PROVE FileWhole' /\ MemoryOK' /\ Pays
  <2>1. /\ conn' = [c \in Conns |-> Idle] /\ UNCHANGED <<log, tail, runs, bypassed>>
        /\ items' = [id \in Ids |-> "none"] /\ history' = [id \in Ids |-> "none"]
    BY <1>6 DEF Stop, Crash, Die, disk, ghost
  <2>2. QueueOK'
    BY <2>1 DEF QueueOK
  <2> QED BY <2>1, <2>2, RestPays
<1>7. ASSUME Start PROVE FileWhole' /\ MemoryOK' /\ Pays
  <2>1. /\ UNCHANGED <<conn, runs, bypassed>> /\ mode = "down"
        /\ log' = Replayed /\ tail' = NoTail
    BY <1>7 DEF Start, OpenAudit, ghost
  <2>2. UNCHANGED <<log, tail>>
    BY <2>1 DEF FileWhole, Replayed, NoTail
  <2>3. conn' = [c \in Conns |-> Idle]
    BY <2>1 DEF MemoryOK, DownOK, ConnOK
  <2>4. QueueOK'
    BY <1>7, RestoreType DEF Start
  <2> QED BY <2>1, <2>2, <2>3, <2>4, RestPays
<1>8. ASSUME Shutdown PROVE FileWhole' /\ MemoryOK' /\ Pays
  <2>1. UNCHANGED <<log, tail, runs, bypassed, conn, items, history>> /\ mode' # "down"
    BY <1>8 DEF Shutdown, disk, queue, ghost
  <2>2. MemoryOK'
    BY <2>1 DEF MemoryOK, QueueOK, ConnOK, HandlerOK, HoldersOK, DownOK
  <2>3. \A id \in Ids : Owed(id)' \in {0, 1} /\ Owed(id) \in {0, 1} /\ Owed(id)' <= Owed(id)
    BY <2>1 DEF Owed
  <2> QED BY <2>1, <2>2, <2>3, SameFilePays
<1> QED
  BY <1>1, <1>2, <1>3, <1>4, <1>5, <1>6, <1>7, <1>8 DEF Work, Handle
=============================================================================
