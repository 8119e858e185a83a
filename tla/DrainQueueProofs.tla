-------------------------- MODULE DrainQueueProofs --------------------------
(***************************************************************************)
(* Theorems about DrainQueue, for any number of rows, drain processes and  *)
(* failures, any pull limit and every mix of kinds of rows.                *)
(***************************************************************************)
EXTENDS DrainQueue, TLAPS

---------------------------------------------------------------------------
\* The inductive invariant

\* What the step a pass is at says of it.
PassOK ==
  \A d \in Drainers :
    /\ drain[d].pc = "idle" => drain[d].batch = {} /\ drain[d].written = {} /\ drain[d].rejected = {}
    /\ drain[d].pc = "append" => \A r \in Rows : First(d, r) => IsTask(r)
    /\ drain[d].batch \cap drain[d].written = {} /\ drain[d].batch \cap drain[d].rejected = {}
    /\ drain[d].written \cap drain[d].rejected = {}

\* A row with a trace in the vault, in a pass or in a late request was enqueued.
Traced(r) ==
  \/ copies[r] > 0 \/ stamped = r
  \/ \E d \in Drainers : r \in drain[d].batch \cup drain[d].written
  \/ \E m \in late : m.op = "ack" /\ r \in m.ids

TracedOK ==
  \A r \in Rows : /\ Traced(r) => cloud[r] # "none"
                  /\ cloud[r] = "none" => kind[r] = "none"

\* What may be acked is in the vault; a note may have been overwritten since.
InVault(r) == kind[r] = "note" \/ copies[r] > 0

AcksOK ==
  /\ \A d \in Drainers : \A r \in drain[d].written : InVault(r)
  /\ \A m \in late : m.op = "ack" => \A r \in m.ids : InVault(r)

\* Only a note is overwritten, and only the last one.
StampOK == stamped # NoRow => kind[stamped] = "note" /\ copies[stamped] > 0

\* Without an overlap there is one pass.
OnePass ==
  ~overlapped =>
    \A d, e \in Drainers : drain[d].pc # "idle" /\ drain[e].pc # "idle" => d = e

\* CreateTask's lookup still holds when it appends.
AppendOK ==
  ~overlapped =>
    \A d \in Drainers, r \in Rows :
      /\ drain[d].pc = "append" /\ First(d, r)
      /\ kind[r] \in {"task", "client"} /\ r \notin edited
      => copies[r] = 0

\* A row that a pass may yet write has a failure for every copy.
NotesOK ==
  ~overlapped =>
    \A r \in Rows :
      /\ ~IsTask(r) /\ \A q \in Rows : ~Unwritable(q)
      /\ cloud[r] = "pending" \/ \E d \in Drainers : r \in drain[d].batch
      /\ \A d \in Drainers : r \notin drain[d].written
      => copies[r] <= faults

DrainInv ==
  /\ TypeOK /\ PassOK /\ TracedOK /\ AcksOK /\ StampOK /\ OnePass /\ AppendOK /\ NotesOK
  /\ NeverDropped /\ TaskOnce /\ NoteCopiesNeedFaults

---------------------------------------------------------------------------
\* What an action does, field by field

\* Pass d is as the arguments say, and no other pass has moved.
Moved(d, pc, batch, written, rejected) ==
  /\ \A e \in Drainers \ {d} : drain'[e] = drain[e]
  /\ drain'[d].pc = pc /\ drain'[d].batch = batch
  /\ drain'[d].written = written /\ drain'[d].rejected = rejected

Ended(d) == Moved(d, "idle", {}, {}, {})
Wrote(d, r) ==
  Moved(d, "row", drain[d].batch \ {r}, drain[d].written \cup {r}, drain[d].rejected)

\* What each step of a pass does, field by field.
LEMMA Effects ==
  ASSUME TypeOK, NEW d \in Drainers
  PROVE  /\ Pull(d) =>
              /\ drain[d].pc = "idle" /\ Moved(d, "row", Batch, drain[d].written, drain[d].rejected)
              /\ overlapped' = (overlapped \/ \E e \in Drainers \ {d} : drain[e].pc # "idle")
              /\ UNCHANGED <<cloud, kind, copies, stamped, edited, late, faults, resolved>>
         /\ Call(d) =>
              /\ Calling(d) /\ cloud' = Served(NextCall(d), CallIds(d))
              /\ IF NextCall(d) = "ack" THEN Moved(d, "row", {}, {}, drain[d].rejected) ELSE Ended(d)
              /\ UNCHANGED <<kind, copies, stamped, edited, late, faults, overlapped, resolved>>
         /\ CallFails(d) =>
              /\ Calling(d) /\ NextCall(d) # "none" /\ Ended(d) /\ faults' = faults + 1
              /\ late' = late \cup {[op |-> NextCall(d), ids |-> CallIds(d)]}
              /\ UNCHANGED <<cloud, kind, copies, stamped, edited, overlapped, resolved>>
         /\ PassDies(d) =>
              /\ drain[d].pc # "idle" /\ Ended(d) /\ faults' = faults + 1
              /\ UNCHANGED <<cloud, kind, copies, stamped, edited, late, overlapped, resolved>>
<1>0. drain \in [Drainers -> DrainType]
  BY DEF TypeOK
<1> USE <1>0 DEF Ended, Moved, DrainType, worker, laptop, notes, outside
<1>3. ASSUME drain' = [drain EXCEPT ![d] = Idle] PROVE Ended(d)
  BY <1>3 DEF Idle
<1> HIDE DEF Ended
<1>4. Pull(d) =>
        /\ drain[d].pc = "idle" /\ Moved(d, "row", Batch, drain[d].written, drain[d].rejected)
        /\ overlapped' = (overlapped \/ \E e \in Drainers \ {d} : drain[e].pc # "idle")
        /\ UNCHANGED <<cloud, kind, copies, stamped, edited, late, faults, resolved>>
  BY DEF Pull
<1>9. Call(d) =>
        /\ Calling(d) /\ cloud' = Served(NextCall(d), CallIds(d))
        /\ IF NextCall(d) = "ack" THEN Moved(d, "row", {}, {}, drain[d].rejected) ELSE Ended(d)
        /\ UNCHANGED <<kind, copies, stamped, edited, late, faults, overlapped, resolved>>
  <2>1. ASSUME Calling(d), NextCall(d) = "ack", Answered(d)
        PROVE  Moved(d, "row", {}, {}, drain[d].rejected)
    BY <2>1 DEF Answered, Calling
  <2>2. ASSUME NextCall(d) # "ack", Answered(d) PROVE Ended(d)
    BY <1>3, <2>2 DEF Answered
  <2> HIDE DEF Moved
  <2> QED
    BY <2>1, <2>2 DEF Call
<1>10. CallFails(d) =>
        /\ Calling(d) /\ NextCall(d) # "none" /\ Ended(d) /\ faults' = faults + 1
        /\ late' = late \cup {[op |-> NextCall(d), ids |-> CallIds(d)]}
        /\ UNCHANGED <<cloud, kind, copies, stamped, edited, overlapped, resolved>>
  BY <1>3 DEF CallFails, Fault
<1>11. PassDies(d) =>
        /\ drain[d].pc # "idle" /\ Ended(d) /\ faults' = faults + 1
        /\ UNCHANGED <<cloud, kind, copies, stamped, edited, late, overlapped, resolved>>
  BY <1>3 DEF PassDies, Fault
<1> HIDE DEF Moved
<1> QED
  BY <1>4, <1>9, <1>10, <1>11

\* A copy more, up to the cap.
LEMMA CountedCopy ==
  ASSUME TypeOK, NEW r \in Rows
  PROVE  /\ OneMore(r) \in {0, 1}
         /\ copies[r] + OneMore(r) \in Nat /\ copies[r] + OneMore(r) > 0
         /\ copies[r] + OneMore(r) <= copies[r] + 1
         /\ copies[r] + OneMore(r) > 1 \/ copies[r] = 0
<1>1. copies[r] \in Nat /\ CopyCap \in Nat /\ CopyCap > 1
  BY DrainAssumption DEF TypeOK
<1> QED
  BY <1>1 DEF OneMore

\* The same for the steps about one row.
LEMMA RowEffects ==
  ASSUME TypeOK, NEW d \in Drainers, NEW r \in Rows
  PROVE  /\ Reject(d, r) =>
              /\ drain[d].pc = "row" /\ First(d, r)
              /\ Moved(d, "row", drain[d].batch \ {r}, drain[d].written,
                       drain[d].rejected \cup {r})
              /\ UNCHANGED <<cloud, kind, copies, stamped, edited, late, faults, overlapped, resolved>>
         /\ WriteNote(d, r) =>
              /\ drain[d].pc = "row" /\ First(d, r) /\ ~IsTask(r) /\ Wrote(d, r)
              /\ UNCHANGED <<cloud, kind, edited, late, faults, overlapped, resolved>>
         /\ WriteFails(d, r) =>
              /\ drain[d].pc = "row" /\ First(d, r) /\ Unwritable(r) /\ Ended(d)
              /\ UNCHANGED <<cloud, kind, copies, stamped, edited, late, faults, overlapped, resolved>>
         /\ CreateTaskFind(d, r) =>
              /\ drain[d].pc = "row" /\ First(d, r) /\ IsTask(r)
              /\ \/ Drained(r) /\ Wrote(d, r)
                 \/ /\ ~Drained(r)
                    /\ Moved(d, "append", drain[d].batch, drain[d].written, drain[d].rejected)
              /\ UNCHANGED <<cloud, kind, copies, stamped, edited, late, faults, overlapped, resolved>>
         /\ CreateTaskAppend(d, r) =>
              /\ drain[d].pc = "append" /\ First(d, r) /\ Wrote(d, r)
              /\ copies' = [copies EXCEPT ![r] = @ + OneMore(r)]
              /\ copies'[r] \in Nat /\ copies'[r] > 0 /\ copies'[r] <= copies[r] + 1
              /\ UNCHANGED <<cloud, kind, stamped, edited, late, faults, overlapped, resolved>>
<1>0. drain \in [Drainers -> DrainType]
  BY DEF TypeOK
<1> USE <1>0 DEF Wrote, Ended, Moved, DrainType, worker, laptop, notes, outside
<1>1. ASSUME Done(d, r, "written") PROVE Wrote(d, r)
  BY <1>1 DEF Done
<1>2. ASSUME Done(d, r, "rejected")
      PROVE  Moved(d, "row", drain[d].batch \ {r}, drain[d].written,
                   drain[d].rejected \cup {r})
  BY <1>2 DEF Done
<1>3. ASSUME drain' = [drain EXCEPT ![d] = Idle] PROVE Ended(d)
  BY <1>3 DEF Idle
<1> HIDE DEF Wrote, Ended
<1>4. WriteFails(d, r) =>
        /\ drain[d].pc = "row" /\ First(d, r) /\ Unwritable(r) /\ Ended(d)
        /\ UNCHANGED <<cloud, kind, copies, stamped, edited, late, faults, overlapped, resolved>>
  BY <1>3 DEF WriteFails
<1>5. Reject(d, r) =>
        /\ drain[d].pc = "row" /\ First(d, r)
        /\ Moved(d, "row", drain[d].batch \ {r}, drain[d].written,
                 drain[d].rejected \cup {r})
        /\ UNCHANGED <<cloud, kind, copies, stamped, edited, late, faults, overlapped, resolved>>
  BY <1>2 DEF Reject
<1>6. WriteNote(d, r) =>
        /\ drain[d].pc = "row" /\ First(d, r) /\ ~IsTask(r) /\ Wrote(d, r)
        /\ UNCHANGED <<cloud, kind, edited, late, faults, overlapped, resolved>>
  BY <1>1 DEF WriteNote
<1>7. CreateTaskFind(d, r) =>
        /\ drain[d].pc = "row" /\ First(d, r) /\ IsTask(r)
        /\ \/ Drained(r) /\ Wrote(d, r)
           \/ /\ ~Drained(r)
              /\ Moved(d, "append", drain[d].batch, drain[d].written, drain[d].rejected)
        /\ UNCHANGED <<cloud, kind, copies, stamped, edited, late, faults, overlapped, resolved>>
  BY <1>1 DEF CreateTaskFind
<1>8. CreateTaskAppend(d, r) =>
        /\ drain[d].pc = "append" /\ First(d, r) /\ Wrote(d, r)
        /\ copies' = [copies EXCEPT ![r] = @ + OneMore(r)]
        /\ copies'[r] \in Nat /\ copies'[r] > 0 /\ copies'[r] <= copies[r] + 1
        /\ UNCHANGED <<cloud, kind, stamped, edited, late, faults, overlapped, resolved>>
  BY <1>1, CountedCopy DEF CreateTaskAppend, TypeOK
<1> HIDE DEF Moved
<1> QED
  BY <1>4, <1>5, <1>6, <1>7, <1>8

\* What a request does to the rows of the Worker.
LEMMA ServedRow ==
  ASSUME TypeOK, NEW op, NEW ids, NEW r \in Rows
  PROVE  /\ Served(op, ids) \in [Rows -> {"none", "pending", "deadletter", "gone"}]
         /\ Served(op, ids)[r] = "none" <=> cloud[r] = "none"
         /\ Served(op, ids)[r] = "pending" =>
              cloud[r] = "pending" /\ ~(op = "ack" /\ r \in ids)
         /\ Served(op, ids)[r] = "gone" =>
              cloud[r] = "gone" \/ (op = "ack" /\ r \in ids)
BY DEF Served, TypeOK

\* What writing a note does to the entries of the vault: only another note may
\* lose one, and the note written last has one.
LEMMA NoteCopies ==
  ASSUME TypeOK, StampOK, NEW d \in Drainers, NEW r \in Rows, WriteNote(d, r)
  PROVE  /\ copies' \in [Rows -> Nat]
         /\ copies'[r] <= copies[r] + 1
         /\ \A q \in Rows \ {r} : copies'[q] <= copies[q]
         /\ \A q \in Rows : kind[q] # "note" /\ copies[q] > 0 => copies'[q] > 0
         /\ kind[r] # "note" => copies'[r] > 0
         /\ stamped' \in {stamped, r} /\ (stamped' # stamped => kind[r] = "note")
         /\ stamped' # NoRow => copies'[stamped'] > 0 /\ kind[stamped'] = "note"
<1>0. OneMore(r) \in {0, 1} /\ copies[r] + OneMore(r) > 0 /\ (copies[r] + OneMore(r) > 1 \/ copies[r] = 0)
  BY CountedCopy
<1>1. PICK lost \in Rows \cup {NoRow} :
        /\ copies' = [q \in Rows |-> copies[q] + (IF q = r THEN OneMore(r) ELSE 0)
                                               - (IF q = lost THEN 1 ELSE 0)]
        /\ lost = NoRow \/ (lost = stamped /\ kind[r] = "note" /\ stamped' = r)
        /\ stamped' = stamped \/ (stamped' = r /\ kind[r] = "note")
  BY DEF WriteNote, TypeOK
<1>2. lost # NoRow => lost \in Rows /\ kind[lost] = "note" /\ copies[lost] > 0
  BY <1>1 DEF StampOK
<1>3. \A q \in Rows : copies[q] \in Nat /\ q # NoRow
  BY DEF TypeOK, Rows, NoRow
<1>4. \A q \in Rows :
        copies'[q] = copies[q] + (IF q = r THEN OneMore(r) ELSE 0) - (IF q = lost THEN 1 ELSE 0)
  BY <1>1
<1>5. copies' \in [Rows -> Nat]
  BY <1>0, <1>1, <1>2, <1>3
<1>6. stamped' # NoRow => copies'[stamped'] > 0 /\ kind[stamped'] = "note"
  <2>1. CASE stamped' = r /\ kind[r] = "note"
    BY <1>0, <1>2, <1>3, <1>4, <2>1
  <2>2. CASE stamped' = stamped /\ lost = NoRow
    BY <1>0, <1>3, <1>4, <2>2 DEF StampOK, TypeOK
  <2> QED
    BY <1>1, <2>1, <2>2
<1> QED
  BY <1>0, <1>1, <1>2, <1>3, <1>4, <1>5, <1>6

---------------------------------------------------------------------------
\* The invariant, step by step

\* A pass leaves a step as the step requires.
LEMMA PassStep ==
  ASSUME TypeOK, PassOK, TracedOK, [Next]_vars
  PROVE  PassOK'
<1> USE DEF PassOK, First, IsTask, Wrote, Ended, Moved
<1>1. ASSUME NEW d \in Drainers, Pull(d) PROVE PassOK'
  BY <1>1, Effects
<1>2. ASSUME NEW d \in Drainers, Call(d) PROVE PassOK'
  BY <1>2, Effects, ServedRow DEF Calling
<1>3. ASSUME NEW d \in Drainers, CallFails(d) PROVE PassOK'
  BY <1>3, Effects
<1>4. ASSUME NEW d \in Drainers, PassDies(d) PROVE PassOK'
  BY <1>4, Effects
<1>5. ASSUME NEW d \in Drainers, NEW r \in Rows, Reject(d, r) PROVE PassOK'
  BY <1>5, RowEffects
<1>6. ASSUME NEW d \in Drainers, NEW r \in Rows, WriteNote(d, r) PROVE PassOK'
  BY <1>6, RowEffects, NoteCopies
<1>7. ASSUME NEW d \in Drainers, NEW r \in Rows, CreateTaskFind(d, r) PROVE PassOK'
  <2>1. drain[d].batch \subseteq Int
    BY DrainAssumption DEF TypeOK, DrainType, Rows
  <2>2. CASE Wrote(d, r)
    BY <1>7, <2>2, RowEffects
  <2>3. CASE Moved(d, "append", drain[d].batch, drain[d].written, drain[d].rejected)
    <3>1. \A q \in Rows : First(d, q)' => q = r
      BY <1>7, <2>1, <2>3, RowEffects
    <3> QED
      BY <1>7, <2>3, <3>1, RowEffects
  <2> QED
    BY <1>7, <2>2, <2>3, RowEffects
<1>8. ASSUME NEW d \in Drainers, NEW r \in Rows, CreateTaskAppend(d, r) PROVE PassOK'
  BY <1>8, RowEffects
<1>9. CASE HandleEnqueue
  <2>1. PICK r \in Rows : cloud[r] = "none" /\ \E k \in Kinds : kind' = [kind EXCEPT ![r] = k]
    BY <1>9 DEF HandleEnqueue
  <2>2. \A d \in Drainers : r \notin drain[d].batch
    BY <2>1 DEF TracedOK, Traced
  <2> QED
    BY <1>9, <2>1, <2>2 DEF HandleEnqueue, TypeOK, DrainType
<1>10. CASE HandleScheduled
  BY <1>10 DEF HandleScheduled, worker, laptop, notes, outside
<1>11. CASE HandleDeadletterDelete
  BY <1>11 DEF HandleDeadletterDelete, worker, laptop, notes, outside
<1>12. CASE Deliver
  BY <1>12, ServedRow DEF Deliver, worker, laptop, notes, outside
<1>13. CASE EditTask
  BY <1>13 DEF EditTask, worker, laptop, notes, outside
<1>14. CASE AddClient
  BY <1>14 DEF AddClient, worker, laptop, notes, outside
<1>15. CASE UNCHANGED vars
  BY <1>15 DEF vars
<1>16. ASSUME NEW d \in Drainers, NEW r \in Rows, WriteFails(d, r) PROVE PassOK'
  BY <1>16, RowEffects
<1> QED
  BY <1>1, <1>2, <1>3, <1>4, <1>5, <1>6, <1>7, <1>8, <1>9, <1>10, <1>11, <1>12, <1>13, <1>14, <1>15,
     <1>16
  DEF Next, DrainStep

\* Only rows that were enqueued are pulled, written and acked.
LEMMA TracedStep ==
  ASSUME TypeOK, TracedOK, StampOK, PassOK, [Next]_vars
  PROVE  TracedOK'
<1> USE DEF TracedOK, Traced, Wrote, Ended, Moved
<1>1. ASSUME NEW d \in Drainers, Pull(d) PROVE TracedOK'
  <2>1. \A r \in Batch : cloud[r] # "none"
    BY DEF Batch, Pending
  <2> QED
    BY <1>1, <2>1, Effects
<1>2. ASSUME NEW d \in Drainers, Call(d) PROVE TracedOK'
  BY <1>2, Effects, ServedRow DEF Calling
<1>3. ASSUME NEW d \in Drainers, CallFails(d) PROVE TracedOK'
  BY <1>3, Effects DEF Calling, NextCall, CallIds
<1>4. ASSUME NEW d \in Drainers, PassDies(d) PROVE TracedOK'
  BY <1>4, Effects
<1>5. ASSUME NEW d \in Drainers, NEW r \in Rows, Reject(d, r) PROVE TracedOK'
  BY <1>5, RowEffects DEF First
<1>6. ASSUME NEW d \in Drainers, NEW r \in Rows, WriteNote(d, r) PROVE TracedOK'
  <2>1. \A q \in Rows : copies'[q] > 0 => q = r \/ copies[q] > 0
    BY <1>6, NoteCopies DEF TypeOK
  <2> QED
    BY <1>6, <2>1, RowEffects, NoteCopies DEF First
<1>7. ASSUME NEW d \in Drainers, NEW r \in Rows, CreateTaskFind(d, r) PROVE TracedOK'
  BY <1>7, RowEffects DEF First
<1>8. ASSUME NEW d \in Drainers, NEW r \in Rows, CreateTaskAppend(d, r) PROVE TracedOK'
  BY <1>8, RowEffects DEF First, TypeOK
<1>9. CASE HandleEnqueue
  BY <1>9 DEF HandleEnqueue, worker, laptop, notes, outside, TypeOK
<1>10. CASE HandleScheduled
  BY <1>10 DEF HandleScheduled, worker, laptop, notes, outside, TypeOK
<1>11. CASE HandleDeadletterDelete
  BY <1>11 DEF HandleDeadletterDelete, worker, laptop, notes, outside, TypeOK
<1>12. CASE Deliver
  BY <1>12, ServedRow DEF Deliver, worker, laptop, notes, outside
<1>13. CASE EditTask
  BY <1>13 DEF EditTask, worker, laptop, notes, outside
<1>14. CASE AddClient
  BY <1>14 DEF AddClient, worker, laptop, notes, outside
<1>15. CASE UNCHANGED vars
  BY <1>15 DEF vars
<1>16. ASSUME NEW d \in Drainers, NEW r \in Rows, WriteFails(d, r) PROVE TracedOK'
  BY <1>16, RowEffects
<1> QED
  BY <1>1, <1>2, <1>3, <1>4, <1>5, <1>6, <1>7, <1>8, <1>9, <1>10, <1>11, <1>12, <1>13, <1>14, <1>15,
     <1>16
  DEF Next, DrainStep

\* Only what is in the vault is acked.
LEMMA AcksStep ==
  ASSUME TypeOK, TracedOK, AcksOK, StampOK, [Next]_vars
  PROVE  AcksOK'
<1> USE DEF AcksOK, InVault, Wrote, Ended, Moved
<1>1. ASSUME NEW d \in Drainers, Pull(d) PROVE AcksOK'
  BY <1>1, Effects
<1>2. ASSUME NEW d \in Drainers, Call(d) PROVE AcksOK'
  BY <1>2, Effects, ServedRow
<1>3. ASSUME NEW d \in Drainers, CallFails(d) PROVE AcksOK'
  BY <1>3, Effects DEF Calling, NextCall, CallIds
<1>4. ASSUME NEW d \in Drainers, PassDies(d) PROVE AcksOK'
  BY <1>4, Effects
<1>5. ASSUME NEW d \in Drainers, NEW r \in Rows, Reject(d, r) PROVE AcksOK'
  BY <1>5, RowEffects
<1>6. ASSUME NEW d \in Drainers, NEW r \in Rows, WriteNote(d, r) PROVE AcksOK'
  BY <1>6, RowEffects, NoteCopies DEF TypeOK, DrainType
<1>7. ASSUME NEW d \in Drainers, NEW r \in Rows, CreateTaskFind(d, r) PROVE AcksOK'
  BY <1>7, RowEffects DEF Drained
<1>8. ASSUME NEW d \in Drainers, NEW r \in Rows, CreateTaskAppend(d, r) PROVE AcksOK'
  <2>1. copies'[r] > 0 /\ \A q \in Rows : copies[q] > 0 => copies'[q] > 0
    BY <1>8, RowEffects DEF TypeOK
  <2>2. \A q \in Rows : InVault(q) => InVault(q)'
    BY <1>8, <2>1, RowEffects
  <2> QED
    BY <1>8, <2>1, <2>2, RowEffects DEF TypeOK, DrainType
<1>9. CASE HandleEnqueue
  BY <1>9 DEF HandleEnqueue, worker, laptop, notes, outside, TypeOK, TracedOK, Traced
<1>10. CASE HandleScheduled
  BY <1>10 DEF HandleScheduled, worker, laptop, notes, outside
<1>11. CASE HandleDeadletterDelete
  BY <1>11 DEF HandleDeadletterDelete, worker, laptop, notes, outside
<1>12. CASE Deliver
  BY <1>12, ServedRow DEF Deliver, worker, laptop, notes, outside
<1>13. CASE EditTask
  BY <1>13 DEF EditTask, worker, laptop, notes, outside
<1>14. CASE AddClient
  BY <1>14 DEF AddClient, worker, laptop, notes, outside
<1>15. CASE UNCHANGED vars
  BY <1>15 DEF vars
<1>16. ASSUME NEW d \in Drainers, NEW r \in Rows, WriteFails(d, r) PROVE AcksOK'
  BY <1>16, RowEffects
<1> QED
  BY <1>1, <1>2, <1>3, <1>4, <1>5, <1>6, <1>7, <1>8, <1>9, <1>10, <1>11, <1>12, <1>13, <1>14, <1>15,
     <1>16
  DEF Next, DrainStep

\* The last note with a time in its name stays a note and stays in the vault.
LEMMA StampStep ==
  ASSUME TypeOK, TracedOK, PassOK, StampOK, [Next]_vars
  PROVE  StampOK'
<1> USE DEF StampOK, Wrote, Ended, Moved
<1>1. ASSUME NEW d \in Drainers, Pull(d) PROVE StampOK'
  BY <1>1, Effects
<1>2. ASSUME NEW d \in Drainers, Call(d) PROVE StampOK'
  BY <1>2, Effects, ServedRow
<1>3. ASSUME NEW d \in Drainers, CallFails(d) PROVE StampOK'
  BY <1>3, Effects
<1>4. ASSUME NEW d \in Drainers, PassDies(d) PROVE StampOK'
  BY <1>4, Effects
<1>5. ASSUME NEW d \in Drainers, NEW r \in Rows, Reject(d, r) PROVE StampOK'
  BY <1>5, RowEffects
<1>6. ASSUME NEW d \in Drainers, NEW r \in Rows, WriteNote(d, r) PROVE StampOK'
  BY <1>6, RowEffects, NoteCopies
<1>7. ASSUME NEW d \in Drainers, NEW r \in Rows, CreateTaskFind(d, r) PROVE StampOK'
  BY <1>7, RowEffects
<1>8. ASSUME NEW d \in Drainers, NEW r \in Rows, CreateTaskAppend(d, r) PROVE StampOK'
  BY <1>8, RowEffects DEF First, TypeOK
<1>9. CASE HandleEnqueue
  BY <1>9 DEF HandleEnqueue, worker, laptop, notes, outside, TypeOK, TracedOK, Traced
<1>10. CASE HandleScheduled
  BY <1>10 DEF HandleScheduled, worker, laptop, notes, outside
<1>11. CASE HandleDeadletterDelete
  BY <1>11 DEF HandleDeadletterDelete, worker, laptop, notes, outside
<1>12. CASE Deliver
  BY <1>12, ServedRow DEF Deliver, worker, laptop, notes, outside
<1>13. CASE EditTask
  BY <1>13 DEF EditTask, worker, laptop, notes, outside
<1>14. CASE AddClient
  BY <1>14 DEF AddClient, worker, laptop, notes, outside
<1>15. CASE UNCHANGED vars
  BY <1>15 DEF vars
<1>16. ASSUME NEW d \in Drainers, NEW r \in Rows, WriteFails(d, r) PROVE StampOK'
  BY <1>16, RowEffects
<1> QED
  BY <1>1, <1>2, <1>3, <1>4, <1>5, <1>6, <1>7, <1>8, <1>9, <1>10, <1>11, <1>12, <1>13, <1>14, <1>15,
     <1>16
  DEF Next, DrainStep

\* A second pass sets the overlap.
LEMMA OnePassStep ==
  ASSUME TypeOK, OnePass, [Next]_vars
  PROVE  OnePass'
<1> USE DEF OnePass, Wrote, Ended, Moved
<1>1. ASSUME NEW d \in Drainers, Pull(d) PROVE OnePass'
  <2>1. ~overlapped' => \A e \in Drainers \ {d} : drain[e].pc = "idle"
    BY <1>1, Zenon DEF Pull
  <2> QED
    BY <1>1, <2>1, Effects
<1>2. ASSUME NEW d \in Drainers, Call(d) PROVE OnePass'
  BY <1>2, Effects, ServedRow DEF Calling
<1>3. ASSUME NEW d \in Drainers, CallFails(d) PROVE OnePass'
  BY <1>3, Effects DEF Calling
<1>4. ASSUME NEW d \in Drainers, PassDies(d) PROVE OnePass'
  BY <1>4, Effects
<1>5. ASSUME NEW d \in Drainers, NEW r \in Rows, Reject(d, r) PROVE OnePass'
  BY <1>5, RowEffects
<1>6. ASSUME NEW d \in Drainers, NEW r \in Rows, WriteNote(d, r) PROVE OnePass'
  BY <1>6, RowEffects, NoteCopies
<1>7. ASSUME NEW d \in Drainers, NEW r \in Rows, CreateTaskFind(d, r) PROVE OnePass'
  BY <1>7, RowEffects
<1>8. ASSUME NEW d \in Drainers, NEW r \in Rows, CreateTaskAppend(d, r) PROVE OnePass'
  BY <1>8, RowEffects
<1>9. CASE HandleEnqueue
  BY <1>9 DEF HandleEnqueue, worker, laptop, notes, outside
<1>10. CASE HandleScheduled
  BY <1>10 DEF HandleScheduled, worker, laptop, notes, outside
<1>11. CASE HandleDeadletterDelete
  BY <1>11 DEF HandleDeadletterDelete, worker, laptop, notes, outside
<1>12. CASE Deliver
  BY <1>12, ServedRow DEF Deliver, worker, laptop, notes, outside
<1>13. CASE EditTask
  BY <1>13 DEF EditTask, worker, laptop, notes, outside
<1>14. CASE AddClient
  BY <1>14 DEF AddClient, worker, laptop, notes, outside
<1>15. CASE UNCHANGED vars
  BY <1>15 DEF vars
<1>16. ASSUME NEW d \in Drainers, NEW r \in Rows, WriteFails(d, r) PROVE OnePass'
  BY <1>16, RowEffects
<1> QED
  BY <1>1, <1>2, <1>3, <1>4, <1>5, <1>6, <1>7, <1>8, <1>9, <1>10, <1>11, <1>12, <1>13, <1>14, <1>15,
     <1>16
  DEF Next, DrainStep

\* Copies and faults are numbers that can be compared.
LEMMA Counts == TypeOK => faults \in Nat /\ \A r \in Rows : copies[r] \in Nat
BY DrainAssumption DEF TypeOK

\* While one pass is between its lookup and its append, nobody else writes the row.
LEMMA AppendStep ==
  ASSUME TypeOK, TracedOK, PassOK, OnePass, StampOK, AppendOK, [Next]_vars
  PROVE  AppendOK'
<1> USE DEF AppendOK, First, Wrote, Ended, Moved
<1>1. ASSUME NEW d \in Drainers, Pull(d) PROVE AppendOK'
  <2>1. ~overlapped' => ~overlapped /\ \A e \in Drainers \ {d} : drain[e].pc = "idle"
    BY <1>1, Zenon DEF Pull
  <2> QED
    BY <1>1, <2>1, Effects
<1>2. ASSUME NEW d \in Drainers, Call(d) PROVE AppendOK'
  BY <1>2, Effects, ServedRow DEF Calling
<1>3. ASSUME NEW d \in Drainers, CallFails(d) PROVE AppendOK'
  BY <1>3, Effects DEF Calling
<1>4. ASSUME NEW d \in Drainers, PassDies(d) PROVE AppendOK'
  BY <1>4, Effects
<1>5. ASSUME NEW d \in Drainers, NEW r \in Rows, Reject(d, r) PROVE AppendOK'
  BY <1>5, RowEffects
<1>6. ASSUME NEW d \in Drainers, NEW r \in Rows, WriteNote(d, r) PROVE AppendOK'
  BY <1>6, RowEffects, NoteCopies DEF OnePass
<1>7. ASSUME NEW d \in Drainers, NEW r \in Rows, CreateTaskFind(d, r) PROVE AppendOK'
  <2>1. drain[d].batch \subseteq Int
    BY DrainAssumption DEF TypeOK, DrainType, Rows
  <2>2. CASE Wrote(d, r)
    BY <1>7, <2>2, RowEffects
  <2>3. CASE ~Drained(r) /\ Moved(d, "append", drain[d].batch, drain[d].written, drain[d].rejected)
    <3>1. \A q \in Rows : First(d, q)' => q = r
      BY <1>7, <2>1, <2>3, RowEffects
    <3>2. kind[r] \in {"task", "client"} /\ r \notin edited => copies[r] = 0
      BY <2>3, Counts DEF Drained
    <3> QED
      BY <1>7, <2>3, <3>1, <3>2, RowEffects
  <2> QED
    BY <1>7, <2>2, <2>3, RowEffects
<1>8. ASSUME NEW d \in Drainers, NEW r \in Rows, CreateTaskAppend(d, r) PROVE AppendOK'
  BY <1>8, RowEffects DEF OnePass, TypeOK
<1>9. CASE HandleEnqueue
  BY <1>9 DEF HandleEnqueue, worker, laptop, notes, outside, TypeOK, TracedOK, Traced
<1>10. CASE HandleScheduled
  BY <1>10 DEF HandleScheduled, worker, laptop, notes, outside
<1>11. CASE HandleDeadletterDelete
  BY <1>11 DEF HandleDeadletterDelete, worker, laptop, notes, outside
<1>12. CASE Deliver
  BY <1>12, ServedRow DEF Deliver, worker, laptop, notes, outside
<1>13. CASE EditTask
  BY <1>13 DEF EditTask, worker, laptop, notes, outside
<1>14. CASE AddClient
  BY <1>14 DEF AddClient, worker, laptop, notes, outside
<1>15. CASE UNCHANGED vars
  BY <1>15 DEF vars
<1>16. ASSUME NEW d \in Drainers, NEW r \in Rows, WriteFails(d, r) PROVE AppendOK'
  BY <1>16, RowEffects
<1> QED
  BY <1>1, <1>2, <1>3, <1>4, <1>5, <1>6, <1>7, <1>8, <1>9, <1>10, <1>11, <1>12, <1>13, <1>14, <1>15,
     <1>16
  DEF Next, DrainStep

\* A row leaves the queue when it is in the vault or the user deletes it.
LEMMA NeverDroppedStep ==
  ASSUME TypeOK, TracedOK, AcksOK, StampOK, NeverDropped, [Next]_vars
  PROVE  NeverDropped'
<1> USE DEF NeverDropped, Kept, Wrote, Ended, Moved
<1>1. ASSUME NEW d \in Drainers, Pull(d) PROVE NeverDropped'
  BY <1>1, Effects
<1>2. ASSUME NEW d \in Drainers, Call(d) PROVE NeverDropped'
  BY <1>2, Effects, ServedRow DEF AcksOK, InVault, CallIds, NextCall
<1>3. ASSUME NEW d \in Drainers, CallFails(d) PROVE NeverDropped'
  BY <1>3, Effects
<1>4. ASSUME NEW d \in Drainers, PassDies(d) PROVE NeverDropped'
  BY <1>4, Effects
<1>5. ASSUME NEW d \in Drainers, NEW r \in Rows, Reject(d, r) PROVE NeverDropped'
  BY <1>5, RowEffects
<1>6. ASSUME NEW d \in Drainers, NEW r \in Rows, WriteNote(d, r) PROVE NeverDropped'
  BY <1>6, RowEffects, NoteCopies
<1>7. ASSUME NEW d \in Drainers, NEW r \in Rows, CreateTaskFind(d, r) PROVE NeverDropped'
  BY <1>7, RowEffects
<1>8. ASSUME NEW d \in Drainers, NEW r \in Rows, CreateTaskAppend(d, r) PROVE NeverDropped'
  BY <1>8, RowEffects DEF First, TypeOK
<1>9. CASE HandleEnqueue
  BY <1>9 DEF HandleEnqueue, worker, laptop, notes, outside, TypeOK
<1>10. CASE HandleScheduled
  BY <1>10 DEF HandleScheduled, worker, laptop, notes, outside, TypeOK
<1>11. CASE HandleDeadletterDelete
  BY <1>11 DEF HandleDeadletterDelete, worker, laptop, notes, outside, TypeOK
<1>12. CASE Deliver
  BY <1>12, ServedRow DEF Deliver, worker, laptop, notes, outside, AcksOK, InVault, TypeOK
<1>13. CASE EditTask
  BY <1>13 DEF EditTask, worker, laptop, notes, outside
<1>14. CASE AddClient
  BY <1>14 DEF AddClient, worker, laptop, notes, outside
<1>15. CASE UNCHANGED vars
  BY <1>15 DEF vars
<1>16. ASSUME NEW d \in Drainers, NEW r \in Rows, WriteFails(d, r) PROVE NeverDropped'
  BY <1>16, RowEffects
<1> QED
  BY <1>1, <1>2, <1>3, <1>4, <1>5, <1>6, <1>7, <1>8, <1>9, <1>10, <1>11, <1>12, <1>13, <1>14, <1>15,
     <1>16
  DEF Next, DrainStep

\* A task is appended only if its row has no task yet.
LEMMA TaskOnceStep ==
  ASSUME TypeOK, TracedOK, StampOK, AppendOK, TaskOnce, [Next]_vars
  PROVE  TaskOnce'
<1> USE DEF TaskOnce, Wrote, Ended, Moved
<1>1. ASSUME NEW d \in Drainers, Pull(d) PROVE TaskOnce'
  BY <1>1, Effects DEF OnePass
<1>2. ASSUME NEW d \in Drainers, Call(d) PROVE TaskOnce'
  BY <1>2, Effects, ServedRow
<1>3. ASSUME NEW d \in Drainers, CallFails(d) PROVE TaskOnce'
  BY <1>3, Effects
<1>4. ASSUME NEW d \in Drainers, PassDies(d) PROVE TaskOnce'
  BY <1>4, Effects
<1>5. ASSUME NEW d \in Drainers, NEW r \in Rows, Reject(d, r) PROVE TaskOnce'
  BY <1>5, RowEffects
<1>6. ASSUME NEW d \in Drainers, NEW r \in Rows, WriteNote(d, r) PROVE TaskOnce'
  BY <1>6, RowEffects, NoteCopies DEF TypeOK, IsTask
<1>7. ASSUME NEW d \in Drainers, NEW r \in Rows, CreateTaskFind(d, r) PROVE TaskOnce'
  BY <1>7, RowEffects
<1>8. ASSUME NEW d \in Drainers, NEW r \in Rows, CreateTaskAppend(d, r) PROVE TaskOnce'
  BY <1>8, RowEffects DEF TypeOK, AppendOK
<1>9. CASE HandleEnqueue
  BY <1>9 DEF HandleEnqueue, worker, laptop, notes, outside, TypeOK, TracedOK, Traced
<1>10. CASE HandleScheduled
  BY <1>10 DEF HandleScheduled, worker, laptop, notes, outside
<1>11. CASE HandleDeadletterDelete
  BY <1>11 DEF HandleDeadletterDelete, worker, laptop, notes, outside
<1>12. CASE Deliver
  BY <1>12, ServedRow DEF Deliver, worker, laptop, notes, outside
<1>13. CASE EditTask
  BY <1>13 DEF EditTask, worker, laptop, notes, outside
<1>14. CASE AddClient
  BY <1>14 DEF AddClient, worker, laptop, notes, outside
<1>15. CASE UNCHANGED vars
  BY <1>15 DEF vars
<1>16. ASSUME NEW d \in Drainers, NEW r \in Rows, WriteFails(d, r) PROVE TaskOnce'
  BY <1>16, RowEffects
<1> QED
  BY <1>1, <1>2, <1>3, <1>4, <1>5, <1>6, <1>7, <1>8, <1>9, <1>10, <1>11, <1>12, <1>13, <1>14, <1>15,
     <1>16
  DEF Next, DrainStep

\* A row goes back to where it may be written only with a failure.
LEMMA NotesStep ==
  ASSUME TypeOK, TracedOK, PassOK, OnePass, StampOK, NotesOK, NoteCopiesNeedFaults, [Next]_vars
  PROVE  NotesOK'
<1> USE DEF NotesOK, Unwritable, IsTask, Wrote, Ended, Moved
<1>1. ASSUME NEW d \in Drainers, Pull(d) PROVE NotesOK'
  <2>1. ~overlapped' => ~overlapped /\ \A e \in Drainers \ {d} : drain[e].pc = "idle"
    BY <1>1, Zenon DEF Pull
  <2>2. \A r \in Batch : cloud[r] = "pending"
    BY DEF Batch, Pending
  <2> SUFFICES ASSUME ~overlapped', NEW r \in Rows, ~IsTask(r)', \A q \in Rows : kind'[q] # "long",
                      cloud'[r] = "pending" \/ \E e \in Drainers : r \in drain'[e].batch
               PROVE  copies'[r] <= faults'
    OBVIOUS
  <2>3. \A e \in Drainers : drain[e].batch = {} /\ drain[e].written = {}
    BY <1>1, <2>1, Effects DEF PassOK
  <2>4. cloud[r] = "pending"
    BY <1>1, <2>2, <2>3, Effects
  <2> QED
    BY <1>1, <2>1, <2>3, <2>4, Effects
<1>2. ASSUME NEW d \in Drainers, Call(d) PROVE NotesOK'
  <2> SUFFICES ASSUME ~overlapped, NEW r \in Rows, ~IsTask(r), \A q \in Rows : kind[q] # "long",
                      cloud'[r] = "pending" \/ \E e \in Drainers : r \in drain'[e].batch,
                      \A e \in Drainers : r \notin drain'[e].written
               PROVE  copies[r] <= faults
    BY <1>2, Effects
  <2>1. \A e \in Drainers : drain'[e].batch = {}
    BY <1>2, Effects DEF Calling, OnePass, PassOK
  <2>2. cloud[r] = "pending" /\ ~(NextCall(d) = "ack" /\ r \in CallIds(d))
    BY <1>2, <2>1, Effects, ServedRow
  <2>3. r \notin drain[d].written
    BY <2>2 DEF NextCall, CallIds
  <2> QED
    BY <1>2, <2>2, <2>3, Effects
<1>3. ASSUME NEW d \in Drainers, CallFails(d) PROVE NotesOK'
  BY <1>3, Effects, Counts DEF NoteCopiesNeedFaults
<1>4. ASSUME NEW d \in Drainers, PassDies(d) PROVE NotesOK'
  BY <1>4, Effects, Counts DEF NoteCopiesNeedFaults
<1>5. ASSUME NEW d \in Drainers, NEW r \in Rows, Reject(d, r) PROVE NotesOK'
  BY <1>5, RowEffects
<1>6. ASSUME NEW d \in Drainers, NEW r \in Rows, WriteNote(d, r) PROVE NotesOK'
  <2>1. \A q \in Rows \ {r} : copies'[q] <= copies[q] /\ copies'[q] \in Nat
    BY <1>6, NoteCopies
  <2>2. r \in drain'[d].written
    BY <1>6, RowEffects
  <2> QED
    BY <1>6, <2>1, <2>2, RowEffects, Counts
<1>7. ASSUME NEW d \in Drainers, NEW r \in Rows, CreateTaskFind(d, r) PROVE NotesOK'
  BY <1>7, RowEffects
<1>8. ASSUME NEW d \in Drainers, NEW r \in Rows, CreateTaskAppend(d, r) PROVE NotesOK'
  <2>1. IsTask(r) /\ \A q \in Rows \ {r} : copies'[q] = copies[q]
    BY <1>8, RowEffects DEF PassOK, TypeOK
  <2> QED
    BY <1>8, <2>1, RowEffects
<1>9. CASE HandleEnqueue
  <2>1. PICK r \in Rows : /\ cloud[r] = "none" /\ \A q \in Rows \ {r} : kind'[q] = kind[q]
                          /\ \A q \in Rows \ {r} : cloud'[q] = cloud[q]
    BY <1>9 DEF HandleEnqueue, TypeOK
  <2>2. copies[r] = 0 /\ kind[r] = "none"
    BY <2>1, Counts DEF TracedOK, Traced
  <2>3. (\A q \in Rows : ~Unwritable(q))' => \A q \in Rows : ~Unwritable(q)
    BY <2>1, <2>2
  <2> QED
    BY <1>9, <2>1, <2>2, <2>3, Counts DEF HandleEnqueue, laptop, outside
<1>10. CASE HandleScheduled
  BY <1>10 DEF HandleScheduled, worker, laptop, notes, outside
<1>11. CASE HandleDeadletterDelete
  BY <1>11 DEF HandleDeadletterDelete, worker, laptop, notes, outside
<1>12. CASE Deliver
  BY <1>12, ServedRow DEF Deliver, worker, laptop, notes, outside
<1>13. CASE EditTask
  BY <1>13 DEF EditTask, worker, laptop, notes, outside
<1>14. CASE AddClient
  BY <1>14 DEF AddClient, worker, laptop, notes, outside
<1>15. CASE UNCHANGED vars
  BY <1>15 DEF vars
<1>16. ASSUME NEW d \in Drainers, NEW r \in Rows, WriteFails(d, r) PROVE NotesOK'
  BY <1>16, RowEffects
<1> QED
  BY <1>1, <1>2, <1>3, <1>4, <1>5, <1>6, <1>7, <1>8, <1>9, <1>10, <1>11, <1>12, <1>13, <1>14, <1>15,
     <1>16
  DEF Next, DrainStep

\* A row that is written again has a failure for every copy.
LEMMA NoteCopiesStep ==
  ASSUME TypeOK, TracedOK, PassOK, StampOK, NotesOK, OnePass, NoteCopiesNeedFaults, [Next]_vars
  PROVE  NoteCopiesNeedFaults'
<1> USE DEF NoteCopiesNeedFaults, Unwritable, IsTask, Wrote, Ended, Moved
<1>1. ASSUME NEW d \in Drainers, Pull(d) PROVE NoteCopiesNeedFaults'
  <2>1. ~overlapped' => ~overlapped /\ \A e \in Drainers \ {d} : drain[e].pc = "idle"
    BY <1>1, Zenon DEF Pull
  <2> QED
    BY <1>1, <2>1, Effects
<1>2. ASSUME NEW d \in Drainers, Call(d) PROVE NoteCopiesNeedFaults'
  BY <1>2, Effects, ServedRow
<1>3. ASSUME NEW d \in Drainers, CallFails(d) PROVE NoteCopiesNeedFaults'
  BY <1>3, Effects, Counts DEF NoteCopiesNeedFaults
<1>4. ASSUME NEW d \in Drainers, PassDies(d) PROVE NoteCopiesNeedFaults'
  BY <1>4, Effects, Counts DEF NoteCopiesNeedFaults
<1>5. ASSUME NEW d \in Drainers, NEW r \in Rows, Reject(d, r) PROVE NoteCopiesNeedFaults'
  BY <1>5, RowEffects
<1>6. ASSUME NEW d \in Drainers, NEW r \in Rows, WriteNote(d, r) PROVE NoteCopiesNeedFaults'
  <2>1. \A q \in Rows \ {r} : copies'[q] <= copies[q] /\ copies'[q] \in Nat
    BY <1>6, NoteCopies
  <2>2. ~overlapped /\ (\A q \in Rows : kind[q] # "long") => copies[r] <= faults
    BY <1>6, RowEffects DEF NotesOK, PassOK, OnePass, First
  <2>3. copies'[r] <= copies[r] + 1 /\ copies'[r] \in Nat
    BY <1>6, NoteCopies
  <2> QED
    BY <1>6, <2>1, <2>2, <2>3, RowEffects, Counts
<1>7. ASSUME NEW d \in Drainers, NEW r \in Rows, CreateTaskFind(d, r) PROVE NoteCopiesNeedFaults'
  BY <1>7, RowEffects
<1>8. ASSUME NEW d \in Drainers, NEW r \in Rows, CreateTaskAppend(d, r) PROVE NoteCopiesNeedFaults'
  <2>1. IsTask(r) /\ \A q \in Rows \ {r} : copies'[q] = copies[q]
    BY <1>8, RowEffects DEF PassOK, TypeOK
  <2> QED
    BY <1>8, <2>1, RowEffects
<1>9. CASE HandleEnqueue
  <2>1. PICK r \in Rows : /\ cloud[r] = "none" /\ \A q \in Rows \ {r} : kind'[q] = kind[q]
                          /\ \A q \in Rows \ {r} : cloud'[q] = cloud[q]
    BY <1>9 DEF HandleEnqueue, TypeOK
  <2>2. copies[r] = 0 /\ kind[r] = "none"
    BY <2>1, Counts DEF TracedOK, Traced
  <2>3. (\A q \in Rows : ~Unwritable(q))' => \A q \in Rows : ~Unwritable(q)
    BY <2>1, <2>2
  <2> QED
    BY <1>9, <2>1, <2>2, <2>3, Counts DEF HandleEnqueue, laptop, outside
<1>10. CASE HandleScheduled
  BY <1>10 DEF HandleScheduled, worker, laptop, notes, outside
<1>11. CASE HandleDeadletterDelete
  BY <1>11 DEF HandleDeadletterDelete, worker, laptop, notes, outside
<1>12. CASE Deliver
  BY <1>12, ServedRow DEF Deliver, worker, laptop, notes, outside
<1>13. CASE EditTask
  BY <1>13 DEF EditTask, worker, laptop, notes, outside
<1>14. CASE AddClient
  BY <1>14 DEF AddClient, worker, laptop, notes, outside
<1>15. CASE UNCHANGED vars
  BY <1>15 DEF vars
<1>16. ASSUME NEW d \in Drainers, NEW r \in Rows, WriteFails(d, r) PROVE NoteCopiesNeedFaults'
  BY <1>16, RowEffects
<1> QED
  BY <1>1, <1>2, <1>3, <1>4, <1>5, <1>6, <1>7, <1>8, <1>9, <1>10, <1>11, <1>12, <1>13, <1>14, <1>15,
     <1>16
  DEF Next, DrainStep

\* Types.
LEMMA TypeStep ==
  ASSUME TypeOK, PassOK, TracedOK, StampOK, [Next]_vars
  PROVE  TypeOK'
<1>0. OnePlace'
  BY PassStep DEF PassOK, OnePlace
<1> USE <1>0, DrainAssumption DEF TypeOK, DrainType, worker, laptop, notes, outside
<1>1. ASSUME NEW d \in Drainers, Pull(d) PROVE TypeOK'
  <2>1. Batch \subseteq Rows
    BY DEF Batch, Pending
  <2>2. overlapped' \in BOOLEAN
    BY <1>1, Zenon DEF Pull
  <2>3. drain' \in [Drainers -> DrainType]
    <3>1. [drain[d] EXCEPT !.pc = "row", !.batch = Batch] \in DrainType
      BY <2>1
    <3>2. drain' = [drain EXCEPT ![d] = [drain[d] EXCEPT !.pc = "row", !.batch = Batch]]
      BY <1>1 DEF Pull
    <3> HIDE DEF DrainType
    <3> QED
      BY <3>1, <3>2
  <2> QED
    BY <1>1, <2>2, <2>3 DEF Pull
<1>2. ASSUME NEW d \in Drainers, Call(d) PROVE TypeOK'
  <2>1. cloud' \in [Rows -> {"none", "pending", "deadletter", "gone"}]
    BY <1>2 DEF Call, Served
  <2>2. drain' \in [Drainers -> DrainType]
    <3> DEFINE after == IF NextCall(d) = "ack" THEN [drain[d] EXCEPT !.written = {}] ELSE Idle
    <3>1. drain' = [drain EXCEPT ![d] = after]
      BY <1>2 DEF Call, Answered
    <3>2. after \in DrainType
      BY DEF Idle
    <3> HIDE DEF after, DrainType
    <3> QED BY <3>1, <3>2
  <2> QED
    BY <1>2, <2>1, <2>2 DEF Call
<1>3. ASSUME NEW d \in Drainers, CallFails(d) PROVE TypeOK'
  <2>1. [op |-> NextCall(d), ids |-> CallIds(d)] \in [op : {"ack", "deadletter"}, ids : SUBSET Rows]
    BY <1>3 DEF CallFails, NextCall, CallIds
  <2> QED
    BY <1>3, <2>1 DEF CallFails, Fault, Idle
<1>4. ASSUME NEW d \in Drainers, PassDies(d) PROVE TypeOK'
  BY <1>4 DEF PassDies, Fault, Idle
<1>5. ASSUME NEW d \in Drainers, NEW r \in Rows, Reject(d, r) PROVE TypeOK'
  BY <1>5 DEF Reject, Done, First
<1>6. ASSUME NEW d \in Drainers, NEW r \in Rows, WriteNote(d, r) PROVE TypeOK'
  <2>1. titled' \in BOOLEAN
    BY <1>6, Zenon DEF WriteNote
  <2>2. copies' \in [Rows -> Nat] /\ stamped' \in Rows \cup {NoRow}
    BY <1>6, NoteCopies
  <2>3. drain' \in [Drainers -> DrainType]
    BY <1>6 DEF WriteNote, Done, First
  <2> QED
    BY <1>6, <2>1, <2>2, <2>3 DEF WriteNote
<1>7. ASSUME NEW d \in Drainers, NEW r \in Rows, CreateTaskFind(d, r) PROVE TypeOK'
  BY <1>7 DEF CreateTaskFind, Done, First
<1>8. ASSUME NEW d \in Drainers, NEW r \in Rows, CreateTaskAppend(d, r) PROVE TypeOK'
  BY <1>8 DEF CreateTaskAppend, Done, First
<1>9. CASE HandleEnqueue
  BY <1>9 DEF HandleEnqueue, worker, laptop, notes, outside
<1>10. CASE HandleScheduled
  BY <1>10 DEF HandleScheduled, worker, laptop, notes, outside
<1>11. CASE HandleDeadletterDelete
  BY <1>11 DEF HandleDeadletterDelete, worker, laptop, notes, outside
<1>12. CASE Deliver
  <2>1. cloud' \in [Rows -> {"none", "pending", "deadletter", "gone"}]
    BY <1>12 DEF Deliver, Served
  <2> QED
    BY <1>12, <2>1 DEF Deliver
<1>13. CASE EditTask
  BY <1>13 DEF EditTask, worker, laptop, notes, outside
<1>14. CASE AddClient
  <2>1. clients' \in BOOLEAN
    BY <1>14, Zenon DEF AddClient
  <2> QED
    BY <1>14, <2>1 DEF AddClient
<1>15. CASE UNCHANGED vars
  BY <1>15 DEF vars
<1>16. ASSUME NEW d \in Drainers, NEW r \in Rows, WriteFails(d, r) PROVE TypeOK'
  BY <1>16 DEF WriteFails, Idle
<1> QED
  BY <1>1, <1>2, <1>3, <1>4, <1>5, <1>6, <1>7, <1>8, <1>9, <1>10, <1>11, <1>12, <1>13, <1>14, <1>15,
     <1>16
  DEF Next, DrainStep

\* Nothing captured, nobody draining.
LEMMA DrainInvInit == Init => DrainInv
<1> SUFFICES ASSUME Init PROVE DrainInv
  OBVIOUS
<1>1. TypeOK
  <2>1. clients \in BOOLEAN /\ overlapped \in BOOLEAN /\ titled \in BOOLEAN
    BY Zenon DEF Init
  <2>2. drain \in [Drainers -> DrainType]
    BY DEF Init, Idle, DrainType
  <2>3. OnePlace
    BY DEF Init, Idle, OnePlace
  <2> QED
    BY <2>1, <2>2, <2>3, DrainAssumption DEF Init, TypeOK
<1>2. PassOK /\ TracedOK /\ AcksOK /\ StampOK /\ OnePass /\ AppendOK
  BY DEF Init, Idle, PassOK, TracedOK, Traced, AcksOK, StampOK, OnePass, AppendOK, First, Rows, NoRow
<1>3. NotesOK /\ NeverDropped /\ TaskOnce /\ NoteCopiesNeedFaults
  BY DEF Init, NotesOK, NeverDropped, Kept, TaskOnce, NoteCopiesNeedFaults
<1> QED
  BY <1>1, <1>2, <1>3 DEF DrainInv

\* Every step keeps every part of the invariant.
LEMMA DrainInvStep == DrainInv /\ [Next]_vars => DrainInv'
BY TypeStep, PassStep, TracedStep, AcksStep, StampStep, OnePassStep, AppendStep, NotesStep,
   NeverDroppedStep, TaskOnceStep, NoteCopiesStep DEF DrainInv

\* The invariant holds in every reachable state.
LEMMA DrainInvariant == Spec => []DrainInv
BY DrainInvInit, DrainInvStep, PTL DEF Spec

---------------------------------------------------------------------------
\* The theorems

\* Rows, vault entries and passes keep their types; no pass has a row both among
\* the written and among the rejected, and no entry of the vault is taken away
\* more often than it was written.
THEOREM DrainTypeCorrect == Spec => []TypeOK
BY DrainInvariant, PTL DEF DrainInv

\* drain_service.go acks what it has written and deadletters what it rejects: a
\* task or capture is never lost between the phone and the vault, whatever calls
\* fail, arrive late or race.
THEOREM NothingDropped == Spec => []NeverDropped
BY DrainInvariant, PTL DEF DrainInv

\* CreateTask's lookup makes the retry of a lost ack write nothing.
THEOREM TaskWrittenOnce == Spec => []TaskOnce
BY DrainInvariant, PTL DEF DrainInv

\* AddNote and Capture have no such lookup: a failure costs at most one more
\* copy, and without failures there is one, as long as no note whose title is too
\* long for a file name stops the passes.
THEOREM CopiesPaidByFaults == Spec => []NoteCopiesNeedFaults
BY DrainInvariant, PTL DEF DrainInv
=============================================================================
