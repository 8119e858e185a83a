----------------------------- MODULE DrainQueue -----------------------------
(***************************************************************************)
(* Remote capture: the queue Worker (worker/src/index.js), its client      *)
(* (internal/remotequeue), the drain pass that moves rows into the vault   *)
(* (internal/service/drain_service.go) and the idempotent CreateTask it    *)
(* relies on (internal/service/task_service.go).                           *)
(*                                                                         *)
(* A pass pulls pending rows, writes each one, then acks the written rows  *)
(* and deadletters the rejected ones.  Any request may fail at the client  *)
(* and still reach the Worker, at once, late or never; a pass may die      *)
(* anywhere; a timer and a user may run two passes at once.                *)
(***************************************************************************)
EXTENDS Integers, FiniteSets

CONSTANTS
  MaxRows,   \* bound: rows the phone sends
  Kinds,     \* kinds of rows the phone sends, a subset of AllKinds
  Drainers,  \* processes running `qi remote-drain`
  Limit,     \* rows per pull
  MaxFaults, \* bound: failed requests, failed writes and killed passes
  CopyCap    \* bound: the copies of a row are counted up to it

\* "task": its text parses back to itself; "marked": it does not, because the
\* text holds a date, recurrence or parent marker; "client": a task for a client
\* the laptop may not know; "long": a note whose title the Worker accepts and no
\* file can be named after; "baddate": passes the Worker's pattern but is no date.
AllKinds == {"task", "marked", "client", "note", "long", "capture", "baddate"}

\* The ids mintID hands out, in the order of created_at.
Rows == 1..MaxRows
NoRow == 0

ASSUME DrainAssumption ==
  /\ MaxRows \in Nat /\ Kinds \subseteq AllKinds /\ Limit \in Nat \ {0}
  /\ MaxFaults \in Nat /\ CopyCap \in Nat /\ CopyCap > MaxFaults + 1

VARIABLES
  cloud,       \* status of each row: "none", "pending", "deadletter", "gone"
  kind,        \* what each row is
  clients,     \* the client of the "client" rows is configured
  copies,      \* how many entries of the vault were made from each row
  titled,      \* the vault has a note with the title of the "note" rows
  stamped,     \* the row whose note was last written under a time-stamped name
  edited,      \* rows whose text a user has changed in the vault
  drain,       \* each drain process
  late,        \* requests the client has given up and the Worker may still see
  faults,      \* history: failures so far
  overlapped,  \* history: two passes have run at once
  resolved     \* history: deadletter rows a user deleted

vars == <<cloud, kind, clients, copies, titled, stamped, edited, drain, late,
          faults, overlapped, resolved>>
worker  == <<cloud, kind, resolved>>
notes   == <<titled, stamped>>
laptop  == <<clients, copies, notes, edited>>
outside == <<late, faults, overlapped>>

---------------------------------------------------------------------------
\* The Worker's statements.

Pending == {r \in Rows : cloud[r] = "pending"}

\* The first Limit of them; a pass takes them in their order, which is Rows'.
Batch == {r \in Pending : Cardinality({q \in Pending : q < r}) < Limit}

\* POST /ack deletes pending rows only; POST /deadletter marks any row.
Served(op, ids) ==
  [r \in Rows |->
     CASE r \in ids /\ op = "ack" /\ cloud[r] = "pending" -> "gone"
       [] r \in ids /\ op = "deadletter" /\ cloud[r] \in {"pending", "deadletter"} -> "deadletter"
       [] OTHER -> cloud[r]]

\* POST /enqueue: validated, minted, inserted.
HandleEnqueue ==
  /\ \E r \in Rows, k \in Kinds :
       /\ cloud[r] = "none" /\ \A q \in 1..(r - 1) : cloud[q] # "none"
       /\ cloud' = [cloud EXCEPT ![r] = "pending"]
       /\ kind' = [kind EXCEPT ![r] = k]
  /\ UNCHANGED <<resolved, laptop, drain, outside>>

\* The cron purge: the pending rows older than a week.
HandleScheduled ==
  /\ \E cutoff \in Rows :
       /\ \E r \in 1..cutoff : cloud[r] = "pending"
       /\ cloud' = [r \in Rows |-> IF r <= cutoff /\ cloud[r] = "pending"
                                    THEN "deadletter" ELSE cloud[r]]
  /\ UNCHANGED <<kind, resolved, laptop, drain, outside>>

\* DELETE /deadletter: the user is done with a row.
HandleDeadletterDelete ==
  /\ \E r \in Rows :
       /\ cloud[r] = "deadletter"
       /\ cloud' = [cloud EXCEPT ![r] = "gone"]
       /\ resolved' = resolved \cup {r}
  /\ UNCHANGED <<kind, laptop, drain, outside>>

\* A request the client gave up on arrives.
Deliver ==
  /\ \E m \in late :
       /\ cloud' = Served(m.op, m.ids)
       /\ late' = late \ {m}
  /\ UNCHANGED <<kind, resolved, laptop, drain, faults, overlapped>>

---------------------------------------------------------------------------
\* One drain pass.

Idle == [pc |-> "idle", batch |-> {}, written |-> {}, rejected |-> {}]

Fault == faults < MaxFaults /\ faults' = faults + 1

\* Queue.Pull.
Pull(d) ==
  /\ drain[d].pc = "idle"
  /\ Batch # {}
  /\ drain' = [drain EXCEPT ![d].pc = "row", ![d].batch = Batch]
  /\ overlapped' = (overlapped \/ \E e \in Drainers \ {d} : drain[e].pc # "idle")
  /\ UNCHANGED <<worker, laptop, late, faults>>

IsTask(r) == kind[r] \in {"task", "marked", "client"}

\* ValidateAddInput or parseDrainDate refuses the row.
Rejects(r) == kind[r] = "baddate" \/ (kind[r] = "client" /\ ~clients)

\* The next row of the pass.
First(d, r) == r \in drain[d].batch /\ \A q \in drain[d].batch : r <= q

\* Mutant of Done: rejected rows are acked with the others.
DoneAcksAll(d, r, field) ==
  drain' = [drain EXCEPT ![d].pc = "row", ![d].batch = @ \ {r},
                         ![d].written = @ \cup {r}]

\* Mutant of Done: the `continue` after a rejection is missing, and the row is
\* written as well.
DoneFallsThrough(d, r, field) ==
  drain' = [drain EXCEPT ![d].pc = "row", ![d].batch = @ \ {r},
                         ![d].written = @ \cup {r},
                         ![d].rejected = IF field = "rejected" THEN @ \cup {r} ELSE @]

\* The row is dealt with: go on with the next.
Done(d, r, field) ==
  drain' = [drain EXCEPT ![d].pc = "row", ![d].batch = @ \ {r},
                         ![d][field] = @ \cup {r}]

Reject(d, r) ==
  /\ drain[d].pc = "row" /\ First(d, r)
  /\ Rejects(r)
  /\ Done(d, r, "rejected")
  /\ UNCHANGED <<worker, laptop, outside>>

\* vault.WriteNote names the file after the whole title; the file system refuses
\* a name of more than 255 bytes, in every pass again.
Unwritable(r) == kind[r] = "long"

\* Drain returns the error: the rows written before this one are not acked.
WriteFails(d, r) ==
  /\ drain[d].pc = "row" /\ First(d, r)
  /\ Unwritable(r)
  /\ drain' = [drain EXCEPT ![d] = Idle]
  /\ UNCHANGED <<worker, laptop, outside>>

OneMore(r) == IF copies[r] < CopyCap THEN 1 ELSE 0

\* AddNote or Capture: written whether or not the row was drained before.  A
\* capture's name is never taken.  A note's is its title's, and if that is taken
\* the title's with the time of day in seconds: written in the same second, two
\* such notes are one file.
WriteNote(d, r) ==
  /\ drain[d].pc = "row" /\ First(d, r)
  /\ ~IsTask(r) /\ ~Rejects(r) /\ ~Unwritable(r)
  /\ LET suffixed == kind[r] = "note" /\ titled
     IN /\ \E lost \in {NoRow} \cup (IF suffixed THEN {stamped} ELSE {}) :
             copies' = [q \in Rows |-> copies[q] + (IF q = r THEN OneMore(r) ELSE 0)
                                                 - (IF q = lost THEN 1 ELSE 0)]
        /\ stamped' = IF suffixed THEN r ELSE stamped
        /\ titled' = (titled \/ kind[r] = "note")
  /\ Done(d, r, "written")
  /\ UNCHANGED <<worker, clients, edited, outside>>

\* findByID and taskTextMatches: the task is in the vault with the row's text.
Drained(r) == copies[r] > 0 /\ r \notin edited /\ kind[r] # "marked"

\* Mutant of CreateTaskFind: no idempotency guard.
CreateTaskBlindly(d, r) ==
  /\ drain[d].pc = "row" /\ First(d, r)
  /\ IsTask(r) /\ ~Rejects(r)
  /\ drain' = [drain EXCEPT ![d].pc = "append"]
  /\ UNCHANGED <<worker, laptop, outside>>

\* CreateTask up to the outcome of its lookup ...
CreateTaskFind(d, r) ==
  /\ drain[d].pc = "row" /\ First(d, r)
  /\ IsTask(r) /\ ~Rejects(r)
  /\ IF Drained(r) THEN Done(d, r, "written")
                   ELSE drain' = [drain EXCEPT ![d].pc = "append"]
  /\ UNCHANGED <<worker, laptop, outside>>

\* ... and its AppendTask, under the row's id or, if that is taken, a new one.
CreateTaskAppend(d, r) ==
  /\ drain[d].pc = "append" /\ First(d, r)
  /\ copies' = [copies EXCEPT ![r] = @ + OneMore(r)]
  /\ Done(d, r, "written")
  /\ UNCHANGED <<worker, clients, notes, edited, outside>>

\* Ack and then Deadletter, each skipped when it has no ids.
NextCall(d) ==
  IF drain[d].written # {} THEN "ack"
  ELSE IF drain[d].rejected # {} THEN "deadletter" ELSE "none"

CallIds(d) == IF NextCall(d) = "ack" THEN drain[d].written ELSE drain[d].rejected

Calling(d) == drain[d].pc = "row" /\ drain[d].batch = {}

Answered(d) ==
  drain' = [drain EXCEPT ![d] =
              IF NextCall(d) = "ack" THEN [@ EXCEPT !.written = {}] ELSE Idle]


\* Mutant of Call: a note's row is not acked.
CallSkipsNotes(d) ==
  /\ Calling(d)
  /\ cloud' = Served(NextCall(d), {r \in CallIds(d) : IsTask(r)})
  /\ Answered(d)
  /\ UNCHANGED <<kind, resolved, laptop, outside>>

\* The next call of the pass succeeds, or there is none and the pass is over.
Call(d) ==
  /\ Calling(d)
  /\ cloud' = Served(NextCall(d), CallIds(d))
  /\ Answered(d)
  /\ UNCHANGED <<kind, resolved, laptop, outside>>

\* It fails at the client, and Drain returns the error.
CallFails(d) ==
  /\ Calling(d) /\ NextCall(d) # "none"
  /\ Fault
  /\ late' = late \cup {[op |-> NextCall(d), ids |-> CallIds(d)]}
  /\ drain' = [drain EXCEPT ![d] = Idle]
  /\ UNCHANGED <<worker, laptop, overlapped>>

\* A vault write fails for want of the disk, or the process is killed: nothing is
\* acked.
PassDies(d) ==
  /\ drain[d].pc # "idle"
  /\ Fault
  /\ drain' = [drain EXCEPT ![d] = Idle]
  /\ UNCHANGED <<worker, laptop, late, overlapped>>

---------------------------------------------------------------------------
\* The user: edits a drained task in the vault, configures the client.

EditTask ==
  /\ \E r \in Rows \ edited :
       /\ IsTask(r) /\ copies[r] > 0
       /\ edited' = edited \cup {r}
  /\ UNCHANGED <<worker, clients, copies, notes, drain, outside>>

AddClient ==
  /\ "client" \in Kinds /\ ~clients
  /\ clients' = TRUE
  /\ UNCHANGED <<worker, copies, notes, edited, drain, outside>>

---------------------------------------------------------------------------
Init ==
  /\ cloud = [r \in Rows |-> "none"]
  /\ kind = [r \in Rows |-> "none"]
  /\ clients = FALSE
  /\ copies = [r \in Rows |-> 0]
  /\ titled = FALSE
  /\ stamped = NoRow
  /\ edited = {}
  /\ drain = [d \in Drainers |-> Idle]
  /\ late = {}
  /\ faults = 0
  /\ overlapped = FALSE
  /\ resolved = {}

DrainStep(d) ==
  \/ Pull(d) \/ Call(d)
  \/ \E r \in Rows :
       \/ Reject(d, r) \/ WriteNote(d, r) \/ WriteFails(d, r)
       \/ CreateTaskFind(d, r) \/ CreateTaskAppend(d, r)

Next ==
  \/ \E d \in Drainers : DrainStep(d) \/ CallFails(d) \/ PassDies(d)
  \/ HandleEnqueue \/ HandleScheduled \/ HandleDeadletterDelete \/ Deliver
  \/ EditTask \/ AddClient

\* The launchd timer starts a pass every five minutes and a pass goes on until
\* it returns; the Worker answers all but MaxFaults requests.
Fairness == \A d \in Drainers : WF_vars(DrainStep(d))

Spec == Init /\ [][Next]_vars /\ Fairness

---------------------------------------------------------------------------
\* Properties

DrainType ==
  [pc : {"idle", "row", "append"}, batch : SUBSET Rows, written : SUBSET Rows,
   rejected : SUBSET Rows]

OnePlace ==
  \A d \in Drainers :
    /\ drain[d].written \cap drain[d].rejected = {}
    /\ drain[d].batch \cap (drain[d].written \cup drain[d].rejected) = {}

\* Types of the Worker's rows, the vault's entries and each drain pass; a pass has
\* a row of its batch still to do, among the written or among the rejected, never
\* in two of these places: a row in both would be acked and gone.
TypeOK ==
  /\ cloud \in [Rows -> {"none", "pending", "deadletter", "gone"}]
  /\ kind \in [Rows -> Kinds \cup {"none"}]
  /\ clients \in BOOLEAN /\ overlapped \in BOOLEAN
  /\ copies \in [Rows -> Nat]
  /\ titled \in BOOLEAN /\ stamped \in Rows \cup {NoRow}
  /\ edited \subseteq Rows /\ resolved \subseteq Rows
  /\ drain \in [Drainers -> DrainType]
  /\ OnePlace
  /\ late \subseteq [op : {"ack", "deadletter"}, ids : SUBSET Rows]
  /\ faults \in 0..MaxFaults

Kept(r) == cloud[r] = "gone" => copies[r] > 0 \/ r \in resolved

\* A task or capture the phone was given an id for is in the queue, in the
\* deadletter list or in the vault until the user deletes it, also when calls
\* fail, arrive late or two passes race.
NeverDropped == \A r \in Rows : kind[r] # "note" => Kept(r)

\* A row's task is written once, however often its ack is lost, as long as its
\* text reads back as it was sent, nobody edits it before the row is acked and
\* no two passes overlap.
TaskOnce ==
  \A r \in Rows :
    kind[r] \in {"task", "client"} /\ r \notin edited /\ ~overlapped => copies[r] <= 1

\* A note or capture is written again only by a pass that follows a failure:
\* every copy after the first is paid for with one, as long as no note with too
\* long a title is among the rows.
NoteCopiesNeedFaults ==
  (\A q \in Rows : ~Unwritable(q)) =>
    \A r \in Rows : ~IsTask(r) /\ ~overlapped => copies[r] <= 1 + faults

\* A pass that pulls now comes upon a row it cannot write.
Blocked == \E q \in Batch : Unwritable(q)

=============================================================================
