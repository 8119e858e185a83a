---------------------------- MODULE InboxTriage ----------------------------
(***************************************************************************)
(* Triage of the inbox (internal/service/inbox_service.go): `qi inbox`     *)
(* lists the captures, folds repeats into groups, lets the user decide and *)
(* applies one group after the other (commands/inbox.go); the tool         *)
(* skill.process-inbox-apply applies one capture inside qid                *)
(* (internal/skills/processinbox.go).  Both work on the same directory     *)
(* with no lock, and a capture may be edited meanwhile.  A step is a call  *)
(* that touches a file; it may fail, and a process may die between two.    *)
(* Captures have the names WriteCapture gives them, so no two are ever     *)
(* numbered to the same name in the archive.                               *)
(***************************************************************************)
EXTENDS Integers, Sequences, SequencesExt, FiniteSets

CONSTANTS
  NCaptures,   \* captures in the inbox, in name order
  Contents,    \* bodies: [key |-> ..., summary |-> ...]; key is repeatKey
  NoContent,   \* the body of an empty capture or of one that cannot be read
  MaxFaults,   \* bound: calls that fail and processes that die
  MaxEdits     \* bound: edits by the user

Captures == 1 .. NCaptures
Gone == [key |-> "gone", summary |-> "gone"]

ASSUME TriageAssumption ==
  /\ NCaptures \in Nat /\ MaxFaults \in Nat /\ MaxEdits \in Nat
  /\ NoContent \in Contents /\ Gone \notin Contents

Creating == {"task", "note"}

\* Stages of a job whose capture is moved and not yet, or not, converted.
Converting == {"create", "write", "restore"}

VARIABLES
  inbox, archive,  \* body of each capture in the directory, or Gone
  unreadable,      \* captures whose file cannot be read
  qi,              \* the command: stage, groups still to show or apply, decision
  job,             \* per actor: the Apply under way
  created,         \* per capture: tasks and notes an Apply reported made from it
  notes,           \* note files: title, stamp (0: none) and the entry of wrote in it
  naming,          \* per actor: the file WriteNote picked, and when
  second,          \* the clock note names are stamped with
  how,             \* history: why each capture was moved or removed
  blank,           \* history: captures shown as empty because the read failed
  stranded,        \* history: conversions cut off after the capture was moved
  misdeleted,      \* history: captures deleted that were not what was shown
  wrote,           \* history: notes written, from which capture and in which seconds
  halfmade,        \* history: captures whose note was written but not read back
  faults, edits

noteVars == <<notes, naming, second, wrote, halfmade>>
triageVars == <<inbox, archive, unreadable, qi, job, created, how, blank, stranded,
                misdeleted, faults, edits, noteVars>>

Actors == {"qi", "skill"}
NoJob == [stage |-> "idle", path |-> 0, action |-> "", body |-> Gone]
NoNote == [title |-> "none", stamp |-> 0, from |-> 0]

InboxInit ==
  /\ inbox \in [Captures -> Contents] /\ archive = [c \in Captures |-> Gone]
  /\ unreadable \in {{}} \cup {{c} : c \in Captures}
  /\ qi = [stage |-> "list", toRead |-> {}, groups |-> <<>>, action |-> "", rest |-> <<>>]
  /\ job = [a \in Actors |-> NoJob]
  /\ created = [c \in Captures |-> 0] /\ how = [c \in Captures |-> ""]
  /\ blank = {} /\ stranded = {} /\ misdeleted = {} /\ halfmade = {}
  /\ faults = 0 /\ edits = 0
  /\ naming = [a \in Actors |-> NoNote] /\ second = 1
  /\ \/ notes = {} /\ wrote = <<>>
     \/ \E body \in Contents :
          /\ notes = {[title |-> body.summary, stamp |-> 0, entry |-> 1]}
          /\ wrote = <<[of |-> 0, title |-> body.summary, from |-> 0, to |-> 0]>>

\* captureBody: best effort, no body if the file cannot be read.
CaptureBody(c) == IF inbox[c] = Gone \/ c \in unreadable THEN NoContent ELSE inbox[c]

---------------------------------------------------------------------------
(* Listing and deciding                                                    *)

ListDir ==
  /\ qi.stage = "list"
  /\ qi' = [qi EXCEPT !.stage = "read", !.toRead = {c \in Captures : inbox[c] # Gone}]
  /\ UNCHANGED <<inbox, archive, unreadable, job, created, how, stranded, misdeleted, faults, edits, blank, noteVars>>

\* CollapseRepeats, one capture at a time, in name order.
Folded(groups, c, body) ==
  LET same == SelectInSeq(groups, LAMBDA g : g.body.key = body.key)
  IN IF same = 0 THEN Append(groups, [path |-> c, body |-> body, repeats |-> <<>>])
     ELSE [groups EXCEPT ![same].repeats = Append(@, c)]

ReadCapture ==
  /\ qi.stage = "read"
  /\ IF qi.toRead = {} THEN qi' = [qi EXCEPT !.stage = "decide"] /\ UNCHANGED blank
     ELSE LET c == Min(qi.toRead) IN
          /\ qi' = [qi EXCEPT !.toRead = @ \ {c}, !.groups = Folded(@, c, CaptureBody(c))]
          /\ blank' = IF inbox[c] = Gone \/ c \in unreadable THEN blank \cup {c} ELSE blank
  /\ UNCHANGED <<inbox, archive, unreadable, job, created, how, stranded, misdeleted, faults, edits, noteVars>>

\* The user's decision on the next group: skip it, or ApplyGroup, which goes
\* through the repeats before the capture the group is named after.
Decide(action) ==
  /\ qi.stage = "decide"
  /\ IF qi.groups = <<>> THEN qi' = [qi EXCEPT !.stage = "done"]
     ELSE IF action = "skip" THEN qi' = [qi EXCEPT !.groups = Tail(@)]
     ELSE qi' = [qi EXCEPT !.stage = "apply", !.action = action,
                           !.rest = Append(Head(qi.groups).repeats, Head(qi.groups).path)]
  /\ UNCHANGED <<inbox, archive, unreadable, job, created, how, stranded, misdeleted, faults, edits, blank, noteVars>>

\* What ApplyGroup does with the next capture: repeats are archived, unless the
\* group is deleted.
GroupAction ==
  IF Len(qi.rest) = 1 \/ qi.action = "delete" THEN qi.action ELSE "archive"

ApplyNext ==
  /\ qi.stage = "apply" /\ qi.rest # <<>> /\ job["qi"].stage = "idle"
  /\ job' = [job EXCEPT !["qi"] = [NoJob EXCEPT !.stage = "validate", !.path = Head(qi.rest),
                                                !.action = GroupAction]]
  /\ UNCHANGED <<inbox, archive, unreadable, qi, created, how, stranded, misdeleted, faults, edits, blank, noteVars>>

\* The call of skill.process-inbox-apply: the actions its schema lists, and delete,
\* which the schema does not list but the handler passes on to Apply unchecked.
SkillApply(c, action) ==
  /\ job["skill"].stage = "idle"
  /\ job' = [job EXCEPT !["skill"] = [NoJob EXCEPT !.stage = "validate", !.path = c,
                                                   !.action = action]]
  /\ UNCHANGED <<inbox, archive, unreadable, qi, created, how, stranded, misdeleted, faults, edits, blank, noteVars>>

---------------------------------------------------------------------------
(* Apply                                                                   *)

\* Apply returns.  A repeat that is gone is passed over; any other error ends
\* the command; the skill makes one call here.
Returns(a, result) ==
  /\ job' = [job EXCEPT ![a] = [NoJob EXCEPT !.stage = IF a = "skill" THEN "done" ELSE "idle"]]
  /\ IF a = "skill" THEN UNCHANGED qi
     ELSE LET last == Len(qi.rest) = 1 IN
          qi' = IF result = "ok" \/ (result = "not exist" /\ ~last)
                THEN [qi EXCEPT !.rest = Tail(@), !.stage = IF last THEN "decide" ELSE @,
                                !.groups = IF last THEN Tail(@) ELSE @]
                ELSE [qi EXCEPT !.stage = "done"]

Fail == faults < MaxFaults /\ faults' = faults + 1

\* validateInboxPath and captureBody.
Validate(a) ==
  LET c == job[a].path IN
  /\ job[a].stage = "validate"
  /\ IF inbox[c] = Gone THEN Returns(a, "not exist")
     ELSE /\ job' = [job EXCEPT ![a].stage =
                                  IF job[a].action = "delete" THEN "delete" ELSE "archive",
                                ![a].body = CaptureBody(c)]
          /\ UNCHANGED qi
  /\ UNCHANGED <<inbox, archive, unreadable, created, how, stranded, misdeleted, faults, edits, blank, noteVars>>

Delete(a) ==
  LET c == job[a].path IN
  /\ job[a].stage = "delete"
  /\ \/ /\ inbox[c] # Gone
        /\ inbox' = [inbox EXCEPT ![c] = Gone] /\ how' = [how EXCEPT ![c] = "delete"]
        /\ misdeleted' =
             IF a = "skill" \/ inbox[c].key = Head(qi.groups).body.key THEN misdeleted
             ELSE misdeleted \cup {c}
        /\ Returns(a, "ok") /\ UNCHANGED faults
     \/ /\ inbox[c] = Gone /\ Returns(a, "not exist")
        /\ UNCHANGED <<inbox, how, misdeleted, faults>>
     \/ /\ Fail /\ Returns(a, "error") /\ UNCHANGED <<inbox, how, misdeleted>>
  /\ UNCHANGED <<archive, unreadable, created, stranded, edits, blank, noteVars>>

\* archiveCapture: the loop that looks for a free name in the archive.
FindName(a) ==
  /\ job[a].stage = "archive"
  /\ \/ job' = [job EXCEPT ![a].stage = "rename"] /\ UNCHANGED <<qi, faults>>
     \/ Fail /\ Returns(a, "error")
  /\ UNCHANGED <<inbox, archive, unreadable, created, how, stranded, misdeleted, edits, blank, noteVars>>

\* archiveCapture: the rename.
Archive(a) ==
  LET c == job[a].path IN
  /\ job[a].stage = "rename"
  /\ \/ /\ inbox[c] # Gone
        /\ archive' = [archive EXCEPT ![c] = inbox[c]] /\ inbox' = [inbox EXCEPT ![c] = Gone]
        /\ how' = [how EXCEPT ![c] = job[a].action]
        /\ IF job[a].action \in Creating
           THEN job' = [job EXCEPT ![a].stage = "create"] /\ UNCHANGED qi
           ELSE Returns(a, "ok")
        /\ UNCHANGED faults
     \/ /\ inbox[c] = Gone /\ Returns(a, "not exist") /\ UNCHANGED <<inbox, archive, how, faults>>
     \/ /\ Fail /\ Returns(a, "error") /\ UNCHANGED <<inbox, archive, how>>
  /\ UNCHANGED <<unreadable, created, stranded, misdeleted, edits, blank, noteVars>>

\* Mutant of MakeTask: an error of CreateTask leaves the capture archived.
MakeTaskNoRestore(a) ==
  LET c == job[a].path IN
  /\ job[a].stage = "create" /\ job[a].action = "task"
  /\ \/ /\ created' = [created EXCEPT ![c] = @ + 1]
        /\ Returns(a, "ok") /\ UNCHANGED faults
     \/ /\ Fail /\ Returns(a, "error") /\ UNCHANGED created
  /\ UNCHANGED <<inbox, archive, unreadable, how, stranded, misdeleted, edits, blank, noteVars>>

\* An error of CreateTask or AddNote: the capture is to be moved back.
CreateFails(a) == Fail /\ job' = [job EXCEPT ![a].stage = "restore"] /\ UNCHANGED <<created, qi>>

\* CreateTask appends a line to a task file.
MakeTask(a) ==
  LET c == job[a].path IN
  /\ job[a].stage = "create" /\ job[a].action = "task"
  /\ \/ /\ created' = [created EXCEPT ![c] = @ + 1]
        /\ Returns(a, "ok") /\ UNCHANGED faults
     \/ CreateFails(a)
  /\ UNCHANGED <<inbox, archive, unreadable, how, stranded, misdeleted, edits, blank, noteVars>>

\* WriteNote looks whether the title's file is there, and takes the title with the
\* time in seconds if it is.
NameNote(a) ==
  /\ job[a].stage = "create" /\ job[a].action = "note"
  /\ \/ /\ \E now \in {second, second + 1} :
             LET title == job[a].body.summary
                 taken == \E n \in notes : n.title = title /\ n.stamp = 0
             IN /\ second' = now
                /\ naming' = [naming EXCEPT ![a] = [title |-> title, from |-> now,
                                                    stamp |-> IF taken THEN now ELSE 0]]
        /\ job' = [job EXCEPT ![a].stage = "write"] /\ UNCHANGED <<created, qi, faults>>
     \/ CreateFails(a) /\ UNCHANGED <<second, naming>>
  /\ UNCHANGED <<inbox, archive, unreadable, how, stranded, misdeleted, edits, blank, notes, wrote, halfmade>>

\* WriteNote writes the file, over whatever is there by now, and AddNote reads it
\* back; an error of either is one of AddNote.
WriteNote(a) ==
  LET c == job[a].path
      name == naming[a]
  IN
  /\ job[a].stage = "write"
  /\ \/ /\ notes' = {n \in notes : ~ (n.title = name.title /\ n.stamp = name.stamp)}
                    \cup {[title |-> name.title, stamp |-> name.stamp, entry |-> Len(wrote) + 1]}
        /\ wrote' = Append(wrote, [of |-> c, title |-> name.title, from |-> name.from, to |-> second])
        /\ \/ /\ created' = [created EXCEPT ![c] = @ + 1]
              /\ Returns(a, "ok") /\ UNCHANGED <<faults, halfmade>>
           \/ CreateFails(a) /\ halfmade' = halfmade \cup {c}
     \/ CreateFails(a) /\ UNCHANGED <<notes, wrote, halfmade>>
  /\ UNCHANGED <<inbox, archive, unreadable, how, stranded, misdeleted, edits, blank, naming, second>>

\* The capture is moved back.
Restore(a) ==
  LET c == job[a].path IN
  /\ job[a].stage = "restore"
  /\ \/ /\ inbox' = [inbox EXCEPT ![c] = archive[c]] /\ archive' = [archive EXCEPT ![c] = Gone]
        /\ how' = [how EXCEPT ![c] = ""] /\ UNCHANGED <<stranded, faults>>
     \/ /\ Fail /\ stranded' = stranded \cup {c} /\ UNCHANGED <<inbox, archive, how>>
  /\ Returns(a, "error")
  /\ UNCHANGED <<unreadable, created, misdeleted, edits, blank, noteVars>>

\* The process of an actor dies.
Dies(a) ==
  /\ job[a].stage \notin {"idle", "done"} /\ Fail
  /\ stranded' = IF job[a].stage \in Converting THEN stranded \cup {job[a].path}
                 ELSE stranded
  /\ job' = [job EXCEPT ![a] = [NoJob EXCEPT !.stage = "done"]]
  /\ qi' = IF a = "qi" THEN [qi EXCEPT !.stage = "done"] ELSE qi
  /\ UNCHANGED <<inbox, archive, unreadable, created, how, misdeleted, edits, blank, noteVars>>

\* The user changes a capture in an editor.
EditCapture(c, body) ==
  /\ inbox[c] # Gone /\ body # inbox[c] /\ edits < MaxEdits
  /\ inbox' = [inbox EXCEPT ![c] = body] /\ edits' = edits + 1
  /\ UNCHANGED <<archive, unreadable, qi, job, created, how, stranded, misdeleted, faults, blank, noteVars>>

ApplyStep(a) ==
  \/ Validate(a) \/ Delete(a) \/ FindName(a) \/ Archive(a)
  \/ MakeTask(a) \/ NameNote(a) \/ WriteNote(a) \/ Restore(a) \/ Dies(a)

InboxNext ==
  \/ ListDir \/ ReadCapture \/ ApplyNext
  \/ \E action \in Creating \cup {"archive", "delete", "skip"} : Decide(action)
  \/ \E c \in Captures, action \in Creating \cup {"archive", "delete"} : SkillApply(c, action)
  \/ \E a \in Actors : ApplyStep(a)
  \/ \E c \in Captures, body \in Contents : EditCapture(c, body)

TriageSpec == InboxInit /\ [][InboxNext]_triageVars

---------------------------------------------------------------------------
Busy(c) == \E a \in Actors : job[a].path = c /\ job[a].stage \in Converting

\* A capture is in the inbox or in the archive, never in both and never in
\* neither unless its deletion was decided.
InboxOrArchive ==
  \A c \in Captures :
    IF inbox[c] # Gone THEN archive[c] = Gone ELSE (archive[c] = Gone) = (how[c] = "delete")

\* A capture becomes at most one task or note, and one that did is out of the
\* inbox (inbox_service.go:108-111); one moved away to become a task or note
\* became it, unless the process died or the move back failed.
ConvertedOnce ==
  \A c \in Captures :
    /\ created[c] <= 1
    /\ created[c] = 1 => inbox[c] = Gone
    /\ (how[c] \in Creating /\ ~Busy(c) /\ c \notin stranded) => created[c] = 1

\* A note written from a capture is the one its Apply reported: a second one is
\* written only after the first could not be read back (note_service.go:23-32).
NotesReported ==
  \A i \in DOMAIN wrote :
    LET c == wrote[i].of IN
    \/ c = 0 \/ c \in halfmade
    \/ created[c] = 1 /\ \A j \in DOMAIN wrote \ {i} : wrote[j].of # c

\* A note that was written stays (note.go:46-60), one that was there before
\* included.  The exception is a note of the same title that another Apply wrote
\* at the same time, or in the same second.
Beside(v, w) == v.title = w.title /\ v.from <= w.to /\ w.from <= v.to
NotesKept ==
  \A i \in DOMAIN wrote :
    \/ \E n \in notes : n.entry = i
    \/ \E j \in DOMAIN wrote \ {i} : Beside(wrote[i], wrote[j])

\* Nothing the user deletes was not shown: a capture a decision removes says what
\* the row the user decided on said.  The exceptions are a capture that was
\* edited after it was read and one that could not be read, or was away at the
\* moment it was read, which is shown as an empty one and folded with those.  What
\* the skill is told to delete is shown in no row: its handler passes the action on
\* and Apply takes "delete" from anyone, "an interactive-only action"
\* (inbox_service.go:13-16) or not.
DeletedWasShown == edits > 0 \/ misdeleted \subseteq blank

\* Two actors, failures at any call and a death at any point leave every capture,
\* and every note made from one, accounted for.
CapturesAccounted ==
  InboxOrArchive /\ ConvertedOnce /\ NotesReported /\ NotesKept /\ DeletedWasShown
=============================================================================
