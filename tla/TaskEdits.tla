------------------------------ MODULE TaskEdits ------------------------------
(***************************************************************************)
(* One task file changed by several qi processes and by an editor          *)
(* (internal/vault/tasks.go, internal/service/task_service.go).  A process *)
(* lists the tasks, the user picks one, and it is completed or             *)
(* rescheduled by its line number; or a task is added.  qi's mutators take *)
(* a file lock; an editor or a sync client does not.  A line is its id,    *)
(* text, scheduled date and checkbox.                                      *)
(***************************************************************************)
EXTENDS Integers, Sequences, SequencesExt, FiniteSets

CONSTANTS
  Processes,    \* runs of qi task
  TaskIds,      \* ids in the file at first; the first line's task recurs
  NoTaskId,     \* a line typed by hand
  Texts,        \* texts an editor may type
  MaxSaves,     \* bound: changes by an editor
  MaxDeaths     \* bound: processes killed and calls that fail

\* Ids that are minted are new ones, and differ from no id at all.
ASSUME TaskEditsAssumption ==
  /\ MaxSaves \in Nat /\ MaxDeaths \in Nat
  /\ IsFiniteSet(TaskIds) /\ NoTaskId \notin TaskIds
  /\ Processes \cap (TaskIds \cup {NoTaskId, "nobody"}) = {}

VARIABLES
  taskFile,   \* the lines
  newline,    \* the file ends with a newline
  holder,     \* the process that holds the lock, or Nobody
  proc,       \* per process: stage, task picked and its line number, the lines read;
              \* beaten: an editor has saved since
  known,      \* history: tasks that should be in the file
  excused,    \* history: tasks an editor's save, or a missing newline, cost
  saves, deaths

editVars == <<taskFile, newline, holder, proc, known, excused, saves, deaths>>

Nobody == "nobody"
Line(id, text) == [id |-> id, text |-> text, sched |-> 0, done |-> FALSE, recurs |-> FALSE]

\* What identifies a task: its id, or its text if it has none.
Key(line) == IF line.id # NoTaskId THEN <<"id", line.id>> ELSE <<"text", line.text>>
KeysOf(lines) == {Key(lines[i]) : i \in DOMAIN lines}

IdleProc == [stage |-> "idle", op |-> "", at |-> 0, task |-> Line(NoTaskId, ""), snap |-> <<>>,
             beaten |-> FALSE]

EditsInit ==
  /\ taskFile = [i \in 1 .. Cardinality(TaskIds) |->
                   [Line(SetToSeq(TaskIds)[i], "first") EXCEPT !.recurs = (i = 1)]]
                \o <<Line(NoTaskId, "typed")>>
  /\ newline \in BOOLEAN /\ holder = Nobody
  /\ proc = [p \in Processes |-> IdleProc]
  /\ known = KeysOf(taskFile) /\ excused = {}
  /\ saves = 0 /\ deaths = 0

---------------------------------------------------------------------------
(* qi task done, schedule and add                                          *)

\* ListOpenTasks, and the task the user picks from it.
Pick(p, op) ==
  /\ proc[p].stage = "idle"
  /\ \E i \in DOMAIN taskFile :
       /\ ~taskFile[i].done
       /\ proc' = [proc EXCEPT ![p] = [IdleProc EXCEPT !.stage = "update", !.op = op, !.at = i,
                     !.task = [taskFile[i] EXCEPT
                                 !.done = (op = "complete"),
                                 !.sched = IF op = "schedule" THEN 1 ELSE @]]]
  /\ UNCHANGED <<taskFile, newline, holder, known, excused, saves, deaths>>

\* CreateTask: a task with a minted id.
AddNew(p) ==
  /\ proc[p].stage = "idle"
  /\ proc' = [proc EXCEPT ![p] = [IdleProc EXCEPT !.stage = "append", !.op = "add",
                                                  !.task = Line(p, "added")]]
  /\ UNCHANGED <<taskFile, newline, holder, known, excused, saves, deaths>>

\* Mutant of LockFile: the lock keeps nobody out.
LockFileShared(p) ==
  /\ proc[p].stage \in {"update", "append"} /\ holder' = p
  /\ proc' = [proc EXCEPT ![p].stage = IF @ = "update" THEN "read" ELSE "open"]
  /\ UNCHANGED <<taskFile, newline, known, excused, saves, deaths>>

\* withFileLock.
LockFile(p) ==
  /\ proc[p].stage \in {"update", "append"} /\ holder = Nobody /\ holder' = p
  /\ proc' = [proc EXCEPT ![p].stage = IF @ = "update" THEN "read" ELSE "open"]
  /\ UNCHANGED <<taskFile, newline, known, excused, saves, deaths>>

Ends(p) == proc' = [proc EXCEPT ![p] = [IdleProc EXCEPT !.stage = "ended"]] /\ holder' = Nobody

\* The guard of UpdateTaskLine: the same id, or the same text if there is none.
SameTask(line, task) ==
  IF task.id # NoTaskId THEN line.id = task.id ELSE line.text = task.text

\* UpdateTaskLine reads the file and checks the line; otherwise it is an error.
\* A task without an id passes for any task of its text, one with an id included.
ReadLines(p) ==
  LET i == proc[p].at IN
  /\ proc[p].stage = "read"
  /\ IF i \in DOMAIN taskFile /\ SameTask(taskFile[i], proc[p].task)
     THEN /\ proc' = [proc EXCEPT ![p].stage = "rename", ![p].snap = taskFile]
          /\ excused' = IF proc[p].task.id = NoTaskId /\ taskFile[i].id # NoTaskId
                        THEN excused \cup {Key(taskFile[i])} ELSE excused
          /\ UNCHANGED holder
     ELSE Ends(p) /\ UNCHANGED excused
  /\ UNCHANGED <<taskFile, newline, known, saves, deaths>>

\* The whole file is replaced by the lines read with the one line new; what an
\* editor saved in between is gone.  A recurring task that was completed gets
\* its next occurrence, in a call of its own.
Rename(p) ==
  LET new == [proc[p].snap EXCEPT ![proc[p].at] = proc[p].task]
      recurs == proc[p].op = "complete" /\ proc[p].task.recurs
      next == [Line(p, proc[p].task.text) EXCEPT !.recurs = TRUE]
  IN
  /\ proc[p].stage = "rename" /\ taskFile' = new
  /\ excused' = IF proc[p].beaten THEN excused \cup (KeysOf(taskFile) \ KeysOf(proc[p].snap))
                ELSE excused
  /\ known' = known \cup KeysOf(new) \cup (IF recurs THEN {Key(next)} ELSE {})
  /\ IF recurs
     THEN /\ proc' = [proc EXCEPT ![p] = [IdleProc EXCEPT !.stage = "append", !.op = "spawn",
                                                          !.task = next]]
          /\ holder' = Nobody
     ELSE Ends(p)
  /\ UNCHANGED <<newline, saves, deaths>>

\* AppendTask opens the file; what it will write goes to that inode.
OpenAppend(p) ==
  /\ proc[p].stage = "open" /\ proc' = [proc EXCEPT ![p].stage = "write", ![p].snap = taskFile]
  /\ UNCHANGED <<taskFile, newline, holder, known, excused, saves, deaths>>

\* The line and a newline are appended.  Behind a last line without a newline
\* they become part of it: the id at its end is the new task's.
Appended(new) ==
  LET last == Len(taskFile) IN
  IF newline \/ last = 0
  THEN taskFile' = Append(taskFile, new) /\ UNCHANGED excused
  ELSE /\ taskFile' = [taskFile EXCEPT ![last].id = new.id, ![last].text = "merged"]
       /\ excused' = excused \cup {Key(taskFile[last])}

\* The write; an editor that has put a new file in place leaves it in the old one.
WriteAppend(p) ==
  LET new == proc[p].task IN
  /\ proc[p].stage = "write" /\ known' = known \cup {Key(new)} /\ Ends(p)
  /\ \/ Appended(new) /\ newline' = TRUE
     \/ /\ proc[p].snap # taskFile /\ UNCHANGED <<taskFile, newline>>
        /\ excused' = IF proc[p].beaten THEN excused \cup {Key(new)} ELSE excused
  /\ UNCHANGED <<saves, deaths>>

\* A call fails or the process is killed; the lock goes with it.
Killed(p) ==
  /\ proc[p].stage \notin {"idle", "ended"} /\ deaths < MaxDeaths /\ deaths' = deaths + 1
  /\ proc' = [proc EXCEPT ![p] = [IdleProc EXCEPT !.stage = "ended"]]
  /\ holder' = IF holder = p THEN Nobody ELSE holder
  /\ excused' = IF proc[p].op = "spawn" THEN excused \cup {Key(proc[p].task)} ELSE excused
  /\ UNCHANGED <<taskFile, newline, known, saves>>

---------------------------------------------------------------------------
(* The editor saves the file, without the lock                             *)

Save(lines, nl) ==
  /\ saves < MaxSaves /\ saves' = saves + 1
  /\ lines # taskFile \/ nl # newline
  /\ taskFile' = lines /\ newline' = nl
  /\ known' = (known \ KeysOf(taskFile)) \cup KeysOf(lines)
  /\ proc' = [p \in Processes |-> [proc[p] EXCEPT !.beaten = @ \/ proc[p].stage \in {"rename", "write"}]]
  /\ UNCHANGED <<holder, excused, deaths>>

EditorSaves ==
  \E nl \in BOOLEAN, text \in Texts :
    \/ Save(<<Line(NoTaskId, text)>> \o taskFile, nl)
    \/ \E i \in DOMAIN taskFile :
         \/ Save([taskFile EXCEPT ![i].text = text], nl)
         \/ Save(RemoveAt(taskFile, i), nl)

QiStep(p) == LockFile(p) \/ ReadLines(p) \/ Rename(p) \/ OpenAppend(p) \/ WriteAppend(p)

EditsNext ==
  \/ \E p \in Processes :
       QiStep(p) \/ AddNew(p) \/ Killed(p) \/ \E op \in {"complete", "schedule"} : Pick(p, op)
  \/ EditorSaves

EditsSpec == EditsInit /\ [][EditsNext]_editVars

---------------------------------------------------------------------------
\* Tasks whose line is about to be appended.
Underway == {Key(proc[p].task) : p \in {q \in Processes : proc[q].stage \in {"append", "open", "write"}}}

\* No task disappears, whatever stale listings are acted on: what was in the
\* file, was added, or is the next occurrence of a task that was completed, is
\* in it unless an editor took it out.  The exceptions are exactly what the code
\* cannot prevent or does not: an editor's save between the read and the rename,
\* or the open and the write, of a process; a task that is appended to a last
\* line without a newline (tasks.go:179); a task with an id that is overwritten
\* by one without, of the same text (tasks.go:227); and a process that dies
\* between the completion and the next occurrence (task_service.go:186-213).
TaskFileSafe == known \ (excused \cup Underway) \subseteq KeysOf(taskFile)
=============================================================================
