------------------------------ MODULE TaskSync ------------------------------
(***************************************************************************)
(* Cross-vault task sync: the three-way merge Decide (internal/sync/       *)
(* engine.go), the pass around it (reconcile.go: gather, decide, render,   *)
(* guarded writes, commit of the base), the rendering of a task file       *)
(* (render.go) and WriteGuarded (internal/vault/guarded.go).               *)
(*                                                                         *)
(* The main vault has one canon file per project and an inbox, which is    *)
(* not synced; each synced project has a projection file in a vault of its *)
(* own.  Users and Obsidian Sync edit any file at any time, also between   *)
(* the reads and the writes of a pass, which holds no lock across them;    *)
(* neither does it keep out another pass: the daemon's watcher and any     *)
(* number of `qi sync` commands reconcile side by side.  A pass may die    *)
(* anywhere.                                                               *)
(***************************************************************************)
EXTENDS Integers, Sequences, FiniteSets, SequencesExt

CONSTANTS
  Syncers,     \* the processes that reconcile: the watcher, each `qi sync`
  Synced,      \* cfg.Projects: the synced projects
  Inbox,       \* flattenProject(""): the project of a task without a tag
  ReadOrder,   \* the task files as a pass reads them: the canon files of the
               \* directory, then the projections as cfg.Projects lists them
  WriteOrder,  \* the task files in the sorted order of their paths
  Texts,       \* texts of a task, its checkbox and dates included
  NewText,     \* the text of a new task; what it is matters to nothing
  MaxRetries,  \* reconcile.go: maxRetries
  MaxEvents    \* bound: external edits, failed passes and passes that begin
               \* beside another, in a behaviour

Projects == Synced \cup {Inbox}

Canon(project)      == <<"canon", project>>
Projection(project) == <<"projection", project>>
CanonFiles      == {Canon(p) : p \in Projects}
ProjectionFiles == {Projection(p) : p \in Synced}
Files == CanonFiles \cup ProjectionFiles

ASSUME OrderAssumption ==
  /\ Inbox \notin Synced /\ Synced # {}
  /\ \A order \in {ReadOrder, WriteOrder} :
       order \in Seq(Files) /\ ToSet(order) = Files /\ IsInjective(order)
  /\ \A i, j \in DOMAIN ReadOrder :
       i < j /\ ReadOrder[i] \in ProjectionFiles => ReadOrder[j] \in ProjectionFiles

ASSUME BoundsAssumption ==
  NewText \in Texts /\ MaxRetries \in Nat \ {0} /\ MaxEvents \in Nat

VARIABLES
  file,       \* the lines of each task file
  base,       \* task_sync_state: id -> the project and line last synced
  pass,       \* the reconcile each process has in progress
  stale,      \* files whose mtime is no longer the one its pass read
  nextId,     \* MintID: the next unused id
  events,     \* how many of those are still to come
  deleted,    \* history: ids a user removed from some file
  moved,      \* history: ids a pass found in another canon file than their project's
  clobbered,  \* history: ids edited in between WriteGuarded's stat and rename
  filed,      \* history: ids that have been in a file
  torn,       \* history: some pass wrote a file and did not commit, or began
              \* while another was under way
  late,       \* history: ids another pass entered in the base since a pass
              \* began to read the files
  overtaken   \* history: ids for which a pass decided with such a late row

vars == <<file, base, pass, stale, nextId, events, deleted, moved, clobbered,
          filed, torn, late, overtaken>>
user == <<nextId, events, deleted, moved>>

---------------------------------------------------------------------------
\* Task lines.  FormatTaskLine is canonical: two tasks have the same line iff
\* they agree on id, text and the order of their tags.

NoId == 0
ConflictTag == "sync-conflict"

Line(id, text, tags) == [id |-> id, text |-> text, tags |-> tags]

\* A task: its line and the project it is filed under.
Task(line, project) == [line |-> line, project |-> project]

\* ParseTaskLine: the project is the first tag.
Parsed(line) == Task(line, IF line.tags = <<>> THEN Inbox ELSE Head(line.tags))

Retag(line, tag) ==
  IF Contains(line.tags, tag) THEN line ELSE [line EXCEPT !.tags = Append(@, tag)]

\* forceProject then FormatTaskLine: the tags already in the text keep their
\* place, a missing project tag goes behind them.
ForceProject(line, project) == Task(Retag(line, project), project)

Tagged(task) == [task EXCEPT !.line = Retag(@, ConflictTag)]

IdsOf(lines) == {lines[i].id : i \in DOMAIN lines}

\* The places of an id in a file; a later line wins over an earlier one.
PlacesOf(lines, id) == {i \in DOMAIN lines : lines[i].id = id}

LastWith(lines, id) ==
  lines[CHOOSE i \in PlacesOf(lines, id) : \A j \in PlacesOf(lines, id) : j <= i]

\* A map from ids to tasks, filled file by file: contents is what the files
\* hold, order when each comes.  The last file with an id wins.
Holders(contents, id) == {f \in DOMAIN contents : id \in IdsOf(contents[f])}

LastHolder(contents, order, id) ==
  CHOOSE f \in Holders(contents, id) : \A g \in Holders(contents, id) : order[g] <= order[f]

AllIds(contents) == UNION {IdsOf(contents[f]) : f \in DOMAIN contents}

---------------------------------------------------------------------------
\* Decide

\* What a pass does with an id: the tasks it files, in canon and, for a synced
\* project, in the projection; and whether its base row is set, dropped or left.
Verdict(tasks, change) == [tasks |-> tasks, change |-> change]

\* Case 7 on canonical lines.
Merge(c, p, b) ==
  CASE c.line = p.line -> Verdict(<<c>>, IF c.line = b.line THEN "none" ELSE "set")
    [] c.line # p.line /\ b.line = c.line -> Verdict(<<p>>, "set")
    [] c.line # p.line /\ b.line = p.line -> Verdict(<<c>>, "set")
    [] OTHER -> Verdict(<<c, Tagged(p)>>, "none")

\* Mutant of Decide: no guard for projects that are not synced.
DecideSyncsInbox(canon, proj, rows, id) ==
  LET hasC == id \in DOMAIN canon
      hasP == id \in DOMAIN proj
      hasB == id \in DOMAIN rows
  IN CASE hasC /\ hasB /\ canon[id].project # rows[id].project -> Verdict(<<canon[id]>>, "set")
       [] hasC /\ ~hasP /\ ~hasB -> Verdict(<<canon[id]>>, "set")
       [] ~hasC /\ hasP /\ ~hasB -> Verdict(<<proj[id]>>, "set")
       [] hasC /\ hasP /\ ~hasB -> Verdict(<<canon[id]>>, "set")
       [] hasC /\ hasP /\ hasB /\ canon[id].project = rows[id].project ->
            Merge(canon[id], proj[id], rows[id])
       [] OTHER -> Verdict(<<>>, "drop")

\* engine.go Decide for one id: canon and proj map ids to tasks, rows to the
\* project and line of the last sync.
Decide(canon, proj, rows, id) ==
  LET hasC     == id \in DOMAIN canon
      hasP     == id \in DOMAIN proj
      hasB     == id \in DOMAIN rows
      unsynced == hasC /\ canon[id].project \notin Synced
      orphan   == ~hasC /\ hasB /\ rows[id].project \notin Synced
      movedOn  == hasC /\ ~unsynced /\ hasB /\ canon[id].project # rows[id].project
      regular  == ~unsynced /\ ~orphan /\ ~movedOn
  IN CASE unsynced -> Verdict(<<canon[id]>>, IF hasB THEN "drop" ELSE "none")
       [] orphan -> Verdict(<<>>, "drop")
       [] movedOn -> Verdict(<<canon[id]>>, "set")
       [] regular /\ hasC /\ ~hasP /\ ~hasB -> Verdict(<<canon[id]>>, "set")
       [] regular /\ ~hasC /\ hasP /\ ~hasB -> Verdict(<<proj[id]>>, "set")
       [] regular /\ hasC /\ hasP /\ ~hasB ->
            IF canon[id].line = proj[id].line THEN Verdict(<<canon[id]>>, "set")
                                              ELSE Verdict(<<canon[id], Tagged(proj[id])>>, "none")
       [] regular /\ hasC /\ hasP /\ hasB -> Merge(canon[id], proj[id], rows[id])
       [] OTHER -> Verdict(<<>>, "drop")   \* cases 4 to 6: deleted on some side

---------------------------------------------------------------------------
\* A pass

\* set and drop are what CommitSyncState will be told.
Idle == [pc |-> "idle", k |-> 0, attempt |-> 0, read |-> <<>>,
         plan |-> <<>>, set |-> <<>>, drop |-> {}]

Gathering(attempt) == [Idle EXCEPT !.pc = "gather", !.k = 1, !.attempt = attempt]

\* The canon map; the files come in the order of a Go map, so in any.
CanonMap(read, order) ==
  LET contents == [f \in CanonFiles |-> read[f]]
  IN [id \in AllIds(contents) |->
        Parsed(LastWith(contents[LastHolder(contents, order, id)], id))]

Misfiled(read) ==
  UNION {{l.id : l \in {m \in ToSet(read[Canon(p)]) : Parsed(m).project # p}} : p \in Projects}

Position(f) == CHOOSE i \in DOMAIN ReadOrder : ReadOrder[i] = f

\* The places of projection lines without an id, and how many come before one.
Idless(read) == UNION {{f} \X PlacesOf(read[f], NoId) : f \in ProjectionFiles}

Minted(read, f, j) ==
  Cardinality({q \in Idless(read) :
                 Position(q[1]) < Position(f) \/ (q[1] = f /\ q[2] < j)})

\* The projections, their lines with the ids MintID gives them.
WithIds(read) ==
  [f \in ProjectionFiles |->
     [j \in DOMAIN read[f] |->
        IF read[f][j].id = NoId THEN [read[f][j] EXCEPT !.id = nextId + Minted(read, f, j)]
                                ELSE read[f][j]]]

\* The projection map, each line a task of the vault it is in.
ProjMap(read) ==
  LET contents == WithIds(read)
      order    == [f \in ProjectionFiles |-> Position(f)]
  IN [id \in AllIds(contents) |->
        LET f == LastHolder(contents, order, id)
        IN ForceProject(LastWith(contents[f], id), f[2])]

\* All a pass files, and the lines renderTargets gives a file of a project.
Filed(verdicts) == UNION {ToSet(verdicts[id].tasks) : id \in DOMAIN verdicts}

Wanted(verdicts) == {t.line : t \in Filed(verdicts)}

Desired(f, verdicts) == {t.line : t \in {u \in Filed(verdicts) : u.project = f[2]}}

\* The lines of a set of them in the order of an injective key.
PlaceBy(key, line) == Cardinality({l \in DOMAIN key : key[l] <= key[line]})

SortedBy(key) ==
  [k \in 1..Cardinality(DOMAIN key) |-> CHOOSE l \in DOMAIN key : PlaceBy(key, l) = k]

FirstWith(lines, id) ==
  CHOOSE i \in PlacesOf(lines, id) : \A j \in PlacesOf(lines, id) : i <= j

\* The order of renderFile: ids the file had come first, in the order of their
\* first lines and with the tagged copy of a conflict second; new lines follow
\* in the order of their texts.
SortKey(prior, verdicts, text, line) ==
  IF line.id # NoId /\ line.id \in IdsOf(prior)
    THEN 2 * FirstWith(prior, line.id)
           + (IF line = verdicts[line.id].tasks[1].line THEN 0 ELSE 1)
    ELSE 2 * Len(prior) + 2 + text[line]

\* renderFile; equal lines collapse.
Rendered(f, read, verdicts, text) ==
  SortedBy([l \in Desired(f, verdicts) |-> SortKey(read[f], verdicts, text, l)])

\* BaseUpserts and BaseDeletes.
Upserts(verdicts) ==
  [id \in {i \in DOMAIN verdicts : verdicts[i].change = "set"} |-> verdicts[id].tasks[1]]

Deletes(verdicts) == {id \in DOMAIN verdicts : verdicts[id].change = "drop"}

\* CommitSyncState: the upserts and the deletes, applied to the rows there are.
Committed(set, drop) ==
  [id \in (DOMAIN base \cup DOMAIN set) \ drop |->
     IF id \in DOMAIN set THEN set[id] ELSE base[id]]

NeedsWrite(s, f) == file[f] # pass[s].plan[f]

\* The processes whose read of a file is out of date once somebody else than
\* its owner, if it has one, replaced it.
Outdated(f, owner) ==
  [r \in Syncers |-> IF r \in owner THEN stale[r] \ {f}
                     ELSE IF f \in DOMAIN pass[r].read THEN stale[r] \cup {f}
                     ELSE stale[r]]

Resting == \A s \in Syncers : pass[s].pc = "idle"

\* A process goes back to rest, or to the gather.
Resets(s, x) ==
  /\ pass' = [pass EXCEPT ![s] = x]
  /\ stale' = [stale EXCEPT ![s] = {}]
  /\ late' = [late EXCEPT ![s] = {}]

---------------------------------------------------------------------------
\* qi sync, or the watcher's reconcile, starts while no other is under way ...
StartPass(s) ==
  /\ Resting
  /\ Resets(s, Gathering(0))
  /\ UNCHANGED <<file, base, user, clobbered, filed, torn, overtaken>>

\* ... or beside another.
StartBeside(s) ==
  /\ events > 0
  /\ pass[s].pc = "idle" /\ ~Resting
  /\ events' = events - 1
  /\ Resets(s, Gathering(0))
  /\ torn' = TRUE
  /\ UNCHANGED <<file, base, nextId, deleted, moved, clobbered, filed, overtaken>>

\* readFileState: mtime and lines of the next file.
Gather(s) ==
  /\ pass[s].pc = "gather"
  /\ LET k    == pass[s].k
         f    == ReadOrder[k]
         read == pass[s].read
     IN pass' = [pass EXCEPT
          ![s] = [@ EXCEPT !.k = IF k = Len(ReadOrder) THEN 1 ELSE k + 1,
                           !.pc = IF k = Len(ReadOrder) THEN "decide" ELSE "gather",
                           !.read = [g \in DOMAIN read \cup {f} |->
                                       IF g = f THEN file[f] ELSE read[g]]]]
  /\ UNCHANGED <<file, base, stale, user, clobbered, filed, torn, late, overtaken>>

Decisions(canon, proj, rows) ==
  [id \in DOMAIN canon \cup DOMAIN proj \cup DOMAIN rows |-> Decide(canon, proj, rows, id)]

Plan(read, verdicts, text) == [f \in Files |-> Rendered(f, read, verdicts, text)]

\* The plans a pass may come to: the files in any order, the lines in any order
\* of their texts.
CanonMaps(read) == {CanonMap(read, order) : order \in Injection(CanonFiles, DOMAIN ReadOrder)}

Plans(read, verdicts) ==
  {Plan(read, verdicts, text) :
     text \in Injection(Wanted(verdicts), 1..Cardinality(Wanted(verdicts)))}

Decided(s, verdicts, plan) ==
  [pass[s] EXCEPT !.pc = "write", !.plan = plan,
                  !.set = Upserts(verdicts), !.drop = Deletes(verdicts)]

\* LoadSyncState, Decide and render.  The base is that of this moment, the files
\* are those of the gather.  The order of lines new to a file is that of their
\* text, which the model leaves open.
DecidePass(s) ==
  /\ pass[s].pc = "decide"
  /\ \E canon \in CanonMaps(pass[s].read) :
     \E verdicts \in {Decisions(canon, ProjMap(pass[s].read), base)} :
     \E plan \in Plans(pass[s].read, verdicts) :
       pass' = [pass EXCEPT ![s] = Decided(s, verdicts, plan)]
  /\ nextId' = nextId + Cardinality(Idless(pass[s].read))
  /\ moved' = moved \cup Misfiled(pass[s].read)
  /\ overtaken' = overtaken \cup (late[s] \cap DOMAIN base)
  /\ late' = [late EXCEPT ![s] = {}]
  /\ UNCHANGED <<file, base, stale, events, deleted, clobbered, filed, torn>>

\* A dry run reports the plan and returns.
DryRun(s) ==
  /\ events > 0
  /\ pass[s].pc = "write" /\ pass[s].k = 1
  /\ events' = events - 1
  /\ Resets(s, Idle)
  /\ UNCHANGED <<file, base, nextId, deleted, moved, clobbered, filed, torn, overtaken>>

Advance(s) == [pass[s] EXCEPT !.pc = "write", !.k = @ + 1]

\* The file whose turn it is, in path order.
Writing(s, f) == pass[s].k <= Len(WriteOrder) /\ WriteOrder[pass[s].k] = f

\* withFileLock, held from WriteGuarded's stat to its rename.
Unlocked(f) == \A r \in Syncers : ~(pass[r].pc = "rename" /\ Writing(r, f))

\* It holds its content already.
Skip(s, f) ==
  /\ pass[s].pc = "write" /\ Writing(s, f)
  /\ ~NeedsWrite(s, f)
  /\ pass' = [pass EXCEPT ![s] = Advance(s)]
  /\ UNCHANGED <<file, base, stale, user, clobbered, filed, torn, late, overtaken>>

\* Some file of the pass has been written.
Wrote(s) ==
  \E i \in 1..(pass[s].k - 1) : pass[s].read[WriteOrder[i]] # pass[s].plan[WriteOrder[i]]

\* Mutant of Abort: one attempt too many.
AbortOnceMore(s, f) ==
  /\ pass[s].pc = "write" /\ Writing(s, f)
  /\ NeedsWrite(s, f) /\ Unlocked(f)
  /\ f \in stale[s]
  /\ Resets(s, IF pass[s].attempt >= MaxRetries THEN Idle ELSE Gathering(pass[s].attempt + 1))
  /\ torn' = (torn \/ Wrote(s))
  /\ UNCHANGED <<file, base, user, clobbered, filed, overtaken>>

\* Mutant of Abort: the pass leaves the file out, goes on and commits.
AbortSkipsFile(s, f) ==
  /\ pass[s].pc = "write" /\ Writing(s, f)
  /\ NeedsWrite(s, f) /\ Unlocked(f)
  /\ f \in stale[s]
  /\ pass' = [pass EXCEPT ![s] = Advance(s)]
  /\ UNCHANGED <<file, base, stale, user, clobbered, filed, torn, late, overtaken>>

\* WriteGuarded finds another mtime: the pass is over, Reconcile starts again
\* from the gather unless it has used up its attempts.
Abort(s, f) ==
  /\ pass[s].pc = "write" /\ Writing(s, f)
  /\ NeedsWrite(s, f) /\ Unlocked(f)
  /\ f \in stale[s]
  /\ Resets(s, IF pass[s].attempt + 1 >= MaxRetries THEN Idle
                                                    ELSE Gathering(pass[s].attempt + 1))
  /\ torn' = (torn \/ Wrote(s))
  /\ UNCHANGED <<file, base, user, clobbered, filed, overtaken>>

\* WriteGuarded finds the mtime it expects ...
Check(s, f) ==
  /\ pass[s].pc = "write" /\ Writing(s, f)
  /\ NeedsWrite(s, f) /\ Unlocked(f)
  /\ f \notin stale[s]
  /\ pass' = [pass EXCEPT ![s] = [@ EXCEPT !.pc = "rename"]]
  /\ UNCHANGED <<file, base, stale, user, clobbered, filed, torn, late, overtaken>>

\* ... and writeFileAtomic replaces the file, whatever happened to it since.
Rename(s, f) ==
  /\ pass[s].pc = "rename" /\ Writing(s, f)
  /\ file' = [file EXCEPT ![f] = pass[s].plan[f]]
  /\ filed' = filed \cup (IdsOf(pass[s].plan[f]) \ {NoId})
  /\ clobbered' = IF f \in stale[s] THEN clobbered \cup IdsOf(file[f]) ELSE clobbered
  /\ stale' = Outdated(f, {s})
  /\ pass' = [pass EXCEPT ![s] = Advance(s)]
  /\ UNCHANGED <<base, user, torn, late, overtaken>>

\* Mutant of Commit: the base is kept as it was.
CommitForgets(s) ==
  /\ pass[s].pc = "write" /\ pass[s].k > Len(WriteOrder)
  /\ Resets(s, Idle)
  /\ UNCHANGED <<file, base, user, clobbered, filed, torn, overtaken>>

\* CommitSyncState, after the last file.
Commit(s) ==
  /\ pass[s].pc = "write" /\ pass[s].k > Len(WriteOrder)
  /\ base' = Committed(pass[s].set, pass[s].drop)
  /\ pass' = [pass EXCEPT ![s] = Idle]
  /\ stale' = [stale EXCEPT ![s] = {}]
  /\ late' = [r \in Syncers |->
                IF pass[r].pc \in {"gather", "decide"}
                  THEN late[r] \cup (DOMAIN pass[s].set \ DOMAIN base) ELSE late[r]]
  /\ UNCHANGED <<file, user, clobbered, filed, torn, overtaken>>

\* The process dies, a write fails or the commit fails.
Fail(s) ==
  /\ events > 0
  /\ pass[s].pc # "idle"
  /\ events' = events - 1
  /\ Resets(s, Idle)
  /\ torn' = (torn \/ (pass[s].pc \in {"write", "rename"} /\ Wrote(s)))
  /\ UNCHANGED <<file, base, nextId, deleted, moved, clobbered, filed, overtaken>>

---------------------------------------------------------------------------
\* Edits by users, `qi task` and Obsidian Sync: one file each.

Edit(f, lines) ==
  /\ events > 0
  /\ events' = events - 1
  /\ file' = [file EXCEPT ![f] = lines]
  /\ stale' = Outdated(f, {})
  /\ UNCHANGED <<base, pass, clobbered, torn, late, overtaken>>

\* qi task add: a line with an id, in the canon file of its project.
AddTask ==
  /\ \E p \in Projects :
       Edit(Canon(p), Append(file[Canon(p)],
                             Line(nextId, NewText, IF p = Inbox THEN <<>> ELSE <<p>>)))
  /\ nextId' = nextId + 1
  /\ filed' = filed \cup {nextId}
  /\ UNCHANGED <<deleted, moved>>

\* A line typed by hand has no id; in a projection it needs no project tag.
TypeLine ==
  /\ \E f \in Files, tags \in {<<>>} \cup {<<p>> : p \in Synced} :
       LET line == Line(NoId, NewText, tags)
       IN /\ f[1] = "canon" => Parsed(line).project = f[2]
          /\ Edit(f, Append(file[f], line))
  /\ UNCHANGED <<nextId, deleted, moved, filed>>

RemoveLine ==
  /\ \E f \in Files : \E i \in DOMAIN file[f] :
       /\ Edit(f, RemoveAt(file[f], i))
       /\ deleted' = deleted \cup {file[f][i].id}
  /\ UNCHANGED <<nextId, moved, filed>>

ChangeText ==
  /\ \E f \in Files : \E i \in DOMAIN file[f] : \E text \in Texts :
       /\ text # file[f][i].text
       /\ Edit(f, ReplaceAt(file[f], i, [file[f][i] EXCEPT !.text = text]))
  /\ UNCHANGED <<nextId, deleted, moved, filed>>

\* A task changes project: its line in a canon file gets other tags.
ChangeProject ==
  /\ \E p \in Projects : \E i \in DOMAIN file[Canon(p)] :
       \E tags \in {<<>>} \cup {<<q>> : q \in Synced} :
         /\ tags # file[Canon(p)][i].tags
         /\ Edit(Canon(p), ReplaceAt(file[Canon(p)], i,
                                     [file[Canon(p)][i] EXCEPT !.tags = tags]))
  /\ UNCHANGED <<nextId, deleted, moved, filed>>

---------------------------------------------------------------------------
\* Nothing yet, or one task that has been synced.
Init ==
  /\ \E p \in Synced : \E lines \in {<<>>, <<Line(1, NewText, <<p>>)>>} :
       /\ file = [f \in Files |-> IF f[2] = p THEN lines ELSE <<>>]
       /\ base = [id \in IdsOf(lines) |-> Task(lines[1], p)]
       /\ filed = IdsOf(lines)
  /\ pass = [s \in Syncers |-> Idle]
  /\ stale = [s \in Syncers |-> {}]
  /\ late = [s \in Syncers |-> {}]
  /\ nextId = 2
  /\ events = MaxEvents
  /\ deleted = {}
  /\ moved = {}
  /\ clobbered = {}
  /\ torn = FALSE
  /\ overtaken = {}

PassStep ==
  \E s \in Syncers :
    \/ StartPass(s) \/ Gather(s) \/ DecidePass(s) \/ Commit(s)
    \/ \E f \in Files : Skip(s, f) \/ Abort(s, f) \/ Check(s, f) \/ Rename(s, f)

Next ==
  \/ PassStep
  \/ \E s \in Syncers : StartBeside(s) \/ DryRun(s) \/ Fail(s)
  \/ AddTask
  \/ TypeLine
  \/ RemoveLine
  \/ ChangeText
  \/ ChangeProject

\* The watcher runs a reconcile after every change of a task file, its own
\* writes included, and users run `qi sync`, which is what starts a pass again
\* after one that failed; a pass runs to its end: WF_vars(PassStep).  PassStep is
\* always enabled, and of all steps it is those that spend no event, so its
\* weak fairness is this formula, which is cheaper to evaluate.
Fairness == []<><<events' = events>>_vars

Spec == Init /\ [][Next]_vars /\ Fairness

---------------------------------------------------------------------------
\* Properties

Lines == [id : Nat, text : Texts, tags : Seq(Synced \cup {ConflictTag})]

\* Types; in particular a pass never walks past its files or its attempts.
TypeOK ==
  /\ \A f \in Files : ToSet(file[f]) \subseteq Lines
  /\ \A id \in DOMAIN base : id \in Nat /\ base[id] \in [line : Lines, project : Projects]
  /\ DOMAIN pass = Syncers
  /\ \A s \in Syncers :
       /\ pass[s].pc \in {"idle", "gather", "decide", "write", "rename"}
       /\ pass[s].k \in 0..(Len(WriteOrder) + 1)
       /\ pass[s].attempt \in 0..(MaxRetries - 1)
       /\ stale[s] \subseteq DOMAIN pass[s].read
       /\ late[s] \subseteq Nat
  /\ nextId \in Nat /\ events \in 0..MaxEvents
  /\ deleted \cup moved \cup clobbered \cup filed \cup overtaken \subseteq Nat
  /\ torn \in BOOLEAN

Present == UNION {IdsOf(file[f]) : f \in Files}

\* Between passes, every task that was ever in a file still is in one, however
\* many processes reconcile side by side, unless a user removed it from one, or
\* one of three things the code lets happen has happened to it: its file was
\* edited inside the stat-to-rename window of WriteGuarded; it was moved to
\* another project, and some pass was cut short after its first write or began
\* beside another; or a pass decided on it with a row that another pass entered
\* in the base after the first had begun to read the files.  A task is a line
\* with an id: lines without one share a key (reconcile.go:101), and a rewrite of
\* their file keeps the last.
NoSilentLoss ==
  Resting =>
    \A id \in filed :
      id \in Present \cup deleted \cup clobbered \cup overtaken \/ (id \in moved /\ torn)

\* "it is safe to run concurrently with a manual `qi sync`" (main.go:390): as
\* NoSilentLoss, also for tasks a pass decided on with a late row.
SafeAlongside ==
  Resting =>
    \A id \in filed : id \in Present \cup deleted \cup clobbered \/ (id \in moved /\ torn)

\* A process is about to replace the inbox.
ReplacesInbox(s) ==
  pass[s].pc = "rename" /\ WriteOrder[pass[s].k] = Canon(Inbox) /\ pass'[s].pc = "write"

\* The inbox line it read is still there, or shares its id with another.
InboxLineKept(s, i) ==
  LET inbox  == pass[s].read[Canon(Inbox)]
      others == UNION {IdsOf(pass[s].read[Canon(p)]) : p \in Synced}
  IN \/ inbox[i].tags # <<>>
     \/ inbox[i].id \in others
     \/ \E j \in DOMAIN inbox : j # i /\ inbox[j].id = inbox[i].id
     \/ Contains(file'[Canon(Inbox)], inbox[i])

\* A task of the inbox, which is not synced, is left alone: a pass that
\* rewrites the inbox keeps every line it read there that has an id, and one
\* that is in no other canon line.
InboxUntouched ==
  [][\A s \in Syncers : ReplacesInbox(s) =>
       \A i \in DOMAIN pass[s].read[Canon(Inbox)] :
         pass[s].read[Canon(Inbox)][i].id = NoId \/ InboxLineKept(s, i)]_vars

\* Canon and projection of every synced project hold the same lines, each with
\* an id, and the base knows them.
Agreed ==
  \A p \in Synced :
    /\ ToSet(file[Canon(p)]) = ToSet(file[Projection(p)])
    /\ \A i \in DOMAIN file[Canon(p)] :
         LET l == file[Canon(p)][i]
         IN l.id # NoId /\ l.id \in DOMAIN base /\ base[l.id] = Task(l, p)

\* Once the edits stop, repeated passes bring the vaults into agreement and
\* keep them there, whatever conflicts, races and crashes came before.
Settles == <>[]Agreed

\* The lines of a conflict on id in a file: the two Decide filed there.
Pair(f, id) == {l \in ToSet(file[f]) : l.id = id}

\* What engine.go:26-28 says of a conflict: both versions stay, one tagged, for
\* the user to resolve.  No pass removes a line of a pair that both vaults
\* still hold as the conflict left it.
ConflictKept ==
  [][\A s \in Syncers : pass[s].pc = "rename" /\ pass'[s].pc = "write" =>
       \A p \in Synced : \A id \in IdsOf(file[Canon(p)]) \ {NoId} :
         /\ Cardinality(Pair(Canon(p), id)) = 2
         /\ Pair(Canon(p), id) = Pair(Projection(p), id)
         /\ {Canon(p), Projection(p)} \cap stale[s] = {}
         => Pair(Canon(p), id) \subseteq ToSet(file'[Canon(p)])]_vars
=============================================================================
