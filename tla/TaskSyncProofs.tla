--------------------------- MODULE TaskSyncProofs ---------------------------
(***************************************************************************)
(* Proofs about the cross-vault task sync, for any processes that          *)
(* reconcile side by side, any set of synced projects, any order of the    *)
(* files, any texts and any number of edits, failures and retries: a pass  *)
(* stays within its files and attempts, no task disappears silently but    *)
(* for the named exceptions, and the tasks of the inbox pass through a     *)
(* rewrite unharmed.                                                       *)
(***************************************************************************)
EXTENDS TaskSync, WellFoundedInduction, FiniteSetTheorems, TLAPS

---------------------------------------------------------------------------
(* The inductive invariant                                                 *)

\* A task line as editors and passes leave it: its first tag, if it has one, is
\* a synced project.
TaskLines == {l \in Lines : l.tags = <<>> \/ Head(l.tags) \in Synced}
Contents  == Seq(TaskLines)
Partial   == UNION {[S -> Contents] : S \in SUBSET Files}
SyncRows  == UNION {[S -> [line : TaskLines, project : Synced]] : S \in SUBSET Nat}

InWrite(s) == pass[s].pc \in {"write", "rename"}

\* The file has had its turn in the writes of the pass.
Done(s, f) == InWrite(s) /\ \E i \in 1..(pass[s].k - 1) : WriteOrder[i] = f

PassSet ==
  [pc : {"idle", "gather", "decide", "write", "rename"}, k : Nat,
   attempt : 0..(MaxRetries - 1), read : Partial, plan : Partial,
   set : SyncRows, drop : SUBSET Nat]

\* The parts of a pass at each of its stages.
PassType(p) ==
  /\ p \in PassSet
  /\ p.pc = "idle" => p.k = 0 /\ p.read = <<>>
  /\ p.pc = "gather" =>
       /\ p.k \in DOMAIN ReadOrder
       /\ DOMAIN p.read = {ReadOrder[i] : i \in 1..(p.k - 1)}
  /\ p.pc \in {"idle", "gather", "decide"} => p.plan = <<>> /\ p.set = <<>>
  /\ p.pc = "decide" => p.k = 1
  /\ p.pc \in {"decide", "write", "rename"} => DOMAIN p.read = Files
  /\ p.pc \in {"write", "rename"} =>
       DOMAIN p.plan = Files /\ p.k \in 1..(Len(WriteOrder) + 1)
  /\ p.pc = "rename" => p.k \in DOMAIN WriteOrder

SyncType ==
  /\ file \in [Files -> Contents]
  /\ base \in SyncRows
  /\ pass \in [Syncers -> PassSet] /\ \A s \in Syncers : PassType(pass[s])
  /\ stale \in [Syncers -> SUBSET Files]
  /\ \A s \in Syncers : stale[s] \subseteq DOMAIN pass[s].read
  /\ late \in [Syncers -> SUBSET Nat]
  /\ nextId \in Nat \ {NoId} /\ events \in 0..MaxEvents
  /\ deleted \cup moved \cup clobbered \cup filed \cup overtaken \subseteq Nat
  /\ NoId \notin filed
  /\ torn \in BOOLEAN

\* The id occurs under the project: in a file, in what some pass read of one or
\* plans for it, in the base or in what is to be committed.
At(id, p) ==
  \/ \E f \in Files : f[2] = p /\ id \in IdsOf(file[f])
  \/ \E s \in Syncers : \E f \in DOMAIN pass[s].read : f[2] = p /\ id \in IdsOf(pass[s].read[f])
  \/ \E s \in Syncers : \E f \in DOMAIN pass[s].plan : f[2] = p /\ id \in IdsOf(pass[s].plan[f])
  \/ id \in DOMAIN base /\ base[id].project = p
  \/ \E s \in Syncers : id \in DOMAIN pass[s].set /\ pass[s].set[id].project = p

\* Ids in use have been minted.
Fresh == \A p \in Projects : \A id \in Nat : At(id, p) => id < nextId

\* A task that never changed project is under one.
OneHome ==
  \A id \in Nat \ (moved \cup {NoId}) : \A p, q \in Projects : At(id, p) /\ At(id, q) => p = q

\* What happens to the id is not the user's doing, nor that of the window, of a
\* late row or of a move that was cut short or had company.
Firm(id) ==
  id \notin deleted \cup clobbered \cup overtaken \cup {NoId} /\ ~(id \in moved /\ torn)

\* Until two passes overlap, at most one is under way.
Alone ==
  ~torn => \A s, r \in Syncers : pass[s].pc # "idle" /\ pass[r].pc # "idle" => s = r

\* The guard's view: a file the pass has still to write is as it read it or
\* stale, and has kept the firm ids; a file it is done with has those planned
\* for it; and a file about to be replaced differs.
GuardOK(s) ==
  /\ \A f \in DOMAIN pass[s].read : ~Done(s, f) =>
       /\ f \notin stale[s] => file[f] = pass[s].read[f]
       /\ \A id \in IdsOf(pass[s].read[f]) : Firm(id) => id \in IdsOf(file[f])
  /\ \A f \in Files : Done(s, f) =>
       \A id \in IdsOf(pass[s].plan[f]) : Firm(id) => id \in IdsOf(file[f])
  /\ pass[s].pc = "rename" =>
       pass[s].read[WriteOrder[pass[s].k]] # pass[s].plan[WriteOrder[pass[s].k]]

\* The id is in the file, and every pass that has read the file and not decided
\* yet has read it, or its row is late for that pass.
Seen(id, f) ==
  /\ id \in IdsOf(file[f])
  /\ \A s \in Syncers : ~InWrite(s) /\ f \in DOMAIN pass[s].read =>
       id \in IdsOf(pass[s].read[f]) \/ id \in late[s]

Both(p) == {Canon(p), Projection(p)}

SeenSomewhere(id) ==
  (\E f \in CanonFiles : Seen(id, f)) /\ (\E f \in ProjectionFiles : Seen(id, f))

NobodyWrote == \A s \in Syncers : InWrite(s) => ~Wrote(s)

\* A base row stands for a line in canon and one in the projection: those of its
\* project; for a task that changed project those of some project, until a pass
\* writes.
BaseOK ==
  \A id \in DOMAIN base : Firm(id) =>
    /\ id \notin moved => \A f \in Both(base[id].project) : Seen(id, f)
    /\ id \in moved /\ NobodyWrote => SeenSomewhere(id)

\* A row to be committed is planned for both files of its project, and so is,
\* while a pass is alone, one that stays.
RowsOK(s) ==
  InWrite(s) =>
    /\ \A id \in DOMAIN pass[s].set : \A f \in Both(pass[s].set[id].project) :
         id \in IdsOf(pass[s].plan[f])
    /\ ~torn => \A id \in DOMAIN base \ (DOMAIN pass[s].set \cup pass[s].drop) :
                  \A f \in Both(base[id].project) : id \in IdsOf(pass[s].plan[f])

\* What a pass read it files again, a task that never changed project in the
\* same file.
PlanOK(s) ==
  InWrite(s) => \A f \in Files : \A id \in IdsOf(pass[s].read[f]) : Firm(id) =>
    /\ \E g \in Files : id \in IdsOf(pass[s].plan[g])
    /\ id \notin moved => id \in IdsOf(pass[s].plan[f])

\* A pass has written something and has still to write the id.
OnItsWay(s, id) ==
  InWrite(s) /\ Wrote(s) /\ \E f \in Files : ~Done(s, f) /\ id \in IdsOf(pass[s].plan[f])

\* A task is in a file; one that changed project may in the middle of a pass be
\* on its way to one.
KeptOK ==
  \A id \in filed : Firm(id) =>
    id \in Present \/ (id \in moved /\ \E s \in Syncers : OnItsWay(s, id))

\* What InboxUntouched says, of the plan.
InboxPlanned(s) ==
  InWrite(s) =>
    LET inbox  == pass[s].read[Canon(Inbox)]
        others == UNION {IdsOf(pass[s].read[Canon(p)]) : p \in Synced}
    IN \A i \in DOMAIN inbox :
         \/ inbox[i].id = NoId
         \/ inbox[i].tags # <<>>
         \/ inbox[i].id \in others
         \/ \E j \in DOMAIN inbox : j # i /\ inbox[j].id = inbox[i].id
         \/ Contains(pass[s].plan[Canon(Inbox)], inbox[i])

PassOK(s) == GuardOK(s) /\ RowsOK(s) /\ PlanOK(s) /\ InboxPlanned(s)

SyncInv ==
  /\ SyncType /\ Fresh /\ OneHome /\ Alone
  /\ BaseOK /\ KeptOK
  /\ \A s \in Syncers : PassOK(s)

---------------------------------------------------------------------------
(* Numbers and sequences                                                   *)

\* A set of numbers that is not empty has a least member.
LEMMA LeastMember ==
  ASSUME NEW T, T \subseteq Nat, T # {}
  PROVE  \E x \in T : \A y \in T : x <= y
<1> DEFINE R == OpToRel(<, Nat)
<1>1. \A x, y \in Nat : x < y => <<x, y>> \in R
  BY DEF OpToRel
<1>2. IsWellFoundedOn(R, Nat)
  BY NatLessThanWellFounded
<1> HIDE DEF R
<1>3. PICK x \in T : \A y \in T : ~ (<<y, x>> \in R)
  BY <1>2, WFMin
<1>4. \A y \in T : ~ (y < x)
  BY <1>1, <1>3
<1> QED
  BY <1>4

\* One that is bounded has a greatest.
LEMMA GreatestMember ==
  ASSUME NEW T, NEW n \in Nat, T \subseteq 0..n, T # {}
  PROVE  \E x \in T : \A y \in T : y <= x
<1> DEFINE U == {m \in 0..n : n - m \in T}
<1>1. U \subseteq Nat
  OBVIOUS
<1>2. U # {}
  <2>1. PICK t \in T : TRUE
    OBVIOUS
  <2>2. n - t \in 0..n /\ n - (n - t) = t
    OBVIOUS
  <2> QED BY <2>1, <2>2
<1>3. PICK u \in U : \A v \in U : u <= v
  <2> HIDE DEF U
  <2> QED BY <1>1, <1>2, LeastMember
<1>4. n - u \in T /\ u \in Nat
  BY <1>3
<1>5. ASSUME NEW y \in T PROVE y <= n - u
  <2>1. y \in 0..n /\ n - (n - y) = y
    OBVIOUS
  <2>2. n - y \in 0..n
    BY <2>1
  <2>3. n - y \in U
    BY <2>1, <2>2
  <2>4. u <= n - y
    BY <2>3, <1>3
  <2> QED BY <2>1, <2>4, <1>4
<1> QED
  BY <1>4, <1>5

\* The ids of a file are numbers, and each has a place.
LEMMA IdsAre ==
  ASSUME NEW s \in Contents
  PROVE  /\ IdsOf(s) \subseteq Nat
         /\ \A id : id \in IdsOf(s) <=> \E i \in DOMAIN s : s[i].id = id
         /\ \A id : PlacesOf(s, id) \subseteq DOMAIN s
         /\ \A id : id \in IdsOf(s) <=> PlacesOf(s, id) # {}
         /\ \A i \in DOMAIN s : s[i] \in TaskLines /\ s[i].id \in Nat
         /\ DOMAIN s = 1..Len(s) /\ Len(s) \in Nat
<1>1. \A i \in DOMAIN s : s[i] \in TaskLines /\ s[i].id \in Nat
  BY DEF Contents, TaskLines, Lines
<1>2. DOMAIN s = 1..Len(s) /\ Len(s) \in Nat
  BY DEF Contents
<1> QED
  BY <1>1, <1>2 DEF IdsOf, PlacesOf

\* LastWith is a line of the file with the id.
LEMMA LastWithOK ==
  ASSUME NEW s \in Contents, NEW id \in IdsOf(s)
  PROVE  \E i \in DOMAIN s : s[i].id = id /\ LastWith(s, id) = s[i]
<1>1. PlacesOf(s, id) \subseteq 0..Len(s) /\ PlacesOf(s, id) # {} /\ Len(s) \in Nat
  BY IdsAre
<1>2. \E i \in PlacesOf(s, id) : \A j \in PlacesOf(s, id) : j <= i
  BY <1>1, GreatestMember
<1> DEFINE i == CHOOSE i \in PlacesOf(s, id) : \A j \in PlacesOf(s, id) : j <= i
<1>3. i \in PlacesOf(s, id)
  BY <1>2
<1>4. LastWith(s, id) = s[i]
  BY DEF LastWith
<1> HIDE DEF i
<1> QED
  BY <1>3, <1>4 DEF PlacesOf

\* FirstWith is a place of the id.
LEMMA FirstWithOK ==
  ASSUME NEW s \in Contents, NEW id \in IdsOf(s)
  PROVE  FirstWith(s, id) \in DOMAIN s /\ s[FirstWith(s, id)].id = id
<1>1. PlacesOf(s, id) \subseteq Nat /\ PlacesOf(s, id) # {}
  BY IdsAre
<1>2. \E i \in PlacesOf(s, id) : \A j \in PlacesOf(s, id) : i <= j
  BY <1>1, LeastMember
<1>3. FirstWith(s, id) \in PlacesOf(s, id)
  BY <1>2 DEF FirstWith
<1> QED
  BY <1>3 DEF PlacesOf

\* LastHolder is a file with the id, if there is one and the order is by
\* numbers up to some n.
LEMMA LastHolderOK ==
  ASSUME NEW contents, NEW n \in Nat, NEW order \in [DOMAIN contents -> 0..n],
         NEW id \in AllIds(contents)
  PROVE  /\ LastHolder(contents, order, id) \in DOMAIN contents
         /\ id \in IdsOf(contents[LastHolder(contents, order, id)])
<1> DEFINE T == {order[f] : f \in Holders(contents, id)}
<1>1. T \subseteq 0..n /\ T # {}
  BY DEF Holders, AllIds
<1>2. PICK x \in T : \A y \in T : y <= x
  <2> HIDE DEF T
  <2> QED BY <1>1, GreatestMember
<1>3. \E f \in Holders(contents, id) : \A g \in Holders(contents, id) : order[g] <= order[f]
  BY <1>2
<1>4. LastHolder(contents, order, id) \in Holders(contents, id)
  BY <1>3 DEF LastHolder
<1> QED
  BY <1>4 DEF Holders

\* What the edits of a file do to its ids.
LEMMA AppendIds ==
  ASSUME NEW s \in Contents, NEW l \in TaskLines
  PROVE  Append(s, l) \in Contents /\ IdsOf(Append(s, l)) = IdsOf(s) \cup {l.id}
<1>1. Append(s, l) \in Contents
  BY DEF Contents
<1>2. /\ DOMAIN Append(s, l) = 1..(Len(s) + 1) /\ DOMAIN s = 1..Len(s) /\ Len(s) \in Nat
      /\ \A i \in DOMAIN s : Append(s, l)[i] = s[i]
      /\ Append(s, l)[Len(s) + 1] = l
  BY DEF Contents
<1>3. \A i \in DOMAIN Append(s, l) : i \in DOMAIN s \/ i = Len(s) + 1
  BY <1>2
<1>4. DOMAIN s \subseteq DOMAIN Append(s, l) /\ Len(s) + 1 \in DOMAIN Append(s, l)
  BY <1>2
<1>5. IdsOf(Append(s, l)) \subseteq IdsOf(s) \cup {l.id}
  BY <1>2, <1>3 DEF IdsOf
<1>6. IdsOf(s) \cup {l.id} \subseteq IdsOf(Append(s, l))
  BY <1>2, <1>4 DEF IdsOf
<1> QED
  BY <1>1, <1>5, <1>6

\* An edit that keeps the id of a line keeps the ids of the file.
LEMMA ReplaceIds ==
  ASSUME NEW s \in Contents, NEW i \in DOMAIN s, NEW l \in TaskLines, l.id = s[i].id
  PROVE  ReplaceAt(s, i, l) \in Contents /\ IdsOf(ReplaceAt(s, i, l)) = IdsOf(s)
<1> DEFINE t == ReplaceAt(s, i, l)
<1>1. t \in Contents
  BY DEF ReplaceAt, Contents
<1>2. DOMAIN t = DOMAIN s /\ \A j \in DOMAIN s : t[j].id = s[j].id
  BY DEF ReplaceAt, Contents
<1> HIDE DEF t
<1>3. IdsOf(t) = IdsOf(s)
  BY <1>2 DEF IdsOf
<1> QED
  BY <1>1, <1>3 DEF t

\* A line removed takes at most its own id from the file.
LEMMA RemoveIds ==
  ASSUME NEW s \in Contents, NEW i \in DOMAIN s
  PROVE  /\ RemoveAt(s, i) \in Contents
         /\ IdsOf(RemoveAt(s, i)) \subseteq IdsOf(s)
         /\ IdsOf(s) \subseteq IdsOf(RemoveAt(s, i)) \cup {s[i].id}
<1> DEFINE a == SubSeq(s, 1, i - 1)
           b == SubSeq(s, i + 1, Len(s))
           t == a \o b
<1>1. i \in 1..Len(s) /\ Len(s) \in Nat /\ DOMAIN s = 1..Len(s) /\ s \in Seq(TaskLines)
  BY DEF Contents
<1>2. /\ a \in Seq(TaskLines) /\ Len(a) = i - 1
      /\ \A j \in 1..(i - 1) : a[j] = s[j]
  BY <1>1
<1>3. /\ b \in Seq(TaskLines) /\ Len(b) = Len(s) - i
      /\ \A j \in 1..(Len(s) - i) : b[j] = s[i + j]
  BY <1>1
<1> HIDE DEF a, b
<1>4. /\ t \in Seq(TaskLines) /\ Len(t) = Len(s) - 1 /\ DOMAIN t = 1..(Len(s) - 1)
      /\ \A j \in 1..(Len(s) - 1) : t[j] = IF j <= i - 1 THEN a[j] ELSE b[j - (i - 1)]
  <2>1. a \in Seq(TaskLines) /\ b \in Seq(TaskLines)
    BY <1>2, <1>3
  <2>2. t \in Seq(TaskLines)
    BY <2>1
  <2>3. Len(t) = Len(a) + Len(b)
    BY <2>1
  <2>4. \A j \in 1..Len(t) : t[j] = IF j <= Len(a) THEN a[j] ELSE b[j - Len(a)]
    BY <2>1
  <2>5. Len(a) + Len(b) = Len(s) - 1
    BY <1>1, <1>2, <1>3
  <2> HIDE DEF t
  <2>6. DOMAIN t = 1..Len(t)
    BY <2>2
  <2> QED BY <2>2, <2>3, <2>4, <2>5, <2>6, <1>2
<1>5. RemoveAt(s, i) = t
  BY DEF RemoveAt, a, b
<1> HIDE DEF t
<1>6. /\ \A j \in 1..(i - 1) : t[j] = s[j]
      /\ \A j \in i..(Len(s) - 1) : t[j] = s[j + 1]
  <2>1. ASSUME NEW j \in 1..(i - 1) PROVE t[j] = s[j]
    <3>1. j \in 1..(Len(s) - 1) /\ j <= i - 1
      BY <1>1
    <3> QED BY <3>1, <1>2, <1>4
  <2>2. ASSUME NEW j \in i..(Len(s) - 1) PROVE t[j] = s[j + 1]
    <3>1. j \in 1..(Len(s) - 1) /\ ~(j <= i - 1)
      BY <1>1
    <3>2. j - (i - 1) \in 1..(Len(s) - i) /\ i + (j - (i - 1)) = j + 1
      BY <1>1
    <3>3. t[j] = b[j - (i - 1)]
      BY <3>1, <1>4
    <3> QED BY <3>2, <3>3, <1>3
  <2> QED BY <2>1, <2>2
<1>7. \A j \in DOMAIN t : \E k \in DOMAIN s : t[j] = s[k]
  <2> TAKE j \in DOMAIN t
  <2>1. CASE j \in 1..(i - 1)
    BY <2>1, <1>1, <1>6
  <2>2. CASE j \in i..(Len(s) - 1)
    <3>1. j + 1 \in DOMAIN s
      BY <2>2, <1>1
    <3> QED BY <2>2, <3>1, <1>6
  <2> QED BY <2>1, <2>2, <1>1, <1>4
<1>8. \A k \in DOMAIN s : k = i \/ \E j \in DOMAIN t : t[j] = s[k]
  <2> TAKE k \in DOMAIN s
  <2>1. CASE k < i
    <3>1. k \in 1..(i - 1) /\ k \in DOMAIN t
      BY <2>1, <1>1, <1>4
    <3> QED BY <3>1, <1>6
  <2>2. CASE k > i
    <3>1. k - 1 \in i..(Len(s) - 1) /\ k - 1 \in DOMAIN t /\ (k - 1) + 1 = k
      BY <2>2, <1>1, <1>4
    <3>2. t[k - 1] = s[k]
      BY <3>1, <1>6
    <3> QED BY <3>1, <3>2
  <2> QED BY <2>1, <2>2, <1>1
<1>9. IdsOf(t) \subseteq IdsOf(s)
  BY <1>7 DEF IdsOf
<1>10. IdsOf(s) \subseteq IdsOf(t) \cup {s[i].id}
  BY <1>8 DEF IdsOf
<1> QED
  BY <1>4, <1>5, <1>9, <1>10 DEF Contents

\* Both orders list every file once.
LEMMA OrdersOK ==
  /\ ReadOrder \in Seq(Files) /\ WriteOrder \in Seq(Files)
  /\ DOMAIN ReadOrder = 1..Len(ReadOrder) /\ DOMAIN WriteOrder = 1..Len(WriteOrder)
  /\ Len(ReadOrder) = Len(WriteOrder) /\ Len(ReadOrder) \in Nat \ {0}
  /\ \A f \in Files : \E i \in DOMAIN ReadOrder : ReadOrder[i] = f
  /\ \A f \in Files : \E i \in DOMAIN WriteOrder : WriteOrder[i] = f
  /\ \A i, j \in DOMAIN WriteOrder : WriteOrder[i] = WriteOrder[j] => i = j
  /\ IsFiniteSet(Files)
<1>1. ReadOrder \in Seq(Files) /\ WriteOrder \in Seq(Files)
  BY OrderAssumption
<1>2. ToSet(ReadOrder) = Files /\ ToSet(WriteOrder) = Files
  BY OrderAssumption
<1>3. IsInjective(ReadOrder) /\ IsInjective(WriteOrder)
  BY OrderAssumption
<1>4. \A f \in Files : \E i \in DOMAIN ReadOrder : ReadOrder[i] = f
  BY <1>2 DEF ToSet
<1>5. \A f \in Files : \E i \in DOMAIN WriteOrder : WriteOrder[i] = f
  BY <1>2 DEF ToSet
<1> DEFINE m == Len(ReadOrder)
           n == Len(WriteOrder)
<1>6. m \in Nat /\ n \in Nat /\ DOMAIN ReadOrder = 1..m /\ DOMAIN WriteOrder = 1..n
      /\ ReadOrder \in [1..m -> Files] /\ WriteOrder \in [1..n -> Files]
  BY <1>1
<1> HIDE DEF m, n
<1>7. ReadOrder \in Surjection(1..m, Files) /\ WriteOrder \in Surjection(1..n, Files)
  BY <1>4, <1>5, <1>6 DEF Surjection
<1>8. ReadOrder \in Injection(1..m, Files) /\ WriteOrder \in Injection(1..n, Files)
  BY <1>3, <1>6 DEF Injection
<1>9. IsFiniteSet(1..m) /\ IsFiniteSet(1..n) /\ Cardinality(1..m) = m /\ Cardinality(1..n) = n
  BY <1>6, FS_Interval
<1>10. IsFiniteSet(Files) /\ Cardinality(Files) = m /\ Cardinality(Files) = n
  BY <1>7, <1>8, <1>9, FS_Surjection
<1>11. m # 0
  <2>1. Canon(Inbox) \in Files
    BY DEF Files, CanonFiles, Projects
  <2> QED BY <2>1, <1>4, <1>6
<1> QED
  BY <1>1, <1>3, <1>4, <1>5, <1>6, <1>10, <1>11 DEF IsInjective, m, n

\* A set sorted by an injective key is a sequence of just its members.
LEMMA SortedOK ==
  ASSUME NEW D, IsFiniteSet(D), NEW key \in [D -> Nat],
         \A l, m \in D : key[l] = key[m] => l = m
  PROVE  SortedBy(key) \in Seq(D) /\ ToSet(SortedBy(key)) = D
<1> DEFINE Upto(l) == {m \in D : key[m] <= key[l]}
           place == [l \in D |-> Cardinality(Upto(l))]
           n == Cardinality(D)
<1>1. n \in Nat
  BY FS_CardinalityType
<1>2. \A l \in D : IsFiniteSet(Upto(l)) /\ Cardinality(Upto(l)) \in Nat /\ Cardinality(Upto(l)) <= n
  <2> TAKE l \in D
  <2>1. Upto(l) \in SUBSET D
    OBVIOUS
  <2> QED BY <2>1, FS_Subset, FS_CardinalityType
<1>3. \A l \in D : Cardinality(Upto(l)) # 0
  <2> TAKE l \in D
  <2>1. l \in Upto(l)
    OBVIOUS
  <2> QED BY <2>1, <1>2, FS_EmptySet
<1>4. \A l, m \in D : key[l] < key[m] => Cardinality(Upto(l)) # Cardinality(Upto(m))
  <2> SUFFICES ASSUME NEW l \in D, NEW m \in D, key[l] < key[m],
                      Cardinality(Upto(l)) = Cardinality(Upto(m))
               PROVE  FALSE
    OBVIOUS
  <2>1. Upto(l) \subseteq Upto(m)
    OBVIOUS
  <2>2. Upto(l) = Upto(m)
    BY <1>2, <2>1, FS_Subset
  <2>3. m \in Upto(m) /\ m \notin Upto(l)
    OBVIOUS
  <2> QED BY <2>2, <2>3
<1>5. place \in [D -> 1..n]
  BY <1>1, <1>2, <1>3
<1>6. \A l, m \in D : place[l] = place[m] => l = m
  <2> SUFFICES ASSUME NEW l \in D, NEW m \in D, place[l] = place[m]
               PROVE  l = m
    OBVIOUS
  <2>1. Cardinality(Upto(l)) = Cardinality(Upto(m))
    OBVIOUS
  <2> HIDE DEF Upto
  <2>2. ~(key[l] < key[m]) /\ ~(key[m] < key[l])
    BY <2>1, <1>4
  <2>3. key[l] \in Nat /\ key[m] \in Nat
    OBVIOUS
  <2> QED BY <2>2, <2>3
<1>7. place \in Surjection(D, 1..n)
  <2> HIDE DEF place, n
  <2>1. place \in Injection(D, 1..n)
    BY <1>5, <1>6 DEF Injection, IsInjective
  <2>2. IsFiniteSet(1..n) /\ Cardinality(1..n) = n
    BY <1>1, FS_Interval
  <2>3. Cardinality(D) = Cardinality(1..n)
    BY <2>2 DEF n
  <2> QED BY <2>1, <2>2, <2>3, FS_Injection
<1> DEFINE s == SortedBy(key)
<1>8. /\ DOMAIN key = D
      /\ s = [k \in 1..Cardinality(DOMAIN key) |->
                 CHOOSE l \in DOMAIN key : PlaceBy(key, l) = k]
  BY DEF SortedBy
<1>9. \A l \in D : place[l] = PlaceBy(key, l)
  BY <1>8 DEF PlaceBy
<1> HIDE DEF place, n, Upto, s
<1>10. \A k \in 1..n : \E l \in D : place[l] = k
  BY <1>7 DEF Surjection
<1>11. \A k \in 1..n : s[k] \in D /\ place[s[k]] = k
  <2> TAKE k \in 1..n
  <2>1. \E l \in DOMAIN key : PlaceBy(key, l) = k
    BY <1>8, <1>10, <1>9
  <2>2. s[k] = CHOOSE l \in DOMAIN key : PlaceBy(key, l) = k
    BY <1>8 DEF n
  <2>3. s[k] \in DOMAIN key /\ PlaceBy(key, s[k]) = k
    BY <2>1, <2>2
  <2> QED BY <2>3, <1>8, <1>9
<1>12. s \in [1..n -> D]
  BY <1>8, <1>11 DEF n
<1>13. s \in Seq(D) /\ DOMAIN s = 1..n
  BY <1>1, <1>12
<1>14. \A l \in D : place[l] \in 1..n /\ s[place[l]] = l
  BY <1>5, <1>6, <1>11
<1>15. \A l : l \in ToSet(s) <=> l \in D
  BY <1>11, <1>13, <1>14 DEF ToSet
<1> QED
  BY <1>13, <1>15 DEF s

---------------------------------------------------------------------------
(* The maps a pass decides on                                              *)

\* The canon map has the ids of the canon files, each with one of its lines.
LEMMA CanonMapOK ==
  ASSUME NEW read \in [Files -> Contents], NEW canon \in CanonMaps(read)
  PROVE  /\ \A id : id \in DOMAIN canon <=> \E f \in CanonFiles : id \in IdsOf(read[f])
         /\ \A id \in DOMAIN canon : \E f \in CanonFiles : \E i \in DOMAIN read[f] :
              read[f][i].id = id /\ canon[id] = Parsed(read[f][i])
<1> DEFINE contents == [f \in CanonFiles |-> read[f]]
           n == Len(ReadOrder)
<1>1. PICK order \in Injection(CanonFiles, DOMAIN ReadOrder) : canon = CanonMap(read, order)
  BY DEF CanonMaps
<1>2. n \in Nat /\ order \in [DOMAIN contents -> 0..n]
  <2>1. order \in [CanonFiles -> DOMAIN ReadOrder]
    BY <1>1 DEF Injection
  <2>2. DOMAIN ReadOrder \subseteq 0..n /\ n \in Nat
    BY OrdersOK
  <2> QED BY <2>1, <2>2
<1>3. \A f \in CanonFiles : contents[f] = read[f] /\ read[f] \in Contents
  BY DEF Files
<1>4. \A id : id \in AllIds(contents) <=> \E f \in CanonFiles : id \in IdsOf(read[f])
  BY <1>3 DEF AllIds
<1>5. canon = [id \in AllIds(contents) |->
                 Parsed(LastWith(contents[LastHolder(contents, order, id)], id))]
  BY <1>1 DEF CanonMap
<1>6. DOMAIN contents = CanonFiles
  OBVIOUS
<1> HIDE DEF contents, n
<1>7. ASSUME NEW id \in DOMAIN canon
      PROVE  \E f \in CanonFiles : \E i \in DOMAIN read[f] :
               read[f][i].id = id /\ canon[id] = Parsed(read[f][i])
  <2> DEFINE f == LastHolder(contents, order, id)
  <2>1. id \in AllIds(contents)
    BY <1>5
  <2>2. f \in CanonFiles /\ id \in IdsOf(contents[f])
    BY <1>2, <1>6, <2>1, LastHolderOK
  <2>3. canon[id] = Parsed(LastWith(contents[f], id))
    BY <1>5, <2>1
  <2> HIDE DEF f
  <2>4. contents[f] = read[f] /\ read[f] \in Contents
    BY <1>3, <2>2
  <2>5. PICK i \in DOMAIN read[f] : read[f][i].id = id /\ LastWith(read[f], id) = read[f][i]
    BY <2>2, <2>4, LastWithOK
  <2> QED BY <2>2, <2>3, <2>4, <2>5
<1> QED
  BY <1>4, <1>5, <1>7

\* The lines without an id are finitely many.
LEMMA IdlessFinite ==
  ASSUME NEW read \in [Files -> Contents]
  PROVE  IsFiniteSet(Idless(read)) /\ Cardinality(Idless(read)) \in Nat
<1> DEFINE Some(f) == {f} \X PlacesOf(read[f], NoId)
           all == {Some(f) : f \in ProjectionFiles}
           g == [f \in ProjectionFiles |-> Some(f)]
<1>1. \A f \in ProjectionFiles : IsFiniteSet(Some(f))
  <2> TAKE f \in ProjectionFiles
  <2>1. read[f] \in Contents
    BY DEF Files
  <2>2. PlacesOf(read[f], NoId) \in SUBSET (1..Len(read[f])) /\ Len(read[f]) \in Nat
    BY <2>1, IdsAre
  <2>3. IsFiniteSet(PlacesOf(read[f], NoId))
    <3>1. IsFiniteSet(1..Len(read[f]))
      BY <2>2, FS_Interval
    <3> QED BY <2>2, <3>1, FS_Subset
  <2>4. IsFiniteSet({f})
    BY FS_Singleton
  <2> QED BY <2>3, <2>4, FS_Product
<1>2. IsFiniteSet(ProjectionFiles)
  <2>1. ProjectionFiles \in SUBSET Files
    BY DEF Files
  <2> QED BY <2>1, OrdersOK, FS_Subset
<1>3. g \in Surjection(ProjectionFiles, all)
  BY DEF Surjection
<1> HIDE DEF g
<1>4. IsFiniteSet(all)
  <2> HIDE DEF all
  <2> QED BY <1>2, <1>3, FS_Surjection
<1>5. \A T \in all : IsFiniteSet(T)
  <2> HIDE DEF Some
  <2> QED BY <1>1
<1>6. Idless(read) = UNION all
  BY DEF Idless
<1> HIDE DEF all
<1> QED
  BY <1>4, <1>5, <1>6, FS_UNION, FS_CardinalityType

\* The projection map has the ids of the projections and the new ones, each
\* with a line of some projection as a task of its project.
LEMMA ProjMapOK ==
  ASSUME nextId \in Nat, NEW read \in [Files -> Contents], NEW proj, proj = ProjMap(read)
  PROVE  /\ \A f \in ProjectionFiles : IdsOf(read[f]) \ {NoId} \subseteq DOMAIN proj
         /\ \A id \in DOMAIN proj : \E f \in ProjectionFiles : \E j \in DOMAIN read[f] :
              /\ proj[id] = ForceProject([read[f][j] EXCEPT !.id = id], f[2])
              /\ \/ read[f][j].id = id
                 \/ id \in nextId..(nextId + Cardinality(Idless(read)) - 1)
<1> DEFINE contents == WithIds(read)
           order == [f \in ProjectionFiles |-> Position(f)]
           n == Len(ReadOrder)
<1>1. /\ DOMAIN contents = ProjectionFiles
      /\ \A f \in ProjectionFiles :
           contents[f] = [j \in DOMAIN read[f] |->
              IF read[f][j].id = NoId THEN [read[f][j] EXCEPT !.id = nextId + Minted(read, f, j)]
                                      ELSE read[f][j]]
  BY DEF WithIds
<1>2. n \in Nat /\ order \in [ProjectionFiles -> 0..n]
  <2>1. n \in Nat /\ DOMAIN ReadOrder \subseteq 0..n
    BY OrdersOK
  <2>2. \A f \in ProjectionFiles : \E i \in DOMAIN ReadOrder : ReadOrder[i] = f
    BY OrdersOK DEF Files
  <2>3. \A f \in ProjectionFiles : Position(f) \in DOMAIN ReadOrder
    BY <2>2 DEF Position
  <2> QED BY <2>1, <2>3
<1>3. proj = [id \in AllIds(contents) |->
                ForceProject(LastWith(contents[LastHolder(contents, order, id)], id),
                             LastHolder(contents, order, id)[2])]
  BY DEF ProjMap
<1> HIDE DEF contents, order, n
<1>4. \A f \in ProjectionFiles : read[f] \in Contents /\ DOMAIN contents[f] = DOMAIN read[f]
  BY <1>1 DEF Files
<1>5. ASSUME NEW f \in ProjectionFiles, NEW j \in DOMAIN read[f], read[f][j].id = NoId
      PROVE  Minted(read, f, j) \in 0..(Cardinality(Idless(read)) - 1)
  <2> DEFINE S == {q \in Idless(read) : Position(q[1]) < Position(f) \/ (q[1] = f /\ q[2] < j)}
  <2>1. S \in SUBSET Idless(read)
    OBVIOUS
  <2>2. <<f, j>> \in Idless(read)
    BY <1>5 DEF Idless, PlacesOf
  <2>3. j \in Nat
    BY <1>4, IdsAre
  <2>4. Position(f) \in Nat
    BY <1>2 DEF order
  <2>5. <<f, j>> \notin S
    BY <2>3, <2>4
  <2>6. IsFiniteSet(Idless(read)) /\ Cardinality(Idless(read)) \in Nat
    BY IdlessFinite
  <2>7. Minted(read, f, j) = Cardinality(S)
    BY DEF Minted
  <2> HIDE DEF S
  <2>8. IsFiniteSet(S) /\ Cardinality(S) <= Cardinality(Idless(read)) /\ Cardinality(S) \in Nat
    BY <2>1, <2>6, FS_Subset, FS_CardinalityType
  <2>9. Cardinality(S) # Cardinality(Idless(read))
    BY <2>1, <2>2, <2>5, <2>6, FS_Subset
  <2> QED BY <2>6, <2>7, <2>8, <2>9
<1>6. ASSUME NEW f \in ProjectionFiles, NEW j \in DOMAIN read[f]
      PROVE  /\ contents[f][j] = [read[f][j] EXCEPT !.id = contents[f][j].id]
             /\ contents[f][j].id \in Nat
             /\ \/ read[f][j].id = contents[f][j].id
                \/ /\ read[f][j].id = NoId
                   /\ contents[f][j].id \in nextId..(nextId + Cardinality(Idless(read)) - 1)
             /\ contents[f][j] \in TaskLines
  <2>1. read[f][j] \in TaskLines
    BY <1>4, IdsAre
  <2>2. Cardinality(Idless(read)) \in Nat
    BY IdlessFinite
  <2>3. CASE read[f][j].id # NoId
    <3>1. contents[f][j] = read[f][j]
      BY <1>1, <2>3
    <3> QED BY <2>1, <3>1 DEF TaskLines, Lines
  <2>4. CASE read[f][j].id = NoId
    <3> DEFINE m == Minted(read, f, j)
    <3>1. contents[f][j] = [read[f][j] EXCEPT !.id = nextId + m]
      BY <1>1, <2>4
    <3>2. m \in 0..(Cardinality(Idless(read)) - 1)
      BY <1>5, <2>4
    <3> HIDE DEF m
    <3>3. nextId + m \in Nat /\ nextId + m \in nextId..(nextId + Cardinality(Idless(read)) - 1)
      BY <2>2, <3>2
    <3>4. contents[f][j].id = nextId + m
      BY <2>1, <3>1 DEF TaskLines, Lines
    <3>5. contents[f][j] \in TaskLines
      BY <2>1, <3>1, <3>3 DEF TaskLines, Lines
    <3> QED BY <2>4, <3>1, <3>3, <3>4, <3>5
  <2> QED BY <2>3, <2>4
<1>7. \A f \in ProjectionFiles : contents[f] \in Contents
  <2> TAKE f \in ProjectionFiles
  <2>1. DOMAIN contents[f] = 1..Len(read[f]) /\ Len(read[f]) \in Nat
    BY <1>4, IdsAre
  <2>2. contents[f] = [j \in 1..Len(read[f]) |-> contents[f][j]]
    BY <1>1, <2>1
  <2>3. \A j \in 1..Len(read[f]) : contents[f][j] \in TaskLines
    BY <1>4, <1>6, <2>1
  <2> DEFINE s == contents[f]
             n1 == Len(read[f])
  <2>4. s \in [1..n1 -> TaskLines]
    BY <2>2, <2>3
  <2> HIDE DEF s, n1
  <2>5. s \in Seq(TaskLines)
    BY <2>1, <2>4 DEF n1
  <2> QED BY <2>5 DEF Contents, s
<1>8. ASSUME NEW f \in ProjectionFiles, NEW id \in IdsOf(read[f]) \ {NoId}
      PROVE  id \in DOMAIN proj
  <2>1. PICK j \in DOMAIN read[f] : read[f][j].id = id
    BY DEF IdsOf
  <2>2. contents[f][j].id = id
    BY <1>6, <2>1
  <2>3. id \in IdsOf(contents[f])
    BY <1>4, <2>1, <2>2 DEF IdsOf
  <2>4. id \in AllIds(contents)
    BY <1>1, <2>3 DEF AllIds
  <2> QED BY <1>3, <2>4
<1>9. ASSUME NEW id \in DOMAIN proj
      PROVE  \E f \in ProjectionFiles : \E j \in DOMAIN read[f] :
              /\ proj[id] = ForceProject([read[f][j] EXCEPT !.id = id], f[2])
              /\ \/ read[f][j].id = id
                 \/ id \in nextId..(nextId + Cardinality(Idless(read)) - 1)
  <2> DEFINE f == LastHolder(contents, order, id)
  <2>1. id \in AllIds(contents)
    BY <1>3
  <2>2. f \in ProjectionFiles /\ id \in IdsOf(contents[f])
    BY <1>1, <1>2, <2>1, LastHolderOK
  <2>3. proj[id] = ForceProject(LastWith(contents[f], id), f[2])
    BY <1>3, <2>1
  <2> HIDE DEF f
  <2>4. PICK j \in DOMAIN contents[f] : contents[f][j].id = id /\ LastWith(contents[f], id) = contents[f][j]
    BY <1>7, <2>2, LastWithOK
  <2>5. j \in DOMAIN read[f]
    BY <1>4, <2>2
  <2> QED BY <1>6, <2>2, <2>3, <2>4, <2>5
<1> QED
  BY <1>8, <1>9

---------------------------------------------------------------------------
(* Decide                                                                  *)

\* Case 7 files the canon line, the projection's, or both.
LEMMA MergeOK ==
  ASSUME NEW c, NEW p, NEW b
  PROVE  \/ Merge(c, p, b) = Verdict(<<c>>, "none")
         \/ Merge(c, p, b) = Verdict(<<c>>, "set")
         \/ Merge(c, p, b) = Verdict(<<p>>, "set")
         \/ Merge(c, p, b) = Verdict(<<c, Tagged(p)>>, "none")
BY DEF Merge

\* What Decide may come to, case by case.
LEMMA DecideCases ==
  ASSUME NEW canon, NEW proj, NEW rows, NEW id
  PROVE  LET v == Decide(canon, proj, rows, id)
             inC == id \in DOMAIN canon
             inP == id \in DOMAIN proj
             inB == id \in DOMAIN rows
         IN \/ /\ inC /\ canon[id].project \notin Synced
               /\ \/ ~inB /\ v = Verdict(<<canon[id]>>, "none")
                  \/ inB /\ v = Verdict(<<canon[id]>>, "drop")
            \/ /\ inC /\ canon[id].project \in Synced
               /\ v = Verdict(<<canon[id]>>, "set")
            \/ /\ inP /\ (inC => canon[id].project \in Synced)
               /\ v = Verdict(<<proj[id]>>, "set")
            \/ /\ inC /\ inP /\ canon[id].project \in Synced
               /\ inB => canon[id].project = rows[id].project
               /\ v = Verdict(<<canon[id], Tagged(proj[id])>>, "none")
            \/ /\ inC /\ inB /\ canon[id].project \in Synced
               /\ canon[id].project = rows[id].project
               /\ v = Verdict(<<canon[id]>>, "none")
            \/ /\ (inC /\ inP => FALSE) /\ (inC \/ inP => inB)
               /\ v = Verdict(<<>>, "drop")
<1> DEFINE v == Decide(canon, proj, rows, id)
           inC == id \in DOMAIN canon
           inP == id \in DOMAIN proj
           inB == id \in DOMAIN rows
           unsynced == inC /\ canon[id].project \notin Synced
           orphan == ~inC /\ inB /\ rows[id].project \notin Synced
           movedOn == inC /\ ~unsynced /\ inB /\ canon[id].project # rows[id].project
<1>1. CASE unsynced
  <2>1. v = Verdict(<<canon[id]>>, IF inB THEN "drop" ELSE "none")
    BY <1>1 DEF Decide
  <2> QED BY <1>1, <2>1
<1>2. CASE orphan
  <2>1. v = Verdict(<<>>, "drop")
    BY <1>2 DEF Decide
  <2> QED BY <1>2, <2>1
<1>3. CASE movedOn
  <2>1. v = Verdict(<<canon[id]>>, "set")
    BY <1>3 DEF Decide
  <2> QED BY <1>3, <2>1
<1>4. CASE ~unsynced /\ ~orphan /\ ~movedOn
  <2>1. CASE inC /\ ~inP /\ ~inB
    <3>1. v = Verdict(<<canon[id]>>, "set")
      BY <1>4, <2>1 DEF Decide
    <3> QED BY <1>4, <2>1, <3>1
  <2>2. CASE ~inC /\ inP /\ ~inB
    <3>1. v = Verdict(<<proj[id]>>, "set")
      BY <1>4, <2>2 DEF Decide
    <3> QED BY <1>4, <2>2, <3>1
  <2>3. CASE inC /\ inP /\ ~inB
    <3>1. \/ v = Verdict(<<canon[id]>>, "set")
          \/ v = Verdict(<<canon[id], Tagged(proj[id])>>, "none")
      BY <1>4, <2>3 DEF Decide
    <3> QED BY <1>4, <2>3, <3>1
  <2>4. CASE inC /\ inP /\ inB
    <3>1. v = Merge(canon[id], proj[id], rows[id])
      BY <1>4, <2>4 DEF Decide
    <3>2. \/ v = Verdict(<<canon[id]>>, "none")
          \/ v = Verdict(<<canon[id]>>, "set")
          \/ v = Verdict(<<proj[id]>>, "set")
          \/ v = Verdict(<<canon[id], Tagged(proj[id])>>, "none")
      BY <3>1, MergeOK
    <3> QED BY <1>4, <2>4, <3>2
  <2>5. CASE ~(inC /\ inP) /\ (inB \/ (~inC /\ ~inP))
    <3>1. v = Verdict(<<>>, "drop")
      BY <1>4, <2>5 DEF Decide
    <3> QED BY <1>4, <2>5, <3>1
  <2> QED BY <2>1, <2>2, <2>3, <2>4, <2>5
<1> QED
  BY <1>1, <1>2, <1>3, <1>4

---------------------------------------------------------------------------
(* What a pass plans                                                       *)

\* A tag behind the others leaves a task line a task line.
LEMMA RetagOK ==
  ASSUME NEW l \in TaskLines, NEW tag \in Synced \cup {ConflictTag},
         tag \in Synced \/ l.tags # <<>>
  PROVE  Retag(l, tag) \in TaskLines /\ Retag(l, tag).id = l.id /\ Retag(l, tag).tags # <<>>
<1>1. l.tags \in Seq(Synced \cup {ConflictTag}) /\ l \in Lines
  BY DEF TaskLines, Lines
<1>2. CASE Contains(l.tags, tag)
  <2>1. Retag(l, tag) = l
    BY <1>2 DEF Retag
  <2>2. l.tags # <<>>
    BY <1>2 DEF Contains
  <2> QED BY <2>1, <2>2
<1>3. CASE ~Contains(l.tags, tag)
  <2> DEFINE s == l.tags
             u == Append(s, tag)
             r == [l EXCEPT !.tags = u]
  <2>1. Retag(l, tag) = r
    BY <1>3 DEF Retag
  <2>2. u \in Seq(Synced \cup {ConflictTag}) /\ u # <<>>
    BY <1>1
  <2>3. Head(u) = IF s = <<>> THEN tag ELSE Head(s)
    BY <1>1
  <2>4. s = <<>> \/ Head(s) \in Synced
    BY DEF TaskLines
  <2>5. Head(u) \in Synced
    BY <2>3, <2>4
  <2> HIDE DEF u
  <2>6. r \in Lines /\ r.tags = u /\ r.id = l.id
    BY <1>1, <2>2 DEF Lines
  <2> HIDE DEF r
  <2> QED BY <2>1, <2>2, <2>5, <2>6 DEF TaskLines
<1> QED
  BY <1>2, <1>3

\* Tasks of the canon map.
LEMMA CanonTaskOK ==
  ASSUME NEW read \in [Files -> Contents], NEW canon \in CanonMaps(read), NEW id \in DOMAIN canon
  PROVE  /\ id \in Nat /\ canon[id].line \in TaskLines /\ canon[id].line.id = id
         /\ canon[id].project \in Projects
<1>0. PICK f \in CanonFiles : \E i \in DOMAIN read[f] :
        read[f][i].id = id /\ canon[id] = Parsed(read[f][i])
  BY CanonMapOK
<1>1. PICK i \in DOMAIN read[f] : read[f][i].id = id /\ canon[id] = Parsed(read[f][i])
  BY <1>0
<1>2. read[f] \in Contents
  BY DEF Files
<1>3. read[f][i] \in TaskLines /\ read[f][i].id \in Nat
  BY <1>2, IdsAre
<1> DEFINE l == read[f][i]
<1>4. canon[id].line = l /\ canon[id].project = IF l.tags = <<>> THEN Inbox ELSE Head(l.tags)
  BY <1>1 DEF Parsed, Task
<1>5. l.tags = <<>> \/ Head(l.tags) \in Synced
  BY <1>3 DEF TaskLines
<1> HIDE DEF l
<1> QED
  BY <1>1, <1>3, <1>4, <1>5 DEF Projects, l

\* Tasks of the projection map, and their copies tagged as a conflict.
LEMMA ProjTaskOK ==
  ASSUME nextId \in Nat, NEW read \in [Files -> Contents], NEW proj, proj = ProjMap(read),
         NEW id \in DOMAIN proj
  PROVE  /\ id \in Nat
         /\ proj[id].line \in TaskLines /\ proj[id].line.id = id /\ proj[id].project \in Synced
         /\ Tagged(proj[id]).line \in TaskLines /\ Tagged(proj[id]).line.id = id
         /\ Tagged(proj[id]).project = proj[id].project
<1>0. PICK f \in ProjectionFiles : \E j \in DOMAIN read[f] :
        /\ proj[id] = ForceProject([read[f][j] EXCEPT !.id = id], f[2])
        /\ \/ read[f][j].id = id
           \/ id \in nextId..(nextId + Cardinality(Idless(read)) - 1)
  BY ProjMapOK
<1>1. PICK j \in DOMAIN read[f] :
        /\ proj[id] = ForceProject([read[f][j] EXCEPT !.id = id], f[2])
        /\ \/ read[f][j].id = id
           \/ id \in nextId..(nextId + Cardinality(Idless(read)) - 1)
  BY <1>0
<1>2. read[f] \in Contents /\ f[2] \in Synced
  BY DEF Files, ProjectionFiles, Projection
<1>3. read[f][j] \in TaskLines /\ read[f][j].id \in Nat
  BY <1>2, IdsAre
<1>4. id \in Nat
  BY <1>1, <1>3, IdlessFinite
<1> DEFINE l == [read[f][j] EXCEPT !.id = id]
<1>5. l \in TaskLines /\ l.id = id
  BY <1>3, <1>4 DEF TaskLines, Lines
<1> HIDE DEF l
<1>6. proj[id] = Task(Retag(l, f[2]), f[2])
  BY <1>1 DEF ForceProject, l
<1> DEFINE r == Retag(l, f[2])
<1>7. r \in TaskLines /\ r.id = id /\ r.tags # <<>>
  BY <1>2, <1>5, RetagOK
<1> HIDE DEF r
<1>8. proj[id].line = r /\ proj[id].project = f[2]
  BY <1>6 DEF Task, r
<1>9. Tagged(proj[id]).line = Retag(r, ConflictTag) /\ Tagged(proj[id]).project = proj[id].project
  BY <1>6 DEF Tagged, Task, r
<1>10. Retag(r, ConflictTag) \in TaskLines /\ Retag(r, ConflictTag).id = id
  BY <1>7, RetagOK
<1> QED
  BY <1>2, <1>4, <1>7, <1>8, <1>9, <1>10

\* What a pass has read when it is about to decide, and what it decides.
Decision(read, canon, proj, verdicts) ==
  /\ SyncType /\ Fresh
  /\ read \in [Files -> Contents]
  /\ \A f \in Files : \A id \in IdsOf(read[f]) : At(id, f[2])
  /\ canon \in CanonMaps(read)
  /\ proj = ProjMap(read)
  /\ verdicts = Decisions(canon, proj, base)

\* Its types.
LEMMA DecisionTypes ==
  ASSUME NEW read, NEW canon, NEW proj, NEW verdicts, Decision(read, canon, proj, verdicts)
  PROVE  /\ read \in [Files -> Contents] /\ nextId \in Nat
         /\ Cardinality(Idless(read)) \in Nat
         /\ DOMAIN base \subseteq Nat
         /\ \A id \in DOMAIN base : base[id].project \in Synced /\ base[id].line \in TaskLines
         /\ DOMAIN verdicts = DOMAIN canon \cup DOMAIN proj \cup DOMAIN base
         /\ \A id \in DOMAIN verdicts : verdicts[id] = Decide(canon, proj, base, id)
<1>2. read \in [Files -> Contents]
  BY DEF Decision
<1>3. nextId \in Nat /\ base \in SyncRows
  BY DEF Decision, SyncType
<1>4. /\ DOMAIN base \subseteq Nat
      /\ \A id \in DOMAIN base : base[id].project \in Synced /\ base[id].line \in TaskLines
  BY <1>3 DEF SyncRows
<1>5. Cardinality(Idless(read)) \in Nat
  BY <1>2, IdlessFinite
<1>6. /\ DOMAIN verdicts = DOMAIN canon \cup DOMAIN proj \cup DOMAIN base
      /\ \A id \in DOMAIN verdicts : verdicts[id] = Decide(canon, proj, base, id)
  BY DEF Decision, Decisions
<1> QED
  BY <1>2, <1>3, <1>4, <1>5, <1>6

\* The tasks a pass files for an id, one or two: the canon task or the
\* projection's.
LEMMA VerdictOK ==
  ASSUME NEW read, NEW canon, NEW proj, NEW verdicts, Decision(read, canon, proj, verdicts),
         NEW id \in DOMAIN verdicts
  PROVE  /\ verdicts[id].tasks = <<>> \/ DOMAIN verdicts[id].tasks \in {1..1, 1..2}
         /\ \A k \in DOMAIN verdicts[id].tasks :
              /\ verdicts[id].tasks[k].line \in TaskLines
              /\ verdicts[id].tasks[k].line.id = id
              /\ verdicts[id].tasks[k].project \in Projects
              /\ \/ id \in DOMAIN canon /\ verdicts[id].tasks[k].project = canon[id].project
                 \/ id \in DOMAIN proj /\ verdicts[id].tasks[k].project = proj[id].project
<1> DEFINE v == verdicts[id]
<1>1. v = Decide(canon, proj, base, id) /\ read \in [Files -> Contents] /\ nextId \in Nat
  BY DEF Decision, Decisions, SyncType
<1>2. canon \in CanonMaps(read) /\ proj = ProjMap(read)
  BY DEF Decision
<1>3. id \in DOMAIN canon =>
        /\ canon[id].line \in TaskLines /\ canon[id].line.id = id
        /\ canon[id].project \in Projects
  BY <1>1, <1>2, CanonTaskOK
<1>4. id \in DOMAIN proj =>
         /\ proj[id].line \in TaskLines /\ proj[id].line.id = id /\ proj[id].project \in Projects
         /\ Tagged(proj[id]).line \in TaskLines /\ Tagged(proj[id]).line.id = id
         /\ Tagged(proj[id]).project = proj[id].project
  BY <1>1, <1>2, ProjTaskOK DEF Projects
<1>5. \/ v.tasks = <<>>
      \/ id \in DOMAIN canon /\ v.tasks = <<canon[id]>>
      \/ id \in DOMAIN proj /\ v.tasks = <<proj[id]>>
      \/ id \in DOMAIN canon /\ id \in DOMAIN proj /\ v.tasks = <<canon[id], Tagged(proj[id])>>
  BY <1>1, DecideCases DEF Verdict
<1> HIDE DEF v
<1>6. CASE v.tasks = <<>>
  BY <1>6 DEF v
<1>7. CASE id \in DOMAIN canon /\ v.tasks = <<canon[id]>>
  BY <1>3, <1>7 DEF v
<1>8. CASE id \in DOMAIN proj /\ v.tasks = <<proj[id]>>
  BY <1>4, <1>8 DEF v
<1>9. CASE id \in DOMAIN canon /\ id \in DOMAIN proj /\ v.tasks = <<canon[id], Tagged(proj[id])>>
  BY <1>3, <1>4, <1>9 DEF v
<1> QED
  BY <1>5, <1>6, <1>7, <1>8, <1>9

\* The ids a pass decides on are numbers it has minted or knew.
LEMMA VerdictIds ==
  ASSUME NEW read, NEW canon, NEW proj, NEW verdicts, Decision(read, canon, proj, verdicts),
         NEW id \in DOMAIN verdicts
  PROVE  id \in Nat /\ id < nextId + Cardinality(Idless(read))
<1> DEFINE n == Cardinality(Idless(read))
<1>1. /\ read \in [Files -> Contents] /\ nextId \in Nat /\ n \in Nat
      /\ DOMAIN base \subseteq Nat /\ \A b \in DOMAIN base : base[b].project \in Synced
      /\ DOMAIN verdicts = DOMAIN canon \cup DOMAIN proj \cup DOMAIN base
  <2>1. DOMAIN verdicts = DOMAIN canon \cup DOMAIN proj \cup DOMAIN base
    BY DEF Decision, Decisions
  <2>2. /\ read \in [Files -> Contents] /\ nextId \in Nat /\ n \in Nat
        /\ DOMAIN base \subseteq Nat /\ \A b \in DOMAIN base : base[b].project \in Synced
    BY DecisionTypes
  <2> QED BY <2>1, <2>2
<1>2. canon \in CanonMaps(read) /\ proj = ProjMap(read) /\ Fresh
  BY DEF Decision
<1>3. ASSUME NEW f \in Files, id \in IdsOf(read[f]) PROVE id \in Nat /\ id < nextId
  <2>1. id \in Nat
    BY <1>1, <1>3, IdsAre
  <2>2. f[2] \in Projects
    BY DEF Files, CanonFiles, ProjectionFiles, Canon, Projection, Projects
  <2>3. At(id, f[2])
    BY <1>3 DEF Decision
  <2> QED BY <1>2, <2>1, <2>2, <2>3 DEF Fresh
<1> HIDE DEF n
<1>4. CASE id \in DOMAIN canon
  <2>1. PICK f \in CanonFiles : id \in IdsOf(read[f])
    BY <1>1, <1>2, <1>4, CanonMapOK
  <2> QED BY <1>1, <1>3, <2>1 DEF Files, n
<1>5. CASE id \in DOMAIN proj
  <2>1. PICK f \in ProjectionFiles : \E j \in DOMAIN read[f] :
          read[f][j].id = id \/ id \in nextId..(nextId + n - 1)
    <3>1. \E f \in ProjectionFiles : \E j \in DOMAIN read[f] :
              /\ proj[id] = ForceProject([read[f][j] EXCEPT !.id = id], f[2])
              /\ \/ read[f][j].id = id
                 \/ id \in nextId..(nextId + Cardinality(Idless(read)) - 1)
      BY <1>1, <1>2, <1>5, ProjMapOK
    <3> QED BY <3>1 DEF n
  <2>2. id \in IdsOf(read[f]) \/ id \in nextId..(nextId + n - 1)
    BY <2>1 DEF IdsOf
  <2>3. CASE id \in IdsOf(read[f])
    BY <1>1, <1>3, <2>3 DEF Files, n
  <2>4. CASE id \in nextId..(nextId + n - 1)
    BY <1>1, <2>4 DEF n
  <2> QED BY <2>2, <2>3, <2>4
<1>6. CASE id \in DOMAIN base
  <2>1. At(id, base[id].project) /\ base[id].project \in Projects /\ id \in Nat
    BY <1>1, <1>6 DEF At, Projects
  <2>2. id < nextId
    BY <1>2, <2>1 DEF Fresh
  <2> QED BY <1>1, <2>1, <2>2 DEF n
<1> QED
  BY <1>1, <1>4, <1>5, <1>6

\* All a pass wants to file is finite.
LEMMA WantedFinite ==
  ASSUME NEW read, NEW canon, NEW proj, NEW verdicts, Decision(read, canon, proj, verdicts)
  PROVE  IsFiniteSet(Wanted(verdicts))
<1> DEFINE ids == DOMAIN verdicts
           n == nextId + Cardinality(Idless(read))
           S == ids \X (1..2)
           g == [x \in S |-> IF x[2] \in DOMAIN verdicts[x[1]].tasks
                             THEN verdicts[x[1]].tasks[x[2]].line ELSE NoId]
           T == {g[x] : x \in S}
<1>1. n \in Nat
  <2>1. nextId \in Nat /\ Cardinality(Idless(read)) \in Nat
    BY DecisionTypes
  <2> QED BY <2>1
<1>2. ids \in SUBSET Nat /\ \A s \in ids : s <= n
  BY <1>1, VerdictIds
<1>3. IsFiniteSet(ids)
  <2> HIDE DEF ids, n
  <2> QED BY <1>1, <1>2, FS_BoundedSetOfNaturals
<1>4. IsFiniteSet(S)
  <2>1. \A a, b \in Int : IsFiniteSet(a..b)
    BY FS_Interval
  <2>2. 1 \in Int /\ 2 \in Int
    OBVIOUS
  <2>3. IsFiniteSet(1..2)
    BY <2>1, <2>2, Zenon
  <2> QED BY <1>3, <2>3, FS_Product
<1>5. g \in Surjection(S, T)
  BY DEF Surjection
<1>6. IsFiniteSet(T)
  <2> HIDE DEF g, S, T
  <2> QED BY <1>4, <1>5, FS_Surjection
<1>7. Wanted(verdicts) \in SUBSET T
  <2> SUFFICES ASSUME NEW l \in Wanted(verdicts) PROVE l \in T
    OBVIOUS
  <2>1. PICK t \in Filed(verdicts) : l = t.line
    BY DEF Wanted
  <2>2. PICK id \in ids : t \in ToSet(verdicts[id].tasks)
    BY <2>1 DEF Filed
  <2>3. PICK k \in DOMAIN verdicts[id].tasks : t = verdicts[id].tasks[k]
    BY <2>2 DEF ToSet
  <2>4. k \in 1..2
    <3>1. verdicts[id].tasks = <<>> \/ DOMAIN verdicts[id].tasks \in {1..1, 1..2}
      BY <2>2, VerdictOK
    <3> QED BY <2>3, <3>1
  <2>5. <<id, k>> \in S /\ g[<<id, k>>] = l
    BY <2>1, <2>2, <2>3, <2>4
  <2> HIDE DEF g, S
  <2> QED BY <2>5
<1> HIDE DEF T
<1> QED
  BY <1>6, <1>7, FS_Subset

\* The lines desired for a file, id by id.
LEMMA DesiredOK ==
  ASSUME NEW read, NEW canon, NEW proj, NEW verdicts, Decision(read, canon, proj, verdicts), NEW f
  PROVE  /\ Desired(f, verdicts) \subseteq Wanted(verdicts)
         /\ \A l : l \in Desired(f, verdicts) <=>
              \E id \in DOMAIN verdicts : \E k \in DOMAIN verdicts[id].tasks :
                verdicts[id].tasks[k].line = l /\ verdicts[id].tasks[k].project = f[2]
         /\ \A l \in Desired(f, verdicts) :
              /\ l \in TaskLines /\ l.id \in DOMAIN verdicts
              /\ \E k \in DOMAIN verdicts[l.id].tasks :
                   verdicts[l.id].tasks[k].line = l /\ verdicts[l.id].tasks[k].project = f[2]
<1>1. Desired(f, verdicts) \subseteq Wanted(verdicts)
  BY DEF Desired, Wanted
<1>2. \A l : l \in Desired(f, verdicts) <=>
              \E id \in DOMAIN verdicts : \E k \in DOMAIN verdicts[id].tasks :
                verdicts[id].tasks[k].line = l /\ verdicts[id].tasks[k].project = f[2]
  BY DEF Desired, Filed, ToSet
<1>3. ASSUME NEW l \in Desired(f, verdicts)
      PROVE  /\ l \in TaskLines /\ l.id \in DOMAIN verdicts
             /\ \E k \in DOMAIN verdicts[l.id].tasks :
                  verdicts[l.id].tasks[k].line = l /\ verdicts[l.id].tasks[k].project = f[2]
  <2>1. PICK id \in DOMAIN verdicts : \E k \in DOMAIN verdicts[id].tasks :
          verdicts[id].tasks[k].line = l /\ verdicts[id].tasks[k].project = f[2]
    BY <1>2, <1>3
  <2>2. PICK k \in DOMAIN verdicts[id].tasks :
          verdicts[id].tasks[k].line = l /\ verdicts[id].tasks[k].project = f[2]
    BY <2>1
  <2>3. l \in TaskLines /\ l.id = id
    BY <2>2, VerdictOK
  <2> QED BY <2>2, <2>3
<1> QED
  BY <1>1, <1>2, <1>3

\* The sort key of renderFile tells the lines desired for a file apart.
LEMMA KeyOK ==
  ASSUME NEW read, NEW canon, NEW proj, NEW verdicts, Decision(read, canon, proj, verdicts),
         NEW f \in Files, NEW text \in Injection(Wanted(verdicts), 1..Cardinality(Wanted(verdicts)))
  PROVE  LET Key(l) == SortKey(read[f], verdicts, text, l)
         IN  \A l, m \in Desired(f, verdicts) : Key(l) \in Nat /\ (Key(l) = Key(m) => l = m)
<1> DEFINE D == Desired(f, verdicts)
           prior == read[f]
           Key(l) == SortKey(prior, verdicts, text, l)
           Known(l) == l.id # NoId /\ l.id \in IdsOf(prior)
           second(l) == IF l = verdicts[l.id].tasks[1].line THEN 0 ELSE 1
<1>1. prior \in Contents /\ Len(prior) \in Nat /\ DOMAIN prior = 1..Len(prior)
  <2>1. prior \in Contents
    BY DecisionTypes
  <2> QED BY <2>1, IdsAre
<1>2. \A l \in D : text[l] \in Nat \ {0}
  <2>1. D \subseteq Wanted(verdicts)
    BY DesiredOK
  <2>2. text \in [Wanted(verdicts) -> 1..Cardinality(Wanted(verdicts))]
    BY DEF Injection
  <2>3. Cardinality(Wanted(verdicts)) \in Nat
    BY WantedFinite, FS_CardinalityType
  <2> HIDE DEF D
  <2> QED BY <2>1, <2>2, <2>3
<1>3. \A l, m \in D : text[l] = text[m] => l = m
  <2>1. D \subseteq Wanted(verdicts)
    BY DesiredOK
  <2>2. DOMAIN text = Wanted(verdicts) /\ IsInjective(text)
    BY DEF Injection
  <2> HIDE DEF D
  <2> QED BY <2>1, <2>2 DEF IsInjective
<1>4. \A l \in D : Known(l) => FirstWith(prior, l.id) \in 1..Len(prior)
                               /\ prior[FirstWith(prior, l.id)].id = l.id
  BY <1>1, FirstWithOK
<1>5. /\ \A l \in D : Known(l) => Key(l) = 2 * FirstWith(prior, l.id) + second(l)
      /\ \A l \in D : ~Known(l) => Key(l) = 2 * Len(prior) + 2 + text[l]
  BY DEF SortKey
<1>6. \A l \in D : second(l) \in {0, 1}
  OBVIOUS
<1>7. ASSUME NEW l \in D, NEW m \in D, l.id = m.id, second(l) = second(m) PROVE l = m
  <2>1. l.id \in DOMAIN verdicts
    BY DesiredOK
  <2> DEFINE tasks == verdicts[l.id].tasks
  <2>2. PICK j \in DOMAIN tasks : tasks[j].line = l
    BY DesiredOK
  <2>3. PICK k \in DOMAIN tasks : tasks[k].line = m
    BY <1>7, DesiredOK
  <2>4. tasks = <<>> \/ DOMAIN tasks \in {1..1, 1..2}
    BY <2>1, VerdictOK
  <2>5. j \in {1, 2} /\ k \in {1, 2}
    BY <2>2, <2>3, <2>4
  <2>6. second(l) = (IF l = tasks[1].line THEN 0 ELSE 1) /\ second(m) = (IF m = tasks[1].line THEN 0 ELSE 1)
    BY <1>7
  <2> HIDE DEF tasks, second
  <2> QED BY <1>7, <2>2, <2>3, <2>5, <2>6
<1> HIDE DEF D, prior, Key, Known, second
<1>8. \A l \in D : Key(l) \in Nat
  BY <1>1, <1>2, <1>4, <1>5, <1>6
<1>9. ASSUME NEW l \in D, NEW m \in D, Key(l) = Key(m) PROVE l = m
  <2>1. CASE Known(l) /\ Known(m)
    <3> DEFINE a == FirstWith(prior, l.id)
               b == FirstWith(prior, m.id)
    <3>1. a \in Nat /\ b \in Nat /\ prior[a].id = l.id /\ prior[b].id = m.id
      BY <1>1, <1>4, <2>1
    <3>2. 2 * a + second(l) = 2 * b + second(m)
      BY <1>5, <1>9, <2>1
    <3> HIDE DEF a, b
    <3>3. second(l) \in {0, 1} /\ second(m) \in {0, 1}
      BY <1>6
    <3>4. a = b /\ second(l) = second(m)
      BY <3>1, <3>2, <3>3
    <3> QED BY <1>7, <3>1, <3>4
  <2>2. CASE Known(l) /\ ~Known(m)
    <3> DEFINE a == FirstWith(prior, l.id)
    <3>1. a \in 1..Len(prior) /\ 2 * a + second(l) = 2 * Len(prior) + 2 + text[m]
      BY <1>4, <1>5, <1>9, <2>2
    <3> HIDE DEF a
    <3> QED BY <1>1, <1>2, <1>6, <3>1
  <2>3. CASE ~Known(l) /\ Known(m)
    <3> DEFINE a == FirstWith(prior, m.id)
    <3>1. a \in 1..Len(prior) /\ 2 * a + second(m) = 2 * Len(prior) + 2 + text[l]
      BY <1>4, <1>5, <1>9, <2>3
    <3> HIDE DEF a
    <3> QED BY <1>1, <1>2, <1>6, <3>1
  <2>4. CASE ~Known(l) /\ ~Known(m)
    <3>1. 2 * Len(prior) + 2 + text[l] = 2 * Len(prior) + 2 + text[m]
      BY <1>5, <1>9, <2>4
    <3>2. text[l] = text[m]
      BY <1>1, <1>2, <3>1
    <3> QED BY <1>3, <3>2
  <2> QED BY <2>1, <2>2, <2>3, <2>4
<1> QED
  BY <1>8, <1>9 DEF D, Key, prior

\* A plan holds, for each file, just the lines desired for it.
LEMMA PlanLines ==
  ASSUME NEW read, NEW canon, NEW proj, NEW verdicts, Decision(read, canon, proj, verdicts),
         NEW plan \in Plans(read, verdicts)
  PROVE  /\ plan \in [Files -> Contents]
         /\ \A f \in Files : ToSet(plan[f]) = Desired(f, verdicts)
         /\ \A f \in Files : \A id : id \in IdsOf(plan[f]) <=>
              /\ id \in DOMAIN verdicts
              /\ \E k \in DOMAIN verdicts[id].tasks : verdicts[id].tasks[k].project = f[2]
<1>1. PICK text \in Injection(Wanted(verdicts), 1..Cardinality(Wanted(verdicts))) :
        plan = Plan(read, verdicts, text)
  BY DEF Plans
<1>2. plan = [f \in Files |-> Rendered(f, read, verdicts, text)]
  BY <1>1 DEF Plan
<1>3. ASSUME NEW f \in Files
      PROVE  plan[f] \in Contents /\ ToSet(plan[f]) = Desired(f, verdicts)
  <2> DEFINE D == Desired(f, verdicts)
             key == [l \in D |-> SortKey(read[f], verdicts, text, l)]
  <2>1. plan[f] = SortedBy(key)
    BY <1>2 DEF Rendered
  <2>2. key \in [D -> Nat] /\ \A l, m \in D : key[l] = key[m] => l = m
    BY <1>1, KeyOK
  <2>3. D \in SUBSET Wanted(verdicts) /\ D \in SUBSET TaskLines
    BY DesiredOK
  <2>4. IsFiniteSet(D)
    BY <2>3, WantedFinite, FS_Subset
  <2> HIDE DEF key, D
  <2>5. plan[f] \in Seq(D) /\ ToSet(plan[f]) = D
    BY <2>1, <2>2, <2>4, SortedOK
  <2>6. plan[f] \in Seq(TaskLines)
    BY <2>3, <2>5
  <2> QED BY <2>5, <2>6 DEF Contents, D
<1>4. ASSUME NEW f \in Files, NEW id
      PROVE  id \in IdsOf(plan[f]) <=>
              /\ id \in DOMAIN verdicts
              /\ \E k \in DOMAIN verdicts[id].tasks : verdicts[id].tasks[k].project = f[2]
  <2>1. id \in IdsOf(plan[f]) <=> \E l \in Desired(f, verdicts) : l.id = id
    <3>1. id \in IdsOf(plan[f]) <=> \E l \in ToSet(plan[f]) : l.id = id
      BY DEF IdsOf, ToSet
    <3> QED BY <1>3, <3>1
  <2>2. ASSUME NEW l \in Desired(f, verdicts), l.id = id
        PROVE  /\ id \in DOMAIN verdicts
               /\ \E k \in DOMAIN verdicts[id].tasks : verdicts[id].tasks[k].project = f[2]
    BY <2>2, DesiredOK
  <2>3. ASSUME id \in DOMAIN verdicts, NEW k \in DOMAIN verdicts[id].tasks,
               verdicts[id].tasks[k].project = f[2]
        PROVE  \E l \in Desired(f, verdicts) : l.id = id
    <3> DEFINE l == verdicts[id].tasks[k].line
    <3>1. l \in Desired(f, verdicts)
      BY <2>3, DesiredOK
    <3>2. l.id = id
      BY <2>3, VerdictOK
    <3> HIDE DEF l
    <3> QED BY <3>1, <3>2
  <2> QED BY <2>1, <2>2, <2>3
<1> QED
  BY <1>2, <1>3, <1>4

---------------------------------------------------------------------------
(* Every step keeps the invariant: first the steps outside a pass and those *)
(* that end one                                                            *)

\* What the type part says of each variable.
LEMMA Typed ==
  ASSUME SyncType
  PROVE  /\ file \in [Files -> Contents]
         /\ \A s \in Syncers :
              /\ PassType(pass[s])
              /\ \A f \in DOMAIN pass[s].read : f \in Files /\ pass[s].read[f] \in Contents
              /\ \A f \in DOMAIN pass[s].plan : f \in Files /\ pass[s].plan[f] \in Contents
              /\ DOMAIN pass[s].set \subseteq Nat /\ pass[s].drop \subseteq Nat
              /\ \A id \in DOMAIN pass[s].set :
                   /\ pass[s].set[id] \in [line : TaskLines, project : Synced]
                   /\ pass[s].set[id].project \in Synced
         /\ DOMAIN base \subseteq Nat
         /\ \A id \in DOMAIN base :
              /\ base[id] \in [line : TaskLines, project : Synced]
              /\ base[id].project \in Synced /\ base[id].line \in TaskLines
         /\ nextId \in Nat /\ nextId # NoId
<1>1. \A r \in Partial : \A f \in DOMAIN r : f \in Files /\ r[f] \in Contents
  BY DEF Partial
<1>2. \A r \in SyncRows : DOMAIN r \subseteq Nat
        /\ \A id \in DOMAIN r : /\ r[id] \in [line : TaskLines, project : Synced]
                                /\ r[id].project \in Synced /\ r[id].line \in TaskLines
  BY DEF SyncRows
<1>3. ASSUME NEW s \in Syncers
      PROVE  /\ PassType(pass[s]) /\ pass[s].read \in Partial /\ pass[s].plan \in Partial
             /\ pass[s].set \in SyncRows /\ pass[s].drop \subseteq Nat
  BY DEF SyncType, PassType, PassSet
<1>4. base \in SyncRows /\ nextId \in Nat /\ nextId # NoId /\ file \in [Files -> Contents]
  BY DEF SyncType
<1> QED
  BY <1>1, <1>2, <1>3, <1>4

\* A file is that of a project.
LEMMA FileProject ==
  /\ \A f \in Files : f[2] \in Projects /\ f \in {Canon(f[2]), Projection(f[2])}
  /\ \A p \in Projects : Canon(p) \in CanonFiles /\ Canon(p) \in Files /\ Canon(p)[2] = p
  /\ \A p \in Synced : Projection(p) \in ProjectionFiles /\ Projection(p) \in Files
                       /\ Projection(p)[2] = p /\ p \in Projects
BY DEF Files, CanonFiles, ProjectionFiles, Canon, Projection, Projects

\* The two files of a synced project.
LEMMA BothFiles ==
  ASSUME NEW p \in Synced
  PROVE  /\ Canon(p) \in CanonFiles /\ Projection(p) \in ProjectionFiles
         /\ Canon(p) \in Both(p) /\ Projection(p) \in Both(p)
         /\ Both(p) \subseteq Files /\ \A f \in Both(p) : f[2] = p
BY FileProject DEF Both, Projects

\* One process moves on, the others stay where they are.
LEMMA Shifted ==
  ASSUME NEW s \in Syncers, NEW x, pass \in [Syncers -> PassSet], pass' = [pass EXCEPT ![s] = x]
  PROVE  /\ pass'[s] = x
         /\ \A r \in Syncers : r # s => pass'[r] = pass[r]
         /\ \A r \in Syncers : r # s =>
              /\ InWrite(r)' <=> InWrite(r)
              /\ Wrote(r)' <=> Wrote(r)
              /\ \A f : Done(r, f)' <=> Done(r, f)
              /\ \A id : OnItsWay(r, id)' <=> OnItsWay(r, id)
<1>1. pass'[s] = x /\ \A r \in Syncers : r # s => pass'[r] = pass[r]
  OBVIOUS
<1>2. ASSUME NEW r \in Syncers, r # s
      PROVE  /\ InWrite(r)' <=> InWrite(r)
             /\ Wrote(r)' <=> Wrote(r)
             /\ \A f : Done(r, f)' <=> Done(r, f)
  BY <1>1, <1>2 DEF InWrite, Wrote, Done
<1>3. ASSUME NEW r \in Syncers, r # s, NEW id PROVE OnItsWay(r, id)' <=> OnItsWay(r, id)
  BY <1>1, <1>2, <1>3 DEF OnItsWay
<1> QED
  BY <1>1, <1>2, <1>3

\* If ids occur only where they did, they are still fresh and at home.
LEMMA AtShrinks ==
  ASSUME Fresh, OneHome, nextId \in Nat, nextId' \in Nat, nextId <= nextId', moved \subseteq moved',
         \A id \in Nat : \A p \in Projects : At(id, p)' => At(id, p)
  PROVE  Fresh' /\ OneHome'
<1>1. Fresh'
  <2> SUFFICES ASSUME NEW p \in Projects, NEW id \in Nat, At(id, p)' PROVE id < nextId'
    BY DEF Fresh
  <2>1. id < nextId
    BY DEF Fresh
  <2> QED BY <2>1
<1>2. OneHome'
  <2> SUFFICES ASSUME NEW id \in Nat \ (moved' \cup {NoId}), NEW p \in Projects, NEW q \in Projects,
                      At(id, p)', At(id, q)'
               PROVE  p = q
    BY DEF OneHome
  <2>1. At(id, p) /\ At(id, q) /\ id \in Nat \ (moved \cup {NoId})
    OBVIOUS
  <2> QED BY <2>1 DEF OneHome
<1> QED
  BY <1>1, <1>2

\* Where an id is after a step of one process that leaves the rest alone.
LEMMA AtShift ==
  ASSUME NEW s \in Syncers, NEW x, pass \in [Syncers -> PassSet], pass' = [pass EXCEPT ![s] = x],
         NEW id, NEW p, At(id, p)'
  PROVE  \/ \E f \in Files : f[2] = p /\ id \in IdsOf(file'[f])
         \/ \E f \in DOMAIN x.read : f[2] = p /\ id \in IdsOf(x.read[f])
         \/ \E f \in DOMAIN x.plan : f[2] = p /\ id \in IdsOf(x.plan[f])
         \/ id \in DOMAIN base' /\ base'[id].project = p
         \/ id \in DOMAIN x.set /\ x.set[id].project = p
         \/ At(id, p)
<1>1. pass'[s] = x /\ \A r \in Syncers : r # s => pass'[r] = pass[r]
  BY Shifted
<1>2. CASE \E r \in Syncers : \E f \in DOMAIN pass'[r].read : f[2] = p /\ id \in IdsOf(pass'[r].read[f])
  BY <1>1, <1>2 DEF At
<1>3. CASE \E r \in Syncers : \E f \in DOMAIN pass'[r].plan : f[2] = p /\ id \in IdsOf(pass'[r].plan[f])
  BY <1>1, <1>3 DEF At
<1>4. CASE \E r \in Syncers : id \in DOMAIN pass'[r].set /\ pass'[r].set[id].project = p
  BY <1>1, <1>4 DEF At
<1> QED
  BY <1>2, <1>3, <1>4 DEF At

\* While no two passes have overlapped, a task that moved is in one process's hands.
LEMMA OneAtWork ==
  ASSUME SyncType, Alone, ~torn, NEW s \in Syncers, pass[s].pc # "idle", NEW r \in Syncers, r # s
  PROVE  pass[r].pc = "idle" /\ DOMAIN pass[r].read = {} /\ ~InWrite(r)
<1>1. pass[r].pc = "idle"
  BY DEF Alone
<1>2. PassType(pass[r])
  BY Typed
<1> QED
  BY <1>1, <1>2 DEF PassType, InWrite

\* Contents of a file have no other ids than numbers; a sequence of one line.
LEMMA FirstLine ==
  ASSUME NEW p \in Synced
  PROVE  /\ Line(1, NewText, <<p>>) \in TaskLines
         /\ <<Line(1, NewText, <<p>>)>> \in Contents
         /\ IdsOf(<<Line(1, NewText, <<p>>)>>) = {1}
         /\ <<>> \in Contents /\ IdsOf(<<>>) = {}
<1> DEFINE l == Line(1, NewText, <<p>>)
<1>1. l \in TaskLines /\ l.id = 1
  BY BoundsAssumption DEF Line, TaskLines, Lines
<1> HIDE DEF l
<1>2. <<l>> \in Contents /\ IdsOf(<<l>>) = {l.id}
  BY <1>1 DEF Contents, IdsOf
<1>3. <<>> \in Contents /\ IdsOf(<<>>) = {}
  BY DEF Contents, IdsOf
<1> QED
  BY <1>1, <1>2, <1>3 DEF l

\* Nothing read, planned or to be committed.
LEMMA EmptyParts ==
  <<>> \in Partial /\ <<>> \in SyncRows
<1>1. <<>> \in Partial
  BY DEF Partial
<1>2. <<>> \in SyncRows
  BY DEF SyncRows
<1> QED
  BY <1>1, <1>2

\* A pass that is at rest or at the beginning of the gather.
Fresher == {Idle} \cup {Gathering(a) : a \in 0..(MaxRetries - 1)}

LEMMA RestingPass ==
  ASSUME NEW x \in Fresher
  PROVE  /\ PassType(x) /\ x \in PassSet /\ x.pc \in {"idle", "gather"}
         /\ x.read = <<>> /\ x.plan = <<>> /\ x.set = <<>>
<1>1. <<>> \in Partial
  BY EmptyParts
<1>2. <<>> \in SyncRows
  BY EmptyParts
<1>3. 1 \in DOMAIN ReadOrder /\ MaxRetries \in Nat \ {0}
  BY OrdersOK, BoundsAssumption
<1>4. CASE x = Idle
  BY <1>1, <1>2, <1>3, <1>4 DEF Idle, PassType, PassSet
<1>5. CASE \E a \in 0..(MaxRetries - 1) : x = Gathering(a)
  <2>1. PICK a \in 0..(MaxRetries - 1) : x = Gathering(a)
    BY <1>5
  <2>2. x = [pc |-> "gather", k |-> 1, attempt |-> a, read |-> <<>>, plan |-> <<>>, set |-> <<>>,
             drop |-> {}]
    BY <2>1 DEF Gathering, Idle
  <2>3. {ReadOrder[i] : i \in 1..(x.k - 1)} = {}
    BY <2>2
  <2>4. DOMAIN x.read = {}
    BY <2>2
  <2> QED BY <1>1, <1>2, <1>3, <2>2, <2>3, <2>4 DEF PassType, PassSet
<1> QED
  BY <1>4, <1>5 DEF Fresher

\* What is no excuse for an id was none before.
LEMMA FirmBefore ==
  ASSUME deleted \subseteq deleted', clobbered \subseteq clobbered', overtaken \subseteq overtaken',
         moved \subseteq moved', torn => torn', NEW id, Firm(id)'
  PROVE  Firm(id)
BY DEF Firm

\* The invariant holds in the beginning.
LEMMA InitInv ==
  ASSUME Init
  PROVE  SyncInv
<1>1. PICK p \in Synced : \E lines \in {<<>>, <<Line(1, NewText, <<p>>)>>} :
        /\ file = [f \in Files |-> IF f[2] = p THEN lines ELSE <<>>]
        /\ base = [id \in IdsOf(lines) |-> Task(lines[1], p)]
        /\ filed = IdsOf(lines)
  BY DEF Init
<1>2. PICK lines \in {<<>>, <<Line(1, NewText, <<p>>)>>} :
        /\ file = [f \in Files |-> IF f[2] = p THEN lines ELSE <<>>]
        /\ base = [id \in IdsOf(lines) |-> Task(lines[1], p)]
        /\ filed = IdsOf(lines)
  BY <1>1
<1>3. /\ pass = [s \in Syncers |-> Idle] /\ stale = [s \in Syncers |-> {}]
      /\ late = [s \in Syncers |-> {}] /\ nextId = 2 /\ events = MaxEvents /\ deleted = {}
      /\ moved = {} /\ clobbered = {} /\ torn = FALSE /\ overtaken = {}
  BY DEF Init
<1>4. \A s \in Syncers :
        /\ PassType(pass[s]) /\ pass[s] \in PassSet /\ ~InWrite(s) /\ pass[s].pc = "idle"
        /\ pass[s].read = <<>> /\ pass[s].plan = <<>> /\ pass[s].set = <<>>
  <2>1. Idle \in Fresher /\ Idle.pc = "idle"
    BY DEF Fresher, Idle
  <2>2. /\ PassType(Idle) /\ Idle \in PassSet
        /\ Idle.read = <<>> /\ Idle.plan = <<>> /\ Idle.set = <<>>
    BY <2>1, RestingPass
  <2>3. \A s \in Syncers : pass[s] = Idle
    BY <1>3
  <2> QED BY <2>1, <2>2, <2>3 DEF InWrite
<1>5. /\ lines \in Contents /\ IdsOf(lines) \subseteq {1} /\ IdsOf(<<>>) = {} /\ <<>> \in Contents
      /\ \A id \in IdsOf(lines) : lines[1] \in TaskLines
  <2> DEFINE l == Line(1, NewText, <<p>>)
  <2>1. l \in TaskLines /\ <<l>> \in Contents /\ IdsOf(<<l>>) = {1} /\ <<>> \in Contents /\ IdsOf(<<>>) = {}
    BY FirstLine
  <2>2. lines = <<>> \/ lines = <<l>>
    BY <1>2
  <2> HIDE DEF l
  <2>3. CASE lines = <<>>
    BY <2>1, <2>3
  <2>4. CASE lines = <<l>>
    BY <2>1, <2>4
  <2> QED BY <2>2, <2>3, <2>4
<1>6. \A id \in DOMAIN base : id = 1 /\ base[id] = [line |-> lines[1], project |-> p]
  BY <1>2, <1>5 DEF Task
<1>7. base \in SyncRows
  <2>1. base \in [DOMAIN base -> [line : TaskLines, project : Synced]]
    BY <1>2, <1>5, <1>6
  <2>2. DOMAIN base \in SUBSET Nat
    BY <1>6
  <2> QED BY <2>1, <2>2 DEF SyncRows
<1>8. file \in [Files -> Contents]
  BY <1>2, <1>5
<1>9. SyncType
  <2>1. filed \subseteq {1} /\ deleted \cup moved \cup clobbered \cup filed \cup overtaken \subseteq Nat
    BY <1>2, <1>3, <1>5
  <2>2. nextId \in Nat \ {NoId} /\ NoId \notin filed
    BY <1>3, <2>1 DEF NoId
  <2>3. events \in 0..MaxEvents
    BY <1>3, BoundsAssumption
  <2>4. torn \in BOOLEAN
    BY <1>3, Zenon
  <2>5. stale \in [Syncers -> SUBSET Files] /\ late \in [Syncers -> SUBSET Nat]
    BY <1>3
  <2>6. \A s \in Syncers : stale[s] \subseteq DOMAIN pass[s].read
    BY <1>3
  <2>7. pass \in [Syncers -> PassSet] /\ \A s \in Syncers : PassType(pass[s])
    BY <1>3, <1>4
  <2> QED BY <1>7, <1>8, <2>1, <2>2, <2>3, <2>4, <2>5, <2>6, <2>7 DEF SyncType
<1>10. \A id, q : At(id, q) => id = 1 /\ q = p
  <2> SUFFICES ASSUME NEW id, NEW q, At(id, q) PROVE id = 1 /\ q = p
    OBVIOUS
  <2>1. \/ \E f \in Files : f[2] = q /\ id \in IdsOf(file[f])
        \/ id \in DOMAIN base /\ base[id].project = q
    BY <1>4 DEF At
  <2>2. ASSUME NEW f \in Files, f[2] = q, id \in IdsOf(file[f]) PROVE id = 1 /\ q = p
    BY <1>2, <1>5, <2>2
  <2> QED BY <1>6, <2>1, <2>2
<1>11. Fresh /\ OneHome
  BY <1>3, <1>10 DEF Fresh, OneHome
<1>12. Alone /\ \A s \in Syncers : PassOK(s)
  <2>1. \A s \in Syncers : DOMAIN pass[s].read = {} /\ pass[s].pc # "rename" /\ \A f : ~Done(s, f)
    BY <1>4 DEF Done
  <2>2. \A s \in Syncers : GuardOK(s)
    BY <2>1 DEF GuardOK
  <2>3. \A s \in Syncers : RowsOK(s) /\ PlanOK(s) /\ InboxPlanned(s)
    BY <1>4 DEF RowsOK, PlanOK, InboxPlanned
  <2> QED BY <1>4, <2>2, <2>3 DEF Alone, PassOK
<1>13. BaseOK
  <2>1. p \in Synced /\ Both(p) \subseteq Files /\ \A f \in Both(p) : f[2] = p
    BY BothFiles
  <2>2. ASSUME NEW id \in DOMAIN base, NEW f \in Both(p) PROVE Seen(id, f)
    <3>1. id \in IdsOf(file[f])
      BY <1>2, <2>1, <2>2
    <3>2. \A s \in Syncers : f \notin DOMAIN pass[s].read
      BY <1>4
    <3> QED BY <3>1, <3>2 DEF Seen
  <2>3. \A id : id \notin moved
    BY <1>3
  <2> QED BY <1>6, <2>2, <2>3 DEF BaseOK
<1>14. KeptOK
  <2>1. ASSUME NEW id \in filed PROVE id \in Present
    <3>1. Canon(p) \in Files /\ Canon(p)[2] = p
      BY FileProject DEF Projects
    <3>2. id \in IdsOf(file[Canon(p)])
      BY <1>2, <2>1, <3>1
    <3> QED BY <3>1, <3>2 DEF Present
  <2> QED BY <2>1 DEF KeptOK
<1> QED
  BY <1>9, <1>11, <1>12, <1>13, <1>14 DEF SyncInv

\* A process that begins a pass, ends one or starts it again leaves no more than
\* torn behind.
LEMMA ResetKeeps ==
  ASSUME SyncInv, NEW s \in Syncers, NEW x \in Fresher, Resets(s, x),
         UNCHANGED <<file, base, nextId, deleted, moved, clobbered, filed, overtaken>>,
         events' \in 0..MaxEvents, torn' \in BOOLEAN, torn => torn', InWrite(s) /\ Wrote(s) => torn',
         pass[s].pc = "idle" /\ ~torn' => Resting
  PROVE  SyncInv'
<1>0. /\ pass \in [Syncers -> PassSet] /\ SyncType /\ Alone
      /\ pass' = [pass EXCEPT ![s] = x]
      /\ stale' = [stale EXCEPT ![s] = {}] /\ late' = [late EXCEPT ![s] = {}]
  BY DEF SyncInv, SyncType, Resets
<1>1. /\ PassType(x) /\ x \in PassSet /\ x.pc \in {"idle", "gather"}
      /\ x.read = <<>> /\ x.plan = <<>> /\ x.set = <<>>
  BY RestingPass
<1>2. /\ pass'[s] = x /\ \A r \in Syncers : r # s => pass'[r] = pass[r]
      /\ \A r \in Syncers : r # s =>
              /\ InWrite(r)' <=> InWrite(r)
              /\ Wrote(r)' <=> Wrote(r)
              /\ \A f : Done(r, f)' <=> Done(r, f)
              /\ \A id : OnItsWay(r, id)' <=> OnItsWay(r, id)
  BY <1>0, Shifted
<1>3. ~InWrite(s)' /\ \A f : ~Done(s, f)'
  BY <1>1, <1>2 DEF InWrite, Done
<1>4. /\ stale'[s] = {} /\ late'[s] = {}
      /\ \A r \in Syncers : r # s => stale'[r] = stale[r] /\ late'[r] = late[r]
  BY <1>0 DEF SyncType
<1>5. ~torn' => \A r \in Syncers : r # s => pass[r].pc = "idle"
  <2> SUFFICES ASSUME ~torn', NEW r \in Syncers, r # s PROVE pass[r].pc = "idle"
    OBVIOUS
  <2>1. CASE pass[s].pc = "idle"
    BY <2>1 DEF Resting
  <2>2. CASE pass[s].pc # "idle"
    BY <1>0, <2>2, OneAtWork
  <2> QED BY <2>1, <2>2
<1>6. \A id : Firm(id)' => Firm(id)
  BY FirmBefore
<1>7. SyncType'
  <2>1. pass' \in [Syncers -> PassSet] /\ \A r \in Syncers : PassType(pass'[r])
    BY <1>0, <1>1, <1>2 DEF SyncType
  <2>2. stale' \in [Syncers -> SUBSET Files] /\ late' \in [Syncers -> SUBSET Nat]
    BY <1>0 DEF SyncType
  <2>3. \A r \in Syncers : stale'[r] \subseteq DOMAIN pass'[r].read
    BY <1>0, <1>2, <1>4 DEF SyncType
  <2> QED BY <1>0, <2>1, <2>2, <2>3 DEF SyncType
<1>8. Fresh' /\ OneHome'
  <2>1. ASSUME NEW id, NEW p, At(id, p)' PROVE At(id, p)
    <3>1. DOMAIN x.read = {} /\ DOMAIN x.plan = {} /\ DOMAIN x.set = {}
      BY <1>1
    <3> QED BY <1>0, <2>1, <3>1, AtShift DEF At
  <2>2. nextId \in Nat
    BY <1>0 DEF SyncType
  <2> QED BY <2>1, <2>2, AtShrinks DEF SyncInv
<1>9. Alone'
  BY <1>2, <1>5 DEF Alone
<1>10. ASSUME NEW r \in Syncers PROVE PassOK(r)'
  <2>1. CASE r = s
    <3>1. DOMAIN pass'[s].read = {} /\ pass'[s].pc # "rename"
      BY <1>1, <1>2
    <3> QED BY <1>3, <2>1, <3>1 DEF PassOK, GuardOK, RowsOK, PlanOK, InboxPlanned
  <2>2. CASE r # s
    <3>1. GuardOK(r) /\ RowsOK(r) /\ PlanOK(r) /\ InboxPlanned(r)
      BY DEF SyncInv, PassOK
    <3>2. GuardOK(r)'
      BY <1>2, <1>4, <1>6, <2>2, <3>1 DEF GuardOK
    <3>3. RowsOK(r)' /\ InboxPlanned(r)'
      BY <1>2, <2>2, <3>1 DEF RowsOK, InboxPlanned
    <3>4. PlanOK(r)'
      BY <1>2, <1>6, <2>2, <3>1 DEF PlanOK
    <3> QED BY <3>2, <3>3, <3>4 DEF PassOK
  <2> QED BY <2>1, <2>2
<1>11. BaseOK'
  <2>1. ASSUME NEW id, NEW f, Seen(id, f) PROVE Seen(id, f)'
    <3>1. DOMAIN pass'[s].read = {}
      BY <1>1, <1>2
    <3> QED BY <1>2, <1>4, <2>1, <3>1 DEF Seen
  <2> SUFFICES ASSUME NEW id \in DOMAIN base, Firm(id)'
               PROVE  /\ id \notin moved => \A f \in Both(base[id].project) : Seen(id, f)'
                      /\ id \in moved /\ NobodyWrote' => SeenSomewhere(id)'
    BY DEF BaseOK
  <2>2. CASE id \notin moved
    BY <1>6, <2>1, <2>2 DEF SyncInv, BaseOK
  <2>3. CASE id \in moved /\ NobodyWrote'
    <3>1. ~torn'
      BY <2>3 DEF Firm
    <3>2. NobodyWrote
      BY <1>2, <2>3, <3>1 DEF NobodyWrote
    <3>3. SeenSomewhere(id)
      BY <1>6, <2>3, <3>2 DEF SyncInv, BaseOK
    <3> QED BY <2>1, <2>3, <3>3 DEF SeenSomewhere
  <2> QED BY <2>2, <2>3
<1>12. KeptOK'
  <2> SUFFICES ASSUME NEW id \in filed, Firm(id)', id \notin Present
               PROVE  id \in moved /\ \E r \in Syncers : OnItsWay(r, id)'
    BY DEF KeptOK, Present
  <2>1. id \in moved /\ \E r \in Syncers : OnItsWay(r, id)
    BY <1>6 DEF SyncInv, KeptOK
  <2>2. ~OnItsWay(s, id)
    BY <2>1 DEF OnItsWay, Firm
  <2> QED BY <1>2, <2>1, <2>2
<1> QED
  BY <1>7, <1>8, <1>9, <1>10, <1>11, <1>12 DEF SyncInv

\* An edit of a file keeps the invariant if the ids it drops are marked deleted
\* and those it adds are none or the next one.
LEMMA EditKeeps ==
  ASSUME SyncInv, NEW f \in Files, NEW lines \in Contents,
         file' = [file EXCEPT ![f] = lines], stale' = Outdated(f, {}), events' \in 0..MaxEvents,
         UNCHANGED <<base, pass, moved, clobbered, torn, late, overtaken>>,
         nextId' \in Nat, nextId <= nextId',
         deleted \subseteq deleted', deleted' \subseteq Nat,
         filed \subseteq filed', filed' \subseteq Nat \ {NoId}, filed' \subseteq filed \cup IdsOf(lines),
         IdsOf(file[f]) \subseteq IdsOf(lines) \cup deleted',
         \A id \in IdsOf(lines) : \/ id \in IdsOf(file[f]) \cup {NoId}
                                  \/ id = nextId /\ nextId < nextId'
  PROVE  SyncInv'
<1>0. /\ file \in [Files -> Contents] /\ nextId \in Nat /\ nextId # NoId /\ SyncType
      /\ pass \in [Syncers -> PassSet] /\ stale \in [Syncers -> SUBSET Files]
  <2>1. SyncType
    BY DEF SyncInv
  <2> QED BY <2>1, Typed DEF SyncType
<1>1. /\ file'[f] = lines /\ \A g \in Files : g # f => file'[g] = file[g]
      /\ file' \in [Files -> Contents]
  BY <1>0
<1>2. /\ \A r \in Syncers : stale'[r] = IF f \in DOMAIN pass[r].read THEN stale[r] \cup {f} ELSE stale[r]
      /\ stale' \in [Syncers -> SUBSET Files]
  BY <1>0 DEF Outdated
<1>3. SyncType'
  <2>1. (deleted \cup moved \cup clobbered \cup filed \cup overtaken)' \subseteq Nat /\ NoId \notin filed'
    BY <1>0 DEF SyncType
  <2>2. nextId' \in Nat \ {NoId}
    BY <1>0 DEF NoId
  <2>3. \A r \in Syncers : stale'[r] \subseteq DOMAIN pass'[r].read
    BY <1>0, <1>2 DEF SyncType
  <2>4. /\ base' \in SyncRows /\ pass' \in [Syncers -> PassSet] /\ \A r \in Syncers : PassType(pass'[r])
        /\ late' \in [Syncers -> SUBSET Nat] /\ torn' \in BOOLEAN
    BY <1>0 DEF SyncType
  <2> QED BY <1>1, <1>2, <2>1, <2>2, <2>3, <2>4 DEF SyncType
<1>4. \A id : Firm(id)' => Firm(id)
  BY FirmBefore
<1>5. \A g \in Files : \A id \in IdsOf(file[g]) : Firm(id)' => id \in IdsOf(file'[g])
  BY <1>1 DEF Firm
<1>6. \A id \in Nat : \A p \in Projects : At(id, p)' =>
        At(id, p) \/ id = NoId \/ (id = nextId /\ nextId < nextId' /\ p = f[2])
  <2> SUFFICES ASSUME NEW id \in Nat, NEW p \in Projects, At(id, p)'
               PROVE  At(id, p) \/ id = NoId \/ (id = nextId /\ nextId < nextId' /\ p = f[2])
    OBVIOUS
  <2>1. CASE \E g \in Files : g[2] = p /\ id \in IdsOf(file'[g])
    <3>1. PICK g \in Files : g[2] = p /\ id \in IdsOf(file'[g])
      BY <2>1
    <3>2. \/ id \in IdsOf(file[g]) \/ id = NoId
          \/ g = f /\ id = nextId /\ nextId < nextId'
      BY <1>1, <3>1
    <3> QED BY <3>1, <3>2 DEF At
  <2>2. CASE ~ \E g \in Files : g[2] = p /\ id \in IdsOf(file'[g])
    BY <2>2 DEF At
  <2> QED BY <2>1, <2>2
<1>7. Fresh'
  <2> SUFFICES ASSUME NEW p \in Projects, NEW id \in Nat, At(id, p)' PROVE id < nextId'
    BY DEF Fresh
  <2>1. At(id, p) => id < nextId
    BY DEF SyncInv, Fresh
  <2> QED BY <1>0, <1>6, <2>1 DEF NoId
<1>8. OneHome'
  <2> SUFFICES ASSUME NEW id \in Nat \ (moved \cup {NoId}), NEW p \in Projects, NEW q \in Projects,
                      At(id, p)', At(id, q)'
               PROVE  p = q
    BY DEF OneHome
  <2>1. \A r \in Projects : At(id, r) => id < nextId
    BY DEF SyncInv, Fresh
  <2>2. At(id, p) /\ At(id, q) => p = q
    BY DEF SyncInv, OneHome
  <2>3. At(id, p) \/ (id = nextId /\ p = f[2])
    BY <1>6
  <2>4. At(id, q) \/ (id = nextId /\ q = f[2])
    BY <1>6
  <2> QED BY <1>0, <2>1, <2>2, <2>3, <2>4
<1>9. /\ \A r \in Syncers : (InWrite(r)' <=> InWrite(r)) /\ (Wrote(r)' <=> Wrote(r))
      /\ \A r \in Syncers : \A g : Done(r, g)' <=> Done(r, g)
      /\ \A r \in Syncers : \A id : OnItsWay(r, id)' <=> OnItsWay(r, id)
  BY DEF InWrite, Wrote, Done, OnItsWay
<1>10. ASSUME NEW r \in Syncers PROVE PassOK(r)'
  <2>1. GuardOK(r) /\ RowsOK(r) /\ PlanOK(r) /\ InboxPlanned(r)
    BY DEF SyncInv, PassOK
  <2>2. GuardOK(r)'
    <3>1. ASSUME NEW g \in DOMAIN pass[r].read, ~Done(r, g)
          PROVE  /\ g \notin stale'[r] => file'[g] = pass[r].read[g]
                 /\ \A id \in IdsOf(pass[r].read[g]) : Firm(id)' => id \in IdsOf(file'[g])
      <4>1. g \in Files
        BY <1>0, Typed
      <4>2. /\ g \notin stale[r] => file[g] = pass[r].read[g]
            /\ \A id \in IdsOf(pass[r].read[g]) : Firm(id) => id \in IdsOf(file[g])
        BY <2>1, <3>1 DEF GuardOK
      <4>3. g \notin stale'[r] => g \notin stale[r] /\ g # f
        BY <1>2, <3>1
      <4>4. g \notin stale'[r] => file'[g] = pass[r].read[g]
        BY <1>1, <4>1, <4>2, <4>3
      <4>5. \A id \in IdsOf(pass[r].read[g]) : Firm(id)' => id \in IdsOf(file'[g])
        BY <1>4, <1>5, <4>1, <4>2
      <4> QED BY <4>4, <4>5
    <3>2. ASSUME NEW g \in Files, Done(r, g)
          PROVE  \A id \in IdsOf(pass[r].plan[g]) : Firm(id)' => id \in IdsOf(file'[g])
      BY <1>4, <1>5, <2>1, <3>2 DEF GuardOK
    <3>3. pass[r].pc = "rename" =>
            pass[r].read[WriteOrder[pass[r].k]] # pass[r].plan[WriteOrder[pass[r].k]]
      BY <2>1 DEF GuardOK
    <3> QED BY <1>9, <3>1, <3>2, <3>3 DEF GuardOK
  <2>3. RowsOK(r)' /\ InboxPlanned(r)'
    BY <1>9, <2>1 DEF RowsOK, InboxPlanned
  <2>4. PlanOK(r)'
    BY <1>4, <1>9, <2>1 DEF PlanOK
  <2> QED BY <2>2, <2>3, <2>4 DEF PassOK
<1>11. BaseOK'
  <2>1. \A id : \A g \in Files : Seen(id, g) /\ Firm(id)' => Seen(id, g)'
    BY <1>5, <1>9 DEF Seen
  <2> SUFFICES ASSUME NEW id \in DOMAIN base, Firm(id)'
               PROVE  /\ id \notin moved => \A g \in Both(base[id].project) : Seen(id, g)'
                      /\ id \in moved /\ NobodyWrote' => SeenSomewhere(id)'
    BY DEF BaseOK
  <2>2. Both(base[id].project) \subseteq Files
    BY <1>0, Typed, BothFiles
  <2>3. NobodyWrote' => NobodyWrote
    BY <1>9 DEF NobodyWrote
  <2>4. CanonFiles \subseteq Files /\ ProjectionFiles \subseteq Files
    BY DEF Files
  <2>5. id \notin moved => \A g \in Both(base[id].project) : Seen(id, g)'
    BY <1>4, <2>1, <2>2 DEF SyncInv, BaseOK
  <2>6. id \in moved /\ NobodyWrote => SeenSomewhere(id)
    BY <1>4 DEF SyncInv, BaseOK
  <2>7. SeenSomewhere(id) => SeenSomewhere(id)'
    BY <2>1, <2>4 DEF SeenSomewhere
  <2> QED BY <2>3, <2>5, <2>6, <2>7
<1>12. KeptOK'
  <2> SUFFICES ASSUME NEW id \in filed', Firm(id)'
               PROVE  id \in Present' \/ (id \in moved /\ \E r \in Syncers : OnItsWay(r, id))
    BY <1>9 DEF KeptOK
  <2>1. CASE id \in filed
    <3>1. id \in Present \/ (id \in moved /\ \E r \in Syncers : OnItsWay(r, id))
      BY <1>4, <2>1 DEF SyncInv, KeptOK
    <3>2. id \in Present => id \in Present'
      BY <1>5 DEF Present
    <3> QED BY <3>1, <3>2
  <2>2. CASE id \in IdsOf(lines)
    BY <1>1, <2>2 DEF Present
  <2> QED BY <2>1, <2>2
<1>13. Alone'
  BY DEF SyncInv, Alone
<1> QED
  BY <1>3, <1>7, <1>8, <1>10, <1>11, <1>12, <1>13 DEF SyncInv

---------------------------------------------------------------------------
(* The steps of a pass                                                     *)

\* A step of a pass that writes no file keeps what there is to say of the others.
LEMMA OthersKept ==
  ASSUME SyncInv, NEW s \in Syncers, NEW x, pass' = [pass EXCEPT ![s] = x],
         UNCHANGED <<file, base, stale, torn>>, \A id : Firm(id)' => Firm(id),
         moved \subseteq moved',
         NEW r \in Syncers, r # s
  PROVE  PassOK(r)'
<1>1. pass \in [Syncers -> PassSet] /\ GuardOK(r) /\ RowsOK(r) /\ PlanOK(r) /\ InboxPlanned(r)
  BY DEF SyncInv, SyncType, PassOK
<1>2. /\ pass'[r] = pass[r]
      /\ InWrite(r)' <=> InWrite(r)
      /\ \A f : Done(r, f)' <=> Done(r, f)
  BY <1>1, Shifted
<1>3. GuardOK(r)'
  BY <1>1, <1>2 DEF GuardOK
<1>4. RowsOK(r)' /\ InboxPlanned(r)'
  BY <1>1, <1>2 DEF RowsOK, InboxPlanned
<1>5. PlanOK(r)'
  BY <1>1, <1>2 DEF PlanOK
<1> QED
  BY <1>3, <1>4, <1>5 DEF PassOK

\* The next file is read.
LEMMA GatherKeeps ==
  ASSUME SyncInv, NEW s \in Syncers, Gather(s)
  PROVE  SyncInv'
<1> DEFINE f == ReadOrder[pass[s].k]
           k == pass[s].k
           n == Len(ReadOrder)
           x == pass'[s]
           read == x.read
<1>0. /\ file \in [Files -> Contents] /\ nextId \in Nat /\ SyncType
      /\ pass \in [Syncers -> PassSet] /\ PassType(pass[s]) /\ pass[s] \in PassSet
      /\ \A g \in DOMAIN pass[s].read : g \in Files /\ pass[s].read[g] \in Contents
  <2>1. SyncType
    BY DEF SyncInv
  <2> QED BY <2>1, Typed DEF SyncType
<1>1. /\ pass[s].pc = "gather" /\ k \in DOMAIN ReadOrder
      /\ DOMAIN pass[s].read = {ReadOrder[i] : i \in 1..(k - 1)}
      /\ pass[s].plan = <<>> /\ pass[s].set = <<>>
  BY <1>0 DEF Gather, PassType
<1>2. n \in Nat \ {0} /\ k \in 1..n /\ f \in Files /\ \A g \in Files : \E i \in 1..n : ReadOrder[i] = g
  <2>1. n \in Nat \ {0} /\ DOMAIN ReadOrder = 1..n
    BY OrdersOK
  <2>2. ReadOrder \in Seq(Files)
    BY OrdersOK
  <2>3. f \in Files
    BY <1>1, <2>2
  <2>4. \A g \in Files : \E i \in DOMAIN ReadOrder : ReadOrder[i] = g
    BY OrdersOK
  <2> QED BY <1>1, <2>1, <2>3, <2>4
<1>3. /\ x = [pass[s] EXCEPT !.k = IF k = n THEN 1 ELSE k + 1,
                             !.pc = IF k = n THEN "decide" ELSE "gather",
                             !.read = [g \in DOMAIN pass[s].read \cup {f} |->
                                         IF g = f THEN file[f] ELSE pass[s].read[g]]]
      /\ pass' = [pass EXCEPT ![s] = x]
      /\ UNCHANGED <<file, base, stale, nextId, events, deleted, moved, clobbered, filed, torn,
                     late, overtaken>>
  <2> DEFINE y == [pass[s] EXCEPT !.k = IF k = n THEN 1 ELSE k + 1,
                                  !.pc = IF k = n THEN "decide" ELSE "gather",
                                  !.read = [g \in DOMAIN pass[s].read \cup {f} |->
                                              IF g = f THEN file[f] ELSE pass[s].read[g]]]
  <2>1. /\ pass' = [pass EXCEPT ![s] = y]
        /\ UNCHANGED <<file, base, stale, nextId, events, deleted, moved, clobbered, filed, torn,
                       late, overtaken>>
    BY <1>1 DEF Gather, user
  <2> HIDE DEF y
  <2>2. pass'[s] = y
    BY <1>0, <2>1
  <2> QED BY <2>1, <2>2 DEF y
<1>4. /\ x.pc = (IF k = n THEN "decide" ELSE "gather") /\ x.k = (IF k = n THEN 1 ELSE k + 1)
      /\ x.plan = <<>> /\ x.set = <<>> /\ x.attempt = pass[s].attempt /\ x.drop = pass[s].drop
      /\ DOMAIN read = DOMAIN pass[s].read \cup {f}
      /\ read[f] = file[f] /\ \A g \in DOMAIN pass[s].read : g # f => read[g] = pass[s].read[g]
  BY <1>0, <1>1, <1>3 DEF PassSet
<1>5. DOMAIN read = {ReadOrder[i] : i \in 1..k}
  <2>1. \A i : i \in 1..k <=> i \in 1..(k - 1) \/ i = k
    BY <1>2
  <2> QED BY <1>1, <1>4, <2>1
<1>6. \A g \in DOMAIN read : g \in Files /\ read[g] \in Contents
  BY <1>0, <1>2, <1>4
<1>7. PassType(x)
  <2>1. read = [g \in DOMAIN read |-> read[g]]
    BY <1>3, <1>0 DEF PassSet
  <2>2. read \in Partial
    <3>1. read \in [DOMAIN read -> Contents] /\ DOMAIN read \in SUBSET Files
      BY <1>6, <2>1
    <3> QED BY <3>1 DEF Partial
  <2>3. <<>> \in Partial /\ <<>> \in SyncRows
    BY EmptyParts
  <2>4. x = [pc |-> x.pc, k |-> x.k, attempt |-> x.attempt, read |-> read,
             plan |-> x.plan, set |-> x.set, drop |-> x.drop]
    BY <1>0, <1>3 DEF PassSet
  <2>5. x.k \in Nat /\ x.pc \in {"gather", "decide"} /\ pass[s].attempt \in 0..(MaxRetries - 1)
        /\ pass[s].drop \in SUBSET Nat
    BY <1>0, <1>2, <1>4 DEF PassSet
  <2>6. x \in PassSet
    BY <1>4, <2>2, <2>3, <2>4, <2>5 DEF PassSet
  <2>7. CASE k = n
    <3>1. DOMAIN read = Files
      BY <1>2, <1>5, <1>6, <2>7
    <3> QED BY <1>4, <2>6, <2>7, <3>1 DEF PassType
  <2>8. CASE k # n
    <3>1. k + 1 \in DOMAIN ReadOrder /\ (k + 1) - 1 = k
      <4>1. DOMAIN ReadOrder = 1..n /\ n \in Nat
        BY OrdersOK
      <4> HIDE DEF n
      <4> QED BY <1>2, <2>8, <4>1
    <3> QED BY <1>4, <1>5, <2>6, <2>8, <3>1 DEF PassType
  <2> QED BY <2>7, <2>8
<1>8. /\ \A r \in Syncers : r # s => pass'[r] = pass[r]
      /\ \A r \in Syncers : r # s =>
              /\ InWrite(r)' <=> InWrite(r)
              /\ Wrote(r)' <=> Wrote(r)
              /\ \A id : OnItsWay(r, id)' <=> OnItsWay(r, id)
  BY <1>0, <1>3, Shifted
<1>9. ~InWrite(s) /\ ~InWrite(s)' /\ \A g : ~Done(s, g) /\ ~Done(s, g)'
  BY <1>1, <1>4 DEF InWrite, Done
<1> HIDE DEF f, k, n, x
<1>10. \A id : Firm(id)' <=> Firm(id)
  BY <1>3 DEF Firm
<1>11. SyncType'
  <2>1. pass' \in [Syncers -> PassSet] /\ \A r \in Syncers : PassType(pass'[r])
    <3>1. x \in PassSet
      BY <1>7 DEF PassType
    <3>2. \A r \in Syncers : PassType(pass[r])
      BY <1>0, Typed
    <3> QED BY <1>0, <1>3, <1>7, <1>8, <3>1, <3>2 DEF x
  <2>2. \A r \in Syncers : stale'[r] \subseteq DOMAIN pass'[r].read
    BY <1>0, <1>3, <1>4, <1>8 DEF x, SyncType
  <2> QED BY <1>0, <1>3, <2>1, <2>2 DEF SyncType
<1>12. Fresh' /\ OneHome'
  <2>1. ASSUME NEW id, NEW p, At(id, p)' PROVE At(id, p)
    <3>1. \A g \in DOMAIN read : g[2] = p /\ id \in IdsOf(read[g]) => At(id, p)
      BY <1>2, <1>4 DEF At
    <3>2. DOMAIN x.plan = {} /\ DOMAIN x.set = {}
      BY <1>4
    <3>3. \/ \E g \in Files : g[2] = p /\ id \in IdsOf(file[g])
          \/ \E g \in DOMAIN read : g[2] = p /\ id \in IdsOf(read[g])
          \/ id \in DOMAIN base /\ base[id].project = p
          \/ At(id, p)
      BY <1>0, <1>3, <2>1, <3>2, AtShift
    <3> QED BY <3>1, <3>3 DEF At
  <2> QED BY <1>0, <1>3, <2>1, AtShrinks DEF SyncInv
<1>13. Alone'
  <2>1. \A r \in Syncers : pass'[r].pc # "idle" => pass[r].pc # "idle"
    BY <1>1, <1>8
  <2> QED BY <1>3, <2>1 DEF SyncInv, Alone
<1>14. PassOK(s)'
  <2>1. GuardOK(s)'
    <3>1. ASSUME NEW g \in DOMAIN read
          PROVE  /\ g \notin stale[s] => file[g] = read[g]
                 /\ \A id \in IdsOf(read[g]) : Firm(id) => id \in IdsOf(file[g])
      <4>1. CASE g = f
        BY <1>4, <4>1
      <4>2. CASE g # f
        <5>1. g \in DOMAIN pass[s].read /\ read[g] = pass[s].read[g]
          BY <1>4, <4>2
        <5> QED BY <1>9, <5>1 DEF SyncInv, PassOK, GuardOK
      <4> QED BY <4>1, <4>2
    <3>2. x.pc # "rename"
      BY <1>4
    <3> QED BY <1>3, <1>9, <1>10, <3>1, <3>2 DEF GuardOK, x
  <2>2. (RowsOK(s) /\ PlanOK(s) /\ InboxPlanned(s))'
    BY <1>9 DEF RowsOK, PlanOK, InboxPlanned
  <2> QED BY <2>1, <2>2 DEF PassOK
<1>15. \A r \in Syncers : PassOK(r)'
  BY <1>3, <1>10, <1>14, OthersKept
<1>16. BaseOK'
  <2>1. ASSUME NEW id, NEW g, Seen(id, g) PROVE Seen(id, g)'
    <3>1. id \in IdsOf(file'[g])
      BY <1>3, <2>1 DEF Seen
    <3>2. ASSUME NEW r \in Syncers, ~InWrite(r)', g \in DOMAIN pass'[r].read
          PROVE  id \in IdsOf(pass'[r].read[g]) \/ id \in late'[r]
      <4>1. CASE r # s
        BY <1>3, <1>8, <2>1, <3>2, <4>1 DEF Seen
      <4>2. CASE r = s /\ g = f
        BY <1>3, <1>4, <3>1, <4>2 DEF x
      <4>3. CASE r = s /\ g # f
        <5>1. g \in DOMAIN pass[s].read /\ read[g] = pass[s].read[g]
          BY <1>4, <3>2, <4>3 DEF x
        <5> QED BY <1>3, <1>9, <2>1, <4>3, <5>1 DEF Seen, x
      <4> QED BY <4>1, <4>2, <4>3
    <3> QED BY <3>1, <3>2 DEF Seen
  <2>2. NobodyWrote' => NobodyWrote
    BY <1>8, <1>9 DEF NobodyWrote
  <2>3. \A id : SeenSomewhere(id) => SeenSomewhere(id)'
    BY <2>1 DEF SeenSomewhere
  <2> QED BY <1>3, <1>10, <2>1, <2>2, <2>3 DEF SyncInv, BaseOK
<1>17. KeptOK'
  <2> SUFFICES ASSUME NEW id \in filed, Firm(id), id \notin Present
               PROVE  id \in moved /\ \E r \in Syncers : OnItsWay(r, id)'
    BY <1>3, <1>10 DEF KeptOK, Present
  <2>1. id \in moved /\ \E r \in Syncers : OnItsWay(r, id)
    BY DEF SyncInv, KeptOK
  <2>2. ~OnItsWay(s, id)
    BY <1>9 DEF OnItsWay
  <2> QED BY <1>8, <2>1, <2>2
<1> QED
  BY <1>11, <1>12, <1>13, <1>15, <1>16, <1>17 DEF SyncInv

\* What it is to go on to the next file.
LEMMA AdvanceOK ==
  ASSUME SyncType, NEW s \in Syncers, InWrite(s), NEW f, Writing(s, f),
         pass' = [pass EXCEPT ![s] = Advance(s)]
  PROVE  /\ PassType(pass'[s]) /\ f \in Files /\ InWrite(s)' /\ pass'[s].pc = "write"
         /\ pass'[s].read = pass[s].read /\ pass'[s].plan = pass[s].plan
         /\ pass'[s].set = pass[s].set /\ pass'[s].drop = pass[s].drop
         /\ DOMAIN pass[s].read = Files /\ DOMAIN pass[s].plan = Files
         /\ ~Done(s, f)
         /\ \A g : Done(s, g)' <=> Done(s, g) \/ g = f
         /\ Wrote(s)' <=> Wrote(s) \/ pass[s].read[f] # pass[s].plan[f]
<1> DEFINE k == pass[s].k
           n == Len(WriteOrder)
<1>0. pass \in [Syncers -> PassSet] /\ PassType(pass[s]) /\ pass[s] \in PassSet
  BY Typed DEF SyncType
<1>1. /\ n \in Nat /\ DOMAIN WriteOrder = 1..n
      /\ \A i, j \in DOMAIN WriteOrder : WriteOrder[i] = WriteOrder[j] => i = j
      /\ WriteOrder \in Seq(Files)
  BY OrdersOK
<1>2. /\ k \in 1..n /\ WriteOrder[k] = f /\ pass[s].pc \in {"write", "rename"}
      /\ DOMAIN pass[s].read = Files /\ DOMAIN pass[s].plan = Files
  BY <1>0, <1>1 DEF PassType, InWrite, Writing
<1>3. f \in Files
  BY <1>1, <1>2
<1>4. pass'[s] = [pass[s] EXCEPT !.pc = "write", !.k = k + 1]
  BY <1>0 DEF Advance
<1>5. /\ pass'[s].pc = "write" /\ pass'[s].k = k + 1
      /\ pass'[s].read = pass[s].read /\ pass'[s].plan = pass[s].plan
      /\ pass'[s].set = pass[s].set /\ pass'[s].drop = pass[s].drop
      /\ pass'[s] \in PassSet
  <2>1. k + 1 \in Nat
    BY <1>1, <1>2
  <2> HIDE DEF k
  <2> QED BY <1>0, <1>4, <2>1 DEF PassSet
<1> HIDE DEF k, n
<1>6. k + 1 \in 1..(n + 1) /\ (k + 1) - 1 = k
  BY <1>1, <1>2
<1>7. PassType(pass'[s])
  BY <1>2, <1>5, <1>6 DEF PassType, n
<1>8. \A i : i \in 1..k <=> i \in 1..(k - 1) \/ i = k
  BY <1>1, <1>2
<1>9. /\ \A g : Done(s, g) <=> \E i \in 1..(k - 1) : WriteOrder[i] = g
      /\ \A g : Done(s, g)' <=> \E i \in 1..k : WriteOrder[i] = g
  BY <1>2, <1>5, <1>6 DEF Done, InWrite, k
<1>10. ~Done(s, f)
  BY <1>1, <1>2, <1>9
<1>11. /\ Wrote(s) <=> \E i \in 1..(k - 1) : pass[s].read[WriteOrder[i]] # pass[s].plan[WriteOrder[i]]
       /\ Wrote(s)' <=> \E i \in 1..k : pass[s].read[WriteOrder[i]] # pass[s].plan[WriteOrder[i]]
  BY <1>5, <1>6 DEF Wrote, k
<1>12. /\ \A g : Done(s, g)' <=> Done(s, g) \/ g = f
       /\ Wrote(s)' <=> Wrote(s) \/ pass[s].read[f] # pass[s].plan[f]
  BY <1>2, <1>8, <1>9, <1>11
<1> QED
  BY <1>2, <1>3, <1>5, <1>7, <1>10, <1>12 DEF InWrite

\* The file, after its turn in a pass, holds what that pass planned for it, and
\* the other processes are told.
Turned(s, f) ==
  /\ pass' = [pass EXCEPT ![s] = Advance(s)]
  /\ file' = [file EXCEPT ![f] = pass[s].plan[f]]
  /\ stale' \in [Syncers -> SUBSET Files]
  /\ \A r \in Syncers : stale'[r] \subseteq DOMAIN pass[r].read
  /\ \A g \in Files : g # f /\ g \notin stale'[s] => g \notin stale[s]
  /\ \A r \in Syncers : r # s =>
       \A g \in DOMAIN pass[r].read : g \notin stale'[r] =>
         g \notin stale[r] /\ (g = f => file' = file)

\* Whoever turns it, a task that has not moved stays in every file it is in.
LEMMA StaysPut ==
  ASSUME SyncInv, NEW s \in Syncers, InWrite(s), NEW f \in Files, Turned(s, f),
         clobbered \subseteq clobbered', UNCHANGED <<deleted, moved, torn, overtaken>>,
         f \in stale[s] => IdsOf(file[f]) \subseteq clobbered' \cup IdsOf(pass[s].plan[f]),
         ~Done(s, f),
         NEW g \in Files, NEW id \in IdsOf(file[g]), Firm(id)', id \notin moved
  PROVE  id \in IdsOf(file'[g])
<1>0. file \in [Files -> Contents] /\ SyncType /\ DOMAIN pass[s].read = Files
  <2>1. SyncType
    BY DEF SyncInv
  <2>2. file \in [Files -> Contents] /\ PassType(pass[s])
    BY <2>1, Typed
  <2> QED BY <2>1, <2>2 DEF PassType, InWrite
<1>1. file'[f] = pass[s].plan[f] /\ \A h \in Files : h # f => file'[h] = file[h]
  BY <1>0 DEF Turned
<1>2. CASE g # f
  BY <1>1, <1>2
<1>3. CASE g = f /\ f \in stale[s]
  BY <1>1, <1>3 DEF Firm
<1>4. CASE g = f /\ f \notin stale[s]
  <2>1. file[f] = pass[s].read[f]
    BY <1>0, <1>4 DEF SyncInv, PassOK, GuardOK
  <2>2. Firm(id)
    BY DEF Firm
  <2>3. id \in IdsOf(pass[s].plan[f])
    BY <1>4, <2>1, <2>2 DEF SyncInv, PassOK, PlanOK
  <2> QED BY <1>1, <1>4, <2>3
<1> QED
  BY <1>2, <1>3, <1>4

\* A file has its turn: it holds, before or by this step, what was planned for it.
LEMMA WriteKeeps ==
  ASSUME SyncInv, NEW s \in Syncers, InWrite(s), NEW f, Writing(s, f), Turned(s, f),
         file[f] = pass[s].plan[f] \/ pass[s].read[f] # pass[s].plan[f],
         clobbered \subseteq clobbered', clobbered' \subseteq Nat,
         f \in stale[s] => IdsOf(file[f]) \subseteq clobbered' \cup IdsOf(pass[s].plan[f]),
         filed \subseteq filed', NoId \notin filed', filed' \subseteq filed \cup IdsOf(pass[s].plan[f]),
         UNCHANGED <<base, nextId, events, deleted, moved, torn, late, overtaken>>
  PROVE  SyncInv'
<1> DEFINE x == Advance(s)
           plan == pass[s].plan
<1>0. /\ file \in [Files -> Contents] /\ nextId \in Nat /\ SyncType /\ Alone
      /\ pass \in [Syncers -> PassSet] /\ pass' = [pass EXCEPT ![s] = x]
      /\ \A g \in DOMAIN plan : g \in Files /\ plan[g] \in Contents
  <2>1. SyncType /\ Alone
    BY DEF SyncInv
  <2> QED BY <2>1, Typed DEF SyncType, Turned
<1>1. /\ PassType(pass'[s]) /\ f \in Files /\ InWrite(s)' /\ pass'[s].pc = "write"
      /\ pass'[s].read = pass[s].read /\ pass'[s].plan = plan
      /\ pass'[s].set = pass[s].set /\ pass'[s].drop = pass[s].drop
      /\ DOMAIN pass[s].read = Files /\ DOMAIN plan = Files
      /\ ~Done(s, f)
      /\ \A g : Done(s, g)' <=> Done(s, g) \/ g = f
      /\ Wrote(s)' <=> Wrote(s) \/ pass[s].read[f] # plan[f]
  BY <1>0, AdvanceOK DEF Turned
<1>2. /\ pass'[s] = x /\ \A r \in Syncers : r # s => pass'[r] = pass[r]
      /\ \A r \in Syncers : r # s =>
              /\ InWrite(r)' <=> InWrite(r)
              /\ Wrote(r)' <=> Wrote(r)
              /\ \A g : Done(r, g)' <=> Done(r, g)
              /\ \A id : OnItsWay(r, id)' <=> OnItsWay(r, id)
  BY <1>0, Shifted
<1>3. /\ file'[f] = plan[f] /\ \A g \in Files : g # f => file'[g] = file[g]
      /\ file' \in [Files -> Contents]
  BY <1>0, <1>1 DEF Turned
<1> HIDE DEF x, plan
<1>4. \A id : Firm(id)' => Firm(id)
  BY FirmBefore
<1>5. ASSUME NEW g \in Files, NEW id \in IdsOf(file[g]), Firm(id)', id \notin moved
      PROVE  id \in IdsOf(file'[g])
  BY <1>1, <1>5, StaysPut DEF plan
<1>6. ~torn => \A r \in Syncers : r # s =>
        pass[r].pc = "idle" /\ DOMAIN pass[r].read = {} /\ ~InWrite(r)
  <2>1. pass[s].pc # "idle"
    BY DEF InWrite
  <2> QED BY <1>0, <2>1, OneAtWork
<1>7. SyncType'
  <2>1. filed' \subseteq Nat
    <3>1. IdsOf(plan[f]) \subseteq Nat
      BY <1>0, <1>1, IdsAre
    <3> QED BY <1>0, <3>1 DEF SyncType, plan
  <2>2. (deleted \cup moved \cup clobbered \cup filed \cup overtaken)' \subseteq Nat
    BY <1>0, <2>1 DEF SyncType
  <2>3. pass' \in [Syncers -> PassSet] /\ \A r \in Syncers : PassType(pass'[r])
    <3>1. pass'[s] \in PassSet
      BY <1>1 DEF PassType
    <3>2. \A r \in Syncers : PassType(pass[r])
      BY <1>0, Typed
    <3> QED BY <1>0, <1>1, <1>2, <3>1, <3>2
  <2>4. stale' \in [Syncers -> SUBSET Files] /\ \A r \in Syncers : stale'[r] \subseteq DOMAIN pass'[r].read
    BY <1>1, <1>2 DEF Turned
  <2> QED BY <1>0, <1>3, <2>2, <2>3, <2>4 DEF SyncType
<1>8. Fresh' /\ OneHome'
  <2>1. ASSUME NEW id, NEW p, At(id, p)' PROVE At(id, p)
    <3>1. \A g \in Files : g[2] = p /\ id \in IdsOf(file'[g]) => At(id, p)
      BY <1>1, <1>3 DEF At, plan
    <3>2. /\ x.read = pass[s].read /\ x.plan = pass[s].plan /\ x.set = pass[s].set
      BY <1>1, <1>2 DEF plan
    <3> QED BY <1>0, <2>1, <3>1, <3>2, AtShift DEF At
  <2> QED BY <1>0, <2>1, AtShrinks DEF SyncInv
<1>9. Alone'
  <2>1. \A r \in Syncers : pass'[r].pc # "idle" => pass[r].pc # "idle"
    BY <1>2 DEF InWrite
  <2> QED BY <1>0, <2>1 DEF Alone
<1>10. PassOK(s)'
  <2>1. ASSUME NEW g \in Files, ~Done(s, g)'
        PROVE  /\ g \notin stale'[s] => file'[g] = pass[s].read[g]
               /\ \A id \in IdsOf(pass[s].read[g]) : Firm(id)' => id \in IdsOf(file'[g])
    <3>1. g # f /\ ~Done(s, g)
      BY <1>1, <2>1
    <3>2. /\ g \notin stale[s] => file[g] = pass[s].read[g]
          /\ \A id \in IdsOf(pass[s].read[g]) : Firm(id) => id \in IdsOf(file[g])
      BY <1>1, <3>1 DEF SyncInv, PassOK, GuardOK
    <3> QED BY <1>3, <1>4, <3>1, <3>2 DEF Turned
  <2>2. ASSUME NEW g \in Files, Done(s, g)'
        PROVE  \A id \in IdsOf(plan[g]) : Firm(id)' => id \in IdsOf(file'[g])
    <3>1. CASE g = f
      BY <1>3, <3>1
    <3>2. CASE g # f
      <4>1. \A id \in IdsOf(plan[g]) : Firm(id) => id \in IdsOf(file[g])
        BY <1>1, <2>2, <3>2 DEF SyncInv, PassOK, GuardOK, plan
      <4> QED BY <1>3, <1>4, <3>2, <4>1
    <3> QED BY <3>1, <3>2
  <2>3. GuardOK(s)'
    BY <1>1, <2>1, <2>2 DEF GuardOK
  <2>4. RowsOK(s)' /\ InboxPlanned(s)'
    BY <1>1 DEF SyncInv, PassOK, RowsOK, InboxPlanned, plan
  <2>5. PlanOK(s)'
    BY <1>1, <1>4 DEF SyncInv, PassOK, PlanOK, plan
  <2> QED BY <2>3, <2>4, <2>5 DEF PassOK
<1>11. ASSUME NEW r \in Syncers, r # s PROVE PassOK(r)'
  <2>0. GuardOK(r) /\ RowsOK(r) /\ PlanOK(r) /\ InboxPlanned(r) /\ PassType(pass[r])
    BY <1>0, Typed DEF SyncInv, PassOK
  <2>1. ASSUME NEW g \in Files, NEW id \in IdsOf(file[g]), Firm(id)', pass[r].pc # "idle"
        PROVE  id \in IdsOf(file'[g])
    <3>1. id \notin moved
      BY <1>4, <1>6, <1>11, <2>1 DEF Firm
    <3> QED BY <1>5, <2>1, <3>1
  <2>2. \A g \in DOMAIN pass[r].read : g \in Files /\ pass[r].pc # "idle"
    BY <1>0, <2>0, Typed DEF PassType
  <2>3. ASSUME NEW g \in DOMAIN pass[r].read, ~Done(r, g)
        PROVE  /\ g \notin stale'[r] => file'[g] = pass[r].read[g]
               /\ \A id \in IdsOf(pass[r].read[g]) : Firm(id)' => id \in IdsOf(file'[g])
    <3>1. /\ g \notin stale[r] => file[g] = pass[r].read[g]
          /\ \A id \in IdsOf(pass[r].read[g]) : Firm(id) => id \in IdsOf(file[g])
      BY <2>0, <2>3 DEF GuardOK
    <3>2. g \notin stale'[r] => g \notin stale[r] /\ file'[g] = file[g]
      BY <1>3, <1>11, <2>2 DEF Turned
    <3>3. g \notin stale'[r] => file'[g] = pass[r].read[g]
      BY <3>1, <3>2
    <3>4. \A id \in IdsOf(pass[r].read[g]) : Firm(id)' => id \in IdsOf(file'[g])
      BY <1>4, <2>1, <2>2, <3>1
    <3> QED BY <3>3, <3>4
  <2>4. ASSUME NEW g \in Files, Done(r, g)
        PROVE  \A id \in IdsOf(pass[r].plan[g]) : Firm(id)' => id \in IdsOf(file'[g])
    <3>1. \A id \in IdsOf(pass[r].plan[g]) : Firm(id) => id \in IdsOf(file[g])
      BY <2>0, <2>4 DEF GuardOK
    <3>2. pass[r].pc # "idle"
      BY <2>4 DEF Done, InWrite
    <3> QED BY <1>4, <2>1, <3>1, <3>2
  <2>5. GuardOK(r)'
    BY <1>2, <1>11, <2>0, <2>3, <2>4 DEF GuardOK
  <2>6. RowsOK(r)' /\ InboxPlanned(r)'
    BY <1>2, <1>11, <2>0 DEF RowsOK, InboxPlanned
  <2>7. PlanOK(r)'
    BY <1>2, <1>4, <1>11, <2>0 DEF PlanOK
  <2> QED BY <2>5, <2>6, <2>7 DEF PassOK
<1>12. BaseOK'
  <2> SUFFICES ASSUME NEW id \in DOMAIN base, Firm(id)'
               PROVE  /\ id \notin moved => \A g \in Both(base[id].project) : Seen(id, g)'
                      /\ id \in moved /\ NobodyWrote' => SeenSomewhere(id)'
    BY DEF BaseOK
  <2>1. ASSUME NEW g \in Files, Seen(id, g), id \in IdsOf(file'[g]) PROVE Seen(id, g)'
    <3> SUFFICES ASSUME NEW r \in Syncers, ~InWrite(r)', g \in DOMAIN pass'[r].read
                 PROVE  id \in IdsOf(pass'[r].read[g]) \/ id \in late[r]
      BY <2>1 DEF Seen
    <3> QED BY <1>1, <1>2, <2>1 DEF Seen
  <2>2. CASE id \notin moved
    <3>1. Both(base[id].project) \subseteq Files
      BY <1>0, Typed, BothFiles
    <3>2. \A g \in Both(base[id].project) : Seen(id, g)
      BY <1>4, <2>2 DEF SyncInv, BaseOK
    <3>3. \A g \in Both(base[id].project) : id \in IdsOf(file'[g])
      BY <1>5, <2>2, <3>1, <3>2 DEF Seen
    <3> QED BY <2>1, <2>2, <3>1, <3>2, <3>3
  <2>3. CASE id \in moved /\ NobodyWrote'
    <3>1. ~Wrote(s)'
      BY <1>1, <2>3 DEF NobodyWrote
    <3>2. ~Wrote(s) /\ file' = file
      BY <1>0, <1>1, <3>1 DEF Turned, plan
    <3>3. NobodyWrote
      BY <1>2, <2>3, <3>2 DEF NobodyWrote
    <3>4. SeenSomewhere(id)
      BY <1>4, <2>3, <3>3 DEF SyncInv, BaseOK
    <3>5. \A g \in Files : Seen(id, g) => Seen(id, g)'
      BY <2>1, <3>2 DEF Seen
    <3>6. CanonFiles \subseteq Files /\ ProjectionFiles \subseteq Files
      BY DEF Files
    <3> QED BY <2>3, <3>4, <3>5, <3>6 DEF SeenSomewhere
  <2> QED BY <2>2, <2>3
<1>13. KeptOK'
  <2> SUFFICES ASSUME NEW id \in filed', Firm(id)', id \notin IdsOf(plan[f])
               PROVE  id \in Present' \/ (id \in moved /\ \E r \in Syncers : OnItsWay(r, id)')
    BY <1>1, <1>3 DEF KeptOK, Present
  <2>1. id \in filed /\ Firm(id)
    BY <1>4 DEF plan
  <2>2. id \in Present \/ (id \in moved /\ \E r \in Syncers : OnItsWay(r, id))
    BY <2>1 DEF SyncInv, KeptOK
  <2>3. CASE id \notin moved
    <3>1. PICK g \in Files : id \in IdsOf(file[g])
      BY <2>2, <2>3 DEF Present
    <3> QED BY <1>5, <2>3, <3>1 DEF Present
  <2>4. ASSUME id \in moved, NEW g \in Files, g # f, ~Done(s, g), id \in IdsOf(plan[g]), Wrote(s)'
        PROVE  OnItsWay(s, id)'
    BY <1>1, <2>4 DEF OnItsWay
  <2>5. CASE id \in moved /\ \E r \in Syncers : OnItsWay(r, id)
    <3>1. PICK r \in Syncers : OnItsWay(r, id)
      BY <2>5
    <3>2. r = s
      BY <1>6, <2>1, <2>5, <3>1 DEF Firm, OnItsWay
    <3>3. PICK g \in Files : ~Done(s, g) /\ id \in IdsOf(plan[g])
      BY <3>1, <3>2 DEF OnItsWay, plan
    <3>4. g # f /\ Wrote(s)'
      BY <1>1, <3>1, <3>2, <3>3 DEF OnItsWay
    <3> QED BY <2>4, <2>5, <3>3, <3>4
  <2>6. CASE id \in moved /\ \E g \in Files : g # f /\ id \in IdsOf(file[g])
    BY <1>3, <2>6 DEF Present
  <2>7. CASE id \in moved /\ id \in IdsOf(file[f])
    <3>1. file[f] # plan[f] /\ Wrote(s)' /\ f \notin stale[s]
      BY <1>1, <2>7 DEF Firm, plan
    <3>2. id \in IdsOf(pass[s].read[f])
      BY <1>1, <2>7, <3>1 DEF SyncInv, PassOK, GuardOK
    <3>3. PICK g \in Files : id \in IdsOf(plan[g])
      BY <1>1, <2>1, <3>2 DEF SyncInv, PassOK, PlanOK, plan
    <3>4. g # f
      BY <3>3
    <3>5. CASE Done(s, g)
      <4>1. id \in IdsOf(file[g])
        BY <2>1, <3>3, <3>5 DEF SyncInv, PassOK, GuardOK, plan
      <4> QED BY <1>3, <3>4, <4>1 DEF Present
    <3>6. CASE ~Done(s, g)
      BY <2>4, <2>7, <3>1, <3>3, <3>4, <3>6
    <3> QED BY <3>5, <3>6
  <2> QED BY <2>2, <2>3, <2>5, <2>6, <2>7 DEF Present
<1>14. \A r \in Syncers : PassOK(r)'
  BY <1>10, <1>11
<1> QED
  BY <1>7, <1>8, <1>9, <1>12, <1>13, <1>14 DEF SyncInv

\* A file that needs no write.
LEMMA SkipKeeps ==
  ASSUME SyncInv, NEW s \in Syncers, NEW f \in Files, Skip(s, f)
  PROVE  SyncInv'
<1>1. /\ pass[s].pc = "write" /\ Writing(s, f) /\ file[f] = pass[s].plan[f]
      /\ pass' = [pass EXCEPT ![s] = Advance(s)]
      /\ UNCHANGED <<file, base, stale, nextId, events, deleted, moved, clobbered, filed, torn,
                     late, overtaken>>
  BY DEF Skip, NeedsWrite, user
<1>2. file' = [file EXCEPT ![f] = pass[s].plan[f]]
  <2>1. file \in [Files -> Contents]
    BY Typed DEF SyncInv
  <2> QED BY <1>1, <2>1
<1>3. clobbered \subseteq Nat /\ NoId \notin filed
  BY DEF SyncInv, SyncType
<1>4. Turned(s, f)
  <2>1. stale \in [Syncers -> SUBSET Files] /\ \A r \in Syncers : stale[r] \subseteq DOMAIN pass[r].read
    BY DEF SyncInv, SyncType
  <2> QED BY <1>1, <1>2, <2>1 DEF Turned
<1> QED
  BY <1>1, <1>3, <1>4, WriteKeeps DEF InWrite

\* A file that is replaced.
LEMMA RenameKeeps ==
  ASSUME SyncInv, NEW s \in Syncers, NEW f \in Files, Rename(s, f)
  PROVE  SyncInv'
<1>1. /\ pass[s].pc = "rename" /\ Writing(s, f) /\ pass' = [pass EXCEPT ![s] = Advance(s)]
      /\ file' = [file EXCEPT ![f] = pass[s].plan[f]]
      /\ filed' = filed \cup (IdsOf(pass[s].plan[f]) \ {NoId})
      /\ clobbered' = IF f \in stale[s] THEN clobbered \cup IdsOf(file[f]) ELSE clobbered
      /\ stale' = Outdated(f, {s})
      /\ UNCHANGED <<base, nextId, events, deleted, moved, torn, late, overtaken>>
  BY DEF Rename, user
<1>2. pass[s].read[f] # pass[s].plan[f]
  BY <1>1 DEF SyncInv, PassOK, GuardOK, Writing
<1>3. clobbered' \subseteq Nat /\ NoId \notin filed'
  <2>1. file[f] \in Contents /\ clobbered \subseteq Nat /\ NoId \notin filed
    BY DEF SyncInv, SyncType
  <2>2. IdsOf(file[f]) \subseteq Nat
    BY <2>1, IdsAre
  <2> QED BY <1>1, <2>1, <2>2
<1>4. Turned(s, f)
  <2>1. stale \in [Syncers -> SUBSET Files] /\ \A r \in Syncers : stale[r] \subseteq DOMAIN pass[r].read
    BY DEF SyncInv, SyncType
  <2>2. /\ stale'[s] = stale[s] \ {f}
        /\ \A r \in Syncers : r # s =>
             stale'[r] = IF f \in DOMAIN pass[r].read THEN stale[r] \cup {f} ELSE stale[r]
        /\ stale' \in [Syncers -> SUBSET Files]
    BY <1>1, <2>1 DEF Outdated
  <2>3. \A r \in Syncers : stale'[r] \subseteq DOMAIN pass[r].read
    BY <2>1, <2>2
  <2>4. \A r \in Syncers : r # s =>
          \A g \in DOMAIN pass[r].read : g \notin stale'[r] => g \notin stale[r] /\ g # f
    BY <2>2
  <2> QED BY <1>1, <2>2, <2>3, <2>4 DEF Turned
<1> QED
  BY <1>1, <1>2, <1>3, <1>4, WriteKeeps DEF InWrite

\* The guard's first half changes only where the pass is.
LEMMA CheckKeeps ==
  ASSUME SyncInv, NEW s \in Syncers, NEW f \in Files, Check(s, f)
  PROVE  SyncInv'
<1> DEFINE x == [pass[s] EXCEPT !.pc = "rename"]
<1>0. SyncType /\ pass \in [Syncers -> PassSet] /\ PassType(pass[s]) /\ pass[s] \in PassSet
  <2>1. SyncType
    BY DEF SyncInv
  <2> QED BY <2>1, Typed DEF SyncType
<1>1. /\ pass[s].pc = "write" /\ Writing(s, f) /\ file[f] # pass[s].plan[f] /\ f \notin stale[s]
      /\ pass' = [pass EXCEPT ![s] = x]
      /\ UNCHANGED <<file, base, stale, nextId, events, deleted, moved, clobbered, filed, torn,
                     late, overtaken>>
  BY DEF Check, NeedsWrite, user
<1>2. /\ x.pc = "rename" /\ x.k = pass[s].k /\ x.attempt = pass[s].attempt
      /\ x.read = pass[s].read /\ x.plan = pass[s].plan /\ x.set = pass[s].set
      /\ x.drop = pass[s].drop /\ x \in PassSet
  BY <1>0 DEF PassSet
<1> HIDE DEF x
<1>3. /\ pass'[s] = x /\ \A r \in Syncers : r # s => pass'[r] = pass[r]
      /\ \A r \in Syncers : r # s =>
              /\ InWrite(r)' <=> InWrite(r)
              /\ Wrote(r)' <=> Wrote(r)
              /\ \A id : OnItsWay(r, id)' <=> OnItsWay(r, id)
  BY <1>0, <1>1, Shifted
<1>4. /\ pass[s].k \in DOMAIN WriteOrder /\ WriteOrder[pass[s].k] = f
      /\ pass[s].k \in 1..(Len(WriteOrder) + 1)
      /\ DOMAIN pass[s].read = Files /\ DOMAIN pass[s].plan = Files
  <2>1. /\ pass[s].k \in 1..(Len(WriteOrder) + 1)
        /\ DOMAIN pass[s].read = Files /\ DOMAIN pass[s].plan = Files
    BY <1>0, <1>1 DEF PassType
  <2>2. pass[s].k <= Len(WriteOrder) /\ WriteOrder[pass[s].k] = f
    BY <1>1 DEF Writing
  <2>3. DOMAIN WriteOrder = 1..Len(WriteOrder) /\ Len(WriteOrder) \in Nat
    BY OrdersOK
  <2> QED BY <2>1, <2>2, <2>3
<1>5. PassType(x)
  BY <1>2, <1>4 DEF PassType
<1>6. SyncType'
  <2>1. pass' \in [Syncers -> PassSet] /\ \A r \in Syncers : PassType(pass'[r])
    <3>1. \A r \in Syncers : PassType(pass[r])
      BY <1>0, Typed
    <3> QED BY <1>0, <1>1, <1>2, <1>3, <1>5, <3>1
  <2>2. \A r \in Syncers : stale'[r] \subseteq DOMAIN pass'[r].read
    BY <1>0, <1>1, <1>2, <1>3 DEF SyncType
  <2> QED BY <1>0, <1>1, <2>1, <2>2 DEF SyncType
<1>7. /\ InWrite(s) /\ InWrite(s)' /\ (Wrote(s)' <=> Wrote(s)) /\ \A g : Done(s, g)' <=> Done(s, g)
      /\ \A id : OnItsWay(s, id)' <=> OnItsWay(s, id)
  <2>1. /\ InWrite(s) /\ InWrite(s)' /\ (Wrote(s)' <=> Wrote(s)) /\ \A g : Done(s, g)' <=> Done(s, g)
    BY <1>1, <1>2, <1>3 DEF InWrite, Wrote, Done
  <2> QED BY <1>2, <1>3, <2>1 DEF OnItsWay
<1>8. Fresh' /\ OneHome'
  <2>1. ASSUME NEW id, NEW p, At(id, p)' PROVE At(id, p)
    BY <1>0, <1>1, <1>2, <2>1, AtShift DEF At
  <2>2. nextId \in Nat
    BY <1>0, Typed
  <2> QED BY <1>1, <2>1, <2>2, AtShrinks DEF SyncInv
<1>9. Alone'
  <2>1. \A r \in Syncers : pass'[r].pc # "idle" => pass[r].pc # "idle"
    BY <1>1, <1>3
  <2> QED BY <1>1, <2>1 DEF SyncInv, Alone
<1>10. \A id : Firm(id)' <=> Firm(id)
  BY <1>1 DEF Firm
<1>11. PassOK(s)'
  <2>0. GuardOK(s) /\ RowsOK(s) /\ PlanOK(s) /\ InboxPlanned(s)
    BY DEF SyncInv, PassOK
  <2>1. ~Done(s, f)
    <3>1. \A i \in 1..(pass[s].k - 1) : i \in DOMAIN WriteOrder /\ i # pass[s].k
      <4>1. DOMAIN WriteOrder = 1..Len(WriteOrder) /\ Len(WriteOrder) \in Nat
        BY OrdersOK
      <4> QED BY <1>4, <4>1
    <3> QED BY <1>4, <3>1, OrdersOK DEF Done
  <2>2. file[f] = pass[s].read[f]
    BY <1>1, <1>4, <2>0, <2>1 DEF GuardOK
  <2>3. x.read[WriteOrder[x.k]] # x.plan[WriteOrder[x.k]]
    BY <1>1, <1>2, <1>4, <2>2
  <2>4. GuardOK(s)'
    <3>1. /\ \A g \in DOMAIN x.read : ~Done(s, g) =>
               /\ g \notin stale[s] => file[g] = x.read[g]
               /\ \A id \in IdsOf(x.read[g]) : Firm(id) => id \in IdsOf(file[g])
          /\ \A g \in Files : Done(s, g) =>
               \A id \in IdsOf(x.plan[g]) : Firm(id) => id \in IdsOf(file[g])
      BY <1>2, <2>0 DEF GuardOK
    <3> QED BY <1>1, <1>3, <1>7, <1>10, <2>3, <3>1 DEF GuardOK
  <2>5. RowsOK(s)' /\ InboxPlanned(s)'
    BY <1>1, <1>2, <1>3, <1>7, <2>0 DEF RowsOK, InboxPlanned
  <2>6. PlanOK(s)'
    BY <1>1, <1>2, <1>3, <1>7, <1>10, <2>0 DEF PlanOK
  <2> QED BY <2>4, <2>5, <2>6 DEF PassOK
<1>12. \A r \in Syncers : PassOK(r)'
  BY <1>1, <1>10, <1>11, OthersKept
<1>13. BaseOK'
  <2>1. ASSUME NEW id, NEW g, Seen(id, g) PROVE Seen(id, g)'
    BY <1>1, <1>3, <1>7, <2>1 DEF Seen
  <2>2. NobodyWrote' => NobodyWrote
    BY <1>3, <1>7 DEF NobodyWrote
  <2>3. \A id : SeenSomewhere(id) => SeenSomewhere(id)'
    BY <2>1 DEF SeenSomewhere
  <2> QED BY <1>1, <1>10, <2>1, <2>2, <2>3 DEF SyncInv, BaseOK
<1>14. KeptOK'
  <2>1. \A r \in Syncers : \A id : OnItsWay(r, id)' <=> OnItsWay(r, id)
    BY <1>3, <1>7
  <2>2. Present' = Present
    BY <1>1 DEF Present
  <2> QED BY <1>1, <1>10, <2>1, <2>2 DEF SyncInv, KeptOK
<1> QED
  BY <1>6, <1>8, <1>9, <1>12, <1>13, <1>14 DEF SyncInv

\* All files are written: the rows have the lines they stand for.
LEMMA CommitKeeps ==
  ASSUME SyncInv, NEW s \in Syncers, Commit(s)
  PROVE  SyncInv'
<1> DEFINE set == pass[s].set
           drop == pass[s].drop
           plan == pass[s].plan
<1>0. /\ SyncType /\ Alone /\ nextId \in Nat
      /\ pass \in [Syncers -> PassSet] /\ PassType(pass[s]) /\ pass[s] \in PassSet
  <2>1. SyncType /\ Alone
    BY DEF SyncInv
  <2> QED BY <2>1, Typed DEF SyncType
<1>1. /\ pass[s].pc = "write" /\ pass[s].k > Len(WriteOrder) /\ base' = Committed(set, drop)
      /\ pass' = [pass EXCEPT ![s] = Idle] /\ stale' = [stale EXCEPT ![s] = {}]
      /\ late' = [r \in Syncers |-> IF pass[r].pc \in {"gather", "decide"}
                                      THEN late[r] \cup (DOMAIN set \ DOMAIN base) ELSE late[r]]
      /\ UNCHANGED <<file, nextId, events, deleted, moved, clobbered, filed, torn, overtaken>>
  BY DEF Commit, user
<1>2. InWrite(s)
  BY <1>1 DEF InWrite
<1>3. \A g \in Files : Done(s, g)
  <2> TAKE g \in Files
  <2>1. PICK i \in DOMAIN WriteOrder : WriteOrder[i] = g
    BY OrdersOK
  <2>2. DOMAIN WriteOrder = 1..Len(WriteOrder) /\ Len(WriteOrder) \in Nat /\ pass[s].k \in Nat
    BY <1>0, OrdersOK DEF PassSet
  <2>3. i \in 1..(pass[s].k - 1)
    BY <1>1, <2>1, <2>2
  <2> QED BY <1>2, <2>1, <2>3 DEF Done
<1>4. /\ PassType(Idle) /\ Idle \in PassSet /\ Idle.pc = "idle"
      /\ Idle.read = <<>> /\ Idle.plan = <<>> /\ Idle.set = <<>>
  <2>1. Idle \in Fresher /\ Idle.pc = "idle"
    BY DEF Fresher, Idle
  <2> QED BY <2>1, RestingPass
<1>5. /\ pass'[s] = Idle /\ \A r \in Syncers : r # s => pass'[r] = pass[r]
      /\ \A r \in Syncers : r # s =>
              /\ InWrite(r)' <=> InWrite(r)
              /\ Wrote(r)' <=> Wrote(r)
              /\ \A f : Done(r, f)' <=> Done(r, f)
              /\ \A id : OnItsWay(r, id)' <=> OnItsWay(r, id)
  BY <1>0, <1>1, Shifted
<1>6. ~InWrite(s)' /\ \A f : ~Done(s, f)'
  BY <1>4, <1>5 DEF InWrite, Done
<1>7. /\ DOMAIN base' = (DOMAIN base \cup DOMAIN set) \ drop
      /\ \A id \in DOMAIN base' : base'[id] = IF id \in DOMAIN set THEN set[id] ELSE base[id]
      /\ base' \in SyncRows
  <2> DEFINE D == (DOMAIN base \cup DOMAIN set) \ drop
  <2>1. base' = [id \in D |-> IF id \in DOMAIN set THEN set[id] ELSE base[id]]
    BY <1>1 DEF Committed
  <2>2. D \in SUBSET Nat
    BY <1>0, Typed
  <2>3. \A id \in D : (IF id \in DOMAIN set THEN set[id] ELSE base[id])
                         \in [line : TaskLines, project : Synced]
    BY <1>0, Typed
  <2> HIDE DEF D, set
  <2>4. base' \in [D -> [line : TaskLines, project : Synced]]
    BY <2>1, <2>3
  <2> QED BY <2>1, <2>2, <2>4 DEF SyncRows, D
<1>8. /\ stale' \in [Syncers -> SUBSET Files] /\ stale'[s] = {}
      /\ \A r \in Syncers : r # s => stale'[r] = stale[r]
      /\ late' \in [Syncers -> SUBSET Nat] /\ \A r \in Syncers : late[r] \subseteq late'[r]
  <2>1. DOMAIN set \subseteq Nat
    BY <1>0, Typed
  <2> HIDE DEF set
  <2> QED BY <1>0, <1>1, <2>1 DEF SyncType
<1> HIDE DEF set, drop, plan
<1>9. \A id : Firm(id)' <=> Firm(id)
  BY <1>1 DEF Firm
<1>10. SyncType'
  <2>1. pass' \in [Syncers -> PassSet] /\ \A r \in Syncers : PassType(pass'[r])
    <3>1. \A r \in Syncers : PassType(pass[r])
      BY <1>0, Typed
    <3> QED BY <1>0, <1>1, <1>4, <1>5, <3>1
  <2>2. \A r \in Syncers : stale'[r] \subseteq DOMAIN pass'[r].read
    BY <1>0, <1>5, <1>8 DEF SyncType
  <2> QED BY <1>0, <1>1, <1>7, <1>8, <2>1, <2>2 DEF SyncType
<1>11. Fresh' /\ OneHome'
  <2>1. ASSUME NEW id, NEW p, At(id, p)' PROVE At(id, p)
    <3>1. id \in DOMAIN base' /\ base'[id].project = p => At(id, p)
      BY <1>7 DEF At, set
    <3>2. DOMAIN Idle.read = {} /\ DOMAIN Idle.plan = {} /\ DOMAIN Idle.set = {}
      BY <1>4
    <3> QED BY <1>0, <1>1, <2>1, <3>1, <3>2, AtShift DEF At
  <2> QED BY <1>0, <1>1, <2>1, AtShrinks DEF SyncInv
<1>12. Alone'
  <2>1. \A r \in Syncers : pass'[r].pc # "idle" => pass[r].pc # "idle"
    BY <1>1, <1>4, <1>5
  <2> QED BY <1>0, <1>1, <2>1 DEF Alone
<1>13. ~torn => \A r \in Syncers : r # s =>
         pass[r].pc = "idle" /\ DOMAIN pass[r].read = {} /\ ~InWrite(r)
  <2>1. pass[s].pc # "idle"
    BY <1>1
  <2> QED BY <1>0, <2>1, OneAtWork
<1>14. ASSUME NEW r \in Syncers PROVE PassOK(r)'
  <2>1. CASE r = s
    <3>1. DOMAIN pass'[s].read = {} /\ pass'[s].pc # "rename"
      BY <1>4, <1>5
    <3> QED BY <1>6, <2>1, <3>1 DEF PassOK, GuardOK, RowsOK, PlanOK, InboxPlanned
  <2>2. CASE r # s
    <3>1. GuardOK(r) /\ RowsOK(r) /\ PlanOK(r) /\ InboxPlanned(r)
      BY DEF SyncInv, PassOK
    <3>2. GuardOK(r)'
      BY <1>1, <1>5, <1>8, <1>9, <2>2, <3>1 DEF GuardOK
    <3>3. RowsOK(r)'
      BY <1>1, <1>5, <1>13, <2>2, <3>1 DEF RowsOK
    <3>4. PlanOK(r)' /\ InboxPlanned(r)'
      BY <1>1, <1>5, <1>9, <2>2, <3>1 DEF PlanOK, InboxPlanned
    <3> QED BY <3>2, <3>3, <3>4 DEF PassOK
  <2> QED BY <2>1, <2>2
<1>15. BaseOK'
  <2> SUFFICES ASSUME NEW id \in DOMAIN base', Firm(id)
               PROVE  /\ id \notin moved => \A g \in Both(base'[id].project) : Seen(id, g)'
                      /\ id \in moved => SeenSomewhere(id)'
    BY <1>1, <1>9 DEF BaseOK
  <2> DEFINE h == base'[id].project
  <2>1. h \in Synced /\ id \in Nat
    <3>1. PICK S \in SUBSET Nat : base' \in [S -> [line : TaskLines, project : Synced]]
      BY <1>7 DEF SyncRows
    <3>2. id \in S /\ base'[id] \in [line : TaskLines, project : Synced]
      BY <3>1
    <3> QED BY <3>1, <3>2
  <2>2. /\ Canon(h) \in CanonFiles /\ Projection(h) \in ProjectionFiles
        /\ Canon(h) \in Both(h) /\ Projection(h) \in Both(h) /\ Both(h) \subseteq Files
    BY <2>1, BothFiles
  <2> HIDE DEF h
  <2>3. ASSUME NEW g \in Files, Seen(id, g) PROVE Seen(id, g)'
    <3> SUFFICES ASSUME NEW r \in Syncers, ~InWrite(r)', g \in DOMAIN pass'[r].read
                 PROVE  id \in IdsOf(pass'[r].read[g]) \/ id \in late'[r]
      BY <1>1, <2>3 DEF Seen
    <3>1. r # s
      BY <1>4, <1>5
    <3> QED BY <1>5, <1>8, <2>3, <3>1 DEF Seen
  <2>4. ASSUME NEW g \in Both(h), id \in IdsOf(plan[g]),
               id \in DOMAIN base /\ id \notin moved => Seen(id, g),
               id \notin DOMAIN base => id \in DOMAIN set
        PROVE  Seen(id, g)'
    <3>1. id \in IdsOf(file[g])
      BY <1>3, <2>2, <2>4 DEF SyncInv, PassOK, GuardOK, plan
    <3> SUFFICES ASSUME NEW r \in Syncers, ~InWrite(r)', g \in DOMAIN pass'[r].read
                 PROVE  id \in IdsOf(pass'[r].read[g]) \/ id \in late'[r]
      BY <1>1, <3>1 DEF Seen
    <3>2. r # s
      BY <1>4, <1>5
    <3>3. id \notin moved
      BY <1>5, <1>13, <3>2 DEF Firm
    <3>4. CASE id \in DOMAIN base
      BY <1>5, <1>8, <2>4, <3>2, <3>3, <3>4 DEF Seen
    <3>5. CASE id \notin DOMAIN base
      <4>1. PassType(pass[r]) /\ pass[r] \in PassSet /\ pass'[r] = pass[r]
        BY <1>0, <1>5, <3>2, Typed DEF SyncType
      <4>2. pass[r].pc # "idle"
        BY <4>1 DEF PassType
      <4>3. pass[r].pc \in {"gather", "decide"}
        BY <4>1, <4>2 DEF PassSet, InWrite
      <4> QED BY <1>1, <2>4, <3>5, <4>3
    <3> QED BY <3>4, <3>5
  <2>5. CASE id \in DOMAIN set
    <3>1. base'[id] = set[id]
      BY <1>7, <2>5
    <3>2. \A g \in Both(h) : id \in IdsOf(plan[g])
      BY <1>2, <2>5, <3>1 DEF SyncInv, PassOK, RowsOK, set, plan, h
    <3>3. ASSUME id \in DOMAIN base, id \notin moved PROVE base[id].project = h
      <4>1. /\ At(id, h) /\ At(id, base[id].project) /\ id \in Nat \ (moved \cup {NoId})
            /\ h \in Projects /\ base[id].project \in Projects
        <5>1. base[id].project \in Synced
          BY <1>0, <3>3, Typed
        <5> QED BY <2>1, <2>5, <3>1, <3>3, <5>1 DEF At, set, h, Firm, Projects
      <4> QED BY <4>1 DEF SyncInv, OneHome
    <3>4. \A g \in Both(h) : id \in DOMAIN base /\ id \notin moved => Seen(id, g)
      BY <3>3 DEF SyncInv, BaseOK
    <3>5. \A g \in Both(h) : Seen(id, g)'
      BY <2>4, <2>5, <3>2, <3>4
    <3> QED BY <2>2, <3>5 DEF SeenSomewhere, h
  <2>6. CASE id \notin DOMAIN set
    <3>1. id \in DOMAIN base /\ id \notin drop /\ base'[id] = base[id]
      BY <1>7, <2>6
    <3>2. id \notin moved => \A g \in Both(h) : Seen(id, g)'
      BY <2>2, <2>3, <3>1 DEF SyncInv, BaseOK, h
    <3>3. ASSUME id \in moved PROVE \A g \in Both(h) : Seen(id, g)'
      <4>1. ~torn
        BY <3>3 DEF Firm
      <4>2. \A g \in Both(h) : id \in IdsOf(plan[g])
        BY <1>2, <2>6, <3>1, <4>1 DEF SyncInv, PassOK, RowsOK, set, drop, plan, h
      <4> QED BY <2>4, <3>1, <3>3, <4>2
    <3> QED BY <2>2, <3>2, <3>3 DEF SeenSomewhere, h
  <2> QED BY <2>5, <2>6
<1>16. KeptOK'
  <2> SUFFICES ASSUME NEW id \in filed, Firm(id), id \notin Present
               PROVE  id \in moved /\ \E r \in Syncers : OnItsWay(r, id)'
    BY <1>1, <1>9 DEF KeptOK, Present
  <2>1. id \in moved /\ \E r \in Syncers : OnItsWay(r, id)
    BY DEF SyncInv, KeptOK
  <2>2. ~OnItsWay(s, id)
    BY <1>3 DEF OnItsWay
  <2> QED BY <1>5, <2>1, <2>2
<1> QED
  BY <1>10, <1>11, <1>12, <1>14, <1>15, <1>16 DEF SyncInv

\* A task filed for an id stays under a project the pass read it under, unless
\* the id is new or its line was misfiled.
LEMMA FiledAtHome ==
  ASSUME NEW read, NEW canon, NEW proj, NEW verdicts, Decision(read, canon, proj, verdicts),
         NEW id \in DOMAIN verdicts, id \notin Misfiled(read),
         NEW k \in DOMAIN verdicts[id].tasks
  PROVE  \/ \E g \in Files : g[2] = verdicts[id].tasks[k].project /\ id \in IdsOf(read[g])
         \/ /\ id >= nextId /\ id \in DOMAIN proj
            /\ verdicts[id].tasks[k].project = proj[id].project
<1> DEFINE p == verdicts[id].tasks[k].project
<1>1. read \in [Files -> Contents] /\ nextId \in Nat /\ Cardinality(Idless(read)) \in Nat
  BY DecisionTypes
<1>2. canon \in CanonMaps(read) /\ proj = ProjMap(read)
  BY DEF Decision
<1>3. \/ id \in DOMAIN canon /\ p = canon[id].project
      \/ id \in DOMAIN proj /\ p = proj[id].project
  BY VerdictOK
<1> HIDE DEF p
<1>4. CASE id \in DOMAIN canon /\ p = canon[id].project
  <2>1. PICK f \in CanonFiles : \E i \in DOMAIN read[f] :
          read[f][i].id = id /\ canon[id] = Parsed(read[f][i])
    BY <1>1, <1>2, <1>4, CanonMapOK
  <2>2. PICK i \in DOMAIN read[f] : read[f][i].id = id /\ canon[id] = Parsed(read[f][i])
    BY <2>1
  <2>3. PICK q \in Projects : f = Canon(q)
    BY DEF CanonFiles
  <2>4. f \in Files /\ f[2] = q
    BY <2>3, FileProject
  <2>5. Parsed(read[f][i]).project = q
    <3>1. read[f][i] \in ToSet(read[Canon(q)])
      BY <2>2, <2>3 DEF ToSet
    <3> QED BY <2>2, <2>3, <3>1 DEF Misfiled
  <2>6. id \in IdsOf(read[f])
    BY <2>2 DEF IdsOf
  <2> QED BY <1>4, <2>2, <2>4, <2>5, <2>6 DEF p
<1>5. CASE id \in DOMAIN proj /\ p = proj[id].project
  <2>1. \E f \in ProjectionFiles : \E j \in DOMAIN read[f] :
          /\ proj[id] = ForceProject([read[f][j] EXCEPT !.id = id], f[2])
          /\ \/ read[f][j].id = id
             \/ id \in nextId..(nextId + Cardinality(Idless(read)) - 1)
    BY <1>1, <1>2, <1>5, ProjMapOK
  <2>2. PICK f \in ProjectionFiles : \E j \in DOMAIN read[f] :
          /\ proj[id] = ForceProject([read[f][j] EXCEPT !.id = id], f[2])
          /\ \/ read[f][j].id = id
             \/ id \in nextId..(nextId + Cardinality(Idless(read)) - 1)
    BY <2>1
  <2>3. PICK j \in DOMAIN read[f] :
          /\ proj[id] = ForceProject([read[f][j] EXCEPT !.id = id], f[2])
          /\ \/ read[f][j].id = id
             \/ id \in nextId..(nextId + Cardinality(Idless(read)) - 1)
    BY <2>2
  <2>4. f \in Files /\ p = f[2]
    BY <1>5, <2>3 DEF Files, ForceProject, Task
  <2>5. CASE read[f][j].id = id
    <3>1. id \in IdsOf(read[f])
      BY <2>5 DEF IdsOf
    <3> QED BY <2>4, <3>1 DEF p
  <2>6. CASE id \in nextId..(nextId + Cardinality(Idless(read)) - 1)
    BY <1>1, <1>5, <2>6 DEF p
  <2> QED BY <2>3, <2>5, <2>6
<1> QED
  BY <1>3, <1>4, <1>5

\* What a pass sets and drops in the base: a row it sets is for the project of
\* a task it files, and so is one it lets stand.
LEMMA UpsertsOK ==
  ASSUME NEW read, NEW canon, NEW proj, NEW verdicts, Decision(read, canon, proj, verdicts)
  PROVE  /\ Upserts(verdicts) \in SyncRows /\ Deletes(verdicts) \in SUBSET Nat
         /\ \A id \in DOMAIN Upserts(verdicts) :
              /\ id \in DOMAIN verdicts /\ 1 \in DOMAIN verdicts[id].tasks
              /\ verdicts[id].tasks[1].project = Upserts(verdicts)[id].project
         /\ \A id \in DOMAIN base \ (DOMAIN Upserts(verdicts) \cup Deletes(verdicts)) :
              /\ id \in DOMAIN verdicts /\ 1 \in DOMAIN verdicts[id].tasks
              /\ verdicts[id].tasks[1].project = base[id].project
<1> DEFINE rows == Upserts(verdicts)
           set == {id \in DOMAIN verdicts : verdicts[id].change = "set"}
           drop == Deletes(verdicts)
<1>1. /\ DOMAIN base \subseteq Nat
      /\ \A id \in DOMAIN base : base[id].project \in Synced /\ base[id].line \in TaskLines
      /\ DOMAIN verdicts = DOMAIN canon \cup DOMAIN proj \cup DOMAIN base
      /\ \A id \in DOMAIN verdicts : verdicts[id] = Decide(canon, proj, base, id)
      /\ read \in [Files -> Contents] /\ nextId \in Nat
  <2>1. DOMAIN verdicts = DOMAIN canon \cup DOMAIN proj \cup DOMAIN base
    BY DEF Decision, Decisions
  <2>2. \A id \in DOMAIN verdicts : verdicts[id] = Decide(canon, proj, base, id)
    BY DEF Decision, Decisions
  <2>3. read \in [Files -> Contents] /\ SyncType
    BY DEF Decision
  <2> QED BY <2>1, <2>2, <2>3, Typed
<1>2. canon \in CanonMaps(read) /\ proj = ProjMap(read)
  BY DEF Decision
<1>3. rows = [id \in set |-> verdicts[id].tasks[1]]
  BY DEF Upserts
<1>4. ASSUME NEW id \in set
      PROVE  /\ id \in DOMAIN verdicts /\ 1 \in DOMAIN verdicts[id].tasks
             /\ verdicts[id].tasks[1] \in [line : TaskLines, project : Synced]
  <2>1. id \in DOMAIN verdicts /\ verdicts[id].change = "set"
    OBVIOUS
  <2>2. \/ /\ id \in DOMAIN canon /\ canon[id].project \in Synced
           /\ verdicts[id] = Verdict(<<canon[id]>>, "set")
        \/ id \in DOMAIN proj /\ verdicts[id] = Verdict(<<proj[id]>>, "set")
    BY <1>1, <2>1, DecideCases DEF Verdict
  <2>3. CASE /\ id \in DOMAIN canon /\ canon[id].project \in Synced
             /\ verdicts[id] = Verdict(<<canon[id]>>, "set")
    <3>1. canon[id] = [line |-> canon[id].line, project |-> canon[id].project]
      <4>1. PICK f \in CanonFiles : \E i \in DOMAIN read[f] :
              read[f][i].id = id /\ canon[id] = Parsed(read[f][i])
        BY <1>1, <1>2, <2>3, CanonMapOK
      <4> QED BY <4>1 DEF Parsed, Task
    <3>2. canon[id].line \in TaskLines
      BY <1>1, <1>2, <2>3, CanonTaskOK
    <3>3. canon[id] \in [line : TaskLines, project : Synced]
      BY <2>3, <3>1, <3>2
    <3>4. verdicts[id].tasks = <<canon[id]>>
      BY <2>3 DEF Verdict
    <3> QED BY <2>1, <3>3, <3>4
  <2>4. CASE id \in DOMAIN proj /\ verdicts[id] = Verdict(<<proj[id]>>, "set")
    <3>1. proj[id] = [line |-> proj[id].line, project |-> proj[id].project]
      <4>1. PICK f \in ProjectionFiles : \E j \in DOMAIN read[f] :
              proj[id] = ForceProject([read[f][j] EXCEPT !.id = id], f[2])
        BY <1>1, <1>2, <2>4, ProjMapOK
      <4> QED BY <4>1 DEF ForceProject, Task
    <3>2. proj[id].line \in TaskLines /\ proj[id].project \in Synced
      BY <1>1, <1>2, <2>4, ProjTaskOK
    <3>3. proj[id] \in [line : TaskLines, project : Synced]
      BY <3>1, <3>2
    <3>4. verdicts[id].tasks = <<proj[id]>>
      BY <2>4 DEF Verdict
    <3> QED BY <2>1, <3>3, <3>4
  <2> QED BY <2>2, <2>3, <2>4
<1>5. ASSUME NEW id \in DOMAIN base, id \notin set, id \notin drop
      PROVE  /\ id \in DOMAIN verdicts /\ 1 \in DOMAIN verdicts[id].tasks
             /\ verdicts[id].tasks[1].project = base[id].project
  <2>1. id \in DOMAIN verdicts /\ verdicts[id].change # "set" /\ verdicts[id].change # "drop"
    BY <1>1, <1>5 DEF Deletes
  <2>2. /\ canon[id].project = base[id].project
        /\ verdicts[id].tasks = <<canon[id]>> \/ verdicts[id].tasks = <<canon[id], Tagged(proj[id])>>
    BY <1>1, <2>1, DecideCases DEF Verdict
  <2> QED BY <2>1, <2>2
<1>6. \A id \in DOMAIN verdicts : id \in Nat
  BY VerdictIds
<1>7. drop \in SUBSET Nat
  BY <1>6 DEF Deletes
<1>8. \A id \in DOMAIN base \ (set \cup drop) :
        /\ id \in DOMAIN verdicts /\ 1 \in DOMAIN verdicts[id].tasks
        /\ verdicts[id].tasks[1].project = base[id].project
  <2> HIDE DEF set, drop
  <2> QED BY <1>5
<1>9. \A id \in set : id \in Nat
  BY <1>6
<1> HIDE DEF set, drop, rows
<1>10. rows \in SyncRows /\ DOMAIN rows = set
  <2>1. rows \in [set -> [line : TaskLines, project : Synced]]
    BY <1>3, <1>4
  <2>2. set \in SUBSET Nat
    BY <1>9
  <2> QED BY <2>1, <2>2 DEF SyncRows
<1>11. \A id \in DOMAIN rows :
         /\ id \in DOMAIN verdicts /\ 1 \in DOMAIN verdicts[id].tasks
         /\ verdicts[id].tasks[1].project = rows[id].project
  BY <1>3, <1>4, <1>10
<1> QED
  BY <1>7, <1>8, <1>10, <1>11 DEF rows, drop

\* A line of the inbox whose id no other canon line has is filed as it is.
LEMMA InboxFiled ==
  ASSUME NEW read, NEW canon, NEW proj, NEW verdicts, Decision(read, canon, proj, verdicts),
         NEW i \in DOMAIN read[Canon(Inbox)],
         read[Canon(Inbox)][i].tags = <<>>,
         \A p \in Synced : read[Canon(Inbox)][i].id \notin IdsOf(read[Canon(p)]),
         \A j \in DOMAIN read[Canon(Inbox)] :
           read[Canon(Inbox)][j].id = read[Canon(Inbox)][i].id => j = i
  PROVE  read[Canon(Inbox)][i] \in Desired(Canon(Inbox), verdicts)
<1>1. /\ read \in [Files -> Contents] /\ DOMAIN verdicts = DOMAIN canon \cup DOMAIN proj \cup DOMAIN base
      /\ \A v \in DOMAIN verdicts : verdicts[v] = Decide(canon, proj, base, v)
  <2>1. read \in [Files -> Contents]
    BY DecisionTypes, Zenon
  <2>2. DOMAIN verdicts = DOMAIN canon \cup DOMAIN proj \cup DOMAIN base
    BY DEF Decision, Decisions
  <2>3. \A v \in DOMAIN verdicts : verdicts[v] = Decide(canon, proj, base, v)
    BY DEF Decision, Decisions
  <2> QED BY <2>1, <2>2, <2>3, Zenon
<1> DEFINE inbox == read[Canon(Inbox)]
           l == inbox[i]
           id == l.id
<1>2. canon \in CanonMaps(read)
  BY DEF Decision
<1>3. Canon(Inbox) \in CanonFiles /\ Inbox \notin Synced
  BY OrderAssumption DEF CanonFiles, Projects
<1>4. id \in DOMAIN canon
  <2>1. id \in IdsOf(inbox)
    BY DEF IdsOf
  <2> QED BY <1>1, <1>2, <1>3, <2>1, CanonMapOK
<1>5. canon[id] = Parsed(l)
  <2>1. PICK f \in CanonFiles : \E j \in DOMAIN read[f] :
          read[f][j].id = id /\ canon[id] = Parsed(read[f][j])
    BY <1>1, <1>2, <1>4, CanonMapOK
  <2>2. PICK j \in DOMAIN read[f] : read[f][j].id = id /\ canon[id] = Parsed(read[f][j])
    BY <2>1
  <2>3. id \in IdsOf(read[f])
    BY <2>2 DEF IdsOf
  <2>4. f = Canon(Inbox)
    BY <2>3 DEF CanonFiles, Projects
  <2>5. j = i
    BY <2>2, <2>4
  <2> QED BY <2>2, <2>4, <2>5
<1>6. canon[id].project = Inbox /\ canon[id].line = l
  BY <1>5 DEF Parsed, Task
<1>7. id \in DOMAIN verdicts /\ verdicts[id] = Decide(canon, proj, base, id)
  BY <1>1, <1>4
<1> HIDE DEF id, l, inbox
<1>8. verdicts[id].tasks = <<canon[id]>>
  <2>1. Decide(canon, proj, base, id).tasks = <<canon[id]>>
    BY <1>3, <1>4, <1>6 DEF Decide, Verdict
  <2> QED BY <1>7, <2>1
<1>9. 1 \in DOMAIN verdicts[id].tasks /\ verdicts[id].tasks[1] = canon[id]
  BY <1>8
<1>10. Canon(Inbox)[2] = Inbox
  BY DEF Canon
<1>11. l \in Desired(Canon(Inbox), verdicts)
  BY <1>6, <1>7, <1>9, <1>10, DesiredOK
<1> QED
  BY <1>11 DEF l, inbox

\* What process s is about to decide.
Deciding(s, canon, proj, verdicts) ==
  /\ pass[s].pc = "decide"
  /\ Decision(pass[s].read, canon, proj, verdicts)

\* A task with a row that is not late, if the user did not remove it, is read in
\* canon and in a projection, and so filed again.
LEMMA RowFiled ==
  ASSUME SyncInv, NEW s \in Syncers,
         NEW canon, NEW proj, NEW verdicts, Deciding(s, canon, proj, verdicts),
         NEW id \in DOMAIN verdicts, Firm(id), id \in late[s] => id \notin DOMAIN base,
         \/ id \in DOMAIN base
         \/ \E f \in Files : id \in IdsOf(pass[s].read[f])
  PROVE  1 \in DOMAIN verdicts[id].tasks
<1> DEFINE read == pass[s].read
<1>0. Decision(read, canon, proj, verdicts) /\ pass[s].pc = "decide" /\ SyncType /\ Alone
  BY DEF Deciding, SyncInv
<1>1. /\ read \in [Files -> Contents] /\ nextId \in Nat
      /\ verdicts[id] = Decide(canon, proj, base, id)
      /\ \A b \in DOMAIN base : base[b].project \in Synced
  <2>1. read \in [Files -> Contents] /\ verdicts[id] = Decide(canon, proj, base, id)
    BY <1>0 DEF Decision, Decisions
  <2> QED BY <1>0, <2>1, Typed
<1>2. canon \in CanonMaps(read) /\ proj = ProjMap(read) /\ ~InWrite(s)
  BY <1>0 DEF Decision, InWrite
<1> HIDE DEF read
<1>3. \A f \in CanonFiles : id \in IdsOf(read[f]) => id \in DOMAIN canon
  BY <1>1, <1>2, CanonMapOK
<1>4. \A f \in ProjectionFiles : id \in IdsOf(read[f]) => id \in DOMAIN proj
  <2>1. id # NoId
    BY DEF Firm
  <2> QED BY <1>1, <1>2, <2>1, ProjMapOK
<1>5. id \in DOMAIN base => id \in DOMAIN canon /\ id \in DOMAIN proj
  <2> SUFFICES ASSUME id \in DOMAIN base PROVE id \in DOMAIN canon /\ id \in DOMAIN proj
    OBVIOUS
  <2> DEFINE h == base[id].project
  <2>1. /\ Canon(h) \in CanonFiles /\ Projection(h) \in ProjectionFiles
        /\ Canon(h) \in Both(h) /\ Projection(h) \in Both(h)
    BY <1>1, BothFiles
  <2>2. id \notin moved => Seen(id, Canon(h)) /\ Seen(id, Projection(h))
    BY <2>1 DEF SyncInv, BaseOK
  <2>3. id \in moved => SeenSomewhere(id)
    <3> SUFFICES ASSUME id \in moved PROVE SeenSomewhere(id)
      OBVIOUS
    <3>1. ~torn
      BY DEF Firm
    <3>2. \A r \in Syncers : ~InWrite(r)
      BY <1>0, <1>2, <3>1, OneAtWork
    <3>3. NobodyWrote
      BY <3>2 DEF NobodyWrote
    <3> QED BY <3>3 DEF SyncInv, BaseOK
  <2>4. (\E f \in CanonFiles : Seen(id, f)) /\ (\E f \in ProjectionFiles : Seen(id, f))
    BY <2>1, <2>2, <2>3 DEF SeenSomewhere
  <2>5. \A f \in Files : Seen(id, f) => id \in IdsOf(read[f])
    BY <1>1, <1>2 DEF Seen, read
  <2> QED BY <1>3, <1>4, <2>4, <2>5 DEF Files
<1>6. id \in DOMAIN canon \/ id \in DOMAIN proj
  BY <1>3, <1>4, <1>5 DEF Files, read
<1>7. verdicts[id].tasks # <<>>
  <2> DEFINE t == verdicts[id].tasks
  <2>1. \/ t = <<canon[id]>>
        \/ t = <<proj[id]>>
        \/ t = <<canon[id], Tagged(proj[id])>>
        \/ /\ ~(id \in DOMAIN canon /\ id \in DOMAIN proj)
           /\ id \in DOMAIN canon \/ id \in DOMAIN proj => id \in DOMAIN base
    BY <1>1, DecideCases DEF Verdict
  <2> HIDE DEF t
  <2>2. \/ t = <<canon[id]>>
        \/ t = <<proj[id]>>
        \/ t = <<canon[id], Tagged(proj[id])>>
    BY <1>5, <1>6, <2>1
  <2>3. t # <<>>
    BY <2>2
  <2> QED BY <2>3 DEF t
<1> QED
  BY <1>0, <1>7, VerdictOK

\* A task that never changed project is filed under the project it is at.
LEMMA FiledWhereAt ==
  ASSUME SyncInv, NEW s \in Syncers,
         NEW canon, NEW proj, NEW verdicts, Deciding(s, canon, proj, verdicts),
         NEW id \in DOMAIN verdicts \ {NoId}, id \notin moved, id \notin Misfiled(pass[s].read),
         NEW p \in Projects, At(id, p), NEW k \in DOMAIN verdicts[id].tasks
  PROVE  verdicts[id].tasks[k].project = p
<1> DEFINE q == verdicts[id].tasks[k].project
           read == pass[s].read
<1>0. Decision(read, canon, proj, verdicts)
  BY DEF Deciding
<1>1. /\ id \in Nat /\ nextId \in Nat /\ q \in Projects
      /\ \A f \in Files : \A i \in IdsOf(read[f]) : At(i, f[2])
  <2>1. id \in Nat
    BY <1>0, VerdictIds
  <2>2. q \in Projects
    BY <1>0, VerdictOK
  <2>3. nextId \in Nat /\ \A f \in Files : \A i \in IdsOf(read[f]) : At(i, f[2])
    BY <1>0 DEF Decision, SyncType
  <2> QED BY <2>1, <2>2, <2>3
<1>2. id < nextId
  BY <1>1 DEF SyncInv, Fresh
<1>3. PICK g \in Files : g[2] = q /\ id \in IdsOf(read[g])
  BY <1>0, <1>1, <1>2, FiledAtHome
<1>4. At(id, q)
  BY <1>1, <1>3
<1> HIDE DEF q
<1>5. q = p
  BY <1>1, <1>4 DEF SyncInv, OneHome
<1> QED
  BY <1>5 DEF q

\* A pass decides: the step, its parts named.
Deciders(s, canon, proj, verdicts, plan) ==
  /\ Deciding(s, canon, proj, verdicts)
  /\ plan \in Plans(pass[s].read, verdicts)
  /\ pass' = [pass EXCEPT ![s] = Decided(s, verdicts, plan)]
  /\ nextId' = nextId + Cardinality(Idless(pass[s].read))
  /\ moved' = moved \cup Misfiled(pass[s].read)
  /\ overtaken' = overtaken \cup (late[s] \cap DOMAIN base)
  /\ late' = [late EXCEPT ![s] = {}]
  /\ UNCHANGED <<file, base, stale, events, deleted, clobbered, filed, torn>>

\* The pass after its decisions: its types.
LEMMA DecideTypes ==
  ASSUME SyncInv, NEW s \in Syncers, NEW canon, NEW proj, NEW verdicts, NEW plan,
         Deciders(s, canon, proj, verdicts, plan)
  PROVE  /\ SyncType' /\ Alone' /\ InWrite(s)' /\ ~Wrote(s)' /\ \A f : ~Done(s, f)'
         /\ pass' = [pass EXCEPT ![s] = pass'[s]]
         /\ pass'[s].pc = "write" /\ pass'[s].read = pass[s].read /\ pass'[s].plan = plan
         /\ pass'[s].set = Upserts(verdicts) /\ pass'[s].drop = Deletes(verdicts)
         /\ \A r \in Syncers : r # s => pass'[r] = pass[r]
         /\ pass[s].read \in [Files -> Contents] /\ nextId' \in Nat /\ nextId <= nextId'
<1> DEFINE read == pass[s].read
           set == Upserts(verdicts)
           drop == Deletes(verdicts)
<1>0. /\ SyncType /\ Alone /\ Decision(read, canon, proj, verdicts) /\ pass[s].pc = "decide"
      /\ plan \in Plans(read, verdicts) /\ late \in [Syncers -> SUBSET Nat]
      /\ nextId' = nextId + Cardinality(Idless(read)) /\ moved' = moved \cup Misfiled(read)
      /\ overtaken' = overtaken \cup (late[s] \cap DOMAIN base)
      /\ late' = [late EXCEPT ![s] = {}]
      /\ UNCHANGED <<file, base, stale, events, deleted, clobbered, filed, torn>>
  BY DEF SyncInv, SyncType, Deciders, Deciding
<1>1. /\ PassType(pass[s]) /\ pass[s] \in PassSet /\ pass \in [Syncers -> PassSet]
      /\ pass[s].k = 1 /\ DOMAIN read = Files
  <2>1. PassType(pass[s]) /\ pass \in [Syncers -> PassSet]
    BY <1>0, Typed DEF SyncType
  <2> QED BY <1>0, <2>1 DEF PassType
<1>2. /\ read \in [Files -> Contents] /\ nextId \in Nat
      /\ Cardinality(Idless(read)) \in Nat
  BY <1>0, DecisionTypes
<1>3. plan \in [Files -> Contents] /\ plan \in Partial /\ DOMAIN plan = Files
  <2>1. plan \in [Files -> Contents]
    BY <1>0, PlanLines
  <2> QED BY <2>1 DEF Partial
<1>4. set \in SyncRows /\ drop \in SUBSET Nat
  BY <1>0, UpsertsOK
<1> HIDE DEF set, drop
<1>5. pass' = [pass EXCEPT ![s] = [pass[s] EXCEPT !.pc = "write", !.plan = plan,
                                                  !.set = set, !.drop = drop]]
  BY DEF set, drop, Deciders, Decided
<1>6. /\ pass'[s].pc = "write" /\ pass'[s].k = 1
      /\ pass'[s].read = read /\ pass'[s].plan = plan /\ pass'[s].set = set /\ pass'[s].drop = drop
      /\ pass'[s] \in PassSet
  <2> DEFINE x == [pass[s] EXCEPT !.pc = "write", !.plan = plan, !.set = set, !.drop = drop]
  <2>1. /\ x.pc = "write" /\ x.k = 1
        /\ x.read = read /\ x.plan = plan /\ x.set = set /\ x.drop = drop
        /\ x \in PassSet
    BY <1>1, <1>3, <1>4 DEF PassSet
  <2>2. pass'[s] = x
    BY <1>1, <1>5
  <2> HIDE DEF x
  <2> QED BY <2>1, <2>2
<1>7. 1 \in 1..(Len(WriteOrder) + 1)
  <2>1. Len(WriteOrder) \in Nat
    BY OrdersOK
  <2> QED BY <2>1
<1>8. PassType(pass'[s])
  BY <1>1, <1>3, <1>6, <1>7 DEF PassType
<1>9. Misfiled(read) \subseteq Nat
  <2> SUFFICES ASSUME NEW p \in Projects, NEW l \in ToSet(read[Canon(p)]) PROVE l.id \in Nat
    BY DEF Misfiled
  <2>1. read[Canon(p)] \in Contents
    BY <1>2, FileProject
  <2>2. PICK i \in DOMAIN read[Canon(p)] : l = read[Canon(p)][i]
    BY DEF ToSet
  <2> QED BY <2>1, <2>2, IdsAre
<1>10. nextId' \in Nat \ {NoId} /\ nextId <= nextId'
  <2>1. nextId # NoId
    BY <1>0 DEF SyncType
  <2> QED BY <1>0, <1>2, <2>1 DEF NoId
<1>11. /\ \A r \in Syncers : r # s => pass'[r] = pass[r]
       /\ pass' = [pass EXCEPT ![s] = pass'[s]]
  BY <1>1, <1>5
<1>12. SyncType'
  <2>1. (deleted \cup moved \cup clobbered \cup filed \cup overtaken)' \subseteq Nat
    BY <1>0, <1>9 DEF SyncType
  <2>2. pass' \in [Syncers -> PassSet] /\ \A r \in Syncers : PassType(pass'[r])
    <3>1. \A r \in Syncers : PassType(pass[r])
      BY <1>0, Typed
    <3> QED BY <1>1, <1>6, <1>8, <1>11, <3>1
  <2>3. \A r \in Syncers : stale'[r] \subseteq DOMAIN pass'[r].read
    BY <1>0, <1>6, <1>11 DEF SyncType
  <2>4. late' \in [Syncers -> SUBSET Nat]
    BY <1>0
  <2> QED BY <1>0, <1>10, <2>1, <2>2, <2>3, <2>4 DEF SyncType
<1>13. Alone'
  <2>1. \A r \in Syncers : pass'[r].pc # "idle" => pass[r].pc # "idle"
    BY <1>0, <1>11
  <2> QED BY <1>0, <2>1 DEF Alone
<1>14. 1..(pass'[s].k - 1) = {}
  BY <1>6
<1>15. ~Wrote(s)' /\ \A f : ~Done(s, f)'
  BY <1>14 DEF Wrote, Done
<1> QED
  BY <1>2, <1>6, <1>10, <1>11, <1>12, <1>13, <1>15 DEF InWrite, set, drop

\* LoadSyncState, Decide and render.
LEMMA DecideKeeps ==
  ASSUME SyncInv, NEW s \in Syncers, DecidePass(s)
  PROVE  SyncInv'
<1> DEFINE read == pass[s].read
           proj == ProjMap(read)
<1>1. SyncType /\ pass \in [Syncers -> PassSet] /\ pass[s].pc = "decide" /\ PassType(pass[s])
  <2>1. SyncType
    BY DEF SyncInv
  <2> QED BY <2>1, Typed DEF SyncType, DecidePass
<1>2. PICK canon \in CanonMaps(read) :
      \E verdicts \in {Decisions(canon, proj, base)} :
      \E plan \in Plans(read, verdicts) :
        pass' = [pass EXCEPT ![s] = Decided(s, verdicts, plan)]
  BY DEF DecidePass
<1>3. PICK verdicts \in {Decisions(canon, proj, base)} :
      \E plan \in Plans(read, verdicts) :
        pass' = [pass EXCEPT ![s] = Decided(s, verdicts, plan)]
  BY <1>2
<1>4. PICK plan \in Plans(read, verdicts) :
        pass' = [pass EXCEPT ![s] = Decided(s, verdicts, plan)]
  BY <1>3
<1> DEFINE rows == Upserts(verdicts)
           drop == Deletes(verdicts)
<1>5. Deciders(s, canon, proj, verdicts, plan) /\ Deciding(s, canon, proj, verdicts)
  <2>1. read \in [Files -> Contents]
    <3>1. read \in Partial /\ DOMAIN read = Files
      BY <1>1 DEF PassType, PassSet
    <3> QED BY <3>1 DEF Partial
  <2>2. \A f \in Files : \A id \in IdsOf(read[f]) : At(id, f[2])
    BY <2>1 DEF At
  <2>3. Decision(read, canon, proj, verdicts)
    BY <1>1, <1>2, <1>3, <2>1, <2>2 DEF Decision, SyncInv
  <2>4. Deciding(s, canon, proj, verdicts)
    BY <1>1, <2>3 DEF Deciding
  <2>5. UNCHANGED <<file, base, stale, events, deleted, clobbered, filed, torn>>
        /\ nextId' = nextId + Cardinality(Idless(pass[s].read))
        /\ moved' = moved \cup Misfiled(pass[s].read)
        /\ overtaken' = overtaken \cup (late[s] \cap DOMAIN base)
        /\ late' = [late EXCEPT ![s] = {}]
    BY DEF DecidePass
  <2> QED BY <1>4, <2>4, <2>5 DEF Deciders
<1> HIDE DEF proj
<1>6. /\ SyncType' /\ Alone' /\ InWrite(s)' /\ ~Wrote(s)' /\ \A f : ~Done(s, f)'
      /\ pass' = [pass EXCEPT ![s] = pass'[s]]
      /\ pass'[s].pc = "write" /\ pass'[s].read = read /\ pass'[s].plan = plan
      /\ pass'[s].set = rows /\ pass'[s].drop = drop
      /\ \A r \in Syncers : r # s => pass'[r] = pass[r]
      /\ read \in [Files -> Contents] /\ nextId' \in Nat /\ nextId <= nextId'
  BY <1>5, DecideTypes
<1>7. /\ Decision(read, canon, proj, verdicts)
      /\ moved' = moved \cup Misfiled(read) /\ overtaken' = overtaken \cup (late[s] \cap DOMAIN base)
      /\ late' = [late EXCEPT ![s] = {}] /\ nextId' = nextId + Cardinality(Idless(read))
      /\ UNCHANGED <<file, base, stale, events, deleted, clobbered, filed, torn>>
  BY <1>5 DEF Deciders, Deciding
<1>8. /\ plan \in [Files -> Contents]
      /\ \A f \in Files : ToSet(plan[f]) = Desired(f, verdicts)
      /\ \A f \in Files : \A id : id \in IdsOf(plan[f]) <=>
           /\ id \in DOMAIN verdicts
           /\ \E k \in DOMAIN verdicts[id].tasks : verdicts[id].tasks[k].project = f[2]
  BY <1>4, <1>7, PlanLines
<1>9. /\ rows \in SyncRows
      /\ \A id \in DOMAIN rows :
           /\ id \in DOMAIN verdicts /\ 1 \in DOMAIN verdicts[id].tasks
           /\ verdicts[id].tasks[1].project = rows[id].project
      /\ \A id \in DOMAIN base \ (DOMAIN rows \cup drop) :
           /\ id \in DOMAIN verdicts /\ 1 \in DOMAIN verdicts[id].tasks
           /\ verdicts[id].tasks[1].project = base[id].project
  BY <1>7, UpsertsOK
<1>10. /\ nextId \in Nat
       /\ \A id \in DOMAIN verdicts : id \in Nat /\ id < nextId'
       /\ DOMAIN verdicts = DOMAIN canon \cup DOMAIN proj \cup DOMAIN base
       /\ \A id \in DOMAIN base : base[id].project \in Synced
  <2>1. DOMAIN verdicts = DOMAIN canon \cup DOMAIN proj \cup DOMAIN base
    BY <1>7 DEF Decision, Decisions
  <2>2. \A id \in DOMAIN verdicts : id \in Nat /\ id < nextId'
    BY <1>7, VerdictIds
  <2> QED BY <1>1, <2>1, <2>2, Typed
<1> HIDE DEF rows, drop, read
<1>11. /\ \A r \in Syncers : r # s =>
            /\ InWrite(r)' <=> InWrite(r)
            /\ Wrote(r)' <=> Wrote(r)
            /\ \A id : OnItsWay(r, id)' <=> OnItsWay(r, id)
       /\ ~InWrite(s)
  BY <1>1, <1>6, Shifted DEF InWrite
<1>12. \A id : Firm(id)' => Firm(id) /\ (id \in late[s] => id \notin DOMAIN base)
  BY <1>7 DEF Firm
<1>13. ASSUME NEW id \in Nat, NEW p \in Projects, At(id, p)'
       PROVE  \/ At(id, p)
              \/ id \in DOMAIN verdicts /\ \E k \in DOMAIN verdicts[id].tasks :
                                             verdicts[id].tasks[k].project = p
  <2>1. ASSUME NEW f \in Files, f[2] = p, id \in IdsOf(plan[f])
        PROVE  id \in DOMAIN verdicts /\ \E k \in DOMAIN verdicts[id].tasks :
                                             verdicts[id].tasks[k].project = p
    BY <1>8, <2>1
  <2>2. ASSUME id \in DOMAIN rows, rows[id].project = p
        PROVE  id \in DOMAIN verdicts /\ \E k \in DOMAIN verdicts[id].tasks :
                                             verdicts[id].tasks[k].project = p
    BY <1>9, <2>2
  <2>3. DOMAIN plan = Files /\ file' = file /\ base' = base
    BY <1>7, <1>8
  <2>4. \/ \E f \in Files : f[2] = p /\ id \in IdsOf(file[f])
        \/ \E f \in DOMAIN pass'[s].read : f[2] = p /\ id \in IdsOf(pass'[s].read[f])
        \/ \E f \in DOMAIN pass'[s].plan : f[2] = p /\ id \in IdsOf(pass'[s].plan[f])
        \/ id \in DOMAIN base /\ base[id].project = p
        \/ id \in DOMAIN pass'[s].set /\ pass'[s].set[id].project = p
        \/ At(id, p)
    BY <1>1, <1>6, <1>13, <2>3, AtShift
  <2>5. (\E f \in DOMAIN read : f[2] = p /\ id \in IdsOf(read[f])) => At(id, p)
    BY DEF At, read
  <2>6. /\ (\E f \in Files : f[2] = p /\ id \in IdsOf(file[f])) => At(id, p)
        /\ id \in DOMAIN base /\ base[id].project = p => At(id, p)
    BY DEF At
  <2> QED BY <1>6, <2>1, <2>2, <2>3, <2>4, <2>5, <2>6
<1>14. Fresh'
  <2> SUFFICES ASSUME NEW p \in Projects, NEW id \in Nat, At(id, p)' PROVE id < nextId'
    BY DEF Fresh
  <2>1. At(id, p) => id < nextId
    BY DEF SyncInv, Fresh
  <2>2. At(id, p) \/ id \in DOMAIN verdicts
    BY <1>13
  <2> QED BY <1>6, <1>10, <2>1, <2>2
<1>15. OneHome'
  <2> SUFFICES ASSUME NEW id \in Nat \ (moved' \cup {NoId}), NEW p \in Projects, NEW q \in Projects,
                      At(id, p)', At(id, q)'
               PROVE  p = q
    BY DEF OneHome
  <2>1. id \notin moved /\ id \notin Misfiled(read) /\ id # NoId
    BY <1>7
  <2>2. \A r \in Projects : At(id, r)' => At(id, r) \/ (id >= nextId /\ r = proj[id].project)
    <3> SUFFICES ASSUME NEW r \in Projects, At(id, r)', ~At(id, r)
                 PROVE  id >= nextId /\ r = proj[id].project
      OBVIOUS
    <3>1. id \in DOMAIN verdicts
      BY <1>13
    <3>2. PICK k \in DOMAIN verdicts[id].tasks : verdicts[id].tasks[k].project = r
      BY <1>13
    <3>3. \A g \in Files : g[2] = r => id \notin IdsOf(read[g])
      BY <1>6 DEF At, read
    <3> QED BY <1>7, <2>1, <3>1, <3>2, <3>3, FiledAtHome
  <2>3. \A r \in Projects : At(id, r) => id < nextId
    BY DEF SyncInv, Fresh
  <2>4. At(id, p) /\ At(id, q) => p = q
    BY <2>1 DEF SyncInv, OneHome
  <2>5. At(id, p) \/ (id >= nextId /\ p = proj[id].project)
    BY <2>2
  <2>6. At(id, q) \/ (id >= nextId /\ q = proj[id].project)
    BY <2>2
  <2> QED BY <1>10, <2>3, <2>4, <2>5, <2>6
<1>16. GuardOK(s)'
  <2>1. \A f \in DOMAIN read :
          /\ f \notin stale[s] => file[f] = read[f]
          /\ \A id \in IdsOf(read[f]) : Firm(id) => id \in IdsOf(file[f])
    BY <1>11 DEF SyncInv, PassOK, GuardOK, Done, read
  <2> QED BY <1>6, <1>7, <1>12, <2>1 DEF GuardOK
<1>17. BaseOK'
  <2> SUFFICES ASSUME NEW id \in DOMAIN base, Firm(id)'
               PROVE  /\ id \notin moved' => \A f \in Both(base[id].project) : Seen(id, f)'
                      /\ id \in moved' /\ NobodyWrote' => SeenSomewhere(id)'
    BY <1>7 DEF BaseOK
  <2> DEFINE h == base[id].project
  <2>1. ASSUME NEW f, Seen(id, f) PROVE Seen(id, f)'
    <3>1. \A r \in Syncers : r # s => late'[r] = late[r]
      BY <1>1, <1>7 DEF SyncType
    <3> QED BY <1>6, <1>7, <1>11, <2>1, <3>1 DEF Seen
  <2>2. id \notin moved => \A f \in Both(h) : Seen(id, f)
    BY <1>12 DEF SyncInv, BaseOK
  <2>3. h \in Synced /\ moved \subseteq moved'
    BY <1>7, <1>10
  <2>4. ASSUME NobodyWrote' PROVE NobodyWrote
    BY <1>11, <2>4 DEF NobodyWrote
  <2>5. id \in moved /\ NobodyWrote => SeenSomewhere(id)
    BY <1>12 DEF SyncInv, BaseOK
  <2>6. /\ Canon(h) \in CanonFiles /\ Projection(h) \in ProjectionFiles
        /\ Canon(h) \in Both(h) /\ Projection(h) \in Both(h)
    BY <2>3, BothFiles
  <2> HIDE DEF h
  <2>7. id \notin moved => SeenSomewhere(id)
    BY <2>2, <2>6 DEF SeenSomewhere
  <2>8. SeenSomewhere(id) => SeenSomewhere(id)'
    BY <2>1 DEF SeenSomewhere
  <2>9. id \notin moved' => \A f \in Both(h) : Seen(id, f)'
    BY <2>1, <2>2, <2>3
  <2> QED BY <2>4, <2>5, <2>7, <2>8, <2>9 DEF h
<1>18. RowsOK(s)'
  <2>1. ASSUME NEW p \in Synced, NEW f \in Both(p), NEW id \in DOMAIN verdicts,
               1 \in DOMAIN verdicts[id].tasks, verdicts[id].tasks[1].project = p
        PROVE  id \in IdsOf(plan[f])
    <3>1. f \in Files /\ f[2] = p
      BY BothFiles
    <3> QED BY <1>8, <2>1, <3>1
  <2>2. \A id \in DOMAIN rows : rows[id].project \in Synced
    BY <1>9 DEF SyncRows
  <2>3. \A id \in DOMAIN rows : \A f \in Both(rows[id].project) : id \in IdsOf(plan[f])
    BY <1>9, <2>1, <2>2
  <2>4. \A id \in DOMAIN base \ (DOMAIN rows \cup drop) :
          \A f \in Both(base[id].project) : id \in IdsOf(plan[f])
    BY <1>9, <1>10, <2>1
  <2> QED BY <1>6, <1>7, <2>3, <2>4 DEF RowsOK
<1>19. PlanOK(s)'
  <2> SUFFICES ASSUME NEW f \in Files, NEW id \in IdsOf(read[f]), Firm(id)'
               PROVE  /\ \E g \in Files : id \in IdsOf(plan[g])
                      /\ id \notin moved' => id \in IdsOf(plan[f])
    BY <1>6 DEF PlanOK
  <2>0. Firm(id) /\ id # NoId /\ (id \in late[s] => id \notin DOMAIN base)
    BY <1>12 DEF Firm
  <2>1. id \in DOMAIN verdicts
    <3>1. canon \in CanonMaps(read) /\ proj = ProjMap(read)
      BY <1>7 DEF Decision
    <3>2. f \in CanonFiles => id \in DOMAIN canon
      BY <1>6, <3>1, CanonMapOK
    <3>3. f \in ProjectionFiles => id \in DOMAIN proj
      BY <1>6, <1>10, <2>0, <3>1, ProjMapOK
    <3> QED BY <1>10, <3>2, <3>3 DEF Files
  <2>2. 1 \in DOMAIN verdicts[id].tasks
    BY <1>5, <2>0, <2>1, RowFiled DEF read
  <2>3. verdicts[id].tasks[1].project \in Projects
    BY <1>7, <2>1, <2>2, VerdictOK
  <2>4. \E g \in Files : id \in IdsOf(plan[g])
    BY <1>8, <2>1, <2>2, <2>3, FileProject
  <2>5. ASSUME id \notin moved'
        PROVE  id \in IdsOf(plan[f])
    <3>1. f[2] \in Projects /\ At(id, f[2])
      BY <1>6, FileProject DEF At, read
    <3>2. id \notin moved /\ id \notin Misfiled(read)
      BY <1>7, <2>5
    <3>3. verdicts[id].tasks[1].project = f[2]
      BY <1>5, <2>0, <2>1, <2>2, <3>1, <3>2, FiledWhereAt DEF read
    <3> QED BY <1>8, <2>1, <2>2, <3>3
  <2> QED BY <2>4, <2>5
<1>20. KeptOK'
  <2> SUFFICES ASSUME NEW id \in filed, Firm(id)', id \notin Present
               PROVE  id \in moved' /\ \E r \in Syncers : OnItsWay(r, id)'
    BY <1>7 DEF KeptOK, Present
  <2>1. id \in moved /\ \E r \in Syncers : OnItsWay(r, id)
    BY <1>12 DEF SyncInv, KeptOK
  <2>2. ~OnItsWay(s, id)
    BY <1>11 DEF OnItsWay
  <2> QED BY <1>7, <1>11, <2>1, <2>2
<1>21. InboxPlanned(s)'
  <2> DEFINE inbox == read[Canon(Inbox)]
             others == UNION {IdsOf(read[Canon(p)]) : p \in Synced}
  <2>1. ASSUME NEW i \in DOMAIN inbox, inbox[i].tags = <<>>, inbox[i].id \notin others,
               ~ \E j \in DOMAIN inbox : j # i /\ inbox[j].id = inbox[i].id
        PROVE  Contains(plan[Canon(Inbox)], inbox[i])
    <3>1. \A p \in Synced : inbox[i].id \notin IdsOf(read[Canon(p)])
      BY <2>1
    <3>2. inbox[i] \in Desired(Canon(Inbox), verdicts)
      BY <1>7, <2>1, <3>1, InboxFiled
    <3>3. Canon(Inbox) \in Files
      BY FileProject DEF Projects
    <3>4. inbox[i] \in ToSet(plan[Canon(Inbox)])
      BY <1>8, <3>2, <3>3
    <3>5. plan[Canon(Inbox)] \in Contents
      BY <1>8, <3>3
    <3> HIDE DEF inbox
    <3>6. DOMAIN plan[Canon(Inbox)] = 1..Len(plan[Canon(Inbox)])
      BY <3>5, IdsAre
    <3> QED BY <3>4, <3>6 DEF ToSet, Contains
  <2>2. \A i \in DOMAIN inbox :
          \/ inbox[i].tags # <<>>
          \/ inbox[i].id \in others
          \/ \E j \in DOMAIN inbox : j # i /\ inbox[j].id = inbox[i].id
          \/ Contains(plan[Canon(Inbox)], inbox[i])
    BY <2>1
  <2>3. pass'[s].read = read /\ pass'[s].plan = plan
    BY <1>6
  <2> QED BY <2>2, <2>3 DEF InboxPlanned
<1>22. \A r \in Syncers : PassOK(r)'
  <2>1. PassOK(s)'
    BY <1>16, <1>18, <1>19, <1>21 DEF PassOK
  <2>2. ASSUME NEW r \in Syncers, r # s PROVE PassOK(r)'
    BY <1>6, <1>7, <1>12, <2>2, OthersKept
  <2> QED BY <2>1, <2>2
<1> QED
  BY <1>6, <1>14, <1>15, <1>17, <1>20, <1>22 DEF SyncInv


---------------------------------------------------------------------------
(* Edits                                                                   *)

\* The tags editors give a line.
LEMMA TagsOK ==
  ASSUME NEW tags \in {<<>>} \cup {<<p>> : p \in Synced}
  PROVE  tags \in Seq(Synced \cup {ConflictTag}) /\ (tags = <<>> \/ Head(tags) \in Synced)
<1>1. CASE tags = <<>>
  BY <1>1
<1>2. CASE \E p \in Synced : tags = <<p>>
  BY <1>2
<1> QED
  BY <1>1, <1>2

\* A line with such tags.
LEMMA EditedLine ==
  ASSUME NEW id \in Nat, NEW text \in Texts, NEW tags \in {<<>>} \cup {<<p>> : p \in Synced}
  PROVE  Line(id, text, tags) \in TaskLines /\ Line(id, text, tags).id = id
<1>1. tags \in Seq(Synced \cup {ConflictTag}) /\ (tags = <<>> \/ Head(tags) \in Synced)
  BY TagsOK
<1> QED
  BY <1>1 DEF Line, TaskLines, Lines

\* qi task add and a line typed by hand.
LEMMA AddKeeps ==
  ASSUME SyncInv, AddTask \/ TypeLine
  PROVE  SyncInv'
<1>0. file \in [Files -> Contents] /\ nextId \in Nat /\ nextId # NoId
  BY Typed DEF SyncInv
<1>1. SyncType
  BY DEF SyncInv
<1>2. CASE AddTask
  <2>1. PICK p \in Projects :
          Edit(Canon(p), Append(file[Canon(p)], Line(nextId, NewText, IF p = Inbox THEN <<>> ELSE <<p>>)))
    BY <1>2 DEF AddTask
  <2> DEFINE l == Line(nextId, NewText, IF p = Inbox THEN <<>> ELSE <<p>>)
             f == Canon(p)
  <2>2. f \in Files /\ file[f] \in Contents
    BY <1>0, FileProject
  <2>3. l \in TaskLines /\ l.id = nextId
    BY <1>0, EditedLine, BoundsAssumption DEF Projects
  <2>4. Edit(f, Append(file[f], l))
    BY <2>1
  <2> HIDE DEF l, f
  <2>5. Append(file[f], l) \in Contents /\ IdsOf(Append(file[f], l)) = IdsOf(file[f]) \cup {l.id}
    BY <2>2, <2>3, AppendIds
  <2> DEFINE lines == Append(file[f], l)
  <2> HIDE DEF lines
  <2>6. /\ nextId' = nextId + 1 /\ filed' = filed \cup {nextId} /\ UNCHANGED <<deleted, moved>>
    BY <1>2 DEF AddTask
  <2>7. filed' \subseteq Nat \ {NoId} /\ deleted' \subseteq Nat /\ events' \in 0..MaxEvents
    BY <1>0, <1>1, <2>4, <2>6, BoundsAssumption DEF SyncType, Edit
  <2>8. lines \in Contents /\ IdsOf(lines) = IdsOf(file[f]) \cup {nextId}
    BY <2>3, <2>5 DEF lines
  <2>9. /\ file' = [file EXCEPT ![f] = lines] /\ stale' = Outdated(f, {})
        /\ UNCHANGED <<base, pass, moved, clobbered, torn, late, overtaken>>
    BY <2>4, <2>6 DEF Edit, lines
  <2>10. nextId' \in Nat /\ nextId < nextId' /\ nextId <= nextId'
    BY <1>0, <2>6
  <2>11. /\ deleted \subseteq deleted' /\ filed \subseteq filed' /\ filed' \subseteq filed \cup IdsOf(lines)
         /\ IdsOf(file[f]) \subseteq IdsOf(lines) \cup deleted'
         /\ \A id \in IdsOf(lines) : \/ id \in IdsOf(file[f]) \cup {NoId}
                                     \/ id = nextId /\ nextId < nextId'
    BY <2>6, <2>8, <2>10
  <2> QED BY <2>2, <2>7, <2>8, <2>9, <2>10, <2>11, EditKeeps
<1>3. CASE TypeLine
  <2>1. PICK f \in Files, tags \in {<<>>} \cup {<<p>> : p \in Synced} :
          Edit(f, Append(file[f], Line(NoId, NewText, tags)))
    BY <1>3 DEF TypeLine
  <2> DEFINE l == Line(NoId, NewText, tags)
  <2>2. file[f] \in Contents
    BY <1>0
  <2>3. l \in TaskLines /\ l.id = NoId
    BY EditedLine, BoundsAssumption DEF NoId
  <2>4. Edit(f, Append(file[f], l))
    BY <2>1
  <2> HIDE DEF l
  <2>5. Append(file[f], l) \in Contents /\ IdsOf(Append(file[f], l)) = IdsOf(file[f]) \cup {l.id}
    BY <2>2, <2>3, AppendIds
  <2> DEFINE lines == Append(file[f], l)
  <2> HIDE DEF lines
  <2>6. UNCHANGED <<nextId, deleted, moved, filed>>
    BY <1>3 DEF TypeLine
  <2>7. filed' \subseteq Nat \ {NoId} /\ deleted' \subseteq Nat /\ events' \in 0..MaxEvents
    BY <1>1, <2>4, <2>6, BoundsAssumption DEF SyncType, Edit
  <2>8. lines \in Contents /\ IdsOf(lines) = IdsOf(file[f]) \cup {NoId}
    BY <2>3, <2>5 DEF lines
  <2>9. /\ file' = [file EXCEPT ![f] = lines] /\ stale' = Outdated(f, {})
        /\ UNCHANGED <<base, pass, moved, clobbered, torn, late, overtaken>>
    BY <2>4, <2>6 DEF Edit, lines
  <2>10. nextId' \in Nat /\ nextId <= nextId'
    BY <1>0, <2>6
  <2>11. /\ deleted \subseteq deleted' /\ filed \subseteq filed' /\ filed' \subseteq filed \cup IdsOf(lines)
         /\ IdsOf(file[f]) \subseteq IdsOf(lines) \cup deleted'
         /\ \A id \in IdsOf(lines) : \/ id \in IdsOf(file[f]) \cup {NoId}
                                     \/ id = nextId /\ nextId < nextId'
    BY <2>6, <2>8
  <2> QED BY <2>7, <2>8, <2>9, <2>10, <2>11, EditKeeps
<1> QED
  BY <1>2, <1>3

\* A line removed.
LEMMA RemoveKeeps ==
  ASSUME SyncInv, RemoveLine
  PROVE  SyncInv'
<1>0. file \in [Files -> Contents] /\ nextId \in Nat /\ SyncType
  BY Typed DEF SyncInv
<1>1. PICK f \in Files : \E i \in DOMAIN file[f] :
        Edit(f, RemoveAt(file[f], i)) /\ deleted' = deleted \cup {file[f][i].id}
  BY DEF RemoveLine
<1>2. PICK i \in DOMAIN file[f] :
        Edit(f, RemoveAt(file[f], i)) /\ deleted' = deleted \cup {file[f][i].id}
  BY <1>1
<1> DEFINE lines == RemoveAt(file[f], i)
<1>3. file[f] \in Contents /\ file[f][i].id \in Nat
  BY <1>0, IdsAre
<1>4. /\ lines \in Contents /\ IdsOf(lines) \subseteq IdsOf(file[f])
      /\ IdsOf(file[f]) \subseteq IdsOf(lines) \cup {file[f][i].id}
  BY <1>3, RemoveIds
<1> HIDE DEF lines
<1>5. UNCHANGED <<nextId, moved, filed>>
  BY DEF RemoveLine
<1>6. /\ file' = [file EXCEPT ![f] = lines] /\ stale' = Outdated(f, {})
      /\ UNCHANGED <<base, pass, moved, clobbered, torn, late, overtaken>>
  BY <1>2, <1>5 DEF Edit, lines
<1>7. filed' \subseteq Nat \ {NoId} /\ deleted' \subseteq Nat /\ events' \in 0..MaxEvents
  BY <1>0, <1>2, <1>3, <1>5, BoundsAssumption DEF SyncType, Edit
<1>8. /\ deleted \subseteq deleted' /\ filed \subseteq filed' /\ filed' \subseteq filed \cup IdsOf(lines)
      /\ IdsOf(file[f]) \subseteq IdsOf(lines) \cup deleted'
      /\ \A id \in IdsOf(lines) : \/ id \in IdsOf(file[f]) \cup {NoId}
                                  \/ id = nextId /\ nextId < nextId'
  BY <1>2, <1>4, <1>5
<1>9. nextId' \in Nat /\ nextId <= nextId'
  BY <1>0, <1>5
<1> QED
  BY <1>4, <1>6, <1>7, <1>8, <1>9, EditKeeps

\* A line whose text or tags are other ones.
LEMMA ChangeKeeps ==
  ASSUME SyncInv, ChangeText \/ ChangeProject
  PROVE  SyncInv'
<1>0. file \in [Files -> Contents] /\ nextId \in Nat /\ SyncType
  BY Typed DEF SyncInv
<1>1. \E f \in Files : \E i \in DOMAIN file[f] : \E l \in TaskLines :
        l.id = file[f][i].id /\ Edit(f, ReplaceAt(file[f], i, l))
  <2>1. CASE ChangeText
    <3>1. PICK f \in Files : \E i \in DOMAIN file[f] : \E text \in Texts :
            Edit(f, ReplaceAt(file[f], i, [file[f][i] EXCEPT !.text = text]))
      BY <2>1 DEF ChangeText
    <3>2. PICK i \in DOMAIN file[f] : \E text \in Texts :
            Edit(f, ReplaceAt(file[f], i, [file[f][i] EXCEPT !.text = text]))
      BY <3>1
    <3>3. PICK text \in Texts : Edit(f, ReplaceAt(file[f], i, [file[f][i] EXCEPT !.text = text]))
      BY <3>2
    <3>4. file[f][i] \in TaskLines
      BY <1>0, IdsAre
    <3> DEFINE l == [file[f][i] EXCEPT !.text = text]
    <3>5. l \in TaskLines /\ l.id = file[f][i].id
      BY <3>4 DEF TaskLines, Lines
    <3>6. Edit(f, ReplaceAt(file[f], i, l))
      BY <3>3
    <3> HIDE DEF l
    <3> QED BY <3>5, <3>6
  <2>2. CASE ChangeProject
    <3>1. PICK p \in Projects : \E i \in DOMAIN file[Canon(p)] :
            \E tags \in {<<>>} \cup {<<q>> : q \in Synced} :
              Edit(Canon(p), ReplaceAt(file[Canon(p)], i, [file[Canon(p)][i] EXCEPT !.tags = tags]))
      BY <2>2 DEF ChangeProject
    <3>2. PICK i \in DOMAIN file[Canon(p)] : \E tags \in {<<>>} \cup {<<q>> : q \in Synced} :
              Edit(Canon(p), ReplaceAt(file[Canon(p)], i, [file[Canon(p)][i] EXCEPT !.tags = tags]))
      BY <3>1
    <3>3. PICK tags \in {<<>>} \cup {<<q>> : q \in Synced} :
              Edit(Canon(p), ReplaceAt(file[Canon(p)], i, [file[Canon(p)][i] EXCEPT !.tags = tags]))
      BY <3>2
    <3>4. Canon(p) \in Files
      BY FileProject
    <3>5. file[Canon(p)][i] \in TaskLines
      BY <1>0, <3>4, IdsAre
    <3>6. tags \in Seq(Synced \cup {ConflictTag}) /\ (tags = <<>> \/ Head(tags) \in Synced)
      BY TagsOK
    <3> DEFINE l == [file[Canon(p)][i] EXCEPT !.tags = tags]
    <3>7. l \in TaskLines /\ l.id = file[Canon(p)][i].id
      BY <3>5, <3>6 DEF TaskLines, Lines
    <3>8. Edit(Canon(p), ReplaceAt(file[Canon(p)], i, l))
      BY <3>3
    <3> HIDE DEF l
    <3> QED BY <3>4, <3>7, <3>8
  <2> QED BY <2>1, <2>2
<1>2. PICK f \in Files : \E i \in DOMAIN file[f] : \E l \in TaskLines :
        l.id = file[f][i].id /\ Edit(f, ReplaceAt(file[f], i, l))
  BY <1>1
<1>3. PICK i \in DOMAIN file[f] : \E l \in TaskLines :
        l.id = file[f][i].id /\ Edit(f, ReplaceAt(file[f], i, l))
  BY <1>2
<1>4. PICK l \in TaskLines : l.id = file[f][i].id /\ Edit(f, ReplaceAt(file[f], i, l))
  BY <1>3
<1> DEFINE lines == ReplaceAt(file[f], i, l)
<1>5. lines \in Contents /\ IdsOf(lines) = IdsOf(file[f])
  <2>1. file[f] \in Contents
    BY <1>0
  <2> QED BY <1>4, <2>1, ReplaceIds
<1> HIDE DEF lines
<1>6. UNCHANGED <<nextId, deleted, moved, filed>>
  BY DEF ChangeText, ChangeProject
<1>7. /\ file' = [file EXCEPT ![f] = lines] /\ stale' = Outdated(f, {})
      /\ UNCHANGED <<base, pass, moved, clobbered, torn, late, overtaken>>
  BY <1>4, <1>6 DEF Edit, lines
<1>8. filed' \subseteq Nat \ {NoId} /\ deleted' \subseteq Nat /\ events' \in 0..MaxEvents
  BY <1>0, <1>4, <1>6, BoundsAssumption DEF SyncType, Edit
<1>9. /\ deleted \subseteq deleted' /\ filed \subseteq filed' /\ filed' \subseteq filed \cup IdsOf(lines)
      /\ IdsOf(file[f]) \subseteq IdsOf(lines) \cup deleted'
      /\ \A id \in IdsOf(lines) : \/ id \in IdsOf(file[f]) \cup {NoId}
                                  \/ id = nextId /\ nextId < nextId'
  BY <1>5, <1>6
<1>10. nextId' \in Nat /\ nextId <= nextId'
  BY <1>0, <1>6
<1> QED
  BY <1>5, <1>7, <1>8, <1>9, <1>10, EditKeeps

---------------------------------------------------------------------------
(* The invariant and what it gives                                         *)

---------------------------------------------------------------------------
(* The invariant and what it gives                                         *)

\* A pass that starts, alone or beside another.
LEMMA StartKeeps ==
  ASSUME SyncInv, NEW s \in Syncers, StartPass(s) \/ StartBeside(s)
  PROVE  SyncInv'
<1>0. /\ MaxRetries \in Nat \ {0} /\ MaxEvents \in Nat
      /\ events \in 0..MaxEvents /\ torn \in BOOLEAN
  BY BoundsAssumption DEF SyncInv, SyncType
<1>1. Gathering(0) \in Fresher
  BY <1>0 DEF Fresher
<1>2. ~InWrite(s)
  BY DEF StartPass, StartBeside, Resting, InWrite
<1>3. CASE StartPass(s)
  <2>1. /\ Resting /\ Resets(s, Gathering(0))
        /\ UNCHANGED <<file, base, nextId, events, deleted, moved, clobbered, filed, torn, overtaken>>
    BY <1>3 DEF StartPass, user
  <2> QED BY <1>0, <1>1, <1>2, <2>1, ResetKeeps
<1>4. CASE StartBeside(s)
  <2>1. /\ events > 0 /\ events' = events - 1 /\ torn' = TRUE /\ Resets(s, Gathering(0))
        /\ UNCHANGED <<file, base, nextId, deleted, moved, clobbered, filed, overtaken>>
    BY <1>4 DEF StartBeside
  <2>2. events' \in 0..MaxEvents
    BY <1>0, <2>1
  <2>3. torn' \in BOOLEAN /\ torn'
    BY <2>1
  <2> QED BY <1>1, <1>2, <2>1, <2>2, <2>3, ResetKeeps
<1> QED
  BY <1>3, <1>4

\* A pass that ends without a commit, or starts again.
LEMMA StopKeeps ==
  ASSUME SyncInv, NEW s \in Syncers, DryRun(s) \/ Fail(s) \/ \E f \in Files : Abort(s, f)
  PROVE  SyncInv'
<1>0. /\ MaxRetries \in Nat \ {0} /\ MaxEvents \in Nat
      /\ pass[s].attempt \in 0..(MaxRetries - 1) /\ events \in 0..MaxEvents /\ torn \in BOOLEAN
  BY BoundsAssumption DEF SyncInv, SyncType, PassSet
<1>1. Idle \in Fresher
  BY DEF Fresher
<1>2. pass[s].pc # "idle"
  BY DEF DryRun, Fail, Abort
<1>3. CASE \E f \in Files : Abort(s, f)
  <2>1. PICK f \in Files : Abort(s, f)
    BY <1>3
  <2>2. PICK x \in Fresher : Resets(s, x)
    <3>1. CASE pass[s].attempt + 1 >= MaxRetries
      BY <1>1, <2>1, <3>1 DEF Abort
    <3>2. CASE ~(pass[s].attempt + 1 >= MaxRetries)
      <4>1. Resets(s, Gathering(pass[s].attempt + 1))
        BY <2>1, <3>2 DEF Abort
      <4>2. pass[s].attempt + 1 \in 0..(MaxRetries - 1)
        BY <1>0, <3>2
      <4> QED BY <4>1, <4>2 DEF Fresher
    <3> QED BY <3>1, <3>2
  <2>3. /\ UNCHANGED <<file, base, nextId, events, deleted, moved, clobbered, filed, overtaken>>
        /\ torn' = (torn \/ Wrote(s))
    BY <2>1 DEF Abort, user
  <2>4. torn' \in BOOLEAN /\ (torn => torn') /\ (InWrite(s) /\ Wrote(s) => torn')
    BY <1>0, <2>3
  <2>5. events' \in 0..MaxEvents
    BY <1>0, <2>3
  <2> QED BY <1>2, <2>2, <2>3, <2>4, <2>5, ResetKeeps
<1>4. CASE DryRun(s)
  <2>1. pass[s].k = 1 /\ events > 0 /\ events' = events - 1 /\ Resets(s, Idle)
        /\ UNCHANGED <<file, base, nextId, deleted, moved, clobbered, filed, torn, overtaken>>
    BY <1>4 DEF DryRun
  <2>2. ~Wrote(s)
    BY <2>1 DEF Wrote
  <2>3. events' \in 0..MaxEvents
    BY <1>0, <2>1
  <2> QED BY <1>0, <1>1, <1>2, <2>1, <2>2, <2>3, ResetKeeps
<1>5. CASE Fail(s)
  <2>1. events > 0 /\ events' = events - 1 /\ Resets(s, Idle)
        /\ UNCHANGED <<file, base, nextId, deleted, moved, clobbered, filed, overtaken>>
        /\ torn' = (torn \/ (pass[s].pc \in {"write", "rename"} /\ Wrote(s)))
    BY <1>5 DEF Fail
  <2>2. torn' \in BOOLEAN /\ (torn => torn') /\ (InWrite(s) /\ Wrote(s) => torn')
    BY <1>0, <2>1 DEF InWrite
  <2>3. events' \in 0..MaxEvents
    BY <1>0, <2>1
  <2> QED BY <1>1, <1>2, <2>1, <2>2, <2>3, ResetKeeps
<1> QED
  BY <1>3, <1>4, <1>5

\* A step that changes nothing.
LEMMA StutterKeeps ==
  ASSUME SyncInv, UNCHANGED vars
  PROVE  SyncInv'
<1>1. UNCHANGED <<file, base, pass, stale, nextId, events, deleted, moved, clobbered, filed, torn,
                  late, overtaken>>
  BY DEF vars, user
<1>2. SyncType' /\ Fresh' /\ OneHome' /\ Alone'
  BY <1>1 DEF SyncInv, SyncType, Fresh, OneHome, Alone, At
<1>3. BaseOK' /\ KeptOK'
  BY <1>1 DEF SyncInv, BaseOK, KeptOK, Firm, Seen, SeenSomewhere, NobodyWrote, InWrite, Wrote,
              OnItsWay, Done, Present
<1>4. ASSUME NEW s \in Syncers PROVE PassOK(s)'
  <2>1. PassOK(s)
    BY DEF SyncInv
  <2> QED BY <1>1, <2>1 DEF PassOK, GuardOK, RowsOK, PlanOK, InboxPlanned, Firm, InWrite, Done
<1> QED
  BY <1>2, <1>3, <1>4 DEF SyncInv

\* One step of any process.
LEMMA NextKeeps ==
  ASSUME SyncInv, [Next]_vars
  PROVE  SyncInv'
<1>1. ASSUME NEW s \in Syncers, StartPass(s) \/ StartBeside(s) PROVE SyncInv'
  BY <1>1, StartKeeps
<1>2. ASSUME NEW s \in Syncers, Gather(s) PROVE SyncInv'
  BY <1>2, GatherKeeps
<1>3. ASSUME NEW s \in Syncers, DecidePass(s) PROVE SyncInv'
  BY <1>3, DecideKeeps
<1>4. ASSUME NEW s \in Syncers, Commit(s) PROVE SyncInv'
  BY <1>4, CommitKeeps
<1>5. ASSUME NEW s \in Syncers, NEW f \in Files, Skip(s, f) PROVE SyncInv'
  BY <1>5, SkipKeeps
<1>6. ASSUME NEW s \in Syncers, DryRun(s) \/ Fail(s) \/ \E f \in Files : Abort(s, f) PROVE SyncInv'
  BY <1>6, StopKeeps
<1>7. ASSUME NEW s \in Syncers, NEW f \in Files, Check(s, f) PROVE SyncInv'
  BY <1>7, CheckKeeps
<1>8. ASSUME NEW s \in Syncers, NEW f \in Files, Rename(s, f) PROVE SyncInv'
  BY <1>8, RenameKeeps
<1>9. CASE AddTask \/ TypeLine
  BY <1>9, AddKeeps
<1>10. CASE RemoveLine
  BY <1>10, RemoveKeeps
<1>11. CASE ChangeText \/ ChangeProject
  BY <1>11, ChangeKeeps
<1>12. CASE UNCHANGED vars
  BY <1>12, StutterKeeps
<1> QED
  BY <1>1, <1>2, <1>3, <1>4, <1>5, <1>6, <1>7, <1>8, <1>9, <1>10, <1>11, <1>12 DEF Next, PassStep

\* What the passes rely on from one to the next, whatever users, Obsidian Sync,
\* crashes and other passes do in between: the base stands for lines that are
\* there, a plan files again what was read, and the guard notices every file
\* that changed.
THEOREM SyncInvariant == Spec => []SyncInv
<1>1. Init => SyncInv
  BY InitInv
<1>2. SyncInv /\ [Next]_vars => SyncInv'
  BY NextKeeps
<1> QED
  BY <1>1, <1>2, PTL DEF Spec

\* Type correctness: a pass never walks past its files or its attempts, and what
\* the renderer and Decide make of any file content are task lines again.
THEOREM SyncTypeCorrect == Spec => []TypeOK
<1>1. SyncInv => TypeOK
  <2> SUFFICES ASSUME SyncInv PROVE TypeOK
    OBVIOUS
  <2>1. SyncType
    BY DEF SyncInv
  <2>2. \A f \in Files : ToSet(file[f]) \subseteq Lines
    <3>1. TaskLines \subseteq Lines
      BY DEF TaskLines
    <3>2. \A f \in Files : \A i \in DOMAIN file[f] : file[f][i] \in TaskLines
      BY <2>1, Typed, IdsAre
    <3> QED BY <3>1, <3>2 DEF ToSet
  <2>3. \A id \in DOMAIN base : id \in Nat /\ base[id] \in [line : Lines, project : Projects]
    <3>1. base \in SyncRows
      BY <2>1 DEF SyncType
    <3>2. \A id \in DOMAIN base : id \in Nat /\ base[id] \in [line : TaskLines, project : Synced]
      BY <3>1 DEF SyncRows
    <3> QED BY <3>2 DEF TaskLines, Projects
  <2>4. ASSUME NEW s \in Syncers
        PROVE  /\ pass[s].pc \in {"idle", "gather", "decide", "write", "rename"}
               /\ pass[s].k \in 0..(Len(WriteOrder) + 1)
               /\ pass[s].attempt \in 0..(MaxRetries - 1)
               /\ stale[s] \subseteq DOMAIN pass[s].read
               /\ late[s] \subseteq Nat
    <3>1. PassType(pass[s]) /\ pass[s] \in PassSet
      BY <2>1 DEF SyncType
    <3>2. pass[s].pc \in {"idle", "gather", "decide", "write", "rename"}
          /\ pass[s].attempt \in 0..(MaxRetries - 1)
      BY <3>1 DEF PassSet
    <3>3. Len(WriteOrder) \in Nat \ {0} /\ DOMAIN ReadOrder = 1..Len(WriteOrder)
      BY OrdersOK
    <3>4. \/ pass[s].k = 0
          \/ pass[s].k \in DOMAIN ReadOrder
          \/ pass[s].k = 1
          \/ pass[s].k \in 1..(Len(WriteOrder) + 1)
      BY <3>1, <3>2 DEF PassType
    <3>5. pass[s].k \in 0..(Len(WriteOrder) + 1)
      BY <3>3, <3>4
    <3> QED BY <2>1, <3>2, <3>5 DEF SyncType
  <2>5. /\ DOMAIN pass = Syncers
        /\ nextId \in Nat /\ events \in 0..MaxEvents
        /\ deleted \cup moved \cup clobbered \cup filed \cup overtaken \subseteq Nat
        /\ torn \in BOOLEAN
    BY <2>1 DEF SyncType
  <2> QED BY <2>2, <2>3, <2>4, <2>5 DEF TypeOK
<1> QED
  BY <1>1, SyncInvariant, PTL

\* No silent loss, with any number of processes reconciling side by side:
\* between passes, every task that was ever in a file is in one, unless a user
\* removed it, edited its file inside the window of WriteGuarded, moved it while
\* a pass was cut short or had another beside it, or a pass decided on it with a
\* row that another pass committed after its gather had begun.
THEOREM NoTaskLost == Spec => []NoSilentLoss
<1>1. SyncInv => NoSilentLoss
  <2> SUFFICES ASSUME SyncInv, Resting, NEW id \in filed
               PROVE  \/ id \in Present \cup deleted \cup clobbered \cup overtaken
                      \/ id \in moved /\ torn
    BY DEF NoSilentLoss
  <2>0. id # NoId
    BY DEF SyncInv, SyncType
  <2>1. \A s \in Syncers : ~OnItsWay(s, id)
    BY DEF Resting, OnItsWay, InWrite
  <2> QED BY <2>0, <2>1 DEF SyncInv, KeptOK, Firm
<1> QED
  BY <1>1, SyncInvariant, PTL

\* A process that is about to replace a file does it, if anything moves it on.
LEMMA ReplacesByRename ==
  ASSUME SyncInv, Next, NEW s \in Syncers, pass[s].pc = "rename", pass'[s].pc = "write"
  PROVE  \E f \in Files : Rename(s, f)
<1>0. pass \in [Syncers -> PassSet]
  BY DEF SyncInv, SyncType
<1>1. pass'[s] # pass[s]
  OBVIOUS
<1>2. ASSUME NEW r \in Syncers, NEW x, pass' = [pass EXCEPT ![r] = x] PROVE r = s
  BY <1>0, <1>1, <1>2
<1>3. \A x : \A r \in Syncers : Resets(r, x) => r = s /\ x = pass'[s]
  BY <1>0, <1>2 DEF Resets
<1>4. Idle.pc = "idle" /\ \A a : Gathering(a).pc = "gather"
  BY DEF Idle, Gathering
<1>5. \A r \in Syncers : ~StartPass(r) /\ ~StartBeside(r) /\ ~DryRun(r) /\ ~Fail(r)
  BY <1>3, <1>4 DEF StartPass, StartBeside, DryRun, Fail
<1>6. \A r \in Syncers : ~Gather(r)
  <2> SUFFICES ASSUME NEW r \in Syncers, Gather(r) PROVE FALSE
    OBVIOUS
  <2>1. r = s
    BY <1>2 DEF Gather
  <2> QED BY <2>1 DEF Gather
<1>7. \A r \in Syncers : ~DecidePass(r)
  <2> SUFFICES ASSUME NEW r \in Syncers, DecidePass(r) PROVE FALSE
    OBVIOUS
  <2>1. pass[r].pc = "decide" /\ \E x : pass' = [pass EXCEPT ![r] = x]
    BY DEF DecidePass
  <2>2. r = s
    BY <1>2, <2>1
  <2> QED BY <2>1, <2>2
<1>8. \A r \in Syncers : ~Commit(r)
  BY <1>2, <1>4 DEF Commit
<1>9. \A r \in Syncers, f \in Files : ~Skip(r, f) /\ ~Check(r, f)
  BY <1>2 DEF Skip, Check
<1>10. \A r \in Syncers, f \in Files : ~Abort(r, f)
  <2> SUFFICES ASSUME NEW r \in Syncers, NEW f \in Files, Abort(r, f) PROVE FALSE
    OBVIOUS
  <2>1. pass[r].pc = "write" /\ \E x : Resets(r, x)
    BY DEF Abort
  <2> QED BY <1>3, <2>1
<1>11. ~AddTask /\ ~TypeLine /\ ~RemoveLine /\ ~ChangeText /\ ~ChangeProject
  <2>1. pass' # pass
    BY <1>1
  <2> QED BY <2>1, Zenon DEF AddTask, TypeLine, RemoveLine, ChangeText, ChangeProject, Edit
<1>12. \A r \in Syncers, f \in Files : Rename(r, f) => r = s
  BY <1>2 DEF Rename
<1> QED
  BY <1>5, <1>6, <1>7, <1>8, <1>9, <1>10, <1>11, <1>12 DEF Next, PassStep

\* The inbox is not synced: a pass that rewrites it keeps its lines.
THEOREM InboxLeftAlone == Spec => InboxUntouched
<1> DEFINE Kept ==
      \A s \in Syncers : ReplacesInbox(s) =>
        \A i \in DOMAIN pass[s].read[Canon(Inbox)] :
          pass[s].read[Canon(Inbox)][i].id = NoId \/ InboxLineKept(s, i)
<1>1. SyncInv /\ [Next]_vars => [Kept]_vars
  <2> SUFFICES ASSUME SyncInv, Next, NEW s \in Syncers, ReplacesInbox(s),
                      NEW i \in DOMAIN pass[s].read[Canon(Inbox)],
                      pass[s].read[Canon(Inbox)][i].id # NoId
               PROVE  InboxLineKept(s, i)
    OBVIOUS
  <2>0. pass[s].pc = "rename" /\ WriteOrder[pass[s].k] = Canon(Inbox) /\ pass'[s].pc = "write"
    BY DEF ReplacesInbox
  <2>1. PICK f \in Files : Rename(s, f)
    BY <2>0, ReplacesByRename
  <2>2. f = Canon(Inbox) /\ file' = [file EXCEPT ![f] = pass[s].plan[f]]
    BY <2>0, <2>1 DEF Rename, Writing
  <2>3. file'[Canon(Inbox)] = pass[s].plan[Canon(Inbox)]
    BY <2>2, Typed DEF SyncInv
  <2>4. InboxPlanned(s) /\ InWrite(s)
    BY <2>0 DEF SyncInv, PassOK, InWrite
  <2> QED BY <2>3, <2>4 DEF InboxPlanned, InboxLineKept
<1> QED
  BY <1>1, SyncInvariant, PTL DEF Spec, InboxUntouched
=============================================================================
