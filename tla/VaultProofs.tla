---------------------------- MODULE VaultProofs ----------------------------
(***************************************************************************)
(* Proofs about what happens to the user's files: the triage screen, the   *)
(* due-today notifier, a task file with several writers, the triage of the *)
(* inbox and its proposals, and a recurring task, each for every value of  *)
(* its constants.                                                          *)
(***************************************************************************)
EXTENDS TriageScreen, DueToday, TaskEdits, InboxTriage, InboxRefine, Recurrence,
        WellFoundedInduction, FiniteSetTheorems, TLAPS

---------------------------------------------------------------------------
(* Facts about numbers and sequences                                       *)

\* A set of numbers that is not empty has a least member.
LEMMA LeastExists ==
  ASSUME NEW T, T \subseteq Nat, T # {}
  PROVE  \E x \in T : \A y \in T : x <= y
<1> DEFINE R == OpToRel(<, Nat)
<1>1. \A x, y \in Nat : x < y => <<x, y>> \in R
  BY DEF OpToRel
<1>2. IsWellFoundedOn(R, Nat)
  BY NatLessThanWellFounded
<1> HIDE DEF R
<1>3. PICK x \in T : \A y \in T : ~ (<<y, x>> \in R)
  BY <1>2, WFMin
<1>4. \A y \in T : ~ (y < x)
  BY <1>1, <1>3
<1>5. \A y \in T : x <= y
  BY <1>4
<1> QED
  BY <1>5

\* What is left of a sequence without its first element.
LEMMA TailOf ==
  ASSUME NEW S, NEW s \in Seq(S), s # <<>>
  PROVE  /\ Tail(s) \in Seq(S)
         /\ \A i \in DOMAIN Tail(s) : i + 1 \in DOMAIN s /\ Tail(s)[i] = s[i + 1]
         /\ Len(s) # 1 => Tail(s) # <<>>
<1>1. /\ Tail(s) \in Seq(S) /\ Len(Tail(s)) = Len(s) - 1 /\ Len(s) \in Nat /\ Len(s) # 0
      /\ \A i \in DOMAIN Tail(s) : i + 1 \in DOMAIN s /\ Tail(s)[i] = s[i + 1]
  OBVIOUS
<1>2. Len(s) # 1 => Len(Tail(s)) # 0
  BY <1>1
<1> QED
  BY <1>1, <1>2

---------------------------------------------------------------------------
(* The triage screen                                                       *)

ScreenType ==
  /\ screen \in [view : {"list", "card"}, cursor : Cards, offset : Nat, height : Nat]
  /\ chosen \in [Cards -> TriageActions \cup {Skip}] /\ decided \in [Cards -> BOOLEAN]
  /\ typed \in [Cards -> TriageActions \cup {Skip, Undecided}]

\* scroll puts the cursor row into the window and leaves no empty rows below
\* the list, from whatever window it starts.
LEMMA ScrollShows ==
  ASSUME NEW s \in [view : {"list", "card"}, cursor : Cards, offset : Nat, height : Nat]
  PROVE  /\ Scrolled(s) \in [view : {"list", "card"}, cursor : Cards, offset : Nat, height : Nat]
         /\ Scrolled(s).view = s.view /\ Scrolled(s).cursor = s.cursor
         /\ Scrolled(s).height = s.height
         /\ Scrolled(s).cursor \in Scrolled(s).offset + 1 ..
                                   Scrolled(s).offset + PageSize(Scrolled(s).height)
         /\ \/ Scrolled(s).offset + PageSize(Scrolled(s).height) <= NCards
            \/ Scrolled(s).offset = 0
<1> USE ScreenAssumption DEF Cards
<1> DEFINE page == PageSize(s.height)
           up == IF s.cursor - 1 < s.offset THEN s.cursor - 1 ELSE s.offset
           down == IF s.cursor - 1 >= up + page THEN s.cursor - page ELSE up
           off == Clamp(down, 0, IF NCards > page THEN NCards - page ELSE 0)
<1>1. s.cursor \in Cards /\ s.offset \in Nat /\ s.height \in Nat
  OBVIOUS
<1>2. page \in Nat /\ page > 0
  BY <1>1 DEF PageSize, ListChrome
<1>3. Scrolled(s) = [s EXCEPT !.offset = off]
  BY DEF Scrolled
<1> HIDE DEF page
<1>4. /\ off \in Nat /\ s.cursor \in off + 1 .. off + page
      /\ off + page <= NCards \/ off = 0
  BY <1>1, <1>2, SMTT(30) DEF Clamp
<1> HIDE DEF off
<1>5. /\ Scrolled(s).view = s.view /\ Scrolled(s).cursor = s.cursor
      /\ Scrolled(s).height = s.height /\ Scrolled(s).offset = off
      /\ Scrolled(s) \in [view : {"list", "card"}, cursor : Cards, offset : Nat, height : Nat]
  BY <1>3, <1>4
<1>6. PageSize(Scrolled(s).height) = page
  BY <1>5 DEF page
<1> QED
  BY <1>4, <1>5, <1>6

\* A cursor that is moved stays on a row.
LEMMA ClampStays ==
  ASSUME NEW c \in Int
  PROVE  Clamp(c, 1, NCards) \in Cards
BY ScreenAssumption DEF Clamp, Cards

\* A row that has a key counts as decided, so that accepting all passes it over.
TypedOK == \A i \in Cards : typed[i] # Undecided => decided[i]

ScreenInv == ScreenType /\ CursorInWindow /\ AppliesWhatWasTyped /\ TypedOK

\* The screen opens on the first row, with nothing decided.
LEMMA ScreenInvInit == ScreenInit => ScreenInv
<1> SUFFICES ASSUME ScreenInit PROVE ScreenInv
  OBVIOUS
<1>1. 1 \in Cards /\ PageSize(20) = 13
  BY ScreenAssumption DEF Cards, PageSize, ListChrome
<1>2. ScreenType
  BY <1>1 DEF ScreenInit, ScreenType
<1>3. CursorInWindow
  <2>1. screen.cursor = 1 /\ screen.offset = 0 /\ screen.height = 20
    BY DEF ScreenInit
  <2>2. 1 \in 0 + 1 .. 0 + 13
    OBVIOUS
  <2> QED
    BY <1>1, <2>1, <2>2 DEF CursorInWindow
<1>4. AppliesWhatWasTyped /\ TypedOK
  BY DEF ScreenInit, AppliesWhatWasTyped, TypedOK
<1> QED
  BY <1>2, <1>3, <1>4 DEF ScreenInv

\* Where a key or a resize may leave the screen.
LEMMA ScreenMoves ==
  ASSUME ScreenType, CursorInWindow, ScreenNext
  PROVE  /\ screen' \in [view : {"list", "card"}, cursor : Cards, offset : Nat, height : Nat]
         /\ CursorInWindow'
<1> DEFINE S == [view : {"list", "card"}, cursor : Cards, offset : Nat, height : Nat]
<1>0. screen \in S /\ screen.cursor \in Int /\ PageSize(screen.height) \in Int /\ NCards \in Int
  BY ScreenAssumption DEF ScreenType, Cards, PageSize, ListChrome
<1>1. SUFFICES \/ \E s \in S : screen' = Scrolled(s)
               \/ screen' \in S /\ screen'.view = "card"
               \/ UNCHANGED screen
  BY <1>0, ScrollShows DEF CursorInWindow
<1>2. ASSUME NEW c \in Int, MoveTo(c)
      PROVE  \E s \in S : screen' = Scrolled(s)
  <2>1. [screen EXCEPT !.cursor = Clamp(c, 1, NCards)] \in S
    BY <1>0, ClampStays
  <2> QED
    BY <1>2, <2>1 DEF MoveTo
<1>3. CASE \E h \in Heights : Resize(h)
  <2> PICK h \in Heights : Resize(h)
    BY <1>3
  <2>1. [screen EXCEPT !.height = h] \in S
    BY <1>0, ScreenAssumption
  <2> QED
    BY <2>1 DEF Resize
<1>4. CASE ListMove
  <2> PICK c \in {screen.cursor - 1, screen.cursor + 1, screen.cursor - PageSize(screen.height),
                  screen.cursor + PageSize(screen.height), 1, NCards} : MoveTo(c)
    BY <1>4 DEF ListMove
  <2>1. c \in Int
    BY <1>0
  <2> QED
    BY <1>2, <2>1
<1>5. CASE ListDecide
  <2>1. screen.cursor + 1 \in Int
    BY <1>0
  <2>2. MoveTo(screen.cursor + 1)
    BY <1>5 DEF ListDecide
  <2> QED
    BY <1>2, <2>1, <2>2
<1>6. CASE AcceptAll
  BY <1>0, <1>2, <1>6 DEF AcceptAll
<1>7. CASE OpenCard
  BY <1>0, <1>7 DEF OpenCard
<1>8. CASE CardMove
  <2> PICK c \in {screen.cursor - 1, screen.cursor + 1} :
         screen' = [screen EXCEPT !.cursor = Clamp(c, 1, NCards)]
    BY <1>8 DEF CardMove
  <2>1. c \in Int
    BY <1>0
  <2>2. screen.view = "card"
    BY <1>8 DEF CardMove
  <2> QED
    BY <1>0, <2>1, <2>2, ClampStays
<1>9. CASE CardDecide
  <2>1. screen.cursor + 1 \in Int
    BY <1>0
  <2>2. /\ screen.view = "card"
        /\ screen' = [screen EXCEPT !.cursor = Clamp(screen.cursor + 1, 1, NCards)]
    BY <1>9 DEF CardDecide
  <2> QED
    BY <1>0, <2>1, <2>2, ClampStays
<1>10. CASE CloseCard
  <2>1. [screen EXCEPT !.view = "list"] \in S
    BY <1>0
  <2> QED
    BY <1>10, <2>1 DEF CloseCard
<1>11. CASE \E mode \in {"applied", "quit"} : Leave(mode)
  BY <1>11 DEF Leave
<1> QED
  BY <1>3, <1>4, <1>5, <1>6, <1>7, <1>8, <1>9, <1>10, <1>11 DEF ScreenNext

\* What a step does to the decisions.
LEMMA ScreenDecides ==
  ASSUME ScreenType, AppliesWhatWasTyped, TypedOK, ScreenNext
  PROVE  /\ chosen' \in [Cards -> TriageActions \cup {Skip}] /\ decided' \in [Cards -> BOOLEAN]
         /\ typed' \in [Cards -> TriageActions \cup {Skip, Undecided}]
         /\ AppliesWhatWasTyped' /\ TypedOK'
<1> USE ScreenAssumption
<1>1. ASSUME NEW a \in KeyActions, SetRow(a)
      PROVE  /\ chosen' \in [Cards -> TriageActions \cup {Skip}]
             /\ decided' \in [Cards -> BOOLEAN]
             /\ typed' \in [Cards -> TriageActions \cup {Skip, Undecided}]
             /\ AppliesWhatWasTyped' /\ TypedOK'
  <2>1. screen.cursor \in Cards /\ a \in TriageActions \cup {Skip}
    BY <1>1 DEF ScreenType, KeyActions
  <2>2. a # Undecided
    BY <2>1 DEF Undecided, Skip, TriageActions
  <2> QED
    BY <1>1, <2>1, <2>2 DEF SetRow, ScreenType, AppliesWhatWasTyped, TypedOK
<1>2. CASE UNCHANGED <<chosen, decided, typed>>
  BY <1>2 DEF ScreenType, AppliesWhatWasTyped, TypedOK
<1>3. CASE AcceptAll
  <2>1. /\ chosen' = [i \in Cards |-> IF decided[i] THEN chosen[i] ELSE Proposed[i]]
        /\ decided' = [i \in Cards |-> TRUE] /\ typed' = typed
    BY <1>3 DEF AcceptAll
  <2>2. /\ chosen' \in [Cards -> TriageActions \cup {Skip}] /\ decided' \in [Cards -> BOOLEAN]
        /\ typed' \in [Cards -> TriageActions \cup {Skip, Undecided}]
    BY <2>1 DEF ScreenType
  <2>3. AppliesWhatWasTyped' /\ TypedOK'
    BY <2>1 DEF AppliesWhatWasTyped, TypedOK
  <2> QED
    BY <2>2, <2>3
<1> QED
  BY <1>1, <1>2, <1>3
     DEF ScreenNext, Resize, ListMove, ListDecide, OpenCard, CardMove, CardDecide, CloseCard,
         Leave

\* Every key keeps the screen faithful.
LEMMA ScreenInvStep == ScreenInv /\ [ScreenNext]_screenVars => ScreenInv'
<1> SUFFICES ASSUME ScreenInv, [ScreenNext]_screenVars PROVE ScreenInv'
  OBVIOUS
<1>1. CASE ScreenNext
  BY <1>1, ScreenMoves, ScreenDecides DEF ScreenInv, ScreenType
<1>2. CASE UNCHANGED screenVars
  BY <1>2 DEF screenVars, ScreenInv, ScreenType, CursorInWindow, AppliesWhatWasTyped, TypedOK
<1> QED
  BY <1>1, <1>2

\* A row inside the window is drawn, and with room for it on the screen.
LEMMA WindowShown ==
  ASSUME ScreenType, CursorInWindow
  PROVE  CursorInView
<1> SUFFICES ASSUME screen.view = "list" PROVE CursorInView
  BY DEF CursorInView
<1> DEFINE page == PageSize(screen.height)
           cursor == screen.cursor
           offset == screen.offset
           height == screen.height
<1>1. /\ cursor \in Int /\ offset \in Nat /\ height \in Nat /\ NCards \in Nat
      /\ cursor <= NCards /\ offset < cursor /\ cursor <= offset + page
  BY ScreenAssumption DEF ScreenType, CursorInWindow, Cards, PageSize, ListChrome
<1>2. page \in Nat /\ (height > 7 => page = height - 7)
  BY <1>1 DEF PageSize, ListChrome
<1> DEFINE d == IF NCards - offset < page THEN NCards - offset ELSE page
<1>3. CursorLine(screen) = 3 + cursor - offset /\ Lines(screen) = 3 + d + 5 /\ Drawn(screen) = d
  BY DEF CursorLine, Lines, Drawn
<1> HIDE DEF page, cursor, offset, height
<1>4. d \in Int /\ d <= page /\ cursor - offset <= d
  BY <1>1, <1>2
<1> HIDE DEF d
<1>5. 3 < 3 + cursor - offset /\ 3 + cursor - offset <= 3 + d
  BY <1>1, <1>4
<1>6. ASSUME height > 7
      PROVE  3 + cursor - offset \in 3 + d + 5 - height + 1 .. height
  <2>1. page = height - 7
    BY <1>2, <1>6
  <2>2. 3 + d + 5 - height + 1 <= 3 + cursor - offset
    BY <2>1, <1>1, <1>4
  <2>3. 3 + cursor - offset <= height
    BY <2>1, <1>1
  <2> QED
    BY <2>2, <2>3, <1>1, <1>4
<1>7. ASSUME screen.height > ListChrome
      PROVE  CursorLine(screen) \in Lines(screen) - screen.height + 1 .. screen.height
  <2>1. screen.height = height
    BY DEF height
  <2>2. height > 7
    BY <2>1, <1>7 DEF ListChrome
  <2>3. 3 + cursor - offset \in 3 + d + 5 - height + 1 .. height
    BY <2>2, <1>6
  <2>4. CursorLine(screen) \in Lines(screen) - height + 1 .. height
    BY <2>3, <1>1, <1>3, <1>4
  <2> QED
    BY <2>4, <2>1
<1> QED
  BY <1>3, <1>5, <1>7 DEF CursorInView

\* The triage screen of qi inbox acts on a row it draws and applies what was
\* typed, for any number of captures and any sequence of window sizes.
THEOREM ScreenIsFaithful == ScreenSpec => []ScreenFaithful
<1>1. ScreenInv => ScreenFaithful
  BY WindowShown DEF ScreenInv, ScreenFaithful
<1> QED
  BY <1>1, ScreenInvInit, ScreenInvStep, PTL DEF ScreenSpec

---------------------------------------------------------------------------
(* The due-today notifier                                                  *)

\* A moment is a day and a time of day.
LEMMA DayTime ==
  ASSUME NEW t \in Nat
  PROVE  /\ Day(t) \in Nat /\ TimeOfDay(t) \in 0 .. DayLength - 1
         /\ t = DayLength * Day(t) + TimeOfDay(t)
BY DueTodayAssumption DEF Day, TimeOfDay

\* Two days are a day's length apart, or more.
LEMMA DayApart ==
  ASSUME NEW q \in Nat, NEW k \in Nat, q < k
  PROVE  DayLength * k >= DayLength * q + DayLength
<1> USE DueTodayAssumption
<1> DEFINE j == k - q - 1
<1>1. j \in Nat /\ k = q + 1 + j
  OBVIOUS
<1> HIDE DEF j
<1>2. DayLength * k = DayLength * q + DayLength + DayLength * j
  BY <1>1
<1>3. DayLength * j \in Nat /\ DayLength * q \in Nat
  BY <1>1
<1> QED
  BY <1>2, <1>3

\* Its day and its time of day are the only ones that make up a moment.
LEMMA DayUnique ==
  ASSUME NEW t \in Nat, NEW k \in Nat, NEW m \in 0 .. DayLength - 1, t = DayLength * k + m
  PROVE  Day(t) = k /\ TimeOfDay(t) = m
<1> USE DueTodayAssumption
<1>1. Day(t) \in Nat /\ TimeOfDay(t) \in 0 .. DayLength - 1 /\ t = DayLength * Day(t) + TimeOfDay(t)
  BY DayTime
<1> DEFINE q == Day(t) r == TimeOfDay(t) a == DayLength * k b == DayLength * q
<1>2. a \in Nat /\ b \in Nat /\ a + m = b + r
  BY <1>1
<1>3. ~ (q < k)
  <2> SUFFICES ASSUME q < k PROVE FALSE
    OBVIOUS
  <2>1. a >= b + DayLength
    BY <1>1, DayApart
  <2> HIDE DEF a, b, q, r
  <2> QED
    BY <1>1, <1>2, <2>1 DEF q, r
<1>4. ~ (k < q)
  <2> SUFFICES ASSUME k < q PROVE FALSE
    OBVIOUS
  <2>1. b >= a + DayLength
    BY <1>1, DayApart
  <2> HIDE DEF a, b, q, r
  <2> QED
    BY <1>1, <1>2, <2>1 DEF q, r
<1>5. q = k
  BY <1>1, <1>3, <1>4
<1> QED
  BY <1>1, <1>2, <1>5

\* The moment after: a tick later, or the start of the next day.
LEMMA DayTick ==
  ASSUME NEW t \in Nat
  PROVE  IF TimeOfDay(t) = DayLength - 1
         THEN Day(t + 1) = Day(t) + 1 /\ TimeOfDay(t + 1) = 0
         ELSE Day(t + 1) = Day(t) /\ TimeOfDay(t + 1) = TimeOfDay(t) + 1
<1> USE DueTodayAssumption
<1>1. Day(t) \in Nat /\ TimeOfDay(t) \in 0 .. DayLength - 1 /\ t = DayLength * Day(t) + TimeOfDay(t)
  BY DayTime
<1>2. CASE TimeOfDay(t) = DayLength - 1
  <2>1. t + 1 = DayLength * (Day(t) + 1) + 0
    BY <1>1, <1>2
  <2> QED
    BY <1>1, <1>2, <2>1, DayUnique
<1>3. CASE TimeOfDay(t) # DayLength - 1
  <2>1. t + 1 = DayLength * Day(t) + (TimeOfDay(t) + 1) /\ TimeOfDay(t) + 1 \in 0 .. DayLength - 1
    BY <1>1, <1>3
  <2> QED
    BY <1>1, <1>3, <2>1, DayUnique
<1> QED
  BY <1>2, <1>3

DueType ==
  /\ at \in 0 .. DayLength - 1 /\ wall \in Nat /\ Day(wall) \in Days
  /\ left \in Nat \cup {NoTimer} /\ fired \in [Days -> Seq(Nat)] /\ skewed \in BOOLEAN

\* Ticks from time of day m to the next time the notifier is due.
Wait(m) == IF m < at THEN at - m ELSE at + DayLength - m

\* A timer that was not disturbed runs out when the notification is due, and a
\* day on which it was disturbed, or on which there is none, is exempt.
TimerOK ==
  /\ left = NoTimer => ~skewed /\ Day(wall) \in exempt
  /\ skewed => Day(wall) \in exempt
  /\ ~skewed /\ left # NoTimer =>
       left = Wait(TimeOfDay(wall)) \/ (left = 0 /\ TimeOfDay(wall) = at)

\* The days that were left alone have the notification of the past.
FiredOK ==
  \A d \in Days \ exempt :
    fired[d] = IF d < Day(wall) \/ (d = Day(wall) /\ at <= TimeOfDay(wall) /\ left # 0)
               THEN <<at>> ELSE <<>>

DueInv == DueType /\ TimerOK /\ FiredOK

\* nextFire is the wait from the time of day it is called at.
LEMMA NextFireWaits ==
  ASSUME at \in 0 .. DayLength - 1, NEW t \in Nat
  PROVE  /\ NextFire(t) - t = Wait(TimeOfDay(t))
         /\ Wait(TimeOfDay(t)) \in Nat \ {0}
<1> USE DueTodayAssumption
<1>1. Day(t) \in Nat /\ TimeOfDay(t) \in 0 .. DayLength - 1 /\ t = DayLength * Day(t) + TimeOfDay(t)
  BY DayTime
<1> DEFINE start == Day(t) * DayLength
<1>2. start \in Nat /\ t = start + TimeOfDay(t)
  BY <1>1
<1>3. NextFire(t) = IF start + at <= t THEN start + at + DayLength ELSE start + at
  BY DEF NextFire
<1> HIDE DEF start
<1>4. TimeOfDay(t) \in 0 .. DayLength - 1 /\ DayLength \in Nat /\ DayLength # 0
  BY <1>1
<1>5. start + at <= t <=> at <= TimeOfDay(t)
  BY <1>2, <1>4
<1>6. NextFire(t) - t = Wait(TimeOfDay(t))
  BY <1>2, <1>3, <1>4, <1>5 DEF Wait
<1>7. Wait(TimeOfDay(t)) \in Nat \ {0}
  BY <1>4 DEF Wait
<1> QED
  BY <1>6, <1>7

\* The first timer is set on a day that is exempt.
LEMMA DueInvInit == DueInit => DueInv
<1> USE DueTodayAssumption
<1> SUFFICES ASSUME DueInit PROVE DueInv
  OBVIOUS
<1>1. at \in 0 .. DayLength - 1 /\ wall \in Nat /\ wall \in 0 .. DayLength - 1
  BY DEF DueInit
<1>2. Day(wall) = 0 /\ TimeOfDay(wall) = wall
  <2>1. wall = DayLength * 0 + wall
    BY <1>1
  <2> QED
    BY <1>1, <2>1, DayUnique
<1>3. left = Wait(TimeOfDay(wall)) /\ left \in Nat \ {0}
  BY <1>1, NextFireWaits DEF DueInit
<1>4. DueType
  <2>1. Day(wall) \in Days
    BY <1>2 DEF Days
  <2>2. fired \in [Days -> Seq(Nat)]
    BY DEF DueInit
  <2> QED
    BY <1>1, <1>3, <2>1, <2>2 DEF DueInit, DueType
<1>5. TimerOK
  BY <1>2, <1>3 DEF DueInit, TimerOK, NoTimer
<1>6. FiredOK
  BY <1>2 DEF DueInit, FiredOK, Days
<1> QED
  BY <1>4, <1>5, <1>6 DEF DueInv

\* A tick.
LEMMA DueTick ==
  ASSUME DueInv, Tick
  PROVE  DueInv'
<1> USE DueTodayAssumption DEF NoTimer
<1> DEFINE m == TimeOfDay(wall)
<1>1. /\ at \in 0 .. DayLength - 1 /\ wall \in Nat /\ Day(wall) \in Nat /\ m \in 0 .. DayLength - 1
      /\ left \in Nat \cup {-1} /\ left # 0 /\ skewed \in BOOLEAN
  BY DayTime DEF DueInv, DueType, Tick
<1>2. /\ wall' = wall + 1 /\ left' = (IF left = -1 THEN -1 ELSE left - 1)
      /\ at' = at /\ fired' = fired /\ skewed' = skewed /\ Day(wall)' \in Days
  BY DEF Tick, Day
<1>3. /\ exempt \subseteq exempt'
      /\ skewed \/ left = -1 => exempt' = exempt \cup {Day(wall)'}
  BY DEF Tick, Day
<1>4. IF m = DayLength - 1
      THEN Day(wall)' = Day(wall) + 1 /\ TimeOfDay(wall)' = 0
      ELSE Day(wall)' = Day(wall) /\ TimeOfDay(wall)' = m + 1
  BY <1>1, <1>2, DayTick DEF Day, TimeOfDay
<1> HIDE DEF m
<1>5. DueType'
  BY <1>1, <1>2 DEF DueInv, DueType
<1>6. TimerOK'
  <2>1. CASE skewed \/ left = -1
    BY <1>1, <1>2, <1>3, <2>1 DEF DueInv, TimerOK
  <2>2. CASE ~skewed /\ left # -1
    <3>1. left = Wait(m)
      BY <1>1, <2>2 DEF DueInv, TimerOK, m
    <3>2. left' = IF m < at THEN at - m - 1 ELSE at + DayLength - m - 1
      BY <1>1, <1>2, <2>2, <3>1 DEF Wait
    <3>3. left' = Wait(TimeOfDay(wall))' \/ (left' = 0 /\ TimeOfDay(wall)' = at)
      BY <1>1, <1>2, <1>4, <3>2 DEF Wait
    <3>4. ~skewed' /\ left' # -1
      BY <1>1, <1>2, <2>2
    <3> QED
      BY <1>2, <3>3, <3>4 DEF TimerOK
  <2> QED
    BY <2>1, <2>2
<1>7. FiredOK'
  <2> SUFFICES ASSUME NEW d \in Days, d \notin exempt'
               PROVE  fired[d] = IF d < Day(wall)' \/ (d = Day(wall)' /\ at <= TimeOfDay(wall)'
                                                       /\ left' # 0)
                                 THEN <<at>> ELSE <<>>
    BY <1>2 DEF FiredOK, Days
  <2>1. /\ d \notin exempt /\ d \in Nat
        /\ fired[d] = IF d < Day(wall) \/ (d = Day(wall) /\ at <= m)
                      THEN <<at>> ELSE <<>>
    BY <1>1, <1>3 DEF DueInv, FiredOK, Days, m
  <2>2. CASE d # Day(wall) /\ d # Day(wall)'
    BY <1>1, <1>4, <2>1, <2>2
  <2>3. CASE d = Day(wall) /\ d # Day(wall)'
    BY <1>1, <1>4, <2>1, <2>3
  <2>4. CASE d = Day(wall)'
    <3>1. ~skewed /\ left # -1
      BY <1>3, <2>4
    <3>2. left = Wait(m)
      BY <1>1, <3>1 DEF DueInv, TimerOK, m
    <3>3. left' = IF m < at THEN at - m - 1 ELSE at + DayLength - m - 1
      BY <1>1, <1>2, <3>1, <3>2 DEF Wait
    <3>4. (d < Day(wall) \/ (d = Day(wall) /\ at <= m)) <=>
            (d < Day(wall)' \/ (d = Day(wall)' /\ at <= TimeOfDay(wall)' /\ left' # 0))
      BY <1>1, <1>4, <2>1, <2>4, <3>3
    <3> QED
      BY <2>1, <3>4
  <2> QED
    BY <2>2, <2>3, <2>4
<1> QED
  BY <1>5, <1>6, <1>7 DEF DueInv

\* The callback.
LEMMA DueFires ==
  ASSUME DueInv, FireDue
  PROVE  DueInv'
<1> USE DueTodayAssumption DEF NoTimer
<1> DEFINE m == TimeOfDay(wall)
<1>1. /\ at \in 0 .. DayLength - 1 /\ wall \in Nat /\ Day(wall) \in Nat /\ m \in 0 .. DayLength - 1
      /\ left = 0 /\ skewed \in BOOLEAN /\ fired \in [Days -> Seq(Nat)] /\ Day(wall) \in Days
  BY DayTime DEF DueInv, DueType, FireDue
<1>2. /\ wall' = wall /\ at' = at /\ skewed' = FALSE /\ Day(wall)' = Day(wall)
      /\ TimeOfDay(wall)' = m
      /\ fired' = [fired EXCEPT ![Day(wall)] = Append(fired[Day(wall)], m)]
      /\ exempt \subseteq exempt' /\ (skewed => Day(wall) \in exempt')
  BY DEF FireDue, Day, TimeOfDay
<1>3. left' = Wait(m) /\ Wait(m) \in Nat \ {0} /\ Wait(TimeOfDay(wall))' = Wait(m)
  <2>1. left' = NextFire(wall) - wall
    BY DEF FireDue
  <2>2. Wait(TimeOfDay(wall))' = Wait(m)
    BY <1>2 DEF Wait
  <2> QED
    BY <1>1, <2>1, <2>2, NextFireWaits
<1> HIDE DEF m
<1>4. DueType'
  <2>1. Append(fired[Day(wall)], m) \in Seq(Nat)
    BY <1>1
  <2> QED
    BY <1>1, <1>2, <1>3, <2>1 DEF DueInv, DueType
<1>5. TimerOK'
  BY <1>2, <1>3 DEF TimerOK
<1>6. FiredOK'
  <2> SUFFICES ASSUME NEW d \in Days, d \notin exempt'
               PROVE  fired'[d] = IF d < Day(wall) \/ (d = Day(wall) /\ at <= m)
                                  THEN <<at>> ELSE <<>>
    BY <1>2, <1>3 DEF FiredOK, Days
  <2>1. /\ d \notin exempt /\ d \in Nat
        /\ fired[d] = IF d < Day(wall) THEN <<at>> ELSE <<>>
    BY <1>1, <1>2 DEF DueInv, FiredOK, Days, m
  <2>2. CASE d = Day(wall)
    <3>1. ~skewed
      BY <1>2, <2>2
    <3>2. m = at
      BY <1>1, <3>1 DEF DueInv, TimerOK, m, Wait
    <3>3. fired[d] = <<>>
      BY <1>1, <2>1, <2>2
    <3>4. fired'[d] = <<at>>
      BY <1>1, <1>2, <2>2, <3>2, <3>3
    <3> QED
      BY <1>1, <2>2, <3>2, <3>4
  <2>3. CASE d # Day(wall)
    BY <1>1, <1>2, <2>1, <2>3
  <2> QED
    BY <2>2, <2>3
<1> QED
  BY <1>4, <1>5, <1>6 DEF DueInv

\* A sleep, a change of the wall clock, a stop of qid and a start.
LEMMA DueUpset ==
  ASSUME DueInv, QidStops \/ QidStarts \/ \E to \in Nat : ClockMoves(to)
  PROVE  DueInv'
<1> USE DueTodayAssumption DEF NoTimer
<1>1. /\ at \in 0 .. DayLength - 1 /\ wall \in Nat /\ Day(wall) \in Nat /\ Day(wall) \in Days
      /\ TimeOfDay(wall) \in 0 .. DayLength - 1
  BY DayTime DEF DueInv, DueType
<1>2. CASE QidStops
  <2>1. /\ wall' = wall /\ at' = at /\ fired' = fired /\ skewed' = FALSE /\ left' = -1
        /\ exempt' = exempt \cup {Day(wall)}
    BY <1>2 DEF QidStops
  <2>2. Day(wall)' = Day(wall)
    BY <2>1 DEF Day
  <2>3. DueType'
    BY <2>1, <2>2 DEF DueInv, DueType
  <2>4. TimerOK'
    BY <2>1, <2>2 DEF TimerOK
  <2>5. FiredOK'
    BY <1>1, <2>1, <2>2 DEF DueInv, FiredOK, Days
  <2> QED
    BY <2>3, <2>4, <2>5 DEF DueInv
<1>3. CASE QidStarts
  <2>1. /\ wall' = wall /\ at' = at /\ fired' = fired /\ skewed' = skewed /\ exempt' = exempt
        /\ left = -1 /\ left' = Wait(TimeOfDay(wall)) /\ Wait(TimeOfDay(wall)) \in Nat \ {0}
    BY <1>1, <1>3, NextFireWaits DEF QidStarts
  <2>2. /\ Day(wall)' = Day(wall) /\ TimeOfDay(wall)' = TimeOfDay(wall)
        /\ Wait(TimeOfDay(wall))' = Wait(TimeOfDay(wall))
    BY <2>1 DEF Day, TimeOfDay, Wait
  <2>3. ~skewed /\ Day(wall) \in exempt
    BY <2>1 DEF DueInv, TimerOK
  <2>4. DueType'
    BY <2>1, <2>2 DEF DueInv, DueType
  <2>5. TimerOK'
    BY <2>1, <2>2, <2>3 DEF TimerOK
  <2>6. FiredOK'
    BY <2>1, <2>2, <2>3 DEF DueInv, FiredOK, Days
  <2> QED
    BY <2>4, <2>5, <2>6 DEF DueInv
<1>4. ASSUME NEW to \in Nat, ClockMoves(to)
      PROVE  DueInv'
  <2>1. /\ wall' = to /\ at' = at /\ fired' = fired /\ skewed' = TRUE /\ left' = left
        /\ left # -1 /\ Day(to) \in Days
        /\ exempt' = exempt \cup (Day(wall) .. Day(to)) \cup (Day(to) .. Day(wall))
    BY <1>4 DEF ClockMoves
  <2>2. Day(wall)' = Day(to) /\ Day(to) \in Nat
    BY <2>1, DayTime DEF Day
  <2>3. DueType'
    BY <2>1, <2>2 DEF DueInv, DueType
  <2>4. TimerOK'
    BY <1>1, <2>1, <2>2 DEF TimerOK
  <2>5. FiredOK'
    <3> SUFFICES ASSUME NEW d \in Days, d \notin exempt'
                 PROVE  fired[d] = IF d < Day(to) THEN <<at>> ELSE <<>>
      BY <1>1, <2>1, <2>2 DEF FiredOK, Days
    <3>1. d \in Nat /\ d \notin exempt /\ d \notin Day(wall) .. Day(to) /\ d \notin Day(to) .. Day(wall)
      BY <2>1 DEF Days
    <3>2. (d < Day(to) <=> d < Day(wall)) /\ d # Day(wall)
      BY <1>1, <2>2, <3>1
    <3> QED
      BY <3>1, <3>2 DEF DueInv, FiredOK
  <2> QED
    BY <2>3, <2>4, <2>5 DEF DueInv
<1> QED
  BY <1>2, <1>3, <1>4

\* Every step keeps the schedule.
LEMMA DueInvStep == DueInv /\ [DueNext]_dueVars => DueInv'
<1> SUFFICES ASSUME DueInv, [DueNext]_dueVars PROVE DueInv'
  OBVIOUS
<1>1. 0 .. (MaxDays + 1) * DayLength - 1 \subseteq Nat
  BY DueTodayAssumption
<1>2. CASE DueNext
  BY <1>1, <1>2, DueTick, DueFires, DueUpset DEF DueNext
<1>3. CASE UNCHANGED dueVars
  BY <1>3 DEF dueVars, DueInv, DueType, TimerOK, FiredOK, Wait, Day, TimeOfDay
<1> QED
  BY <1>2, <1>3

\* The notifier runs exactly once on every day that nothing disturbed, at the
\* configured time, for a day of any length and any number of disturbances.
THEOREM OneNotificationADay == DueSpec => []NotifiedOncePerDay
<1>1. DueInv => NotifiedOncePerDay
  BY DEF DueInv, FiredOK, NotifiedOncePerDay
<1> QED
  BY <1>1, DueInvInit, DueInvStep, PTL DEF DueSpec

---------------------------------------------------------------------------
(* A task file with several writers                                        *)

Stages == {"idle", "update", "append", "read", "open", "rename", "write", "ended"}
LineIds == TaskIds \cup Processes \cup {NoTaskId}
LineTexts == Texts \cup {"first", "typed", "added", "merged", ""}
LineType ==
  [id : LineIds, text : LineTexts, sched : Nat, done : BOOLEAN, recurs : BOOLEAN]
ProcType ==
  [stage : Stages, op : {"", "complete", "schedule", "add", "spawn"}, at : Nat,
   task : LineType, snap : Seq(LineType), beaten : BOOLEAN]

EditType ==
  /\ taskFile \in Seq(LineType) /\ newline \in BOOLEAN
  /\ holder \in Processes \cup {Nobody} /\ proc \in [Processes -> ProcType]

Holding == {"read", "rename", "open", "write"}
Appending == {"append", "open", "write"}

\* Only the process that holds the lock is between the read and the write.
HoldsOK == \A p \in Processes : proc[p].stage \in Holding => holder = p

\* What it read is what the file has, unless an editor saved since.
SnapOK ==
  \A p \in Processes :
    proc[p].stage \in {"rename", "write"} /\ ~proc[p].beaten => proc[p].snap = taskFile

\* The line it will replace is the line of the task, or one that is excused.
MatchOK ==
  \A p \in Processes :
    proc[p].stage = "rename" =>
      /\ proc[p].at \in DOMAIN proc[p].snap
      /\ \/ Key(proc[p].snap[proc[p].at]) = Key(proc[p].task)
         \/ Key(proc[p].snap[proc[p].at]) \in excused

\* What is appended has the id minted by the process.
MintedOK ==
  \A p \in Processes :
    proc[p].stage \in Appending => proc[p].task.id = p /\ proc[p].op \in {"add", "spawn"}

\* An id that a process has still to use, or is using for the task it adds.
Fresh(p) == proc[p].stage = "idle" \/ (proc[p].stage \in Appending /\ proc[p].op = "add")

\* Nobody knows such an id.
FreshOK ==
  \A p \in Processes :
    Fresh(p) =>
      /\ <<"id", p>> \notin known
      /\ \A i \in DOMAIN taskFile : taskFile[i].id # p
      /\ \A q \in Processes :
           /\ q # p => proc[q].task.id # p
           /\ \A i \in DOMAIN proc[q].snap : proc[q].snap[i].id # p

EditInv ==
  EditType /\ HoldsOK /\ SnapOK /\ MatchOK /\ MintedOK /\ FreshOK /\ TaskFileSafe

\* The lines the file starts with.
LEMMA FirstLines ==
  ASSUME EditsInit
  PROVE  /\ taskFile \in Seq(LineType)
         /\ \A i \in DOMAIN taskFile : taskFile[i].id \in TaskIds \cup {NoTaskId}
<1> USE TaskEditsAssumption
<1> DEFINE n == Cardinality(TaskIds)
           f == SetToSeq(TaskIds)
           L == [i \in 1 .. n |-> [Line(f[i], "first") EXCEPT !.recurs = (i = 1)]]
           T == <<Line(NoTaskId, "typed")>>
           Old == {line \in LineType : line.id \in TaskIds \cup {NoTaskId}}
<1>1. n \in Nat
  BY FS_CardinalityType
<1>2. f \in [1 .. n -> TaskIds]
  <2>1. ExistsBijection(1 .. n, TaskIds)
    BY FS_CardinalityType
  <2>2. \E g \in [1 .. n -> TaskIds] : IsInjective(g)
    BY <2>1 DEF ExistsBijection, Bijection, Injection
  <2> QED
    BY <2>2 DEF SetToSeq
<1> HIDE DEF n, f
<1>3. L \in Seq(Old)
  <2>1. \A i \in 1 .. n : [Line(f[i], "first") EXCEPT !.recurs = (i = 1)] \in Old
    BY <1>2 DEF Line, LineType, LineIds, LineTexts
  <2> HIDE DEF Old
  <2>2. L \in [1 .. n -> Old]
    BY <2>1
  <2> HIDE DEF L
  <2> QED
    BY <1>1, <2>2
<1>4. T \in Seq(Old)
  BY DEF Line, LineType, LineIds, LineTexts
<1>5. taskFile = L \o T
  BY DEF EditsInit, n, f
<1> HIDE DEF L, T
<1>6. taskFile \in Seq(Old)
  BY <1>3, <1>4, <1>5
<1> HIDE DEF Old
<1>7. \A i \in DOMAIN taskFile : taskFile[i] \in Old
  BY <1>6
<1>8. taskFile \in Seq(LineType)
  <2>1. Old \subseteq LineType
    BY DEF Old
  <2> QED
    BY <1>6, <2>1
<1> QED
  BY <1>7, <1>8 DEF Old

\* A process that has nothing to do.
LEMMA IdleIs ==
  /\ IdleProc \in ProcType /\ IdleProc.task.id = NoTaskId /\ IdleProc.snap = <<>>
  /\ IdleProc.stage = "idle" /\ IdleProc.beaten = FALSE
<1> DEFINE task == Line(NoTaskId, "")
<1>1. task \in LineType /\ task.id = NoTaskId
  BY DEF Line, LineType, LineIds, LineTexts
<1> HIDE DEF task
<1>2. IdleProc = [stage |-> "idle", op |-> "", at |-> 0, task |-> task, snap |-> <<>>,
                  beaten |-> FALSE]
  BY DEF IdleProc, task
<1>3. <<>> \in Seq(LineType) /\ 0 \in Nat /\ "idle" \in Stages
  BY DEF Stages
<1> QED
  BY <1>1, <1>2, <1>3 DEF ProcType

\* At first nobody has read anything.
LEMMA EditInvInit == EditsInit => EditInv
<1> SUFFICES ASSUME EditsInit PROVE EditInv
  OBVIOUS
<1>1. /\ taskFile \in Seq(LineType)
      /\ \A i \in DOMAIN taskFile : taskFile[i].id \in TaskIds \cup {NoTaskId}
  BY FirstLines
<1>2. \A p \in Processes : proc[p] = IdleProc
  BY DEF EditsInit
<1>3. EditType
  BY <1>1, IdleIs DEF EditsInit, EditType, Nobody
<1>4. HoldsOK /\ SnapOK /\ MatchOK /\ MintedOK
  BY <1>2, IdleIs DEF HoldsOK, SnapOK, MatchOK, MintedOK, Holding, Appending
<1>5. FreshOK
  <2> SUFFICES ASSUME NEW p \in Processes
               PROVE  /\ <<"id", p>> \notin known
                      /\ \A i \in DOMAIN taskFile : taskFile[i].id # p
                      /\ \A q \in Processes :
                           /\ q # p => proc[q].task.id # p
                           /\ \A i \in DOMAIN proc[q].snap : proc[q].snap[i].id # p
    BY DEF FreshOK
  <2>1. p \notin TaskIds \cup {NoTaskId}
    BY TaskEditsAssumption
  <2>2. \A i \in DOMAIN taskFile : Key(taskFile[i]) # <<"id", p>>
    BY <1>1, <2>1 DEF Key
  <2>3. known = KeysOf(taskFile)
    BY DEF EditsInit
  <2> QED
    BY <1>1, <1>2, <2>1, <2>2, <2>3, IdleIs DEF KeysOf
<1>6. TaskFileSafe
  BY DEF EditsInit, TaskFileSafe
<1> QED
  BY <1>3, <1>4, <1>5, <1>6 DEF EditInv

\* A process takes a step of its own: the others stay where they are.
Alone(p) ==
  /\ proc' \in [Processes -> ProcType]
  /\ \A q \in Processes \ {p} : proc'[q] = proc[q]

\* What is under way when one process moves.
LEMMA UnderwayMoves ==
  ASSUME NEW p \in Processes, Alone(p)
  PROVE  /\ \A k \in Underway : k \in Underway' \/ (proc[p].stage \in Appending /\ k = Key(proc[p].task))
         /\ proc'[p].stage \in Appending => Key(proc'[p].task) \in Underway'
<1>1. Underway' = {Key(proc'[q].task) : q \in {r \in Processes : proc'[r].stage \in Appending}}
  BY DEF Underway, Appending, Key
<1>2. Underway = {Key(proc[q].task) : q \in {r \in Processes : proc[r].stage \in Appending}}
  BY DEF Underway, Appending
<1> HIDE DEF Key
<1> QED
  BY <1>1, <1>2 DEF Alone

\* A process that moves on with a new record and leaves the file alone.
LEMMA FileKept ==
  ASSUME EditInv, NEW p \in Processes, Alone(p), UNCHANGED <<taskFile, newline, known>>,
         excused \subseteq excused', holder' \in Processes \cup {Nobody},
         \A q \in Processes \ {p} : proc[q].stage \in Holding => holder' = q,
         proc'[p].stage \in Holding => holder' = p,
         proc'[p].stage \in {"rename", "write"} => proc'[p].snap = taskFile,
         proc'[p].stage = "rename" =>
           /\ proc'[p].at \in DOMAIN proc'[p].snap
           /\ \/ Key(proc'[p].snap[proc'[p].at]) = Key(proc'[p].task)
              \/ Key(proc'[p].snap[proc'[p].at]) \in excused',
         proc'[p].stage \in Appending => proc'[p].task.id = p /\ proc'[p].op \in {"add", "spawn"},
         Fresh(p)' => Fresh(p),
         \A x \in Processes \ {p} :
           Fresh(x) => /\ proc'[p].task.id # x
                       /\ \A i \in DOMAIN proc'[p].snap : proc'[p].snap[i].id # x,
         \A i \in DOMAIN proc'[p].snap : Fresh(p)' => proc'[p].snap[i].id # p,
         proc[p].stage \in Appending =>
           \/ Key(proc[p].task) \in Underway' \/ Key(proc[p].task) \in excused'
           \/ Key(proc[p].task) \notin known
  PROVE  EditInv'
<1>1. EditType'
  BY DEF Alone, EditInv, EditType
<1>2. HoldsOK'
  BY DEF Alone, EditInv, HoldsOK
<1>3. SnapOK'
  BY DEF Alone, EditInv, SnapOK
<1>4. MatchOK'
  <2> SUFFICES ASSUME NEW q \in Processes, proc'[q].stage = "rename"
               PROVE  /\ proc'[q].at \in DOMAIN proc'[q].snap
                      /\ \/ Key(proc'[q].snap[proc'[q].at]) = Key(proc'[q].task)
                         \/ Key(proc'[q].snap[proc'[q].at]) \in excused'
    BY DEF MatchOK, Key
  <2>1. CASE q # p
    BY <2>1 DEF Alone, EditInv, MatchOK
  <2> QED
    BY <2>1
<1>5. MintedOK'
  BY DEF Alone, EditInv, MintedOK
<1>6. FreshOK'
  <2> SUFFICES ASSUME NEW x \in Processes, Fresh(x)'
               PROVE  /\ <<"id", x>> \notin known
                      /\ \A i \in DOMAIN taskFile : taskFile[i].id # x
                      /\ \A q \in Processes :
                           /\ q # x => proc'[q].task.id # x
                           /\ \A i \in DOMAIN proc'[q].snap : proc'[q].snap[i].id # x
    BY DEF FreshOK
  <2>1. Fresh(x)
    BY DEF Alone, Fresh
  <2>2. /\ <<"id", x>> \notin known
        /\ \A i \in DOMAIN taskFile : taskFile[i].id # x
        /\ \A q \in Processes :
             /\ q # x => proc[q].task.id # x
             /\ \A i \in DOMAIN proc[q].snap : proc[q].snap[i].id # x
    BY <2>1 DEF EditInv, FreshOK
  <2>3. CASE x = p
    BY <2>2, <2>3 DEF Alone
  <2>4. CASE x # p
    BY <2>1, <2>2, <2>4 DEF Alone
  <2> QED
    BY <2>3, <2>4
<1>7. TaskFileSafe'
  <2>1. KeysOf(taskFile)' = KeysOf(taskFile)
    BY DEF KeysOf, Key
  <2>2. \A k \in known : k \in excused \/ k \in Underway \/ k \in KeysOf(taskFile)
    BY DEF EditInv, TaskFileSafe
  <2>3. \A k \in known' : k \in excused' \/ k \in Underway' \/ k \in KeysOf(taskFile)'
    BY <2>1, <2>2, UnderwayMoves
  <2> QED
    BY <2>3 DEF TaskFileSafe
<1> QED
  BY <1>1, <1>2, <1>3, <1>4, <1>5, <1>6, <1>7 DEF EditInv

\* A task is picked from a listing, or one is to be added.
LEMMA PickStep ==
  ASSUME EditInv, NEW p \in Processes, NEW op \in {"complete", "schedule"}, Pick(p, op)
  PROVE  EditInv'
<1>1. PICK i \in DOMAIN taskFile :
        proc' = [proc EXCEPT ![p] = [IdleProc EXCEPT !.stage = "update", !.op = op, !.at = i,
                   !.task = [taskFile[i] EXCEPT
                               !.done = (op = "complete"),
                               !.sched = IF op = "schedule" THEN 1 ELSE @]]]
  BY DEF Pick
<1> DEFINE task == [taskFile[i] EXCEPT !.done = (op = "complete"),
                                       !.sched = IF op = "schedule" THEN 1 ELSE @]
<1>2. taskFile[i] \in LineType /\ i \in Nat
  BY DEF EditInv, EditType
<1>3. task \in LineType /\ task.id = taskFile[i].id
  BY <1>2 DEF LineType
<1> HIDE DEF task
<1>4. proc' = [proc EXCEPT ![p] = [IdleProc EXCEPT !.stage = "update", !.op = op, !.at = i,
                                                   !.task = task]]
  BY <1>1 DEF task
<1>5. /\ Alone(p) /\ proc'[p].stage = "update" /\ proc'[p].task.id = taskFile[i].id
      /\ proc'[p].snap = <<>>
  BY <1>2, <1>3, <1>4, IdleIs DEF EditInv, EditType, ProcType, Stages, Alone
<1>6. UNCHANGED <<taskFile, newline, holder, known, excused>> /\ proc[p].stage = "idle"
  BY DEF Pick
<1>7. \A x \in Processes \ {p} :
        Fresh(x) => /\ proc'[p].task.id # x
                    /\ \A j \in DOMAIN proc'[p].snap : proc'[p].snap[j].id # x
  <2>1. \A x \in Processes : Fresh(x) => taskFile[i].id # x
    BY DEF EditInv, FreshOK
  <2> QED
    BY <1>5, <2>1
<1>8. ~ Fresh(p)'
  BY <1>5 DEF Fresh, Appending
<1>9. /\ holder' \in Processes \cup {Nobody}
      /\ \A q \in Processes \ {p} : proc[q].stage \in Holding => holder' = q
  BY <1>6 DEF EditInv, EditType, HoldsOK
<1> QED
  BY <1>5, <1>6, <1>7, <1>8, <1>9, FileKept DEF Holding, Appending

\* A task with a new id is to be added.
LEMMA AddNewStep ==
  ASSUME EditInv, NEW p \in Processes, AddNew(p)
  PROVE  EditInv'
<1> DEFINE task == Line(p, "added")
<1>1. task \in LineType /\ task.id = p
  BY DEF Line, LineType, LineIds, LineTexts
<1> HIDE DEF task
<1>2. proc' = [proc EXCEPT ![p] = [IdleProc EXCEPT !.stage = "append", !.op = "add",
                                                   !.task = task]]
  BY DEF AddNew, task
<1>3. /\ Alone(p) /\ proc'[p].stage = "append" /\ proc'[p].task.id = p /\ proc'[p].op = "add"
      /\ proc'[p].snap = <<>>
  BY <1>1, <1>2, IdleIs DEF EditInv, EditType, ProcType, Stages, Alone
<1>4. UNCHANGED <<taskFile, newline, holder, known, excused>> /\ proc[p].stage = "idle"
  BY DEF AddNew
<1>5. Fresh(p)
  BY <1>4 DEF Fresh
<1>6. /\ holder' \in Processes \cup {Nobody}
      /\ \A q \in Processes \ {p} : proc[q].stage \in Holding => holder' = q
  BY <1>4 DEF EditInv, EditType, HoldsOK
<1> QED
  BY <1>3, <1>4, <1>5, <1>6, FileKept DEF Holding, Appending

\* The lock is taken, when nobody has it.
LEMMA LockFileStep ==
  ASSUME EditInv, NEW p \in Processes, LockFile(p)
  PROVE  EditInv'
<1> DEFINE to == IF proc[p].stage = "update" THEN "read" ELSE "open"
<1>1. /\ proc[p] \in ProcType /\ proc[p].stage \in {"update", "append"}
      /\ proc' = [proc EXCEPT ![p].stage = to]
      /\ UNCHANGED <<taskFile, newline, known, excused>> /\ holder = Nobody /\ holder' = p
  BY DEF LockFile, EditInv, EditType
<1>2. /\ Alone(p) /\ proc'[p].stage = to /\ proc'[p].task = proc[p].task
      /\ proc'[p].op = proc[p].op /\ proc'[p].snap = proc[p].snap
  BY <1>1 DEF EditInv, EditType, ProcType, Stages, Alone
<1>3. \A q \in Processes : proc[q].stage \notin Holding
  BY <1>1, TaskEditsAssumption DEF EditInv, HoldsOK, Nobody
<1>4. proc[p].stage \in Appending <=> to = "open"
  BY <1>1 DEF Appending
<1>5. Fresh(p)' => Fresh(p)
  BY <1>2, <1>4 DEF Fresh, Appending
<1>6. proc[p].stage \in Appending => Key(proc[p].task) \in Underway'
  BY <1>2, <1>4, UnderwayMoves DEF Appending
<1>7. proc[p].stage \in Appending => proc[p].task.id = p /\ proc[p].op \in {"add", "spawn"}
  BY DEF EditInv, MintedOK
<1>8. \A x \in Processes : Fresh(x) => /\ x # p => proc[p].task.id # x
                                       /\ \A i \in DOMAIN proc[p].snap : proc[p].snap[i].id # x
  BY DEF EditInv, FreshOK
<1> QED
  BY <1>1, <1>2, <1>3, <1>4, <1>5, <1>6, <1>7, <1>8, FileKept DEF Holding, Appending

\* The line the guard lets pass is the task's, or is excused.
LEMMA SameTaskKey ==
  ASSUME NEW line \in LineType, NEW task \in LineType, SameTask(line, task)
  PROVE  Key(line) = Key(task) \/ (task.id = NoTaskId /\ line.id # NoTaskId)
BY DEF SameTask, Key

\* The file is read and the line compared with the task.
LEMMA ReadLinesStep ==
  ASSUME EditInv, NEW p \in Processes, ReadLines(p)
  PROVE  EditInv'
<1> DEFINE i == proc[p].at
<1>1. /\ proc[p].stage = "read" /\ UNCHANGED <<taskFile, newline, known>>
      /\ proc[p] \in ProcType /\ proc[p].task \in LineType /\ taskFile \in Seq(LineType)
  BY DEF ReadLines, EditInv, EditType, ProcType
<1>2. holder = p /\ \A q \in Processes \ {p} : proc[q].stage \notin Holding
  BY <1>1 DEF EditInv, HoldsOK, Holding
<1>3. proc[p].stage \notin Appending
  BY <1>1 DEF Appending
<1>4. CASE i \in DOMAIN taskFile /\ SameTask(taskFile[i], proc[p].task)
  <2>1. /\ proc' = [proc EXCEPT ![p].stage = "rename", ![p].snap = taskFile]
        /\ excused' = IF proc[p].task.id = NoTaskId /\ taskFile[i].id # NoTaskId
                      THEN excused \cup {Key(taskFile[i])} ELSE excused
        /\ holder' = holder
    BY <1>4 DEF ReadLines
  <2>2. /\ Alone(p) /\ proc'[p].stage = "rename" /\ proc'[p].snap = taskFile
        /\ proc'[p].task = proc[p].task /\ proc'[p].at = i
    BY <1>1, <2>1 DEF EditInv, EditType, ProcType, Stages, Alone
  <2>3. taskFile[i] \in LineType
    BY <1>1, <1>4
  <2>4. Key(taskFile[i]) = Key(proc[p].task) \/ Key(taskFile[i]) \in excused'
    <3> HIDE DEF Key
    <3> QED
      BY <1>1, <1>4, <2>1, <2>3, SameTaskKey
  <2>5. excused \subseteq excused'
    BY <2>1
  <2>6. ~ Fresh(p)'
    BY <2>2 DEF Fresh, Appending
  <2>7. \A x \in Processes \ {p} :
          Fresh(x) => /\ proc'[p].task.id # x
                      /\ \A j \in DOMAIN proc'[p].snap : proc'[p].snap[j].id # x
    BY <2>2 DEF EditInv, FreshOK
  <2> QED
    BY <1>1, <1>2, <1>3, <1>4, <2>1, <2>2, <2>4, <2>5, <2>6, <2>7, FileKept
       DEF Holding, Appending
<1>5. CASE ~ (i \in DOMAIN taskFile /\ SameTask(taskFile[i], proc[p].task))
  <2>1. /\ proc' = [proc EXCEPT ![p] = [IdleProc EXCEPT !.stage = "ended"]]
        /\ holder' = Nobody /\ excused' = excused
    BY <1>5 DEF ReadLines, Ends
  <2>2. /\ Alone(p) /\ proc'[p].stage = "ended" /\ proc'[p].snap = <<>>
        /\ proc'[p].task.id = NoTaskId
    BY <2>1, IdleIs DEF EditInv, EditType, ProcType, Stages, Alone
  <2>3. ~ Fresh(p)'
    BY <2>2 DEF Fresh, Appending
  <2> QED
    BY <1>1, <1>2, <1>3, <2>1, <2>2, <2>3, TaskEditsAssumption, FileKept
       DEF Holding, Appending
<1> QED
  BY <1>4, <1>5

\* The file is opened for the append.
LEMMA OpenAppendStep ==
  ASSUME EditInv, NEW p \in Processes, OpenAppend(p)
  PROVE  EditInv'
<1>1. /\ proc[p] \in ProcType /\ proc[p].stage = "open" /\ taskFile \in Seq(LineType)
      /\ proc' = [proc EXCEPT ![p].stage = "write", ![p].snap = taskFile]
      /\ UNCHANGED <<taskFile, newline, holder, known, excused>>
  BY DEF OpenAppend, EditInv, EditType
<1>2. /\ Alone(p) /\ proc'[p].stage = "write" /\ proc'[p].task = proc[p].task
      /\ proc'[p].op = proc[p].op /\ proc'[p].snap = taskFile
  BY <1>1 DEF EditInv, EditType, ProcType, Stages, Alone
<1>3. holder = p /\ \A q \in Processes \ {p} : proc[q].stage \notin Holding
  BY <1>1 DEF EditInv, HoldsOK, Holding
<1>4. Fresh(p)' => Fresh(p)
  BY <1>1, <1>2 DEF Fresh, Appending
<1>5. Key(proc[p].task) \in Underway'
  BY <1>2, UnderwayMoves DEF Appending
<1>6. proc[p].task.id = p /\ proc[p].op \in {"add", "spawn"}
  BY <1>1 DEF EditInv, MintedOK, Appending
<1>7. \A x \in Processes : Fresh(x) => /\ x # p => proc[p].task.id # x
                                       /\ \A i \in DOMAIN taskFile : taskFile[i].id # x
  BY DEF EditInv, FreshOK
<1> QED
  BY <1>1, <1>2, <1>3, <1>4, <1>5, <1>6, <1>7, FileKept DEF Holding, Appending

\* A process dies: what it was to add was never promised, and the next
\* occurrence it owed is excused.
LEMMA KilledStep ==
  ASSUME EditInv, NEW p \in Processes, Killed(p)
  PROVE  EditInv'
<1>1. /\ proc[p].stage # "idle" /\ UNCHANGED <<taskFile, newline, known>>
      /\ proc' = [proc EXCEPT ![p] = [IdleProc EXCEPT !.stage = "ended"]]
      /\ holder' = IF holder = p THEN Nobody ELSE holder
      /\ excused' = IF proc[p].op = "spawn" THEN excused \cup {Key(proc[p].task)} ELSE excused
  BY DEF Killed
<1>2. /\ Alone(p) /\ proc'[p].stage = "ended" /\ proc'[p].snap = <<>>
      /\ proc'[p].task.id = NoTaskId
  BY <1>1, IdleIs DEF EditInv, EditType, ProcType, Stages, Alone
<1>3. ~ Fresh(p)'
  BY <1>2 DEF Fresh, Appending
<1>4. proc[p].stage \in Appending =>
        Key(proc[p].task) \in excused' \/ Key(proc[p].task) \notin known
  <2> SUFFICES ASSUME proc[p].stage \in Appending, proc[p].op # "spawn"
               PROVE  Key(proc[p].task) \notin known
    BY <1>1
  <2>1. proc[p].task.id = p /\ proc[p].op = "add"
    BY DEF EditInv, MintedOK
  <2>2. <<"id", p>> \notin known
    BY <2>1 DEF EditInv, FreshOK, Fresh
  <2> QED
    BY <2>1, <2>2, TaskEditsAssumption DEF Key
<1>5. /\ holder' \in Processes \cup {Nobody}
      /\ \A q \in Processes \ {p} : proc[q].stage \in Holding => holder' = q
  BY <1>1 DEF EditInv, EditType, HoldsOK
<1>6. excused \subseteq excused'
  BY <1>1
<1> QED
  BY <1>1, <1>2, <1>3, <1>4, <1>5, <1>6, TaskEditsAssumption, FileKept DEF Holding, Appending

\* The rename keeps every task of the lines that were read, but for the one
\* that is replaced by another's.
LEMMA RenameStep ==
  ASSUME EditInv, NEW p \in Processes, Rename(p)
  PROVE  EditInv'
<1> USE TaskEditsAssumption
<1> DEFINE snap == proc[p].snap
           i == proc[p].at
           task == proc[p].task
           new == [snap EXCEPT ![i] = task]
           recurs == proc[p].op = "complete" /\ task.recurs
           next == [Line(p, task.text) EXCEPT !.recurs = TRUE]
<1>1. /\ proc[p].stage = "rename" /\ taskFile' = new /\ newline' = newline /\ holder' = Nobody
      /\ excused' = IF proc[p].beaten THEN excused \cup (KeysOf(taskFile) \ KeysOf(snap))
                    ELSE excused
      /\ known' = known \cup KeysOf(new) \cup (IF recurs THEN {Key(next)} ELSE {})
  BY DEF Rename, Ends
<1>2. proc' = IF recurs
              THEN [proc EXCEPT ![p] = [IdleProc EXCEPT !.stage = "append", !.op = "spawn",
                                                        !.task = next]]
              ELSE [proc EXCEPT ![p] = [IdleProc EXCEPT !.stage = "ended"]]
  BY DEF Rename, Ends
<1>3. /\ snap \in Seq(LineType) /\ task \in LineType /\ taskFile \in Seq(LineType)
      /\ newline \in BOOLEAN /\ proc \in [Processes -> ProcType]
  BY DEF EditInv, EditType, ProcType
<1>4. /\ i \in DOMAIN snap /\ (Key(snap[i]) = Key(task) \/ Key(snap[i]) \in excused)
      /\ ~proc[p].beaten => snap = taskFile
  BY <1>1 DEF EditInv, MatchOK, SnapOK
<1>5. holder = p /\ \A q \in Processes \ {p} : proc[q].stage \notin Holding
  BY <1>1 DEF EditInv, HoldsOK, Holding
<1>6. next \in LineType /\ next.id = p /\ Key(next) = <<"id", p>>
  BY <1>3 DEF Line, LineType, LineIds, LineTexts, Key
<1> HIDE DEF next, recurs
<1>7. /\ Alone(p) /\ proc'[p].snap = <<>>
      /\ IF recurs THEN proc'[p].stage = "append" /\ proc'[p].op = "spawn" /\ proc'[p].task = next
         ELSE proc'[p].stage = "ended" /\ proc'[p].task.id = NoTaskId
  BY <1>2, <1>3, <1>6, IdleIs DEF ProcType, Stages, Alone
<1>8. /\ new \in Seq(LineType) /\ DOMAIN new = DOMAIN snap /\ new[i] = task
      /\ \A j \in DOMAIN snap : j # i => new[j] = snap[j]
  BY <1>3, <1>4
<1> HIDE DEF new, snap, i, task
<1>9. EditType'
  BY <1>1, <1>3, <1>7, <1>8 DEF Alone, EditType
<1>10. HoldsOK' /\ SnapOK' /\ MatchOK' /\ MintedOK'
  <2>1. \A q \in Processes : proc'[q].stage \notin Holding
    BY <1>5, <1>7 DEF Alone, Holding
  <2>2. MintedOK'
    BY <1>6, <1>7 DEF Alone, EditInv, MintedOK, Appending
  <2> QED
    BY <2>1, <2>2 DEF HoldsOK, SnapOK, MatchOK, Holding
<1>11. FreshOK'
  <2> SUFFICES ASSUME NEW x \in Processes, Fresh(x)'
               PROVE  /\ <<"id", x>> \notin known'
                      /\ \A j \in DOMAIN taskFile' : taskFile'[j].id # x
                      /\ \A q \in Processes :
                           /\ q # x => proc'[q].task.id # x
                           /\ \A j \in DOMAIN proc'[q].snap : proc'[q].snap[j].id # x
    BY DEF FreshOK
  <2>1. x # p
    BY <1>7 DEF Fresh, Appending
  <2>2. Fresh(x)
    BY <1>7, <2>1 DEF Alone, Fresh
  <2>3. /\ <<"id", x>> \notin known /\ task.id # x /\ \A j \in DOMAIN snap : snap[j].id # x
        /\ \A q \in Processes :
             /\ q # x => proc[q].task.id # x
             /\ \A j \in DOMAIN proc[q].snap : proc[q].snap[j].id # x
    BY <2>1, <2>2 DEF EditInv, FreshOK, task, snap
  <2>4. \A j \in DOMAIN new : new[j].id # x
    BY <1>8, <2>3
  <2>5. <<"id", x>> \notin KeysOf(new)
    BY <2>4 DEF KeysOf, Key
  <2>6. <<"id", x>> # Key(next)
    BY <1>6, <2>1
  <2>7. <<"id", x>> \notin known'
    BY <1>1, <2>3, <2>5, <2>6
  <2>8. \A q \in Processes : /\ q # x => proc'[q].task.id # x
                             /\ \A j \in DOMAIN proc'[q].snap : proc'[q].snap[j].id # x
    BY <1>6, <1>7, <2>1, <2>3 DEF Alone
  <2> QED
    BY <1>1, <2>4, <2>7, <2>8
<1>12. TaskFileSafe'
  <2> SUFFICES ASSUME NEW k \in known', k \notin excused', k \notin Underway'
               PROVE  k \in KeysOf(new)
    <3>1. KeysOf(taskFile)' = KeysOf(new)
      BY <1>1 DEF KeysOf, Key
    <3> QED
      BY <3>1 DEF TaskFileSafe
  <2>1. recurs => Key(next) \in Underway'
    BY <1>7, UnderwayMoves DEF Appending
  <2>2. CASE k \in known
    <3>1. k \notin excused
      BY <1>1
    <3>2. k \notin Underway
      BY <1>1, <1>7, UnderwayMoves DEF Appending
    <3>3. k \in KeysOf(taskFile)
      BY <2>2, <3>1, <3>2 DEF EditInv, TaskFileSafe
    <3>4. k \in KeysOf(snap)
      BY <1>1, <1>4, <3>3
    <3>5. PICK j \in DOMAIN snap : k = Key(snap[j])
      BY <3>4 DEF KeysOf
    <3>6. CASE j = i
      <4>1. k = Key(new[i])
        BY <1>4, <1>8, <3>1, <3>5, <3>6
      <4> QED
        BY <1>4, <1>8, <4>1 DEF KeysOf
    <3>7. CASE j # i
      <4>1. k = Key(new[j])
        BY <1>8, <3>5, <3>7
      <4> QED
        BY <1>8, <4>1 DEF KeysOf
    <3> QED
      BY <3>6, <3>7
  <2> QED
    BY <1>1, <2>1, <2>2
<1> QED
  BY <1>9, <1>10, <1>11, <1>12 DEF EditInv

\* The append adds its task and costs at most the line it is merged with.
LEMMA WriteAppendStep ==
  ASSUME EditInv, NEW p \in Processes, WriteAppend(p)
  PROVE  EditInv'
<1> USE TaskEditsAssumption
<1> DEFINE new == proc[p].task
<1>1. /\ proc[p].stage = "write" /\ known' = known \cup {Key(new)} /\ holder' = Nobody
      /\ proc' = [proc EXCEPT ![p] = [IdleProc EXCEPT !.stage = "ended"]]
  BY DEF WriteAppend, Ends
<1>2. /\ taskFile \in Seq(LineType) /\ new \in LineType /\ newline \in BOOLEAN
      /\ proc \in [Processes -> ProcType]
  BY DEF EditInv, EditType, ProcType
<1>3. /\ Alone(p) /\ proc'[p].stage = "ended" /\ proc'[p].snap = <<>>
      /\ proc'[p].task.id = NoTaskId
  BY <1>1, <1>2, IdleIs DEF ProcType, Stages, Alone
<1>4. holder = p /\ \A q \in Processes \ {p} : proc[q].stage \notin Holding
  BY <1>1 DEF EditInv, HoldsOK, Holding
<1>5. new.id = p /\ Key(new) = <<"id", p>>
  BY <1>1 DEF EditInv, MintedOK, Appending, Key
<1>6. ~proc[p].beaten => proc[p].snap = taskFile
  BY <1>1 DEF EditInv, SnapOK
<1> HIDE DEF new
<1>7. /\ taskFile' \in Seq(LineType) /\ newline' \in BOOLEAN /\ excused \subseteq excused'
      /\ \A j \in DOMAIN taskFile' :
           taskFile'[j].id = p \/ \E k \in DOMAIN taskFile : taskFile'[j].id = taskFile[k].id
      /\ \A k \in KeysOf(taskFile) : k \in KeysOf(taskFile') \/ k \in excused'
      /\ Key(new) \in KeysOf(taskFile') \/ Key(new) \in excused'
  <2>1. CASE (newline \/ Len(taskFile) = 0) /\ Appended(new) /\ newline' = TRUE
    <3>1. taskFile' = Append(taskFile, new) /\ excused' = excused
      BY <2>1 DEF Appended
    <3> DEFINE n == Len(taskFile)
    <3>2. /\ taskFile' \in Seq(LineType) /\ n \in Nat /\ DOMAIN taskFile = 1 .. n
          /\ DOMAIN taskFile' = 1 .. n + 1 /\ taskFile'[n + 1] = new
          /\ \A j \in 1 .. n : taskFile'[j] = taskFile[j]
      BY <1>2, <3>1
    <3> HIDE DEF n
    <3>3. n + 1 \in 1 .. n + 1 /\ \A j \in 1 .. n : j \in 1 .. n + 1
      BY <3>2
    <3>4. Key(new) \in KeysOf(taskFile')
      BY <3>2, <3>3 DEF KeysOf
    <3>5. \A k \in KeysOf(taskFile) : k \in KeysOf(taskFile')
      BY <3>2, <3>3 DEF KeysOf
    <3>6. \A j \in 1 .. n + 1 : j = n + 1 \/ j \in 1 .. n
      BY <3>2
    <3> QED
      BY <1>5, <2>1, <3>1, <3>2, <3>4, <3>5, <3>6
  <2>2. CASE ~newline /\ Len(taskFile) # 0 /\ Appended(new) /\ newline' = TRUE
    <3> DEFINE n == Len(taskFile)
               last == [taskFile[n] EXCEPT !.id = new.id, !.text = "merged"]
    <3>1. /\ taskFile' = [taskFile EXCEPT ![n] = last]
          /\ excused' = excused \cup {Key(taskFile[n])}
      <4>1. taskFile' = [taskFile EXCEPT ![n].id = new.id, ![n].text = "merged"]
        BY <2>2 DEF Appended
      <4>2. excused' = excused \cup {Key(taskFile[n])}
        BY <2>2 DEF Appended
      <4>3. n \in DOMAIN taskFile /\ taskFile[n] \in LineType
        BY <1>2, <2>2
      <4>4. [taskFile EXCEPT ![n].id = new.id, ![n].text = "merged"] = [taskFile EXCEPT ![n] = last]
        BY <1>2, <4>3 DEF LineType
      <4> QED
        BY <4>1, <4>2, <4>4
    <3>2. n \in DOMAIN taskFile /\ taskFile[n] \in LineType
      BY <1>2, <2>2
    <3>3. last \in LineType /\ last.id = p
      BY <1>5, <3>2 DEF LineType, LineIds, LineTexts
    <3>4. Key(last) = <<"id", p>>
      BY <3>3 DEF Key
    <3> HIDE DEF n, last
    <3>5. /\ taskFile' \in Seq(LineType) /\ DOMAIN taskFile' = DOMAIN taskFile
          /\ taskFile'[n] = last
          /\ \A j \in DOMAIN taskFile : j # n => taskFile'[j] = taskFile[j]
      BY <1>2, <3>1, <3>2, <3>3
    <3>6. Key(new) \in KeysOf(taskFile')
      BY <1>5, <3>2, <3>4, <3>5 DEF KeysOf
    <3>7. \A k \in KeysOf(taskFile) : k \in KeysOf(taskFile') \/ k \in excused'
      BY <3>1, <3>5 DEF KeysOf
    <3> QED
      BY <2>2, <3>1, <3>3, <3>5, <3>6, <3>7
  <2>3. CASE proc[p].snap # taskFile /\ UNCHANGED <<taskFile, newline>>
             /\ excused' = IF proc[p].beaten THEN excused \cup {Key(new)} ELSE excused
    BY <1>2, <1>6, <2>3
  <2> QED
    BY <1>2, <2>1, <2>2, <2>3 DEF WriteAppend, new
<1>8. EditType'
  BY <1>1, <1>3, <1>7 DEF Alone, EditType
<1>9. HoldsOK' /\ SnapOK' /\ MatchOK' /\ MintedOK'
  <2>1. \A q \in Processes : proc'[q].stage \notin Holding
    BY <1>3, <1>4 DEF Alone, Holding
  <2>2. MintedOK'
    BY <1>3 DEF Alone, EditInv, MintedOK, Appending
  <2> QED
    BY <2>1, <2>2 DEF HoldsOK, SnapOK, MatchOK, Holding
<1>10. FreshOK'
  <2> SUFFICES ASSUME NEW x \in Processes, Fresh(x)'
               PROVE  /\ <<"id", x>> \notin known'
                      /\ \A j \in DOMAIN taskFile' : taskFile'[j].id # x
                      /\ \A q \in Processes :
                           /\ q # x => proc'[q].task.id # x
                           /\ \A j \in DOMAIN proc'[q].snap : proc'[q].snap[j].id # x
    BY DEF FreshOK
  <2>1. x # p
    BY <1>3 DEF Fresh, Appending
  <2>2. Fresh(x)
    BY <1>3, <2>1 DEF Alone, Fresh
  <2>3. /\ <<"id", x>> \notin known /\ \A j \in DOMAIN taskFile : taskFile[j].id # x
        /\ \A q \in Processes :
             /\ q # x => proc[q].task.id # x
             /\ \A j \in DOMAIN proc[q].snap : proc[q].snap[j].id # x
    BY <2>2 DEF EditInv, FreshOK
  <2>4. <<"id", x>> \notin known'
    BY <1>1, <1>5, <2>1, <2>3
  <2>5. \A q \in Processes : /\ q # x => proc'[q].task.id # x
                             /\ \A j \in DOMAIN proc'[q].snap : proc'[q].snap[j].id # x
    BY <1>3, <2>1, <2>3 DEF Alone
  <2> QED
    BY <1>7, <2>1, <2>3, <2>4, <2>5
<1>11. TaskFileSafe'
  <2>1. KeysOf(taskFile)' = KeysOf(taskFile')
    BY DEF KeysOf, Key
  <2>2. \A k \in known : k \in excused \/ k \in Underway \/ k \in KeysOf(taskFile)
    BY DEF EditInv, TaskFileSafe
  <2>3. \A k \in Underway : k \in Underway' \/ k = Key(new)
    BY <1>3, UnderwayMoves DEF new
  <2>4. \A k \in known' : k \in excused' \/ k \in Underway' \/ k \in KeysOf(taskFile')
    BY <1>1, <1>7, <2>2, <2>3
  <2> QED
    BY <2>1, <2>4 DEF TaskFileSafe
<1> QED
  BY <1>8, <1>9, <1>10, <1>11 DEF EditInv

\* What an editor may save: lines of the file, one of them changed, taken out
\* or typed anew, so no id that was not there.
LEMMA EditorLines ==
  ASSUME EditType, NEW text \in Texts, NEW lines,
         \/ lines = <<Line(NoTaskId, text)>> \o taskFile
         \/ \E i \in DOMAIN taskFile : \/ lines = [taskFile EXCEPT ![i].text = text]
                                       \/ lines = RemoveAt(taskFile, i)
  PROVE  /\ lines \in Seq(LineType)
         /\ \A j \in DOMAIN lines :
              lines[j].id = NoTaskId \/ \E k \in DOMAIN taskFile : lines[j].id = taskFile[k].id
<1> DEFINE Old == {line \in LineType :
                     line.id = NoTaskId \/ \E k \in DOMAIN taskFile : line.id = taskFile[k].id}
<1>1. taskFile \in Seq(LineType) /\ \A i \in DOMAIN taskFile : taskFile[i] \in LineType
  BY DEF EditType
<1>2. \A i \in DOMAIN taskFile : taskFile[i] \in Old
  BY <1>1
<1>3. Line(NoTaskId, text) \in Old
  BY DEF Line, LineType, LineIds, LineTexts
<1>4. \A i \in DOMAIN taskFile : [taskFile[i] EXCEPT !.text = text] \in Old
  BY <1>1 DEF LineType, LineTexts
<1>5. \A line \in Old :
        /\ line \in LineType
        /\ line.id = NoTaskId \/ \E k \in DOMAIN taskFile : line.id = taskFile[k].id
  OBVIOUS
<1> HIDE DEF Old
<1>6. taskFile \in Seq(Old)
  BY <1>1, <1>2
<1>7. lines \in Seq(Old)
  <2>1. CASE lines = <<Line(NoTaskId, text)>> \o taskFile
    <3> HIDE DEF Line
    <3> QED
      BY <1>3, <1>6, <2>1
  <2>2. ASSUME NEW i \in DOMAIN taskFile, lines = [taskFile EXCEPT ![i].text = text]
        PROVE  lines \in Seq(Old)
    <3> DEFINE line == [taskFile[i] EXCEPT !.text = text]
    <3>1. lines = [taskFile EXCEPT ![i] = line]
      BY <2>2
    <3>2. line \in Old
      BY <1>4
    <3> HIDE DEF line
    <3> QED
      BY <1>6, <3>1, <3>2
  <2>3. ASSUME NEW i \in DOMAIN taskFile, lines = RemoveAt(taskFile, i)
        PROVE  lines \in Seq(Old)
    <3>1. i \in Nat /\ i >= 1 /\ i <= Len(taskFile) /\ Len(taskFile) \in Nat
      BY <1>1
    <3>2. SubSeq(taskFile, 1, i - 1) \in Seq(Old)
      BY <1>6, <3>1
    <3>3. SubSeq(taskFile, i + 1, Len(taskFile)) \in Seq(Old)
      BY <1>6, <3>1
    <3>4. lines = SubSeq(taskFile, 1, i - 1) \o SubSeq(taskFile, i + 1, Len(taskFile))
      BY <2>3 DEF RemoveAt
    <3> QED
      BY <3>2, <3>3, <3>4
  <2> QED
    BY <2>1, <2>2, <2>3
<1>8. \A j \in DOMAIN lines : lines[j] \in Old
  BY <1>7
<1>9. lines \in Seq(LineType)
  <2>1. \A j \in DOMAIN lines : lines[j] \in LineType
    BY <1>5, <1>8
  <2> QED
    BY <1>7, <2>1
<1> QED
  BY <1>5, <1>8, <1>9

\* An editor's save: what it drops is no longer expected, and every process
\* that has read the file is beaten.
LEMMA SaveStep ==
  ASSUME EditInv, NEW lines \in Seq(LineType), NEW nl \in BOOLEAN, Save(lines, nl),
         \A j \in DOMAIN lines :
           lines[j].id = NoTaskId \/ \E k \in DOMAIN taskFile : lines[j].id = taskFile[k].id
  PROVE  EditInv'
<1> USE TaskEditsAssumption
<1>1. /\ taskFile' = lines /\ newline' = nl /\ UNCHANGED <<holder, excused>>
      /\ known' = (known \ KeysOf(taskFile)) \cup KeysOf(lines)
      /\ proc' = [p \in Processes |->
                    [proc[p] EXCEPT !.beaten = @ \/ proc[p].stage \in {"rename", "write"}]]
  BY DEF Save
<1>2. proc \in [Processes -> ProcType] /\ holder \in Processes \cup {Nobody}
  BY DEF EditInv, EditType
<1>3. \A p \in Processes :
        /\ proc'[p] \in ProcType /\ proc'[p].stage = proc[p].stage /\ proc'[p].op = proc[p].op
        /\ proc'[p].at = proc[p].at /\ proc'[p].task = proc[p].task
        /\ proc'[p].snap = proc[p].snap
        /\ proc[p].stage \in {"rename", "write"} => proc'[p].beaten
  <2> SUFFICES ASSUME NEW p \in Processes
               PROVE  /\ proc'[p] \in ProcType /\ proc'[p].stage = proc[p].stage
                      /\ proc'[p].op = proc[p].op
                      /\ proc'[p].at = proc[p].at /\ proc'[p].task = proc[p].task
                      /\ proc'[p].snap = proc[p].snap
                      /\ proc[p].stage \in {"rename", "write"} => proc'[p].beaten
    OBVIOUS
  <2> DEFINE b == proc[p].beaten \/ proc[p].stage \in {"rename", "write"}
  <2>1. proc'[p] = [proc[p] EXCEPT !.beaten = b]
    BY <1>1, Zenon
  <2>2. b \in BOOLEAN /\ (proc[p].stage \in {"rename", "write"} => b)
    OBVIOUS
  <2> HIDE DEF b
  <2>3. proc[p] \in ProcType
    BY <1>2
  <2> QED
    BY <2>1, <2>2, <2>3 DEF ProcType
<1>4. EditType'
  <2>1. proc' \in [Processes -> ProcType]
    BY <1>1, <1>3
  <2> QED
    BY <1>1, <1>2, <2>1 DEF EditType
<1>5. HoldsOK' /\ SnapOK' /\ MintedOK'
  <2>1. HoldsOK'
    BY <1>1, <1>3 DEF EditInv, HoldsOK
  <2>2. SnapOK'
    <3>1. \A p \in Processes :
            ~ (proc'[p].stage \in {"rename", "write"} /\ ~proc'[p].beaten)
      BY <1>3
    <3> QED
      BY <3>1 DEF SnapOK
  <2>3. MintedOK'
    BY <1>3 DEF EditInv, MintedOK
  <2> QED
    BY <2>1, <2>2, <2>3
<1>6. MatchOK'
  <2> SUFFICES ASSUME NEW q \in Processes, proc'[q].stage = "rename"
               PROVE  /\ proc'[q].at \in DOMAIN proc'[q].snap
                      /\ \/ Key(proc'[q].snap[proc'[q].at]) = Key(proc'[q].task)
                         \/ Key(proc'[q].snap[proc'[q].at]) \in excused'
    BY DEF MatchOK, Key
  <2> QED
    BY <1>1, <1>3 DEF EditInv, MatchOK
<1>7. FreshOK'
  <2> SUFFICES ASSUME NEW x \in Processes, Fresh(x)'
               PROVE  /\ <<"id", x>> \notin known'
                      /\ \A j \in DOMAIN taskFile' : taskFile'[j].id # x
                      /\ \A q \in Processes :
                           /\ q # x => proc'[q].task.id # x
                           /\ \A j \in DOMAIN proc'[q].snap : proc'[q].snap[j].id # x
    BY DEF FreshOK
  <2>1. Fresh(x)
    BY <1>3 DEF Fresh
  <2>2. /\ <<"id", x>> \notin known /\ \A j \in DOMAIN taskFile : taskFile[j].id # x
        /\ \A q \in Processes :
             /\ q # x => proc[q].task.id # x
             /\ \A j \in DOMAIN proc[q].snap : proc[q].snap[j].id # x
    BY <2>1 DEF EditInv, FreshOK
  <2>3. \A j \in DOMAIN lines : lines[j].id # x
    BY <2>2
  <2>4. <<"id", x>> \notin KeysOf(lines)
    BY <2>3 DEF KeysOf, Key
  <2> QED
    BY <1>1, <1>3, <2>2, <2>3, <2>4
<1>8. TaskFileSafe'
  <2>1. KeysOf(taskFile)' = KeysOf(lines)
    BY <1>1 DEF KeysOf, Key
  <2>2. Underway' = Underway
    <3>1. Underway' = {Key(proc'[q].task) : q \in {r \in Processes : proc'[r].stage \in Appending}}
      BY DEF Underway, Appending, Key
    <3>2. Underway = {Key(proc[q].task) : q \in {r \in Processes : proc[r].stage \in Appending}}
      BY DEF Underway, Appending
    <3> QED
      BY <1>3, <3>1, <3>2
  <2>3. known \ (excused \cup Underway) \subseteq KeysOf(taskFile)
    BY DEF EditInv, TaskFileSafe
  <2> QED
    BY <1>1, <2>1, <2>2, <2>3 DEF TaskFileSafe
<1> QED
  BY <1>4, <1>5, <1>6, <1>7, <1>8 DEF EditInv

\* Every step of every process and of the editor keeps the invariant.
LEMMA EditInvStep == EditInv /\ [EditsNext]_editVars => EditInv'
<1> SUFFICES ASSUME EditInv, [EditsNext]_editVars PROVE EditInv'
  OBVIOUS
<1>1. CASE EditorSaves
  <2>1. PICK nl \in BOOLEAN, text \in Texts :
          \/ Save(<<Line(NoTaskId, text)>> \o taskFile, nl)
          \/ \E i \in DOMAIN taskFile : \/ Save([taskFile EXCEPT ![i].text = text], nl)
                                        \/ Save(RemoveAt(taskFile, i), nl)
    BY <1>1 DEF EditorSaves
  <2>2. PICK lines :
          /\ Save(lines, nl)
          /\ \/ lines = <<Line(NoTaskId, text)>> \o taskFile
             \/ \E i \in DOMAIN taskFile : \/ lines = [taskFile EXCEPT ![i].text = text]
                                           \/ lines = RemoveAt(taskFile, i)
    BY <2>1, Zenon
  <2> QED
    BY <2>2, EditorLines, SaveStep DEF EditInv
<1>2. ASSUME NEW p \in Processes,
             QiStep(p) \/ AddNew(p) \/ Killed(p) \/ \E op \in {"complete", "schedule"} : Pick(p, op)
      PROVE  EditInv'
  BY <1>2, PickStep, AddNewStep, LockFileStep, ReadLinesStep, OpenAppendStep, KilledStep,
     RenameStep, WriteAppendStep DEF QiStep
<1>3. CASE UNCHANGED editVars
  BY <1>3 DEF editVars, EditInv, EditType, HoldsOK, SnapOK, MatchOK, MintedOK, FreshOK, Fresh,
              TaskFileSafe, Underway, KeysOf, Key
<1> QED
  BY <1>1, <1>2, <1>3 DEF EditsNext

\* No task disappears from a task file but for the exceptions TaskFileSafe
\* names, for any number of qi processes, tasks and saves by an editor.
THEOREM NoTaskDisappears == EditsSpec => []TaskFileSafe
<1>1. EditInv => TaskFileSafe
  BY DEF EditInv
<1> QED
  BY <1>1, EditInvInit, EditInvStep, PTL DEF EditsSpec
---------------------------------------------------------------------------
(* Triage of the inbox                                                     *)

BodyOrGone == Contents \cup {Gone}
Decisions == {"", "task", "note", "archive", "delete"}
JobStages ==
  {"idle", "done", "validate", "delete", "archive", "rename", "create", "write", "restore"}
Moving == {"archive", "rename"}
Group == [path : Captures, body : Contents, repeats : Seq(Captures)]
QiType ==
  [stage : {"list", "read", "decide", "apply", "done"}, toRead : SUBSET Captures,
   groups : Seq(Group), action : Decisions, rest : Seq(Captures)]
JobType == [stage : JobStages, path : Captures \cup {0}, action : Decisions, body : BodyOrGone]

TriageType ==
  /\ inbox \in [Captures -> BodyOrGone] /\ archive \in [Captures -> BodyOrGone]
  /\ qi \in QiType /\ job \in [Actors -> JobType]
  /\ created \in [Captures -> Nat] /\ how \in [Captures -> Decisions]
  /\ faults \in Nat /\ edits \in Nat

Members(g) == {g.path} \cup {g.repeats[i] : i \in DOMAIN g.repeats}

\* What a capture says, wherever it is.
Says(c, key) ==
  /\ inbox[c] # Gone => inbox[c].key = key
  /\ archive[c] # Gone => archive[c].key = key

\* A group holds captures that say the same, as long as nobody edits one, or
\* that were shown as empty.
ShownOK ==
  edits = 0 =>
    \A i \in DOMAIN qi.groups : \A c \in Members(qi.groups[i]) :
      c \in blank \/ Says(c, qi.groups[i].body.key)

\* The command applies the first group, and the capture it is at is its own.
RestOK ==
  /\ qi.stage = "apply" => /\ qi.groups # <<>> /\ qi.rest # <<>> /\ qi.action # ""
                           /\ \A i \in DOMAIN qi.rest : qi.rest[i] \in Members(Head(qi.groups))
  /\ job["qi"].stage \notin {"idle", "done"} =>
       qi.stage = "apply" /\ job["qi"].path = Head(qi.rest)

\* An Apply under way: a capture that is being converted is in the archive, for
\* that purpose, and has not become anything yet.
JobsOK ==
  \A a \in Actors :
    /\ job[a].stage \notin {"idle", "done"} => job[a].path \in Captures
    /\ job[a].stage \in Moving => job[a].action # "delete"
    /\ job[a].stage \in Converting =>
         LET c == job[a].path IN
         /\ job[a].action \in Creating /\ how[c] = job[a].action
         /\ inbox[c] = Gone /\ archive[c] # Gone /\ created[c] = 0

\* Nobody else converts it.
ApartOK ==
  job["qi"].stage \in Converting /\ job["skill"].stage \in Converting =>
    job["qi"].path # job["skill"].path

\* A capture in the inbox has been neither moved nor converted.
FreshCapture == \A c \in Captures : inbox[c] # Gone => how[c] = "" /\ created[c] = 0

TriageInv ==
  /\ TriageType /\ ShownOK /\ RestOK /\ JobsOK /\ ApartOK /\ FreshCapture
  /\ InboxOrArchive /\ ConvertedOnce /\ DeletedWasShown

\* Nothing under way.
LEMMA NoJobIs ==
  NoJob \in JobType /\ NoJob.stage = "idle" /\ NoJob.action = "" /\ NoJob.path = 0
BY DEF NoJob, JobType, JobStages, Decisions, BodyOrGone

\* The members of a group are captures.
LEMMA MembersAreCaptures ==
  ASSUME NEW g \in Group
  PROVE  Members(g) \subseteq Captures
<1>1. g.path \in Captures /\ g.repeats \in Seq(Captures)
  BY DEF Group
<1>2. \A i \in DOMAIN g.repeats : g.repeats[i] \in Captures
  BY <1>1
<1> QED
  BY <1>1, <1>2 DEF Members

\* The inbox as it is found.
LEMMA TriageInvInit == InboxInit => TriageInv
<1> USE TriageAssumption
<1> SUFFICES ASSUME InboxInit PROVE TriageInv
  OBVIOUS
<1>1. /\ inbox \in [Captures -> Contents] /\ archive = [c \in Captures |-> Gone]
      /\ job = [a \in Actors |-> NoJob]
      /\ created = [c \in Captures |-> 0] /\ how = [c \in Captures |-> ""]
      /\ blank = {} /\ stranded = {} /\ misdeleted = {} /\ faults = 0 /\ edits = 0
  BY DEF InboxInit
<1>2. /\ qi \in QiType /\ qi.stage = "list" /\ qi.groups = <<>>
  <2>1. qi = [stage |-> "list", toRead |-> {}, groups |-> <<>>, action |-> "", rest |-> <<>>]
    BY DEF InboxInit
  <2>2. <<>> \in Seq(Group) /\ <<>> \in Seq(Captures)
    OBVIOUS
  <2> QED
    BY <2>1, <2>2 DEF QiType, Decisions
<1>3. \A c \in Captures : inbox[c] # Gone /\ inbox[c] \in Contents
  BY <1>1
<1>4. TriageType
  <2>1. inbox \in [Captures -> BodyOrGone] /\ archive \in [Captures -> BodyOrGone]
    BY <1>1 DEF BodyOrGone
  <2>2. job \in [Actors -> JobType]
    BY <1>1, NoJobIs
  <2>3. created \in [Captures -> Nat] /\ how \in [Captures -> Decisions]
    BY <1>1 DEF Decisions
  <2> QED
    BY <1>1, <1>2, <2>1, <2>2, <2>3 DEF TriageType
<1>5. ShownOK /\ RestOK
  <2>1. DOMAIN qi.groups = {}
    BY <1>2
  <2>2. job["qi"].stage = "idle"
    BY <1>1, NoJobIs DEF Actors
  <2> QED
    BY <1>2, <2>1, <2>2 DEF ShownOK, RestOK
<1>6. JobsOK /\ ApartOK
  BY <1>1, NoJobIs DEF JobsOK, ApartOK, Actors, Converting
<1>7. FreshCapture /\ InboxOrArchive
  BY <1>1, <1>3 DEF FreshCapture, InboxOrArchive
<1>8. ConvertedOnce /\ DeletedWasShown
  <2>1. \A c \in Captures : created[c] = 0 /\ how[c] \notin Creating
    BY <1>1 DEF Creating
  <2>2. ConvertedOnce
    BY <2>1 DEF ConvertedOnce
  <2> QED
    BY <1>1, <2>2 DEF DeletedWasShown
<1> QED
  BY <1>4, <1>5, <1>6, <1>7, <1>8 DEF TriageInv

\* What a repeat is folded into says what it says.
LEMMA FoldedEffects ==
  ASSUME NEW groups \in Seq(Group), NEW c \in Captures, NEW body \in Contents
  PROVE  /\ Folded(groups, c, body) \in Seq(Group)
         /\ \A i \in DOMAIN Folded(groups, c, body) :
              \A d \in Members(Folded(groups, c, body)[i]) :
                \/ d = c /\ Folded(groups, c, body)[i].body.key = body.key
                \/ \E j \in DOMAIN groups :
                     d \in Members(groups[j])
                     /\ groups[j].body.key = Folded(groups, c, body)[i].body.key
<1> DEFINE I == {i \in 1 .. Len(groups) : groups[i].body.key = body.key}
           same == IF I # {} THEN Min(I) ELSE 0
           f == Folded(groups, c, body)
<1>1. f = IF same = 0 THEN Append(groups, [path |-> c, body |-> body, repeats |-> <<>>])
          ELSE [groups EXCEPT ![same].repeats = Append(@, c)]
  BY DEF Folded, SelectInSeq
<1>2. I # {} => Min(I) \in I
  <2>1. I \subseteq Nat
    OBVIOUS
  <2> HIDE DEF I
  <2> QED
    BY <2>1, LeastExists DEF Min
<1>3. same = 0 \/ (same \in DOMAIN groups /\ groups[same].body.key = body.key)
  BY <1>2
<1>4. DOMAIN groups = 1 .. Len(groups) /\ Len(groups) \in Nat
      /\ \A i \in DOMAIN groups : groups[i] \in Group
  OBVIOUS
<1> HIDE DEF f, same
<1>5. CASE same = 0
  <2> DEFINE g == [path |-> c, body |-> body, repeats |-> <<>>]
             n == Len(groups)
  <2>1. g \in Group /\ Members(g) = {c} /\ g.body = body
    BY DEF Group, Members
  <2> HIDE DEF g
  <2>2. /\ f \in Seq(Group) /\ DOMAIN f = 1 .. n + 1 /\ f[n + 1] = g
        /\ \A i \in 1 .. n : f[i] = groups[i]
    BY <1>1, <1>5, <2>1 DEF g
  <2>3. \A i \in 1 .. n + 1 : i = n + 1 \/ i \in DOMAIN groups
    BY <1>4
  <2>4. ASSUME NEW i \in DOMAIN f, NEW d \in Members(f[i])
        PROVE  \/ d = c /\ f[i].body.key = body.key
               \/ \E j \in DOMAIN groups :
                    d \in Members(groups[j]) /\ groups[j].body.key = f[i].body.key
    <3>1. CASE i = n + 1
      BY <2>1, <2>2, <2>4, <3>1
    <3>2. CASE i \in DOMAIN groups
      BY <1>4, <2>2, <2>4, <3>2
    <3> QED
      BY <2>2, <2>3, <3>1, <3>2
  <2> QED
    BY <2>2, <2>4 DEF f
<1>6. CASE same # 0
  <2> DEFINE r == Append(groups[same].repeats, c)
             g == [groups[same] EXCEPT !.repeats = r]
  <2>1. same \in DOMAIN groups /\ groups[same].body.key = body.key
    BY <1>3, <1>6
  <2>2. groups[same] \in Group /\ groups[same].repeats \in Seq(Captures)
    BY <1>4, <2>1 DEF Group
  <2>3. /\ r \in Seq(Captures)
        /\ \A k \in DOMAIN r : r[k] = c \/ (k \in DOMAIN groups[same].repeats
                                            /\ r[k] = groups[same].repeats[k])
    BY <2>2
  <2> HIDE DEF r
  <2>4. g \in Group /\ g.path = groups[same].path /\ g.body = groups[same].body /\ g.repeats = r
    BY <2>2, <2>3 DEF Group
  <2>5. \A d \in Members(g) : d = c \/ d \in Members(groups[same])
    BY <2>3, <2>4 DEF Members
  <2>6. f = [groups EXCEPT ![same] = g]
    BY <1>1, <1>6 DEF r
  <2> HIDE DEF g
  <2>7. /\ f \in Seq(Group) /\ DOMAIN f = DOMAIN groups /\ f[same] = g
        /\ \A i \in DOMAIN groups : i # same => f[i] = groups[i]
    BY <2>1, <2>4, <2>6
  <2>8. ASSUME NEW i \in DOMAIN f, NEW d \in Members(f[i])
        PROVE  \/ d = c /\ f[i].body.key = body.key
               \/ \E j \in DOMAIN groups :
                    d \in Members(groups[j]) /\ groups[j].body.key = f[i].body.key
    <3>1. CASE i = same
      BY <2>1, <2>4, <2>5, <2>7, <2>8, <3>1
    <3>2. CASE i # same
      BY <2>7, <2>8, <3>2
    <3> QED
      BY <3>1, <3>2
  <2> QED
    BY <2>7, <2>8 DEF f
<1> QED
  BY <1>5, <1>6

\* Groups that are only taken away, and captures that say what they said, keep
\* the groups right.
LEMMA ShownKept ==
  ASSUME TriageType, ShownOK, edits' = edits, blank \subseteq blank', qi' \in QiType,
         \A i \in DOMAIN qi'.groups : \E j \in DOMAIN qi.groups : qi'.groups[i] = qi.groups[j],
         \A c \in Captures : /\ inbox'[c] # Gone => inbox'[c] \in {inbox[c], archive[c]}
                             /\ archive'[c] # Gone => archive'[c] \in {inbox[c], archive[c]}
  PROVE  ShownOK'
<1> SUFFICES ASSUME edits = 0, NEW i \in DOMAIN qi'.groups, NEW c \in Members(qi'.groups[i]),
                    c \notin blank'
             PROVE  /\ inbox'[c] # Gone => inbox'[c].key = qi'.groups[i].body.key
                    /\ archive'[c] # Gone => archive'[c].key = qi'.groups[i].body.key
  BY DEF ShownOK, Says, Members
<1>1. PICK j \in DOMAIN qi.groups : qi'.groups[i] = qi.groups[j]
  OBVIOUS
<1>2. qi'.groups[i] \in Group
  BY DEF QiType
<1>3. c \in Captures
  BY <1>2, MembersAreCaptures
<1>4. Says(c, qi'.groups[i].body.key)
  BY <1>1 DEF ShownOK
<1> QED
  BY <1>3, <1>4 DEF Says

\* A job that moves without touching a file.
LEMMA FilesKept ==
  ASSUME TriageInv, NEW a \in Actors, UNCHANGED <<inbox, archive, how, created>>,
         stranded \subseteq stranded', job' \in [Actors -> JobType],
         \A b \in Actors \ {a} : job'[b] = job[b],
         job[a].stage \in Converting =>
           \/ job[a].path \in stranded'
           \/ job'[a].stage \in Converting /\ job'[a].path = job[a].path,
         job'[a].stage \in Converting =>
           /\ job[a].stage \in Converting
           /\ job'[a].path = job[a].path /\ job'[a].action = job[a].action,
         job'[a].stage \notin {"idle", "done"} => job'[a].path \in Captures,
         job'[a].stage \in Moving => job'[a].action # "delete"
  PROVE  JobsOK' /\ ApartOK' /\ FreshCapture' /\ InboxOrArchive' /\ ConvertedOnce'
<1>1. \A b \in Actors :
        /\ job[b].stage \notin {"idle", "done"} => job[b].path \in Captures
        /\ job[b].stage \in Moving => job[b].action # "delete"
        /\ job[b].stage \in Converting =>
             /\ job[b].action \in Creating /\ how[job[b].path] = job[b].action
             /\ inbox[job[b].path] = Gone /\ archive[job[b].path] # Gone
             /\ created[job[b].path] = 0
  BY DEF TriageInv, JobsOK
<1>2. JobsOK'
  <2> SUFFICES ASSUME NEW b \in Actors
               PROVE  /\ job'[b].stage \notin {"idle", "done"} => job'[b].path \in Captures
                      /\ job'[b].stage \in Moving => job'[b].action # "delete"
                      /\ job'[b].stage \in Converting =>
                           /\ job'[b].action \in Creating /\ how'[job'[b].path] = job'[b].action
                           /\ inbox'[job'[b].path] = Gone /\ archive'[job'[b].path] # Gone
                           /\ created'[job'[b].path] = 0
    BY DEF JobsOK
  <2>1. CASE b = a
    BY <1>1, <2>1
  <2>2. CASE b # a
    BY <1>1, <2>2
  <2> QED
    BY <2>1, <2>2
<1>3. ApartOK'
  <2>1. job["qi"].stage \in Converting /\ job["skill"].stage \in Converting =>
          job["qi"].path # job["skill"].path
    BY DEF TriageInv, ApartOK
  <2>2. CASE a = "qi"
    BY <2>1, <2>2 DEF ApartOK, Actors
  <2>3. CASE a = "skill"
    BY <2>1, <2>3 DEF ApartOK, Actors
  <2> QED
    BY <2>2, <2>3 DEF Actors
<1>4. FreshCapture' /\ InboxOrArchive'
  BY DEF TriageInv, FreshCapture, InboxOrArchive
<1>5. ConvertedOnce'
  <2> SUFFICES ASSUME NEW c \in Captures, how[c] \in Creating, c \notin stranded',
                      \A b \in Actors : ~ (job'[b].path = c /\ job'[b].stage \in Converting)
               PROVE  created[c] = 1
    BY DEF TriageInv, ConvertedOnce, Busy, Converting
  <2>1. \A b \in Actors : ~ (job[b].path = c /\ job[b].stage \in Converting)
    OBVIOUS
  <2> QED
    BY <2>1 DEF TriageInv, ConvertedOnce, Busy, Converting
<1> QED
  BY <1>2, <1>3, <1>4, <1>5

\* Apply returns: the job is over, and the command goes on with the rest of the
\* group, with the next group, or not at all.
LEMMA ReturnsEffects ==
  ASSUME TriageType, RestOK, NEW a \in Actors, job[a].stage \notin {"idle", "done"},
         NEW result, Returns(a, result)
  PROVE  /\ job' \in [Actors -> JobType] /\ \A b \in Actors \ {a} : job'[b] = job[b]
         /\ job'[a].stage \in {"idle", "done"} /\ job'[a].action = ""
         /\ qi' \in QiType
         /\ \A i \in DOMAIN qi'.groups : \E j \in DOMAIN qi.groups : qi'.groups[i] = qi.groups[j]
         /\ RestOK'
<1>1. /\ job \in [Actors -> JobType] /\ qi \in QiType /\ qi.groups \in Seq(Group)
      /\ qi.rest \in Seq(Captures)
  BY DEF TriageType, QiType
<1>2. /\ job' \in [Actors -> JobType] /\ \A b \in Actors \ {a} : job'[b] = job[b]
      /\ job'[a].stage \in {"idle", "done"} /\ job'[a].action = ""
  <2> DEFINE to == IF a = "skill" THEN "done" ELSE "idle"
  <2>1. job' = [job EXCEPT ![a] = [NoJob EXCEPT !.stage = to]]
    BY DEF Returns
  <2>2. to \in {"idle", "done"}
    OBVIOUS
  <2> HIDE DEF to
  <2> QED
    BY <1>1, <2>1, <2>2, NoJobIs DEF JobType, JobStages
<1>3. CASE qi' = qi /\ a = "skill"
  BY <1>1, <1>2, <1>3 DEF RestOK, Actors
<1>4. ASSUME a = "qi" PROVE qi.stage = "apply" /\ job'["qi"].stage \in {"idle", "done"}
  BY <1>2, <1>4 DEF RestOK
<1>5. CASE a = "qi" /\ qi' = [qi EXCEPT !.stage = "done"]
  <2>1. qi' \in QiType /\ qi'.groups = qi.groups /\ qi'.stage = "done"
    BY <1>1, <1>5 DEF QiType
  <2> QED
    BY <1>2, <1>4, <1>5, <2>1 DEF RestOK
<1>6. CASE a = "qi" /\ Len(qi.rest) = 1
           /\ qi' = [qi EXCEPT !.rest = Tail(@), !.stage = "decide", !.groups = Tail(@)]
  <2>1. /\ qi.groups # <<>> /\ qi.rest # <<>>
    BY <1>4, <1>6 DEF RestOK
  <2>2. /\ Tail(qi.rest) \in Seq(Captures) /\ Tail(qi.groups) \in Seq(Group)
        /\ \A i \in DOMAIN Tail(qi.groups) : i + 1 \in DOMAIN qi.groups
                                             /\ Tail(qi.groups)[i] = qi.groups[i + 1]
    BY <1>1, <2>1
  <2>3. qi' \in QiType /\ qi'.groups = Tail(qi.groups) /\ qi'.stage = "decide"
    BY <1>1, <1>6, <2>2 DEF QiType
  <2>4. RestOK'
    BY <1>4, <1>6, <2>3 DEF RestOK
  <2>5. \A i \in DOMAIN qi'.groups : \E j \in DOMAIN qi.groups : qi'.groups[i] = qi.groups[j]
    BY <2>2, <2>3
  <2> QED
    BY <1>2, <2>3, <2>4, <2>5
<1>7. CASE a = "qi" /\ Len(qi.rest) # 1 /\ qi' = [qi EXCEPT !.rest = Tail(@)]
  <2>1. /\ qi.stage = "apply" /\ qi.groups # <<>> /\ qi.rest # <<>> /\ qi.action # ""
        /\ \A i \in DOMAIN qi.rest : qi.rest[i] \in Members(Head(qi.groups))
    BY <1>4, <1>7 DEF RestOK
  <2>2. /\ Tail(qi.rest) \in Seq(Captures) /\ Tail(qi.rest) # <<>>
        /\ \A i \in DOMAIN Tail(qi.rest) : i + 1 \in DOMAIN qi.rest
                                           /\ Tail(qi.rest)[i] = qi.rest[i + 1]
    <3>1. qi.rest # <<>> /\ Len(qi.rest) # 1
      BY <1>7, <2>1
    <3> QED
      BY <1>1, <3>1, TailOf
  <2>3. /\ qi' \in QiType /\ qi'.groups = qi.groups /\ qi'.stage = "apply"
        /\ qi'.rest = Tail(qi.rest) /\ qi'.action = qi.action
    BY <1>1, <1>7, <2>1, <2>2 DEF QiType
  <2>4. RestOK'
    <3>1. \A i \in DOMAIN qi'.rest : qi'.rest[i] \in Members(Head(qi'.groups))
      BY <2>1, <2>2, <2>3
    <3>2. qi'.groups # <<>> /\ qi'.rest # <<>> /\ qi'.action # ""
      BY <2>1, <2>2, <2>3
    <3> QED
      BY <1>4, <1>7, <3>1, <3>2 DEF RestOK, Members
  <2> QED
    BY <1>2, <2>3, <2>4
<1>8. \/ qi' = qi /\ a = "skill"
      \/ a = "qi" /\ qi' = [qi EXCEPT !.stage = "done"]
      \/ a = "qi" /\ Len(qi.rest) = 1
         /\ qi' = [qi EXCEPT !.rest = Tail(@), !.stage = "decide", !.groups = Tail(@)]
      \/ a = "qi" /\ Len(qi.rest) # 1 /\ qi' = [qi EXCEPT !.rest = Tail(@)]
  <2>1. CASE a = "skill"
    BY <2>1 DEF Returns
  <2>2. CASE a = "qi"
    <3>1. \/ qi' = [qi EXCEPT !.stage = "done"]
          \/ qi' = [qi EXCEPT !.rest = Tail(@),
                              !.stage = IF Len(qi.rest) = 1 THEN "decide" ELSE @,
                              !.groups = IF Len(qi.rest) = 1 THEN Tail(@) ELSE @]
      BY <2>2, Zenon DEF Returns
    <3>2. CASE Len(qi.rest) = 1
      BY <2>2, <3>1, <3>2
    <3>3. CASE Len(qi.rest) # 1
      <4>1. [qi EXCEPT !.rest = Tail(@), !.stage = qi.stage, !.groups = qi.groups]
              = [qi EXCEPT !.rest = Tail(@)]
        BY <1>1 DEF QiType
      <4> QED
        BY <2>2, <3>1, <3>3, <4>1
    <3> QED
      BY <3>2, <3>3
  <2> QED
    BY <2>1, <2>2 DEF Actors
<1> QED
  BY <1>3, <1>5, <1>6, <1>7, <1>8

\* Listing the directory, deciding, and passing a capture to Apply.
LEMMA ListDirStep ==
  ASSUME TriageInv, ListDir
  PROVE  TriageInv'
<1>1. /\ qi \in QiType /\ qi.stage = "list"
      /\ qi' = [qi EXCEPT !.stage = "read", !.toRead = {c \in Captures : inbox[c] # Gone}]
      /\ UNCHANGED <<inbox, archive, job, created, how, stranded, misdeleted, faults, edits, blank>>
  BY DEF ListDir, TriageInv, TriageType
<1>2. qi' \in QiType /\ qi'.stage = "read" /\ qi'.groups = qi.groups
  BY <1>1 DEF QiType
<1>3. TriageType'
  BY <1>1, <1>2 DEF TriageInv, TriageType
<1>4. ShownOK'
  BY <1>1, <1>2, ShownKept DEF TriageInv
<1>5. RestOK'
  BY <1>1, <1>2 DEF TriageInv, RestOK
<1>6. JobsOK' /\ ApartOK' /\ FreshCapture' /\ InboxOrArchive' /\ ConvertedOnce' /\ DeletedWasShown'
  BY <1>1 DEF TriageInv, JobsOK, ApartOK, FreshCapture, InboxOrArchive, ConvertedOnce, Busy,
              DeletedWasShown
<1> QED
  BY <1>3, <1>4, <1>5, <1>6 DEF TriageInv

\* A capture is read and folded into the groups.
LEMMA ReadCaptureStep ==
  ASSUME TriageInv, ReadCapture
  PROVE  TriageInv'
<1> USE TriageAssumption
<1>1. /\ qi \in QiType /\ qi.stage = "read" /\ qi.toRead \subseteq Captures
      /\ qi.groups \in Seq(Group)
      /\ UNCHANGED <<inbox, archive, job, created, how, stranded, misdeleted, faults, edits>>
  BY DEF ReadCapture, TriageInv, TriageType, QiType
<1>2. /\ qi' \in QiType /\ qi'.stage \in {"read", "decide"} /\ blank \subseteq blank' /\ ShownOK'
  <2>1. CASE qi.toRead = {}
    <3>1. qi' = [qi EXCEPT !.stage = "decide"] /\ blank' = blank
      BY <2>1 DEF ReadCapture
    <3>2. qi' \in QiType /\ qi'.stage = "decide" /\ qi'.groups = qi.groups
      BY <1>1, <3>1 DEF QiType
    <3>3. ShownOK'
      BY <1>1, <3>1, <3>2, ShownKept DEF TriageInv
    <3> QED
      BY <3>1, <3>2, <3>3
  <2>2. CASE qi.toRead # {}
    <3> DEFINE c == Min(qi.toRead)
               body == CaptureBody(c)
               groups == Folded(qi.groups, c, body)
    <3>1. c \in Captures
      <4>1. qi.toRead \subseteq Nat
        BY <1>1 DEF Captures
      <4> QED
        BY <1>1, <2>2, <4>1, LeastExists DEF Min
    <3>2. body \in Contents
      BY <3>1 DEF CaptureBody, TriageInv, TriageType, BodyOrGone
    <3>3. /\ qi' = [qi EXCEPT !.toRead = @ \ {c}, !.groups = groups]
          /\ blank' = IF inbox[c] = Gone \/ c \in unreadable THEN blank \cup {c} ELSE blank
      BY <2>2 DEF ReadCapture
    <3>4. body.key = inbox[c].key \/ c \in blank'
      BY <3>3 DEF CaptureBody
    <3>5. c \notin blank' => inbox[c] # Gone /\ archive[c] = Gone
      BY <3>1, <3>3 DEF TriageInv, InboxOrArchive
    <3> HIDE DEF c, body
    <3>6. /\ groups \in Seq(Group)
          /\ \A i \in DOMAIN groups : \A d \in Members(groups[i]) :
               \/ d = c /\ groups[i].body.key = body.key
               \/ \E j \in DOMAIN qi.groups :
                    d \in Members(qi.groups[j]) /\ qi.groups[j].body.key = groups[i].body.key
      BY <1>1, <3>1, <3>2, FoldedEffects
    <3> HIDE DEF groups
    <3>7. qi' \in QiType /\ qi'.stage = "read" /\ qi'.groups = groups
      BY <1>1, <3>3, <3>6 DEF QiType
    <3>8. ShownOK'
      <4> SUFFICES ASSUME edits = 0, NEW i \in DOMAIN groups, NEW d \in Members(groups[i]),
                          d \notin blank'
                   PROVE  Says(d, groups[i].body.key)
        BY <1>1, <3>7 DEF ShownOK, Says, Members
      <4>1. CASE d = c /\ groups[i].body.key = body.key
        BY <3>4, <3>5, <4>1 DEF Says
      <4>2. CASE \E j \in DOMAIN qi.groups :
                   d \in Members(qi.groups[j]) /\ qi.groups[j].body.key = groups[i].body.key
        <5>1. d \notin blank
          BY <3>3
        <5> QED
          BY <4>2, <5>1 DEF TriageInv, ShownOK
      <4> QED
        BY <3>6, <4>1, <4>2
    <3> QED
      BY <3>3, <3>7, <3>8
  <2> QED
    BY <2>1, <2>2
<1>3. TriageType'
  BY <1>1, <1>2 DEF TriageInv, TriageType
<1>4. RestOK'
  BY <1>1, <1>2 DEF TriageInv, RestOK
<1>5. JobsOK' /\ ApartOK' /\ FreshCapture' /\ InboxOrArchive' /\ ConvertedOnce'
  BY <1>1 DEF TriageInv, JobsOK, ApartOK, FreshCapture, InboxOrArchive, ConvertedOnce, Busy
<1>6. DeletedWasShown'
  BY <1>1, <1>2 DEF TriageInv, DeletedWasShown
<1> QED
  BY <1>2, <1>3, <1>4, <1>5, <1>6 DEF TriageInv

\* The user decides on the next group.
LEMMA DecideStep ==
  ASSUME TriageInv, NEW action \in Creating \cup {"archive", "delete", "skip"}, Decide(action)
  PROVE  TriageInv'
<1>1. /\ qi \in QiType /\ qi.stage = "decide" /\ qi.groups \in Seq(Group)
      /\ UNCHANGED <<inbox, archive, job, created, how, stranded, misdeleted, faults, edits, blank>>
      /\ job["qi"].stage \in {"idle", "done"}
  BY DEF Decide, TriageInv, TriageType, QiType, RestOK
<1>2. /\ qi' \in QiType
      /\ \A i \in DOMAIN qi'.groups : \E j \in DOMAIN qi.groups : qi'.groups[i] = qi.groups[j]
      /\ qi'.stage = "apply" =>
           /\ qi'.groups # <<>> /\ qi'.rest # <<>> /\ qi'.action # ""
           /\ \A i \in DOMAIN qi'.rest : qi'.rest[i] \in Members(Head(qi'.groups))
  <2>1. CASE qi.groups = <<>>
    <3>1. qi' = [qi EXCEPT !.stage = "done"]
      BY <2>1 DEF Decide
    <3>2. qi' \in QiType /\ qi'.stage = "done" /\ qi'.groups = qi.groups
      BY <1>1, <3>1 DEF QiType
    <3> QED
      BY <3>2
  <2>2. CASE qi.groups # <<>> /\ action = "skip"
    <3>1. qi' = [qi EXCEPT !.groups = Tail(@)]
      BY <2>2 DEF Decide
    <3>2. /\ Tail(qi.groups) \in Seq(Group)
          /\ \A i \in DOMAIN Tail(qi.groups) : i + 1 \in DOMAIN qi.groups
                                               /\ Tail(qi.groups)[i] = qi.groups[i + 1]
      BY <1>1, <2>2
    <3>3. qi' \in QiType /\ qi'.stage = "decide" /\ qi'.groups = Tail(qi.groups)
      BY <1>1, <3>1, <3>2 DEF QiType
    <3>4. \A i \in DOMAIN qi'.groups : \E j \in DOMAIN qi.groups : qi'.groups[i] = qi.groups[j]
      BY <3>2, <3>3
    <3> QED
      BY <3>3, <3>4
  <2>3. CASE qi.groups # <<>> /\ action # "skip"
    <3> DEFINE g == Head(qi.groups)
               rest == Append(g.repeats, g.path)
    <3>1. qi' = [qi EXCEPT !.stage = "apply", !.action = action, !.rest = rest]
      BY <2>3 DEF Decide
    <3>2. g \in Group
      BY <1>1, <2>3
    <3>3. g.repeats \in Seq(Captures) /\ g.path \in Captures
      BY <3>2 DEF Group
    <3>4. /\ rest \in Seq(Captures) /\ Len(rest) # 0
          /\ \A i \in DOMAIN rest : rest[i] = g.path \/ (i \in DOMAIN g.repeats
                                                         /\ rest[i] = g.repeats[i])
      BY <3>3
    <3>5. \A i \in DOMAIN rest : rest[i] \in Members(g)
      BY <3>4 DEF Members
    <3> HIDE DEF rest
    <3>6. action \in Decisions /\ action # ""
      BY <2>3 DEF Creating, Decisions
    <3>7. /\ qi' \in QiType /\ qi'.stage = "apply" /\ qi'.groups = qi.groups /\ qi'.rest = rest
          /\ qi'.action = action
      BY <1>1, <3>1, <3>4, <3>6 DEF QiType
    <3>8. rest # <<>>
      BY <3>4
    <3> QED
      BY <2>3, <3>5, <3>6, <3>7, <3>8
  <2> QED
    BY <2>1, <2>2, <2>3
<1>3. TriageType'
  BY <1>1, <1>2 DEF TriageInv, TriageType
<1>4. ShownOK'
  BY <1>1, <1>2, ShownKept DEF TriageInv
<1>5. RestOK'
  BY <1>1, <1>2 DEF RestOK, Members
<1>6. JobsOK' /\ ApartOK' /\ FreshCapture' /\ InboxOrArchive' /\ ConvertedOnce' /\ DeletedWasShown'
  BY <1>1 DEF TriageInv, JobsOK, ApartOK, FreshCapture, InboxOrArchive, ConvertedOnce, Busy,
              DeletedWasShown
<1> QED
  BY <1>3, <1>4, <1>5, <1>6 DEF TriageInv

\* A job starts: ApplyGroup passes on the next capture, or the skill is called.
LEMMA JobStarts ==
  ASSUME TriageInv,
         \/ ApplyNext
         \/ \E c \in Captures, action \in Creating \cup {"archive", "delete"} : SkillApply(c, action)
  PROVE  TriageInv'
<1>1. PICK a \in Actors, c \in Captures, action \in Decisions :
        /\ job[a].stage = "idle"
        /\ job' = [job EXCEPT ![a] = [NoJob EXCEPT !.stage = "validate", !.path = c,
                                                   !.action = action]]
        /\ a = "qi" => qi.stage = "apply" /\ c = Head(qi.rest)
        /\ UNCHANGED <<inbox, archive, qi, created, how, stranded, misdeleted, faults, edits, blank>>
  <2>1. CASE ApplyNext
    <3>1. /\ qi.stage = "apply" /\ qi.rest # <<>> /\ job["qi"].stage = "idle"
          /\ job' = [job EXCEPT !["qi"] = [NoJob EXCEPT !.stage = "validate",
                                             !.path = Head(qi.rest), !.action = GroupAction]]
          /\ UNCHANGED <<inbox, archive, qi, created, how, stranded, misdeleted, faults, edits,
                         blank>>
      BY <2>1 DEF ApplyNext
    <3>2. qi.rest \in Seq(Captures) /\ qi.action \in Decisions
      BY DEF TriageInv, TriageType, QiType
    <3>3. Head(qi.rest) \in Captures
      BY <3>1, <3>2
    <3>4. GroupAction \in Decisions
      BY <3>2 DEF GroupAction, Decisions
    <3>5. "qi" \in Actors /\ "qi" # "skill"
      BY DEF Actors
    <3> QED
      BY <3>1, <3>3, <3>4, <3>5
  <2>2. ASSUME NEW c \in Captures, NEW action \in Creating \cup {"archive", "delete"},
               SkillApply(c, action)
        PROVE  /\ "skill" \in Actors /\ action \in Decisions
               /\ "skill" # "qi" /\ job["skill"].stage = "idle"
               /\ job' = [job EXCEPT !["skill"] = [NoJob EXCEPT !.stage = "validate",
                                                     !.path = c, !.action = action]]
               /\ UNCHANGED <<inbox, archive, qi, created, how, stranded, misdeleted, faults,
                              edits, blank>>
    BY <2>2 DEF SkillApply, Actors, Decisions, Creating
  <2> QED
    BY <2>1, <2>2
<1>2. /\ job' \in [Actors -> JobType] /\ \A b \in Actors \ {a} : job'[b] = job[b]
      /\ job'[a].stage = "validate" /\ job'[a].path = c /\ job'[a].action = action
  <2>1. job \in [Actors -> JobType]
    BY DEF TriageInv, TriageType
  <2> QED
    BY <1>1, <2>1, NoJobIs DEF JobType, JobStages
<1>3. TriageType'
  BY <1>1, <1>2 DEF TriageInv, TriageType
<1>4. ShownOK'
  BY <1>1, ShownKept DEF TriageInv, TriageType
<1>5. RestOK'
  <2>1. qi' = qi /\ RestOK
    BY <1>1 DEF TriageInv
  <2>2. job'["qi"].stage \notin {"idle", "done"} =>
          qi.stage = "apply" /\ job'["qi"].path = Head(qi.rest)
    <3>1. CASE a = "qi"
      BY <1>1, <1>2, <3>1
    <3>2. CASE a = "skill"
      BY <1>2, <2>1, <3>2 DEF RestOK, Actors
    <3> QED
      BY <3>1, <3>2 DEF Actors
  <2> QED
    BY <2>1, <2>2 DEF RestOK, Members
<1>6. JobsOK' /\ ApartOK' /\ FreshCapture' /\ InboxOrArchive' /\ ConvertedOnce'
  BY <1>1, <1>2, FilesKept DEF Converting, Moving
<1>7. DeletedWasShown'
  BY <1>1 DEF TriageInv, DeletedWasShown
<1> QED
  BY <1>3, <1>4, <1>5, <1>6, <1>7 DEF TriageInv

\* The path of a capture is checked.
LEMMA ValidateStep ==
  ASSUME TriageInv, NEW a \in Actors, Validate(a)
  PROVE  TriageInv'
<1> DEFINE c == job[a].path
<1>1. /\ job[a].stage = "validate" /\ c \in Captures /\ job \in [Actors -> JobType]
      /\ UNCHANGED <<inbox, archive, created, how, stranded, misdeleted, faults, edits, blank>>
  BY DEF Validate, TriageInv, TriageType, JobsOK
<1>2. /\ job' \in [Actors -> JobType] /\ \A b \in Actors \ {a} : job'[b] = job[b]
      /\ qi' \in QiType
      /\ \A i \in DOMAIN qi'.groups : \E j \in DOMAIN qi.groups : qi'.groups[i] = qi.groups[j]
      /\ RestOK' /\ job'[a].stage \notin Converting
      /\ job'[a].stage \notin {"idle", "done"} => job'[a].path \in Captures
      /\ job'[a].stage \in Moving => job'[a].action # "delete"
  <2>1. CASE inbox[c] = Gone
    <3>1. Returns(a, "not exist")
      BY <2>1 DEF Validate
    <3> QED
      BY <1>1, <3>1, ReturnsEffects DEF TriageInv, Converting, Moving
  <2>2. CASE inbox[c] # Gone
    <3> DEFINE to == IF job[a].action = "delete" THEN "delete" ELSE "archive"
               body == CaptureBody(c)
    <3>1. job' = [job EXCEPT ![a].stage = to, ![a].body = body] /\ qi' = qi
      BY <2>2 DEF Validate
    <3>2. body \in BodyOrGone
      BY <1>1, TriageAssumption DEF CaptureBody, TriageInv, TriageType, BodyOrGone
    <3>3. to \in JobStages /\ to \in {"delete", "archive"}
      BY DEF JobStages
    <3> HIDE DEF body
    <3>4. /\ job' \in [Actors -> JobType] /\ \A b \in Actors \ {a} : job'[b] = job[b]
          /\ job'[a].stage = to /\ job'[a].path = c /\ job'[a].action = job[a].action
      BY <1>1, <3>1, <3>2, <3>3 DEF JobType
    <3>5. job'[a].stage \in Moving => job'[a].action # "delete"
      BY <1>1, <3>4 DEF Moving
    <3>6. RestOK'
      <4>1. RestOK /\ job'["qi"].path = job["qi"].path
        BY <3>4 DEF TriageInv, Actors
      <4>2. job'["qi"].stage \notin {"idle", "done"} => job["qi"].stage \notin {"idle", "done"}
        BY <1>1, <3>4 DEF Actors
      <4> QED
        BY <3>1, <4>1, <4>2 DEF RestOK, Members
    <3> QED
      BY <1>1, <3>1, <3>3, <3>4, <3>5, <3>6 DEF Converting, TriageInv, TriageType
  <2> QED
    BY <2>1, <2>2
<1>3. TriageType'
  BY <1>1, <1>2 DEF TriageInv, TriageType
<1>4. ShownOK'
  BY <1>1, <1>2, ShownKept DEF TriageInv
<1>5. JobsOK' /\ ApartOK' /\ FreshCapture' /\ InboxOrArchive' /\ ConvertedOnce'
  BY <1>1, <1>2, FilesKept DEF Converting, Moving
<1>6. DeletedWasShown'
  BY <1>1 DEF TriageInv, DeletedWasShown
<1> QED
  BY <1>2, <1>3, <1>4, <1>5, <1>6 DEF TriageInv

\* Apply gives up with the files as they were: the capture is gone, or a call
\* failed, before the capture was moved.
LEMMA GivesUp ==
  ASSUME TriageInv, NEW a \in Actors, job[a].stage \notin {"idle", "done"},
         NEW result, Returns(a, result),
         UNCHANGED <<inbox, archive, created, how, misdeleted, edits, blank>>, faults' \in Nat,
         stranded \subseteq stranded',
         job[a].stage \in Converting => job[a].path \in stranded'
  PROVE  TriageInv'
<1>1. /\ job' \in [Actors -> JobType] /\ \A b \in Actors \ {a} : job'[b] = job[b]
      /\ job'[a].stage \in {"idle", "done"} /\ job'[a].action = ""
      /\ qi' \in QiType
      /\ \A i \in DOMAIN qi'.groups : \E j \in DOMAIN qi.groups : qi'.groups[i] = qi.groups[j]
      /\ RestOK'
  BY ReturnsEffects DEF TriageInv
<1>2. TriageType'
  BY <1>1 DEF TriageInv, TriageType
<1>3. ShownOK'
  BY <1>1, ShownKept DEF TriageInv
<1>4. JobsOK' /\ ApartOK' /\ FreshCapture' /\ InboxOrArchive' /\ ConvertedOnce'
  BY <1>1, FilesKept DEF Converting, Moving
<1>5. DeletedWasShown'
  BY DEF TriageInv, DeletedWasShown
<1> QED
  BY <1>1, <1>2, <1>3, <1>4, <1>5 DEF TriageInv

\* What the other actor is converting is another capture than one that is in
\* the inbox, or than the one this actor is converting.
LEMMA OthersApart ==
  ASSUME TriageInv, NEW a \in Actors, NEW b \in Actors \ {a}, job[b].stage \in Converting,
         \/ job[a].path \in Captures /\ inbox[job[a].path] # Gone
         \/ job[a].stage \in Converting
  PROVE  job[b].path # job[a].path
BY DEF TriageInv, JobsOK, ApartOK, Actors

\* A capture is deleted.
LEMMA DeleteStep ==
  ASSUME TriageInv, NEW a \in Actors, Delete(a)
  PROVE  TriageInv'
<1> USE TriageAssumption
<1> DEFINE c == job[a].path
<1>1. /\ job[a].stage = "delete" /\ c \in Captures /\ faults \in Nat
      /\ UNCHANGED <<archive, created, stranded, edits, blank>>
      /\ inbox \in [Captures -> BodyOrGone] /\ how \in [Captures -> Decisions]
  BY DEF Delete, TriageInv, TriageType, JobsOK
<1>2. CASE inbox[c] = Gone /\ Returns(a, "not exist")
           /\ UNCHANGED <<inbox, how, misdeleted, faults>>
  BY <1>1, <1>2, GivesUp DEF Converting
<1>3. CASE Fail /\ Returns(a, "error") /\ UNCHANGED <<inbox, how, misdeleted>>
  <2>1. faults' \in Nat
    BY <1>1, <1>3 DEF Fail
  <2> QED
    BY <1>1, <1>3, <2>1, GivesUp DEF Converting
<1>4. CASE /\ inbox[c] # Gone
           /\ inbox' = [inbox EXCEPT ![c] = Gone] /\ how' = [how EXCEPT ![c] = "delete"]
           /\ misdeleted' =
                IF a = "skill" \/ inbox[c].key = Head(qi.groups).body.key THEN misdeleted
                ELSE misdeleted \cup {c}
           /\ Returns(a, "ok") /\ UNCHANGED faults
  <2>1. /\ job' \in [Actors -> JobType] /\ \A b \in Actors \ {a} : job'[b] = job[b]
        /\ job'[a].stage \in {"idle", "done"} /\ job'[a].action = ""
        /\ qi' \in QiType
        /\ \A i \in DOMAIN qi'.groups : \E j \in DOMAIN qi.groups : qi'.groups[i] = qi.groups[j]
        /\ RestOK'
    BY <1>1, <1>4, ReturnsEffects DEF TriageInv
  <2>2. /\ inbox'[c] = Gone /\ how'[c] = "delete" /\ archive[c] = Gone /\ created[c] = 0
        /\ \A d \in Captures \ {c} : inbox'[d] = inbox[d] /\ how'[d] = how[d]
    BY <1>1, <1>4 DEF TriageInv, InboxOrArchive, FreshCapture
  <2>3. \A b \in Actors \ {a} : job[b].stage \in Converting => job[b].path # c
    BY <1>1, <1>4, OthersApart
  <2>4. TriageType'
    BY <1>1, <1>4, <2>1 DEF TriageInv, TriageType, BodyOrGone, Decisions
  <2>5. ShownOK'
    BY <1>1, <1>4, <2>1, ShownKept DEF TriageInv
  <2>6. JobsOK'
    <3> SUFFICES ASSUME NEW b \in Actors
                 PROVE  /\ job'[b].stage \notin {"idle", "done"} => job'[b].path \in Captures
                        /\ job'[b].stage \in Moving => job'[b].action # "delete"
                        /\ job'[b].stage \in Converting =>
                             /\ job'[b].action \in Creating /\ how'[job'[b].path] = job'[b].action
                             /\ inbox'[job'[b].path] = Gone /\ archive'[job'[b].path] # Gone
                             /\ created'[job'[b].path] = 0
      BY DEF JobsOK
    <3>2. CASE b = a
      BY <2>1, <3>2 DEF Converting, Moving
    <3>3. CASE b # a
      <4>1. job'[b] = job[b] /\ (job[b].stage \in Converting => job[b].path # c)
        BY <2>1, <2>3, <3>3
      <4>2. job[b].stage \in Converting => job[b].path \in Captures
        BY DEF TriageInv, JobsOK, Converting
      <4> QED
        BY <1>1, <2>2, <4>1, <4>2 DEF TriageInv, JobsOK
    <3> QED
      BY <3>2, <3>3
  <2>7. ApartOK'
    BY <1>1, <2>1 DEF ApartOK, Actors, Converting, TriageInv
  <2>8. FreshCapture' /\ InboxOrArchive'
    <3>1. FreshCapture'
      BY <1>1, <2>2 DEF TriageInv, FreshCapture
    <3>2. InboxOrArchive'
      BY <1>1, <2>2 DEF TriageInv, InboxOrArchive
    <3> QED
      BY <3>1, <3>2
  <2>9. ConvertedOnce'
    <3> SUFFICES ASSUME NEW d \in Captures
                 PROVE  /\ created[d] <= 1 /\ (created[d] = 1 => inbox'[d] = Gone)
                        /\ how'[d] \in Creating /\ d \notin stranded
                           /\ (\A b \in Actors : ~ (job'[b].path = d /\ job'[b].stage \in Converting))
                           => created[d] = 1
      BY <1>1 DEF ConvertedOnce, Busy, Converting
    <3>1. CASE d = c
      BY <2>2, <3>1 DEF Creating
    <3>2. CASE d # c
      <4>1. (\A b \in Actors : ~ (job'[b].path = d /\ job'[b].stage \in Converting)) => ~Busy(d)
        BY <1>1, <2>1 DEF Busy, Converting
      <4> QED
        BY <2>2, <3>2, <4>1 DEF TriageInv, ConvertedOnce
    <3> QED
      BY <3>1, <3>2
  <2>10. DeletedWasShown'
    <3> SUFFICES ASSUME edits = 0, a = "qi" PROVE misdeleted' \subseteq blank
      BY <1>1, <1>4 DEF DeletedWasShown, TriageInv, TriageType, Actors
    <3>1. misdeleted \subseteq blank
      BY DEF TriageInv, DeletedWasShown
    <3>2. /\ qi.groups # <<>> /\ qi.rest # <<>> /\ c = Head(qi.rest)
          /\ \A i \in DOMAIN qi.rest : qi.rest[i] \in Members(Head(qi.groups))
      BY <1>1 DEF TriageInv, RestOK
    <3>3. qi.groups \in Seq(Group) /\ qi.rest \in Seq(Captures)
      BY DEF TriageInv, TriageType, QiType
    <3>4. 1 \in DOMAIN qi.groups /\ qi.groups[1] = Head(qi.groups)
      BY <3>2, <3>3
    <3>5. 1 \in DOMAIN qi.rest /\ qi.rest[1] = Head(qi.rest)
      BY <3>2, <3>3
    <3>6. c \in Members(qi.groups[1])
      BY <3>2, <3>4, <3>5
    <3>7. c \in blank \/ inbox[c].key = Head(qi.groups).body.key
      BY <1>4, <3>4, <3>6 DEF TriageInv, ShownOK, Says
    <3> QED
      BY <1>4, <3>1, <3>7
  <2> QED
    BY <2>1, <2>4, <2>5, <2>6, <2>7, <2>8, <2>9, <2>10 DEF TriageInv
<1> QED
  BY <1>2, <1>3, <1>4 DEF Delete

\* One capture is moved or converted by the actor that is at it.
LEMMA CaptureMoved ==
  ASSUME TriageInv, NEW a \in Actors, NEW c \in Captures, job[a].path = c,
         inbox[c] # Gone \/ job[a].stage \in Converting,
         stranded' = stranded, job' \in [Actors -> JobType],
         \A b \in Actors \ {a} : job'[b] = job[b],
         \A d \in Captures \ {c} : /\ inbox'[d] = inbox[d] /\ archive'[d] = archive[d]
                                   /\ how'[d] = how[d] /\ created'[d] = created[d],
         job'[a].stage \in {"idle", "done"} \cup Converting, job'[a].action # "delete",
         job'[a].stage \in Converting =>
           /\ job'[a].path = c /\ job'[a].action \in Creating /\ how'[c] = job'[a].action
           /\ inbox'[c] = Gone /\ archive'[c] # Gone /\ created'[c] = 0,
         inbox'[c] # Gone => archive'[c] = Gone /\ how'[c] = "" /\ created'[c] = 0,
         inbox'[c] = Gone => archive'[c] # Gone /\ how'[c] # "delete",
         created'[c] <= 1 /\ (created'[c] = 1 => inbox'[c] = Gone),
         how'[c] \in Creating => created'[c] = 1 \/ job'[a].stage \in Converting
  PROVE  JobsOK' /\ ApartOK' /\ FreshCapture' /\ InboxOrArchive' /\ ConvertedOnce'
<1>1. \A b \in Actors \ {a} : job[b].stage \in Converting => job[b].path \in Captures \ {c}
  <2>1. \A b \in Actors : job[b].stage \in Converting => job[b].path \in Captures
    BY DEF TriageInv, JobsOK, Converting
  <2>2. ASSUME NEW b \in Actors \ {a}, job[b].stage \in Converting
        PROVE  job[b].path # c
    BY <2>2, OthersApart
  <2> QED
    BY <2>1, <2>2
<1>2. JobsOK'
  <2> SUFFICES ASSUME NEW b \in Actors
               PROVE  /\ job'[b].stage \notin {"idle", "done"} => job'[b].path \in Captures
                      /\ job'[b].stage \in Moving => job'[b].action # "delete"
                      /\ job'[b].stage \in Converting =>
                           /\ job'[b].action \in Creating /\ how'[job'[b].path] = job'[b].action
                           /\ inbox'[job'[b].path] = Gone /\ archive'[job'[b].path] # Gone
                           /\ created'[job'[b].path] = 0
    BY DEF JobsOK
  <2>2. CASE b = a
    BY <2>2 DEF Converting, Moving
  <2>3. CASE b # a
    <3>1. job'[b] = job[b]
      BY <2>3
    <3>2. /\ job[b].stage \notin {"idle", "done"} => job[b].path \in Captures
          /\ job[b].stage \in Moving => job[b].action # "delete"
          /\ job[b].stage \in Converting =>
               /\ job[b].action \in Creating /\ how[job[b].path] = job[b].action
               /\ inbox[job[b].path] = Gone /\ archive[job[b].path] # Gone
               /\ created[job[b].path] = 0
      BY DEF TriageInv, JobsOK
    <3>3. job[b].stage \in Converting => job[b].path \in Captures \ {c}
      BY <1>1, <2>3
    <3> QED
      BY <3>1, <3>2, <3>3
  <2> QED
    BY <2>2, <2>3
<1>3. ApartOK'
  <2>1. \A b \in Actors \ {a} :
          job'[a].stage \in Converting /\ job'[b].stage \in Converting =>
            job'[a].path # job'[b].path
    BY <1>1
  <2>2. CASE a = "qi"
    <3>1. "skill" \in Actors \ {a}
      BY <2>2 DEF Actors
    <3> QED
      BY <2>1, <2>2, <3>1 DEF ApartOK
  <2>3. CASE a = "skill"
    <3>1. "qi" \in Actors \ {a}
      BY <2>3 DEF Actors
    <3> QED
      BY <2>1, <2>3, <3>1 DEF ApartOK
  <2> QED
    BY <2>2, <2>3 DEF Actors
<1>4. FreshCapture'
  BY DEF TriageInv, FreshCapture
<1>5. InboxOrArchive'
  <2> SUFFICES ASSUME NEW d \in Captures
               PROVE  IF inbox'[d] # Gone THEN archive'[d] = Gone
                      ELSE (archive'[d] = Gone) = (how'[d] = "delete")
    BY DEF InboxOrArchive
  <2>1. CASE d = c
    BY <2>1
  <2>2. CASE d # c
    BY <2>2, ZenonT(30) DEF TriageInv, InboxOrArchive
  <2> QED
    BY <2>1, <2>2
<1>6. ConvertedOnce'
  <2> SUFFICES ASSUME NEW d \in Captures
               PROVE  /\ created'[d] <= 1 /\ (created'[d] = 1 => inbox'[d] = Gone)
                      /\ how'[d] \in Creating /\ d \notin stranded
                         /\ (\A b \in Actors : ~ (job'[b].path = d /\ job'[b].stage \in Converting))
                         => created'[d] = 1
    BY DEF ConvertedOnce, Busy, Converting
  <2>1. CASE d = c
    <3>1. created'[c] <= 1 /\ (created'[c] = 1 => inbox'[c] = Gone)
      OBVIOUS
    <3>2. ASSUME how'[c] \in Creating,
                 \A b \in Actors : ~ (job'[b].path = c /\ job'[b].stage \in Converting)
          PROVE  created'[c] = 1
      BY <3>2
    <3> QED
      BY <2>1, <3>1, <3>2
  <2>2. CASE d # c
    <3>1. (\A b \in Actors : ~ (job'[b].path = d /\ job'[b].stage \in Converting)) => ~Busy(d)
      BY <2>2 DEF Busy, Converting
    <3>2. created[d] <= 1 /\ (created[d] = 1 => inbox[d] = Gone)
      BY DEF TriageInv, ConvertedOnce
    <3> QED
      BY <2>2, <3>1, <3>2 DEF TriageInv, ConvertedOnce
  <2> QED
    BY <2>1, <2>2
<1> QED
  BY <1>2, <1>3, <1>4, <1>5, <1>6

\* A job that goes on to its next stage.
LEMMA JobGoesOn ==
  ASSUME TriageInv, NEW a \in Actors, job[a].stage \notin {"idle", "done"},
         NEW to \in Converting \cup {"rename"}, job' = [job EXCEPT ![a].stage = to], qi' = qi
  PROVE  /\ job' \in [Actors -> JobType] /\ \A b \in Actors \ {a} : job'[b] = job[b]
         /\ job'[a].stage = to /\ job'[a].path = job[a].path /\ job'[a].action = job[a].action
         /\ qi' \in QiType /\ RestOK'
<1>1. job \in [Actors -> JobType] /\ qi \in QiType /\ RestOK
  BY DEF TriageInv, TriageType
<1>2. /\ job' \in [Actors -> JobType] /\ \A b \in Actors \ {a} : job'[b] = job[b]
      /\ job'[a].stage = to /\ job'[a].path = job[a].path /\ job'[a].action = job[a].action
  BY <1>1 DEF JobType, JobStages, Converting
<1>3. /\ job'["qi"].path = job["qi"].path
      /\ job'["qi"].stage \notin {"idle", "done"} => job["qi"].stage \notin {"idle", "done"}
  BY <1>2 DEF Actors
<1>4. RestOK'
  BY <1>1, <1>3 DEF RestOK, Members
<1> QED
  BY <1>1, <1>2, <1>4

\* A free name in the archive is found.
LEMMA FindNameStep ==
  ASSUME TriageInv, NEW a \in Actors, FindName(a)
  PROVE  TriageInv'
<1>1. /\ job[a].stage = "archive" /\ job[a].path \in Captures /\ job[a].action # "delete"
      /\ faults \in Nat
      /\ UNCHANGED <<inbox, archive, created, how, stranded, misdeleted, edits, blank>>
  BY DEF FindName, TriageInv, TriageType, JobsOK, Moving
<1>2. CASE job' = [job EXCEPT ![a].stage = "rename"] /\ UNCHANGED <<qi, faults>>
  <2>1. /\ job' \in [Actors -> JobType] /\ \A b \in Actors \ {a} : job'[b] = job[b]
        /\ job'[a].stage = "rename" /\ job'[a].path = job[a].path
        /\ job'[a].action = job[a].action /\ qi' \in QiType /\ RestOK'
    BY <1>1, <1>2, JobGoesOn
  <2>2. TriageType'
    BY <1>1, <1>2, <2>1 DEF TriageInv, TriageType
  <2>3. ShownOK'
    BY <1>1, <1>2, <2>1, ShownKept DEF TriageInv
  <2>4. JobsOK' /\ ApartOK' /\ FreshCapture' /\ InboxOrArchive' /\ ConvertedOnce'
    BY <1>1, <2>1, FilesKept DEF Converting
  <2>5. DeletedWasShown'
    BY <1>1 DEF TriageInv, DeletedWasShown
  <2> QED
    BY <2>1, <2>2, <2>3, <2>4, <2>5 DEF TriageInv
<1>3. CASE Fail /\ Returns(a, "error")
  <2>1. faults' \in Nat
    BY <1>1, <1>3 DEF Fail
  <2> QED
    BY <1>1, <1>3, <2>1, GivesUp DEF Converting
<1> QED
  BY <1>2, <1>3 DEF FindName

\* A capture is moved to the archive.
LEMMA ArchiveStep ==
  ASSUME TriageInv, NEW a \in Actors, Archive(a)
  PROVE  TriageInv'
<1> USE TriageAssumption
<1> DEFINE c == job[a].path
<1>1. /\ job[a].stage = "rename" /\ c \in Captures /\ job[a].action # "delete" /\ faults \in Nat
      /\ UNCHANGED <<created, stranded, misdeleted, edits, blank>>
      /\ inbox \in [Captures -> BodyOrGone] /\ archive \in [Captures -> BodyOrGone]
      /\ how \in [Captures -> Decisions] /\ job[a].action \in Decisions
  BY DEF Archive, TriageInv, TriageType, JobsOK, JobType, Moving
<1>2. CASE inbox[c] = Gone /\ Returns(a, "not exist") /\ UNCHANGED <<inbox, archive, how, faults>>
  BY <1>1, <1>2, GivesUp DEF Converting
<1>3. CASE Fail /\ Returns(a, "error") /\ UNCHANGED <<inbox, archive, how>>
  <2>1. faults' \in Nat
    BY <1>1, <1>3 DEF Fail
  <2> QED
    BY <1>1, <1>3, <2>1, GivesUp DEF Converting
<1>4. CASE /\ inbox[c] # Gone
           /\ archive' = [archive EXCEPT ![c] = inbox[c]] /\ inbox' = [inbox EXCEPT ![c] = Gone]
           /\ how' = [how EXCEPT ![c] = job[a].action]
           /\ IF job[a].action \in Creating
              THEN job' = [job EXCEPT ![a].stage = "create"] /\ UNCHANGED qi
              ELSE Returns(a, "ok")
           /\ UNCHANGED faults
  <2>1. /\ job' \in [Actors -> JobType] /\ \A b \in Actors \ {a} : job'[b] = job[b]
        /\ job'[a].stage \in {"idle", "done"} \cup Converting /\ job'[a].action # "delete"
        /\ job'[a].stage \in Converting =>
             /\ job'[a].path = c /\ job'[a].action \in Creating /\ job'[a].action = job[a].action
        /\ job[a].action \in Creating => job'[a].stage \in Converting
        /\ qi' \in QiType
        /\ \A i \in DOMAIN qi'.groups : \E j \in DOMAIN qi.groups : qi'.groups[i] = qi.groups[j]
        /\ RestOK'
    <3>1. CASE job[a].action \in Creating
      BY <1>1, <1>4, <3>1, JobGoesOn DEF Converting
    <3>2. CASE job[a].action \notin Creating
      BY <1>1, <1>4, <3>2, ReturnsEffects DEF TriageInv, Converting
    <3> QED
      BY <3>1, <3>2
  <2>2. /\ inbox'[c] = Gone /\ archive'[c] = inbox[c] /\ archive[c] = Gone
        /\ how'[c] = job[a].action /\ created[c] = 0
        /\ \A d \in Captures \ {c} :
             inbox'[d] = inbox[d] /\ archive'[d] = archive[d] /\ how'[d] = how[d]
    BY <1>1, <1>4 DEF TriageInv, InboxOrArchive, FreshCapture
  <2>3. TriageType'
    <3>1. inbox' \in [Captures -> BodyOrGone] /\ archive' \in [Captures -> BodyOrGone]
          /\ how' \in [Captures -> Decisions]
      BY <1>1, <1>4 DEF BodyOrGone
    <3> QED
      BY <1>1, <1>4, <2>1, <3>1 DEF TriageInv, TriageType
  <2>4. ShownOK'
    BY <1>1, <1>4, <2>1, <2>2, ShownKept DEF TriageInv
  <2>5. JobsOK' /\ ApartOK' /\ FreshCapture' /\ InboxOrArchive' /\ ConvertedOnce'
    <3>1. created'[c] <= 1 /\ (created'[c] = 1 => inbox'[c] = Gone)
      BY <1>1, <2>2
    <3> QED
      BY <1>1, <1>4, <2>1, <2>2, <3>1, CaptureMoved
  <2>6. DeletedWasShown'
    BY <1>1 DEF TriageInv, DeletedWasShown
  <2> QED
    BY <2>1, <2>3, <2>4, <2>5, <2>6 DEF TriageInv
<1> QED
  BY <1>2, <1>3, <1>4 DEF Archive

\* The task or note is made.
LEMMA Made ==
  ASSUME TriageInv, NEW a \in Actors, job[a].stage \in {"create", "write"},
         created' = [created EXCEPT ![job[a].path] = @ + 1], Returns(a, "ok"),
         UNCHANGED <<inbox, archive, how, stranded, misdeleted, edits, blank, faults>>
  PROVE  TriageInv'
<1> DEFINE c == job[a].path
<1>1. /\ job[a].stage \in Converting /\ job[a].stage \notin {"idle", "done"}
      /\ c \in Captures /\ job[a].action \in Creating
      /\ how[c] = job[a].action /\ inbox[c] = Gone /\ archive[c] # Gone /\ created[c] = 0
      /\ created \in [Captures -> Nat]
  BY DEF TriageInv, TriageType, JobsOK, Converting
<1>2. /\ job' \in [Actors -> JobType] /\ \A b \in Actors \ {a} : job'[b] = job[b]
      /\ job'[a].stage \in {"idle", "done"} /\ job'[a].action = ""
      /\ qi' \in QiType
      /\ \A i \in DOMAIN qi'.groups : \E j \in DOMAIN qi.groups : qi'.groups[i] = qi.groups[j]
      /\ RestOK'
  BY <1>1, ReturnsEffects DEF TriageInv
<1>3. /\ created'[c] = 1 /\ created' \in [Captures -> Nat]
      /\ \A d \in Captures \ {c} : created'[d] = created[d]
  BY <1>1
<1>4. TriageType'
  BY <1>1, <1>2, <1>3 DEF TriageInv, TriageType
<1>5. ShownOK'
  BY <1>1, <1>2, ShownKept DEF TriageInv
<1>6. how[c] # "delete"
  BY <1>1 DEF Creating
<1>7. JobsOK' /\ ApartOK' /\ FreshCapture' /\ InboxOrArchive' /\ ConvertedOnce'
  <2>1. created'[c] <= 1 /\ (created'[c] = 1 => inbox'[c] = Gone)
    BY <1>1, <1>3
  <2> QED
    BY <1>1, <1>2, <1>3, <1>6, <2>1, CaptureMoved DEF Converting
<1>8. DeletedWasShown'
  BY <1>1 DEF TriageInv, DeletedWasShown
<1> QED
  BY <1>2, <1>4, <1>5, <1>7, <1>8 DEF TriageInv

\* It could not be made, or the name of the note's file is picked.
LEMMA StillConverting ==
  ASSUME TriageInv, NEW a \in Actors, job[a].stage \in {"create", "write"},
         NEW to \in {"write", "restore"}, job' = [job EXCEPT ![a].stage = to],
         UNCHANGED <<inbox, archive, qi, how, created, stranded, misdeleted, edits, blank>>,
         faults' \in Nat
  PROVE  TriageInv'
<1>1. /\ job[a].stage \in Converting /\ job[a].stage \notin {"idle", "done"}
      /\ job[a].path \in Captures /\ job[a].action \in Creating /\ to \in Converting
  BY DEF TriageInv, JobsOK, Converting
<1>2. /\ job' \in [Actors -> JobType] /\ \A b \in Actors \ {a} : job'[b] = job[b]
      /\ job'[a].stage = to /\ job'[a].path = job[a].path /\ job'[a].action = job[a].action
      /\ qi' \in QiType /\ RestOK'
  BY <1>1, JobGoesOn
<1>3. TriageType'
  BY <1>2 DEF TriageInv, TriageType
<1>4. ShownOK'
  BY <1>2, ShownKept DEF TriageInv
<1>5. JobsOK' /\ ApartOK' /\ FreshCapture' /\ InboxOrArchive' /\ ConvertedOnce'
  BY <1>1, <1>2, FilesKept DEF Converting, Moving, Creating
<1>6. DeletedWasShown'
  BY DEF TriageInv, DeletedWasShown
<1> QED
  BY <1>2, <1>3, <1>4, <1>5, <1>6 DEF TriageInv

\* The capture is to be moved back.
LEMMA CreateFailsStep ==
  ASSUME TriageInv, NEW a \in Actors, job[a].stage \in {"create", "write"}, CreateFails(a),
         UNCHANGED <<inbox, archive, how, stranded, misdeleted, edits, blank>>
  PROVE  TriageInv'
<1>1. job' = [job EXCEPT ![a].stage = "restore"] /\ UNCHANGED <<created, qi>> /\ faults' \in Nat
  BY DEF CreateFails, Fail, TriageInv, TriageType
<1> QED
  BY <1>1, StillConverting

\* The task is made, or the note is named and written.
LEMMA CreateStep ==
  ASSUME TriageInv, NEW a \in Actors, MakeTask(a) \/ NameNote(a) \/ WriteNote(a)
  PROVE  TriageInv'
<1>1. /\ UNCHANGED <<inbox, archive, how, stranded, misdeleted, edits, blank>>
      /\ job[a].stage \in {"create", "write"}
  BY DEF MakeTask, NameNote, WriteNote
<1>2. CASE CreateFails(a)
  BY <1>1, <1>2, CreateFailsStep
<1>3. CASE created' = [created EXCEPT ![job[a].path] = @ + 1] /\ Returns(a, "ok") /\ UNCHANGED faults
  BY <1>1, <1>3, Made
<1>4. CASE job' = [job EXCEPT ![a].stage = "write"] /\ UNCHANGED <<created, qi, faults>>
  <2>1. faults' \in Nat
    BY <1>4 DEF TriageInv, TriageType
  <2> QED
    BY <1>1, <1>4, <2>1, StillConverting
<1> QED
  BY <1>2, <1>3, <1>4 DEF MakeTask, NameNote, WriteNote

\* The capture is moved back, or that fails too.
LEMMA RestoreStep ==
  ASSUME TriageInv, NEW a \in Actors, Restore(a)
  PROVE  TriageInv'
<1> DEFINE c == job[a].path
<1>1. /\ job[a].stage = "restore" /\ c \in Captures /\ faults \in Nat /\ Returns(a, "error")
      /\ UNCHANGED <<created, misdeleted, edits, blank>>
      /\ inbox[c] = Gone /\ archive[c] # Gone /\ created[c] = 0
      /\ inbox \in [Captures -> BodyOrGone] /\ archive \in [Captures -> BodyOrGone]
      /\ how \in [Captures -> Decisions]
  BY DEF Restore, TriageInv, TriageType, JobsOK, Converting
<1>2. CASE /\ inbox' = [inbox EXCEPT ![c] = archive[c]] /\ archive' = [archive EXCEPT ![c] = Gone]
           /\ how' = [how EXCEPT ![c] = ""] /\ UNCHANGED <<stranded, faults>>
  <2>1. /\ job' \in [Actors -> JobType] /\ \A b \in Actors \ {a} : job'[b] = job[b]
        /\ job'[a].stage \in {"idle", "done"} /\ job'[a].action = ""
        /\ qi' \in QiType
        /\ \A i \in DOMAIN qi'.groups : \E j \in DOMAIN qi.groups : qi'.groups[i] = qi.groups[j]
        /\ RestOK'
    BY <1>1, ReturnsEffects DEF TriageInv
  <2>2. /\ inbox'[c] = archive[c] /\ archive'[c] = Gone /\ how'[c] = ""
        /\ \A d \in Captures \ {c} :
             inbox'[d] = inbox[d] /\ archive'[d] = archive[d] /\ how'[d] = how[d]
    BY <1>1, <1>2
  <2>3. TriageType'
    <3>1. inbox' \in [Captures -> BodyOrGone] /\ archive' \in [Captures -> BodyOrGone]
          /\ how' \in [Captures -> Decisions]
      BY <1>1, <1>2 DEF BodyOrGone, Decisions
    <3> QED
      BY <1>1, <1>2, <2>1, <3>1 DEF TriageInv, TriageType
  <2>4. ShownOK'
    BY <1>1, <1>2, <2>1, <2>2, ShownKept DEF TriageInv
  <2>5. "" \notin Creating
    BY DEF Creating
  <2>6. JobsOK' /\ ApartOK' /\ FreshCapture' /\ InboxOrArchive' /\ ConvertedOnce'
    <3>1. created'[c] <= 1 /\ (created'[c] = 1 => inbox'[c] = Gone)
      BY <1>1
    <3> QED
      BY <1>1, <1>2, <2>1, <2>2, <2>5, <3>1, CaptureMoved DEF Converting
  <2>7. DeletedWasShown'
    BY <1>1 DEF TriageInv, DeletedWasShown
  <2> QED
    BY <2>1, <2>3, <2>4, <2>6, <2>7 DEF TriageInv
<1>3. CASE Fail /\ stranded' = stranded \cup {c} /\ UNCHANGED <<inbox, archive, how>>
  <2>1. faults' \in Nat
    BY <1>1, <1>3 DEF Fail
  <2> QED
    BY <1>1, <1>3, <2>1, GivesUp DEF Converting
<1> QED
  BY <1>2, <1>3 DEF Restore

\* A process dies at any point of an Apply.
LEMMA DiesStep ==
  ASSUME TriageInv, NEW a \in Actors, Dies(a)
  PROVE  TriageInv'
<1>1. /\ job[a].stage \notin {"idle", "done"} /\ faults' \in Nat
      /\ stranded \subseteq stranded' /\ (job[a].stage \in Converting => job[a].path \in stranded')
      /\ job' = [job EXCEPT ![a] = [NoJob EXCEPT !.stage = "done"]]
      /\ qi' = IF a = "qi" THEN [qi EXCEPT !.stage = "done"] ELSE qi
      /\ UNCHANGED <<inbox, archive, created, how, misdeleted, edits, blank>>
  BY DEF Dies, Fail, Converting, TriageInv, TriageType
<1>2. /\ job' \in [Actors -> JobType] /\ \A b \in Actors \ {a} : job'[b] = job[b]
      /\ job'[a].stage = "done" /\ job'[a].action = ""
  BY <1>1, NoJobIs DEF TriageInv, TriageType, JobType, JobStages
<1>3. /\ qi' \in QiType /\ qi'.groups = qi.groups
      /\ a = "qi" => qi'.stage = "done"
      /\ a # "qi" => qi' = qi
  BY <1>1 DEF TriageInv, TriageType, QiType
<1>4. RestOK'
  <2>1. CASE a = "qi"
    BY <1>2, <1>3, <2>1 DEF RestOK
  <2>2. CASE a # "qi"
    <3>1. qi' = qi /\ job'["qi"] = job["qi"] /\ RestOK
      BY <1>2, <1>3, <2>2 DEF TriageInv, Actors
    <3> QED
      BY <3>1 DEF RestOK, Members
  <2> QED
    BY <2>1, <2>2
<1>5. TriageType'
  BY <1>1, <1>2, <1>3 DEF TriageInv, TriageType
<1>6. ShownOK'
  BY <1>1, <1>3, ShownKept DEF TriageInv
<1>7. JobsOK' /\ ApartOK' /\ FreshCapture' /\ InboxOrArchive' /\ ConvertedOnce'
  BY <1>1, <1>2, FilesKept DEF Converting
<1>8. DeletedWasShown'
  BY <1>1 DEF TriageInv, DeletedWasShown
<1> QED
  BY <1>3, <1>4, <1>5, <1>6, <1>7, <1>8 DEF TriageInv

\* The user edits a capture.
LEMMA EditCaptureStep ==
  ASSUME TriageInv, NEW c \in Captures, NEW body \in Contents, EditCapture(c, body)
  PROVE  TriageInv'
<1>1. /\ inbox[c] # Gone /\ inbox' = [inbox EXCEPT ![c] = body] /\ edits' = edits + 1
      /\ UNCHANGED <<archive, qi, job, created, how, stranded, misdeleted, faults, blank>>
      /\ inbox \in [Captures -> BodyOrGone] /\ edits \in Nat
  BY DEF EditCapture, TriageInv, TriageType
<1>2. body # Gone
  BY TriageAssumption
<1>3. /\ inbox'[c] # Gone /\ \A d \in Captures \ {c} : inbox'[d] = inbox[d]
      /\ inbox' \in [Captures -> BodyOrGone] /\ edits' > 0 /\ edits' \in Nat
  BY <1>1, <1>2 DEF BodyOrGone
<1>4. TriageType'
  BY <1>1, <1>3 DEF TriageInv, TriageType
<1>5. ShownOK' /\ DeletedWasShown'
  BY <1>3 DEF ShownOK, DeletedWasShown
<1>6. RestOK' /\ ApartOK'
  BY <1>1 DEF TriageInv, RestOK, ApartOK, Members
<1>7. JobsOK'
  <2>1. \A a \in Actors : job[a].stage \in Converting => job[a].path \in Captures \ {c}
    BY <1>1 DEF TriageInv, JobsOK, Converting
  <2> QED
    BY <1>1, <1>3, <2>1 DEF TriageInv, JobsOK
<1>8. FreshCapture'
  BY <1>1, <1>3 DEF TriageInv, FreshCapture
<1>9. InboxOrArchive'
  BY <1>1, <1>3 DEF TriageInv, InboxOrArchive
<1>10. ConvertedOnce'
  <2>1. \A d \in Captures : inbox'[d] = Gone <=> inbox[d] = Gone
    BY <1>1, <1>3
  <2> QED
    BY <1>1, <2>1 DEF TriageInv, ConvertedOnce, Busy
<1> QED
  BY <1>4, <1>5, <1>6, <1>7, <1>8, <1>9, <1>10 DEF TriageInv

\* Every step of either actor, every failure, death and edit keeps the
\* invariant.
LEMMA TriageInvStep == TriageInv /\ [InboxNext]_triageVars => TriageInv'
<1> SUFFICES ASSUME TriageInv, [InboxNext]_triageVars PROVE TriageInv'
  OBVIOUS
<1>1. CASE ListDir \/ ReadCapture
  BY <1>1, ListDirStep, ReadCaptureStep
<1>2. CASE \/ ApplyNext
           \/ \E c \in Captures, action \in Creating \cup {"archive", "delete"} : SkillApply(c, action)
  BY <1>2, JobStarts
<1>3. CASE \E action \in Creating \cup {"archive", "delete", "skip"} : Decide(action)
  BY <1>3, DecideStep
<1>4. CASE \E a \in Actors : ApplyStep(a)
  BY <1>4, ValidateStep, DeleteStep, FindNameStep, ArchiveStep, CreateStep, RestoreStep, DiesStep
     DEF ApplyStep
<1>5. CASE \E c \in Captures, body \in Contents : EditCapture(c, body)
  BY <1>5, EditCaptureStep
<1>6. CASE UNCHANGED triageVars
  <2>1. UNCHANGED <<inbox, archive, qi, job, created, how, blank, stranded, misdeleted, faults,
                    edits>>
    BY <1>6 DEF triageVars
  <2>2. TriageType' /\ ShownOK' /\ RestOK' /\ JobsOK' /\ ApartOK'
    <3>1. TriageType'
      BY <2>1 DEF TriageInv, TriageType
    <3>2. ShownOK'
      BY <2>1, ShownKept DEF TriageInv, TriageType
    <3>3. RestOK'
      <4>1. RestOK
        BY DEF TriageInv
      <4> QED
        BY <2>1, <4>1 DEF RestOK, Members
    <3>4. JobsOK' /\ ApartOK'
      BY <2>1 DEF TriageInv, JobsOK, ApartOK
    <3> QED
      BY <3>1, <3>2, <3>3, <3>4
  <2>3. FreshCapture' /\ InboxOrArchive' /\ ConvertedOnce' /\ DeletedWasShown'
    BY <2>1 DEF TriageInv, FreshCapture, InboxOrArchive, ConvertedOnce, Busy, DeletedWasShown
  <2> QED
    BY <2>2, <2>3 DEF TriageInv
<1> QED
  BY <1>1, <1>2, <1>3, <1>4, <1>5, <1>6 DEF InboxNext

\* The notes: what each file holds, what an Apply between WriteNote's look and its
\* write knows, and what was reported.
Titles == {"none"} \cup {body.summary : body \in BodyOrGone}
Entry == [of : Captures \cup {0}, title : Titles, from : Nat, to : Nat]

NotesType ==
  /\ second \in Nat /\ wrote \in Seq(Entry)
  /\ \A a \in Actors : naming[a].title \in Titles /\ naming[a].from \in Nat

FilesOK ==
  /\ \A i \in DOMAIN wrote : wrote[i].from <= wrote[i].to /\ wrote[i].to <= second
  /\ \A n \in notes :
       /\ n.entry \in DOMAIN wrote /\ wrote[n.entry].title = n.title
       /\ n.stamp = 0 \/ n.stamp = wrote[n.entry].from

\* The title alone was free when it was picked: whoever has it now wrote it since.
NamingOK ==
  \A a \in Actors : job[a].stage = "write" =>
    /\ naming[a].from <= second
    /\ naming[a].stamp = 0 \/ naming[a].stamp = naming[a].from
    /\ naming[a].stamp = 0 =>
         \A n \in notes : n.title = naming[a].title /\ n.stamp = 0 =>
           naming[a].from <= wrote[n.entry].to

NotesInv ==
  /\ NotesType /\ naming \in [Actors -> [title : Titles, stamp : Nat, from : Nat]]
  /\ FilesOK /\ NamingOK /\ NotesReported /\ NotesKept

\* The notes as they are found.
LEMMA NotesInvInit == InboxInit => NotesInv
<1> USE TriageAssumption
<1> SUFFICES ASSUME InboxInit PROVE NotesInv
  OBVIOUS
<1>1. /\ second = 1 /\ naming = [a \in Actors |-> NoNote] /\ job = [a \in Actors |-> NoJob]
  BY DEF InboxInit
<1>2. naming \in [Actors -> [title : Titles, stamp : Nat, from : Nat]]
  BY <1>1 DEF NoNote, Titles
<1>3. NamingOK
  BY <1>1, NoJobIs DEF NamingOK
<1>4. CASE notes = {} /\ wrote = <<>>
  <2>1. wrote \in Seq(Entry) /\ DOMAIN wrote = {}
    BY <1>4
  <2> QED
    BY <1>1, <1>2, <1>3, <1>4, <2>1 DEF NotesInv, NotesType, FilesOK, NotesReported, NotesKept
<1>5. ASSUME NEW body \in Contents,
             notes = {[title |-> body.summary, stamp |-> 0, entry |-> 1]},
             wrote = <<[of |-> 0, title |-> body.summary, from |-> 0, to |-> 0]>>
      PROVE  NotesInv
  <2>1. body.summary \in Titles
    BY DEF Titles, BodyOrGone
  <2>2. /\ wrote \in Seq(Entry) /\ DOMAIN wrote = {1}
        /\ wrote[1] = [of |-> 0, title |-> body.summary, from |-> 0, to |-> 0]
    BY <1>5, <2>1 DEF Entry
  <2>3. FilesOK
    BY <1>1, <1>5, <2>2 DEF FilesOK
  <2>4. NotesReported /\ NotesKept
    BY <1>5, <2>2 DEF NotesReported, NotesKept
  <2> QED
    BY <1>1, <1>2, <1>3, <2>2, <2>3, <2>4 DEF NotesInv, NotesType
<1> QED
  BY <1>4, <1>5 DEF InboxInit

\* What an entry of the notes written says.
LEMMA EntriesOK ==
  ASSUME NotesType, FilesOK
  PROVE  \A i \in DOMAIN wrote :
           /\ wrote[i].from \in Nat /\ wrote[i].to \in Nat /\ wrote[i].of \in Captures \cup {0}
           /\ wrote[i].from <= wrote[i].to /\ wrote[i].to <= second
<1>1. \A i \in DOMAIN wrote : wrote[i] \in Entry
  BY DEF NotesType
<1>2. \A e \in Entry : e.from \in Nat /\ e.to \in Nat /\ e.of \in Captures \cup {0}
  BY DEF Entry
<1> QED
  BY <1>1, <1>2 DEF FilesOK

\* A step that neither names nor writes a note.
LEMMA NotesApart ==
  ASSUME NotesInv, UNCHANGED noteVars,
         \A a \in Actors : job'[a].stage = "write" => job[a].stage = "write",
         \A c \in Captures : created[c] = 1 => created'[c] = 1
  PROVE  NotesInv'
<1>1. UNCHANGED <<notes, naming, second, wrote, halfmade>>
  BY DEF noteVars
<1>2. NotesType' /\ FilesOK' /\ NamingOK' /\ NotesKept'
  BY <1>1 DEF NotesInv, NotesType, FilesOK, NamingOK, NotesKept, Beside
<1>3. \A i \in DOMAIN wrote : wrote[i].of \in Captures \cup {0}
  BY EntriesOK DEF NotesInv
<1>4. NotesReported'
  BY <1>1, <1>3 DEF NotesInv, NotesReported
<1> QED
  BY <1>1, <1>2, <1>4 DEF NotesInv

\* What a job's return leaves of it.
LEMMA ReturnedJob ==
  ASSUME TriageInv, NEW a \in Actors, NEW result, Returns(a, result)
  PROVE  \A b \in Actors : job'[b].stage = "write" => job[b].stage = "write"
<1>1. job' = [job EXCEPT ![a] = [NoJob EXCEPT !.stage = IF a = "skill" THEN "done" ELSE "idle"]]
  BY DEF Returns
<1>2. job'[a].stage # "write" /\ \A b \in Actors \ {a} : job'[b] = job[b]
  BY <1>1, NoJobIs DEF TriageInv, TriageType, JobType
<1> QED
  BY <1>2

\* The file of a note is picked.
LEMMA NoteNamed ==
  ASSUME TriageInv, NotesInv, NEW a \in Actors, NameNote(a)
  PROVE  NotesInv'
<1> DEFINE title == job[a].body.summary
           taken == \E n \in notes : n.title = title /\ n.stamp = 0
<1>1. /\ job \in [Actors -> JobType] /\ second \in Nat
      /\ UNCHANGED <<notes, wrote, halfmade, created>>
  BY DEF TriageInv, TriageType, NotesInv, NotesType, NameNote, CreateFails
<1>2. ASSUME CreateFails(a), UNCHANGED <<second, naming>>
      PROVE  NotesInv'
  <2>1. \A b \in Actors : job'[b].stage = "write" => job[b].stage = "write"
    BY <1>1, <1>2 DEF CreateFails, JobType
  <2> QED
    BY <1>1, <1>2, <2>1, NotesApart DEF noteVars
<1>3. ASSUME NEW now \in {second, second + 1}, second' = now,
             naming' = [naming EXCEPT ![a] = [title |-> title, from |-> now,
                                              stamp |-> IF taken THEN now ELSE 0]],
             job' = [job EXCEPT ![a].stage = "write"]
      PROVE  NotesInv'
  <2>1. title \in Titles
    BY <1>1 DEF Titles, JobType
  <2> DEFINE stamp == IF taken THEN now ELSE 0
  <2>2. /\ now \in Nat /\ second <= now /\ stamp \in {0, now} /\ stamp \in Nat
        /\ (stamp = 0 /\ taken) => now = 0
    BY <1>1, <1>3
  <2>3. stamp = 0 => now = 0 \/ ~taken
    BY <2>2
  <2> HIDE DEF title, taken, stamp
  <2>4. /\ naming' \in [Actors -> [title : Titles, stamp : Nat, from : Nat]]
        /\ naming'[a].title = title /\ naming'[a].stamp = stamp /\ naming'[a].from = now
        /\ \A b \in Actors \ {a} : naming'[b] = naming[b] /\ job'[b] = job[b]
    <3>1. [title |-> title, from |-> now, stamp |-> stamp] \in [title : Titles, stamp : Nat, from : Nat]
      BY <2>1, <2>2
    <3>2. naming' = [naming EXCEPT ![a] = [title |-> title, from |-> now, stamp |-> stamp]]
      BY <1>3 DEF stamp
    <3> QED
      BY <1>1, <1>3, <3>1, <3>2 DEF NotesInv, JobType
  <2>5. NotesType'
    BY <1>1, <1>3, <2>2, <2>4 DEF NotesInv, NotesType
  <2>6. \A i \in DOMAIN wrote : /\ wrote[i].from \in Nat /\ wrote[i].to \in Nat
                                /\ wrote[i].from <= wrote[i].to /\ wrote[i].to <= second
    BY EntriesOK DEF NotesInv
  <2>7. FilesOK'
    BY <1>1, <1>3, <2>2, <2>6 DEF NotesInv, FilesOK
  <2>8. NamingOK'
    <3> SUFFICES ASSUME NEW b \in Actors, job'[b].stage = "write"
                 PROVE  /\ naming'[b].from <= now
                        /\ naming'[b].stamp = 0 \/ naming'[b].stamp = naming'[b].from
                        /\ naming'[b].stamp = 0 =>
                             \A n \in notes : n.title = naming'[b].title /\ n.stamp = 0 =>
                               naming'[b].from <= wrote[n.entry].to
      BY <1>1, <1>3 DEF NamingOK
    <3>1. CASE b = a
      <4>1. ASSUME NEW n \in notes, stamp = 0, n.title = title, n.stamp = 0
            PROVE  now <= wrote[n.entry].to
        <5>1. now = 0
          BY <2>3, <4>1 DEF taken
        <5>2. n.entry \in DOMAIN wrote
          BY DEF NotesInv, FilesOK
        <5> QED
          BY <2>6, <5>1, <5>2
      <4> QED
        BY <2>2, <2>4, <3>1, <4>1
    <3>2. CASE b # a
      <4>1. naming[b].from \in Nat /\ naming[b].from <= second
        BY <2>4, <3>2 DEF NotesInv, NotesType, NamingOK
      <4>2. naming[b].from <= now
        BY <1>1, <2>2, <4>1
      <4> QED
        BY <2>4, <3>2, <4>2 DEF NotesInv, NamingOK
    <3> QED
      BY <3>1, <3>2
  <2>9. NotesReported' /\ NotesKept'
    BY <1>1 DEF NotesInv, NotesReported, NotesKept, Beside
  <2> QED
    BY <2>4, <2>5, <2>7, <2>8, <2>9 DEF NotesInv
<1> QED
  BY <1>2, <1>3 DEF NameNote

\* The file of a note is written: what was in it was written at the same time or
\* in the same second.
LEMMA NoteWritten ==
  ASSUME TriageInv, NotesInv, NEW a \in Actors, job[a].stage = "write",
         notes' = {n \in notes : ~ (n.title = naming[a].title /\ n.stamp = naming[a].stamp)}
                    \cup {[title |-> naming[a].title, stamp |-> naming[a].stamp,
                           entry |-> Len(wrote) + 1]},
         wrote' = Append(wrote, [of |-> job[a].path, title |-> naming[a].title,
                                 from |-> naming[a].from, to |-> second]),
         UNCHANGED <<naming, second>>, halfmade \subseteq halfmade',
         job[a].path \in halfmade' \/ created'[job[a].path] = 1,
         \A d \in Captures \ {job[a].path} : created'[d] = created[d],
         \A b \in Actors : job'[b].stage = "write" => job[b].stage = "write"
  PROVE  NotesInv'
<1> DEFINE c == job[a].path
           k == Len(wrote) + 1
           title == naming[a].title
           stamp == naming[a].stamp
           from == naming[a].from
           entry == [of |-> c, title |-> title, from |-> from, to |-> second]
           file == [title |-> title, stamp |-> stamp, entry |-> k]
<1>1. /\ c \in Captures /\ c # 0 /\ created[c] = 0
      /\ title \in Titles /\ stamp \in Nat /\ from \in Nat /\ second \in Nat
      /\ wrote \in Seq(Entry) /\ Len(wrote) \in Nat
  <2>1. c \in Captures /\ created[c] = 0
    BY DEF TriageInv, JobsOK, Converting
  <2> QED
    BY <2>1 DEF NotesInv, NotesType, Captures
<1>2. /\ from <= second /\ (stamp = 0 \/ stamp = from)
      /\ stamp = 0 => \A n \in notes : n.title = title /\ n.stamp = 0 => from <= wrote[n.entry].to
  BY DEF NotesInv, NamingOK
<1>3. entry \in Entry
  BY <1>1 DEF Entry
<1>4. notes' = {n \in notes : ~ (n.title = title /\ n.stamp = stamp)} \cup {file} /\ wrote' = Append(wrote, entry)
  OBVIOUS
<1>5. /\ file.title = title /\ file.stamp = stamp /\ file.entry = k
      /\ entry.of = c /\ entry.title = title /\ entry.from = from /\ entry.to = second
  OBVIOUS
<1> HIDE DEF c, title, stamp, from, entry, file
<1>6. /\ wrote' \in Seq(Entry) /\ DOMAIN wrote' = DOMAIN wrote \cup {k} /\ k \notin DOMAIN wrote
      /\ wrote'[k] = entry /\ \A i \in DOMAIN wrote : wrote'[i] = wrote[i]
  BY <1>1, <1>3, <1>4
<1>7. \A i \in DOMAIN wrote :
        /\ wrote[i].from \in Nat /\ wrote[i].to \in Nat /\ wrote[i].of \in Captures \cup {0}
        /\ wrote[i].from <= wrote[i].to /\ wrote[i].to <= second
  BY EntriesOK DEF NotesInv
<1>8. \A n \in notes : /\ n.entry \in DOMAIN wrote /\ wrote[n.entry].title = n.title
                       /\ n.stamp = 0 \/ n.stamp = wrote[n.entry].from
  BY DEF NotesInv, FilesOK
<1> HIDE DEF k
<1>9. NotesType'
  BY <1>6 DEF NotesInv, NotesType
<1>10. FilesOK'
  <2>1. \A i \in DOMAIN wrote' : wrote'[i].from <= wrote'[i].to /\ wrote'[i].to <= second
    BY <1>1, <1>2, <1>5, <1>6, <1>7
  <2>2. \A n \in notes' : /\ n.entry \in DOMAIN wrote' /\ wrote'[n.entry].title = n.title
                          /\ n.stamp = 0 \/ n.stamp = wrote'[n.entry].from
    BY <1>2, <1>4, <1>5, <1>6, <1>8
  <2> QED
    BY <2>1, <2>2 DEF FilesOK
<1>11. NamingOK'
  <2> SUFFICES ASSUME NEW b \in Actors, job'[b].stage = "write"
               PROVE  /\ naming[b].from <= second
                      /\ naming[b].stamp = 0 \/ naming[b].stamp = naming[b].from
                      /\ naming[b].stamp = 0 =>
                           \A n \in notes' : n.title = naming[b].title /\ n.stamp = 0 =>
                             naming[b].from <= wrote'[n.entry].to
    BY DEF NamingOK
  <2>1. /\ naming[b].from <= second
        /\ naming[b].stamp = 0 \/ naming[b].stamp = naming[b].from
        /\ naming[b].stamp = 0 =>
             \A n \in notes : n.title = naming[b].title /\ n.stamp = 0 =>
               naming[b].from <= wrote[n.entry].to
    BY DEF NotesInv, NamingOK
  <2>2. ASSUME NEW n \in notes', naming[b].stamp = 0, n.title = naming[b].title, n.stamp = 0
        PROVE  naming[b].from <= wrote'[n.entry].to
    <3>1. CASE n \in notes
      BY <1>6, <1>8, <2>1, <2>2, <3>1
    <3>2. CASE n = file
      BY <1>5, <1>6, <2>1, <3>2
    <3> QED
      BY <1>4, <2>2, <3>1, <3>2
  <2> QED
    BY <2>1, <2>2
<1>12. NotesReported'
  <2>1. \A i \in DOMAIN wrote :
          \/ wrote[i].of = 0 \/ wrote[i].of \in halfmade
          \/ created[wrote[i].of] = 1 /\ \A j \in DOMAIN wrote \ {i} : wrote[j].of # wrote[i].of
    BY DEF NotesInv, NotesReported
  <2>2. \A i \in DOMAIN wrote : wrote[i].of = c => c \in halfmade
    BY <1>1, <2>1
  <2>3. \/ c \in halfmade'
        \/ created'[c] = 1 /\ \A i \in DOMAIN wrote : wrote[i].of # c
    <3>1. c \in halfmade' \/ created'[c] = 1
      BY DEF c
    <3>2. CASE c \in halfmade
      BY <3>2
    <3>3. CASE c \notin halfmade
      <4>1. \A i \in DOMAIN wrote : wrote[i].of # c
        BY <2>2, <3>3
      <4> QED
        BY <3>1, <4>1
    <3> QED
      BY <3>2, <3>3
  <2>4. \A d \in Captures \ {c} : created'[d] = created[d]
    BY DEF c
  <2>5. ASSUME NEW i \in DOMAIN wrote, wrote[i].of # 0, wrote[i].of \notin halfmade'
        PROVE  created'[wrote[i].of] = 1 /\ \A j \in DOMAIN wrote' \ {i} : wrote'[j].of # wrote[i].of
    <3>1. /\ wrote[i].of \notin halfmade /\ created[wrote[i].of] = 1
          /\ \A j \in DOMAIN wrote \ {i} : wrote[j].of # wrote[i].of
      BY <2>1, <2>5
    <3>2. wrote[i].of \in Captures \ {c}
      BY <1>1, <1>7, <2>5, <3>1
    <3> QED
      BY <1>5, <1>6, <2>4, <3>1, <3>2
  <2>6. \A i \in DOMAIN wrote' :
          \/ wrote'[i].of = 0 \/ wrote'[i].of \in halfmade'
          \/ created'[wrote'[i].of] = 1 /\ \A j \in DOMAIN wrote' \ {i} : wrote'[j].of # wrote'[i].of
    <3> SUFFICES ASSUME NEW i \in DOMAIN wrote'
                 PROVE  \/ wrote'[i].of = 0 \/ wrote'[i].of \in halfmade'
                        \/ /\ created'[wrote'[i].of] = 1
                           /\ \A j \in DOMAIN wrote' \ {i} : wrote'[j].of # wrote'[i].of
      OBVIOUS
    <3>1. CASE i = k
      BY <1>5, <1>6, <2>3, <3>1
    <3>2. CASE i \in DOMAIN wrote
      BY <1>6, <2>5, <3>2
    <3> QED
      BY <1>6, <3>1, <3>2
  <2> QED
    BY <2>6 DEF NotesReported
<1>13. NotesKept'
  <2> SUFFICES ASSUME NEW i \in DOMAIN wrote'
               PROVE  \/ \E n \in notes' : n.entry = i
                      \/ \E j \in DOMAIN wrote' \ {i} : Beside(wrote'[i], wrote'[j])
    BY DEF NotesKept, Beside
  <2>1. CASE i = k
    BY <1>4, <1>5, <2>1
  <2>2. CASE i \in DOMAIN wrote
    <3>1. ASSUME NEW j \in DOMAIN wrote \ {i}, Beside(wrote[i], wrote[j])
          PROVE  j \in DOMAIN wrote' \ {i} /\ Beside(wrote'[i], wrote'[j])
      BY <1>6, <2>2, <3>1
    <3>2. ASSUME NEW n \in notes, n.entry = i, n \notin notes'
          PROVE  k \in DOMAIN wrote' \ {i} /\ Beside(wrote'[i], wrote'[k])
      <4>1. n.title = title /\ n.stamp = stamp
        BY <1>4, <3>2
      <4>2. from <= wrote[i].to
        BY <1>1, <1>2, <1>7, <1>8, <2>2, <3>2, <4>1
      <4>3. wrote[i].from <= second
        BY <1>1, <1>7, <2>2
      <4> QED
        BY <1>5, <1>6, <1>8, <2>2, <3>2, <4>1, <4>2, <4>3 DEF Beside
    <3> QED
      BY <2>2, <3>1, <3>2 DEF NotesInv, NotesKept
  <2> QED
    BY <1>6, <2>1, <2>2
<1> QED
  BY <1>9, <1>10, <1>11, <1>12, <1>13 DEF NotesInv

\* A note is written, and read back or not, or it is not written.
LEMMA WriteNoteStep ==
  ASSUME TriageInv, NotesInv, NEW a \in Actors, WriteNote(a)
  PROVE  NotesInv'
<1> DEFINE c == job[a].path
<1>1. /\ job[a].stage = "write" /\ job \in [Actors -> JobType] /\ created \in [Captures -> Nat]
      /\ c \in Captures /\ created[c] = 0 /\ UNCHANGED <<naming, second>>
  BY DEF WriteNote, TriageInv, TriageType, JobsOK, Converting
<1>2. CreateFails(a) => \A b \in Actors : job'[b].stage = "write" => job[b].stage = "write"
  BY <1>1 DEF CreateFails, JobType
<1>3. CASE CreateFails(a) /\ UNCHANGED <<notes, wrote, halfmade>>
  BY <1>1, <1>2, <1>3, NotesApart DEF noteVars, CreateFails
<1>4. CASE /\ notes' = {n \in notes : ~ (n.title = naming[a].title /\ n.stamp = naming[a].stamp)}
                         \cup {[title |-> naming[a].title, stamp |-> naming[a].stamp,
                                entry |-> Len(wrote) + 1]}
           /\ wrote' = Append(wrote, [of |-> c, title |-> naming[a].title,
                                      from |-> naming[a].from, to |-> second])
           /\ \/ /\ created' = [created EXCEPT ![c] = @ + 1]
                 /\ Returns(a, "ok") /\ UNCHANGED <<faults, halfmade>>
              \/ CreateFails(a) /\ halfmade' = halfmade \cup {c}
  <2>1. \A b \in Actors : job'[b].stage = "write" => job[b].stage = "write"
    BY <1>2, <1>4, ReturnedJob
  <2>2. /\ c \in halfmade' \/ created'[c] = 1
        /\ \A d \in Captures \ {c} : created'[d] = created[d]
        /\ halfmade \subseteq halfmade'
    BY <1>1, <1>4 DEF CreateFails
  <2> QED
    BY <1>1, <1>4, <2>1, <2>2, NoteWritten
<1> QED
  BY <1>3, <1>4 DEF WriteNote

\* Every step keeps the notes.
LEMMA NotesInvStep == TriageInv /\ NotesInv /\ [InboxNext]_triageVars => NotesInv'
<1> SUFFICES ASSUME TriageInv, NotesInv, [InboxNext]_triageVars PROVE NotesInv'
  OBVIOUS
<1> DEFINE Quiet == \A b \in Actors : job'[b].stage = "write" => job[b].stage = "write"
<1>1. job \in [Actors -> JobType] /\ created \in [Captures -> Nat]
  BY DEF TriageInv, TriageType
<1>2. CASE ListDir \/ ReadCapture \/ \E action \in Creating \cup {"archive", "delete", "skip"} : Decide(action)
  BY <1>2, NotesApart DEF ListDir, ReadCapture, Decide
<1>3. CASE ApplyNext
  <2>1. Quiet
    BY <1>1, <1>3, NoJobIs DEF ApplyNext, Actors, JobType
  <2> QED
    BY <1>3, <2>1, NotesApart DEF ApplyNext
<1>4. ASSUME NEW c \in Captures, NEW action \in Creating \cup {"archive", "delete"}, SkillApply(c, action)
      PROVE  NotesInv'
  <2>1. Quiet
    BY <1>1, <1>4, NoJobIs DEF SkillApply, Actors, JobType
  <2> QED
    BY <1>4, <2>1, NotesApart DEF SkillApply
<1>5. ASSUME NEW a \in Actors, ApplyStep(a)
      PROVE  NotesInv'
  <2>1. CASE NameNote(a) \/ WriteNote(a)
    BY <2>1, NoteNamed, WriteNoteStep
  <2>2. CASE Validate(a)
    <3>1. Quiet
      <4>1. CASE inbox[job[a].path] = Gone
        BY <2>2, <4>1, ReturnedJob DEF Validate
      <4>2. CASE inbox[job[a].path] # Gone
        <5> DEFINE to == IF job[a].action = "delete" THEN "delete" ELSE "archive"
                   body == CaptureBody(job[a].path)
        <5>1. job' = [job EXCEPT ![a].stage = to, ![a].body = body] /\ to # "write"
          BY <2>2, <4>2 DEF Validate
        <5> HIDE DEF to, body
        <5> QED
          BY <1>1, <5>1 DEF JobType
      <4> QED
        BY <4>1, <4>2
    <3> QED
      BY <2>2, <3>1, NotesApart DEF Validate
  <2>3. CASE Delete(a)
    <3>1. Quiet
      BY <2>3, ReturnedJob DEF Delete
    <3> QED
      BY <2>3, <3>1, NotesApart DEF Delete
  <2>4. CASE FindName(a) \/ Archive(a)
    <3>1. Quiet
      BY <1>1, <2>4, ReturnedJob DEF FindName, Archive, JobType
    <3> QED
      BY <2>4, <3>1, NotesApart DEF FindName, Archive
  <2>5. CASE MakeTask(a)
    <3>1. Quiet
      BY <1>1, <2>5, ReturnedJob DEF MakeTask, CreateFails, JobType
    <3>2. \A c \in Captures : created[c] = 1 => created'[c] = 1
      <4>1. job[a].path \in Captures /\ created[job[a].path] = 0
        BY <2>5 DEF MakeTask, TriageInv, JobsOK, Converting
      <4> QED
        BY <1>1, <2>5, <4>1 DEF MakeTask, CreateFails
    <3> QED
      BY <2>5, <3>1, <3>2, NotesApart DEF MakeTask
  <2>6. CASE Restore(a)
    <3>1. Quiet
      BY <2>6, ReturnedJob DEF Restore
    <3> QED
      BY <2>6, <3>1, NotesApart DEF Restore
  <2>7. CASE Dies(a)
    <3>1. Quiet
      BY <1>1, <2>7, NoJobIs DEF Dies, JobType
    <3> QED
      BY <2>7, <3>1, NotesApart DEF Dies
  <2> QED
    BY <1>5, <2>1, <2>2, <2>3, <2>4, <2>5, <2>6, <2>7 DEF ApplyStep
<1>6. CASE \E c \in Captures, body \in Contents : EditCapture(c, body)
  BY <1>6, NotesApart DEF EditCapture
<1>7. CASE UNCHANGED triageVars
  BY <1>7, NotesApart DEF triageVars
<1> QED
  BY <1>2, <1>3, <1>4, <1>5, <1>6, <1>7 DEF InboxNext

\* Triage leaves every capture, and every note made from one, accounted for, for
\* any number of captures, edits, failing calls and deaths of either process,
\* whatever the skill is told to do.
THEOREM EveryCaptureAccounted == TriageSpec => []CapturesAccounted
<1>1. TriageInv /\ NotesInv => CapturesAccounted
  BY DEF TriageInv, NotesInv, CapturesAccounted
<1> QED
  BY <1>1, TriageInvInit, TriageInvStep, NotesInvInit, NotesInvStep, PTL DEF TriageSpec

---------------------------------------------------------------------------
\* Proposals and the classifier's batches

RefineStages == {"waiting", "asked", "backoff", "over"}

RefineType ==
  /\ limit \in Nat
  /\ batch \in [Items -> [stage : RefineStages, attempt : Nat]]
  /\ stats \in [refined : Nat, unsure : Nat, failed : Nat]

\* What was sent is what the batches launched so far hold, and what was counted
\* is what those that are over held.
SentOK == sent = {i \in Selected : batch[BatchOf(i)].stage # "waiting"}

Counts == stats.refined + stats.unsure + stats.failed

CountOK == Counts = Cardinality({i \in Selected : batch[BatchOf(i)].stage = "over"})

ProposalsOK ==
  \A i \in Items :
    IF proposal[i].about = NoVerdict
    THEN proposal[i].action = ProposeInboxAction(bodies[i])
    ELSE proposal[i].about = i /\ i \in sent

RefineInv ==
  /\ RefineType /\ SentOK /\ CountOK
  /\ proposal = [i \in Items |-> proposal[i]] /\ ProposalsOK

\* The captures are finitely many, and so is every set of them.
LEMMA CapturesFinite ==
  ASSUME NEW captures \in SUBSET Items
  PROVE  IsFiniteSet(captures) /\ Cardinality(captures) \in 0 .. NItems
<1>1. IsFiniteSet(Items) /\ Cardinality(Items) = NItems
  <2>1. NItems \in Nat
    BY RefineAssumption
  <2>2. /\ IsFiniteSet(1 .. NItems)
        /\ Cardinality(1 .. NItems) = IF 1 > NItems THEN 0 ELSE NItems - 1 + 1
    BY <2>1, FS_Interval
  <2> QED BY <2>1, <2>2 DEF Items
<1>2. IsFiniteSet(captures) /\ Cardinality(captures) <= NItems
  BY <1>1, FS_Subset
<1> QED
  BY <1>2, FS_CardinalityType

\* A capture has a place of its own among those of a set, between 1 and their
\* number.
LEMMA PlaceOK ==
  ASSUME NEW captures \in SUBSET Items, NEW i \in captures
  PROVE  /\ Place(i, captures) \in 1 .. Cardinality(captures)
         /\ \A j \in captures : Place(j, captures) = Place(i, captures) => j = i
<1> DEFINE Upto(j) == {k \in captures : k <= j}
<1>0. \A j \in captures : j \in Nat
  BY RefineAssumption DEF Items
<1>1. \A j \in captures : IsFiniteSet(Upto(j)) /\ Cardinality(Upto(j)) \in Nat
  <2> TAKE j \in captures
  <2>1. Upto(j) \in SUBSET Items
    OBVIOUS
  <2> QED BY <2>1, CapturesFinite, RefineAssumption
<1>2. Cardinality(Upto(i)) <= Cardinality(captures)
  BY CapturesFinite, FS_Subset
<1>3. Cardinality(Upto(i)) # 0
  <2>1. i \in Upto(i)
    BY <1>0
  <2> QED BY <2>1, <1>1, FS_EmptySet
<1>4. \A j, k \in captures : j < k => Cardinality(Upto(j)) # Cardinality(Upto(k))
  <2> SUFFICES ASSUME NEW j \in captures, NEW k \in captures, j < k,
                      Cardinality(Upto(j)) = Cardinality(Upto(k))
               PROVE  FALSE
    OBVIOUS
  <2>1. Upto(j) \subseteq Upto(k)
    BY <1>0
  <2>2. Upto(j) = Upto(k)
    BY <1>1, <2>1, FS_Subset
  <2>3. k \in Upto(k) /\ k \notin Upto(j)
    BY <1>0
  <2> QED BY <2>2, <2>3
<1>5. Cardinality(captures) \in Nat
  BY CapturesFinite, RefineAssumption
<1>6. \A j \in captures : Place(j, captures) = Cardinality(Upto(j))
  BY DEF Place
<1> HIDE DEF Upto
<1>7. ASSUME NEW j \in captures, Place(j, captures) = Place(i, captures)
      PROVE  j = i
  <2>1. ~(j < i) /\ ~(i < j)
    BY <1>4, <1>6, <1>7
  <2> QED BY <1>0, <2>1
<1>8. Place(i, captures) \in 1 .. Cardinality(captures)
  BY <1>1, <1>2, <1>3, <1>5, <1>6
<1> QED
  BY <1>7, <1>8

\* No more captures are selected than the limit says.
LEMMA SelectedLimited ==
  ASSUME limit \in Nat, limit > 0
  PROVE  Cardinality(Selected) <= limit
<1> DEFINE f == [i \in Selected |-> Place(i, Eligible)]
<1>1. Eligible \subseteq Items /\ Selected \subseteq Eligible
  BY DEF Eligible, Selected
<1>2. \A i \in Eligible : /\ Place(i, Eligible) \in 1 .. Cardinality(Eligible)
                          /\ \A j \in Eligible : Place(j, Eligible) = Place(i, Eligible) => j = i
  BY <1>1, PlaceOK
<1>3. Cardinality(Eligible) \in Nat
  BY <1>1, CapturesFinite, RefineAssumption
<1>4. \A i \in Selected : Place(i, Eligible) \in 1 .. limit
  BY <1>1, <1>2, <1>3 DEF Selected
<1>5. f \in Injection(Selected, 1 .. limit)
  <2>1. f \in [Selected -> 1 .. limit]
    BY <1>4
  <2>2. \A i, j \in Selected : f[i] = f[j] => i = j
    BY <1>1, <1>2
  <2> QED BY <2>1, <2>2 DEF Injection, IsInjective
<1>6. IsFiniteSet(1 .. limit) /\ Cardinality(1 .. limit) = limit
  BY FS_Interval
<1> QED
  BY <1>5, <1>6, FS_Injection

\* A batch has the number of one of the captures at most.
LEMMA BatchNumber ==
  ASSUME NEW i \in Selected
  PROVE  BatchOf(i) \in Items
<1>1. Selected \in SUBSET Items
  BY DEF Selected, Eligible
<1>2. Place(i, Selected) \in 1 .. NItems
  BY <1>1, PlaceOK, CapturesFinite, RefineAssumption
<1> DEFINE p == Place(i, Selected) - 1
           q == p \div BatchSize
<1>3. p \in 0 .. NItems - 1 /\ BatchSize \in Nat \ {0}
  BY <1>2, RefineAssumption
<1> HIDE DEF p
<1>4. q \in Int /\ 0 <= q /\ q <= p
  BY <1>3
<1>5. BatchOf(i) = q + 1
  BY DEF BatchOf, p
<1> QED
  BY <1>3, <1>4, <1>5, RefineAssumption DEF Items

\* The cut into batches depends on the captures and the limit alone.
LEMMA SelectionStays ==
  ASSUME UNCHANGED <<bodies, limit>>
  PROVE  /\ Selected' = Selected /\ Batches' = Batches
         /\ \A i : BatchOf(i)' = BatchOf(i)
         /\ \A b : Batch(b)' = Batch(b)
<1>1. Selected' = Selected
  BY DEF Selected, Eligible, Place
<1>2. \A i : BatchOf(i)' = BatchOf(i)
  BY <1>1 DEF BatchOf, Place
<1> QED
  BY <1>1, <1>2 DEF Batches, Batch

\* Two disjoint finite sets are counted apart.
LEMMA CountApart ==
  ASSUME NEW S, NEW T, IsFiniteSet(S), IsFiniteSet(T), S \cap T = {}
  PROVE  Cardinality(S \cup T) = Cardinality(S) + Cardinality(T)
<1>1. Cardinality(S \cap T) = 0
  BY FS_EmptySet
<1>2. Cardinality(S \cup T) = Cardinality(S) + Cardinality(T) - Cardinality(S \cap T)
  BY FS_Union
<1>3. Cardinality(S) \in Nat /\ Cardinality(T) \in Nat
  BY FS_CardinalityType
<1> QED
  BY <1>1, <1>2, <1>3

\* The answers of a batch are each counted once.
LEMMA CountedOnce ==
  ASSUME RefineType, NEW n \in Nat, NEW answer \in [1 .. n -> Answers \cup {NoAnswer}],
         stats' = Counted(answer)
  PROVE  /\ stats' \in [refined : Nat, unsure : Nat, failed : Nat]
         /\ Counts' = Counts + n
<1> DEFINE won == {k \in 1 .. n : Wins(answer[k])}
           failed == {k \in 1 .. n : answer[k] = NoAnswer}
           rest == (1 .. n) \ (won \cup failed)
<1>1. IsFiniteSet(1 .. n) /\ Cardinality(1 .. n) = n
  BY FS_Interval
<1>2. IsFiniteSet(won) /\ IsFiniteSet(failed) /\ IsFiniteSet(rest)
  BY <1>1, FS_Subset
<1>3. /\ Cardinality(won) \in Nat /\ Cardinality(failed) \in Nat
      /\ Cardinality(rest) \in Nat
  BY <1>2, FS_CardinalityType
<1>4. won \cap failed = {}
  <2>1. ~Wins(NoAnswer)
    BY DEF Wins, NoAnswer, Actions
  <2> QED BY <2>1
<1>5. Cardinality(won \cup failed) = Cardinality(won) + Cardinality(failed)
  BY <1>2, <1>4, CountApart
<1>6. Cardinality(rest) = n - Cardinality(won \cup failed)
  <2>1. (1 .. n) \cap (won \cup failed) = won \cup failed
    OBVIOUS
  <2> HIDE DEF won, failed
  <2>2. Cardinality(rest) = Cardinality(1 .. n) - Cardinality((1 .. n) \cap (won \cup failed))
    BY <1>1, FS_Difference
  <2> QED BY <1>1, <2>1, <2>2
<1>7. stats' = [refined |-> stats.refined + Cardinality(won),
                unsure |-> stats.unsure + Cardinality(rest),
                failed |-> stats.failed + Cardinality(failed)]
  BY DEF Counted
<1> HIDE DEF won, failed, rest
<1>8. stats.refined \in Nat /\ stats.unsure \in Nat /\ stats.failed \in Nat
  BY DEF RefineType
<1>9. /\ stats'.refined = stats.refined + Cardinality(won)
      /\ stats'.unsure = stats.unsure + Cardinality(rest)
      /\ stats'.failed = stats.failed + Cardinality(failed)
  BY <1>7
<1>10. stats' \in [refined : Nat, unsure : Nat, failed : Nat]
  BY <1>3, <1>7, <1>8, SMTT(30)
<1>11. Counts' = Counts + n
  BY <1>3, <1>5, <1>6, <1>8, <1>9, SMTT(30) DEF Counts
<1> QED
  BY <1>10, <1>11

\* A batch that is over, with all its captures counted, leaves the accounts right.
LEMMA BatchOver ==
  ASSUME RefineType, SentOK, CountOK, NEW b \in Batches,
         batch[b].stage \in {"asked", "backoff"},
         batch' = [batch EXCEPT ![b].stage = "over"],
         UNCHANGED <<bodies, limit, sent>>,
         stats' \in [refined : Nat, unsure : Nat, failed : Nat],
         Counts' = Counts + Cardinality(Batch(b))
  PROVE  RefineType' /\ SentOK' /\ CountOK'
<1> DEFINE done == {i \in Selected : batch[BatchOf(i)].stage = "over"}
<1>1. b \in Items /\ \A i \in Selected : BatchOf(i) \in Items
  BY BatchNumber DEF Batches
<1>2. RefineType'
  BY <1>1 DEF RefineType, RefineStages
<1>3. \A i \in Selected : batch'[BatchOf(i)].stage =
                             IF BatchOf(i) = b THEN "over" ELSE batch[BatchOf(i)].stage
  BY <1>1 DEF RefineType
<1>4. SentOK'
  <2>1. {i \in Selected : batch'[BatchOf(i)].stage # "waiting"} =
          {i \in Selected : batch[BatchOf(i)].stage # "waiting"}
    BY <1>3
  <2> QED BY <2>1, SelectionStays DEF SentOK
<1>5. {i \in Selected : batch'[BatchOf(i)].stage = "over"} = done \cup Batch(b)
  BY <1>3 DEF Batch
<1>6. done \cap Batch(b) = {}
  BY DEF Batch
<1>7. done \in SUBSET Items /\ Batch(b) \in SUBSET Items
  BY DEF Batch, Selected, Eligible
<1>8. /\ IsFiniteSet(done) /\ Cardinality(done) \in Nat
      /\ IsFiniteSet(Batch(b)) /\ Cardinality(Batch(b)) \in Nat
  BY <1>7, CapturesFinite, RefineAssumption
<1>9. Cardinality(done \cup Batch(b)) = Cardinality(done) + Cardinality(Batch(b))
  BY <1>6, <1>8, CountApart
<1>10. CountOK'
  <2>1. {i \in Selected : batch[BatchOf(i)].stage = "over"}' = done \cup Batch(b)
    BY <1>5, SelectionStays
  <2>2. Counts = Cardinality(done)
    BY DEF CountOK
  <2> QED BY <1>9, <2>1, <2>2 DEF CountOK
<1> QED
  BY <1>2, <1>4, <1>10

\* A batch that fails is counted as a whole, and no proposal changes.
LEMMA BatchFailsOK ==
  ASSUME RefineInv, NEW b \in Batches, batch[b].stage \in {"asked", "backoff"}, BatchFails(b)
  PROVE  RefineInv'
<1>1. Cardinality(Batch(b)) \in Nat
  <2>1. Batch(b) \in SUBSET Items
    BY DEF Batch, Selected, Eligible
  <2> QED BY <2>1, CapturesFinite, RefineAssumption
<1>2. stats' \in [refined : Nat, unsure : Nat, failed : Nat] /\ Counts' = Counts + Cardinality(Batch(b))
  BY <1>1 DEF BatchFails, RefineInv, RefineType, Counts
<1>3. RefineType' /\ SentOK' /\ CountOK'
  BY <1>2, BatchOver DEF RefineInv, BatchFails
<1> QED
  BY <1>3 DEF RefineInv, BatchFails, ProposalsOK

\* Verdicts that come back reach the captures they were given for.
LEMMA AnsweredOK ==
  ASSUME RefineInv, NEW b \in Batches, Answered(b)
  PROVE  RefineInv'
<1> DEFINE n == Cardinality(Batch(b))
           k(i) == Place(i, Batch(b))
<1>1. PICK answer \in [1 .. n -> Answers \cup {NoAnswer}] :
        /\ batch[b].stage = "asked"
        /\ batch' = [batch EXCEPT ![b].stage = "over"]
        /\ proposal' = [i \in Items |->
             IF i \in Batch(b) /\ Wins(answer[k(i)])
             THEN [action |-> answer[k(i)].choice, about |-> Asked(b, k(i))] ELSE proposal[i]]
        /\ stats' = Counted(answer)
        /\ UNCHANGED <<bodies, limit, expired, sent>>
  BY DEF Answered
<1>2. Batch(b) \in SUBSET Items
  BY DEF Batch, Selected, Eligible
<1>3. n \in Nat
  BY <1>2, CapturesFinite, RefineAssumption
<1>4. RefineType' /\ SentOK' /\ CountOK'
  <2>1. stats' \in [refined : Nat, unsure : Nat, failed : Nat] /\ Counts' = Counts + n
    BY <1>1, <1>3, CountedOnce DEF RefineInv
  <2> QED BY <1>1, <2>1, BatchOver DEF RefineInv
<1>5. \A i \in Batch(b) : Asked(b, k(i)) = i
  BY <1>2, PlaceOK DEF Asked
<1>6. \A i \in Batch(b) : i \in sent
  BY <1>1 DEF Batch, RefineInv, SentOK
<1>7. \A i \in Items : i # NoVerdict
  BY RefineAssumption DEF Items, NoVerdict
<1>8. ProposalsOK'
  <2> SUFFICES ASSUME NEW i \in Items
               PROVE  IF proposal'[i].about = NoVerdict
                      THEN proposal'[i].action = ProposeInboxAction(bodies[i])
                      ELSE proposal'[i].about = i /\ i \in sent
    BY <1>1 DEF ProposalsOK, NoVerdict, ProposeInboxAction
  <2>1. CASE i \in Batch(b) /\ Wins(answer[k(i)])
    BY <1>1, <1>5, <1>6, <1>7, <2>1
  <2>2. CASE ~(i \in Batch(b) /\ Wins(answer[k(i)]))
    BY <1>1, <2>2 DEF RefineInv, ProposalsOK
  <2> QED BY <2>1, <2>2
<1> QED
  BY <1>1, <1>4, <1>8 DEF RefineInv

\* Every step of Refine keeps the accounts.
LEMMA RefineStep == RefineInv /\ [RefineNext]_refineVars => RefineInv'
<1> SUFFICES ASSUME RefineInv, [RefineNext]_refineVars PROVE RefineInv'
  OBVIOUS
<1>1. CASE UNCHANGED <<bodies, limit, proposal, batch, stats, sent>>
  <2>1. RefineType' /\ ProposalsOK' /\ Counts' = Counts
    BY <1>1 DEF RefineInv, RefineType, ProposalsOK, Counts
  <2>2. SentOK'
    BY <1>1, SelectionStays DEF RefineInv, SentOK
  <2>3. {i \in Selected : batch[BatchOf(i)].stage = "over"}' =
          {i \in Selected : batch[BatchOf(i)].stage = "over"}
    BY <1>1, SelectionStays
  <2>4. CountOK'
    BY <2>1, <2>3 DEF RefineInv, CountOK
  <2> QED BY <1>1, <2>1, <2>2, <2>4 DEF RefineInv
<1>2. CASE Expire
  BY <1>1, <1>2 DEF Expire
<1>3. ASSUME NEW b \in Batches, BatchStep(b) PROVE RefineInv'
  <2>0. b \in Items /\ \A i \in Selected : BatchOf(i) \in Items
    BY BatchNumber DEF Batches
  <2>1. CASE Launch(b)
    <3>1. /\ batch[b].stage = "waiting"
          /\ batch' = [batch EXCEPT ![b] = [stage |-> "asked", attempt |-> 1]]
          /\ sent' = sent \cup Batch(b)
          /\ UNCHANGED <<bodies, limit, proposal, expired, stats>>
      BY <2>1 DEF Launch
    <3>2. \A i \in Selected : batch'[BatchOf(i)].stage =
                                 IF BatchOf(i) = b THEN "asked" ELSE batch[BatchOf(i)].stage
      BY <2>0, <3>1 DEF RefineInv, RefineType
    <3>3. {i \in Selected : batch'[BatchOf(i)].stage # "waiting"} = sent \cup Batch(b)
      BY <3>1, <3>2 DEF RefineInv, SentOK, Batch
    <3>4. {i \in Selected : batch'[BatchOf(i)].stage = "over"} =
            {i \in Selected : batch[BatchOf(i)].stage = "over"}
      BY <3>1, <3>2
    <3>5. SentOK'
      BY <3>1, <3>3, SelectionStays DEF SentOK
    <3>6. CountOK'
      BY <3>1, <3>4, SelectionStays DEF RefineInv, CountOK, Counts
    <3>7. RefineType'
      BY <2>0, <3>1 DEF RefineInv, RefineType, RefineStages
    <3> QED BY <3>1, <3>5, <3>6, <3>7 DEF RefineInv, ProposalsOK
  <2>2. CASE UNCHANGED <<bodies, limit, proposal, expired, stats, sent>> /\ RefineType'
               /\ (\A a \in Items : batch[a].stage \in {"asked", "backoff"} =>
                                      batch'[a].stage \in {"asked", "backoff"})
               /\ \A a \in Items : batch[a].stage \in {"waiting", "over"} =>
                                      batch'[a].stage = batch[a].stage
    <3>0. \A a \in Items : /\ (batch'[a].stage = "waiting") = (batch[a].stage = "waiting")
                            /\ (batch'[a].stage = "over") = (batch[a].stage = "over")
      BY <2>2 DEF RefineInv, RefineType, RefineStages
    <3>1. \A i \in Selected :
            /\ (batch'[BatchOf(i)].stage = "waiting") = (batch[BatchOf(i)].stage = "waiting")
            /\ (batch'[BatchOf(i)].stage = "over") = (batch[BatchOf(i)].stage = "over")
      BY <2>0, <3>0
    <3>2. SentOK'
      <4>1. {i \in Selected : batch'[BatchOf(i)].stage # "waiting"} =
              {i \in Selected : batch[BatchOf(i)].stage # "waiting"}
        BY <3>1
      <4> QED BY <2>2, <4>1, SelectionStays DEF RefineInv, SentOK
    <3>3. {i \in Selected : batch'[BatchOf(i)].stage = "over"} =
            {i \in Selected : batch[BatchOf(i)].stage = "over"}
      BY <3>1
    <3>4. CountOK'
      BY <2>2, <3>3, SelectionStays DEF RefineInv, CountOK, Counts
    <3> QED BY <2>2, <3>2, <3>4 DEF RefineInv, ProposalsOK
  <2>3. CASE Overloaded(b)
    <3>1. CASE batch[b].attempt < MaxAttempts
      BY <2>0, <2>2, <2>3, <3>1, ZenonT(30) DEF Overloaded, RefineInv, RefineType, RefineStages
    <3>2. CASE ~(batch[b].attempt < MaxAttempts)
      BY <2>3, <3>2, BatchFailsOK DEF Overloaded
    <3> QED BY <3>1, <3>2
  <2>4. CASE Resend(b)
    BY <2>0, <2>2, <2>4 DEF Resend, RefineInv, RefineType, RefineStages
  <2>5. CASE Broken(b)
    BY <2>5, BatchFailsOK DEF Broken
  <2>6. CASE Answered(b)
    BY <2>6, AnsweredOK
  <2> QED
    BY <1>3, <2>1, <2>3, <2>4, <2>5, <2>6 DEF BatchStep
<1> QED
  BY <1>1, <1>2, <1>3 DEF RefineNext, refineVars

\* For any captures, limit, batch size, concurrency and number of attempts,
\* and any order of answers, retries, failures and the end of the budget: every
\* proposal is the heuristic's or a verdict on that very capture, nothing leaves
\* the machine that must not, and at the end every capture sent is counted once.
THEOREM RefineIsFaithful == RefineSpec => []RefineFaithful
<1>1. RefineInit => RefineInv
  <2> SUFFICES ASSUME RefineInit PROVE RefineInv
    OBVIOUS
  <2>1. RefineType
    BY RefineAssumption DEF RefineInit, RefineType, RefineStages
  <2>2. \A i \in Selected : batch[BatchOf(i)].stage = "waiting"
    BY BatchNumber DEF RefineInit
  <2>3. SentOK
    BY <2>2 DEF RefineInit, SentOK
  <2>4. CountOK
    <3>1. {i \in Selected : batch[BatchOf(i)].stage = "over"} = {}
      BY <2>2
    <3>2. Cardinality({i \in Selected : batch[BatchOf(i)].stage = "over"}) = 0
      BY <3>1, FS_EmptySet
    <3>3. Counts = 0
      BY DEF RefineInit, Counts
    <3> QED BY <3>2, <3>3 DEF CountOK
  <2> QED BY <2>1, <2>3, <2>4 DEF RefineInit, RefineInv, ProposalsOK
<1>2. RefineInv /\ [RefineNext]_refineVars => RefineInv'
  BY RefineStep
<1>3. RefineInv => RefineFaithful
  <2> SUFFICES ASSUME RefineInv PROVE RefineFaithful
    OBVIOUS
  <2>1. sent \subseteq Selected
    BY DEF RefineInv, SentOK
  <2>2. \A i \in sent : ~Authoritative(bodies[i])
    BY <2>1 DEF Selected, Eligible
  <2>3. limit > 0 => Cardinality(sent) <= limit
    <3> SUFFICES ASSUME limit > 0 PROVE Cardinality(sent) <= limit
      OBVIOUS
    <3>1. Selected \in SUBSET Items /\ limit \in Nat
      BY DEF Selected, Eligible, RefineInv, RefineType
    <3>2. IsFiniteSet(Selected) /\ Cardinality(Selected) \in Nat /\ Cardinality(sent) \in Nat
      BY <2>1, <3>1, CapturesFinite, RefineAssumption
    <3>3. Cardinality(Selected) <= limit
      BY <3>1, SelectedLimited
    <3>4. Cardinality(sent) <= Cardinality(Selected)
      BY <2>1, <3>2, FS_Subset
    <3> QED BY <3>1, <3>2, <3>3, <3>4
  <2>4. ASSUME RefineOver
        PROVE  sent = Selected /\ Counts = Cardinality(sent)
    <3>1. \A i \in Selected : batch[BatchOf(i)].stage = "over"
      BY <2>4 DEF RefineOver, Batches
    <3> QED BY <3>1 DEF RefineInv, SentOK, CountOK
  <2> QED
    BY <2>2, <2>3, <2>4 DEF RefineInv, ProposalsOK, RefineFaithful, Counts
<1> QED
  BY <1>1, <1>2, <1>3, PTL DEF RefineSpec

---------------------------------------------------------------------------
(* A recurring task                                                        *)

\* The days before each month, of a year of 365.
LEMMA TableOK ==
  /\ DaysBefore[1] = 0 /\ DaysBefore[2] = 31 /\ DaysBefore[3] = 59 /\ DaysBefore[4] = 90
  /\ DaysBefore[5] = 120 /\ DaysBefore[6] = 151 /\ DaysBefore[7] = 181 /\ DaysBefore[8] = 212
  /\ DaysBefore[9] = 243 /\ DaysBefore[10] = 273 /\ DaysBefore[11] = 304
  /\ DaysBefore[12] = 334 /\ DaysBefore[13] = 365
BY DEF DaysBefore

\* A year has 365 days, or 366.
LEMMA YearsFollow ==
  ASSUME NEW y \in Nat
  PROVE  /\ BeforeYear(y) \in Nat /\ 365 * y <= BeforeYear(y) /\ BeforeYear(0) = 0
         /\ BeforeYear(y + 1) = BeforeYear(y) + 365 + (IF y \in LeapYears THEN 1 ELSE 0)
         /\ \A z \in Nat : y < z => BeforeYear(y + 1) <= BeforeYear(z)
<1>1. LeapYears \in SUBSET Nat
  BY RecurrenceAssumption
<1>2. /\ \A x : LeapsBefore(x) \in SUBSET Nat
      /\ \A x, s \in Nat : s \in LeapsBefore(x) <=> s \in LeapYears /\ s < x
  BY <1>1, Zenon DEF LeapsBefore
<1>3. \A x \in Nat : LeapsBefore(x) \in SUBSET Nat /\ \A s \in LeapsBefore(x) : s <= x
  BY <1>2
<1>4. \A x \in Nat : IsFiniteSet(LeapsBefore(x)) /\ Cardinality(LeapsBefore(x)) \in Nat
  BY <1>3, FS_BoundedSetOfNaturals, FS_CardinalityType
<1>5. \A x \in Nat : BeforeYear(x) = 365 * x + Cardinality(LeapsBefore(x))
  BY DEF BeforeYear
<1>6. BeforeYear(0) = 0
  <2>1. LeapsBefore(0) = {}
    BY <1>2
  <2>2. Cardinality(LeapsBefore(0)) = 0
    BY <2>1, FS_EmptySet
  <2> QED BY <1>5, <2>2
<1>7. Cardinality(LeapsBefore(y + 1)) = Cardinality(LeapsBefore(y)) + (IF y \in LeapYears THEN 1 ELSE 0)
  <2>1. CASE y \in LeapYears
    <3>1. LeapsBefore(y + 1) = LeapsBefore(y) \cup {y} /\ y \notin LeapsBefore(y)
      BY <1>2, <2>1
    <3> QED BY <1>4, <2>1, <3>1, FS_AddElement
  <2>2. CASE y \notin LeapYears
    <3>1. LeapsBefore(y + 1) = LeapsBefore(y)
      BY <1>2, <2>2
    <3> QED BY <1>4, <2>2, <3>1
  <2> QED BY <2>1, <2>2
<1>8. ASSUME NEW z \in Nat, y < z PROVE BeforeYear(y + 1) <= BeforeYear(z)
  <2>1. LeapsBefore(y + 1) \in SUBSET LeapsBefore(z)
    BY <1>2, <1>8
  <2>2. Cardinality(LeapsBefore(y + 1)) <= Cardinality(LeapsBefore(z))
    BY <1>4, <2>1, FS_Subset
  <2> QED BY <1>4, <1>5, <1>8, <2>2
<1> QED
  BY <1>4, <1>5, <1>6, <1>7, <1>8

\* Every day is in a year.
LEMMA YearOK ==
  ASSUME NEW n \in Nat
  PROVE  Year(n) \in Nat /\ BeforeYear(Year(n)) <= n /\ n < BeforeYear(Year(n) + 1)
<1> DEFINE T == {y \in Nat : n < BeforeYear(y + 1)}
<1>1. n \in T
  BY YearsFollow
<1>2. PICK y \in T : \A z \in T : y <= z
  BY <1>1, LeastExists
<1>3. BeforeYear(y) <= n
  <2>1. CASE y = 0
    BY <2>1, YearsFollow
  <2>2. CASE y # 0
    <3>1. y - 1 \in Nat /\ y - 1 \notin T /\ (y - 1) + 1 = y
      BY <1>2, <2>2
    <3>2. BeforeYear(y) \in Nat
      BY YearsFollow
    <3> QED BY <3>1, <3>2
  <2> QED BY <2>1, <2>2
<1>4. y \in 0 .. n /\ BeforeYear(y) <= n /\ n < BeforeYear(y + 1)
  BY <1>1, <1>2, <1>3
<1>5. Year(n) \in 0 .. n /\ BeforeYear(Year(n)) <= n /\ n < BeforeYear(Year(n) + 1)
  BY <1>4, Zenon DEF Year
<1> QED
  BY <1>5

\* Month follows month, and the year follows December.
LEMMA MonthsFollow ==
  ASSUME NEW y \in Nat, NEW m \in 1 .. 12
  PROVE  /\ MonthLength(y, m) \in 28 .. 31
         /\ MonthStart(y, m) \in Nat /\ BeforeYear(y) <= MonthStart(y, m)
         /\ MonthStart(y, 1) = BeforeYear(y)
         /\ m < 12 => MonthStart(y, m + 1) = MonthStart(y, m) + MonthLength(y, m)
         /\ m = 12 => MonthStart(y, m) + MonthLength(y, m) = BeforeYear(y + 1)
<1>1. /\ BeforeYear(y) \in Nat
      /\ BeforeYear(y + 1) = BeforeYear(y) + 365 + (IF y \in LeapYears THEN 1 ELSE 0)
  BY YearsFollow
<1>2. \A k \in 1 .. 12 : MonthStart(y, k) = BeforeYear(y) + DaysBefore[k] + (IF k > 2 /\ y \in LeapYears THEN 1 ELSE 0)
  BY DEF MonthStart
<1>3. /\ m \in {4, 6, 9, 11} => MonthLength(y, m) = 30
      /\ m = 2 => MonthLength(y, m) = IF y \in LeapYears THEN 29 ELSE 28
      /\ m \notin {2, 4, 6, 9, 11} => MonthLength(y, m) = 31
  BY DEF MonthLength
<1>4. m \in {1, 2, 3, 4, 5, 6, 7, 8, 9, 10, 11, 12}
  OBVIOUS
<1>5. MonthLength(y, m) \in 28 .. 31
  BY <1>3
<1>6. DaysBefore[m] \in Nat
  BY <1>4, TableOK
<1>7. MonthStart(y, m) \in Nat /\ BeforeYear(y) <= MonthStart(y, m)
  BY <1>1, <1>2, <1>6
<1>8. MonthStart(y, 1) = BeforeYear(y)
  BY <1>1, <1>2, TableOK
<1>9. m < 12 => MonthStart(y, m + 1) = MonthStart(y, m) + MonthLength(y, m)
  <2> SUFFICES ASSUME m < 12 PROVE MonthStart(y, m + 1) = MonthStart(y, m) + MonthLength(y, m)
    OBVIOUS
  <2>1. DaysBefore[m + 1] - DaysBefore[m] = IF m = 2 THEN 28 ELSE IF m \in {4, 6, 9, 11} THEN 30 ELSE 31
    BY <1>4, TableOK
  <2>2. DaysBefore[m + 1] \in Nat
    BY <1>4, TableOK
  <2>3. MonthStart(y, m) = BeforeYear(y) + DaysBefore[m] + (IF m > 2 /\ y \in LeapYears THEN 1 ELSE 0)
    BY <1>2
  <2>4. MonthStart(y, m + 1) = BeforeYear(y) + DaysBefore[m + 1] + (IF m + 1 > 2 /\ y \in LeapYears THEN 1 ELSE 0)
    BY <1>2
  <2> QED BY <1>1, <1>3, <1>6, <2>1, <2>2, <2>3, <2>4
<1>10. m = 12 => MonthStart(y, m) + MonthLength(y, m) = BeforeYear(y + 1)
  BY <1>1, <1>2, <1>3, TableOK
<1> QED
  BY <1>5, <1>7, <1>8, <1>9, <1>10

\* The months lie one behind the other.
LEMMA MonthsOrdered ==
  ASSUME NEW y \in Nat, NEW z \in Nat, NEW m \in 1 .. 12, NEW k \in 1 .. 12, 12 * y + m < 12 * z + k
  PROVE  MonthStart(y, m) + MonthLength(y, m) <= MonthStart(z, k)
<1> DEFINE End(j) == MonthStart(y, j) + MonthLength(y, j)
<1>1. \A j \in 1 .. 12 : MonthStart(y, j) \in Nat /\ MonthLength(y, j) \in 28 .. 31
  BY MonthsFollow
<1>2. ASSUME NEW j \in 1 .. 11
      PROVE  MonthStart(y, j + 1) = End(j) /\ End(j) <= End(j + 1)
  <2>1. j \in 1 .. 12 /\ j + 1 \in 1 .. 12 /\ j < 12
    OBVIOUS
  <2>2. MonthStart(y, j + 1) = MonthStart(y, j) + MonthLength(y, j)
    BY <2>1, MonthsFollow
  <2>3. MonthStart(y, j + 1) \in Nat /\ MonthLength(y, j + 1) \in 28 .. 31
    BY <1>1, <2>1
  <2> QED BY <2>2, <2>3
<1>3. End(12) = BeforeYear(y + 1)
  BY MonthsFollow
<1>4. End(m) = MonthStart(y, m) + MonthLength(y, m)
  OBVIOUS
<1>5. ASSUME NEW j \in 1 .. 12 PROVE End(j) \in Nat
  <2>1. MonthStart(y, j) \in Nat /\ MonthLength(y, j) \in 28 .. 31
    BY <1>1
  <2> QED BY <2>1
<1> HIDE DEF End
<1>6. /\ End(1) <= End(2) /\ End(2) <= End(3) /\ End(3) <= End(4) /\ End(4) <= End(5)
      /\ End(5) <= End(6) /\ End(6) <= End(7) /\ End(7) <= End(8) /\ End(8) <= End(9)
      /\ End(9) <= End(10) /\ End(10) <= End(11) /\ End(11) <= End(12)
  BY <1>2
<1>7. m \in {1, 2, 3, 4, 5, 6, 7, 8, 9, 10, 11, 12} /\ k \in {1, 2, 3, 4, 5, 6, 7, 8, 9, 10, 11, 12}
  OBVIOUS
<1>8. CASE y = z
  <2>1. k - 1 \in 1 .. 11 /\ (k - 1) + 1 = k /\ m <= k - 1
    BY <1>8
  <2>2. MonthStart(y, k) = End(k - 1)
    BY <1>2, <2>1
  <2>3. End(m) <= End(k - 1)
    <3> DEFINE j == k - 1
    <3>1. j \in {1, 2, 3, 4, 5, 6, 7, 8, 9, 10, 11} /\ m \in {1, 2, 3, 4, 5, 6, 7, 8, 9, 10, 11} /\ m <= j
      BY <2>1
    <3> HIDE DEF j
    <3>2. End(m) <= End(j)
      BY <1>5, <1>6, <3>1
    <3> QED BY <3>2 DEF j
  <2> QED BY <1>4, <1>8, <2>2, <2>3
<1>9. CASE y # z
  <2>1. y < z
    BY <1>9
  <2>2. End(m) <= End(12)
    BY <1>5, <1>6, <1>7
  <2>3. BeforeYear(y + 1) <= BeforeYear(z) /\ BeforeYear(z) <= MonthStart(z, k)
    <3>1. BeforeYear(y + 1) <= BeforeYear(z)
      BY <2>1, YearsFollow
    <3>2. BeforeYear(z) <= MonthStart(z, k)
      BY MonthsFollow
    <3> QED BY <3>1, <3>2
  <2>4. BeforeYear(y + 1) \in Nat /\ BeforeYear(z) \in Nat /\ MonthStart(z, k) \in Nat /\ End(m) \in Nat
    <3>1. y + 1 \in Nat
      OBVIOUS
    <3>2. BeforeYear(y + 1) \in Nat /\ BeforeYear(z) \in Nat
      BY <3>1, YearsFollow
    <3>3. MonthStart(z, k) \in Nat
      BY MonthsFollow
    <3> QED BY <1>5, <3>2, <3>3
  <2> QED BY <1>3, <1>4, <2>2, <2>3, <2>4
<1> QED
  BY <1>8, <1>9

\* Every day has a date.
LEMMA DateOf ==
  ASSUME NEW n \in Nat
  PROVE  /\ Year(n) \in Nat /\ Month(n) \in 1 .. 12
         /\ DayOfMonth(n) \in 1 .. MonthLength(Year(n), Month(n))
         /\ n = MonthStart(Year(n), Month(n)) + DayOfMonth(n) - 1
<1> DEFINE y == Year(n)
           Start(m) == MonthStart(y, m)
           Size(m) == MonthLength(y, m)
<1>1. y \in Nat /\ BeforeYear(y) <= n /\ n < BeforeYear(y + 1)
  BY YearOK
<1> HIDE DEF y
<1>2. \A m \in 1 .. 12 :
        /\ Start(m) \in Nat /\ Size(m) \in 28 .. 31
        /\ m < 12 => Start(m + 1) = Start(m) + Size(m)
        /\ m = 12 => Start(m) + Size(m) = BeforeYear(y + 1)
  BY <1>1, MonthsFollow
<1>3. Start(1) = BeforeYear(y)
  BY <1>1, MonthsFollow
<1> HIDE DEF Start, Size
<1>4. /\ Start(2) = Start(1) + Size(1) /\ Start(3) = Start(2) + Size(2)
      /\ Start(4) = Start(3) + Size(3) /\ Start(5) = Start(4) + Size(4)
      /\ Start(6) = Start(5) + Size(5) /\ Start(7) = Start(6) + Size(6)
      /\ Start(8) = Start(7) + Size(7) /\ Start(9) = Start(8) + Size(8)
      /\ Start(10) = Start(9) + Size(9) /\ Start(11) = Start(10) + Size(10)
      /\ Start(12) = Start(11) + Size(11) /\ Start(12) + Size(12) = BeforeYear(y + 1)
  BY <1>2
<1>5. \E m \in 1 .. 12 : Start(m) <= n /\ n < Start(m) + Size(m)
  <2> SUFFICES ASSUME \A m \in 1 .. 12 : ~(Start(m) <= n /\ n < Start(m) + Size(m)) PROVE FALSE
    OBVIOUS
  <2>1. \A m \in 1 .. 12 : Start(m) <= n => Start(m) + Size(m) <= n
    BY <1>2
  <2>2. Start(1) <= n
    BY <1>1, <1>3
  <2>3. Start(2) <= n
    BY <1>4, <2>1, <2>2
  <2>4. Start(3) <= n
    BY <1>4, <2>1, <2>3
  <2>5. Start(4) <= n
    BY <1>4, <2>1, <2>4
  <2>6. Start(5) <= n
    BY <1>4, <2>1, <2>5
  <2>7. Start(6) <= n
    BY <1>4, <2>1, <2>6
  <2>8. Start(7) <= n
    BY <1>4, <2>1, <2>7
  <2>9. Start(8) <= n
    BY <1>4, <2>1, <2>8
  <2>10. Start(9) <= n
    BY <1>4, <2>1, <2>9
  <2>11. Start(10) <= n
    BY <1>4, <2>1, <2>10
  <2>12. Start(11) <= n
    BY <1>4, <2>1, <2>11
  <2>13. Start(12) <= n
    BY <1>4, <2>1, <2>12
  <2>14. BeforeYear(y + 1) <= n
    BY <1>4, <2>1, <2>13
  <2>15. BeforeYear(y + 1) \in Nat
    BY <1>1, YearsFollow
  <2> QED BY <1>1, <2>14, <2>15
<1>6. \E m \in 1 .. 12 : MonthStart(y, m) <= n /\ n < MonthStart(y, m) + MonthLength(y, m)
  BY <1>5 DEF Start, Size
<1>7. /\ Month(n) \in 1 .. 12
      /\ MonthStart(y, Month(n)) <= n /\ n < MonthStart(y, Month(n)) + MonthLength(y, Month(n))
  BY <1>6, Zenon DEF Month, y
<1>8. MonthStart(y, Month(n)) \in Nat /\ MonthLength(y, Month(n)) \in 28 .. 31
  BY <1>1, <1>7, MonthsFollow
<1>9. DayOfMonth(n) = n - MonthStart(y, Month(n)) + 1
  BY DEF DayOfMonth, y
<1>10. DayOfMonth(n) \in 1 .. MonthLength(y, Month(n)) /\ n = MonthStart(y, Month(n)) + DayOfMonth(n) - 1
  BY <1>7, <1>8, <1>9
<1> QED
  BY <1>1, <1>7, <1>10 DEF y

\* And only one.
LEMMA DateUnique ==
  ASSUME NEW y \in Nat, NEW m \in 1 .. 12, NEW d \in 1 .. MonthLength(y, m)
  PROVE  LET n == MonthStart(y, m) + d - 1
         IN n \in Nat /\ Year(n) = y /\ Month(n) = m /\ DayOfMonth(n) = d
<1> DEFINE n == MonthStart(y, m) + d - 1
<1>1. MonthStart(y, m) \in Nat /\ MonthLength(y, m) \in 28 .. 31
  BY MonthsFollow
<1>2. n \in Nat /\ MonthStart(y, m) <= n /\ n < MonthStart(y, m) + MonthLength(y, m) /\ d = n - MonthStart(y, m) + 1
  BY <1>1
<1> HIDE DEF n
<1> DEFINE z == Year(n)
           k == Month(n)
<1>3. /\ z \in Nat /\ k \in 1 .. 12 /\ DayOfMonth(n) \in 1 .. MonthLength(z, k)
      /\ n = MonthStart(z, k) + DayOfMonth(n) - 1
  BY <1>2, DateOf
<1> HIDE DEF z, k
<1>4. MonthStart(z, k) \in Nat /\ MonthLength(z, k) \in 28 .. 31
  BY <1>3, MonthsFollow
<1>5. MonthStart(z, k) <= n /\ n < MonthStart(z, k) + MonthLength(z, k)
  BY <1>3, <1>4
<1>6. ~(12 * y + m < 12 * z + k)
  <2> SUFFICES ASSUME 12 * y + m < 12 * z + k PROVE FALSE
    OBVIOUS
  <2>1. MonthStart(y, m) + MonthLength(y, m) <= MonthStart(z, k)
    BY <1>3, MonthsOrdered
  <2> QED BY <1>1, <1>2, <1>4, <1>5, <2>1
<1>7. ~(12 * z + k < 12 * y + m)
  <2> SUFFICES ASSUME 12 * z + k < 12 * y + m PROVE FALSE
    OBVIOUS
  <2>1. MonthStart(z, k) + MonthLength(z, k) <= MonthStart(y, m)
    BY <1>3, MonthsOrdered
  <2> QED BY <1>1, <1>2, <1>4, <1>5, <2>1
<1>8. z = y /\ k = m
  BY <1>3, <1>6, <1>7
<1>9. DayOfMonth(n) = d
  <2>1. n = MonthStart(y, m) + DayOfMonth(n) - 1 /\ DayOfMonth(n) \in Int
    BY <1>3, <1>4, <1>8
  <2> QED BY <1>1, <1>2, <2>1
<1> QED
  BY <1>2, <1>8, <1>9 DEF n, z, k

\* Months are counted in years of twelve.
LEMMA InYears ==
  ASSUME NEW x \in Nat
  PROVE  x \div 12 \in Nat /\ x % 12 \in 0 .. 11 /\ x = 12 * (x \div 12) + (x % 12)
OBVIOUS

\* AddDate counts on in months, then in days: y and m are the year and month it
\* counts the days in.
CountedIn(n, years, months, days, y, m) ==
  /\ 12 * y + m = 12 * Year(n) + 12 * years + Month(n) + months
  /\ AddDate(n, years, months, days) = MonthStart(y, m) + DayOfMonth(n) + days - 1

LEMMA DateAdded ==
  ASSUME NEW n \in Nat, NEW years \in Nat, NEW months \in Nat, NEW days \in Nat
  PROVE  \E y \in Nat, m \in 1 .. 12 : CountedIn(n, years, months, days, y, m)
<1> DEFINE x == Month(n) + months - 1
           z == Year(n) + years
<1>1. Year(n) \in Nat /\ Month(n) \in 1 .. 12 /\ DayOfMonth(n) \in Nat
  <2>1. /\ Year(n) \in Nat /\ Month(n) \in 1 .. 12
        /\ DayOfMonth(n) \in 1 .. MonthLength(Year(n), Month(n))
    BY DateOf
  <2>2. MonthLength(Year(n), Month(n)) \in 28 .. 31
    BY <2>1, MonthsFollow
  <2> QED BY <2>1, <2>2
<1>2. \A b \in Nat, c \in Nat, d \in Nat :
        DayOf(b, c, d) = MonthStart(b + (c - 1) \div 12, ((c - 1) % 12) + 1) + d - 1
  BY DEF DayOf
<1>3. AddDate(n, years, months, days) = DayOf(z, Month(n) + months, DayOfMonth(n) + days)
  BY DEF AddDate
<1>4. AddDate(n, years, months, days) = MonthStart(z + x \div 12, (x % 12) + 1) + (DayOfMonth(n) + days) - 1
  <2> DEFINE c == Month(n) + months
             e == DayOfMonth(n) + days
  <2>1. z \in Nat /\ c \in Nat /\ e \in Nat /\ x = c - 1
    BY <1>1
  <2>2. AddDate(n, years, months, days) = DayOf(z, c, e)
    BY <1>3
  <2> HIDE DEF x, z, c, e
  <2>3. AddDate(n, years, months, days) = MonthStart(z + x \div 12, (x % 12) + 1) + e - 1
    BY <1>2, <2>1, <2>2
  <2> QED BY <2>3 DEF e
<1>5. x \in Nat /\ z \in Nat /\ 12 * z + x + 1 = 12 * Year(n) + 12 * years + Month(n) + months
  BY <1>1
<1> HIDE DEF x, z
<1>6. x \div 12 \in Nat /\ x % 12 \in 0 .. 11 /\ x = 12 * (x \div 12) + (x % 12)
  BY <1>5, InYears
<1> DEFINE q == x \div 12
           r == x % 12
           Start == MonthStart(z + q, r + 1)
<1>7. q \in Nat /\ r \in 0 .. 11 /\ x = 12 * q + r
  BY <1>6
<1>8. AddDate(n, years, months, days) = Start + (DayOfMonth(n) + days) - 1
  BY <1>4
<1> HIDE DEF q, r
<1>9. z + q \in Nat /\ r + 1 \in 1 .. 12
  BY <1>5, <1>7
<1>10. 12 * (z + q) + (r + 1) = 12 * Year(n) + 12 * years + Month(n) + months
  BY <1>1, <1>5, <1>7
<1>11. Start \in Nat
  BY <1>9, MonthsFollow
<1> HIDE DEF Start
<1>12. AddDate(n, years, months, days) = Start + DayOfMonth(n) + days - 1
  BY <1>1, <1>8, <1>11
<1>13. AddDate(n, years, months, days) = MonthStart(z + q, r + 1) + DayOfMonth(n) + days - 1
  BY <1>12 DEF Start
<1>14. CountedIn(n, years, months, days, z + q, r + 1)
  BY <1>10, <1>13 DEF CountedIn
<1> QED
  BY <1>9, <1>14

\* Days added to a date are days on.
LEMMA DaysOn ==
  ASSUME NEW n \in Nat, NEW k \in Nat
  PROVE  AddDate(n, 0, 0, k) = n + k
<1>1. /\ Year(n) \in Nat /\ Month(n) \in 1 .. 12
      /\ DayOfMonth(n) \in 1 .. MonthLength(Year(n), Month(n))
      /\ n = MonthStart(Year(n), Month(n)) + DayOfMonth(n) - 1
  BY DateOf
<1>2. MonthStart(Year(n), Month(n)) \in Nat /\ MonthLength(Year(n), Month(n)) \in 28 .. 31
  BY <1>1, MonthsFollow
<1>3. PICK y \in Nat, m \in 1 .. 12 : CountedIn(n, 0, 0, k, y, m)
  BY DateAdded
<1>4. /\ 12 * y + m = 12 * Year(n) + 12 * 0 + Month(n) + 0
      /\ AddDate(n, 0, 0, k) = MonthStart(y, m) + DayOfMonth(n) + k - 1
  BY <1>3 DEF CountedIn
<1>5. y = Year(n) /\ m = Month(n)
  BY <1>1, <1>4
<1> QED
  BY <1>1, <1>2, <1>4, <1>5

\* Months added to a date lead to the same day of a later month, or, where that
\* month is shorter, into the month after it.
LEMMA MonthsOn ==
  ASSUME NEW n \in Nat, NEW k \in Nat \ {0}
  PROVE  LET next == AddDate(n, 0, k, 0)
             last == next - DayOfMonth(next)
         IN /\ next \in Nat /\ next > n
            /\ \/ MonthsBetween(n, next) = k /\ DayOfMonth(next) = DayOfMonth(n)
               \/ /\ MonthsBetween(n, next) = k + 1
                  /\ DayOfMonth(next) = DayOfMonth(n) - MonthLength(Year(last), Month(last))
                  /\ DayOfMonth(next) >= 1
<1> DEFINE next == AddDate(n, 0, k, 0)
           last == next - DayOfMonth(next)
           d == DayOfMonth(n)
<1>1. /\ Year(n) \in Nat /\ Month(n) \in 1 .. 12 /\ d \in 1 .. MonthLength(Year(n), Month(n))
      /\ n = MonthStart(Year(n), Month(n)) + d - 1
  BY DateOf
<1>2. MonthStart(Year(n), Month(n)) \in Nat /\ MonthLength(Year(n), Month(n)) \in 28 .. 31
  BY <1>1, MonthsFollow
<1>3. PICK y \in Nat, m \in 1 .. 12 : CountedIn(n, 0, k, 0, y, m)
  BY DateAdded
<1>4. /\ 12 * y + m = 12 * Year(n) + Month(n) + k
      /\ next = MonthStart(y, m) + d + 0 - 1
  BY <1>1, <1>3 DEF CountedIn
<1>5. MonthsBetween(n, next) = 12 * (Year(next) - Year(n)) + Month(next) - Month(n)
  BY DEF MonthsBetween
<1> HIDE DEF next, d
<1>6. MonthStart(y, m) \in Nat /\ MonthLength(y, m) \in 28 .. 31 /\ d \in 1 .. 31
  <2>1. MonthStart(y, m) \in Nat /\ MonthLength(y, m) \in 28 .. 31
    BY MonthsFollow
  <2> QED BY <1>1, <1>2, <2>1
<1>7. next = MonthStart(y, m) + d - 1
  BY <1>4, <1>6
<1>8. next \in Nat /\ next > n
  <2>1. MonthStart(Year(n), Month(n)) + MonthLength(Year(n), Month(n)) <= MonthStart(y, m)
    <3>1. 12 * Year(n) + Month(n) < 12 * y + m
      BY <1>1, <1>4
    <3> QED BY <1>1, <3>1, MonthsOrdered
  <2> QED BY <1>1, <1>2, <1>6, <1>7, <2>1
<1>9. CASE d <= MonthLength(y, m)
  <2>1. d \in 1 .. MonthLength(y, m)
    BY <1>6, <1>9
  <2>2. Year(next) = y /\ Month(next) = m /\ DayOfMonth(next) = d
    BY <1>7, <2>1, DateUnique
  <2>3. MonthsBetween(n, next) = k
    BY <1>1, <1>4, <1>5, <2>2
  <2> QED BY <1>8, <2>2, <2>3 DEF next, d
<1>10. CASE ~(d <= MonthLength(y, m))
  <2> DEFINE r == d - MonthLength(y, m)
  <2>1. r \in 1 .. 3
    BY <1>6, <1>10
  <2>2. PICK z \in Nat, j \in 1 .. 12 :
          12 * z + j = 12 * y + m + 1 /\ MonthStart(z, j) = MonthStart(y, m) + MonthLength(y, m)
    <3>1. CASE m < 12
      <4>1. m + 1 \in 1 .. 12 /\ MonthStart(y, m + 1) = MonthStart(y, m) + MonthLength(y, m)
        <5>1. m + 1 \in 1 .. 12
          BY <3>1
        <5>2. MonthStart(y, m + 1) = MonthStart(y, m) + MonthLength(y, m)
          BY <3>1, MonthsFollow, Zenon
        <5> QED BY <5>1, <5>2
      <4>2. 12 * y + (m + 1) = 12 * y + m + 1
        OBVIOUS
      <4> QED BY <4>1, <4>2
    <3>2. CASE m = 12
      <4>1. y + 1 \in Nat /\ 1 \in 1 .. 12
        OBVIOUS
      <4>2. MonthStart(y + 1, 1) = BeforeYear(y + 1)
        BY <4>1, MonthsFollow
      <4>3. BeforeYear(y + 1) = MonthStart(y, m) + MonthLength(y, m)
        BY <3>2, MonthsFollow
      <4>4. 12 * (y + 1) + 1 = 12 * y + m + 1
        BY <3>2
      <4>5. MonthStart(y + 1, 1) = MonthStart(y, m) + MonthLength(y, m)
        BY <4>2, <4>3
      <4> QED BY <4>1, <4>4, <4>5
    <3> QED BY <3>1, <3>2
  <2>3. MonthStart(z, j) \in Nat /\ MonthLength(z, j) \in 28 .. 31
    BY MonthsFollow
  <2>4. r \in 1 .. MonthLength(z, j) /\ next = MonthStart(z, j) + r - 1
    BY <1>6, <1>7, <2>1, <2>2, <2>3
  <2>5. Year(next) = z /\ Month(next) = j /\ DayOfMonth(next) = r
    <3> HIDE DEF r
    <3> QED BY <2>4, DateUnique
  <2>6. last = MonthStart(y, m) + MonthLength(y, m) - 1
    BY <1>6, <2>1, <2>2, <2>4, <2>5
  <2>7. Year(last) = y /\ Month(last) = m
    <3>1. MonthLength(y, m) \in 1 .. MonthLength(y, m)
      BY <1>6
    <3> HIDE DEF last
    <3> QED BY <2>6, <3>1, DateUnique
  <2>8. MonthsBetween(n, next) = k + 1
    BY <1>1, <1>4, <1>5, <2>2, <2>5
  <2>9. DayOfMonth(next) >= 1 /\ DayOfMonth(next) = d - MonthLength(Year(last), Month(last))
    BY <2>1, <2>5, <2>7
  <2> HIDE DEF last
  <2> QED BY <1>8, <2>8, <2>9 DEF next, d, last
<1> QED
  BY <1>9, <1>10

\* A year is twelve months.
LEMMA YearsOn ==
  ASSUME NEW n \in Nat, NEW k \in Nat
  PROVE  AddDate(n, k, 0, 0) = AddDate(n, 0, 12 * k, 0)
<1>1. Year(n) \in Nat /\ Month(n) \in 1 .. 12
  BY DateOf
<1>2. PICK y \in Nat, m \in 1 .. 12 : CountedIn(n, k, 0, 0, y, m)
  BY DateAdded
<1>3. PICK z \in Nat, j \in 1 .. 12 : CountedIn(n, 0, 12 * k, 0, z, j)
  <2>1. 12 * k \in Nat
    OBVIOUS
  <2> QED BY <2>1, DateAdded
<1>4. /\ 12 * y + m = 12 * Year(n) + 12 * k + Month(n)
      /\ AddDate(n, k, 0, 0) = MonthStart(y, m) + DayOfMonth(n) + 0 - 1
  BY <1>1, <1>2 DEF CountedIn
<1>5. /\ 12 * z + j = 12 * Year(n) + 12 * k + Month(n)
      /\ AddDate(n, 0, 12 * k, 0) = MonthStart(z, j) + DayOfMonth(n) + 0 - 1
  BY <1>1, <1>3 DEF CountedIn
<1>6. y = z /\ m = j
  BY <1>4, <1>5, <1>1
<1> QED
  BY <1>4, <1>5, <1>6

\* The rules a task line can hold.
Rules == [n : Nat \ {0}, unit : Units, whenDone : BOOLEAN]

\* A rule leads to a later day, and to the one it says.
LEMMA AdvanceOK ==
  ASSUME NEW rule \in Rules, NEW day \in Nat
  PROVE  Advance(rule, day) \in Nat /\ Advance(rule, day) > day /\ Follows(rule, day, Advance(rule, day))
<1>1. rule.n \in Nat \ {0} /\ rule.unit \in Units
  BY DEF Rules
<1>2. CASE rule.unit \in {"day", "week"}
  <2> DEFINE k == (IF rule.unit = "week" THEN 7 ELSE 1) * rule.n
  <2>1. k \in Nat \ {0}
    BY <1>1
  <2>2. Advance(rule, day) = AddDate(day, 0, 0, k)
    <3>1. CASE rule.unit = "day"
      <4>1. Advance(rule, day) = AddDate(day, 0, 0, rule.n)
        BY <3>1 DEF Advance
      <4>2. k = rule.n
        BY <1>1, <3>1
      <4> QED BY <4>1, <4>2
    <3>2. CASE rule.unit = "week"
      BY <3>2 DEF Advance
    <3> QED BY <1>2, <3>1, <3>2
  <2>3. Follows(rule, day, day + k)
    BY <1>2 DEF Follows
  <2> HIDE DEF k
  <2>4. Advance(rule, day) = day + k
    BY <2>1, <2>2, DaysOn
  <2> QED BY <2>1, <2>3, <2>4
<1>3. CASE rule.unit \in {"month", "year"}
  <2> DEFINE k == IF rule.unit = "year" THEN 12 * rule.n ELSE rule.n
             next == AddDate(day, 0, k, 0)
             last == next - DayOfMonth(next)
  <2>1. k \in Nat \ {0}
    BY <1>1
  <2>2. Advance(rule, day) = next
    <3>1. CASE rule.unit = "month"
      BY <3>1 DEF Advance
    <3>2. CASE rule.unit = "year"
      <4>1. Advance(rule, day) = AddDate(day, rule.n, 0, 0)
        BY <3>2 DEF Advance
      <4>2. AddDate(day, rule.n, 0, 0) = AddDate(day, 0, 12 * rule.n, 0)
        BY <1>1, YearsOn
      <4>3. k = 12 * rule.n
        BY <3>2
      <4> QED BY <4>1, <4>2, <4>3
    <3> QED BY <1>3, <3>1, <3>2
  <2>3. /\ next \in Nat /\ next > day
        /\ \/ MonthsBetween(day, next) = k /\ DayOfMonth(next) = DayOfMonth(day)
           \/ /\ MonthsBetween(day, next) = k + 1
              /\ DayOfMonth(next) = DayOfMonth(day) - MonthLength(Year(last), Month(last))
              /\ DayOfMonth(next) >= 1
    <3> HIDE DEF k
    <3> QED BY <2>1, MonthsOn
  <2>4. Follows(rule, day, next)
    <3>1. rule.unit \notin {"day", "week"}
      BY <1>3
    <3> HIDE DEF next
    <3> QED BY <2>3, <3>1 DEF Follows
  <2> HIDE DEF next
  <2> QED BY <2>2, <2>3, <2>4
<1> QED
  BY <1>1, <1>2, <1>3 DEF Units

\* The reference date goes to the day the rule leads to, a day less in a zone
\* ahead of UTC when it counts from the completion.
FirstOf(due, scheduled) == IF due # NoDate THEN due ELSE scheduled

DaysMoved(rule, ref, doneOn, offset) ==
  IF rule.whenDone THEN Advance(rule, doneOn) - ref - (IF offset > 0 THEN 1 ELSE 0)
  ELSE Advance(rule, ref) - ref

Moved(date, days) == IF date = NoDate THEN NoDate ELSE date + days

\* The dates NextRecurrence gives: the other date moves as far as the reference
\* date.
LEMMA NextOK ==
  ASSUME NEW rule \in Rules, NEW due \in Int \cup {NoDate}, NEW scheduled \in Int \cup {NoDate},
         NEW doneOn \in Nat, NEW offset \in -23 .. 23, FirstOf(due, scheduled) \in Nat
  PROVE  LET days == DaysMoved(rule, FirstOf(due, scheduled), doneOn, offset)
         IN  NextRecurrence(rule, due, scheduled, doneOn, offset) =
               [due |-> Moved(due, days), scheduled |-> Moved(scheduled, days)]
<1> DEFINE ref == FirstOf(due, scheduled)
           moved == DaysMoved(rule, ref, doneOn, offset)
           newRef == IF rule.whenDone THEN LocalMidnight(Advance(rule, doneOn), offset)
                     ELSE Midnight(Advance(rule, ref))
           delta == newRef - Midnight(ref)
           Shift(day) == IF day = NoDate THEN NoDate ELSE Written(Midnight(day) + delta)
<1>1. Advance(rule, doneOn) \in Int /\ Advance(rule, ref) \in Int /\ ref \in Int
  BY AdvanceOK
<1>2. NextRecurrence(rule, due, scheduled, doneOn, offset) = [due |-> Shift(due), scheduled |-> Shift(scheduled)]
  BY DEF NextRecurrence, FirstOf
<1> HIDE DEF ref
<1>3. ASSUME NEW day \in Int PROVE Written(Midnight(day) + delta) = day + moved
  <2>1. CASE rule.whenDone
    <3> DEFINE to == Advance(rule, doneOn)
               j == day + (to - ref)
    <3>1. delta = (24 * to - offset) - 24 * ref
      BY <2>1 DEF Midnight, LocalMidnight
    <3> HIDE DEF delta, to
    <3>2. to \in Int
      BY <1>1 DEF to
    <3>3. j \in Int /\ Midnight(day) + delta = 24 * j - offset
      BY <1>1, <3>1, <3>2 DEF Midnight
    <3> HIDE DEF j
    <3>4. (24 * j - offset) \div 24 = j - (IF offset > 0 THEN 1 ELSE 0)
      BY <3>3
    <3>5. Written(Midnight(day) + delta) = j - (IF offset > 0 THEN 1 ELSE 0)
      BY <3>3, <3>4 DEF Written
    <3>6. moved = to - ref - (IF offset > 0 THEN 1 ELSE 0)
      BY <2>1 DEF to, DaysMoved
    <3> QED BY <1>1, <3>2, <3>5, <3>6 DEF j
  <2>2. CASE ~rule.whenDone
    <3> DEFINE to == Advance(rule, ref)
               j == day + (to - ref)
    <3>1. delta = 24 * to - 24 * ref
      BY <2>2 DEF Midnight
    <3> HIDE DEF delta, to
    <3>2. to \in Int
      BY <1>1 DEF to
    <3>3. j \in Int /\ Midnight(day) + delta = 24 * j
      BY <1>1, <3>1, <3>2 DEF Midnight
    <3> HIDE DEF j
    <3>4. (24 * j) \div 24 = j
      BY <3>3
    <3>5. Written(Midnight(day) + delta) = j
      BY <3>3, <3>4 DEF Written
    <3>6. moved = to - ref
      BY <2>2 DEF to, DaysMoved
    <3> QED BY <1>1, <3>2, <3>5, <3>6 DEF j
  <2> QED BY <2>1, <2>2
<1>4. Shift(due) = Moved(due, moved)
  <2>1. due \in Int \/ due = NoDate
    OBVIOUS
  <2> HIDE DEF delta, moved
  <2> QED BY <1>3, <2>1 DEF Moved
<1>5. Shift(scheduled) = Moved(scheduled, moved)
  <2>1. scheduled \in Int \/ scheduled = NoDate
    OBVIOUS
  <2> HIDE DEF delta, moved
  <2> QED BY <1>3, <2>1 DEF Moved
<1> HIDE DEF Shift
<1> QED
  BY <1>2, <1>4, <1>5 DEF ref

\* Every occurrence has a date, and lies after the one before as the rule says.
OccurrenceOK(t) ==
  /\ t.rule \in Rules /\ t.offset \in -23 .. 23 /\ t.number \in Nat
  /\ t.due \in Int \cup {NoDate} /\ t.scheduled \in Int \cup {NoDate} /\ Ref(t) \in Nat

RecurInv ==
  /\ recurring = [rule |-> recurring.rule, due |-> recurring.due,
                  scheduled |-> recurring.scheduled, offset |-> recurring.offset,
                  number |-> recurring.number]
  /\ OccurrenceOK(recurring)
  /\ RecurrenceAdvances

\* The first occurrence has a date.
LEMMA RecurInitOK == RecurInit => RecurInv
<1> SUFFICES ASSUME RecurInit PROVE RecurInv
  OBVIOUS
<1>1. PICK n \in Intervals, unit \in Units, whenDone \in BOOLEAN, day \in FirstDays,
           gap \in Gaps, has \in {"due", "scheduled", "both"}, offset \in Offsets :
        recurring = [rule |-> [n |-> n, unit |-> unit, whenDone |-> whenDone],
                     due |-> IF has = "scheduled" THEN NoDate ELSE day,
                     scheduled |-> IF has = "due" THEN NoDate ELSE day + gap,
                     offset |-> offset, number |-> 1]
  BY DEF RecurInit
<1>2. /\ n \in Nat \ {0} /\ day \in Nat /\ day + gap \in Nat /\ offset \in -23 .. 23
      /\ NoDate \notin Int
  BY RecurrenceAssumption
<1>3. /\ recurring.rule \in Rules /\ recurring.offset \in -23 .. 23 /\ recurring.number = 1
  BY <1>1, <1>2 DEF Rules
<1>4. recurring.due \in Int \cup {NoDate} /\ recurring.scheduled \in Int \cup {NoDate} /\ Ref(recurring) \in Nat
  BY <1>1, <1>2 DEF Ref
<1>5. RecurrenceAdvances
  BY <1>3 DEF RecurrenceAdvances
<1>6. recurring = [rule |-> recurring.rule, due |-> recurring.due,
                   scheduled |-> recurring.scheduled, offset |-> recurring.offset,
                   number |-> recurring.number]
  BY <1>1
<1> QED
  BY <1>3, <1>4, <1>5, <1>6 DEF RecurInv, OccurrenceOK

\* The next occurrence is where the rule says.
LEMMA RecurStepOK == RecurInv /\ [RecurNext]_recurVars => RecurInv'
<1> SUFFICES ASSUME RecurInv, [RecurNext]_recurVars PROVE RecurInv'
  OBVIOUS
<1>1. CASE UNCHANGED recurVars
  BY <1>1 DEF RecurInv, OccurrenceOK, Ref, recurVars, RecurrenceAdvances, RightDay,
              SpacingKept, Advances, Base, EastOfUTC
<1>2. CASE RecurNext
  <2> PICK delay \in Delays : CompleteRecurring(delay)
    BY <1>2 DEF RecurNext
  <2> DEFINE rule == recurring.rule
             due == recurring.due
             scheduled == recurring.scheduled
             offset == recurring.offset
             ref == Ref(recurring)
             doneOn == ref + delay
             early == IF offset > 0 THEN 1 ELSE 0
             moved == DaysMoved(rule, ref, doneOn, offset)
             next == NextRecurrence(rule, due, scheduled, doneOn, offset)
  <2>1. /\ rule \in Rules /\ offset \in -23 .. 23 /\ recurring.number \in Nat
        /\ due \in Int \cup {NoDate} /\ scheduled \in Int \cup {NoDate} /\ ref \in Nat
        /\ NoDate \notin Int /\ ref = FirstOf(due, scheduled)
    BY RecurrenceAssumption DEF RecurInv, OccurrenceOK, Ref, FirstOf
  <2>2. doneOn \in Nat
    <3>1. delay \in Int /\ doneOn >= 0
      BY RecurrenceAssumption DEF CompleteRecurring
    <3> QED BY <2>1, <3>1
  <2>3. rule.whenDone \in BOOLEAN
    BY <2>1 DEF Rules
  <2>4. /\ Advance(rule, doneOn) \in Nat /\ Advance(rule, doneOn) > doneOn
        /\ Follows(rule, doneOn, Advance(rule, doneOn))
        /\ Advance(rule, ref) \in Nat /\ Advance(rule, ref) > ref
        /\ Follows(rule, ref, Advance(rule, ref))
    BY <2>1, <2>2, AdvanceOK
  <2>5. moved \in Int /\ ref + moved \in Nat
    BY <2>1, <2>2, <2>3, <2>4 DEF DaysMoved
  <2>6. next = [due |-> Moved(due, moved), scheduled |-> Moved(scheduled, moved)]
    <3> HIDE DEF rule, due, scheduled, offset, ref, doneOn
    <3> QED BY <2>1, <2>2, NextOK
  <2>7. /\ recurring' = [recurring EXCEPT !.due = next.due, !.scheduled = next.scheduled, !.number = @ + 1]
        /\ before' = [due |-> due, scheduled |-> scheduled, doneOn |-> doneOn]
    BY DEF CompleteRecurring
  <2>8. recurring = [rule |-> rule, due |-> due, scheduled |-> scheduled, offset |-> offset,
                     number |-> recurring.number]
    BY DEF RecurInv
  <2> HIDE DEF next
  <2>9. recurring' = [rule |-> rule, due |-> next.due, scheduled |-> next.scheduled, offset |-> offset,
                      number |-> recurring.number + 1]
    BY <2>7, <2>8
  <2>10. /\ next.due = Moved(due, moved)
         /\ next.scheduled = Moved(scheduled, moved)
    BY <2>6
  <2> HIDE DEF rule, due, scheduled, offset, ref, doneOn, moved
  <2>11. /\ recurring'.due = next.due /\ recurring'.scheduled = next.scheduled
         /\ recurring'.rule = rule /\ recurring'.offset = offset /\ recurring'.number \in Nat
    BY <2>1, <2>9
  <2>12. Ref(recurring') = ref + moved
    BY <2>1, <2>5, <2>10, <2>11 DEF Ref, FirstOf, Moved
  <2>13. OccurrenceOK(recurring')
    BY <2>1, <2>5, <2>10, <2>11, <2>12 DEF OccurrenceOK, Moved
  <2>14. Ref(before') = ref /\ before'.doneOn = doneOn
    BY <2>1, <2>7 DEF Ref, FirstOf
  <2>15. SpacingKept'
    BY <2>1, <2>5, <2>7, <2>10, <2>11 DEF SpacingKept, Moved
  <2>16. IF EastOfUTC' THEN Ref(recurring') >= before'.doneOn ELSE RightDay' /\ Advances'
    <3>1. CASE rule.whenDone
      <4>1. Base' = doneOn /\ (EastOfUTC' <=> offset > 0)
        BY <2>11, <2>14, <3>1 DEF Base, EastOfUTC, rule, offset
      <4>2. ref + moved = Advance(rule, doneOn) - early
        BY <2>1, <2>4, <3>1 DEF moved, DaysMoved
      <4>3. CASE offset > 0
        <5>1. Ref(recurring') >= before'.doneOn
          BY <2>2, <2>4, <2>12, <2>14, <4>2, <4>3
        <5> QED BY <4>1, <4>3, <5>1
      <4>4. CASE ~(offset > 0)
        <5>1. Ref(recurring') = Advance(rule, doneOn)
          BY <2>4, <2>12, <4>2, <4>4
        <5>2. RightDay'
          BY <2>4, <2>11, <4>1, <5>1 DEF RightDay
        <5>3. Advances'
          BY <2>4, <2>11, <2>14, <3>1, <5>1 DEF Advances
        <5> QED BY <4>1, <4>4, <5>2, <5>3
      <4> QED BY <4>3, <4>4
    <3>2. CASE ~rule.whenDone
      <4>1. Base' = ref /\ ~EastOfUTC'
        BY <2>11, <2>14, <3>2 DEF Base, EastOfUTC
      <4>2. ref + moved = Advance(rule, ref)
        BY <2>1, <2>4, <3>2 DEF moved, DaysMoved
      <4>3. Ref(recurring') = Advance(rule, ref)
        BY <2>4, <2>12, <4>2
      <4>4. RightDay'
        BY <2>4, <2>11, <4>1, <4>3 DEF RightDay
      <4>5. Advances'
        BY <2>4, <2>11, <2>12, <2>14, <3>2, <4>2 DEF Advances
      <4> QED BY <4>1, <4>4, <4>5
    <3> QED BY <2>3, <3>1, <3>2 DEF rule
  <2>17. recurring' = [rule |-> recurring'.rule, due |-> recurring'.due,
                       scheduled |-> recurring'.scheduled, offset |-> recurring'.offset,
                       number |-> recurring'.number]
    BY <2>9
  <2> QED BY <2>13, <2>15, <2>16, <2>17 DEF RecurInv, RecurrenceAdvances
<1> QED
  BY <1>1, <1>2

\* A recurring task moves on as its rule says at every completion, whatever the
\* calendar day, the interval, the zone and the delay: NextRecurrence and advance
\* (recurrence.go) with time.AddDate's overflow into the next month.  A task "when
\* done" in a zone ahead of UTC is excepted as RecurrenceAdvances says.
THEOREM RecurrenceMovesOn == RecurSpec => []RecurrenceAdvances
<1>1. RecurInv => RecurrenceAdvances
  BY DEF RecurInv
<1> QED
  BY <1>1, RecurInitOK, RecurStepOK, PTL DEF RecurSpec
=============================================================================
