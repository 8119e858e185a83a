---------------------------- MODULE TriageScreen ----------------------------
(***************************************************************************)
(* The screen of `qi inbox` (internal/tui/inboxtriage.go): a paged list of *)
(* captures and a card view of one, driven by keys and window resizes.     *)
(* What a line says is left out; which lines the list draws is not.        *)
(***************************************************************************)
EXTENDS Integers

CONSTANTS
  NCards,     \* captures on the screen
  Heights,    \* heights the terminal window may take
  Proposed    \* [1 .. NCards -> TriageActions], what triage proposes

Cards == 1 .. NCards
TriageActions == {"task", "note", "archive", "delete"}

ASSUME ScreenAssumption ==
  /\ NCards \in Nat \ {0} /\ Heights \subseteq Nat \ {0}
  /\ Proposed \in [Cards -> TriageActions]

Skip == "skip"
ListChrome == 7   \* lines of the list view that are not rows

VARIABLES
  screen,   \* view, cursor, first row in the window, height
  chosen,   \* m.actions: what finishing now would apply
  decided,  \* m.decided: rows the user has acted on
  over,     \* "", "applied" or "quit"
  typed     \* history: the last key that decided each row, Undecided if none

screenVars == <<screen, chosen, decided, over, typed>>

Undecided == "undecided"

PageSize(h) == IF h - ListChrome > 1 THEN h - ListChrome ELSE 1

Clamp(v, lo, hi) == IF v < lo THEN lo ELSE IF v > hi THEN hi ELSE v

\* scroll: the window moves so that the cursor row is in it; rows count from 1,
\* offset is the number of rows above the window.
Scrolled(s) ==
  LET page == PageSize(s.height)
      up == IF s.cursor - 1 < s.offset THEN s.cursor - 1 ELSE s.offset
      down == IF s.cursor - 1 >= up + page THEN s.cursor - page ELSE up
  IN [s EXCEPT !.offset = Clamp(down, 0, IF NCards > page THEN NCards - page ELSE 0)]

MoveTo(c) == screen' = Scrolled([screen EXCEPT !.cursor = Clamp(c, 1, NCards)])

\* listView: three lines (title, blank, header), the rows of the window, and five
\* (blank, position, two of help, and the one after the last line break).
Drawn(s) == IF NCards - s.offset < PageSize(s.height) THEN NCards - s.offset ELSE PageSize(s.height)
CursorLine(s) == 3 + s.cursor - s.offset
Lines(s) == 3 + Drawn(s) + 5

ScreenInit ==
  /\ screen = [view |-> "list", cursor |-> 1, offset |-> 0, height |-> 20]
  /\ chosen = [i \in Cards |-> Skip] /\ decided = [i \in Cards |-> FALSE]
  /\ over = "" /\ typed = [i \in Cards |-> Undecided]

Resize(h) ==
  /\ over = ""
  /\ screen' = Scrolled([screen EXCEPT !.height = h])
  /\ UNCHANGED <<chosen, decided, over, typed>>

\* set: t, n, a, d, s or enter on the cursor row.
SetRow(action) ==
  /\ chosen' = [chosen EXCEPT ![screen.cursor] = action]
  /\ decided' = [decided EXCEPT ![screen.cursor] = TRUE]
  /\ typed' = [typed EXCEPT ![screen.cursor] = action]
  /\ UNCHANGED over

\* What a deciding key records: an action, a skip, or the proposal (enter).
KeyActions == TriageActions \cup {Skip, Proposed[screen.cursor]}

ListMove ==
  /\ over = "" /\ screen.view = "list"
  /\ LET page == PageSize(screen.height) IN
     \E c \in {screen.cursor - 1, screen.cursor + 1, screen.cursor - page,
               screen.cursor + page, 1, NCards} : MoveTo(c)
  /\ UNCHANGED <<chosen, decided, over, typed>>

ListDecide ==
  /\ over = "" /\ screen.view = "list"
  /\ \E a \in KeyActions : SetRow(a)
  /\ MoveTo(screen.cursor + 1)

\* A: the rows that are not decided take their proposals.
AcceptAll ==
  /\ over = "" /\ screen.view = "list"
  /\ chosen' = [i \in Cards |-> IF decided[i] THEN chosen[i] ELSE Proposed[i]]
  /\ decided' = [i \in Cards |-> TRUE]
  /\ MoveTo(screen.cursor)
  /\ UNCHANGED <<over, typed>>

OpenCard ==
  /\ over = "" /\ screen.view = "list"
  /\ screen' = [screen EXCEPT !.view = "card"]
  /\ UNCHANGED <<chosen, decided, over, typed>>

\* The card view moves the cursor and leaves the list's window where it is.
CardMove ==
  /\ over = "" /\ screen.view = "card"
  /\ \E c \in {screen.cursor - 1, screen.cursor + 1} :
       screen' = [screen EXCEPT !.cursor = Clamp(c, 1, NCards)]
  /\ UNCHANGED <<chosen, decided, over, typed>>

CardDecide ==
  /\ over = "" /\ screen.view = "card"
  /\ \E a \in KeyActions : SetRow(a)
  /\ screen' = [screen EXCEPT !.cursor = Clamp(screen.cursor + 1, 1, NCards)]

\* Mutant of CloseCard: the list comes back with the window it had.
CloseCardKeepsWindow ==
  /\ over = "" /\ screen.view = "card"
  /\ screen' = [screen EXCEPT !.view = "list"]
  /\ UNCHANGED <<chosen, decided, over, typed>>

CloseCard ==
  /\ over = "" /\ screen.view = "card"
  /\ screen' = Scrolled([screen EXCEPT !.view = "list"])
  /\ UNCHANGED <<chosen, decided, over, typed>>

\* w applies, q aborts: TriageInbox then returns the actions, or nil.
Leave(how) ==
  /\ over = "" /\ over' = how
  /\ UNCHANGED <<screen, chosen, decided, typed>>

ScreenNext ==
  \/ \E h \in Heights : Resize(h)
  \/ ListMove \/ ListDecide \/ AcceptAll \/ OpenCard
  \/ CardMove \/ CardDecide \/ CloseCard
  \/ \E how \in {"applied", "quit"} : Leave(how)

ScreenSpec == ScreenInit /\ [][ScreenNext]_screenVars

---------------------------------------------------------------------------
\* In the list view the cursor is inside the window, and the window is full or
\* starts at the top.
CursorInWindow ==
  screen.view = "list" =>
    /\ screen.cursor \in screen.offset + 1 .. screen.offset + PageSize(screen.height)
    /\ screen.offset + PageSize(screen.height) <= NCards \/ screen.offset = 0

\* The row the next key of the list view acts on is drawn (inboxtriage.go, scroll),
\* whatever moved the cursor, in the card view too, and whatever size the terminal
\* has taken since.  On a terminal with room for the frame and one row it is on the
\* screen, whether lines too many are cut at the bottom or at the top; a smaller
\* one cannot show the frame and the row, and may cut it until it grows again.
CursorInView ==
  screen.view = "list" =>
    /\ 3 < CursorLine(screen) /\ CursorLine(screen) <= 3 + Drawn(screen)
    /\ screen.height > ListChrome =>
         CursorLine(screen) \in Lines(screen) - screen.height + 1 .. screen.height

\* What finishing applies to a row is the last key the user typed on it; a row
\* without one is skipped, or has the proposal if all were accepted
\* (inboxtriage.go, acceptAll).
AppliesWhatWasTyped ==
  \A i \in Cards : IF typed[i] # Undecided THEN chosen[i] = typed[i]
                   ELSE chosen[i] = IF decided[i] THEN Proposed[i] ELSE Skip

\* The triage screen is faithful: it acts on what it shows and applies what was
\* typed.
ScreenFaithful == CursorInView /\ AppliesWhatWasTyped
=============================================================================
