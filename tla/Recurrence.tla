----------------------------- MODULE Recurrence -----------------------------
(***************************************************************************)
(* A recurring task through its occurrences (internal/vault/recurrence.go, *)
(* internal/vault/task_format.go): each completion works out the dates of  *)
(* the next occurrence, which are written as days and parsed again.  Dates *)
(* are parsed as midnights in UTC; the completion is a local time.         *)
(* Instants are hours in UTC since the first day.                          *)
(***************************************************************************)
EXTENDS Integers, Sequences, FiniteSets

CONSTANTS
  LeapYears,     \* years with a 29 February
  NoDate,        \* a due or scheduled date that is not set
  FirstDays,     \* days the first occurrence may be due
  Gaps,          \* days from the due to the scheduled date
  Intervals,     \* the N of "every N ..."
  Offsets,       \* hours local time is ahead of UTC
  Delays,        \* days after which an occurrence is completed
  MaxOccurrences \* bound: occurrences looked at

ASSUME RecurrenceAssumption ==
  /\ LeapYears \subseteq Nat /\ NoDate \notin Int
  /\ FirstDays \subseteq Nat /\ Intervals \subseteq Nat \ {0} /\ MaxOccurrences \in Nat
  /\ Gaps \subseteq Int /\ \A day \in FirstDays, gap \in Gaps : day + gap \in Nat
  /\ Offsets \subseteq -23 .. 23 /\ Delays \subseteq Int

\* Dates are shifted by a time.Duration, which holds 292 years; Sub stops there.
ASSUME DurationAssumption ==
  (\A n \in Intervals : n <= 200) /\ (\A days \in Delays : days \in -30000 .. 30000)

Units == {"day", "week", "month", "year"}

---------------------------------------------------------------------------
(* The calendar: day 0 is 1 January of year 0.                             *)

MonthLength(y, m) ==
  CASE m = 2 -> IF y \in LeapYears THEN 29 ELSE 28 [] m \in {4, 6, 9, 11} -> 30 [] OTHER -> 31

\* Days of a year of 365 before each month, and before the next year.
DaysBefore == <<0, 31, 59, 90, 120, 151, 181, 212, 243, 273, 304, 334, 365>>

LeapsBefore(y) == {z \in LeapYears : z < y}
BeforeYear(y) == 365 * y + Cardinality(LeapsBefore(y))

MonthStart(y, m) ==
  BeforeYear(y) + DaysBefore[m] + (IF m > 2 /\ y \in LeapYears THEN 1 ELSE 0)

\* time.Date normalises: months beyond December, and days beyond the month.
DayOf(y, m, d) == MonthStart(y + (m - 1) \div 12, ((m - 1) % 12) + 1) + d - 1

Year(n) == CHOOSE y \in 0 .. n : BeforeYear(y) <= n /\ n < BeforeYear(y + 1)
Month(n) ==
  CHOOSE m \in 1 .. 12 :
    MonthStart(Year(n), m) <= n /\ n < MonthStart(Year(n), m) + MonthLength(Year(n), m)
DayOfMonth(n) == n - MonthStart(Year(n), Month(n)) + 1

\* time.AddDate.
AddDate(n, years, months, days) == DayOf(Year(n) + years, Month(n) + months, DayOfMonth(n) + days)

---------------------------------------------------------------------------
(* The rule                                                                *)

\* advance, on a day.
Advance(rule, day) ==
  CASE rule.unit = "day" -> AddDate(day, 0, 0, rule.n)
    [] rule.unit = "week" -> AddDate(day, 0, 0, 7 * rule.n)
    [] rule.unit = "month" -> AddDate(day, 0, rule.n, 0)
    [] rule.unit = "year" -> AddDate(day, rule.n, 0, 0)

\* A midnight in UTC, and one offset hours ahead of it; a date is written as the
\* day an instant falls on in UTC.
Midnight(day) == 24 * day
LocalMidnight(day, offset) == 24 * day - offset
Written(instant) == instant \div 24

\* Mutant of NextRecurrence: each date is advanced by itself.
NextRecurrenceEach(rule, due, scheduled, doneOn, offset) ==
  [due |-> IF due = NoDate THEN NoDate ELSE Advance(rule, due),
   scheduled |-> IF scheduled = NoDate THEN NoDate ELSE Advance(rule, scheduled)]

\* NextRecurrence: the reference date moves by the rule, or to the rule applied
\* to the local day of completion; every date moves by as many hours.
NextRecurrence(rule, due, scheduled, doneOn, offset) ==
  LET ref == IF due # NoDate THEN due ELSE scheduled
      newRef == IF rule.whenDone THEN LocalMidnight(Advance(rule, doneOn), offset)
                ELSE Midnight(Advance(rule, ref))
      delta == newRef - Midnight(ref)
      Shift(day) == IF day = NoDate THEN NoDate ELSE Written(Midnight(day) + delta)
  IN [due |-> Shift(due), scheduled |-> Shift(scheduled)]

---------------------------------------------------------------------------
VARIABLES
  recurring,  \* rule, dates, local offset, occurrence number
  before      \* history: dates of the occurrence completed last, and the day

recurVars == <<recurring, before>>

RecurInit ==
  /\ \E n \in Intervals, unit \in Units, whenDone \in BOOLEAN, day \in FirstDays,
        gap \in Gaps, has \in {"due", "scheduled", "both"}, offset \in Offsets :
       recurring = [rule |-> [n |-> n, unit |-> unit, whenDone |-> whenDone],
                    due |-> IF has = "scheduled" THEN NoDate ELSE day,
                    scheduled |-> IF has = "due" THEN NoDate ELSE day + gap,
                    offset |-> offset, number |-> 1]
  /\ before = [due |-> NoDate, scheduled |-> NoDate, doneOn |-> NoDate]

Ref(t) == IF t.due # NoDate THEN t.due ELSE t.scheduled

\* CompleteTask of a recurring task, some days before or after it was due.
CompleteRecurring(delay) ==
  LET doneOn == Ref(recurring) + delay
      next == NextRecurrence(recurring.rule, recurring.due, recurring.scheduled, doneOn,
                             recurring.offset)
  IN
  /\ recurring.number < MaxOccurrences /\ doneOn >= 0
  /\ recurring' = [recurring EXCEPT !.due = next.due, !.scheduled = next.scheduled,
                                    !.number = @ + 1]
  /\ before' = [due |-> recurring.due, scheduled |-> recurring.scheduled, doneOn |-> doneOn]

RecurNext == \E delay \in Delays : CompleteRecurring(delay)

RecurSpec == RecurInit /\ [][RecurNext]_recurVars

---------------------------------------------------------------------------
Base == IF recurring.rule.whenDone THEN before.doneOn ELSE Ref(before)
EastOfUTC == recurring.rule.whenDone /\ recurring.offset > 0

\* Months of the calendar passed between two days.
MonthsBetween(a, b) == 12 * (Year(b) - Year(a)) + Month(b) - Month(a)

\* A day lies where the rule says, counted in the calendar and not by adding days:
\* so many days on; or the same day so many months on, or, where that month is
\* shorter, as many days into the month after it as are missing.
Follows(rule, day, next) ==
  LET months == IF rule.unit = "year" THEN 12 * rule.n ELSE rule.n
      last == next - DayOfMonth(next)   \* the day before its month
  IN IF rule.unit \in {"day", "week"}
     THEN next = day + (IF rule.unit = "week" THEN 7 ELSE 1) * rule.n
     ELSE \/ MonthsBetween(day, next) = months /\ DayOfMonth(next) = DayOfMonth(day)
          \/ /\ MonthsBetween(day, next) = months + 1
             /\ DayOfMonth(next) = DayOfMonth(day) - MonthLength(Year(last), Month(last))
             /\ DayOfMonth(next) >= 1

\* The next occurrence is where the rule says.
RightDay == Follows(recurring.rule, Base, Ref(recurring))

\* Due and scheduled dates keep their distance (recurrence.go:71-73).
SpacingKept ==
  recurring.due # NoDate /\ recurring.scheduled # NoDate =>
    recurring.due - recurring.scheduled = before.due - before.scheduled

\* An occurrence that is not "when done" lies after the one before it, however
\* late that was completed; one that is lies after the day of completion.
Advances == Ref(recurring) > (IF recurring.rule.whenDone THEN before.doneOn ELSE Ref(before))

\* A recurring task moves on as its rule says at every completion, and its dates
\* keep their distance.  Excepted is a task "when done" in a zone ahead of UTC,
\* which is a day early (RightDayInEveryZone): its dates keep their distance, and
\* none lies before the day of completion.
RecurrenceAdvances ==
  recurring.number > 1 =>
    /\ SpacingKept
    /\ IF EastOfUTC THEN Ref(recurring) >= before.doneOn ELSE RightDay /\ Advances

\* "When done" counts from the day of completion (recurrence.go:75-77) in every
\* zone.  It does not: the local midnight of the next date is the day before in
\* UTC wherever local time is ahead, and that is the day written.
RightDayInEveryZone == recurring.number > 1 => RightDay
=============================================================================
