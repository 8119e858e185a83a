------------------------------ MODULE DueToday ------------------------------
(***************************************************************************)
(* The due-today notifier of qid (internal/notify/scheduler.go): a timer   *)
(* for the next HH:MM, a callback, and again.  The time of day is read     *)
(* from the wall clock; the timer runs on the monotonic clock, which       *)
(* stands still while the machine sleeps and does not see the wall clock   *)
(* being set.  Time is counted in ticks, DayLength to a day.               *)
(***************************************************************************)
EXTENDS Integers, Sequences

CONSTANTS
  DayLength,  \* ticks in a day
  Ats,        \* times of day [notify] at may name
  MaxDays,    \* bound: days looked at
  MaxUpsets   \* bound: sleeps, clock changes and restarts

ASSUME DueTodayAssumption ==
  DayLength \in Nat \ {0} /\ Ats \subseteq 0 .. DayLength - 1 /\ {MaxDays, MaxUpsets} \subseteq Nat

VARIABLES
  at,        \* [notify] at
  wall,      \* the wall clock
  left,      \* ticks until the timer fires, NoTimer while qid is down
  fired,     \* per day: the times of day onFire ran
  skewed,    \* history: the timer no longer agrees with the wall clock
  exempt,    \* history: days touched by a disturbance
  upsets

dueVars == <<at, wall, left, fired, skewed, exempt, upsets>>

NoTimer == -1
Day(t) == t \div DayLength
TimeOfDay(t) == t % DayLength
Days == 0 .. MaxDays

\* Mutant of NextFire: the time of day itself counts as ahead.
NextFireOrNow(now) ==
  LET candidate == Day(now) * DayLength + at
  IN IF candidate < now THEN candidate + DayLength ELSE candidate

\* nextFire: strictly after now.
NextFire(now) ==
  LET candidate == Day(now) * DayLength + at
  IN IF candidate <= now THEN candidate + DayLength ELSE candidate

DueInit ==
  /\ at \in Ats /\ wall \in 0 .. DayLength - 1
  /\ left = NextFire(wall) - wall
  /\ fired = [d \in Days |-> <<>>]
  /\ skewed = FALSE /\ exempt = {0} /\ upsets = 0

\* Time passes; a timer that is due fires first.
Tick ==
  /\ left # 0 /\ Day(wall + 1) \in Days
  /\ wall' = wall + 1 /\ left' = IF left = NoTimer THEN NoTimer ELSE left - 1
  /\ exempt' = IF skewed \/ left = NoTimer THEN exempt \cup {Day(wall + 1)} ELSE exempt
  /\ UNCHANGED <<at, fired, skewed, upsets>>

\* Run: the timer fires, onFire runs, and the next wait is worked out.
FireDue ==
  /\ left = 0 /\ left' = NextFire(wall) - wall
  /\ fired' = [fired EXCEPT ![Day(wall)] = Append(@, TimeOfDay(wall))]
  /\ skewed' = FALSE /\ exempt' = IF skewed THEN exempt \cup {Day(wall)} ELSE exempt
  /\ UNCHANGED <<at, wall, upsets>>

Upset == upsets < MaxUpsets /\ upsets' = upsets + 1

\* The machine sleeps, or the wall clock is set: it moves and the timer does
\* not.
ClockMoves(to) ==
  /\ to # wall /\ Day(to) \in Days /\ left # NoTimer /\ Upset
  /\ wall' = to /\ skewed' = TRUE
  /\ exempt' = exempt \cup (Day(wall) .. Day(to)) \cup (Day(to) .. Day(wall))
  /\ UNCHANGED <<at, left, fired>>

QidStops ==
  /\ left # NoTimer /\ Upset /\ left' = NoTimer /\ skewed' = FALSE
  /\ exempt' = exempt \cup {Day(wall)}
  /\ UNCHANGED <<at, wall, fired>>

QidStarts ==
  /\ left = NoTimer /\ left' = NextFire(wall) - wall
  /\ UNCHANGED <<at, wall, fired, skewed, exempt, upsets>>

DueNext ==
  \/ Tick \/ FireDue \/ QidStops \/ QidStarts
  \/ \E to \in 0 .. (MaxDays + 1) * DayLength - 1 : ClockMoves(to)

DueSpec == DueInit /\ [][DueNext]_dueVars

---------------------------------------------------------------------------
\* The callback runs exactly once on every day, at the configured time
\* (scheduler.go:17), whatever happened on other days: after a sleep, a clock
\* change or a restart the schedule is right again from the first callback on.
\* The days of the disturbance itself are exempt: a timer held up by a sleep
\* fires late, on the next day perhaps, and if that is before the configured
\* time that day has two notifications.  So is the day qid was started.
NotifiedOncePerDay ==
  \A d \in Days \ exempt :
    IF d < Day(wall) THEN fired[d] = <<at>> ELSE fired[d] \in {<<>>, <<at>>}
=============================================================================
