SPECIFICATION RecurSpec
CONSTANTS
  NoDate = NoDate
  LeapYears = {1, 5}
  FirstDays = {14}
  Gaps = {0}
  Intervals = {1}
  Offsets = {0, 2}
  Delays = {0, 40}
  MaxOccurrences = 3
INVARIANT RightDayInEveryZone
CHECK_DEADLOCK FALSE
