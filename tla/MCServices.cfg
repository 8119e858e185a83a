SPECIFICATION MCSpec
CONSTANTS
  Processes = {q1, q2}
  TaskIds = {a}
  NoTaskId = NoTaskId
  Texts = {"typed", "first"}
  MaxSaves = 1
  MaxDeaths = 1
  NoDate = NoDate
  LeapYears = {1, 5}
  FirstDays <- MCFirstDays
  Gaps <- MCGaps
  Intervals = {1, 2}
  Offsets <- MCOffsets
  Delays <- MCDelays
  MaxOccurrences = 3
  DayLength = 3
  Ats = {0, 2}
  MaxDays = 3
  MaxUpsets = 2
  NItems = 4
  Bodies = {"empty", "marked", "long"}
  Verdicts = {"task", "other"}
  Limits = {0, 3}
  BatchSize = 2
  Concurrency = 2
  MaxAttempts = 2
  NCards = 3
  Heights = {3, 8, 9, 12}
  Proposed <- MCProposed
  NCaptures = 2
  Contents <- MCContents
  NoContent <- MCNoContent
  MaxFaults = 1
  MaxEdits = 1
  MaxTriageUpsets = 1
  Continuations <- MCContinuations
INVARIANTS
  TaskFileSafe
  RecurrenceAdvances
  NotifiedOncePerDay
  CapturesAccounted
  RefineFaithful
  ScreenFaithful
  NothingDropped
  OneAddressee
  InstructionHeard
CHECK_DEADLOCK FALSE
