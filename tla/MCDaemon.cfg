SPECIFICATION MCSpec
CONSTANTS
  Ids = {i1}
  NoId = NoId
  Conns = {c1}
  MaxTerminalResultBytes = 1
  MaxAuditRecordBytes = 3
  MaxAuditLogBytes = 16
  MaxAuditReplayEntries = 6
  Overhead = 1
  ParamSizes = {0}
  ResultSizes = {1}
  Faults = {}
  MaxDaemons = 3
  Commands = {1, 2}
  MaxCrashes = 1
  Goroutines = {g1, g2}
  MaxCalls = 4
INVARIANTS
  OverlapRunsAreApproved
  ListenerReachable
  CallsPaired
PROPERTIES
  StoppedMeansGone
  RestartRestores
CHECK_DEADLOCK FALSE
