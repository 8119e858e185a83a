SPECIFICATION OverlapSpec
CONSTANTS
  Ids = {i1}
  NoId = NoId
  Conns = {c1}
  MaxTerminalResultBytes = 1
  MaxAuditRecordBytes = 3
  MaxAuditLogBytes = 16
  MaxAuditReplayEntries = 6
  Overhead = 1
  ParamSizes = {0}
  ResultSizes = {1}
  Faults = {}
PROPERTY NeverReexecutesTerminal
CHECK_DEADLOCK FALSE
