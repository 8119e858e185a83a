SPECIFICATION Spec
CONSTANTS
  Ids = {i1, i2}
  NoId = NoId
  Conns = {c1}
  MaxTerminalResultBytes = 1
  MaxAuditRecordBytes = 3
  MaxAuditLogBytes = 14
  MaxAuditReplayEntries = 6
  Overhead = 1
  ParamSizes = {0}
  ResultSizes = {1}
  Faults = {"write"}
INVARIANT AuditIsDurableRecord
