SPECIFICATION MCSpec
CONSTANTS
  c1 = c1
  c2 = c2
  c3 = c3
  x1 = x1
  NPanes = 2
  PaneWorkspace <- MCWorkspace
  Here = "qi"
  Agents = {c1, c2, c3, x1}
  NoAgent = NoAgent
  None = None
  AgentKind <- MCKind
  SessionId <- MCSession
  Targets <- MCTargets
  MaxTurns = 2
  MaxMoves = 1
  Ids = {i1, i2}
  NoId = NoId
  Conns = {n1, n2}
  MaxTerminalResultBytes = 1
  MaxAuditRecordBytes = 3
  MaxAuditLogBytes = 13
  MaxAuditReplayEntries = 5
  Overhead = 1
  ParamSizes = {0, 2, 3}
  ResultSizes = {1, 2}
  Faults = {}
INVARIANTS TypeOK TerminalRecordFits RestartAccepts RestartForgetsNothing RunsAreApproved
  RefersToLastSent
PROPERTIES ImplementsLifecycle DrainCompletes HeldInstructionOnce NeverGuesses TurnEnds
