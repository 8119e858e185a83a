SPECIFICATION Spec
CONSTANTS
  Procs = {p1, p2}
  MaxApprovals = 2
  MaxCalls = 2
  MaxIterations = 1
  Chain = 2
  MaxGrants = 1
  MaxFaults = 1
INVARIANTS TypeOK OneContinuation ApprovalsOwned
PROPERTIES StickyProvider ConversationEnds
CHECK_DEADLOCK FALSE
