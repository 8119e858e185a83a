SPECIFICATION Spec
CONSTANTS
  MaxRows = 2
  Kinds = {"client", "capture", "note", "long"}
  Drainers = {d1, d2}
  Limit = 2
  MaxFaults = 1
  CopyCap = 3
INVARIANTS TypeOK NeverDropped TaskOnce NoteCopiesNeedFaults
 
CHECK_DEADLOCK FALSE
