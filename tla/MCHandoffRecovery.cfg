SPECIFICATION RecoverySpec
CONSTANTS
  Id = h
  Ids = {h}
  Plans = {p}
  Checkpoints = {ck}
  RunIds = {run}
  Evidence = {ev}
  Blank = Blank
  None = None
  MaxRevision = 8
  Callers = {c1, c2}
  VerifiedReconcile = TRUE
  MaxFaults = 1
CHECK_DEADLOCK FALSE
PROPERTIES HandoffCompletes
