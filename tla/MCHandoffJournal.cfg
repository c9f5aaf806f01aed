SPECIFICATION HalvesSpec
CONSTANTS
  Id = h
  Ids = {h}
  Plans = {p}
  Checkpoints = {ck}
  RunIds = {run}
  Evidence = {ev}
  Blank = Blank
  None = None
  MaxRevision = 7
  Callers = {c1, c2}
  VerifiedReconcile = TRUE
  RestoredPlan = p
  RestoredCheckpoint = ck
CONSTRAINT OneAmbiguousWrite
ACTION_CONSTRAINT HalvesApart
SYMMETRY Controllers
INVARIANTS TypeOK ActedAfterCommit ActionsDoNotOverlap EachStepAppliedOnce
PROPERTIES LegalHistory CheckpointIsKept
