SPECIFICATION Spec
CONSTANTS
  Id = h
  Ids = {h}
  Plans = {p, q}
  Checkpoints = {ck}
  RunIds = {run}
  Evidence = {ev}
  Blank = Blank
  None = None
  MaxRevision = 3
  Callers = {c1, c2}
  VerifiedReconcile = FALSE
  RestoredPlan = p
  RestoredCheckpoint = ck
CONSTRAINT OneAmbiguousWrite
SYMMETRY ControllersAndPlans
INVARIANTS HeldIsCommitted
PROPERTIES ActedAtMostOnce ConfirmsItsOwnClaim CreateKeepsThePlan
