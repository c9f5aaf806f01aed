SPECIFICATION FairSpec
CONSTANTS
  Ids = {h}
  Plans = {p}
  Checkpoints = {ck, big}
  Fitting = ck
  Oversize = big
  Size <- Length
  MaxBytes = 2
  RunIds = {run}
  Evidence = {ev}
  Blank = Blank
  None = None
  MaxRevision = 2
  Tasks = {t1, t2}
INVARIANTS ToldIsDurable NeverUnreadable
PROPERTIES DurableHistory OneWriterWins KeepsTheContract LockIsFreed
