SPECIFICATION FairSpec
CONSTANTS
  Scenarios <- AllRuns
  MaxTimeout = 8
  MaxLog = 3
INVARIANTS ExactlyOnceInOrder EndIsComplete OnePrompt NothingSkipped
PROPERTIES InterruptionStops StreamEnds
