SPECIFICATION Spec
CONSTANTS
  Scenarios <- EmptyCursorRuns
  MaxTimeout = 8
  MaxLog = 3
INVARIANTS UnusableCursorsAreErrors
