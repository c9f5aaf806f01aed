SPECIFICATION Spec
CONSTANTS
  MaxDuration = 8
  MaxJitter = 8
  Seconds = {0, 1, 4, 6}
  ServerDefault = 3
  HelperDefault = 2
  RequestTimeouts = {0, 2, 7}
  Slacks = {0, 1, 3}
INVARIANTS OutlastsTheCommand AnswersTellTheTruth
