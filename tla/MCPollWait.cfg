SPECIFICATION FairSpec
CONSTANTS
  Timeouts = {0, 1, 3, 9}
  MaxTimeout = 8
  Intervals = {0, 2}
PROPERTIES DeadlineDecides NoLatePoll WaitEnds
