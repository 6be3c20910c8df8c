SPECIFICATION Spec
CONSTANTS
  NoTask = NoTask
  Job = {j1}
  Pid = {p1, p2}
  Alike <- AllAlike
  MaxStarts = 2
  AllowStall = FALSE
PROPERTIES
  RestoredJobIsResumed
CHECK_DEADLOCK FALSE
