SPECIFICATION LiveSpec
CONSTANTS
  NoTask = NoTask
  Job = {j1, j2}
  Pid = {p1}
  Alike <- AllAlike
  MaxStarts = 1
  AllowStall = FALSE
PROPERTIES
  StartedJobSettles
CHECK_DEADLOCK FALSE
