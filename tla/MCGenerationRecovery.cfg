SPECIFICATION LiveSpec
CONSTANTS
  NoTask = NoTask
  Job = {j1}
  Pid = {p1, p2}
  Alike <- AllAlike
  MaxStarts = 3
  AllowStall = TRUE
INVARIANTS
  SubmitAtMostOnce
  OneOwnerAtWork
PROPERTIES
  KeepsContract
  
  
CHECK_DEADLOCK FALSE
