SPECIFICATION LiveSpec
CONSTANTS
  NoTask = NoTask
  Job = {j1}
  Pid = {p1}
  Alike <- AllAlike
  MaxStarts = 2
  AllowStall = FALSE
PROPERTIES
  NotUniqueBecomesUnknown
CHECK_DEADLOCK FALSE
