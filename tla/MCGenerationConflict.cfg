SPECIFICATION Spec
CONSTANTS
  NoTask = NoTask
  Job = {j1, j2}
  Pid = {p1}
  Alike <- AllAlike
  MaxStarts = 3
  AllowStall = FALSE
SYMMETRY Interchangeable
INVARIANTS
  ConflictIsReconciled
CHECK_DEADLOCK FALSE
