SPECIFICATION Spec
CONSTANTS
  NoTask = NoTask
  Job = {j1, j2}
  Pid = {p1}
  Alike <- AllAlike
  MaxStarts = 2
  AllowStall = FALSE
SYMMETRY Interchangeable
INVARIANTS
  TypeOK
  NoRefundAfterPossibleSubmit
  BudgetFitsStatus
  TaskBelongsToOneJob
  PolledTaskIsCorrelated
  SlotHeldWhileFollowed
PROPERTIES
  EvidenceBeforeSend
  SettledStaysSettled
  ShutdownDrainsSubmissions
CHECK_DEADLOCK FALSE
