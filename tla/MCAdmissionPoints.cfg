SPECIFICATION Spec
CONSTANTS
  NoKey = NoKey
  NoQuote = NoQuote
  NoAccount = NoAccount
  k1 = k1
  Request = {r1, r2}
  Account = {a1}
  Project = {"project"}
  Ask <- KeylessOrKeyed
  ProjectOf <- OneProject
  ApiId <- OneModel
  Priority <- OnePriority
  DaysInMonth = 2
  Room = 0
  AccountLimits <- DayOrMonth
  Plans <- TightPlans
  SlotLimits = {2}
  LastDay = 1
  MaxRestarts = 1
CHECK_DEADLOCK FALSE
SYMMETRY Interchangeable
INVARIANTS
  TypeOK
  OneJobPerKey
  AnswerFitsRequest
  LedgerFollowsEntry
PROPERTIES
  BudgetNeverOverrun
