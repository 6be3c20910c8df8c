SPECIFICATION Spec
CONSTANTS
  NoKey = NoKey
  NoQuote = NoQuote
  NoAccount = NoAccount
  k1 = k1
  Request = {r1}
  Account = {a1}
  Project = {"project"}
  Ask <- Keyless
  ProjectOf <- OneProject
  ApiId <- OneModel
  Priority <- OnePriority
  DaysInMonth = 2
  Room = 1
  AccountLimits <- NoLimits
  Plans <- FreePlan
  SlotLimits = {1}
  LastDay = 0
  MaxRestarts = 1
CHECK_DEADLOCK FALSE
INVARIANTS
  UsageIsWhatWasCharged
