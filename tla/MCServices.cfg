SPECIFICATION ServicesLiveSpec
CONSTANTS
  Account = {a1}
  Operator = {o1}
  Login = {l1, l2}
  Boot = Boot
  Checker = Checker
  MaxTail = 1
  MaxWire = 1
  Unborn = Unborn
  Removed = Removed
  NoRuntime = NoRuntime
  Signer = {s1, s2}
  Subscriber = {b1}
  NoSigner = NoSigner
  LastDay = 2
  Video = {v1}
  Asset = {f1, f2, f3}
  Provider = Provider
  OtherJobs = TRUE
  MaxPosts = 2
  MaxCrashes = 1
  Client = {c1, c2}
  MaxInputs = 2
  MaxTemp = 2
  MaxRequest = 1
  MaxSize = 1
  Size = 4
  Worker = {w1, w2, w3}
  MaxParts = 3
  User = {u1}
  u1 = u1
  Project = {p1}
  p1 = p1
  Plan = {free, other}
  Key = {k1}
  LegacyPlan = free
  Caller = {r1}
  Console = {q1}
  OwnerOf <- OneUser
  ProjectOfKey <- OneProject
  Handler = {h1, h2}
  Order = {j1}
  Elsewhere = {t1}
  Gateway = {g1, g2}
  Nobody = Nobody
  MaxFaults = 2
CHECK_DEADLOCK FALSE
CONSTRAINT Bounded
INVARIANTS
  ServicesTypeOK
  
  RuntimeFollowsRow
  OneManagerPerAccount
  CompletedOncePerDay
  SignedWasPosted
  TempSpaceAccounted
  UploadIsWhole
  JobsOfActiveOwners
  NobodySleepsThrough
  PaidOnce
  
  PointsFollowStatus

  
  
