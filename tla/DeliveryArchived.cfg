SPECIFICATION DeliverySpec
CONSTANTS
  Video = {v1}
  Asset = {f1, f2, f3}
  Provider = Provider
  OtherJobs = TRUE
  MaxPosts = 2
  MaxCrashes = 1
CHECK_DEADLOCK FALSE
INVARIANT ArchivedOutputExists
