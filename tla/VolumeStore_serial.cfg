SPECIFICATION FairSpec
CONSTANTS
  p1 = p1
  p2 = p2
  h1 = h1
  NoQuota = NoQuota
  NoFile = NoFile
  Torn = Torn
  Free = Free
  Overhead = 10
  Procs = {p1, p2}
  Handles = {h1}
  Requests <- LimitRequests
  Serial = TRUE
  InitEnv = {"faulty"}
INVARIANTS TypeOK BundleUsable DeleteComplete
PROPERTIES CreatedVolumeUntouched BundlePromise DeleteRecovers
