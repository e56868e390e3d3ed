SPECIFICATION FairSpec
CONSTANTS
  p1 = p1
  p2 = p2
  h1 = h1
  NoQuota = NoQuota
  NoFile = NoFile
  Torn = Torn
  Free = Free
  Overhead = 10
  Procs = {p1, p2}
  Handles = {h1}
  Requests <- OneRequest
  Serial = FALSE
  InitEnv = {"faulty"}
INVARIANTS CreateMutex
PROPERTIES CreateProceeds
