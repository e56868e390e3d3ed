SPECIFICATION FairSpec
CONSTANTS
  p1 = p1
  h1 = h1
  base = base
  top = top
  NoQuota = NoQuota
  NoFile = NoFile
  Torn = Torn
  Free = Free
  Overhead = 10
  Procs = {p1}
  Store = "root"
  Handles = {h1}
  Layers <- TwoLayers
  Images <- OneImage
  Tar <- TwoTars
  Quotas <- SomeQuotas
  Serial = TRUE
  InitEnv = {"faulty"}
INVARIANTS CreatedExactly
PROPERTIES HalvesFollow ParentsImmutable CreateCompletes
