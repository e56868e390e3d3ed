SPECIFICATION FairSpec
CONSTANTS
  p1 = p1
  p2 = p2
  base = base
  mid = mid
  top = top
  NoFile = NoFile
  Torn = Torn
  Procs = {p1}
  Layers <- ChainLayers
  Images <- ChainImages
  Tar <- ChainTar
  InitEnv = {"faulty", "healthy"}
INVARIANTS TypeOK PrivilegedWriter ParentsInstalled SizedBaseHasFiles
PROPERTIES PullRecovers
