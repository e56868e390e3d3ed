SPECIFICATION Spec
CONSTANTS
  p1 = p1
  p2 = p2
  base = base
  mid = mid
  top = top
  NoFile = NoFile
  Torn = Torn
  Procs = {p1, p2}
  Layers <- SharedLayers
  Images <- SharedImages
  Tar <- SharedTar
  InitEnv = {"faulty"}
SYMMETRY Symmetry
INVARIANTS ImageSizeExact
PROPERTIES SettledStable LayersClaimed
