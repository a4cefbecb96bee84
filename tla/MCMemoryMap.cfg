CONSTANTS
  Threads = {t1, t2}
  Kthreads = {k}
  Files = {f1, f2}
  NPAGES = 2
  NumFrames = 4
  NumRegions = 3
  MaxPages = 3
  RemoveInUse = FALSE
  None = None
SPECIFICATION Spec
SYMMETRY Symmetry
INVARIANTS
  MapsTheArea
  SumExact
  NoLeakedMm
