CONSTANTS
  Threads = {t1, t2}
  Timer = Timer
  Rmmod = Rmmod
  Tasks = {k1, k2}
  Nodes = {n1, n2}
  LateReap = FALSE
  Free = Free
  HEAD = HEAD
  Nil = Nil
SPECIFICATION Spec
SYMMETRY Symmetry
INVARIANTS
  TypeOK
  OwnedOnce
  RefsBalanced
  SweepComplete
  CleanUnload
PROPERTY
  StaysMonitored
