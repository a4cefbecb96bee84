CONSTANTS
  Threads = {t1}
  Timer = Timer
  Rmmod = Rmmod
  Tasks = {k1}
  Nodes = {n1}
  LateReap = FALSE
  Free = Free
  HEAD = HEAD
  Nil = Nil
SPECIFICATION Spec
INVARIANT WalkIsExclusive
