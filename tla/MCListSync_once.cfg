CONSTANTS
  Clients = {c1, c2}
  Sync = Sync
  Pids = {i1, i2}
  Nodes = {n1, n2}
  Neighbours = 1
  W = 2
  Expiry = 0
  MinCount = 1
  MaxCount = 1
  KmallocMayFail = FALSE
  Free = Free
  HEAD = HEAD
  Nil = Nil
SPECIFICATION Spec
INVARIANT ListedOnce
