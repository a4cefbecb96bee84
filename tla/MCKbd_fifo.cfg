CONSTANTS
  BUFF_SIZE = 2
  Threads = {t1, t2}
  CPUs = {c1, c2}
  Scancodes <- Keys3
  MaxCnt = 3
  MaxRead = 1
  EarlyOpen = FALSE
  IRQ = IRQ
  Free = Free
  NoCpu = NoCpu
SPECIFICATION Spec
SYMMETRY Symmetry
INVARIANT FifoOrder
