CONSTANTS
  BUFF_SIZE = 2
  Threads = {t1, t2}
  CPUs = {c1, c2}
  Scancodes = {30, 158}
  MaxCnt = 3
  MaxRead = 2
  EarlyOpen = FALSE
  IRQ = IRQ
  Free = Free
  NoCpu = NoCpu
SPECIFICATION FairSpec
INVARIANTS
  TypeOK
  MutualExclusion
  NoSelfDeadlock
  IndicesAgree
PROPERTIES
  CallsReturn
  KeysKept
