CONSTANTS
  MSG_MAX = 3
  MESSAGE <- Text1
  a = a
  NUL = NUL
  Bytes = {a, NUL}
  Threads = {t1, t2}
  Files = {f1, f2}
  MaxSize = 3
  NoFile = NoFile
SPECIFICATION Spec
SYMMETRY Symmetry
INVARIANTS
  TypeOK
  NoOverrun
  SingleFile
  NoStaleTail
  PositionInside
