CONSTANTS
  Other = Other
  Free = Free
  NULL = NULL
  Sockets = {s1, s2, s3, s4}
  Ancestors <- LoadedByInit
  MaxObjects = 4
  MaxLoaded = 2
  W = 3
  Expiry = 1
SPECIFICATION AllSpec
INVARIANTS
  CdevOwned
  ExitClean
  LiveHolds
  HeapOwned
  Accounted
  SocketsOwned
  NoLateCallback
PROPERTY TimerLives
