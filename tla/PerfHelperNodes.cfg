SPECIFICATION Spec
CONSTANTS
  Threads = {t1, t2}
  NoOwner = NoOwner
  LogSize = 3
  BufSize = 2
  MaxWrites = 2
  MaxTriggers = 1
INVARIANTS
  AlwaysTerminated
  LockedShowIsOneText
  CountLosesOnlyToTriggers
