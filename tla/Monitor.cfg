SPECIFICATION FairSpec
CONSTANTS
  Threads = {t1, t2}
  Flags = {f1, f2}
  NoThread = NoThread
  MaxDepth = 1
INVARIANTS MutexHeld NoLostWakeup
PROPERTIES FlagWaitReturns
CHECK_DEADLOCK FALSE
