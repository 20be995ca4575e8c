\* Two threads and one mutex, with fairness.
CONSTANTS
  t1 = t1
  t2 = t2
  Threads = {t1, t2}
  Main = main
  NMUTX = 1
  NCONDVAR = 0
  MAXTHRDS = 2
  MutexOf <- OwnMutex
  BareSignallers <- NoProc
  Killable <- NoProc
SPECIFICATION LiveSpec
CHECK_DEADLOCK FALSE
PROPERTIES
  LockReturns
