\* One thread waits, the process signals without the mutex.
CONSTANTS
  t1 = t1
  Threads = {t1}
  Main = main
  NMUTX = 1
  NCONDVAR = 1
  MAXTHRDS = 2
  MutexOf <- OneMutex
  BareSignallers = {main}
  Killable <- NoProc
SPECIFICATION Spec
CHECK_DEADLOCK FALSE
INVARIANTS
  SleeperRegistered
