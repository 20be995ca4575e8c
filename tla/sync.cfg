\* Three threads, two condition variables of two slots that share a mutex, signals under it; one thread may be killed.
CONSTANTS
  t1 = t1
  t2 = t2
  t3 = t3
  Threads = {t1, t2, t3}
  Main = main
  NMUTX = 1
  NCONDVAR = 2
  MAXTHRDS = 2
  MutexOf <- OneMutex
  BareSignallers <- NoProc
  Killable = {t3}
SPECIFICATION Spec
SYMMETRY Symmetry
CHECK_DEADLOCK FALSE
INVARIANTS
  MutualExclusion
  
  SleeperRegistered
  NoSleeperPassed
  SignalNotAbsorbed
PROPERTIES
  SlotTakenOnce
  ImplementsMonitor
