\* init, processes and their threads; only a process creates and joins its threads.
CONSTANTS
  NPROC = 4
  MaxPid = 5
  UintMod = 8
  Nested = FALSE
  SiblingJoin = FALSE
  MayKill = TRUE
  WaitAny = FALSE
SPECIFICATION LiveSpec
CHECK_DEADLOCK FALSE
INVARIANTS
  TcountExact
  ParentOutlivesThreads
  PgdirAlive
PROPERTIES
  ExitCompletes
  OrphanFreed
