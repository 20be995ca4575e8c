\* Threads also create and join threads, and processes with threads call wait().
CONSTANTS
  NPROC = 5
  MaxPid = 6
  UintMod = 8
  Nested = TRUE
  SiblingJoin = TRUE
  MayKill = FALSE
  WaitAny = TRUE
SPECIFICATION Spec
CHECK_DEADLOCK FALSE
INVARIANTS
  PidsUnique
PROPERTIES
  OnlyZombiesFreed
