\* Three calls of two procs, a crash at any step.
CONSTANTS
  Procs = {p1, p2}
  Blocks = {1, 2, 3}
  Vals = {0, 1}
  LOGSIZE = 4
  LogBlocks = 4
  MAXOPBLOCKS = 2
  NBUF = 4
  OpBlocks = 1
  RacyLogWrite = FALSE
  MaxOps = 3
  MaxCrashes = 1
SPECIFICATION FairSpec
  
PROPERTIES  BeginReturns
CHECK_DEADLOCK FALSE
