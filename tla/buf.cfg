\* Two procs, three sectors and two buffers: recycling, contention, one pinned buffer.
CONSTANTS
  Procs = {p1, p2}
  Sectors = {1, 2, 3}
  Vals = {0, 1}
  NBUF = 2
  MaxPinned = 1
  MaxCalls <- Calls
  p1 = p1
  p2 = p2
  NoSector = 0
SPECIFICATION FairSpec
PROPERTIES ImplementsBlockStore BreadReturns
CHECK_DEADLOCK FALSE
