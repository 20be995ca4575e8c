SPECIFICATION Spec
CONSTANTS
  Procs <- MCProcs
  First = 1
  NPAGES = 13
  NPTENTRIES = 2
  KERNBASE = 5
  Text = 1
  ThreadOps = {}
  MaxCalls = 4
INVARIANTS
  PagesAccounted
  
PROPERTY ImageKept
CHECK_DEADLOCK FALSE
