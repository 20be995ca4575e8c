\* The first process and another, two open files, two descriptors each.
CONSTANTS
  Procs = {p1, p2}
  First = p1
  NOFILE = 2
  NFILE = 2
  Inodes = {i1, i2}
  Root = i1
  ThreadOps = {}
  MaxCalls = 6
SPECIFICATION Spec
SYMMETRY Symmetry
CHECK_DEADLOCK FALSE
INVARIANTS
  RefExact
  NoFilePanic

  
