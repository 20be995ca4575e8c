\* Two processes in a tree with one file and one directory.
CONSTANTS
  Procs = {p1, p2}
  NINODES = 4
  NINODE = 4
  NBLOCKS = 5
  NDIRECT = 1
  NINDIRECT = 1
  Files <- InRoot
  Dirs <- SubDir
  Calls <- TreeCalls
  MaxCalls = 3
SPECIFICATION Spec
SYMMETRY Symmetry
INVARIANTS
  LinkExact
  BlocksOwned
  WrittenBack
  NoFsPanic
  NoCircularWait
