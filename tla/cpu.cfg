SPECIFICATION Spec
CONSTANTS
  NCPU = 2
  NPROC = 2
  INPUT_BUF = 2
  UintMod = 4
  Keys = {"a", "^D", "^H", "^U", "^P"}
  Calls <- MCCalls
  Start = 3
  MaxCalls <- OneEach
  MaxIrqs = 3
INVARIANTS
  CliExact
  NoSpinDeadlock
  RunningOnce
  SleeperAwake
  InputIntact
CHECK_DEADLOCK FALSE
