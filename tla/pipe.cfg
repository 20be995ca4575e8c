\* Two writers and a reader that may be killed, on a ring of two bytes.
CONSTANTS
  Writers = {w1, w2}
  Readers = {r1}
  PIPESIZE = 2
  UintMod = 4
  Bytes = {0, 1}
  Lens = {1, 3}
  MaxCalls <- Calls
  Killable = {r1}
SPECIFICATION FairSpec
INVARIANTS SleeperHasReason 
PROPERTIES ImplementsPipe CallReturns
CHECK_DEADLOCK FALSE
