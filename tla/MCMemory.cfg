SPECIFICATION Spec
CONSTANTS
  NPROC = 2
  NPage = 15
  PGSIZE = 2
  NPTENTRIES = 3
  NPDENTRIES = 6
  Programs <- MCPrograms
  Deltas <- MCDeltas
  MaxCalls = 4
INVARIANTS PageAccounting NothingBeyondSize
PROPERTIES Isolation ChildIsCopy
CHECK_DEADLOCK FALSE
