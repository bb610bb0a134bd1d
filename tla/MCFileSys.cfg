SPECIFICATION Spec
CONSTANTS
  NProc = 2
  NInode = 3
  NBlock = 3
  NFILE = 2
  NOFILE = 2
  NINODE = 3
  Names = {"a", "b"}
  Calls <- MCCalls
  MaxCalls = 5
INVARIANTS  NamesHold BlocksOwned NothingLeft
