\* Two processes, three sectors, room for two log blocks.
SPECIFICATION FairSpec
CONSTANTS
  Proc = {p1, p2}
  NoProc = NoProc
  initproc = p1
  Sector = {s1, s2, s3}
  NoSector = NoSector
  Val = {a, b}
  LOGSIZE = 3
  nlog = 3
INVARIANTS LogInv
PROPERTIES WriteAhead AtomicCommit CommittedInstalled
