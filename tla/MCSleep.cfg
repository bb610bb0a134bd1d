SPECIFICATION FairSpec
CONSTANTS
  Proc = {w1, w2, r1}
  NoProc = NoProc
  Writers = {w1, w2}
  Readers = {r1}
  Byte = {a}
  PIPESIZE = 1
  WORD = 2
  MaxCount = 2
  CacheProc = {p1, p2}
  Sector = {s1, s2, s3}
  NoSector = NoSector
  Val = {v1}
  NBUF = 2
  MaxPin = 1
PROPERTIES CloseEndsCalls RequestAnswered
CHECK_DEADLOCK FALSE
