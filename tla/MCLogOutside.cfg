\* p2 exits while p1 uses the file system.
CONSTANTS
  p1 = p1
  p2 = p2
  s1 = s1
  s2 = s2
  s3 = s3
  Proc = {p1, p2}
  NoProc = NoProc
  initproc = p1
  Sector = {s1, s2, s3}
  NoSector = NoSector
  a = a
  b = b
  Val = {a, b}
  LOGSIZE = 3
  nlog = 3

  Exiting = {p2}
SPECIFICATION OutsideSpec

PROPERTY WriteAhead
