SPECIFICATION Spec
CONSTANTS
  Proc = {p1, p2}
  NoProc = NoProc
  Sector = {s1, s2, s3, s4}
  NoSector = NoSector
  Val = {v1, v2}
  NBUF = 3
  MaxPin = 1
SYMMETRY MCSymmetry
INVARIANTS OneOwner WaitsForSomething 
PROPERTIES Transparent
