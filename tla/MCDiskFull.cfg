SPECIFICATION Spec
CONSTANTS
  Inodes = {1, 2}
  BSIZE = 2
  NDIRECT = 1
  NINDIRECT = 2
  usedblocks = 2
  nblocks = 6
  nlog = 2
  Lengths = {1, 3}
  MaxAppends = 2
  MaxOps = 4
INVARIANT InDataArea
CHECK_DEADLOCK FALSE
