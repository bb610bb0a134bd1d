SPECIFICATION Spec
CONSTANTS
  Proc = {w1, w2, r1, r2}
  NoProc = NoProc
  Writers = {w1, w2}
  Readers = {r1, r2}
  Byte = {a, b}
  PIPESIZE = 2
  WORD = 4
  MaxCount = 2
SYMMETRY MCSymmetry
INVARIANTS NobodyForgotten FreedUnused
PROPERTIES PipeIsFifo ZeroIsEof
CHECK_DEADLOCK FALSE
