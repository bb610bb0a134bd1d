SPECIFICATION Spec
CONSTANTS
  NPROC = 3
  CPU = {c0, c1}
  NoCPU = NoCPU
  cpu0 = c0
  MaxPid = 3
  KillPid = {2}
  Priority = {5}
  MaxSleep = 1
INVARIANTS ProcInv StackExclusive NoLostWakeup
