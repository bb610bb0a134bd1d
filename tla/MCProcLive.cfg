SPECIFICATION FairSpec
CONSTANTS
  NPROC = 3
  CPU = {c0}
  NoCPU = NoCPU
  cpu0 = c0
  MaxPid = 3
  KillPid = {2}
  Priority = {}
  MaxSleep = 1
PROPERTIES SleepReturns KilledExits OrphanReaped RunnableRuns
