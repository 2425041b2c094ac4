SPECIFICATION FairSpec
CONSTANTS
  k0 = k0
  d1 = d1
  d2 = d2
  d3 = d3
  d4 = d4
  N_PCBS = 4
  STD_QUANTUM = 0
  TIME_MOD = 3
  BUF_SIZE = 0
  VIDEO = TRUE
  WaitQueues = {}
  Dirs = {k0, d1, d2, d3}
  KernelDir = k0
  InitDir = d1
  SleepArgs = {1, 2}
  PrioArgs = {3}
  TimeArgs = {}
  KillArgs = {}
  InputPids = {1, 2, 3, 4}
  MaxPid = 5
  MaxTime = 3
INVARIANTS NeverLate DirectoriesOwned
PROPERTIES NeverEarly SleeperWakes HighPriorityRuns
