SPECIFICATION LockSpec
CONSTANTS
  k0 = k0
  d1 = d1
  d2 = d2
  d3 = d3
  d4 = d4
  N_PCBS = 4
  STD_QUANTUM = 0
  TIME_MOD = 1
  BUF_SIZE = 0
  VIDEO = FALSE
  WaitQueues <- MCWaitQueues
  Dirs = {k0, d1, d2, d3, d4}
  KernelDir = k0
  InitDir = d1
  SleepArgs = {}
  PrioArgs = {}
  TimeArgs = {}
  KillArgs = {}
  InputPids = {}
  MaxPid = 5
  MaxTime = 1
  Readers = {2, 3}
  Writers = {4}
  MaxLocks = 1
SYMMETRY MCSymmetry
INVARIANTS Exclusion
