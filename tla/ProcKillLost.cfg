SPECIFICATION Spec
CONSTANTS
  k0 = k0
  d1 = d1
  d2 = d2
  d3 = d3
  d4 = d4
  N_PCBS = 3
  STD_QUANTUM = 1
  TIME_MOD = 8
  BUF_SIZE = 1
  VIDEO = FALSE
  WaitQueues = {}
  Dirs = {k0, d1, d2, d3}
  KernelDir = k0
  InitDir = d1
  SleepArgs = {1}
  PrioArgs = {3}
  TimeArgs = {}
  KillArgs = {2}
  InputPids = {1, 2, 3, 4}
  MaxPid = 3
  MaxTime = 4
SYMMETRY MCSymmetry
PROPERTIES KillIsFinal
