SPECIFICATION IPCSpec
CONSTANTS
  k0 = k0
  d1 = d1
  d2 = d2
  d3 = d3
  N_PCBS = 3
  STD_QUANTUM = 0
  TIME_MOD = 1
  BUF_SIZE = 0
  VIDEO = FALSE
  WaitQueues <- MCWaitQueues
  Dirs = {k0, d1, d2, d3}
  KernelDir = k0
  InitDir = d1
  SleepArgs = {}
  PrioArgs = {}
  TimeArgs = {}
  KillArgs = {}
  InputPids = {}
  MaxPid = 4
  MaxTime = 1
  MAX_SEMAPHORES = 2
  MaxSems = 3
  MaxValue = 1
  Addressees = {2, 3}
  MaxMessages = 3
INVARIANTS SlotsSound TokensSound MailInOrder ReceiverServed
PROPERTIES PostedWaiterReleased
