CONSTANTS
  t0 = t0
  t1 = t1
  t2 = t2
  t3 = t3
  dev = dev
  NULL = NULL
  kt_runq = kt_runq
  idle = t0
  Thread <- Four
  p_wait <- P_wait4
  WaitQ <- WaitQ4Disk
  DevQ <- Disk
  CleanupQ <- Disk
  Status <- Statuses
  PROC_MAX_COUNT = 5
SPECIFICATION KillSpec
INVARIANTS
  TreeIsSound
  PidsAreUnique
  DeadStaysOff
CONSTRAINT DriftBound
SYMMETRY Slots
CHECK_DEADLOCK FALSE
