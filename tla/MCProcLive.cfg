CONSTANTS
  t0 = t0
  t1 = t1
  t2 = t2
  t3 = t3
  dev = dev
  NULL = NULL
  kt_runq = kt_runq
  idle = t0
  Thread <- Four
  p_wait <- P_wait4
  WaitQ <- WaitQ4
  DevQ <- NoDev
  CleanupQ <- NoDev
  Status <- Statuses
  PROC_MAX_COUNT = 5
SPECIFICATION LiveSpec
INVARIANT WaitsForTheLiving
PROPERTIES
  WaitpidReturns
CHECK_DEADLOCK FALSE
