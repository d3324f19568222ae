CONSTANTS
  t0 = t0
  t1 = t1
  t2 = t2
  m1 = m1
  q1 = q1
  dev = dev
  NULL = NULL
  kt_runq = kt_runq
  idle = t0
  Thread <- MCThread
  DevQ <- MCDevQ
  WaitQ <- OneMutexQ
  Mutex <- OneMutex
SPECIFICATION KmutexSpec
INVARIANTS
  
  
  
  SizeIsLength
  FreeHasNoWaiters
  HoldsWhatItLocked
  HolderIsOnItsWay
  WaiterIsQueued
PROPERTIES
  WokenInOrder
  
CONSTRAINT DriftBound
