CONSTANTS
  Thread = {main, idle, t1}
  main = main
  idle = idle
  Null = Null
  TIME_SLICE = 2
  Semas = {s}
  Locks = {tid_lock, l}
  tid_lock = tid_lock
  l = l
  Conds = {c1}
  LockOf <- MCLockOf
  MaxValue = 1
  MaxTid = 5
  MaxSleep = 2
  Writer = {w1, w2}
  Reader = {r1}
  Nobody = Nobody
  INTQ_BUFSIZE = 3
  MaxBytes = 3
  MaxNest = 2
  PanicBytes = 2
  MaxInput = 3
  Codes <- MCCodes
  IdeThread = {main, t1}
  Free = Free
  IdeSectors = {0}
  Values = {1}
  Blank = 0
  MaxStray = 1
  MaxAbort = 1
  MaxRequests = 3
SPECIFICATION MCSpec
CHECK_DEADLOCK FALSE
INVARIANT BytesInOrder
 
PROPERTY ReadyThreadRuns
PROPERTY SleepsAsAsked
PROPERTY BytesMove
 
