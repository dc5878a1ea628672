SPECIFICATION Spec
CONSTANTS
  Thread = {main, idle, t1, t2, t3}
  main = main
  idle = idle
  Null = Null
  TIME_SLICE = 2
  Semas = {s}
  Locks = {tid_lock, l}
  tid_lock = tid_lock
  l = l
  c = c
  Conds = {c}
  LockOf <- MCLockOf
  MaxValue = 2
  MaxTid = 5
  MaxSleep = 1
CONSTRAINT Bound
SYMMETRY Symmetry
INVARIANT NoLostWakeup
INVARIANT LockExclusive
INVARIANT NoLostSignal
INVARIANT ThreadsAccounted
