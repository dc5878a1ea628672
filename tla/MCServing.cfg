SPECIFICATION MCSpec
CONSTANTS
  Acceptor = acc
  Pushers = {acc}
  Poppers = {w1, w2}
  Items = {c1, c2, c3}
  None = None
  MaxFds = 2
  Keys = {k1, k2, k3, k4}
  Values = {v1, v2}
  ElemPerSet = 3
  NoValue = NoValue
CHECK_DEADLOCK FALSE
INVARIANT ExactlyOnceInOrder
INVARIANT ClientsAccounted
INVARIANT NoDuplicates
INVARIANT EvictsBySecondChance
 
PROPERTY PutTerminates
