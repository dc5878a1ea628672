SPECIFICATION ServerSpec
CONSTANTS
  t1 = t1  t2 = t2
  k1 = k1  k2 = k2  k3 = k3  k4 = k4
  v1 = v1  v2 = v2
  h1 = h1  h2 = h2  h3 = h3
  s1 = s1  s2 = s2
  None = None
  Threads = {t1, t2}
  Keys = {k1, k2, k3, k4}
  LongKeys = {k4}
  Values = {v1, v2}
  Hashes = {h1, h2, h3}
  HashOf <- HashOfKeys
  Positions = {0, 1, 2, 3}
  ENOMEM = 3
  Faults = {}
  MaxFaults = 0
  Ops = {"get", "put", "del"}
  Sets = {s1, s2}
  SetOf <- MCSetOf
  ElemPerSet = 2
  Offered <- OwnValues
SYMMETRY Symmetry
CONSTRAINT Bound
CHECK_DEADLOCK FALSE
INVARIANT ApartCacheCoherent
INVARIANT AnswersSound
PROPERTY ServerIsMap
