SPECIFICATION Spec
CONSTANTS
  t1 = t1  t2 = t2
  k1 = k1  k2 = k2  k3 = k3  k4 = k4
  v1 = v1  v2 = v2
  h1 = h1  h2 = h2
  None = None
  Threads = {t1, t2}
  Keys = {k1, k2, k3, k4}
  LongKeys = {k4}
  Values = {v1}
  Hashes = {h1, h2}
  HashOf <- MCHashOf
  Positions = {0, 1, 2, 3}
  ENOMEM = 3
  Faults = {"crash", "open", "write"}
  MaxFaults = 1
  Ops = {"get", "put", "del", "clean", "init"}
SYMMETRY Symmetry
INVARIANT ChainsSound
 
PROPERTY IsMap
