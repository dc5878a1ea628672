SPECIFICATION MCSpec
CONSTANTS
  Threads = {t1, t2}
  Messages = {m1, m2}
  NoMessage = NoMessage
  Torn = Torn
  MaxId = 3
  MaxCrashes = 2
  Ids = {10, 20, 30}
  Hashes = {5, 10, 15, 30, 35}
  Capacity = 2
  Redundancy = 2
  Walkers = {w1, w2}
  None = None
SYMMETRY Symmetry
 
 
INVARIANT Sorted
INVARIANT PrimaryIsOwner
INVARIANT ReplicasDiffer
PROPERTY EntriesImmutable
