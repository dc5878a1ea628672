SPECIFICATION Spec
CONSTANTS
  Ids = {10, 20, 30}
  Hashes = {15}
  Capacity = 3
  Redundancy = 2
  Walkers = {}
  None = None
INVARIANT Sorted
