CONSTANTS
  Sectors = 8
  SectorSize = 5
  DirEntries = 2
  ScratchSectors = 5
  Names = {n1, n2}
  FileSizes = {0, 3, 7}
  WriteSizes = {4}
  Files = {f1, f2}
  MaxFaults = 1
  MaxListings = 1
  Modes = {"handles", "faults", "archive"}
  MaxCreates <- MCMaxCreates
  MaxCrashes <- MCMaxCrashes
SPECIFICATION MCSpec
SYMMETRY Symmetric
INVARIANT CrashSafe
INVARIANT SectorsAccounted
 
PROPERTY ChangesAreLegal
