SPECIFICATION MCSpec
CONSTANTS
  MemThread = {t1, t2}
  NoThread = NoThread
  FreePages = 6
  UserPageLimit = 2
  PGSIZE = 32
  MinBlock = 8
  ArenaSize = 10
  SizeMax = 128
  Sizes = {0, 8, 40}
  PageCounts = {1, 2}
  MaxHeld = 2
  Programs <- MCPrograms
  KernelPoolSizes = {1, 2, 3, 4, 5, 6}
  UserPoolSizes = {1, 2, 7}
  MaxTasks = 2
  PageSize = 4
  TablePages = 2
  PHYS_BASE = 24
  WordSize = 32
  MaxElem = 5
  Keys = {0, 1, 2}
  MaxListOps = 1
  HashKeys = {0, 1, 2, 5}
  Ids = {0, 1}
  MIN_BUCKETS = 1
  BEST_ELEMS_PER_BUCKET = 1
  W = 4
  Items = {0, 1, 2, 3}
  MaxItems = 6
  TypeBits <- MCTypeBits
  Arguments <- MCArguments
  Widths <- MCWidths
  Precisions <- MCPrecisions
  FlagSets <- MCFlagSets
  BufSizes = {0, 1, 5}
  BufRoom = 64
  MemEnd = 5
  Chars = {0, 1, 2}
  NameWidth = 4
  SizeWidth = 3
  SumWidth = 4
  NameChars = {10, 11, 15}
  MaxSize = 20
  FileSizes = {0, 9, 20}
  LoopWidth = 8
  FirstLoops = 16
  RefineBits = 4
  COL_CNT = 4
  ROW_CNT = 2
  TabStop = 2
  MaxText = 7
  MaxKeys = 3
  SectorWord = 16
  DeviceSize = 6
  PartTypes = {"empty", "extended", "filesys", "scratch"}
  PartOffsets = {1, 2, 4, 13}
  PartSizes = {0, 2, 3, 14}
  TableLength = 2
  MaxFrames = 4
INVARIANT MemoryAccounted
INVARIANT ExitOrderly
INVARIANT EveryPageOwnedOnce
INVARIANT ImageFaithful
INVARIANT ContainersFaithful
INVARIANT NumbersExact
INVARIANT TextFaithful
INVARIANT BlocksResolved
