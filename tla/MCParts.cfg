CONSTANTS
  NPage = 4
  Manager = {"default", "best_fit"}
  KeepTop = TRUE
  NPages = 8
  FirstFree = 1
  MAX_ORDER = 2
  SlabPage = {g1, g2, g3}
  NoPage = NoPage
  objects_per_slab = 2
  SLUB_CPU_BATCH = 1
  SLUB_CPU_LIMIT = 2
  BigPages = 2
  Slot = {i, s1, s2, s3}
  initproc = i
  NoSlot = NoSlot
  MAX_PID = 6
  Task = {t1, t2, t3}
  NoTask = NoTask
  Word = 8
  BIG_STRIDE = 2
  Priority = {1, 2}
  Proc = {a, b, c}
  user_main = a
  NFrame = 26
  Kept = {0, 9, 10, 12, 16, 17, 18, 19, 22, 24, 26}
  MaxForks = 2
  Touched = {0, 5, 14}
  NoVal = NoVal
  N = 4
  TIMES = 1
  MaxSlice = 1
SPECIFICATION PartsSpec
CHECK_DEADLOCK FALSE
INVARIANT FreeListExact
INVARIANT FailsOnlyIfFull
INVARIANT BuddyBlocks
INVARIANT ObjectsExact
INVARIANT NothingStranded
INVARIANT PidsUnique
INVARIANT LinksAgree
INVARIANT HeapExact
INVARIANT SpreadBounded
INVARIANT FramesExact
 
INVARIANT NeighboursApart
INVARIANT ForksServed
INVARIANT NobodyStuck
PROPERTY IsPrivate
PROPERTY CallsReturn
