CONSTANTS
  ChildrenFirst = FALSE
  NamesAreLong = TRUE
  Disk <- MCDisk
  Paths <- MCPaths
  DirNames = {1, 2}
  UserOps = {"create", "delete"}
  Alone = {}
  ReusePaths = TRUE
  ReplacesAtOnce = FALSE
  DuringScan = FALSE
  FlushesWhenQuiet = TRUE
  StartsAfterFlush = TRUE
  SyncWaits = TRUE
  NB_OF_DELETABLE_ELEMENT = 2
  MaxOps = 2
  MaxOffline = 0
  MaxFlushes = 1
  MaxStops = 0
  MaxCrashes = 0
SPECIFICATION Spec
INVARIANT ReplacedIsKept
CHECK_DEADLOCK FALSE
