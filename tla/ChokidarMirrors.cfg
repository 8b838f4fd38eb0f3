CONSTANTS
  ChildrenFirst = FALSE
  NamesAreLong = TRUE
  Disk <- MCDisk
  Paths <- MCPaths
  DirNames = {1, 2}
  UserOps = {"create", "write", "delete", "move", "overwrite"}
  Alone = {"overwrite"}
  ReusePaths = FALSE
  ReplacesAtOnce = TRUE
  DuringScan = FALSE
  FlushesWhenQuiet = TRUE
  StartsAfterFlush = TRUE
  SyncWaits = TRUE
  NB_OF_DELETABLE_ELEMENT = 2
  MaxOps = 2
  MaxOffline = 2
  MaxFlushes = 1
  MaxStops = 1
  MaxCrashes = 1
SPECIFICATION FairSpec
CHECK_DEADLOCK FALSE
INVARIANT EndsOnlyWhenEmpty
INVARIANT AllIsRecorded
INVARIANT NothingLingers
PROPERTY DeletesOnlyWhatIsGone
PROPERTY KeepsIdentity
PROPERTY EmptyTrashesNothing
PROPERTY StartSettles
PROPERTY ComesToRest
