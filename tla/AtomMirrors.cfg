CONSTANTS
  Ignored = {4, 5}
  Paths <- MCPaths
  DirNames = {1, 2}
  Kept <- MCKept
  Disks <- MCDisks
  UserOps = {"file", "dir", "write", "delete", "move"}
  ReusePaths = FALSE
  DuringScan = FALSE
  KeepUp = TRUE
  ReuseInodes = TRUE
  MaxOps = 3
  MaxOffline = 2
  MaxBurst = 2
SPECIFICATION FairSpec
INVARIANT Mirrored
PROPERTY TrashesOnlyWhatIsGone
PROPERTY StartEnds
PROPERTY Settles
CHECK_DEADLOCK FALSE
