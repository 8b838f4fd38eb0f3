SPECIFICATION FairSpec
CONSTANTS
  ChildrenFirst = FALSE
  Tree <- DeepTree
  NamesOf <- FewNames
  NamesAreReused = TRUE
  RemoteOps = {"move", "trash", "restore", "destroy", "write", "create"}
  LocalOps = {"move", "overwrite", "delete", "discard", "write", "create"}
  Alone = {"move", "overwrite", "restore", "discard"}
  MaxOps = 2
  SyncIsQuick = FALSE
  MergedFirst = {"local", "remote"}
  MAX_SYNC_ATTEMPTS = 1
  MaxRetries = 2
CHECK_DEADLOCK FALSE
INVARIANT NoContentIsLost
INVARIANT TreesAreEqual
PROPERTY TrashesWhatIsGone
PROPERTY GivesUpWhatIsGone
PROPERTY SyncSettles
