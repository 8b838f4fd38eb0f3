SPECIFICATION Spec
CONSTANTS
  ChildrenFirst = FALSE
  Tree <- DeepTree
  NamesOf <- FewNames
  NamesAreReused = TRUE
  RemoteOps = {"move"}
  LocalOps = {"write"}
  Alone = {}
  MaxOps = 2
  SyncIsQuick = FALSE
  MergedFirst = {"local", "remote"}
  MAX_SYNC_ATTEMPTS = 1
  MaxRetries = 2
CHECK_DEADLOCK FALSE
INVARIANT NoContentIsLost
