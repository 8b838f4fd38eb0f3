SPECIFICATION Spec
CONSTANTS
  ChildrenFirst = FALSE
  Tree <- DeepTree
  NamesOf <- FewNames
  NamesAreReused = FALSE
  RemoteOps = {"move"}
  LocalOps = {}
  Alone = {}
  MaxOps = 3
  SyncIsQuick = TRUE
  MergedFirst = {}
  MAX_SYNC_ATTEMPTS = 1
  MaxRetries = 2
CHECK_DEADLOCK FALSE
INVARIANT Pulled
INVARIANT ConvergedUnlessGivenUp
INVARIANT RecordsDiffer
