SPECIFICATION FairSpec
CONSTANTS
  Client = {sync, remoteWatcher, localWatcher}
  MaxRequests = 6
INVARIANTS
  TypeOK
  MutualExclusion
  GrantedInOrder
PROPERTIES
  ImplementsFifoMutex
CHECK_DEADLOCK FALSE
