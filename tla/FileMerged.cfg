SPECIFICATION Spec
CONSTANTS
  Users <- BothSides
  Pace = "merged"
  Faults = {"crash", "other"}
  MaxFaults = 1
  MAX_SYNC_ATTEMPTS = 1
  MaxOps = 3
  MaxRetries = 2
  MaxFound = 2
PROPERTIES
  NothingIsLost
\* Users stop at the bounds, and may stop before: Sync then has nothing to do.
CHECK_DEADLOCK FALSE
