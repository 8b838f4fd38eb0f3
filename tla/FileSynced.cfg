SPECIFICATION Spec
CONSTANTS
  Users <- BothSides
  Pace = "synced"
  Faults = {"crash", "offline"}
  MaxFaults = 2
  MAX_SYNC_ATTEMPTS = 1
  MaxOps = 3
  MaxRetries = 2
  MaxFound = 2
INVARIANTS
  Converged
\* Users stop at the bounds, and may stop before: Sync then has nothing to do.
CHECK_DEADLOCK FALSE
