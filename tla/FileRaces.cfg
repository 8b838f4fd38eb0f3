SPECIFICATION Spec
CONSTANTS
  Users <- BothSides
  Pace = "any"
  Faults = {"crash"}
  MaxFaults = 1
  MAX_SYNC_ATTEMPTS = 1
  MaxOps = 3
  MaxRetries = 1
  MaxFound = 2
INVARIANTS
  TypeOK
  SidesFollowTarget
  RecordTellsContent
  MergesAreValid
  SkipsOnlyWhatIsThere
  PreviousIsKnown
\* Users stop at the bounds, and may stop before: Sync then has nothing to do.
CHECK_DEADLOCK FALSE
