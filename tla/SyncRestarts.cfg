SPECIFICATION Spec
CONSTANTS
  Start = {s1, s2}
  Handler = {h1}
  Code = {unreachable, conflict}
  Users = TRUE
  Unreachable = unreachable
  Timer = timer
  OneShot = oneShot
  NoFeed = noFeed
  MaxBlocks = 2
  MaxChanges = 1
SYMMETRY Symmetry
INVARIANTS
  TypeOK
  OneInterval
  NoLostWakeUp
  AppliesWithLock
PROPERTIES
  LegalTransitions
