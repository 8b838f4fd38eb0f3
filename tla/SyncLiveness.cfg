SPECIFICATION FairSpec
CONSTANTS
  Start = {s1}
  Handler = {h1, h2}
  Code = {unreachable}
  Users = TRUE
  Unreachable = unreachable
  Timer = timer
  OneShot = oneShot
  NoFeed = noFeed
  MaxBlocks = 2
  MaxChanges = 2
PROPERTIES
  BlocksAreLifted
  ChangesAreApplied
  StopCompletes
