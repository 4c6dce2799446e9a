CONSTANTS
  Ids <- MCIds
  Chain <- MCLive
  Load <- MCLoad
  NumTasks = 2
  NumAtasks = 4
  Huge = 3
  CloneLimit = 2
  NumSlots = 1
  Faults = {}
  Fills = {TRUE}
  Deleted = {2}
SPECIFICATION FairSpec
PROPERTY KeepsStreaming
CHECK_DEADLOCK FALSE
INVARIANT StreamServed SendDoneIsOurs
