CONSTANTS
  Ids <- MCIds
  Chain <- MCChain
  Load <- MCLoad
  NumTasks = 2
  NumAtasks = 3
  Huge = 3
  CloneLimit = 2
  NumSlots = 1
  Faults = {"element", "stop"}
  Fills = {TRUE, FALSE}
  Deleted = {1}
SPECIFICATION Spec
INVARIANT TypeOK HeldOnce AtasksExact SampleServed PacketServed
CHECK_DEADLOCK FALSE
