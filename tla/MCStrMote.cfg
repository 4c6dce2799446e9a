CONSTANTS
  s1 = s1
  s2 = s2
  None = None
  Stream = {s1, s2}
  Sends <- Full
  Cid <- OwnCids
  TrMaxSeqno = 8
  TrValidRange = 2
  MaxInFlight = 1
  MaxData = 2
  MaxNumRetx = 1
  RListLen = 2
  FlashPkts = 2
  MaxPosted = 1
  NackLists <- Lists
  Faults = {}
SYMMETRY Either
SPECIFICATION Spec
INVARIANTS TypeOK AnswerIsTimed ReadBusyIsServed   OneOwed
PROPERTIES ImplementsSender
CHECK_DEADLOCK FALSE
