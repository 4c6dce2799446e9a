CONSTANTS
  s1 = s1
  t1 = t1
  Stream = {s1}
  Tid = {t1}
  TidOf <- OneTid
  TrMaxSeqno = 8
  TrValidRange = 2
  MaxTimeoutCount = 1
  NackListLen = 1
  OtherTransports = {}
  MaxInFlight = 1
  MaxData = 3
  MaxNumRetx = 1
  RListLen = 2
SPECIFICATION FairSpec
PROPERTIES ImplementsStream RecoveryEnds FinTerminates
CHECK_DEADLOCK FALSE
