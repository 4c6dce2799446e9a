CONSTANTS
  s1 = s1
  t1 = t1
  Stream = {s1}
  Tid = {t1}
  TidOf <- OneTid
  TrMaxSeqno = 9
  TrValidRange = 2
  MaxTimeoutCount = 1
  NackListLen = 1
  OtherTransports = {}
  MaxInFlight = 2
  MaxData = 4
  MaxNumRetx = 1
  RListLen = 2
SPECIFICATION Spec
INVARIANTS TypeOK InOrderNoDuplicate NoneForgotten FinishedIsComplete NoSilentGap GivesUpOnlyBeyondRange
CHECK_DEADLOCK FALSE
