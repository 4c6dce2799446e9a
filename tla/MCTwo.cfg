CONSTANTS
  s1 = s1
  s2 = s2
  t1 = t1
  t2 = t2
  Stream = {s1, s2}
  Tid = {t1}
  TidOf <- OneTid
  TrMaxSeqno = 6
  TrValidRange = 2
  MaxTimeoutCount = 2
  NackListLen = 2
  OtherTransports = {"rcrt"}
  MaxInFlight = 1
  MaxData = 1
  MaxNumRetx = 1
  RListLen = 1
SPECIFICATION Spec
SYMMETRY Streams
PROPERTIES CloseNotMissed
CHECK_DEADLOCK FALSE
