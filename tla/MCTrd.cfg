CONSTANTS
  TrdLast = 5000
  TrdWindow = 16
  NodeEntries = 1
  CacheEntries = 2
  IgnoreOld = 2
  NoSummary = 2
  DeleteOld = 3
  AgeMax = 4
  m = m
  a = a
  b = b
  Motes = {a}
  Masters = {m}
  Links <- MCLinks
  MaxQueue = 1
  Fragments = 1
  LogSize = 2
  Faulty = FALSE
  JunkAge = {1}
  FastRetx = 1
  InitLoops = 0
  MaxSeqno = 3
  MaxTicks = 1
  Started = TRUE
SPECIFICATION Spec
INVARIANTS TypeOK 
 
