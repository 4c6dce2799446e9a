CONSTANTS
  TrdLast = 5000
  TrdWindow = 16
  NodeEntries = 1
  CacheEntries = 2
  IgnoreOld = 9
  NoSummary = 12
  DeleteOld = 15
  AgeMax = 30
  m = m
  a = a
  b = b
  Motes = {a}
  Masters = {m}
  Links <- MCLinks
  MaxQueue = 2
  Fragments = 1
  LogSize = 2
  Faulty = FALSE
  JunkAge = {1}
  FastRetx = 1
  InitLoops = 0
  MaxSeqno = 2
  MaxTicks = 0
  Started = FALSE
SPECIFICATION FairSpec
PROPERTIES Converges
