CONSTANTS
  TrdLast = 5000
  TrdWindow = 16
  NodeEntries = 1
  CacheEntries = 1
  IgnoreOld = 9
  NoSummary = 12
  DeleteOld = 15
  AgeMax = 30
  m = m
  a = a
  b = b
  Motes = {a, b}
  Masters = {m}
  Links <- MCLinks
  MaxQueue = 1
  Fragments = 1
  LogSize = 1
  Faulty = FALSE
  JunkAge = {1}
  FastRetx = 1
  InitLoops = 0
  MaxSeqno = 2
  MaxTicks = 0
  Started = TRUE
SPECIFICATION RestartSpec
CONSTRAINT QuietMaster
INVARIANTS FastPacketIsLast

