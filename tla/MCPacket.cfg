CONSTANTS
  t1 = t1
  t2 = t2
  Tid = {t1, t2}
  Reliable = {t1}
  Streaming = {t2}
  NoTid = NoTid
  MaxPtrInFlight = 1
  MaxPtrSeqno = 1
  FirstSeqno = 1
  MaxNumRetx = 1
  NumOneshot = 1
  MaxPosted = 1
  RetxWrap = 2
SPECIFICATION Spec
INVARIANTS TypeOK AcceptedTruly AnswersAgree RetxHasPacket
CHECK_DEADLOCK FALSE
