CONSTANTS
  t1 = t1
  t2 = t2
  Tid = {t1, t2}
  Reliable = {t1, t2}
  Streaming = {}
  NoTid = NoTid
  MaxPtrInFlight = 1
  MaxPtrSeqno = 4
  FirstSeqno = 3
  MaxNumRetx = 1
  NumOneshot = 2
  MaxPosted = 1
  RetxWrap = 2
SPECIFICATION AnswerSpec
CHECK_DEADLOCK FALSE
INVARIANTS ConfirmedWasReceived WaitHasTimer
PROPERTIES TaskAnswered RetxServed
