CONSTANTS
  TrMaxSeqno = 40
  TrValidRange = 8
  MaxGap = 7
SPECIFICATION Spec
INVARIANTS CompareExact
