--------------------------- MODULE TrSeqno_proofs ---------------------------
(***************************************************************************)
(* What the arithmetic of TrSeqno computes, for all values of the          *)
(* constants.                                                              *)
(***************************************************************************)
EXTENDS TrSeqno, TLAPS

(* The counters stay in range, and next and prev undo one another.         *)
LEMMA NextPrev ==
  ASSUME NEW a \in Seqno
  PROVE  /\ SeqNext(a) \in Seqno /\ SeqPrev(a) \in Seqno
         /\ SeqPrev(SeqNext(a)) = a /\ SeqNext(SeqPrev(a)) = a
BY TrSeqnoAssumption DEF Seqno, SeqNext, SeqPrev, TrFirstSeqno

(* tr_seqno_add, for a step below TrValidRange: no uint16_t overflow, and  *)
(* at most one turn round the wrap.                                        *)
LEMMA AddShort ==
  ASSUME NEW a \in Seqno0, NEW d \in 0 .. TrValidRange, a + d >= 1
  PROVE  SeqAdd(a, d) = IF a + d <= TrMaxSeqno THEN a + d ELSE a + d - TrMaxSeqno
<1>1. Word16(a + d) = a + d
  BY TrSeqnoAssumption DEF Seqno0, Word16
<1>2. CASE a + d <= TrMaxSeqno
  BY <1>1, <1>2, TrSeqnoAssumption DEF SeqAdd, Seqno0, TrFirstSeqno
<1>3. CASE a + d > TrMaxSeqno
  <2>1. a + d - 1 \in TrMaxSeqno .. (2 * TrMaxSeqno - 1)
    BY <1>3, TrSeqnoAssumption DEF Seqno0
  <2>2. (a + d - 1) % TrMaxSeqno = a + d - 1 - TrMaxSeqno
    BY <2>1, TrSeqnoAssumption DEF Seqno0
  <2> QED
    BY <1>1, <1>3, <2>2, TrSeqnoAssumption DEF SeqAdd, Seqno0, TrFirstSeqno
<1> QED
  BY <1>2, <1>3, TrSeqnoAssumption DEF Seqno0

(* The sum by which tr_seqno_cmp measures the distance round the wrap.     *)
LEMMA AddRound ==
  ASSUME NEW x \in Seqno0, NEW y \in Seqno0, x < y
  PROVE  SeqAdd(x, TrMaxSeqno - y) =
           IF x + TrMaxSeqno - y = 0 THEN 1 ELSE x + TrMaxSeqno - y
<1>1. x + (TrMaxSeqno - y) \in 0 .. (TrMaxSeqno - 1)
  BY TrSeqnoAssumption DEF Seqno0
<1>2. Word16(x + (TrMaxSeqno - y)) = x + (TrMaxSeqno - y)
  BY <1>1, TrSeqnoAssumption DEF Word16
<1> QED
  BY <1>1, <1>2, TrSeqnoAssumption DEF SeqAdd, Seqno0, TrFirstSeqno

(* tr_seqno_cmp without its loop.                                          *)
LEMMA CmpUnfold ==
  ASSUME NEW x \in Seqno0, NEW y \in Seqno0, x < y
  PROVE  /\ SeqCmp(x, y) = IF y - x > TrValidRange /\ x + TrMaxSeqno - y < TrValidRange
                              /\ (x + TrMaxSeqno - y # 0 \/ TrValidRange > 1)
                           THEN 1 ELSE -1
         /\ SeqCmp(y, x) = IF y - x > TrValidRange /\ x + TrMaxSeqno - y < TrValidRange
                              /\ (x + TrMaxSeqno - y # 0 \/ TrValidRange > 1)
                           THEN -1 ELSE 1
BY AddRound, TrSeqnoAssumption DEF SeqCmp, Seqno0

(* Two numbers less than TrValidRange apart are compared and subtracted    *)
(* correctly wherever the wrap is: the promise of "TR_VALID_RANGE = 200,   *)
(* of the difference between any two seqno that are compared".             *)
THEOREM CompareInRange ==
  ASSUME NEW a \in Seqno, NEW d \in 1 .. (TrValidRange - 1)
  PROVE  LET b == SeqAdd(a, d)
         IN  SeqCmp(b, a) = 1 /\ SeqCmp(a, b) = -1 /\ SeqDiff(b, a) = d
<1> DEFINE b == SeqAdd(a, d)
<1>1. b = IF a + d <= TrMaxSeqno THEN a + d ELSE a + d - TrMaxSeqno
  BY AddShort, TrSeqnoAssumption DEF Seqno, Seqno0, TrFirstSeqno
<1>2. CASE a + d <= TrMaxSeqno
  <2>1. b = a + d /\ a < b /\ a \in Seqno0 /\ b \in Seqno0
    BY <1>1, <1>2, TrSeqnoAssumption DEF Seqno, Seqno0, TrFirstSeqno
  <2> HIDE DEF b
  <2>2. SeqCmp(b, a) = 1 /\ SeqCmp(a, b) = -1
    BY <2>1, CmpUnfold, TrSeqnoAssumption DEF Seqno, Seqno0, TrFirstSeqno
  <2>3. SeqDiff(b, a) = d
    BY <2>1, TrSeqnoAssumption DEF SeqDiff, Seqno0
  <2> QED BY <2>2, <2>3 DEF b
<1>3. CASE a + d > TrMaxSeqno
  <2>1. b = a + d - TrMaxSeqno /\ b < a /\ a \in Seqno0 /\ b \in Seqno0 /\ b >= 1
    BY <1>1, <1>3, TrSeqnoAssumption DEF Seqno, Seqno0, TrFirstSeqno
  <2> HIDE DEF b
  <2>2. SeqCmp(b, a) = 1 /\ SeqCmp(a, b) = -1
    BY <2>1, CmpUnfold, TrSeqnoAssumption DEF Seqno, Seqno0, TrFirstSeqno
  <2>3. SeqDiff(b, a) = d
    <3>1. TrMaxSeqno + b - a = d
      BY <2>1, TrSeqnoAssumption DEF Seqno0
    <3>2. Word16(d) = d
      BY TrSeqnoAssumption DEF Word16
    <3> QED BY <2>1, <3>1, <3>2 DEF SeqDiff
  <2> QED BY <2>2, <2>3 DEF b
<1> QED
  BY <1>2, <1>3, TrSeqnoAssumption DEF Seqno, TrFirstSeqno

-----------------------------------------------------------------------------
(* Away from the wrap the order is that of the integers.                   *)

Unwrapped == 0 .. (TrMaxSeqno - TrValidRange)

LEMMA CmpUnwrapped ==
  ASSUME NEW a \in Unwrapped, NEW b \in Unwrapped
  PROVE  /\ SeqCmp(a, b) < 0 <=> a < b
         /\ SeqCmp(a, b) = 0 <=> a = b
         /\ SeqCmp(a, b) > 0 <=> a > b
         /\ SeqCmp(a, b) \in -1 .. 1
<1>1. a \in Seqno0 /\ b \in Seqno0
  BY TrSeqnoAssumption DEF Unwrapped, Seqno0
<1>2. CASE a = b
  BY <1>2, <1>1 DEF SeqCmp, Seqno0
<1>3. CASE a < b
  BY <1>3, <1>1, CmpUnfold, TrSeqnoAssumption DEF Unwrapped
<1>4. CASE b < a
  BY <1>4, <1>1, CmpUnfold, TrSeqnoAssumption DEF Unwrapped
<1> QED
  BY <1>1, <1>2, <1>3, <1>4 DEF Seqno0

(* A number close to the wrap is compared with two smaller ones the same   *)
(* way: it is newer than both, or older than the older one.                *)
LEMMA CmpWrapped ==
  ASSUME NEW a \in Unwrapped, NEW b \in Unwrapped, a <= b,
         NEW x \in Seqno \ Unwrapped
  PROVE  /\ SeqCmp(x, a) \in {-1, 1}
         /\ SeqCmp(b, x) < 0 <=> SeqCmp(x, b) > 0
         /\ SeqCmp(x, a) > 0 => SeqCmp(x, b) > 0
<1>1. a \in Seqno0 /\ b \in Seqno0 /\ x \in Seqno0 /\ a < x /\ b < x
  BY TrSeqnoAssumption DEF Unwrapped, Seqno0, Seqno, TrFirstSeqno
<1> QED
  BY <1>1, CmpUnfold, TrSeqnoAssumption DEF Unwrapped, Seqno0

(* The gap that detectMissingPacket finds.                                 *)
LEMMA BetweenUnwrapped ==
  ASSUME NEW a \in Unwrapped, NEW b \in Unwrapped, a < b
  PROVE  Between(a, b) = (a + 1) .. (b - 1)
<1>1. ASSUME NEW x \in Seqno
      PROVE  SeqCmp(x, a) > 0 /\ SeqCmp(x, b) < 0 <=> a < x /\ x < b
  <2>1. CASE x \in Unwrapped
    BY <2>1, CmpUnwrapped
  <2>2. CASE x \notin Unwrapped
    BY <2>2, <1>1, CmpWrapped, CmpUnfold, TrSeqnoAssumption DEF Unwrapped, Seqno, Seqno0, TrFirstSeqno
  <2> QED BY <2>1, <2>2
<1>2. \A x : x \in (a + 1) .. (b - 1) <=> x \in Seqno /\ a < x /\ x < b
  BY TrSeqnoAssumption DEF Unwrapped, Seqno, TrFirstSeqno
<1> QED
  BY <1>1, <1>2 DEF Between
=============================================================================
