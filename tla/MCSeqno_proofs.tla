--------------------------- MODULE MCSeqno_proofs ---------------------------
(***************************************************************************)
(* Proof that two counters that walk round the sequence numbers less than  *)
(* TrValidRange apart are compared, subtracted and added exactly, however  *)
(* often they pass the wrap.                                               *)
(***************************************************************************)
EXTENDS MCSeqno, TrSeqno_proofs

(* The sum of a number and a distance the counters may have.               *)
LEMMA AddGap ==
  ASSUME NEW a \in Seqno, NEW d \in 0 .. MaxGap
  PROVE  /\ SeqAdd(a, d) = IF a + d <= TrMaxSeqno THEN a + d ELSE a + d - TrMaxSeqno
         /\ SeqAdd(a, d) \in Seqno
<1>1. a \in Seqno0 /\ d \in 0 .. TrValidRange /\ a + d >= 1
  BY GapAssumption, TrSeqnoAssumption DEF Seqno, Seqno0, TrFirstSeqno
<1>2. SeqAdd(a, d) = IF a + d <= TrMaxSeqno THEN a + d ELSE a + d - TrMaxSeqno
  BY <1>1, AddShort
<1> QED
  BY <1>1, <1>2, GapAssumption, TrSeqnoAssumption DEF Seqno, TrFirstSeqno

LEMMA WalkInit == Init => WalkInv
<1> SUFFICES ASSUME Init PROVE WalkInv
  OBVIOUS
<1>1. older \in Seqno /\ newer = older /\ gap = 0 /\ 0 \in 0 .. MaxGap
  BY GapAssumption, TrSeqnoAssumption DEF Init, Seqno, TrFirstSeqno
<1>2. SeqAdd(older, 0) = older
  BY <1>1, AddGap DEF Seqno, TrFirstSeqno
<1> QED BY <1>1, <1>2 DEF WalkInv

LEMMA WalkNext == WalkInv /\ [Advance \/ CatchUp \/ StepBack]_vars => WalkInv'
<1> SUFFICES ASSUME WalkInv, [Advance \/ CatchUp \/ StepBack]_vars
             PROVE  WalkInv'
  OBVIOUS
<1>1. /\ older \in Seqno /\ gap \in 0 .. MaxGap /\ newer = SeqAdd(older, gap)
      /\ newer = IF older + gap <= TrMaxSeqno THEN older + gap
                 ELSE older + gap - TrMaxSeqno
      /\ newer \in Seqno
  BY AddGap DEF WalkInv
<1>2. CASE Advance
  <2>1. gap' = gap + 1 /\ gap' \in 0 .. MaxGap /\ older' = older /\ newer' = SeqNext(newer)
    BY <1>1, <1>2, GapAssumption, TrSeqnoAssumption DEF Advance
  <2>2. SeqAdd(older, gap') = IF older + gap' <= TrMaxSeqno THEN older + gap'
                              ELSE older + gap' - TrMaxSeqno
    BY <1>1, <2>1, AddGap
  <2>3. newer' = SeqAdd(older, gap')
    BY <1>1, <2>1, <2>2, GapAssumption, TrSeqnoAssumption DEF SeqNext, Seqno, TrFirstSeqno
  <2> QED BY <1>1, <2>1, <2>3 DEF WalkInv
<1>3. CASE CatchUp
  <2>1. /\ gap' = gap - 1 /\ gap' \in 0 .. MaxGap /\ newer' = newer
        /\ older' = SeqNext(older) /\ older' \in Seqno
    BY <1>1, <1>3, NextPrev, GapAssumption, TrSeqnoAssumption DEF CatchUp
  <2>2. SeqAdd(older', gap') = IF older' + gap' <= TrMaxSeqno THEN older' + gap'
                               ELSE older' + gap' - TrMaxSeqno
    BY <2>1, AddGap
  <2>3. newer = SeqAdd(older', gap')
    BY <1>1, <2>1, <2>2, GapAssumption, TrSeqnoAssumption DEF SeqNext, Seqno, TrFirstSeqno
  <2> QED BY <2>1, <2>3 DEF WalkInv
<1>4. CASE StepBack
  <2>1. /\ gap' = gap + 1 /\ gap' \in 0 .. MaxGap /\ newer' = newer
        /\ older' = SeqPrev(older) /\ older' \in Seqno
    BY <1>1, <1>4, NextPrev, GapAssumption, TrSeqnoAssumption DEF StepBack
  <2>2. SeqAdd(older', gap') = IF older' + gap' <= TrMaxSeqno THEN older' + gap'
                               ELSE older' + gap' - TrMaxSeqno
    BY <2>1, AddGap
  <2>3. newer = SeqAdd(older', gap')
    BY <1>1, <2>1, <2>2, GapAssumption, TrSeqnoAssumption DEF SeqPrev, Seqno, TrFirstSeqno
  <2> QED BY <2>1, <2>3 DEF WalkInv
<1>5. CASE UNCHANGED vars
  BY <1>5 DEF vars, WalkInv
<1> QED BY <1>2, <1>3, <1>4, <1>5

(* What the invariant says of the functions, by what they compute for one  *)
(* pair of numbers.                                                        *)
LEMMA WalkExact == WalkInv => CompareExact
<1> SUFFICES ASSUME WalkInv PROVE CompareExact
  OBVIOUS
<1>1. older \in Seqno /\ gap \in 0 .. MaxGap /\ newer = SeqAdd(older, gap) /\ newer \in Seqno
  BY AddGap DEF WalkInv
<1>2. CASE gap = 0
  <2>1. newer = older
    BY <1>1, <1>2, AddGap DEF Seqno, TrFirstSeqno
  <2>2. SeqDiff(newer, older) = 0
    BY <1>1, <2>1 DEF SeqDiff, Seqno, TrFirstSeqno
  <2>3. SeqCmp(older, newer) = 0 /\ SeqCmp(newer, older) = 0
    BY <2>1 DEF SeqCmp
  <2> QED BY <1>1, <1>2, <2>1, <2>2, <2>3 DEF CompareExact
<1>3. CASE gap # 0
  <2>1. gap \in 1 .. (TrValidRange - 1)
    BY <1>1, <1>3, GapAssumption, TrSeqnoAssumption
  <2>2. SeqCmp(newer, older) = 1 /\ SeqCmp(older, newer) = -1 /\ SeqDiff(newer, older) = gap
    BY <1>1, <2>1, CompareInRange
  <2> QED BY <1>1, <1>3, <2>2 DEF CompareExact
<1> QED BY <1>2, <1>3

(* tr_seqno_cmp, tr_seqno_diff, tr_seqno_add, tr_seqno_next and            *)
(* tr_seqno_prev agree with the distance between two counters counted      *)
(* apart, for every TR_MAX_SEQNO and TR_VALID_RANGE and however often the  *)
(* counters have passed the wrap.                                          *)
THEOREM WalkCompares == Spec => []CompareExact
<1>1. Spec => []WalkInv
  <2> QED BY WalkInit, WalkNext, PTL DEF Spec
<1> QED BY <1>1, WalkExact, PTL
=============================================================================
