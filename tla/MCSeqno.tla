------------------------------- MODULE MCSeqno -------------------------------
(***************************************************************************)
(* The sequence-number functions driven by two counters that walk round    *)
(* the numbers, as the last number received and the newest number sent do, *)
(* against the distance between them counted apart.                        *)
(***************************************************************************)
EXTENDS TrSeqno

CONSTANTS MaxGap  (* bound: how far the counters may be apart              *)

(* "diff < TR_VALID_RANGE": the comparison is exact below it only.         *)
ASSUME GapAssumption == MaxGap \in 0 .. (TrValidRange - 1)

VARIABLES
  older, newer,   (* two sequence numbers                                  *)
  gap             (* history: how often newer was advanced past older      *)

vars == <<older, newer, gap>>

Init == older \in {TrFirstSeqno, TrMaxSeqno} /\ newer = older /\ gap = 0

Advance ==
  /\ gap < MaxGap
  /\ newer' = SeqNext(newer) /\ gap' = gap + 1 /\ UNCHANGED older

CatchUp ==
  /\ gap > 0
  /\ older' = SeqNext(older) /\ gap' = gap - 1 /\ UNCHANGED newer

StepBack ==
  /\ gap < MaxGap
  /\ older' = SeqPrev(older) /\ gap' = gap + 1 /\ UNCHANGED newer

Spec == Init /\ [][Advance \/ CatchUp \/ StepBack]_vars

(* "TR_VALID_RANGE, of the difference between any two seqno that are       *)
(* compared": up to that difference the comparison, the difference and the *)
(* sum of 16-bit numbers agree with the distance, across the wrap too.     *)
CompareExact ==
  /\ older \in Seqno /\ newer \in Seqno
  /\ SeqDiff(newer, older) = gap
  /\ SeqAdd(older, gap) = newer
  /\ SeqCmp(older, newer) = (IF gap = 0 THEN 0 ELSE -1)
  /\ SeqCmp(newer, older) = (IF gap = 0 THEN 0 ELSE 1)

(* The inductive invariant behind CompareExact.                            *)
WalkInv ==
  /\ older \in Seqno /\ gap \in 0 .. MaxGap
  /\ newer = SeqAdd(older, gap)
=============================================================================
