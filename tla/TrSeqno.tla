------------------------------ MODULE TrSeqno ------------------------------
(***************************************************************************)
(* Sequence-number arithmetic of the transport layer                       *)
(* (src/mote/lib/transport/tr_seqno.c, shared by motes and masters).       *)
(*                                                                         *)
(* Sequence numbers run TrFirstSeqno .. TrMaxSeqno and then start again at *)
(* TrFirstSeqno; 0 is "nothing sent or received yet".  The C functions     *)
(* compute in uint16_t.                                                    *)
(***************************************************************************)
EXTENDS Integers, FiniteSets

CONSTANTS
  TrMaxSeqno,   (* TR_MAX_SEQNO: the last number before the wrap (50000)    *)
  TrValidRange  (* TR_VALID_RANGE: comparisons are exact below it (200)     *)

TrFirstSeqno == 1

ASSUME TrSeqnoAssumption ==
  /\ TrMaxSeqno \in Nat /\ TrValidRange \in Nat \ {0}
  /\ 2 * TrValidRange < TrMaxSeqno
  /\ TrMaxSeqno + TrValidRange < 65536

(* The numbers a packet can carry, and those a counter can hold.           *)
Seqno  == TrFirstSeqno .. TrMaxSeqno
Seqno0 == 0 .. TrMaxSeqno

Word16(n) == n % 65536

(* How far seq2 is ahead of seq1.                                          *)
SeqDiff(seq2, seq1) ==
  IF seq1 > seq2 THEN Word16(TrMaxSeqno + seq2 - seq1) ELSE seq2 - seq1

(* Variant: the wrap comes one number late.                                *)
SeqNextLate(seq) == IF seq > TrMaxSeqno THEN TrFirstSeqno ELSE seq + 1

SeqNext(seq) == IF seq >= TrMaxSeqno THEN TrFirstSeqno ELSE seq + 1

SeqPrev(seq) == IF seq <= TrFirstSeqno THEN TrMaxSeqno ELSE seq - 1

(* The loop that subtracts TR_MAX_SEQNO ends at the residue in 1..Max.     *)
SeqAdd(a, b) ==
  LET c == Word16(a + b)
  IN  IF c < TrFirstSeqno THEN TrFirstSeqno
      ELSE IF c <= TrMaxSeqno THEN c
      ELSE ((c - 1) % TrMaxSeqno) + 1

(* -1: b is newer, 0: equal, 1: a is newer.  Numbers that are further      *)
(* apart than TrValidRange both ways round fall back to plain comparison.  *)
SeqCmp(a, b) ==
  LET near(x, y)    == y - x <= TrValidRange
      wrapped(x, y) == SeqAdd(x, TrMaxSeqno - y) < TrValidRange
  IN  IF a = b THEN 0
      ELSE IF a < b
      THEN IF ~near(a, b) /\ wrapped(a, b) THEN 1 ELSE -1
      ELSE IF ~near(b, a) /\ wrapped(b, a) THEN -1 ELSE 1

(* The numbers strictly between a and b, in the order SeqCmp gives.        *)
Between(a, b) == {x \in Seqno : SeqCmp(x, a) > 0 /\ SeqCmp(x, b) < 0}

(* The k oldest members of a set of numbers.                               *)
Oldest(S, k) == {x \in S : Cardinality({y \in S : SeqCmp(y, x) < 0}) < k}
=============================================================================
