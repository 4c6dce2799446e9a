------------------------------ MODULE TrdSeqno ------------------------------
(***************************************************************************)
(* Sequence-number arithmetic of the dissemination protocol TRD            *)
(* (src/mote/lib/trd/trd_seqno.c, compiled into motes and masters).        *)
(*                                                                         *)
(* Every origin numbers its packets TrdFirst .. TrdLast and then starts    *)
(* again.  Two values are not numbers: TrdUnknown, and TrdOldest by which  *)
(* a request asks for the oldest packet the other node has.                *)
(***************************************************************************)
EXTENDS Integers

CONSTANTS
  TrdLast,     (* TRD_SEQNO_LAST: the last number before the wrap           *)
  TrdWindow    (* TRD_SEQNO_WRAP_WINDOW: comparisons are exact below it     *)

TrdFirst   == 1
TrdUnknown == 0
TrdOldest  == 65533

ASSUME TrdSeqnoAssumption ==
  /\ TrdLast \in Nat /\ TrdWindow \in Nat \ {0}
  /\ 2 * TrdWindow < TrdLast /\ 2 * TrdLast < TrdOldest

TrdSeqno  == TrdFirst .. TrdLast

TrdNext(a) ==
  IF a = TrdUnknown \/ a >= TrdLast THEN TrdFirst ELSE a + 1

(* The loop that subtracts TRD_SEQNO_LAST ends at the residue in 1..Last.   *)
TrdReduce(a) == IF a <= TrdLast THEN a ELSE ((a - 1) % TrdLast) + 1

TrdAdd(a, b) ==
  LET c == (a + b) % 65536 IN IF c < TrdFirst THEN TrdFirst ELSE TrdReduce(c)

(* -1: b is newer, 0: equal, 1: a is newer.  Neither TrdUnknown nor         *)
(* TrdOldest is newer than a number.  Numbers further apart than TrdWindow  *)
(* both ways round are compared as they stand.                              *)
TrdCmp(a, b) ==
  LET x == TrdReduce(a)
      y == TrdReduce(b)
      near(lo, hi)    == hi - lo <= TrdWindow
      wrapped(lo, hi) == TrdAdd(lo, TrdLast - hi) < TrdWindow
  IN  IF a = b THEN 0
      ELSE IF b \in {TrdOldest, TrdUnknown} THEN 1
      ELSE IF a \in {TrdOldest, TrdUnknown} THEN -1
      ELSE IF x = y THEN 0
      ELSE IF x < y THEN IF ~near(x, y) /\ wrapped(x, y) THEN 1 ELSE -1
      ELSE IF ~near(y, x) /\ wrapped(y, x) THEN -1 ELSE 1
=============================================================================
