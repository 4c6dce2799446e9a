------------------------------ MODULE MCStream1 ------------------------------
(* One stream, no number ever out of the valid range.                      *)
EXTENDS StreamTransport

CONSTANTS s1, t1

OneTid == [s \in {s1} |-> t1]
=============================================================================
