------------------------------ MODULE MCStrMote ------------------------------
(* Two streams on one mote.                                                *)
EXTENDS StrMote, TLC

CONSTANTS s1, s2

OwnCids  == [s \in Stream |-> s]
SameCids == [s \in Stream |-> s1]
Either   == Permutations({s1, s2})
One      == [s \in Stream |-> IF s = s1 THEN 2 ELSE 0]
Full     == [s \in Stream |-> MaxData]
Lists    == {{1}}
Lists2   == {{1}, {1, 2}}
=============================================================================
