------------------------------- MODULE TrdSpec -------------------------------
(***************************************************************************)
(* What dissemination promises: every node is given the packets of a       *)
(* master in the order they were sent, none twice, and none is left out    *)
(* but by a node that is as many behind as the others keep.                *)
(***************************************************************************)
EXTENDS Integers, Sequences, SequencesExt

CONSTANTS
  Node, Masters,
  Keep,        (* packets of a master that every node keeps                 *)
  Batch,       (* packets a master sends at a time                          *)
  MaxSent      (* bound: packets a master sends                             *)

VARIABLES
  sent,        (* how many packets each master has sent                     *)
  got          (* the packets of each master that a node was given          *)

vars == <<sent, got>>

Seen(n, o) == IF got[n][o] = <<>> THEN 0 ELSE Last(got[n][o])

Init ==
  /\ sent = [o \in Masters |-> 0]
  /\ got = [n \in Node |-> [o \in Masters |-> <<>>]]

Disseminate(o) ==
  /\ sent[o] + Batch <= MaxSent
  /\ sent' = [sent EXCEPT ![o] = @ + Batch]
  /\ UNCHANGED got

(* A node that was given nothing yet may begin with any packet.             *)
Deliver(n, o) ==
  /\ \E k \in (Seen(n, o) + 1) .. sent[o] :
       /\ \/ k = Seen(n, o) + 1
          \/ Seen(n, o) = 0
          \/ sent[o] - Seen(n, o) >= Keep
       /\ got' = [got EXCEPT ![n][o] = Append(@, k)]
  /\ UNCHANGED sent

Next ==
  \/ \E o \in Masters : Disseminate(o)
  \/ \E n \in Node, o \in Masters : n # o /\ Deliver(n, o)

Spec == Init /\ [][Next]_vars
=============================================================================
