----------------------------- MODULE StreamSpec -----------------------------
(***************************************************************************)
(* What the stream transport promises the two applications that use it.    *)
(* On each stream the packets a mote sends are numbered 1, 2, 3, ...; the  *)
(* client is given some of them, each once and in that order.  One that is *)
(* passed over was declared lost.  A stream is complete only after the     *)
(* last packet was sent and, unless one was declared lost, all were given  *)
(* to the client.  The connection may also vanish, and does not come back  *)
(* once it has given the client anything.                                  *)
(***************************************************************************)
EXTENDS Integers, Sequences, FiniteSets

CONSTANTS Stream, MaxData

VARIABLES
  sent,       (* how many packets the mote has sent                        *)
  delivered,  (* the packets given to the client, in order                 *)
  lost,       (* the packets declared lost                                 *)
  status      (* what the receiver knows of the stream                     *)

specVars == <<sent, delivered, lost, status>>

Init ==
  /\ sent = [s \in Stream |-> 0]
  /\ delivered = [s \in Stream |-> <<>>]
  /\ lost = [s \in Stream |-> {}]
  /\ status = [s \in Stream |-> "none"]

Given(d) == {d[i] : i \in DOMAIN d}

Newest(d) == IF d = <<>> THEN 0 ELSE d[Len(d)]

Ascending(D) ==
  {out \in [1 .. Cardinality(D) -> D] :
     \A i, j \in DOMAIN out : i < j => out[i] < out[j]}

Send(s) ==
  /\ status[s] # "complete" /\ sent[s] < MaxData
  /\ sent' = [sent EXCEPT ![s] = @ + 1]
  /\ UNCHANGED <<delivered, lost, status>>

Open(s) ==
  /\ status[s] = "none" /\ delivered[s] = <<>>
  /\ status' = [status EXCEPT ![s] = "open"]
  /\ UNCHANGED <<sent, delivered, lost>>

(* One step of the receiver: it declares L lost, gives the client D and    *)
(* may find the stream complete.                                           *)
Progress(s, D, L, st) ==
  /\ status[s] # "none" /\ st \in {status[s], "complete"}
  /\ UNCHANGED sent
  /\ status' = [status EXCEPT ![s] = st]
  /\ lost' = [lost EXCEPT ![s] = @ \cup L]
  /\ \A d \in D : 1 .. (d - 1) \subseteq Given(delivered[s]) \cup D \cup lost'[s]
  /\ st = "complete" /\ lost'[s] = {} => Given(delivered[s]) \cup D = 1 .. sent[s]
  /\ \E out \in Ascending(D) :
       delivered' = [delivered EXCEPT ![s] = @ \o out]

Vanish(S) ==
  /\ status' = [s \in Stream |-> IF s \in S THEN "none" ELSE status[s]]
  /\ UNCHANGED <<sent, delivered, lost>>

Next ==
  \/ \E s \in Stream :
       \/ Send(s) \/ Open(s)
       \/ \E D \in SUBSET ((Newest(delivered[s]) + 1) .. sent[s]),
             L \in SUBSET (1 .. sent[s]), st \in {"open", "complete"} :
            Progress(s, D, L, st)
  \/ \E S \in SUBSET Stream : Vanish(S)

Spec == Init /\ [][Next]_specVars
=============================================================================
