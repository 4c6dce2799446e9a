------------------------------- MODULE StrNet -------------------------------
(***************************************************************************)
(* The routed channel between the motes' and the master's ends of the      *)
(* stream transport.  The routing layer below both ends may lose, reorder  *)
(* and duplicate a packet; the transport checksum drops damaged ones, so a *)
(* packet that is received is one that was sent.                           *)
(***************************************************************************)
EXTENDS TrSeqno

CONSTANTS
  Stream,      (* a stream is one (tid, mote address) pair                 *)
  MaxInFlight  (* bound: packets in flight at a time                       *)

ASSUME StrNetAssumption == IsFiniteSet(Stream) /\ MaxInFlight \in Nat \ {0}

VARIABLE net   (* the packets in flight                                    *)

MasterFlag == {"SYN", "FIN", "DATA", "DATA_RETX"}  (* sent to the master   *)
MoteFlag   == {"SYN_ACK", "FIN_ACK", "NACK"}       (* sent to the mote     *)

Packet == [s: Stream, flag: MasterFlag \cup MoteFlag, seqno: Seqno0,
           list: SUBSET Seqno]

(* tr_packet_setHeader with no payload, and a NACK with its missing list.  *)
Pkt(s, flag, seqno)   == [s |-> s, flag |-> flag, seqno |-> seqno, list |-> {}]
Nack(s, seqno, list)  == [s |-> s, flag |-> "NACK", seqno |-> seqno, list |-> list]

(* Packet q is sent while n are in flight: a full channel loses it.        *)
Sending(n, q) == IF Cardinality(n) < MaxInFlight THEN n \cup {q} ELSE n

(* What is left in flight once p is received: p is gone, unless the link   *)
(* layer delivered one of two copies.                                      *)
AfterReceipt(p) == {net, net \ {p}}

Lose(p) == net' = net \ {p}
=============================================================================
