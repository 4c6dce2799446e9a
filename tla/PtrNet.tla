------------------------------- MODULE PtrNet -------------------------------
(***************************************************************************)
(* The routed channel between a mote and the master as the packet          *)
(* transport uses it: packets may be lost, reordered and duplicated, and   *)
(* the checksum drops damaged ones.                                        *)
(***************************************************************************)
EXTENDS Integers, FiniteSets

CONSTANTS
  Tid,             (* the tids of the tasks sent to the mote               *)
  MaxNumRetx,      (* PTR_MAX_NUM_RETX (5)                                 *)
  MaxPtrInFlight,  (* bound: packets in flight at a time                   *)
  MaxPtrSeqno      (* bound: sequence numbers used by the mote             *)

ASSUME PtrNetAssumption ==
  /\ IsFiniteSet(Tid)
  /\ MaxNumRetx \in Nat
  /\ MaxPtrInFlight \in Nat \ {0}
  /\ MaxPtrSeqno \in Nat \ {0}

VARIABLE air   (* the packets in flight                                    *)

PtrFlag == {"SEND", "ACK", "NOACK_SEND"}

(* What a packet carries: a task or the deletion of one to the mote, a     *)
(* response to the master, nothing in an ACK.                              *)
Content == {"task", "close", "response", "nothing"}

Message == [to: {"mote", "master"}, flag: PtrFlag, tid: Tid, seqno: Nat \ {0},
            body: Content]

Msg(to, flag, t, n, body) ==
  [to |-> to, flag |-> flag, tid |-> t, seqno |-> n, body |-> body]

Put(a, m) == IF Cardinality(a) < MaxPtrInFlight THEN a \cup {m} ELSE a

AfterTaking(m) == {air, air \ {m}}

Vanish(m) == air' = air \ {m}
=============================================================================
