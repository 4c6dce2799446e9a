--------------------------- MODULE PacketTransport ---------------------------
(***************************************************************************)
(* Both ends of the packet transport: the master sends tasks and deletions*)
(* to a mote, the mote sends responses back, and either end acknowledges *)
(* and retransmits single packets.                                       *)
(***************************************************************************)
EXTENDS PtrMaster, PtrMote

vars == <<air, m_ptrcs, pc, tids, streams, told, got,
          PList, sending, routing, pending, posted, mySeqNo, e2e, be,
          received, confirmed, finished>>

Init == air = {} /\ PtrMasterInit /\ PtrMoteInit

Next ==
  \/ PtrMasterNext /\ UNCHANGED ptrMoteVars
  \/ /\ \E t \in Tid : "task" \in received[t] /\ StreamStarts(t)
     /\ UNCHANGED ptrMoteVars
  \/ PtrMoteNext /\ UNCHANGED ptrMasterVars
  \/ \E m \in air : Vanish(m) /\ UNCHANGED <<ptrMasterVars, ptrMoteVars>>

Spec == Init /\ [][Next]_vars

(***************************************************************************)
(* Fairness.  The master polls for ever and its clock runs.  TinyOS runs *)
(* what is posted, fires every timer and signals every sendDone.  A packet*)
(* offered to the routing layer again and again is taken in the end, and *)
(* not every one of infinitely many transmissions fails; no packet is    *)
(* delivered for ever.                                                   *)
(***************************************************************************)
MasterDoes(A) == A /\ UNCHANGED ptrMoteVars
MoteDoes(A)   == A /\ UNCHANGED ptrMasterVars

MasterFairness ==
  /\ WF_vars(MasterDoes(PtrPoll))
  /\ \A t \in Tid : WF_vars(MasterDoes(PtrExpire(t)))

MoteFairness ==
  /\ WF_vars(MoteDoes(send_ACK))
  /\ WF_vars(MoteDoes(retx_send))
  /\ SF_vars(MoteDoes(send_ACK /\ routing' # routing))
  /\ SF_vars(MoteDoes(retx_send /\ routing' # routing))
  /\ WF_vars(MoteDoes(\E success \in BOOLEAN : RoutingSendDone(success)))
  /\ SF_vars(MoteDoes(RoutingSendDone(TRUE)))
  /\ WF_vars(MoteDoes(RetryTimer_fired))
  /\ \A cid \in Cid : WF_vars(MoteDoes(ConnTimer_fired(cid)))
  /\ WF_vars(MasterDoes(MoteDoes(\E m \in air : Vanish(m))))

MasterSpec == Spec /\ MasterFairness
MoteSpec   == Spec /\ MoteFairness
FairSpec   == Spec /\ MasterFairness /\ MoteFairness

-----------------------------------------------------------------------------
(* Properties.                                                           *)

TypeOK ==
  /\ air \subseteq Message
  /\ PtrMasterTypeOK
  /\ PtrMoteTypeOK

(* A client is told that its task is accepted only if the mote has       *)
(* received it, although the master takes any ACK of the tid for it.     *)
AcceptedTruly ==
  \A t \in Tid : "ACK" \in told[t] => "task" \in received[t]

(* No client is told both that its task is accepted and that it failed.  *)
AnswersAgree ==
  \A t \in Tid : ~({"ACK", "NACK"} \subseteq told[t])

(* A connection of the mote ends with SUCCESS only for a packet the master*)
(* has handed on.                                                        *)
ConfirmedWasReceived == confirmed \subseteq got

(* A task that has to be sent again is still there: an alarm that runs   *)
(* with retransmissions left holds a packet.                             *)
RetxHasPacket ==
  \A t \in Tid : pc[t].alarm # "off" /\ pc[t].retxCount < MaxNumRetx =>
    Linked(t) /\ pc[t].packet # "none"

(* A connection that waits for its ACK always has a timer to end the wait.*)
WaitHasTimer ==
  \A cid \in Cid : PList[cid].state = "ACK_WAIT" => PList[cid].timer

-----------------------------------------------------------------------------
(* The inductive invariant behind them.  Neither end knows the other's   *)
(* state: what makes a handler right is what a packet says of its sender.*)

(* Where a task stands at the master; see RetxHasPacket.                 *)
MasterInv(t) ==
  /\ pc[t].alarm # "off" => Linked(t) /\ pc[t].sentSeqNo > 0
  /\ pc[t].alarm # "off" /\ pc[t].retxCount < MaxNumRetx => pc[t].packet # "none"
  /\ tids[t] = "new" => told[t] = {} /\ pc[t].alarm = "off"
  /\ tids[t] = "task" /\ "ACK" \in told[t] => pc[t].alarm = "off"
  /\ "NACK" \in told[t] => tids[t] = "gone" /\ "ACK" \notin told[t]
  /\ "ACK" \in told[t] => "task" \in received[t]

(* What the mote has been sent.                                          *)
TaskInv(t) ==
  /\ received[t] \subseteq {"task", "close"}
  /\ "close" \in received[t] => tids[t] \in {"close", "gone"}

(* What a packet, in flight or with the routing layer, says.             *)
PacketInv(m) ==
  /\ m.to = "mote" /\ m.flag = "SEND" =>
       \/ m.body = "task"
       \/ m.body = "close" /\ tids[m.tid] \in {"close", "gone"}
  /\ m.to = "mote" /\ m.flag = "ACK" => <<m.tid, m.seqno>> \in got
  /\ m.to = "master" /\ m.flag = "ACK" => received[m.tid] # {}

(* A connection of the mote; see WaitHasTimer.                           *)
SlotInv(cid) ==
  /\ PList[cid].state # "IDLE" => PList[cid].tid \in Tid
  /\ PList[cid].tid \in Tid => PList[cid].seqno > 0
  /\ PList[cid].state \in {"RECV", "ACK_SENT"} => received[PList[cid].tid] # {}
  /\ PList[cid].state = "ACK_WAIT" => PList[cid].timer

(* The invariant itself.                                                 *)
IndInv ==
  /\ TypeOK
  /\ ConfirmedWasReceived
  /\ \A t \in Tid : MasterInv(t) /\ TaskInv(t)
  /\ \A m \in air \cup routing : PacketInv(m)
  /\ \A cid \in Cid : SlotInv(cid)

-----------------------------------------------------------------------------
(* What the repository's words say; see the runs.                        *)

(* "Since we are signaling 'sendDone' after the 'End-to-End' ACK is      *)
(* received": what SendPkt is told was sent has reached the master.      *)
FinishedWasReceived == finished \subseteq got

(* "ACK is sent... we're done. forget about it now.": a connection keeps *)
(* the state ACK_SENT no longer than its ACK is being sent.              *)
AckSentIsSending ==
  \A cid \in Cid : PList[cid].state = "ACK_SENT" =>
    \E m \in routing : m.flag = "ACK" /\ m.tid = PList[cid].tid

(* A given-up task whose alarm still runs stands before t in the list, so*)
(* that the poll, which fires the first due alarm, may never come to t   *)
(* (packettransport.c:357).                                              *)
Outrun(t) ==
  \E i, j \in DOMAIN m_ptrcs :
    /\ i < j /\ m_ptrcs[j] = t
    /\ pc[m_ptrcs[i]].packet = "none" /\ pc[m_ptrcs[i]].alarm # "off"

(* "3 sec, End-to-end ACK timeout": a client that does not close its task*)
(* hears whether it was accepted, unless a newer task that was given up  *)
(* keeps the poll to itself for ever.                                    *)
TaskAnswered ==
  \A t \in Tid : "RETURN" \in told[t] ~>
    \/ tids[t] \in {"close", "gone"} \/ {"ACK", "NACK"} \cap told[t] # {}
    \/ []Outrun(t)

(* "End-2-End retransmission triggered": a packet to be sent again is, as*)
(* long as no two wait for that at a time: one bit of postPendingFlag    *)
(* stands for all of them (PacketTransportM.nc:149).                     *)
RetxServed ==
  [](Cardinality(InState("RETX")) <= 1) =>
    \A cid \in Cid : PList[cid].state = "RETX" ~> PList[cid].state # "RETX"

(* "SendDone event: 'data' with 'tid' has been sent.": so does a         *)
(* best-effort packet.                                                   *)
BestEffortEnds == be # NoTid ~> be = NoTid

(* TRANS_TYPE_CLOSE is answered by CLOSE_ACK, "close done", once the     *)
(* streams of the tid have ended.                                        *)
CloseAnswered ==
  \A t \in Tid : tids[t] = "close" /\ t \notin streams => "CLOSE_ACK" \in told[t]
=============================================================================
