------------------------------- MODULE PtrMote -------------------------------
(***************************************************************************)
(* The mote's end of the packet transport,                                 *)
(* src/mote/lib/transport/PacketTransportM.nc, and the element SendPkt     *)
(* that uses it, src/mote/tasklets/SendPkt.nc.                             *)
(*                                                                         *)
(* TinyOS tasks and events run to completion, so each is one action.  The  *)
(* other end is always the master.  The routing layer keeps a copy of one  *)
(* packet at a time and refuses any packet when it, or its queue, is busy. *)
(* While "sending" holds nobody writes mybuf, so that the header sendDone  *)
(* reads from mybuf is that of the copy; otherwise sendDone reads nothing. *)
(***************************************************************************)
EXTENDS PtrNet

CONSTANTS
  NoTid,        (* not a tid: the 0 of a free connection                   *)
  Reliable,     (* the tids whose task sends with end-to-end ACK (e2e_ack) *)
  NumOneshot,   (* PTR_NUM_ONESHOT (7, 10 or 3, by platform)               *)
  RetxWrap,     (* retxCount is an 8-bit counter (256)                     *)
  MaxPosted,    (* entries of a kind that fit TinyOS's task queue          *)
  FirstSeqno    (* mySeqNo when the tids of Tid are handed out, 1 at boot  *)

ASSUME PtrMoteAssumption ==
  /\ NoTid \notin Tid /\ Reliable \subseteq Tid
  /\ NumOneshot \in Nat \ {0}
  /\ RetxWrap \in Nat /\ MaxNumRetx < RetxWrap
  /\ MaxPosted \in Nat \ {0}
  /\ FirstSeqno \in Nat \ {0}

VARIABLES
  PList,      (* the connections, sending and receiving                    *)
  sending,    (* a packet of ours is with the routing layer                *)
  routing,    (* the copy the routing layer has: a set of at most one      *)
  pending,    (* postPendingFlag; RetryTimer runs while it is not empty    *)
  posted,     (* copies of the tasks send_ACK and retx_send in the queue   *)
  mySeqNo,    (* the next number                                           *)
  e2e,        (* SendPkt: number of the reliable packet of a tid whose     *)
              (* sendDone it waits for (busy), 0 if none                   *)
  be,         (* SendPkt: tid of the best-effort packet in m_be_state      *)
              (* SEND_SENDING, or NoTid in SEND_IDLE                       *)
  received,   (* history: what Receive.receive was signalled of each tid   *)
  confirmed,  (* history: packets whose connection ended with SUCCESS      *)
  finished    (* history: packets SendPkt was told are sent, with SUCCESS  *)

ptrMoteVars == <<PList, sending, routing, pending, posted, mySeqNo, e2e, be,
                 received, confirmed, finished>>

sendPktVars == <<e2e, be, finished>>

Cid  == 1 .. NumOneshot
Task == {"send_ACK", "retx_send"}

PTRConnection ==
  [tid: Tid \cup {NoTid}, seqno: Nat, retxCount: 0 .. (RetxWrap - 1),
   state: {"IDLE", "ACK_WAIT", "RECV", "ACK_SENT", "RETX"}, timer: BOOLEAN]

IdleConnection ==
  [tid |-> NoTid, seqno |-> 0, retxCount |-> 0, state |-> "IDLE", timer |-> FALSE]

PtrMoteInitWith(r, n) ==
  /\ PList = [cid \in Cid |-> IdleConnection]
  /\ sending = FALSE
  /\ routing = {}
  /\ pending = {}
  /\ posted = [k \in Task |-> 0]
  /\ mySeqNo = n
  /\ e2e = [t \in Tid |-> 0]
  /\ be = NoTid
  /\ received = r
  /\ confirmed = {}
  /\ finished = {}

PtrMoteInit == PtrMoteInitWith([t \in Tid |-> {}], FirstSeqno)

First(S, cid) == cid \in S /\ \A d \in S : cid <= d

(* find_cid_from_oneshot_tid, which does not tell sent from received.      *)
Matching(t, n) == {cid \in Cid : PList[cid].tid = t /\ (n = 0 \/ PList[cid].seqno = n)}
Available      == {cid \in Cid : PList[cid].tid = NoTid}
InState(s)     == {cid \in Cid : PList[cid].state = s}

(* post: an entry more in the queue, unless it is full.                    *)
Plus(k)  == [posted EXCEPT ![k] = IF @ < MaxPosted THEN @ + 1 ELSE @]
Minus(k) == [posted EXCEPT ![k] = @ - 1]

(* RoutingSend.send, accepted.                                             *)
Accepted(m) == routing = {} /\ routing' = {m} /\ sending' = TRUE

(* startRetryTimer, for a task that has to try again.                      *)
TryLater(k) ==
  /\ pending' = pending \cup {k}
  /\ UNCHANGED <<PList, sending, routing>>

-----------------------------------------------------------------------------
(* SendPkt: pop_and_send for a packet of each kind, and sendDone, which    *)
(* ends every send of the tid.                                             *)

TakesNumber == mySeqNo <= MaxPtrSeqno /\ mySeqNo' = mySeqNo + 1

(* A reliable packet: Send.send, which gives the connection up if the      *)
(* routing layer refuses the packet.                                       *)
Send_send(t) ==
  /\ t \in Reliable /\ "task" \in received[t] /\ be = NoTid /\ e2e[t] = 0
  /\ ~sending /\ Matching(t, 0) = {}
  /\ TakesNumber
  /\ \E cid \in Available :
       /\ First(Available, cid)
       /\ \/ /\ Accepted(Msg("master", "SEND", t, mySeqNo, "response"))
             /\ PList' = [PList EXCEPT ![cid] =
                  [tid |-> t, seqno |-> mySeqNo, retxCount |-> 0,
                   state |-> "ACK_WAIT", timer |-> TRUE]]
             /\ e2e' = [e2e EXCEPT ![t] = mySeqNo]
          \/ UNCHANGED <<routing, sending, PList, e2e>>
  /\ UNCHANGED <<air, pending, posted, be, received, confirmed, finished>>

(* A best-effort packet: NoAckSend.send.                                   *)
NoAckSend_send(t) ==
  /\ t \notin Reliable /\ "task" \in received[t] /\ be = NoTid
  /\ ~sending
  /\ TakesNumber
  /\ \/ Accepted(Msg("master", "NOACK_SEND", t, mySeqNo, "response")) /\ be' = t
     \/ UNCHANGED <<routing, sending, be>>
  /\ UNCHANGED <<air, PList, pending, posted, e2e, received, confirmed, finished>>

(* Send.sendDone and SendBE.sendDone of tid t.                             *)
SendPktDone(t, success) ==
  /\ finished' = IF success /\ e2e[t] # 0 THEN finished \cup {<<t, e2e[t]>>} ELSE finished
  /\ e2e' = [e2e EXCEPT ![t] = 0]
  /\ be' = IF be = t THEN NoTid ELSE be

-----------------------------------------------------------------------------
(* Tasks.                                                                  *)

(* Only ever one packet is handed down: send_ACK takes the first received  *)
(* one, retx_send the first to be sent again.                              *)
send_ACK ==
  /\ posted["send_ACK"] > 0 /\ posted' = Minus("send_ACK")
  /\ \/ sending /\ TryLater("send_ACK")
     \/ /\ ~sending /\ InState("RECV") = {}
        /\ UNCHANGED <<PList, sending, routing, pending>>
     \/ /\ ~sending
        /\ \E cid \in InState("RECV") :
             /\ First(InState("RECV"), cid)
             /\ \/ TryLater("send_ACK")
                \/ /\ Accepted(Msg("master", "ACK", PList[cid].tid, PList[cid].seqno, "nothing"))
                   /\ PList' = [PList EXCEPT ![cid].state = "ACK_SENT"]
                   /\ UNCHANGED pending
  /\ UNCHANGED <<air, mySeqNo, received, confirmed>> /\ UNCHANGED sendPktVars

(* Variant: the timer for the ACK of a retransmission is not started.      *)
RetxStartsNoTimer ==
  /\ posted["retx_send"] > 0 /\ posted' = Minus("retx_send")
  /\ \/ sending /\ TryLater("retx_send")
     \/ /\ ~sending
        /\ \E cid \in InState("RETX") :
             /\ First(InState("RETX"), cid)
             /\ Accepted(Msg("master", "SEND", PList[cid].tid, PList[cid].seqno, "response"))
             /\ PList' = [PList EXCEPT ![cid].retxCount = (@ + 1) % RetxWrap,
                                       ![cid].state = "ACK_WAIT"]
             /\ UNCHANGED pending
  /\ UNCHANGED <<air, mySeqNo, received, confirmed>> /\ UNCHANGED sendPktVars

(* Variant: what finds the routing layer busy is not tried again.          *)
RetxTriesOnce ==
  /\ posted["retx_send"] > 0 /\ posted' = Minus("retx_send")
  /\ \/ /\ sending \/ InState("RETX") = {}
        /\ UNCHANGED <<PList, sending, routing, pending>>
     \/ /\ ~sending
        /\ \E cid \in InState("RETX") :
             /\ First(InState("RETX"), cid)
             /\ Accepted(Msg("master", "SEND", PList[cid].tid, PList[cid].seqno, "response"))
             /\ PList' = [PList EXCEPT ![cid].retxCount = (@ + 1) % RetxWrap, ![cid].timer = TRUE,
                                       ![cid].state = "ACK_WAIT"]
             /\ UNCHANGED pending
  /\ UNCHANGED <<air, mySeqNo, received, confirmed>> /\ UNCHANGED sendPktVars

(* A retransmission counts even if the routing layer refuses it.           *)
retx_send ==
  /\ posted["retx_send"] > 0 /\ posted' = Minus("retx_send")
  /\ \/ sending /\ TryLater("retx_send")
     \/ /\ ~sending /\ InState("RETX") = {}
        /\ UNCHANGED <<PList, sending, routing, pending>>
     \/ /\ ~sending
        /\ \E cid \in InState("RETX") :
             LET n == (PList[cid].retxCount + 1) % RetxWrap IN
             /\ First(InState("RETX"), cid)
             /\ \/ /\ PList' = [PList EXCEPT ![cid].retxCount = n]
                   /\ pending' = pending \cup {"retx_send"}
                   /\ UNCHANGED <<sending, routing>>
                \/ /\ Accepted(Msg("master", "SEND", PList[cid].tid, PList[cid].seqno, "response"))
                   /\ PList' = [PList EXCEPT ![cid].retxCount = n, ![cid].timer = TRUE,
                                             ![cid].state = "ACK_WAIT"]
                   /\ UNCHANGED pending
  /\ UNCHANGED <<air, mySeqNo, received, confirmed>> /\ UNCHANGED sendPktVars

-----------------------------------------------------------------------------
(* The routing layer.                                                      *)

(* The copy goes out on the radio, perhaps more than once.                 *)
Transmit ==
  /\ \E m \in routing : air' = Put(air, m)
  /\ UNCHANGED ptrMoteVars

(* sendDone for a SEND, an ACK and a NOACK_SEND; cids holds the connection *)
(* found for the packet.                                                   *)
SendDone_SEND(t, cids, success) ==
  \/ /\ cids = {} \/ success
     /\ UNCHANGED <<PList, posted>> /\ UNCHANGED sendPktVars
  \/ \E cid \in cids : ~success /\ First(cids, cid) /\
       \/ /\ PList[cid].retxCount < MaxNumRetx
          /\ PList' = [PList EXCEPT ![cid].state = "RETX", ![cid].timer = FALSE]
          /\ posted' = Plus("retx_send")
          /\ UNCHANGED sendPktVars
       \/ /\ PList[cid].retxCount >= MaxNumRetx
          /\ PList' = [PList EXCEPT ![cid] = IdleConnection]
          /\ SendPktDone(t, FALSE)
          /\ UNCHANGED posted

SendDone_ACK(cids, success) ==
  /\ \/ cids = {} /\ UNCHANGED PList
     \/ \E cid \in cids :
          /\ First(cids, cid)
          /\ PList' = IF success THEN [PList EXCEPT ![cid] = IdleConnection]
                      ELSE [PList EXCEPT ![cid].state = "RECV"]
  /\ posted' = Plus("send_ACK")
  /\ UNCHANGED sendPktVars

SendDone_NOACK(t, success) ==
  SendPktDone(t, success) /\ UNCHANGED <<PList, posted>>

RoutingSendDone(success) ==
  /\ routing' = {} /\ sending' = FALSE
  /\ \E m \in routing : LET cids == Matching(m.tid, m.seqno) IN
       \/ ~sending /\ UNCHANGED <<PList, posted>> /\ UNCHANGED sendPktVars
       \/ sending /\ m.flag = "SEND" /\ SendDone_SEND(m.tid, cids, success)
       \/ sending /\ m.flag = "ACK"  /\ SendDone_ACK(cids, success)
       \/ sending /\ m.flag = "NOACK_SEND" /\ SendDone_NOACK(m.tid, success)
  /\ UNCHANGED <<air, pending, mySeqNo, received, confirmed>>

(* RoutingReceive.receive.                                                 *)

(* A task, or the deletion of one: no free connection, no receipt.         *)
MoteGets_SEND(m) ==
  /\ m.flag = "SEND"
  /\ \/ Available = {} /\ UNCHANGED <<PList, posted, received>>
     \/ \E cid \in Available :
          /\ First(Available, cid)
          /\ PList' = [PList EXCEPT ![cid] =
               [tid |-> m.tid, seqno |-> m.seqno, retxCount |-> 0,
                state |-> "RECV", timer |-> FALSE]]
          /\ posted' = Plus("send_ACK")
          /\ received' = [received EXCEPT ![m.tid] = @ \cup {m.body}]
  /\ UNCHANGED confirmed /\ UNCHANGED sendPktVars

(* Variant: any ACK of the tid is taken for that of the packet sent.       *)
AckOfAnyNumber(m) ==
  LET cids == Matching(m.tid, 0) IN
  /\ m.flag = "ACK"
  /\ \/ cids = {} /\ UNCHANGED <<PList, confirmed>> /\ UNCHANGED sendPktVars
     \/ \E cid \in cids :
          /\ First(cids, cid)
          /\ PList' = [PList EXCEPT ![cid] = IdleConnection]
          /\ confirmed' = confirmed \cup {<<m.tid, PList[cid].seqno>>}
          /\ SendPktDone(m.tid, TRUE)
  /\ UNCHANGED <<posted, received>>

MoteGets_ACK(m) ==
  LET cids == Matching(m.tid, m.seqno) IN
  /\ m.flag = "ACK"
  /\ \/ cids = {} /\ UNCHANGED <<PList, confirmed>> /\ UNCHANGED sendPktVars
     \/ \E cid \in cids :
          /\ First(cids, cid)
          /\ PList' = [PList EXCEPT ![cid] = IdleConnection]
          /\ confirmed' = confirmed \cup {<<m.tid, PList[cid].seqno>>}
          /\ SendPktDone(m.tid, TRUE)
  /\ UNCHANGED <<posted, received>>

MoteGets(m) ==
  /\ m.to = "mote"
  /\ MoteGets_SEND(m) \/ MoteGets_ACK(m)
  /\ air' \in AfterTaking(m)
  /\ UNCHANGED <<sending, routing, pending, mySeqNo>>

-----------------------------------------------------------------------------
(* Timers.                                                                 *)

(* ConnTimer_fired.  Giving up also takes the send buffer, whoever has it. *)
ConnTimer_fired(cid) ==
  LET c == PList[cid] IN
  /\ c.timer
  /\ \/ /\ c.state # "ACK_WAIT"
        /\ PList' = [PList EXCEPT ![cid].timer = FALSE]
        /\ UNCHANGED <<sending, posted>> /\ UNCHANGED sendPktVars
     \/ /\ c.state = "ACK_WAIT" /\ c.retxCount < MaxNumRetx
        /\ PList' = [PList EXCEPT ![cid].timer = FALSE, ![cid].state = "RETX"]
        /\ posted' = Plus("retx_send")
        /\ UNCHANGED sending /\ UNCHANGED sendPktVars
     \/ /\ c.state = "ACK_WAIT" /\ c.retxCount >= MaxNumRetx
        /\ PList' = [PList EXCEPT ![cid] = IdleConnection]
        /\ SendPktDone(c.tid, FALSE)
        /\ sending' = FALSE
        /\ UNCHANGED posted
  /\ UNCHANGED <<air, routing, pending, mySeqNo, received, confirmed>>

RetryTimer_fired ==
  /\ pending # {}
  /\ posted' = [k \in Task |-> IF k \in pending THEN Plus(k)[k] ELSE posted[k]]
  /\ pending' = {}
  /\ UNCHANGED <<air, PList, sending, routing, mySeqNo, received, confirmed>>
  /\ UNCHANGED sendPktVars

PtrMoteNext ==
  \/ \E t \in Tid : Send_send(t) \/ NoAckSend_send(t)
  \/ send_ACK \/ retx_send
  \/ Transmit \/ \E success \in BOOLEAN : RoutingSendDone(success)
  \/ \E m \in air : MoteGets(m)
  \/ \E cid \in Cid : ConnTimer_fired(cid)
  \/ RetryTimer_fired

PtrMoteTypeOK ==
  /\ PList \in [Cid -> PTRConnection]
  /\ sending \in BOOLEAN
  /\ routing \subseteq Message /\ (sending => routing # {})
  /\ \A m \in routing : m.to = "master"
  /\ pending \subseteq Task
  /\ posted \in [Task -> 0 .. MaxPosted]
  /\ mySeqNo \in Nat \ {0}
  /\ e2e \in [Tid -> Nat]
  /\ be \in Tid \cup {NoTid}
  /\ received \in [Tid -> SUBSET Content]
  /\ confirmed \subseteq Tid \X (Nat \ {0})
  /\ finished \subseteq Tid \X (Nat \ {0})
=============================================================================
