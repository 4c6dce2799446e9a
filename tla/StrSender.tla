------------------------------ MODULE StrSender ------------------------------
(***************************************************************************)
(* The mote's (active, sending) end of the stream transport at the level   *)
(* of its protocol: which packets it may send when                         *)
(* (src/mote/lib/transport/StreamTransportM.nc).  What decides when a task *)
(* that was posted runs, the flash and the retry timer, is left open here; *)
(* timeouts may come at any time.                                          *)
(*                                                                         *)
(* The n-th packet the application sends on a stream is known by n.        *)
(***************************************************************************)
EXTENDS StrNet

CONSTANTS
  MaxData,     (* bound: packets the application sends on one stream       *)
  MaxNumRetx,  (* STR_MAX_NUM_RETX (5): SYN and FIN retransmissions        *)
  RListLen     (* STR_RLIST_LEN (10): length of the to-recover list        *)

ASSUME StrSenderAssumption ==
  /\ MaxData \in Nat /\ MaxNumRetx \in Nat \ {0} /\ RListLen \in Nat \ {0}

VARIABLES
  conn,   (* the connection state of each stream                           *)
  sent    (* history: how many packets the application has sent on it      *)

senderVars == <<conn, sent>>

ActiveConnection ==
  [state: {"UNOPENED", "IDLE", "SYN_SEND", "SYN_ACK_WAIT", "ACTIVE",
           "FIN_SEND", "FIN_ACK_WAIT"},
   closed: BOOLEAN, sending: {"no", "SYN", "FIN"}, lastSent: Seqno0,
   finCnt: 0 .. MaxNumRetx, recover: SUBSET Seqno]

(* "closed": its task is gone and has called close, its last command.      *)
(* "sending" is the packet in the send buffer whose sendDone matters.      *)
(* resetConnection; "UNOPENED" is the IDLE a stream is in before its only  *)
(* open, a tid being given to one task only.                               *)
Idle(state) == [state |-> state, closed |-> FALSE, sending |-> "no", lastSent |-> 0,
                finCnt |-> 0, recover |-> {}]
Reset == Idle("IDLE")

SenderInit ==
  /\ conn = [s \in Stream |-> Idle("UNOPENED")]
  /\ sent = [s \in Stream |-> 0]

Goto(s, state) == conn' = [conn EXCEPT ![s].state = state]

(* isValidConnection: packets for a connection that was reset are dropped. *)
Open(s) == conn[s].state \notin {"UNOPENED", "IDLE"}

-----------------------------------------------------------------------------
(* Commands and tasks.                                                     *)

ConnectionSend_open(s) ==
  /\ conn[s].state = "UNOPENED"
  /\ Goto(s, "SYN_SEND")
  /\ UNCHANGED <<net, sent>>

send_SYN(s) ==
  /\ conn[s].state = "SYN_SEND" /\ conn[s].sending = "no"
  /\ conn' = [conn EXCEPT ![s].state = "SYN_ACK_WAIT", ![s].sending = "SYN"]
  /\ net' = Sending(net, Pkt(s, "SYN", 0))
  /\ UNCHANGED sent

ConnectionSend_send(s) ==
  /\ conn[s].state = "ACTIVE" /\ conn[s].sending = "no" /\ ~conn[s].closed
  /\ sent[s] < MaxData
  /\ conn' = [conn EXCEPT ![s].lastSent = SeqNext(@)]
  /\ net' = Sending(net, Pkt(s, "DATA", SeqNext(conn[s].lastSent)))
  /\ sent' = [sent EXCEPT ![s] = @ + 1]

(* retransmitDataPacket for a number of the list that was read from the    *)
(* flash.  It may have been asked for again meanwhile.                     *)
Retransmit(s, m) ==
  /\ Open(s) /\ conn[s].sending = "no" /\ m \in conn[s].recover
  /\ \E R \in {conn[s].recover, conn[s].recover \ {m}} :
       conn' = [conn EXCEPT ![s].recover = R]
  /\ net' = IF SeqCmp(conn[s].lastSent, m) >= 0 /\ m <= sent[s]
            THEN Sending(net, Pkt(s, "DATA_RETX", m)) ELSE net
  /\ UNCHANGED sent

(* readLogger, readDone and retransmitDataPacket drop a number that was    *)
(* never sent, is not in the flash or is no longer the first of the list.  *)
Forget(s, m) ==
  /\ Open(s) /\ m \in conn[s].recover
  /\ conn' = [conn EXCEPT ![s].recover = @ \ {m}]
  /\ UNCHANGED <<net, sent>>

(* close is called when the task is deleted, whatever the state is.        *)
ConnectionSend_close(s) ==
  /\ Open(s) /\ ~conn[s].closed
  /\ conn' = [conn EXCEPT ![s].state = "FIN_SEND", ![s].closed = TRUE]
  /\ UNCHANGED <<net, sent>>

send_FIN(s) ==
  /\ conn[s].state = "FIN_SEND" /\ conn[s].sending = "no"
  /\ conn' = [conn EXCEPT ![s].state = "FIN_ACK_WAIT", ![s].sending = "FIN"]
  /\ net' = Sending(net, Pkt(s, "FIN", SeqNext(conn[s].lastSent)))
  /\ UNCHANGED sent

-----------------------------------------------------------------------------
(* Packets from the master: RoutingReceive.receive.                        *)

(* Variant: a SYN_ACK is believed in every state.                          *)
SynAckAlways(p) ==
  /\ p.flag = "SYN_ACK"
  /\ conn' = IF Open(p.s)
             THEN [conn EXCEPT ![p.s].state = "ACTIVE", ![p.s].lastSent = 0]
             ELSE conn

Receive_SYN_ACK(p) ==
  /\ p.flag = "SYN_ACK"
  /\ conn' = IF conn[p.s].state = "SYN_ACK_WAIT"
             THEN [conn EXCEPT ![p.s].state = "ACTIVE", ![p.s].lastSent = 0]
             ELSE conn

Receive_FIN_ACK(p) ==
  /\ p.flag = "FIN_ACK"
  /\ conn' = IF Open(p.s) THEN [conn EXCEPT ![p.s] = Reset] ELSE conn

(* process_NACK_packet stops at the first number that is out of range or   *)
(* when the list is full, which the other connection of the mote fills as  *)
(* well; one more number may be in the buffer between flash and radio.     *)
InRange(s, list) ==
  {m \in list : \A k \in list :
     SeqCmp(k, m) <= 0 => SeqDiff(conn[s].lastSent, k) <= TrValidRange}

Receive_NACK(p) ==
  LET c     == conn[p.s]
      asked == InRange(p.s, p.list) \ c.recover
  IN
  /\ p.flag = "NACK"
  /\ \E n \in 0 .. (RListLen + 1 - Cardinality(c.recover)) :
       conn' = IF Open(p.s)
               THEN [conn EXCEPT ![p.s].recover = @ \cup Oldest(asked, n)]
               ELSE conn

SenderReceive(p) ==
  /\ p \in net
  /\ Receive_SYN_ACK(p) \/ Receive_FIN_ACK(p) \/ Receive_NACK(p)
  /\ net' \in AfterReceipt(p)
  /\ UNCHANGED sent

-----------------------------------------------------------------------------
(* StateTimerFired.  While the SYN is unanswered lastSentSeqNo counts its  *)
(* retransmissions.                                                        *)

SynTimeout(s) ==
  /\ conn[s].state = "SYN_ACK_WAIT"
  /\ \/ /\ conn[s].lastSent < MaxNumRetx
        /\ conn' = [conn EXCEPT ![s].lastSent = @ + 1, ![s].state = "SYN_SEND"]
     \/ /\ conn[s].lastSent >= MaxNumRetx
        /\ conn' = [conn EXCEPT ![s] = Reset]
  /\ UNCHANGED <<net, sent>>

(* Variants: retransmissions are counted without a limit, or not counted.  *)
FinUnlimited(s) ==
  /\ conn[s].state = "FIN_ACK_WAIT"
  /\ conn' = [conn EXCEPT ![s].finCnt = @ + 1, ![s].state = "FIN_SEND"]
  /\ UNCHANGED <<net, sent>>

FinUncounted(s) ==
  /\ conn[s].state = "FIN_ACK_WAIT"
  /\ Goto(s, "FIN_SEND")
  /\ UNCHANGED <<net, sent>>

FinTimeout(s) ==
  /\ conn[s].state = "FIN_ACK_WAIT"
  /\ \/ /\ conn[s].finCnt + 1 < MaxNumRetx
        /\ conn' = [conn EXCEPT ![s].finCnt = @ + 1, ![s].state = "FIN_SEND"]
     \/ /\ conn[s].finCnt + 1 >= MaxNumRetx
        /\ conn' = [conn EXCEPT ![s] = Reset]
  /\ UNCHANGED <<net, sent>>

(* RoutingSend.sendDone.  A SYN or FIN that failed is sent again, whatever *)
(* has become of the connection in the meantime.                           *)
SendDone(s, success) ==
  /\ conn[s].sending # "no"
  /\ conn' = [conn EXCEPT ![s].sending = "no",
                          ![s].state = IF success THEN @
                                       ELSE IF conn[s].sending = "SYN" THEN "SYN_SEND"
                                       ELSE "FIN_SEND"]
  /\ UNCHANGED <<net, sent>>

SenderNext ==
  \/ \E s \in Stream :
       \/ ConnectionSend_open(s) \/ send_SYN(s) \/ ConnectionSend_send(s)
       \/ ConnectionSend_close(s) \/ send_FIN(s)
       \/ \E m \in Seqno : Retransmit(s, m) \/ Forget(s, m)
       \/ SynTimeout(s) \/ FinTimeout(s)
       \/ \E success \in BOOLEAN : SendDone(s, success)
  \/ \E p \in net : SenderReceive(p)

SenderTypeOK ==
  /\ conn \in [Stream -> ActiveConnection]
  /\ sent \in [Stream -> 0 .. MaxData]
=============================================================================
