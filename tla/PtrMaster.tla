------------------------------ MODULE PtrMaster ------------------------------
(***************************************************************************)
(* The master's end of the packet transport,                               *)
(* src/master/transport/packettransport.c, with the part of                *)
(* transportmain.c and tidlist.c that turns a client's unicast task into a *)
(* packet and the outcome into an answer to the client.                    *)
(*                                                                         *)
(* One thread runs every handler to completion, as in StrMaster, and time  *)
(* is abstract in the same way.  A tid's task goes to one mote, so a       *)
(* connection is known by its tid.  The stream transport appears only as   *)
(* the tids it still has connections of.                                   *)
(***************************************************************************)
EXTENDS PtrNet, SequencesExt

CONSTANT Streaming   (* the tids whose task also opens a stream            *)

ASSUME PtrMasterAssumption == Streaming \subseteq Tid

VARIABLES
  m_ptrcs,   (* the connection list, newest first                          *)
  pc,        (* the connection of each tid                                 *)
  tids,      (* what the tid list holds of each tid: nothing before the    *)
             (* client asks ("new") and after it is removed ("gone")       *)
  streams,   (* the tids the stream transport has connections of           *)
  told,      (* history: the answers each tid's client was sent            *)
  got        (* history: the mote's packets given to receive_packettransport *)

ptrMasterVars == <<m_ptrcs, pc, tids, streams, told, got>>

PtrConnection ==
  [sentSeqNo: Nat, retxCount: 0 .. MaxNumRetx, packet: {"none", "task"},
   alarm: {"off", "armed", "due"}]

(* create_ptr_connection; also the value of pc for a tid not in the list.  *)
NewPtr == [sentSeqNo |-> 0, retxCount |-> 0, packet |-> "none", alarm |-> "off"]

PtrMasterInit ==
  /\ m_ptrcs = <<>>
  /\ pc = [t \in Tid |-> NewPtr]
  /\ tids = [t \in Tid |-> "new"]
  /\ streams = {}
  /\ told = [t \in Tid |-> {}]
  /\ got = {}

Linked(t) == \E i \in DOMAIN m_ptrcs : m_ptrcs[i] = t

(* The list once t is found in it or put in front.                         *)
WithConnection(t) == IF Linked(t) THEN m_ptrcs ELSE <<t>> \o m_ptrcs

(* delete_ptr_connection, if there is one.                                 *)
Unlink(t) ==
  \/ ~Linked(t) /\ UNCHANGED m_ptrcs
  \/ \E i \in DOMAIN m_ptrcs : m_ptrcs[i] = t /\ m_ptrcs' = RemoveAt(m_ptrcs, i)

Tell(t, answer) == told' = [told EXCEPT ![t] = @ \cup {answer}]

-----------------------------------------------------------------------------
(* Requests of the client.                                                 *)

(* TRANS_TYPE_TASK to one mote: a tid is assigned, packettransport_send.   *)
SendTask(t) ==
  LET n == pc[t].sentSeqNo + 1 IN
  /\ tids[t] = "new"
  /\ tids' = [tids EXCEPT ![t] = "task"]
  /\ m_ptrcs' = WithConnection(t)
  /\ pc' = [pc EXCEPT ![t] = [sentSeqNo |-> n, retxCount |-> 0,
                              packet |-> "task", alarm |-> "armed"]]
  /\ air' = Put(air, Msg("mote", "SEND", t, n, "task"))
  /\ Tell(t, "RETURN")
  /\ UNCHANGED <<streams, got>>

(* tr_send_close_task sends the deletion over the tid's connection, a new  *)
(* one if there is none; close_transport_connections then removes it.      *)
DeletionSent(t) ==
  /\ air' = Put(air, Msg("mote", "SEND", t, pc[t].sentSeqNo + 1, "close"))
  /\ Unlink(t)
  /\ pc' = [pc EXCEPT ![t] = NewPtr]

(* TRANS_TYPE_CLOSE, which a client may repeat, with its check_close_done. *)
ClientClosesTid(t) ==
  /\ tids[t] \in {"task", "close"}
  /\ DeletionSent(t)
  /\ IF t \in streams
     THEN tids' = [tids EXCEPT ![t] = "close"] /\ UNCHANGED told
     ELSE tids' = [tids EXCEPT ![t] = "gone"] /\ Tell(t, "CLOSE_ACK")
  /\ UNCHANGED <<streams, got>>

(* close_all_tid_for_a_client, for each tid of a client that disconnects.  *)
ClientLeaves(t) ==
  /\ tids[t] \in {"task", "close"}
  /\ DeletionSent(t)
  /\ tids' = [tids EXCEPT ![t] = "gone"]
  /\ UNCHANGED <<streams, told, got>>

(* check_close_done, once some other connection of t has ended.            *)
CloseDone(t, live) ==
  IF tids[t] = "close" /\ ~Linked(t) /\ t \notin live
  THEN tids' = [tids EXCEPT ![t] = "gone"] /\ Tell(t, "CLOSE_ACK")
  ELSE UNCHANGED <<tids, told>>

-----------------------------------------------------------------------------
(* The stream transport, as far as the packet transport sees it.           *)

(* A stream starts once the mote has the task (see PacketTransport).       *)
StreamStarts(t) ==
  /\ t \in Streaming /\ tids[t] = "task" /\ t \notin streams
  /\ streams' = streams \cup {t}
  /\ UNCHANGED <<air, m_ptrcs, pc, tids, told, got>>

(* streamtransport_tid_delete_done, for the last connection of t.          *)
StreamEnds(t) ==
  /\ t \in streams
  /\ streams' = streams \ {t}
  /\ CloseDone(t, streams')
  /\ UNCHANGED <<air, m_ptrcs, pc, got>>

-----------------------------------------------------------------------------
(* senddone_packettransport: the tid's client is told the outcome.  While  *)
(* a close is pending the connection at hand keeps it so: nothing happens. *)

(* Variant: a task that was not acknowledged stays on the tid list.        *)
DoneKeepsTid(t, success) ==
  IF tids[t] = "task"
  THEN Tell(t, IF success THEN "ACK" ELSE "NACK") /\ UNCHANGED tids
  ELSE UNCHANGED <<tids, told>>

SendDoneToApp(t, success) ==
  IF tids[t] # "task" THEN UNCHANGED <<tids, told>>
  ELSE IF success THEN Tell(t, "ACK") /\ UNCHANGED tids
  ELSE Tell(t, "NACK") /\ tids' = [tids EXCEPT ![t] = "gone"]

(* packettransport_receive.  No sequence number of an ACK is looked at.    *)

(* Variant: the alarm is left running.                                     *)
AckLeavesAlarm(m) ==
  /\ m.flag = "ACK"
  /\ IF Linked(m.tid)
     THEN /\ pc' = [pc EXCEPT ![m.tid].packet = "none"]
          /\ SendDoneToApp(m.tid, TRUE)
     ELSE UNCHANGED <<pc, tids, told>>
  /\ air' \in AfterTaking(m)
  /\ UNCHANGED <<m_ptrcs, streams, got>>

MasterGets_ACK(m) ==
  /\ m.flag = "ACK"
  /\ IF Linked(m.tid)
     THEN /\ pc' = [pc EXCEPT ![m.tid].packet = "none", ![m.tid].alarm = "off"]
          /\ SendDoneToApp(m.tid, TRUE)
     ELSE UNCHANGED <<pc, tids, told>>
  /\ air' \in AfterTaking(m)
  /\ UNCHANGED <<m_ptrcs, streams, got>>

MasterGets_SEND(m) ==
  /\ m.flag \in {"SEND", "NOACK_SEND"}
  /\ m_ptrcs' = WithConnection(m.tid)
  /\ got' = got \cup {<<m.tid, m.seqno>>}
  /\ \E a \in AfterTaking(m) :
       air' = IF m.flag = "SEND"
              THEN Put(a, Msg("mote", "ACK", m.tid, m.seqno, "nothing")) ELSE a
  /\ UNCHANGED <<pc, tids, streams, told>>

MasterGets(m) == m.to = "master" /\ (MasterGets_ACK(m) \/ MasterGets_SEND(m))

-----------------------------------------------------------------------------
(* Timers.                                                                 *)

PtrExpire(t) ==
  /\ pc[t].alarm = "armed"
  /\ pc' = [pc EXCEPT ![t].alarm = "due"]
  /\ UNCHANGED <<air, m_ptrcs, tids, streams, told, got>>

(* PTR_Timer_fired.  retx_PTR sends what the connection holds.  Giving up  *)
(* leaves the alarm as it is.                                              *)

(* Variant: one retransmission too many.                                   *)
FiredOnceMore(t) ==
  /\ pc[t].retxCount <= MaxNumRetx
  /\ pc' = [pc EXCEPT ![t].retxCount = @ + 1, ![t].alarm = "armed"]
  /\ air' = Put(air, Msg("mote", "SEND", t, pc[t].sentSeqNo, pc[t].packet))
  /\ UNCHANGED <<tids, told>>

Fired_retx(t) ==
  /\ pc[t].retxCount < MaxNumRetx
  /\ pc' = [pc EXCEPT ![t].retxCount = @ + 1, ![t].alarm = "armed"]
  /\ air' = Put(air, Msg("mote", "SEND", t, pc[t].sentSeqNo, pc[t].packet))
  /\ UNCHANGED <<tids, told>>

(* Variant: the task is given up as if it had been sent.                   *)
GivesUpWithSuccess(t) ==
  /\ pc[t].retxCount >= MaxNumRetx
  /\ pc' = [pc EXCEPT ![t].packet = "none"]
  /\ SendDoneToApp(t, TRUE)
  /\ UNCHANGED air

Fired_giveup(t) ==
  /\ pc[t].retxCount >= MaxNumRetx
  /\ pc' = [pc EXCEPT ![t].packet = "none"]
  /\ SendDoneToApp(t, FALSE)
  /\ UNCHANGED air

(* Variant: the last retransmission is the last word on the task.          *)
FiredNeverGivesUp(t) ==
  /\ pc' = [pc EXCEPT ![t].retxCount = IF @ < MaxNumRetx THEN @ + 1 ELSE @,
                      ![t].alarm = IF pc[t].retxCount < MaxNumRetx THEN "armed" ELSE "off"]
  /\ air' = IF pc[t].retxCount < MaxNumRetx
            THEN Put(air, Msg("mote", "SEND", t, pc[t].sentSeqNo, pc[t].packet)) ELSE air
  /\ UNCHANGED <<tids, told>>

PTR_Timer_fired(t) == Fired_retx(t) \/ Fired_giveup(t)

(* polling_packettransport_timer fires the first due alarm of the list.    *)
PtrFirstDue(i) ==
  /\ pc[m_ptrcs[i]].alarm = "due"
  /\ \A j \in 1 .. (i - 1) : pc[m_ptrcs[j]].alarm # "due"

PtrPoll ==
  /\ \E i \in DOMAIN m_ptrcs : PtrFirstDue(i) /\ PTR_Timer_fired(m_ptrcs[i])
  /\ UNCHANGED <<m_ptrcs, streams, got>>

PtrMasterNext ==
  \/ \E t \in Tid :
       \/ SendTask(t) \/ ClientClosesTid(t) \/ ClientLeaves(t)
       \/ StreamEnds(t) \/ PtrExpire(t)
  \/ \E m \in air : MasterGets(m)
  \/ PtrPoll

PtrMasterTypeOK ==
  /\ m_ptrcs \in Seq(Tid)
  /\ pc \in [Tid -> PtrConnection]
  /\ tids \in [Tid -> {"new", "task", "close", "gone"}]
  /\ streams \subseteq Tid
  /\ told \in [Tid -> SUBSET {"RETURN", "ACK", "NACK", "CLOSE_ACK"}]
  /\ got \subseteq (Tid \X (Nat \ {0}))
=============================================================================
