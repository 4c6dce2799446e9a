------------------------------ MODULE StrMaster ------------------------------
(***************************************************************************)
(* The master's (passive, receiving) end of the stream transport,          *)
(* src/master/transport/streamtransport.c, with the part of                *)
(* transportmain.c and tidlist.c that closes a tid.                        *)
(*                                                                         *)
(* The master is one thread: select() hands it a packet, a client request  *)
(* or a timer poll, and each handler runs to completion, so each handler   *)
(* is one action.  Time is abstract: STR_Timer_start arms an alarm, an     *)
(* armed alarm becomes due at any later moment and stays due until the     *)
(* handler re-arms it.  A packet is known by its sequence number.          *)
(***************************************************************************)
EXTENDS StrNet, Sequences

CONSTANTS
  Tid,              (* the tids the clients have handed out                *)
  TidOf,            (* the tid of a stream                                 *)
  MaxTimeoutCount,  (* MAX_TIMEOUT_COUNT (50)                              *)
  NackListLen,      (* STR_NACK_MLIST_LEN (5)                              *)
  OtherTransports   (* which of the two other transports may have          *)
                    (* connections of a tid: "packet", "rcrt"              *)

ASSUME StrMasterAssumption ==
  /\ TidOf \in [Stream -> Tid]
  /\ MaxTimeoutCount \in Nat \ {0}
  /\ NackListLen \in Nat \ {0}
  /\ OtherTransports \subseteq {"packet", "rcrt"}

VARIABLES
  m_strcs,    (* the connection list, newest first                         *)
  cs,         (* the connection state of each stream                       *)
  tids,       (* what the tid list holds of each tid                       *)
  others,     (* the other transports that have a connection of each tid   *)
  delivered,  (* history: what receive_streamtransport got, in order       *)
  givenUp     (* history: numbers the master stopped asking or waiting for *)

streamVars == <<m_strcs, cs, tids, delivered, givenUp>>

masterVars == <<m_strcs, cs, tids, others, delivered, givenUp>>

Connected == {"PASSIVE", "NACK_WAIT", "FIN_NACK_WAIT", "FINISHED"}

Connection ==
  [state: Connected \cup {"NONE"}, deletePending: BOOLEAN,
   timeoutCount: 0 .. MaxTimeoutCount, nextExpected: Seqno, lastRecv: Seqno0,
   missing: SUBSET Seqno, plist: SUBSET Seqno, alarm: {"off", "armed", "due"}]

(* "NONE": the stream is not in the list.  create_str_connection is called *)
(* with the SYN's number, which is 0.                                      *)
NoConnection ==
  [state |-> "NONE", deletePending |-> FALSE, timeoutCount |-> 0,
   nextExpected |-> 1, lastRecv |-> 0, missing |-> {}, plist |-> {}, alarm |-> "off"]

NewConnection == [NoConnection EXCEPT !.state = "PASSIVE"]

MasterInit ==
  /\ m_strcs = <<>>
  /\ cs = [s \in Stream |-> NoConnection]
  /\ tids = [t \in Tid |-> "task"]
  /\ others = [t \in Tid |-> {}]
  /\ delivered = [s \in Stream |-> <<>>]
  /\ givenUp = [s \in Stream |-> {}]

-----------------------------------------------------------------------------
(* Pieces of the handlers, as functions of a connection record c.          *)

(* Variant: the alarm is cleared and not set again.                        *)
AlarmForgotten(c) == [c EXCEPT !.alarm = "off"]

STR_Timer_start(c) == [c EXCEPT !.alarm = "armed"]

(* Variant: the gap ends one number early.                                 *)
GapShort(c, seqno) ==
  IF SeqCmp(seqno, c.lastRecv) > 0 THEN Between(c.lastRecv, SeqPrev(seqno)) ELSE {}

(* detectMissingPacket: the numbers a packet newer than all others skips.  *)
Gap(c, seqno) ==
  IF SeqCmp(seqno, c.lastRecv) > 0 THEN Between(c.lastRecv, seqno) ELSE {}

(* Variant: lastRecvSeqNo is advanced before the gap is looked for.        *)
NotedTooSoon(c, seqno) ==
  IF SeqCmp(seqno, c.lastRecv) > 0 THEN [c EXCEPT !.lastRecv = seqno] ELSE c

NoteSeqno(c, seqno) ==
  IF SeqCmp(seqno, c.lastRecv) > 0
  THEN [c EXCEPT !.missing = @ \cup Gap(c, seqno), !.lastRecv = seqno]
  ELSE c

(* Variant: they are forgotten one number too early.                       *)
TooOldSoon(c) ==
  {m \in c.missing : SeqCmp(c.lastRecv, SeqAdd(m, TrValidRange - 1)) >= 0}

(* send_NACK first forgets the numbers that are TrValidRange behind.       *)
TooOld(c) == {m \in c.missing : SeqCmp(c.lastRecv, SeqAdd(m, TrValidRange)) >= 0}

(* Variant: what was asked for once is taken off the list.                 *)
AskedOnce(c) == STR_Timer_start([c EXCEPT !.missing = {}])

AfterNack(c) == STR_Timer_start([c EXCEPT !.missing = @ \ TooOld(c)])

NackOf(s, c) == Nack(s, c.lastRecv, Oldest(c.missing \ TooOld(c), NackListLen))

(* receive_str_msg: the queue once seqno is in it; the queued packets that *)
(* are TrValidRange older than seqno and are delivered although something  *)
(* before them is missing; where in-order delivery resumes after those;    *)
(* and the first number from there on that is not at hand.                 *)
Queue(c, seqno) ==
  IF SeqCmp(seqno, c.nextExpected) < 0 THEN c.plist ELSE c.plist \cup {seqno}

Overdue(c, seqno) ==
  {f \in c.plist : SeqCmp(seqno, SeqAdd(f, TrValidRange)) >= 0}

ResumesAt(c, seqno) ==
  LET overdue == Overdue(c, seqno)
      newest  == {f \in overdue : \A g \in overdue : SeqCmp(g, f) <= 0}
  IN  IF overdue = {} THEN {c.nextExpected} ELSE {SeqNext(f) : f \in newest}

RunEndsAt(have, r, n) ==
  /\ n \notin have
  /\ SeqCmp(n, r) >= 0
  /\ \A x \in Seqno : SeqCmp(x, r) >= 0 /\ SeqCmp(x, n) < 0 => x \in have

(* The members of D, oldest first.                                         *)
InOrder(D) ==
  {out \in [1 .. Cardinality(D) -> D] :
     /\ \A i, j \in DOMAIN out : i < j => SeqCmp(out[i], out[j]) < 0
     /\ \A d \in D : \E i \in DOMAIN out : out[i] = d}

(* Variant: the packet that is next is counted, but not handed over.       *)
ReadyQueued(c, seqno, n) ==
  {x \in c.plist : SeqCmp(x, c.nextExpected) >= 0 /\ SeqCmp(x, n) < 0}

(* The whole of receive_str_msg: c before, n the next number expected      *)
(* afterwards.  Ready goes to the client, Skipped never will, Dispatched   *)
(* is the connection then.                                                 *)
Ready(c, seqno, n) ==
  {x \in Queue(c, seqno) : SeqCmp(x, c.nextExpected) >= 0 /\ SeqCmp(x, n) < 0}

Skipped(c, seqno, n) ==
  {x \in Seqno \ Queue(c, seqno) : SeqCmp(x, c.nextExpected) >= 0 /\ SeqCmp(x, n) < 0}

(* Variant: packets that leave the queue do not count as received.         *)
CountedOnce(c, seqno, n) ==
  [c EXCEPT !.timeoutCount = 0,
            !.nextExpected = IF n = c.nextExpected THEN n ELSE SeqNext(c.nextExpected),
            !.plist = {x \in Queue(c, seqno) : SeqCmp(x, n) > 0}]

Dispatched(c, seqno, n) ==
  [c EXCEPT !.timeoutCount = 0, !.nextExpected = n,
            !.plist = {x \in Queue(c, seqno) : SeqCmp(x, n) > 0}]

DispatchEndsAt(c, seqno, n) ==
  \E r \in ResumesAt(c, seqno) : RunEndsAt(Queue(c, seqno), r, n)

-----------------------------------------------------------------------------
(* Closing a tid (transportmain.c, tidlist.c).                             *)

(* streamtransport_tid_is_alive, over the connections k.                   *)
TidIsAlive(k, t) ==
  \E s \in Stream : TidOf[s] = t /\ k[s].state \in Connected \ {"FINISHED"}

(* check_transport_connections: the packet and the rate-controlled         *)
(* transport (o) are asked as well.                                        *)
TransportIsAlive(k, o, t) == TidIsAlive(k, t) \/ o # {}

(* check_close_done: the close is acknowledged and the tid removed once no *)
(* transport has a live connection of it.                                  *)
CheckCloseDone(k, t) ==
  tids' = IF tids[t] = "close" /\ ~TransportIsAlive(k, others[t], t)
          THEN [tids EXCEPT ![t] = "acked"] ELSE tids

(* Variant: the callback comes before the state is FINISHED.               *)
DeleteDoneEarly(k, s) ==
  IF k[s].deletePending /\ ~TidIsAlive(cs, TidOf[s])
  THEN CheckCloseDone(k, TidOf[s]) ELSE UNCHANGED tids

(* streamtransport_tid_delete_done, called by a connection that has just   *)
(* become FINISHED.                                                        *)
DeleteDone(k, s) ==
  IF k[s].deletePending /\ ~TidIsAlive(k, TidOf[s])
  THEN CheckCloseDone(k, TidOf[s]) ELSE UNCHANGED tids

(* A packet does not outlive the stream it opened: when a connection is    *)
(* deleted its SYN is no longer in flight.                                 *)
WithoutSyn(S) == {p \in net : ~(p.flag = "SYN" /\ p.s \in S)}

(* The connections of list that are in S, in the order they had.           *)
Sublist(list, S) ==
  {kept \in [1 .. Cardinality(S) -> S] :
     \A i, j \in DOMAIN kept : i < j =>
       \E a, b \in DOMAIN list : a < b /\ list[a] = kept[i] /\ list[b] = kept[j]}

Unlinked == m_strcs' \in Sublist(m_strcs, {s \in Stream : cs'[s].state # "NONE"})

(* delete_str_connection, as called by the timer.                          *)
Delete(s) ==
  /\ cs' = [cs EXCEPT ![s] = NoConnection]
  /\ Unlinked
  /\ net' = WithoutSyn({s})
  /\ UNCHANGED <<tids, delivered, givenUp>>

-----------------------------------------------------------------------------
(* Packets from the network: streamtransport_receive.                      *)

Reply(p, q) == \E rest \in AfterReceipt(p) : net' = Sending(rest, q)
NoReply(p)  == net' \in AfterReceipt(p)

Receive_SYN(p) ==
  /\ p.flag = "SYN"
  /\ \/ /\ cs[p.s].state = "NONE"
        /\ cs' = [cs EXCEPT ![p.s] = STR_Timer_start(NewConnection)]
        /\ m_strcs' = <<p.s>> \o m_strcs
     \/ /\ cs[p.s].state # "NONE"
        /\ cs' = [cs EXCEPT ![p.s] = STR_Timer_start(cs[p.s])]
        /\ UNCHANGED m_strcs
  /\ Reply(p, Pkt(p.s, "SYN_ACK", 0))
  /\ UNCHANGED <<tids, delivered, givenUp>>

(* A FIN for a connection the master does not know is acknowledged.        *)
Receive_FIN_unknown(p) ==
  /\ p.flag = "FIN" /\ cs[p.s].state = "NONE"
  /\ Reply(p, Pkt(p.s, "FIN_ACK", p.seqno))
  /\ UNCHANGED masterVars

(* s_send_FIN_ACK, state FINISHED, and the callback to transportmain.      *)
Finish(s, c, p) ==
  /\ cs' = [cs EXCEPT ![s] = STR_Timer_start([c EXCEPT !.state = "FINISHED"])]
  /\ Reply(p, Pkt(s, "FIN_ACK", c.lastRecv))
  /\ DeleteDone(cs', s)

Receive_FIN(p) ==
  LET c == NoteSeqno(cs[p.s], p.seqno) IN
  /\ p.flag = "FIN" /\ cs[p.s].state # "NONE"
  /\ \/ /\ c.missing = {}
        /\ Finish(p.s, c, p)
        /\ UNCHANGED givenUp
     \/ /\ c.missing # {}
        /\ cs' = [cs EXCEPT ![p.s] =
                    [AfterNack(c) EXCEPT !.timeoutCount = 0, !.state = "FIN_NACK_WAIT"]]
        /\ Reply(p, NackOf(p.s, c))
        /\ givenUp' = [givenUp EXCEPT ![p.s] = @ \cup TooOld(c)]
        /\ UNCHANGED tids
  /\ UNCHANGED <<m_strcs, delivered>>

Receive_DATA_unknown(p) ==
  /\ p.flag \in {"DATA", "DATA_RETX"} /\ cs[p.s].state = "NONE"
  /\ NoReply(p)
  /\ UNCHANGED masterVars

(* The connection once data packet p is noted; a retransmission is struck  *)
(* off the missing list.                                                   *)
Noted(p) ==
  LET noted == NoteSeqno(cs[p.s], p.seqno)
  IN  IF p.flag = "DATA_RETX" THEN [noted EXCEPT !.missing = @ \ {p.seqno}] ELSE noted

(* Then p is dispatched, which leaves d and skips the numbers K.  If p was *)
(* newer than expected the gap is asked for.                               *)
AnswerGap(p, d, K) ==
  /\ cs' = [cs EXCEPT ![p.s] =
              [AfterNack(d) EXCEPT !.state = IF @ = "PASSIVE" THEN "NACK_WAIT" ELSE @]]
  /\ Reply(p, NackOf(p.s, d))
  /\ givenUp' = [givenUp EXCEPT ![p.s] = @ \cup K \cup TooOld(d)]
  /\ UNCHANGED tids

(* If not, it may have been the last packet that was missing.              *)
AnswerNoGap(p, d, K) ==
  /\ givenUp' = [givenUp EXCEPT ![p.s] = @ \cup K]
  /\ \/ /\ d.missing = {} /\ d.state = "FIN_NACK_WAIT"
        /\ Finish(p.s, d, p)
     \/ /\ d.missing = {} /\ d.state = "NACK_WAIT"
        /\ cs' = [cs EXCEPT ![p.s] = STR_Timer_start([d EXCEPT !.state = "PASSIVE"])]
        /\ NoReply(p)
        /\ UNCHANGED tids
     \/ /\ d.missing # {} \/ d.state \in {"PASSIVE", "FINISHED"}
        /\ cs' = [cs EXCEPT ![p.s] = d]
        /\ NoReply(p)
        /\ UNCHANGED tids

Receive_DATA(p) ==
  LET c == Noted(p) IN
  /\ p.flag \in {"DATA", "DATA_RETX"} /\ cs[p.s].state # "NONE"
  /\ \E n \in Seqno :
       LET d == Dispatched(c, p.seqno, n)
           K == Skipped(c, p.seqno, n)
       IN
       /\ DispatchEndsAt(c, p.seqno, n)
       /\ \E out \in InOrder(Ready(c, p.seqno, n)) :
            delivered' = [delivered EXCEPT ![p.s] = @ \o out]
       /\ \/ Gap(cs[p.s], p.seqno) # {} /\ AnswerGap(p, d, K)
          \/ Gap(cs[p.s], p.seqno) = {} /\ AnswerNoGap(p, d, K)
  /\ UNCHANGED m_strcs

Receive(p) ==
  /\ p \in net
  /\ \/ Receive_SYN(p)
     \/ Receive_FIN_unknown(p)  \/ Receive_FIN(p)
     \/ Receive_DATA_unknown(p) \/ Receive_DATA(p)

-----------------------------------------------------------------------------
(* Timers: polling_streamtransport_timer and STR_Timer_fired.              *)

(* Time passes: an armed alarm falls due.                                  *)
Expire(s) ==
  /\ cs[s].alarm = "armed"
  /\ cs' = [cs EXCEPT ![s].alarm = "due"]
  /\ UNCHANGED <<net, m_strcs, tids, delivered, givenUp>>

Fired_FINISHED(s) == cs[s].state = "FINISHED" /\ Delete(s)

Fired_NACK_WAIT(s) ==
  LET c == [cs[s] EXCEPT !.timeoutCount = @ + 1] IN
  /\ c.state \in {"NACK_WAIT", "FIN_NACK_WAIT"}
  /\ \/ /\ c.timeoutCount >= MaxTimeoutCount
        /\ Delete(s)
     \/ /\ c.timeoutCount < MaxTimeoutCount /\ c.missing # {}
        /\ cs' = [cs EXCEPT ![s] = AfterNack(c)]
        /\ net' = Sending(net, NackOf(s, c))
        /\ givenUp' = [givenUp EXCEPT ![s] = @ \cup TooOld(c)]
        /\ UNCHANGED <<m_strcs, tids, delivered>>
     \/ /\ c.timeoutCount < MaxTimeoutCount /\ c.missing = {}
        /\ c.state = "NACK_WAIT"
        /\ cs' = [cs EXCEPT ![s] = STR_Timer_start([c EXCEPT !.state = "PASSIVE"])]
        /\ UNCHANGED <<net, m_strcs, tids, delivered, givenUp>>
     \/ /\ c.timeoutCount < MaxTimeoutCount /\ c.missing = {}
        /\ c.state = "FIN_NACK_WAIT"
        /\ cs' = [cs EXCEPT ![s] = STR_Timer_start([c EXCEPT !.state = "FINISHED"])]
        /\ net' = Sending(net, Pkt(s, "FIN_ACK", c.lastRecv))
        /\ DeleteDone(cs', s)
        /\ UNCHANGED <<m_strcs, delivered, givenUp>>

(* A passive connection is deleted only when a close asked for it.         *)
Fired_PASSIVE(s) ==
  /\ cs[s].state = "PASSIVE"
  /\ \/ cs[s].deletePending /\ Delete(s)
     \/ ~cs[s].deletePending /\ UNCHANGED <<net, masterVars>>

STR_Timer_fired(s) == Fired_FINISHED(s) \/ Fired_NACK_WAIT(s) \/ Fired_PASSIVE(s)

(* Each poll serves the first due connection of the list and stops there.  *)
FirstDue(s) ==
  \E i \in DOMAIN m_strcs :
    /\ m_strcs[i] = s /\ cs[s].alarm = "due"
    /\ \A j \in 1 .. (i - 1) : cs[m_strcs[j]].alarm # "due"

Poll == \E s \in Stream : FirstDue(s) /\ STR_Timer_fired(s)

-----------------------------------------------------------------------------
(* Requests of the clients.                                                *)

(* close_transport_connections: packet connections go, and of streams the  *)
(* finished ones; the others are marked.  A rate-controlled connection     *)
(* goes if it never received a packet, and is marked if it did.            *)
DeleteTid(t) ==
  /\ cs' = [s \in Stream |->
              IF TidOf[s] # t \/ cs[s].state = "NONE" THEN cs[s]
              ELSE IF cs[s].state = "FINISHED" THEN NoConnection
              ELSE [cs[s] EXCEPT !.deletePending = TRUE]]
  /\ Unlinked
  /\ net' = WithoutSyn({s \in Stream : TidOf[s] = t /\ cs[s].state = "FINISHED"})
  /\ \E marked \in SUBSET (others[t] \ {"packet"}) : others' = [others EXCEPT ![t] = marked]

(* TRANS_TYPE_CLOSE in check_clients: mark, delete, and acknowledge if     *)
(* nothing is left.  (Telling the motes is TaskClose of the composition.)  *)
ClientClose(t) ==
  /\ tids[t] \in {"task", "close"}
  /\ DeleteTid(t)
  /\ tids' = [tids EXCEPT ![t] =
                IF TransportIsAlive(cs', others'[t], t) THEN "close" ELSE "acked"]
  /\ UNCHANGED <<delivered, givenUp>>

(* close_all_tid_for_a_client: the client is gone and so is its tid.       *)
ClientGone(t) ==
  /\ tids[t] \in {"task", "close"}
  /\ DeleteTid(t)
  /\ tids' = [tids EXCEPT ![t] = "removed"]
  /\ UNCHANGED <<delivered, givenUp>>

-----------------------------------------------------------------------------
(* The other transports' connections of a tid.  A packet to or from a mote *)
(* creates one, at any time; a packet connection goes with its tid only, a *)
(* rate-controlled one by itself, and neither tells transportmain:         *)
(* finish_rcrt_connection asks whether the tid is alive while its own      *)
(* connection still is.                                                    *)

OtherOpens(t) ==
  /\ \E k \in OtherTransports \ others[t] : others' = [others EXCEPT ![t] = @ \cup {k}]
  /\ UNCHANGED <<net, streamVars>>

OtherEnds(t) ==
  /\ "rcrt" \in others[t]
  /\ others' = [others EXCEPT ![t] = @ \ {"rcrt"}]
  /\ UNCHANGED <<net, streamVars>>

(* What streams do is nothing to the other transports.                     *)
StreamNext ==
  /\ (\E p \in net : Receive(p)) \/ (\E s \in Stream : Expire(s)) \/ Poll
  /\ UNCHANGED others

MasterNext ==
  \/ StreamNext
  \/ \E t \in Tid : ClientClose(t) \/ ClientGone(t) \/ OtherOpens(t) \/ OtherEnds(t)

MasterTypeOK ==
  /\ m_strcs \in Seq(Stream)
  /\ cs \in [Stream -> Connection]
  /\ tids \in [Tid -> {"task", "close", "acked", "removed"}]
  /\ delivered \in [Stream -> Seq(Seqno)]
  /\ givenUp \in [Stream -> SUBSET Seqno]

OthersTypeOK == others \in [Tid -> SUBSET OtherTransports]
=============================================================================
