------------------------------- MODULE StrMote -------------------------------
(***************************************************************************)
(* The mote's end of the stream transport in full                          *)
(* (src/mote/lib/transport/StreamTransportM.nc): two connections that      *)
(* share a send buffer, a log of what was sent (StrLogger), the buffers    *)
(* between the two, a list of numbers to retransmit and a retry timer.     *)
(* StrSender is what it promises the master.                               *)
(*                                                                         *)
(* The state is a record m:                                                *)
(*   c        AConn: [s, state, lastSent, finCnt], s being None when tid   *)
(*            is 0                                                         *)
(*   timer    SubTimer and SubTimer2 are running                           *)
(*   psd      psd[i].pending                                               *)
(*   routing  the packet the routing layer has; sending is routing # NoPkt *)
(*   wbuf, writebusy, rbuf, readbusy   eepromWriteBuf, eepromReadBuf       *)
(*   eeprom, eraseid   eepromState, eraseid                                *)
(*   rlist    recoverList: <<connection, number>>                          *)
(*   pending  postPendingFlag; the RetryTimer runs while it is not empty   *)
(*   posted   the tasks of this module in TinyOS's queue, first in first   *)
(*            out                                                          *)
(*   log      the state of StrLogger                                       *)
(* and what the code does not have:                                        *)
(*   sent, opened, closed   what the application has done with each        *)
(*            stream, closed being also one that is at its end             *)
(*   aired    <<s, flag>>: a SYN or FIN of s has gone out                  *)
(*   owed     the streams that wait for sendDone                           *)
(***************************************************************************)
EXTENDS StrNet, StrLogger, SequencesExt

CONSTANTS
  MaxData, MaxNumRetx, RListLen,   (* as in StrSender                      *)
  Sends,       (* bound: stream -> packets the application sends, at most  *)
               (* MaxData                                                  *)
  Cid,         (* stream -> its cid, the low byte of the tid, as a stream  *)
               (* that has it                                              *)
  None,        (* no stream                                                *)
  MaxPosted,   (* bound: nothing happens while so many tasks are posted    *)
  NackLists,   (* what the master asks for at a time                       *)
  Faults       (* what may go wrong, of FaultKinds                         *)

(* slow: the write of a packet may take longer than all of the closing of  *)
(* its connection.  clash: the log of a connection may be erased while the *)
(* flash is busy.  flash: a write or a read may fail.  radio: the radio may *)
(* refuse a packet.                                                         *)
FaultKinds == {"slow", "clash", "flash", "radio"}

ASSUME StrMoteAssumption ==
  /\ MaxData \in Nat /\ Sends \in [Stream -> 0 .. MaxData]
  /\ MaxNumRetx \in 1 .. TrMaxSeqno /\ RListLen \in Nat \ {0}
  /\ Cid \in [Stream -> Stream] /\ None \notin Stream
  /\ TrValidRange <= FlashPkts /\ TrMaxSeqno % (2 * FlashPkts) = 0
  /\ MaxPosted \in Nat \ {0} /\ NackLists \subseteq SUBSET Seqno
  /\ Faults \subseteq FaultKinds

VARIABLE m

vars == <<net, m>>

NoPkt    == [s |-> None, flag |-> "none", seqno |-> 0, list |-> {}]
IdleConn == [s |-> None, state |-> "IDLE", lastSent |-> 0, finCnt |-> 0]

Init ==
  /\ net = {}
  /\ m = [c |-> [i \in Conns |-> IdleConn], timer |-> [i \in Conns |-> FALSE],
          psd |-> [i \in Conns |-> FALSE], routing |-> NoPkt,
          wbuf |-> Erased, writebusy |-> FALSE, rbuf |-> Erased, readbusy |-> FALSE,
          eeprom |-> "init", eraseid |-> 0, rlist |-> <<>>, pending |-> {},
          posted |-> <<>>, log |-> LogInit,
          sent |-> [s \in Stream |-> 0], opened |-> {}, closed |-> {}, aired |-> {},
          owed |-> {}]

Post(r, task)     == [r EXCEPT !.posted = Append(@, task)]

(* startRetryTimer.                                                         *)
TryLater(r, flag) == [r EXCEPT !.pending = @ \cup {flag}]

(* The connections a test for a cid finds, a cid of 0 being that of IDLE.   *)
WithCid(r, p) ==
  LET Matches(i) == p # Erased /\ r.c[i].s # None /\ Cid[r.c[i].s] = Cid[p[1]]
  IN  IF Matches(0) THEN {0} ELSE {i \in {1} : Matches(i)}

(* isValidConnection.                                                       *)
Valid(r, s) == {i \in Conns : s # None /\ r.c[i].s = s}

(* tr_list_clearID: an entry that is cleared is replaced by the first of    *)
(* the list, which goes.                                                   *)
ClearStep(acc, k, i) ==
  IF acc.l[k][1] = i
  THEN [l |-> [acc.l EXCEPT ![k] = acc.l[acc.first]], first |-> acc.first + 1]
  ELSE acc

ClearID(list, i) ==
  LET out[k \in 0 .. Len(list)] ==
        IF k = 0 THEN [l |-> list, first |-> 1] ELSE ClearStep(out[k - 1], k, i)
      end == out[Len(list)]
  IN  SubSeq(end.l, end.first, Len(list))

(* Variant: the connection is free, but its state is not put back.          *)
ResetKeepsState(r, i) ==
  [r EXCEPT !.c[i] = [IdleConn EXCEPT !.state = r.c[i].state], !.timer[i] = FALSE,
            !.psd[i] = FALSE]

ResetConnection(r, i) ==
  [r EXCEPT !.c[i] = IdleConn, !.timer[i] = FALSE, !.psd[i] = FALSE,
            !.aired = {x \in @ : x[1] # r.c[i].s}, !.closed = @ \cup {r.c[i].s}]

(* Variant: what was asked of the stream is still asked of the connection.  *)
FinishedKeepsList(r, i) ==
  Post([ResetConnection(r, i) EXCEPT !.eraseid = i], "eraseLogger")

(* The end of a connection: its log is to be erased.                        *)
Finished(r, i) ==
  Post([ResetConnection(r, i) EXCEPT !.rlist = ClearID(@, i), !.eraseid = i],
       "eraseLogger")

(* The read buffer is free.  What a buffer that is free holds is never      *)
(* looked at: it is Erased here.                                            *)
FreeRead(r) == [r EXCEPT !.readbusy = FALSE, !.rbuf = Erased]

(* ConnectionSend.sendDone is signalled for connection i.                   *)
Signalled(r, i) == [r EXCEPT !.owed = @ \ {r.c[i].s}, !.psd[i] = FALSE]

-----------------------------------------------------------------------------
(* Commands of the application.                                            *)

ConnectionSend_open(s) ==
  LET idle == {i \in Conns : m.c[i].state = "IDLE"}
      i    == Min(idle)
  IN  /\ s \notin m.opened
      /\ m' = IF idle = {} THEN Post(m, "send_SYN")
              ELSE Post([m EXCEPT !.c[i] = [@ EXCEPT !.s = s, !.state = "SYN_SEND"],
                                  !.opened = @ \cup {s}], "send_SYN")
      /\ UNCHANGED net

(* send, if the radio accepts the packet.                                   *)
ConnectionSend_send(s) ==
  /\ s \in m.opened \ (m.closed \cup m.owed) /\ m.sent[s] < Sends[s]
  /\ \E i \in WithCid(m, <<s, 0>>) :
       LET n == SeqNext(m.c[i].lastSent)
           q == Pkt(m.c[i].s, "DATA", n)
       IN  /\ m.c[i].state = "ACTIVE" /\ m.routing = NoPkt /\ ~m.writebusy
           /\ m' = Post([m EXCEPT !.c[i].lastSent = n, !.routing = q,
                           !.wbuf = <<s, n>>, !.writebusy = TRUE,
                           !.sent[s] = @ + 1, !.owed = @ \cup {s}], "writeLogger")
           /\ net' = Sending(net, q)

ConnectionSend_close(s) ==
  LET found == WithCid(m, <<s, 0>>)
      gone  == [m EXCEPT !.closed = @ \cup {s}]
  IN  /\ s \in m.opened \ m.closed
      /\ m' = IF found = {} THEN gone
              ELSE Post([gone EXCEPT !.c[Min(found)].state = "FIN_SEND"], "send_FIN")
      /\ UNCHANGED net

-----------------------------------------------------------------------------
(* Posted tasks.  r is the state without the task that runs.               *)

writeLogger(r) ==
  LET found == WithCid(r, r.wbuf)
      i     == Min(found)
  IN  IF found = {} \/ ~r.writebusy THEN r
      ELSE IF r.eeprom = "idle" /\ LogWriteOK(r.log, i, r.wbuf[2])
      THEN [r EXCEPT !.log = LogWrite(@, i, r.wbuf), !.eeprom = "busy"]
      ELSE TryLater(r, "WRITE_LOGGER")

readLogger(r) ==
  LET i == Head(r.rlist)[1]
      n == Head(r.rlist)[2]
  IN  IF r.readbusy \/ r.rlist = <<>> THEN r
      ELSE IF r.c[i].s = None \/ SeqCmp(r.c[i].lastSent, n) < 0
      THEN Post([r EXCEPT !.rlist = Tail(@)], "readLogger")
      ELSE IF r.eeprom = "idle" /\ LogReadOK(r.log)
      THEN [r EXCEPT !.log = LogRead(@, i, n), !.eeprom = "busy", !.readbusy = TRUE]
      ELSE TryLater(r, "READ_LOGGER")

(* A failure to erase makes it try to write again.                          *)
eraseLogger(r) ==
  LET asked == [r EXCEPT !.log = LogErase(@, r.eraseid)]
  IN  IF LogEraseOK(r.log) THEN [asked EXCEPT !.eeprom = "init"]
      ELSE TryLater(asked, "WRITE_LOGGER")

(* The mote hands q to the routing layer, or tries later.                   *)
HandsOver(r, q, accepted, flag, ok) ==
  IF ok THEN m' = [accepted EXCEPT !.routing = q] /\ net' = Sending(net, q)
  ELSE m' = TryLater(r, flag) /\ UNCHANGED net

(* Variant: the buffer stays taken when the packet is lost to its stream.   *)
RetransmitKeeps(r, ok) ==
  LET found == WithCid(r, r.rbuf)
      i     == Min(found)
  IN  IF ~r.readbusy THEN m' = r /\ UNCHANGED net
      ELSE IF r.routing # NoPkt
      THEN m' = TryLater(r, "RETRANSMIT") /\ UNCHANGED net
      ELSE IF found = {} THEN m' = r /\ UNCHANGED net
      ELSE HandsOver(r, Pkt(r.c[i].s, "DATA_RETX", r.rbuf[2]),
                     FreeRead(r), "RETRANSMIT", ok)

retransmitDataPacket(r, ok) ==
  LET found == WithCid(r, r.rbuf)
      i     == Min(found)
  IN  IF ~r.readbusy THEN m' = r /\ UNCHANGED net
      ELSE IF r.routing # NoPkt
      THEN m' = TryLater(r, "RETRANSMIT") /\ UNCHANGED net
      ELSE IF found = {} THEN m' = FreeRead(r) /\ UNCHANGED net
      ELSE HandsOver(r, Pkt(r.c[i].s, "DATA_RETX", r.rbuf[2]),
                     FreeRead(r), "RETRANSMIT", ok)

(* send_SYN and send_FIN, for the first connection in the state from.       *)
SendFirst(r, from, to, flag, ok) ==
  LET found == {i \in Conns : r.c[i].state = from}
      i     == Min(found)
      s     == r.c[i].s
      seqno == IF flag = "SYN" THEN 0 ELSE SeqNext(r.c[i].lastSent)
  IN  IF found = {} THEN m' = r /\ UNCHANGED net
      ELSE IF r.routing # NoPkt THEN m' = TryLater(r, flag) /\ UNCHANGED net
      ELSE HandsOver(r, Pkt(s, flag, seqno),
                     [r EXCEPT !.c[i].state = to, !.timer[i] = TRUE,
                               !.aired = @ \cup {<<s, flag>>}], flag, ok)

send_SYN(r, ok) == SendFirst(r, "SYN_SEND", "SYN_ACK_WAIT", "SYN", ok)
send_FIN(r, ok) == SendFirst(r, "FIN_SEND", "FIN_ACK_WAIT", "FIN", ok)

(* The first task of the queue runs.  ok: the radio accepts a packet.       *)
RunTask(ok) ==
  /\ m.posted # <<>> /\ (ok \/ "radio" \in Faults)
  /\ LET r == [m EXCEPT !.posted = Tail(@)]
     IN  CASE Head(m.posted) = "writeLogger" -> m' = writeLogger(r) /\ UNCHANGED net
           [] Head(m.posted) = "readLogger"  -> m' = readLogger(r) /\ UNCHANGED net
           [] Head(m.posted) = "eraseLogger" ->
                /\ "clash" \in Faults \/ LogEraseOK(m.log)
                /\ m' = eraseLogger(r) /\ UNCHANGED net
           [] Head(m.posted) = "retransmitDataPacket" -> retransmitDataPacket(r, ok)
           [] Head(m.posted) = "send_SYN" -> send_SYN(r, ok)
           [] Head(m.posted) = "send_FIN" -> send_FIN(r, ok)

-----------------------------------------------------------------------------
(* Events of the flash.                                                    *)

(* Variant: the sendDone that waits for the write is not signalled.         *)
WriteDoneQuiet(ok) ==
  LET found == WithCid(m, m.wbuf)
      r     == [m EXCEPT !.eeprom = "idle", !.log = LogWritten(@)]
  IN  /\ m.log.op.kind = "write" /\ ok
      /\ m' = IF found = {} THEN r
              ELSE Post([r EXCEPT !.writebusy = FALSE, !.wbuf = Erased], "readLogger")
      /\ UNCHANGED net

writeDone(ok) ==
  LET found == WithCid(m, m.wbuf)
      i     == Min(found)
      r     == [m EXCEPT !.eeprom = "idle",
                         !.log = IF ok THEN LogWritten(@) ELSE [@ EXCEPT !.op = NoOp]]
      done  == [r EXCEPT !.writebusy = FALSE, !.wbuf = Erased]
  IN  /\ m.log.op.kind = "write" /\ (ok \/ "flash" \in Faults)
      /\ m' = IF found = {} THEN r
              ELSE IF ~ok THEN Post(r, "writeLogger")
              ELSE Post(IF r.psd[i] THEN Signalled(done, i) ELSE done, "readLogger")
      /\ UNCHANGED net

readDone(ok) ==
  LET r == [m EXCEPT !.eeprom = "idle", !.log.op = NoOp]
  IN  /\ m.log.op.kind = "read" /\ (ok \/ "flash" \in Faults)
      /\ m' = IF ok
              THEN Post([r EXCEPT !.rbuf = ReadContents(m.log),
                                  !.rlist = IF @ = <<>> THEN @ ELSE Tail(@)],
                        "retransmitDataPacket")
              ELSE TryLater(FreeRead(r), "READ_LOGGER")
      /\ UNCHANGED net

(* eraseDone and initDone.                                                  *)
eraseDone ==
  /\ m.log.op.kind = "erase"
  /\ m' = [m EXCEPT !.log = LogEraseDone(@),
                    !.eeprom = IF LogErasedAll(m.log) THEN "idle" ELSE @]
  /\ UNCHANGED net

-----------------------------------------------------------------------------
(* Events of the radio.                                                    *)

RoutingSend_sendDone(success) ==
  LET q     == m.routing
      found == Valid(m, q.s)
      i     == Min(found)
      r     == [m EXCEPT !.routing = NoPkt]
  IN  /\ q # NoPkt
      /\ m' = CASE q.flag = "DATA" /\ found # {} ->
                     IF m.writebusy THEN [r EXCEPT !.psd[i] = TRUE] ELSE Signalled(r, i)
                [] q.flag = "DATA_RETX" -> TryLater(r, "READ_LOGGER")
                [] q.flag = "SYN" /\ found # {} /\ ~success ->
                     Post([r EXCEPT !.c[i].state = "SYN_SEND"], "send_SYN")
                [] q.flag = "FIN" /\ found # {} /\ ~success ->
                     Post([r EXCEPT !.c[i].state = "FIN_SEND"], "send_FIN")
                [] OTHER -> r
      /\ UNCHANGED net

(* Stream s may lose its connection: its last packet is in the log, and no *)
(* other's log waits to be erased.                                          *)
MayEnd(s) ==
  /\ "slow" \in Faults \/ ~(m.writebusy /\ m.wbuf[1] = s)
  /\ "clash" \in Faults \/ "eraseLogger" \notin Range(m.posted)

(* Variant: a SYN_ACK stops the timer whatever it was started for.          *)
OpenedStopsTimer(r, i) ==
  IF r.c[i].state = "SYN_ACK_WAIT"
  THEN [r EXCEPT !.timer[i] = FALSE, !.c[i] = [@ EXCEPT !.state = "ACTIVE", !.lastSent = 0]]
  ELSE [r EXCEPT !.timer[i] = FALSE]

Opened(r, i) ==
  IF r.c[i].state = "SYN_ACK_WAIT"
  THEN [r EXCEPT !.timer[i] = FALSE, !.c[i] = [@ EXCEPT !.state = "ACTIVE", !.lastSent = 0]]
  ELSE r

(* process_NACK_packet stops at the first number that is out of range or   *)
(* when the list is full, and skips one that is on the list.                *)
Asked(r, list, i) ==
  {n \in list :
     /\ <<i, n>> \notin Range(r.rlist)
     /\ \A k \in list : SeqCmp(k, n) <= 0 =>
                         SeqDiff(r.c[i].lastSent, k) <= TrValidRange}

AskedInOrder(r, list, i) ==
  LET new == Asked(r, list, i)
  IN  {out \in [1 .. Cardinality(new) -> new] :
         /\ \A j, k \in DOMAIN out : j < k => SeqCmp(out[j], out[k]) < 0
         /\ \A n \in new : \E k \in DOMAIN out : out[k] = n}

ProcessNACK(r, list, i) ==
  LET Listed(out) == {k \in DOMAIN out : k <= RListLen - Len(r.rlist)}
  IN  {Post([r EXCEPT !.rlist = @ \o [k \in Listed(out) |-> <<i, out[k]>>]], "readLogger") :
         out \in AskedInOrder(r, list, i)}

RoutingReceive_receive(p) ==
  LET found == Valid(m, p.s)
      i     == Min(found)
  IN  /\ p \in net /\ p.flag \in MoteFlag
      /\ net' = net \ {p}
      /\ CASE found = {} -> UNCHANGED m
           [] found # {} /\ p.flag = "SYN_ACK" ->
                m' = Opened(m, i)
           [] found # {} /\ p.flag = "FIN_ACK" -> MayEnd(p.s) /\ m' = Finished(m, i)
           [] found # {} /\ p.flag = "NACK" ->
                m' \in ProcessNACK([m EXCEPT !.timer[i] =
                                     @ \/ m.c[i].state = "FIN_ACK_WAIT"], p.list, i)

-----------------------------------------------------------------------------
(* Timers.                                                                 *)

StateTimerFired(i) ==
  LET r == [m EXCEPT !.timer[i] = FALSE]
      c == m.c[i]
  IN  /\ m.timer[i]
      /\ CASE c.state = "SYN_ACK_WAIT" ->
                m' = IF c.lastSent < MaxNumRetx
                     THEN Post([r EXCEPT !.c[i] = [@ EXCEPT !.lastSent = c.lastSent + 1,
                                                     !.state = "SYN_SEND"]], "send_SYN")
                     ELSE ResetConnection(r, i)
           [] c.state = "FIN_ACK_WAIT" ->
                IF c.finCnt + 1 < MaxNumRetx
                THEN m' = Post([r EXCEPT !.c[i] = [@ EXCEPT !.finCnt = c.finCnt + 1,
                                                     !.state = "FIN_SEND"]], "send_FIN")
                ELSE MayEnd(c.s) /\ m' = Finished(r, i)
           [] OTHER -> m' = r
      /\ UNCHANGED net

(* What RetryTimer.fired posts for a flag of postPendingFlag.               *)
Again(flag, task) == IF flag \in m.pending THEN <<task>> ELSE <<>>

RetryTimer_fired ==
  LET due == Again("WRITE_LOGGER", "writeLogger") \o Again("READ_LOGGER", "readLogger")
               \o Again("RETRANSMIT", "retransmitDataPacket")
               \o Again("SYN", "send_SYN") \o Again("FIN", "send_FIN")
  IN  /\ m.pending # {}
      /\ m' = [m EXCEPT !.pending = {}, !.posted = @ \o due]
      /\ UNCHANGED net

-----------------------------------------------------------------------------
(* The rest of the world: the master answers a SYN or a FIN, and asks for  *)
(* what it has not received; the channel loses.                            *)

Answers(s) ==
  {Pkt(s, "SYN_ACK", 0) : x \in {y \in m.aired : y = <<s, "SYN">>}}
    \cup {Pkt(s, "FIN_ACK", 0) : x \in {y \in m.aired : y = <<s, "FIN">>}}
    \cup {Nack(s, 0, list) :
            list \in IF m.sent[s] > 0 \/ <<s, "FIN">> \in m.aired THEN NackLists ELSE {}}

MasterAnswers ==
  /\ \E s \in Stream : \E q \in Answers(s) :
       Valid(m, s) # {} /\ q \notin net /\ net' = Sending(net, q)
  /\ UNCHANGED m

Loses == (\E p \in net : Lose(p)) /\ UNCHANGED m

Ready == Len(m.posted) < MaxPosted

(* What is in the air is received or lost before anything else happens: an *)
(* answer that comes later or twice is one that the master sent later or   *)
(* again.                                                                  *)
Next ==
  \/ /\ net # {}
     /\ Loses \/ \E p \in net : RoutingReceive_receive(p)
  \/ /\ net = {}
     /\ \E ok \in BOOLEAN : RunTask(ok)
  \/ /\ net = {} /\ Ready
     /\ \/ \E s \in Stream :
             ConnectionSend_open(s) \/ ConnectionSend_send(s) \/ ConnectionSend_close(s)
        \/ \E ok \in BOOLEAN : writeDone(ok) \/ readDone(ok) \/ RoutingSend_sendDone(ok)
        \/ eraseDone
        \/ \E i \in Conns : StateTimerFired(i)
        \/ RetryTimer_fired
        \/ MasterAnswers

Spec == Init /\ [][Next]_vars

(* writeLogger runs.                                                        *)
Writes == m.posted # <<>> /\ Head(m.posted) = "writeLogger" /\ RunTask(TRUE)

(* TinyOS runs what is posted and fires what is armed, the flash and the    *)
(* radio end what they began, not every packet is refused, and writeLogger  *)
(* does not find the flash reading for ever.                                *)
Fairness ==
  /\ []<><<m.posted # <<>> => RunTask(TRUE)>>_vars
  /\ []<><<m.pending # {} => RetryTimer_fired>>_vars
  /\ []<><<m.log.op.kind # "none" => writeDone(TRUE) \/ readDone(TRUE) \/ eraseDone>>_vars
  /\ []<><<m.routing # NoPkt => RoutingSend_sendDone(TRUE)>>_vars
  /\ []<><<Writes>>_vars => []<><<Writes /\ m.log.op.kind # "read">>_vars

FairSpec == Spec /\ Fairness

-----------------------------------------------------------------------------
(* Properties.                                                             *)

TypeOK ==
  /\ net \in SUBSET Packet
  /\ \A i \in Conns :
       /\ m.c[i].s \in Stream \cup {None} /\ m.c[i].lastSent \in Seqno0
       /\ m.c[i].finCnt \in 0 .. MaxNumRetx - 1
       /\ m.c[i].s = None <=> m.c[i].state = "IDLE"
  /\ m.eeprom \in {"init", "idle", "busy"} /\ m.eraseid \in Conns
  /\ Range(m.rlist) \subseteq Conns \X Seqno /\ Len(m.rlist) <= RListLen
  /\ m.wbuf \in {Erased} \cup (Stream \X Seqno) /\ m.rbuf \in {Erased} \cup (Stream \X Seqno)

(* A connection that waits for an answer has its timer running.             *)
AnswerIsTimed ==
  \A i \in Conns : m.c[i].state \in {"SYN_ACK_WAIT", "FIN_ACK_WAIT"} => m.timer[i]

(* The read buffer is taken only while something is under way that will    *)
(* free it.                                                                *)
ReadBusyIsServed ==
  m.readbusy => \/ m.log.op.kind = "read"
                \/ "retransmitDataPacket" \in Range(m.posted)
                \/ "RETRANSMIT" \in m.pending


(* ConnectionSend.sendDone is signalled once for each packet accepted, in   *)
(* the order they were: an application that keeps only the last one, as     *)
(* SendSTR does, is never told of another.                                  *)
OneOwed ==
  /\ Cardinality(m.owed) <= 1
  /\ \A s \in m.owed :
       \/ m.routing.flag = "DATA" /\ m.routing.s = s
       \/ m.writebusy /\ \E i \in Valid(m, s) : m.psd[i]


(* It is written, and its sendDone signalled: the mote can send again.      *)
SendAnswered == (m.writebusy \/ m.owed # {}) ~> (~m.writebusy /\ m.owed = {})

(* A number that the master asked for is dealt with: what reads it is under *)
(* way or waits.                                                            *)
RecoverIsServed ==
  m.rlist # <<>> => \/ m.readbusy \/ m.routing.flag = "DATA_RETX"
                    \/ "readLogger" \in Range(m.posted)
                    \/ "READ_LOGGER" \in m.pending

(* A connection that is to send its SYN or FIN will.                        *)
HandshakeIsServed ==
  \A i \in Conns :
    /\ m.c[i].state = "SYN_SEND" => "send_SYN" \in Range(m.posted) \/ "SYN" \in m.pending
    /\ m.c[i].state = "FIN_SEND" => "send_FIN" \in Range(m.posted) \/ "FIN" \in m.pending

-----------------------------------------------------------------------------
(* What the mote does on each stream is what StrSender allows.             *)

ConnOf(s) ==
  LET at  == Valid(m, s)
      i   == Min(at)
      c   == m.c[i]
      buf == IF m.readbusy /\ m.log.op.kind # "read" /\ m.rbuf # Erased /\ m.rbuf[1] = s
             THEN {m.rbuf[2]} ELSE {}
  IN  IF at = {}
      THEN [state |-> IF s \in m.opened THEN "IDLE" ELSE "UNOPENED", closed |-> FALSE,
            sending |-> "no", lastSent |-> 0, finCnt |-> 0, recover |-> {}]
      ELSE [state |-> c.state, closed |-> s \in m.closed,
            sending |-> IF m.routing.s = s /\ m.routing.flag \in {"SYN", "FIN"}
                        THEN m.routing.flag ELSE "no",
            lastSent |-> c.lastSent, finCnt |-> c.finCnt,
            recover |-> {e[2] : e \in {x \in Range(m.rlist) : x[1] = i}} \cup buf]

Sender == INSTANCE StrSender WITH conn <- [s \in Stream |-> ConnOf(s)], sent <- m.sent

(* A step of the master or of the channel.                                  *)
Elsewhere ==
  /\ UNCHANGED Sender!senderVars
  /\ \A q \in net' \ net : q.flag \in MoteFlag

ImplementsSender ==
  Sender!SenderInit /\ [][Elsewhere \/ Sender!SenderNext]_<<net, Sender!senderVars>>
=============================================================================
