----------------------------- MODULE TaskSends -----------------------------
(***************************************************************************)
(* The tasklets that send: SendSTR.nc over the stream transport, SendPkt.nc*)
(* over the packet transport, and the back door of SendPkt through which   *)
(* error reports go (src/mote/tasklets).  Of the transports only what they *)
(* promise the tasklets is kept: two connections, one stream packet under  *)
(* way at a time, and one end-to-end packet per id (external here; modules *)
(* StrSender and PtrMote have their insides).                              *)
(***************************************************************************)
EXTENDS Tasklets

(***************************************************************************)
(* SendSTR.                                                                *)
(***************************************************************************)
(* sendSTR_run with data: what waited for the task before is deleted.       *)
StrQueue(s, a) ==
  LET t == TaskOf(s, a)
  IN  [RemoveTask(s, "str", t) EXCEPT !.str = Append(@, a), !.strpop = TRUE,
                                      !.task[t].sendbusy = TRUE]

(* The stream transport takes a packet for the connection of id.            *)
StreamTakes(s, id) ==
  s.tx = 0 /\ \E i \in 1 .. 2 : s.conn[i] = [cid |-> id, st |-> "active"]

(* pop_and_send from the point where the packet of a is ready.  ok: the     *)
(* radio accepts it.                                                        *)
StrTransmit(s, a, ok) ==
  LET t  == TaskOf(s, a)
      id == IdOf(s, t)
  IN  IF ElementThis(s, a) # "str" THEN Wild(s)
      ELSE IF ok /\ s.task[t].conn = "connected" /\ StreamTakes(s, id)
      THEN [s EXCEPT !.sending = a, !.task[t].conn = "sending", !.tx = id]
      ELSE [s EXCEPT !.retry = a, !.strpop = TRUE]

(* pop_and_send, in a state where it is no longer posted.                   *)
StrPop(s, ok) ==
  LET a      == Head(s.str)
      popped == [s EXCEPT !.str = Tail(@)]
  IN  IF s.sending # 0 THEN s
      ELSE IF s.retry # 0 THEN StrTransmit([s EXCEPT !.retry = 0], s.retry, ok)
      ELSE IF s.str = <<>> THEN s
      ELSE IF Serializes(s.atask[a].data)
      THEN StrTransmit([popped EXCEPT !.atask[a].data = Unpacked(@)], a, ok)
      ELSE [ScheduleNext([popped EXCEPT !.task[TaskOf(s, a)].sendbusy = FALSE], a)
              EXCEPT !.strpop = TRUE]

(* Variant: what waits is not sent when nobody waits for the sendDone.      *)
StrSendDoneQuiet(s) ==
  IF s.sending = 0 THEN s
  ELSE [ScheduleNext([s EXCEPT !.task[TaskOf(s, s.sending)].conn = "connected"], s.sending)
          EXCEPT !.sending = 0, !.strpop = TRUE]

(* Variant: the element keeps the state S_SENDING.                          *)
StrSendDoneStays(s) ==
  IF s.sending = 0 THEN [s EXCEPT !.strpop = TRUE]
  ELSE [ScheduleNext([s EXCEPT !.task[TaskOf(s, s.sending)].sendbusy = FALSE], s.sending)
          EXCEPT !.sending = 0, !.strpop = TRUE]

(* Send.sendDone of the stream transport.                                   *)
StrSendDone(s) ==
  LET a    == s.sending
      t    == TaskOf(s, a)
      done == IF t = 0 THEN s
              ELSE [s EXCEPT !.task[t].sendbusy = FALSE,
                      !.task[t].conn = IF ElementThis(s, a) = "str" /\ @ = "sending"
                                       THEN "connected" ELSE @]
  IN  IF a = 0 THEN [s EXCEPT !.strpop = TRUE]
      ELSE [ScheduleNext(done, a) EXCEPT !.sending = 0, !.strpop = TRUE]

(* Send.openDone, for the element whose connection is i.                    *)
StrOpenDone(s, i, success) ==
  LET Mine(t) == s.task[t].busy /\ s.task[t].conn = "opening"
                                /\ IdOf(s, t) = s.conn[i].cid
  IN  [s EXCEPT
         !.conn[i] = IF success THEN [@ EXCEPT !.st = "active"] ELSE IdleConn,
         !.task = [t \in TaskCells |->
                     IF success /\ Mine(t)
                     THEN [s.task[t] EXCEPT !.conn = "connected", !.sendbusy = FALSE]
                     ELSE s.task[t]],
         !.strpop = TRUE]

(***************************************************************************)
(* SendPkt.                                                                *)
(***************************************************************************)
(* sendPkt_run with data.                                                   *)
PktQueue(s, a) ==
  LET t == TaskOf(s, a)
  IN  [RemoveTask(s, "pkt", t) EXCEPT !.pkt = Append(@, a), !.pktpop = TRUE,
                                      !.task[t].sendbusy = TRUE]

(* The packet transport takes a packet of this kind for id: Send (end to    *)
(* end) has one per id and NumSlots in all, SendBE (best effort) keeps none.*)
PacketTakes(s, id, kind) ==
  /\ <<id, kind>> \notin s.ptx
  /\ kind = "ack" => Cardinality({p \in s.ptx : p[2] = "ack"}) < NumSlots

(* pop_and_send from the point where the packet of a is ready.  ok: the     *)
(* radio accepts it; room: there is memory for the item.                    *)
PktTransmit(s, a, ok, room) ==
  LET t    == TaskOf(s, a)
      id   == IdOf(s, t)
      e2e  == ElementThis(s, a) = "pkt"
      kind == IF e2e THEN "ack" ELSE "be"
      sent == [s EXCEPT !.ptx = @ \cup {<<id, kind>>}, !.pktpop = TRUE,
                        !.task[t].e2busy = e2e \/ @, !.be = ~e2e \/ @]
  IN  IF ElementThis(s, a) \notin {"pkt", "be"} THEN Wild(s)
      ELSE IF ~(ok /\ PacketTakes(s, id, kind))
      THEN [s EXCEPT !.pretry = a, !.pktpop = TRUE]
      ELSE IF room
      THEN [sent EXCEPT !.flight = Append(@, [a |-> a, t |-> t, tid |-> id])]
      ELSE AtaskDelete([Kill(sent, t) EXCEPT !.task[t].sendbusy = FALSE], a)

(* pop_and_send, in a state where it is no longer posted.                   *)
PktPop(s, ok, room) ==
  LET a      == Head(s.pkt)
      popped == [s EXCEPT !.pkt = Tail(@)]
  IN  IF s.sneak = "pending"
      THEN IF ok /\ PacketTakes(s, s.sneakTid, "ack")
           THEN [s EXCEPT !.sneak = "sending", !.ptx = @ \cup {<<s.sneakTid, "ack">>}]
           ELSE [s EXCEPT !.pktpop = TRUE]
      ELSE IF s.be THEN s
      ELSE IF s.pretry # 0 THEN PktTransmit([s EXCEPT !.pretry = 0], s.pretry, ok, room)
      ELSE IF s.pkt = <<>> THEN s
      ELSE IF ElementThis(s, a) = "pkt" /\ s.task[TaskOf(s, a)].e2busy
      THEN [popped EXCEPT !.pkt = Append(@, a), !.pktpop = TRUE]
      ELSE IF Serializes(s.atask[a].data)
      THEN PktTransmit([popped EXCEPT !.atask[a].data = Unpacked(@)], a, ok, room)
      ELSE [ScheduleNext([popped EXCEPT !.task[TaskOf(s, a)].sendbusy = FALSE], a)
              EXCEPT !.pktpop = TRUE]

(* senddone_task for an item: the element is free again, and the active     *)
(* task sends what is left, or runs on.                                     *)
ItemDone(s, c) ==
  LET freed == IF s.task[c.t].id # 0 /\ "pkt" \in Range(Chain[IdOf(s, c.t)])
               THEN [s EXCEPT !.task[c.t].e2busy = FALSE] ELSE [s EXCEPT !.be = FALSE]
      t     == TaskOf(s, c.a)
  IN  IF s.atask[c.a].data # 0 THEN [freed EXCEPT !.pkt = Append(@, c.a)]
      ELSE IF t = 0 THEN Wild(freed)
      ELSE ScheduleNext([freed EXCEPT !.task[t].sendbusy = FALSE], c.a)

(* senddone_task for each item that is of tid, in their order.              *)
ItemsDone(s, tid) ==
  LET upto[i \in 0 .. Len(s.flight)] ==
        IF i = 0 THEN s
        ELSE IF s.flight[i].tid = tid THEN ItemDone(upto[i - 1], s.flight[i]) ELSE upto[i - 1]
  IN  [upto[Len(s.flight)] EXCEPT !.flight = Only(@, {c \in Range(@) : c.tid # tid})]

(* Variant: what waits is not sent after an error report.                   *)
PktSendDoneQuiet(s, tid) ==
  IF s.sneak = "sending" THEN [s EXCEPT !.sneak = "idle"]
  ELSE [ItemsDone(s, tid) EXCEPT !.pktpop = TRUE]

(* sendDone of either interface.                                            *)
PktSendDone(s, tid) ==
  IF s.sneak = "sending"
  THEN [s EXCEPT !.sneak = "idle", !.pktpop = TRUE]
  ELSE [ItemsDone(s, tid) EXCEPT !.pktpop = TRUE]

(***************************************************************************)
(* The run function of an element: what it may leave, and what it returns. *)
(***************************************************************************)
Outcome(s, action) == [s |-> s, action |-> action]

(* Kill, and SCHED_TERMINATE.                                               *)
Killed(s, a) == Outcome(Kill(s, TaskOf(s, a)), "terminate")

RunElement(s, a) ==
  LET kind == ElementThis(s, a)
      none == s.atask[a].data = 0
  IN  CASE kind \in {"wait", "every"} ->
             {Outcome(IssueRun(s, a, due), "stop") :
                due \in {d \in SUBSET Range(s.timers) : Scarce \/ Roomy(s, d)}}
               \cup (IF Scarce THEN {Killed(s, a)} ELSE {})
        [] kind \in {"sample", "repeat"} ->
             {Outcome(SampleRun(s, a, ok), "stop") : ok \in AdcAccepts(s)}
               \cup (IF Scarce THEN {Outcome(Report(s, TaskOf(s, a)), "next")} ELSE {})
        [] kind = "count" ->
             {Outcome([s EXCEPT !.atask[a].data = Load[IdOf(s, TaskOf(s, a))]], "next")}
        [] kind = "str" /\ ~none  -> {Outcome(StrQueue(s, a), "stop")}
        [] kind \in {"pkt", "be"} /\ ~none -> {Outcome(PktQueue(s, a), "stop")}
        [] kind = "delif" ->
             {Outcome(s, "tkill"), Outcome(s, "next"), Killed(s, a)}
        [] kind = "actif" ->
             {Outcome(s, "terminate"), Outcome(s, "next"), Killed(s, a)}
        [] OTHER -> {Outcome(s, "next")}

(* run, for the active task that it popped off the list.                    *)
Ran(o, a) ==
  CASE o.action = "stop"      -> o.s
    [] o.action = "next"      -> ScheduleNext(o.s, a)
    [] o.action = "terminate" -> AtaskDelete(o.s, a)
    [] o.action = "tkill"     -> EndTask(o.s, a)
=============================================================================
