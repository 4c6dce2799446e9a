----------------------------- MODULE TrdMaster -----------------------------
(***************************************************************************)
(* The dissemination protocol on a master (src/master/trd/trd_state.c,     *)
(* trd.c).  The state of a master is a record:                             *)
(*   state, rx   m_state: its states, and the RX flag that is OR'ed to it  *)
(*   table       m_table                                                   *)
(*   mem, ptr    m_mem and its curr_mem_ptr                                *)
(*   pkt, fast   lastpacket and m_fast_retx_count                          *)
(*   rlist       m_recoverlist                                             *)
(*   last        lastmeta                                                  *)
(*   timer       the trickle timer                                         *)
(*   alarms      which of "init" and "recover" alarms are set              *)
(*   loops       init_loop_cnt                                             *)
(*   ready       init_done                                                 *)
(*   seqno       m_seqno                                                   *)
(*   ticks, air, got, frag, tasks as on a mote                            *)
(***************************************************************************)
EXTENDS TrdNet

CONSTANTS
  FastRetx,   (* TRD_FAST_RETX_COUNT                                        *)
  InitLoops   (* how often the master waits for a first neighbour           *)

MemSize == NodeEntries * CacheEntries

MasterStates == {"DISCONNECTED", "INIT_0", "INIT", "INIT_READY", "STEADY", "TX",
                 "FAST_PACKET"}

MasterInit ==
  [state |-> "DISCONNECTED", rx |-> FALSE, table |-> <<>>,
   mem |-> [i \in 0 .. (MemSize - 1) |-> NoPacket], ptr |-> 0, pkt |-> NoPacket,
   fast |-> 0, rlist |-> <<>>, last |-> NoMeta, timer |-> "pre",
   alarms |-> {"init"}, loops |-> 0, ready |-> FALSE, seqno |-> TrdUnknown,
   ticks |-> 0, air |-> <<>>,
   got |-> [o \in Masters |-> <<>>], frag |-> <<>>, tasks |-> {}]

Starting(s)      == s.state \in {"INIT_0", "INIT", "INIT_READY"}
MasterIs(s, st)  == s.state = st /\ ~s.rx

(* send_to_mote_cloud, and what the base station does with the packet.      *)
Cloud(s, n, to, p) ==
  IF Len(s.air) < MaxQueue THEN Sent(s, to, p) ELSE s

(* A first packet has been received.                                        *)
Connected(s) ==
  IF MasterIs(s, "DISCONNECTED")
  THEN [s EXCEPT !.state = "INIT_0", !.alarms = @ \cup {"init"}] ELSE s

(* trd_state_newMsg, from the point where the packet is to be kept.         *)
MasterStore(s, n, m, check_age) ==
  LET kept == [s EXCEPT
                 !.pkt = m, !.last = MetaOf(m), !.mem[s.ptr] = m,
                 !.ptr = (@ + 1) % MemSize,
                 !.table = IF CanInsert(@, m.origin, m.seqno)
                           THEN InsertedTable(@, m.origin, Entry(m.seqno, s.ptr, m.age))
                           ELSE @]
      passed(r) == TimerReset(IF m.origin # n THEN Cloud(r, n, Hearers(n), m) ELSE r)
      fast(r)   == IF MasterIs(r, "STEADY")
                   THEN [r EXCEPT !.state = "FAST_PACKET", !.fast = FastRetx] ELSE r
      deliver(r) == IF m.origin # n THEN Received(r, m, FALSE) ELSE r
      given(r)   == IF ~Starting(r) /\ ~check_age THEN deliver(r)
                    ELSE IF m.age < IgnoreOld /\ s.ticks + 1 >= m.age
                    THEN deliver([r EXCEPT !.state = "INIT_READY", !.rx = FALSE])
                    ELSE r
  IN  given(fast(passed(kept)))

(* trd_state_newMsg                                                         *)
MasterNewMsg(s, n, m) ==
  LET taken(r, class) ==
        IF class = "IN_LAST"
        THEN IF r.last = MetaOf(m) /\ ~MasterIs(r, "FAST_PACKET")
             THEN TimerSuppress(r) ELSE r
        ELSE IF class = "NEWER" THEN TimerReset(r)
        ELSE IF class \in {"TOO_NEW", "NULL"} /\ TableFull(r.table)
        THEN [r EXCEPT !.table = AgedTable(@)]
        ELSE IF class \in {"TOO_NEW", "NULL", "NEXT_NEW"}
        THEN MasterStore(r, n, m, class = "TOO_NEW")
        ELSE r
      classed(class) == taken(Noted(Connected(s), m, class), class)
  IN  classed(Classify(s.table, m.origin, m.seqno, m.age))

(* trd_state_getNextSeqno                                                   *)
NextSeqno(s, n) ==
  LET last == LastSeqno(CacheOf(s.table, n))
  IN  TrdNext(IF last = TrdUnknown THEN s.seqno ELSE last)

(* trd_send: the packet is sent before it is kept.                          *)
MasterSend(s, n) ==
  LET send(pkt) ==
        MasterNewMsg(Cloud([s EXCEPT !.seqno = pkt.seqno], n, Hearers(n), pkt), n, pkt)
  IN  send(TrdMsg(n, NextSeqno(s, n), 1))

(* send_summary: a starting master asks every neighbour for its own.        *)
MasterSummary(s, n, ignoreOld) ==
  LET es  == Summary(s.table, ignoreOld)
      num == IF MasterIs(s, "DISCONNECTED") \/ Starting(s) THEN -1 ELSE Len(es)
  IN  Cloud(s, n, Hearers(n), SummaryMsg(n, num, IF num < 0 THEN <<>> ELSE es))

(* trd_timer_fired                                                          *)
MasterTimerFired(s, n) ==
  TimerProcessed(
    IF MasterIs(s, "FAST_PACKET")
    THEN [Cloud(s, n, Hearers(n), s.pkt) EXCEPT
            !.fast = @ - 1, !.state = IF s.fast <= 0 THEN "STEADY" ELSE @]
    ELSE IF s.rx THEN [s EXCEPT !.rx = FALSE]
    ELSE IF s.state # "TX" THEN MasterSummary(s, n, TRUE)
    ELSE s)

(* trd_state_summaryReceived, after the loop whose outcome is r.            *)
MasterCompared(s, n, p, garbage, r) ==
  LET done == [s EXCEPT !.table = r.t]
      req  == Cloud(done, n, IF Starting(s) THEN Hearers(n) ELSE {p.sender},
                    RequestMsg(n, r.req))
  IN  IF r.req # <<>>
      THEN IF s.rx THEN done
           ELSE IF s.state = "STEADY" \/ Starting(s)
           THEN TimerReset([req EXCEPT !.rx = TRUE]) ELSE req
      ELSE IF IsLate(r, Entries(p), garbage)
      THEN TimerProcessed(TimerReset(MasterSummary(done, n, TRUE)))
      ELSE IF ~IsSame(r, p, s.table, MasterIs(s, "STEADY")) THEN done
      ELSE IF MasterIs(s, "INIT_READY") /\ r.t # <<>>
      THEN [TimerSuppress(done) EXCEPT
              !.state = "STEADY", !.ready = TRUE, !.alarms = @ \ {"init"}]
      ELSE TimerSuppress(done)

(* trd_state_summaryReceived                                                *)
MasterSummaryReceived(s, n, p, garbage) ==
  LET answered(r) == IF Asks(p) /\ r.table # <<>> /\ MasterIs(r, "STEADY")
                     THEN MasterSummary(r, n, FALSE) ELSE r
  IN  MasterCompared(answered(Connected(s)), n, p, garbage, Compared(s.table, Entries(p)))

(* read_memory                                                              *)
MasterRead(s, n, junk) ==
  LET first == s.rlist[1]
      msg   == s.mem[EntryOf(s.table, first[1], first[2]).memloc]
      l     == ListDeleteFirst(s.rlist)
  IN  IF s.rlist = <<>> THEN [s EXCEPT !.alarms = @ \ {"recover"}]
      ELSE IF ~Has(s.table, first[1], first[2]) THEN [s EXCEPT !.rlist = l]
      ELSE [Cloud(s, n, Hearers(n), WithAge(msg, s.table, junk)) EXCEPT
              !.rlist = l, !.alarms = @ \cup {"recover"},
              !.state = IF l = <<>> /\ MasterIs(s, "TX") THEN "STEADY" ELSE @]

(* trd_state_requestReceived                                                *)
MasterRequestReceived(s, n, p, junk) ==
  LET noted(l) == [s EXCEPT !.rlist = l,
                            !.state = IF MasterIs(s, "STEADY") /\ l # <<>> THEN "TX" ELSE @]
  IN  [MasterRead(noted(Requested(s.table, s.rlist, p.list)), n, junk)
         EXCEPT !.alarms = @ \cup {"recover"}]

(* inittimer_fired                                                          *)
InitFired(s) ==
  LET stopped == [s EXCEPT !.alarms = @ \ {"init"}]
      again   == [s EXCEPT !.alarms = @ \cup {"init"}]
  IN  IF MasterIs(s, "DISCONNECTED")
      THEN [TimerReset(again) EXCEPT
              !.loops = @ + 1, !.state = IF s.loops >= InitLoops THEN "INIT_0" ELSE @]
      ELSE IF MasterIs(s, "INIT_0") THEN TimerReset([again EXCEPT !.state = "INIT"])
      ELSE IF MasterIs(s, "INIT") THEN [again EXCEPT !.state = "INIT_READY"]
      ELSE IF MasterIs(s, "INIT_READY") THEN [stopped EXCEPT !.state = "STEADY", !.ready = TRUE]
      ELSE IF s.rx THEN again
      ELSE stopped

(* agingtimer_fired, in time.                                               *)
MasterAgingFired(s) == [s EXCEPT !.ticks = @ + 1, !.table = AgedTable(@)]

(* trd_receive                                                              *)
MasterReceive(s, n, p, garbage, junk) ==
  CASE p.kind = "msg"     -> MasterNewMsg(s, n, p)
    [] p.kind = "summary" -> MasterSummaryReceived(s, n, p, garbage)
    [] p.kind = "request" -> MasterRequestReceived(s, n, p, junk)
=============================================================================
