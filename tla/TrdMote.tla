------------------------------ MODULE TrdMote ------------------------------
(***************************************************************************)
(* The dissemination protocol on a mote (src/mote/lib/trd/TRD_StateM.nc,   *)
(* TRD_M.nc).  The state of a mote is a record:                            *)
(*   state, rx   m_state: its states, and the RX flag that is OR'ed to it  *)
(*   table       m_table                                                   *)
(*   flash       flash_busy, with what the log is doing while it is BUSY   *)
(*   buf         flash_buf                                                 *)
(*   loc         the place that is being read                              *)
(*   log, ptr    the log (TRD_LoggerRAM.nc) and its curr_flash_vptr        *)
(*   rlist       m_recoverlist                                             *)
(*   last        lastmeta                                                  *)
(*   timer       the trickle timer                                         *)
(*   posted      the task readMemory has been posted                       *)
(*   ticks       the time since the mote started, in TRD_AGE_UNITTIME      *)
(*   air         the packet it is sending: sendBusy is air # <<>>          *)
(*   got, frag, tasks what it gave to the layers above                     *)
(***************************************************************************)
EXTENDS TrdNet

CONSTANT LogSize   (* packets the log has room for                          *)

ASSUME TrdMoteAssumption == LogSize \in Nat \ {0}

(* The log does what it is asked to.                                        *)
Works == IF Faulty THEN BOOLEAN ELSE {TRUE}

MoteStates == {"INIT", "INIT_READY", "STEADY", "TX", "FAST_PACKET"}

MoteInit ==
  [state |-> "INIT", rx |-> FALSE, table |-> <<>>, flash |-> "INIT",
   buf |-> NoPacket, loc |-> 0, log |-> [i \in 0 .. (LogSize - 1) |-> NoPacket],
   ptr |-> 0, rlist |-> <<>>, last |-> NoMeta, timer |-> "pre",
   posted |-> FALSE, ticks |-> 0, air |-> <<>>,
   got |-> [o \in Masters |-> <<>>], frag |-> <<>>, tasks |-> {}]

InitBit(s) == s.state \in {"INIT", "INIT_READY"}
Is(s, st)  == s.state = st /\ ~s.rx


(* TRD_Logger.write accepted: the packet goes to the place s.ptr.           *)
LoggerWrite(s, m) ==
  [s EXCEPT !.flash = "WRITE", !.log[s.ptr] = m, !.ptr = (@ + 1) % LogSize]

(* newMsg, from the point where the packet is to be kept: age is checked    *)
(* unless the mote is past its start.  w: TRD_Logger.write accepts.         *)
MoteStore(s, m, check_age, w) ==
  LET got     == [s EXCEPT !.buf = m, !.last = MetaOf(m)]
      written == LoggerWrite(got, m)
      kept    == [TimerReset(written) EXCEPT
                    !.table = InsertedTable(@, m.origin, Entry(m.seqno, s.ptr, m.age)),
                    !.state = IF Is(s, "STEADY") THEN "FAST_PACKET" ELSE @]
  IN  IF ~w THEN got
      ELSE IF ~CanInsert(s.table, m.origin, m.seqno) THEN written
      ELSE IF ~InitBit(kept) /\ ~check_age THEN Received(kept, m, TRUE)
      ELSE IF m.age < IgnoreOld /\ s.ticks + 1 >= m.age
      THEN Received([kept EXCEPT !.state = "INIT_READY", !.rx = FALSE], m, TRUE)
      ELSE kept

(* TRD_State.newMsg                                                         *)
MoteNewMsg(s, m, w) ==
  LET taken(r, class) ==
        IF r.flash = "INIT" THEN r
        ELSE IF class = "IN_LAST"
        THEN IF r.last = MetaOf(m) THEN TimerSuppress(r) ELSE r
        ELSE IF class = "NEWER" THEN TimerReset(r)
        ELSE IF class \in {"TOO_NEW", "NULL"} /\ TableFull(r.table)
        THEN [r EXCEPT !.table = AgedTable(@)]
        ELSE IF class \in {"TOO_NEW", "NULL", "NEXT_NEW"} /\ r.flash = "IDLE"
        THEN MoteStore(r, m, class = "TOO_NEW", w)
        ELSE r
      classed(class) == taken(Noted(s, m, class), class)
  IN  classed(Classify(s.table, m.origin, m.seqno, m.age))

(* send_summary.  ok: the radio accepts.                                    *)
MoteSummary(s, n, ignoreOld, ok) ==
  LET es == Summary(s.table, ignoreOld)
  IN  IF ok THEN Sent(s, Hearers(n), SummaryMsg(n, Len(es), es)) ELSE s

(* TRD_Timer.fired                                                          *)
MoteTimerFired(s, n, ok) ==
  IF Is(s, "FAST_PACKET")
  THEN IF ok THEN TimerProcessed([Sent(s, Hearers(n), s.buf) EXCEPT !.state = "STEADY"])
       ELSE s
  ELSE IF s.rx THEN TimerProcessed(TimerReset([s EXCEPT !.rx = FALSE]))
  ELSE IF s.state = "STEADY" \/ InitBit(s)
  THEN IF ok THEN TimerProcessed(MoteSummary(s, n, TRUE, ok)) ELSE s
  ELSE TimerProcessed([s EXCEPT !.posted = TRUE])

(* TRD_State.summaryReceived, after the loop whose outcome is r.            *)
MoteCompared(s, n, p, ok, garbage, r) ==
  LET done == [s EXCEPT !.table = r.t]
      req  == Sent(done, {p.sender}, RequestMsg(n, r.req))
  IN  IF r.req # <<>>
      THEN IF s.rx \/ ~ok THEN done
           ELSE IF s.state = "STEADY" \/ InitBit(s)
           THEN TimerReset([req EXCEPT !.rx = TRUE]) ELSE req
      ELSE IF IsLate(r, Entries(p), garbage) THEN TimerProcessed(TimerReset(done))
      ELSE IF IsSame(r, p, s.table, Is(s, "STEADY"))
      THEN [TimerSuppress(done) EXCEPT !.state = IF Is(s, "INIT_READY") THEN "STEADY" ELSE @]
      ELSE done

(* TRD_State.summaryReceived                                                *)
MoteSummaryReceived(s, n, p, ok, garbage) ==
  IF s.flash = "INIT" THEN s
  ELSE MoteCompared(IF Asks(p) THEN MoteSummary(s, n, FALSE, ok) ELSE s,
                    n, p, ok, garbage, Compared(s.table, Entries(p)))

(* TRD_State.requestReceived                                                *)
MoteRequestReceived(s, p) ==
  LET noted(l) == [s EXCEPT !.rlist = l, !.posted = TRUE,
                            !.state = IF Is(s, "STEADY") /\ l # <<>> THEN "TX" ELSE @]
  IN  IF s.flash = "INIT" THEN s ELSE noted(Requested(s.table, s.rlist, p.list))

(* Variant: a mote with a packet to forward stays in FAST_PACKET.           *)
ReadKeepsFast(s, w) ==
  LET first == s.rlist[1]
  IN  IF s.flash # "IDLE" \/ s.rlist = <<>> THEN [s EXCEPT !.posted = FALSE]
      ELSE IF ~Has(s.table, first[1], first[2])
      THEN [s EXCEPT !.posted = FALSE, !.rlist = ListDeleteFirst(@)]
      ELSE [s EXCEPT !.flash = "READ", !.posted = FALSE, !.buf = NoPacket, !.last = NoMeta,
                     !.loc = EntryOf(s.table, first[1], first[2]).memloc]

(* task readMemory.  w: TRD_Logger.read accepts.                            *)
ReadMemory(s, w) ==
  LET run   == [s EXCEPT !.posted = FALSE]
      first == run.rlist[1]
      read  == [run EXCEPT !.state = IF Is(s, "FAST_PACKET") THEN "STEADY" ELSE @,
                           !.last = NoMeta]
  IN  IF s.flash # "IDLE" \/ s.rlist = <<>> THEN run
      ELSE IF ~Has(s.table, first[1], first[2])
      THEN [run EXCEPT !.rlist = ListDeleteFirst(@)]
      ELSE IF w
      THEN [read EXCEPT !.flash = "READ", !.buf = NoPacket,
                        !.loc = EntryOf(s.table, first[1], first[2]).memloc]
      ELSE [read EXCEPT !.posted = TRUE]

(* TRD_Logger.writeDone                                                     *)
MoteWriteDone(s) == [s EXCEPT !.flash = "IDLE", !.posted = TRUE]

(* TRD_Logger.readDone, success w.                                          *)
MoteReadDone(s, n, w, ok, junk) ==
  LET idle(p) == [s EXCEPT !.flash = "IDLE", !.buf = p, !.loc = 0]
      l       == ListDeleteFirst(s.rlist)
      sent(p) == IF ~ok THEN idle(p)
                 ELSE [Sent(idle(p), Hearers(n), p) EXCEPT
                         !.rlist = l, !.posted = @ \/ l # <<>>,
                         !.state = IF l = <<>> /\ Is(s, "TX") THEN "STEADY" ELSE @]
  IN  IF w THEN sent(WithAge(s.log[s.loc], s.table, junk)) ELSE idle(s.log[s.loc])

(* TRD_Logger.initDone, before which the timer does not run.                *)
MoteInitDone(s) == [s EXCEPT !.flash = "IDLE"]

(* AgingTimer.fired                                                         *)
MoteAgingFired(s) ==
  [s EXCEPT !.ticks = @ + 1, !.table = AgedTable(@),
            !.state = IF Is(s, "INIT") /\ s.ticks + 1 > IgnoreOld THEN "INIT_READY" ELSE @]

(* A packet is received.                                                    *)
MoteReceive(s, n, p, w, ok, garbage) ==
  CASE p.kind = "msg"     -> MoteNewMsg(s, p, w)
    [] p.kind = "summary" -> MoteSummaryReceived(s, n, p, ok, garbage)
    [] p.kind = "request" -> MoteRequestReceived(s, p)
=============================================================================
