------------------------------ MODULE StrLogger ------------------------------
(***************************************************************************)
(* The log of the packets a mote has sent, from which it retransmits       *)
(* (src/mote/lib/transport/StrLoggerTelosbM2.nc).  Each of two connections *)
(* has two volumes of the flash, written alternately; one that is full is  *)
(* erased when the other is full as well.  A log is a record                *)
(*   state  m_state: "init", "erase" or "idle"                             *)
(*   b      connection -> [ready, currVol, nextIndex, dirty], dirty having *)
(*          dirty0 and dirty1                                              *)
(*   vol    volume -> index -> what is written there, Erased if nothing    *)
(*   op     what the flash is doing (below the code): a request made while *)
(*          it does something is refused                                   *)
(* A packet is <<stream, number>>.                                         *)
(***************************************************************************)
EXTENDS Integers

CONSTANT FlashPkts   (* TR_FLASH_PKTS_PER_CON (500): packets per volume    *)

ASSUME StrLoggerAssumption == FlashPkts \in Nat \ {0}

Conns   == 0 .. 1
Volumes == 0 .. 3
Indexes == 0 .. FlashPkts - 1
Erased  == <<>>

NoOp == [kind |-> "none", vol |-> 0, idx |-> 0, pkt |-> Erased]
Op(kind, v, x, p) == [kind |-> kind, vol |-> v, idx |-> x, pkt |-> p]

(* After boot: the volumes are mounted and PktLogger.init erases them all.  *)
LogInit ==
  [state |-> "init",
   b   |-> [i \in Conns |-> [ready |-> FALSE, currVol |-> 0, nextIndex |-> 0,
                             dirty |-> [k \in 0 .. 1 |-> FALSE]]],
   vol |-> [v \in Volumes |-> [x \in Indexes |-> Erased]],
   op  |-> Op("erase", 0, 0, Erased)]

FlashIdle(log) == log.op.kind = "none"

(* _erase, whose result nobody looks at but PktLogger.erase.                *)
EraseVol(log, v) ==
  IF FlashIdle(log) THEN [log EXCEPT !.op = Op("erase", v, 0, Erased)] ELSE log


(* PktLogger.erase for connection i, and whether it succeeds.  m_state and  *)
(* b are set before the flash is asked.                                    *)
LogEraseOK(log) == log.state = "idle" /\ FlashIdle(log)
LogErase(log, i) ==
  IF log.state # "idle" THEN log
  ELSE EraseVol([log EXCEPT !.state = "erase",
                   !.b[i] = [@ EXCEPT !.ready = FALSE, !.currVol = 0, !.nextIndex = 0]],
                2 * i)

IndexOf(n) == (n - 1) % FlashPkts

(* PktLogger.write of number n accepts only the number that is next.        *)
LogWriteOK(log, i, n) ==
  /\ IndexOf(n) = log.b[i].nextIndex
  /\ ~log.b[i].dirty[log.b[i].currVol]
  /\ log.state = "idle" /\ FlashIdle(log)

LogWrite(log, i, p) ==
  [log EXCEPT !.op = Op("write", 2 * i + log.b[i].currVol, IndexOf(p[2]), p),
              !.b[i].nextIndex = (IndexOf(p[2]) + 1) % FlashPkts]

(* _writeDone: the end of a write that succeeded.                           *)
LogWritten(log) ==
  LET o    == log.op
      i    == o.vol \div 2
      k    == log.b[i].currVol
      w    == [log EXCEPT !.vol[o.vol][o.idx] = o.pkt, !.op = NoOp]
      full == [w EXCEPT !.b[i].dirty[k] = TRUE, !.b[i].currVol = 1 - k]
  IN  IF log.b[i].nextIndex # 0 THEN w
      ELSE IF full.b[i].dirty[1 - k] THEN EraseVol(full, 2 * i + (1 - k)) ELSE full


(* PktLogger.read.                                                          *)
LogReadOK(log) == log.state = "idle" /\ FlashIdle(log)
LogRead(log, i, n) ==
  [log EXCEPT !.op = Op("read", 2 * i + (((n - 1) \div FlashPkts) % 2), IndexOf(n), Erased)]

ReadContents(log) == log.vol[log.op.vol][log.op.idx]

(* BlockWrite.eraseDone of a volume of connection i: both are erased after  *)
(* PktLogger.erase, all after PktLogger.init, one after a wrap-around.      *)
LogEraseDone(log) ==
  LET v == log.op.vol
      i == v \div 2
      e == [log EXCEPT !.op = NoOp, !.b[i].dirty[v % 2] = FALSE,
                       !.vol[v] = [x \in Indexes |-> Erased]]
  IN  IF log.b[i].ready /\ log.state # "init" THEN e
      ELSE IF v % 2 = 0 THEN EraseVol(e, v + 1)
      ELSE IF log.state = "init" /\ i = 0
      THEN EraseVol([e EXCEPT !.b[0].ready = TRUE], 2)
      ELSE [e EXCEPT !.b[i].ready = TRUE, !.state = "idle"]

(* The end of an erasure that PktLogger.erase or PktLogger.init began:      *)
(* eraseDone or initDone is signalled.                                     *)
LogErasedAll(log) ==
  log.op.kind = "erase" /\ log.state # "idle" /\ LogEraseDone(log).state = "idle"
=============================================================================
