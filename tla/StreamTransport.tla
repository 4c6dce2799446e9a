--------------------------- MODULE StreamTransport ---------------------------
(***************************************************************************)
(* Both ends of the stream transport over one lossy channel: the motes     *)
(* that open a stream for each task that asks for one, and the master that *)
(* receives the streams and hands their packets to the client in order.    *)
(***************************************************************************)
EXTENDS StrMaster, StrSender

(* No number of a stream is ever within TrValidRange of the wrap: the      *)
(* properties compare numbers as integers.  A SYN retry counter may be     *)
(* taken for a last number sent (see close), hence MaxNumRetx.             *)
Top == 1 + IF MaxData > MaxNumRetx THEN MaxData ELSE MaxNumRetx

ASSUME NoWrapAssumption == Top + 2 * TrValidRange <= TrMaxSeqno

(* Such a counter stays below the range beyond which numbers are given up  *)
(* (STR_MAX_NUM_RETX 5, TR_VALID_RANGE 200).                               *)
ASSUME RetxAssumption == MaxNumRetx < TrValidRange

vars == <<net, m_strcs, cs, tids, others, delivered, givenUp, conn, sent>>

Init == net = {} /\ MasterInit /\ SenderInit

Next ==
  \/ MasterNext /\ UNCHANGED senderVars
  \/ SenderNext /\ UNCHANGED masterVars
  \/ \E p \in net : Lose(p) /\ UNCHANGED <<masterVars, senderVars>>

Spec == Init /\ [][Next]_vars

(***************************************************************************)
(* Fairness.  The master's loop polls its timers for ever and time passes; *)
(* TinyOS runs every posted task and fires every timer, and does not fail  *)
(* every send.  A packet that is sent again and again arrives in the end,  *)
(* and no single packet is duplicated for ever.                            *)
(***************************************************************************)
SenderStep(A)  == A /\ UNCHANGED masterVars
MasterStep(A)  == A /\ UNCHANGED <<others, senderVars>>

OfKind(s, flag) == {p \in net : p.s = s /\ p.flag = flag}

MasterReceives(s, flag) ==
  MasterStep(\E p \in OfKind(s, flag) : Receive(p))
SenderReceives(s, flag) ==
  SenderStep(\E p \in OfKind(s, flag) : SenderReceive(p))
Loses(s, flag) ==
  MasterStep(SenderStep(\E p \in OfKind(s, flag) : Lose(p)))

Fairness ==
  /\ WF_vars(MasterStep(Poll))
  /\ \A s \in Stream :
       /\ WF_vars(MasterStep(Expire(s)))
       /\ WF_vars(SenderStep(send_SYN(s)))
       /\ WF_vars(SenderStep(send_FIN(s)))
       /\ WF_vars(SenderStep(\E m \in Seqno : Retransmit(s, m)))
       /\ WF_vars(SenderStep(\E ok \in BOOLEAN : SendDone(s, ok)))
       /\ SF_vars(SenderStep(SynTimeout(s)))
       /\ SF_vars(SenderStep(FinTimeout(s)))
       /\ \A f \in MasterFlag : SF_vars(MasterReceives(s, f))
       /\ \A f \in MoteFlag   : SF_vars(SenderReceives(s, f))
       /\ \A f \in MasterFlag \cup MoteFlag : WF_vars(Loses(s, f))

FairSpec == Spec /\ Fairness

-----------------------------------------------------------------------------
(* Properties.                                                             *)

EndsTypeOK ==
  /\ net \in SUBSET Packet
  /\ MasterTypeOK
  /\ SenderTypeOK

TypeOK == EndsTypeOK /\ OthersTypeOK

DeliveredSet(s) == {delivered[s][i] : i \in DOMAIN delivered[s]}

(* What the client is given is what the mote sent, in the order it was     *)
(* sent, and no packet is given twice, however the channel reorders and    *)
(* duplicates data, retransmissions and the FIN.                           *)
InOrderNoDuplicate ==
  \A s \in Stream :
    /\ \A i, j \in DOMAIN delivered[s] : i < j => delivered[s][i] < delivered[s][j]
    /\ \A x \in DeliveredSet(s) : x <= sent[s]

(* The master steps over a number only after giving it up: a number older  *)
(* than the next expected one was delivered or is among those given up.    *)
NoSilentGap ==
  \A s \in Stream : cs[s].state # "NONE" =>
    \A x \in 1 .. (cs[s].nextExpected - 1) : x \in DeliveredSet(s) \cup givenUp[s]

(* No number is forgotten: whatever the master has seen skipped is queued, *)
(* on the list it asks for, delivered or given up.                         *)
NoneForgotten ==
  \A s \in Stream : cs[s].state # "NONE" =>
    \A x \in 1 .. (cs[s].lastRecv) :
      x <= sent[s] =>
        x \in DeliveredSet(s) \cup cs[s].plist \cup cs[s].missing \cup givenUp[s]

(* "No missing packets(received all)": a connection goes to FINISHED, and  *)
(* the mote is told to forget the stream, only with every packet the mote  *)
(* sent delivered, unless the master gave one up as too old.               *)
FinishedIsComplete ==
  \A s \in Stream : cs[s].state = "FINISHED" /\ givenUp[s] = {} =>
    DeliveredSet(s) = 1 .. sent[s] /\ cs[s].plist = {}

(* The same taken at its word, as the comment and "100% reliablity" have   *)
(* it: every packet of a finished connection was received.                 *)
ReceivedAll ==
  \A s \in Stream : cs[s].state = "FINISHED" => DeliveredSet(s) = 1 .. sent[s]

(* The master gives up a number only when the mote has sent one that is    *)
(* TrValidRange newer; a shorter gap is asked for until it is filled.      *)
GivesUpOnlyBeyondRange ==
  \A s \in Stream : \A x \in givenUp[s] : x + TrValidRange <= sent[s] + 1

(* The last connection of a tid to finish reports the close.  A tid comes  *)
(* to wait for a close with no stream left to report it in three ways      *)
(* only: another transport has a connection of it, the timer deletes the   *)
(* last stream before it has finished, or that stream is not marked since  *)
(* it was opened after the close.                                          *)
LeftWaiting(t) == tids[t] = "close" /\ ~TidIsAlive(cs, t)

LeavesWaiting(t) ==
  \/ others'[t] # {}
  \/ \E s \in Stream :
       /\ TidOf[s] = t /\ cs[s].state \in Connected \ {"FINISHED"}
       /\ cs'[s].state = "NONE" \/ ~cs[s].deletePending

CloseReported == \A t \in Tid : LeftWaiting(t)' /\ ~LeftWaiting(t) => LeavesWaiting(t)

CloseNotMissed == [][CloseReported]_vars

(* A tid that waits for its streams to finish has one that will report it. *)
CloseIsAwaited ==
  \A t \in Tid : tids[t] = "close" =>
    \E s \in Stream :
      TidOf[s] = t /\ cs[s].state \notin {"NONE", "FINISHED"} /\ cs[s].deletePending

(* Loss recovery ends: the missing packets arrive or the connection goes.  *)
RecoveryEnds ==
  \A s \in Stream :
    cs[s].state \in {"NACK_WAIT", "FIN_NACK_WAIT"}
      ~> cs[s].state \notin {"NACK_WAIT", "FIN_NACK_WAIT"}

(* A due timer of a connection that waits for missing packets is served:   *)
(* "When to re-send NACK (ms)".                                            *)
NackTimerServed ==
  \A s \in Stream :
    cs[s].state \in {"NACK_WAIT", "FIN_NACK_WAIT"} /\ cs[s].alarm = "due"
      ~> cs[s].alarm # "due"

(* A mote that has sent a FIN forgets the stream in the end.               *)
FinTerminates ==
  \A s \in Stream : conn[s].state = "FIN_ACK_WAIT" ~> conn[s].state = "IDLE"

(* close ends the connection.                                              *)
CloseTerminates ==
  \A s \in Stream : conn[s].closed ~> conn[s].state = "IDLE"

(* A passive connection from which nothing comes any more is terminated.   *)
PassiveTerminates ==
  \A s \in Stream :
    cs[s].state = "PASSIVE" /\ conn[s].state = "IDLE" ~> cs[s].state # "PASSIVE"

-----------------------------------------------------------------------------
(* The inductive invariant behind InOrderNoDuplicate, NoSilentGap,         *)
(* NoneForgotten and FinishedIsComplete.                                   *)

(* The application sends nothing on s any more.                            *)
Done(s) == conn[s].closed \/ conn[s].state = "IDLE"

SenderInv(s) ==
  /\ conn[s].state \in {"UNOPENED", "SYN_SEND", "SYN_ACK_WAIT"} => sent[s] = 0
  /\ conn[s].sending = "SYN" => sent[s] = 0
  /\ conn[s].state \in {"UNOPENED", "IDLE"} => conn[s].sending = "no"
  /\ conn[s].state \in {"FIN_SEND", "FIN_ACK_WAIT"} => conn[s].closed
  /\ conn[s].sending = "FIN" => conn[s].closed
  /\ conn[s].state = "ACTIVE" /\ ~conn[s].closed => conn[s].lastSent = sent[s]
  /\ Open(s) => conn[s].lastSent >= sent[s]
  /\ conn[s].lastSent < Top

(* What a packet in flight says of the mote that sent it.                  *)
NetInv(p) ==
  /\ p.flag \in {"DATA", "DATA_RETX"} => p.seqno \in 1 .. sent[p.s]
  /\ p.flag = "FIN" => Done(p.s) /\ p.seqno \in (sent[p.s] + 1) .. Top
  /\ p.flag = "SYN" /\ cs[p.s].state = "NONE" => delivered[p.s] = <<>>

(* A connection: where it stands, what it knows, and what it owes.         *)
Accounted(s) == DeliveredSet(s) \cup cs[s].plist \cup cs[s].missing \cup givenUp[s]

ConnInv(s) ==
  LET c == cs[s] IN
  /\ c.lastRecv <= Top /\ c.nextExpected <= c.lastRecv + 1
  /\ c.nextExpected <= sent[s] + 1
  /\ \A x \in DeliveredSet(s) : x < c.nextExpected
  /\ \A x \in c.plist : c.nextExpected < x /\ x <= c.lastRecv /\ x <= sent[s]
  /\ \A x \in c.missing : x < c.lastRecv
  /\ \A x \in 1 .. (c.nextExpected - 1) : x \in DeliveredSet(s) \cup givenUp[s]
  /\ \A x \in 1 .. c.lastRecv : x <= sent[s] => x \in Accounted(s)
  /\ c.lastRecv > sent[s] => Done(s)
  /\ c.state \in {"FIN_NACK_WAIT", "FINISHED"} => c.lastRecv > sent[s]
  /\ c.state = "FINISHED" => c.missing = {}

IndInv ==
  /\ EndsTypeOK
  /\ InOrderNoDuplicate
  /\ \A s \in Stream : SenderInv(s)
  /\ \A p \in net : NetInv(p)
  /\ \A s \in Stream : cs[s].state # "NONE" => ConnInv(s)

(* What GivesUpOnlyBeyondRange rests on: no number that is in use is newer *)
(* than the next one the mote would send, except for the SYN retries.      *)
HighMark(s) == IF sent[s] > MaxNumRetx THEN sent[s] ELSE MaxNumRetx

RangeInv ==
  /\ \A s \in Stream : conn[s].lastSent <= HighMark(s)
  /\ \A p \in net : p.flag = "FIN" => p.seqno <= HighMark(p.s) + 1
  /\ \A s \in Stream : cs[s].state # "NONE" => cs[s].lastRecv <= HighMark(s) + 1
  /\ GivesUpOnlyBeyondRange

(* Why a finished connection stays finished: every FIN of a stream has one *)
(* and the same number, which is the one the master has noted.             *)
Finishing(s) ==
  conn[s].state \in {"FIN_SEND", "FIN_ACK_WAIT"} /\ conn[s].sending # "SYN"

FinSent(s, n) == Open(s) => Finishing(s) /\ n = conn[s].lastSent + 1

FinNoted(s, n) == cs[s].state # "NONE" /\ cs[s].lastRecv > sent[s] => cs[s].lastRecv = n

FinInv ==
  /\ \A p, q \in net : p.flag = "FIN" /\ q.flag = "FIN" /\ p.s = q.s => p.seqno = q.seqno
  /\ \A p \in net : p.flag = "FIN" => FinSent(p.s, p.seqno) /\ FinNoted(p.s, p.seqno)
  /\ \A s \in Stream :
       /\ cs[s].state # "NONE" /\ cs[s].lastRecv > sent[s] => FinSent(s, cs[s].lastRecv)
       /\ conn[s].state = "UNOPENED" => ~conn[s].closed

-----------------------------------------------------------------------------
(* The protocol implements StreamSpec.                                     *)

Status ==
  [s \in Stream |-> CASE cs[s].state = "NONE"     -> "none"
                      [] cs[s].state = "FINISHED" -> "complete"
                      [] OTHER                    -> "open"]

Abstract == INSTANCE StreamSpec WITH lost <- givenUp, status <- Status

(* The master and the motes together keep the promise of StreamSpec.       *)
ImplementsStream == Abstract!Spec
=============================================================================
