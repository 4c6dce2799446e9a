----------------------- MODULE StreamRefinement_proofs -----------------------
(***************************************************************************)
(* Proof that the stream transport keeps the promise of StreamSpec, gives  *)
(* a number up only when a much newer one was sent, and misses no close.   *)
(* The steps of the master are summed up once, as one of three effects;    *)
(* each invariant and the refinement follow from the sum.                  *)
(***************************************************************************)
EXTENDS StreamTransport_proofs

(* The effects of a step of the master.  It serves stream s, whose         *)
(* connection becomes k, hands over R and gives up L; or it opens a        *)
(* connection; or it deletes connections and leaves the others alone.      *)
Serves(s, k, R, L) ==
  /\ cs[s].state # "NONE" /\ k \in Connection /\ k.state # "NONE"
  /\ cs[s].state = "FINISHED" => k.state = "FINISHED"
  /\ \/ k.lastRecv = cs[s].lastRecv \/ k.lastRecv <= sent[s]
     \/ \E p \in net : p.flag = "FIN" /\ p.s = s /\ k.lastRecv = p.seqno
  /\ \A x \in L : x \in Seqno /\ (\/ x + TrValidRange <= k.lastRecv
                                  \/ x + TrValidRange <= sent[s])
  /\ \A x \in R : x \in Seqno /\ x <= sent[s] /\ cs[s].nextExpected <= x
  /\ cs' = [cs EXCEPT ![s] = k]
  /\ givenUp' = [givenUp EXCEPT ![s] = @ \cup L]
  /\ \E out \in InOrder(R) : delivered' = [delivered EXCEPT ![s] = @ \o out]

Connects(s) ==
  /\ cs[s].state = "NONE" /\ delivered[s] = <<>>
  /\ \E k \in Connection : /\ k.state = "PASSIVE" /\ k.lastRecv = 0
                           /\ cs' = [cs EXCEPT ![s] = k]
  /\ UNCHANGED <<delivered, givenUp>>

Keeps ==
  /\ \A r \in Stream : \/ cs'[r].state = "NONE"
                       \/ cs'[r].state = cs[r].state /\ cs'[r].lastRecv = cs[r].lastRecv
  /\ UNCHANGED <<delivered, givenUp>>

Effect ==
  \/ Keeps
  \/ \E s \in Stream : Connects(s)
  \/ \E s \in Stream, k \in Connection, R \in SUBSET Seqno, L \in SUBSET Seqno :
       Serves(s, k, R, L)

-----------------------------------------------------------------------------
(* Pieces of the handlers.                                                 *)

LEMMA NothingInOrder == <<>> \in InOrder({})
<1>1. Cardinality({}) = 0
  BY FS_EmptySet
<1>2. <<>> \in [1 .. 0 -> {}]
  OBVIOUS
<1> QED BY <1>1, <1>2 DEF InOrder

LEMMA NothingDelivered ==
  ASSUME IndInv, NEW s \in Stream, UNCHANGED delivered
  PROVE  \E out \in InOrder({}) : delivered' = [delivered EXCEPT ![s] = @ \o out]
<1>1. delivered[s] \in Seq(Seqno) /\ delivered \in [Stream -> Seq(Seqno)]
  BY MasterTypes
<1>2. delivered[s] \o <<>> = delivered[s]
  BY <1>1, ConcatEmptySeq
<1>3. delivered' = [delivered EXCEPT ![s] = @ \o <<>>]
  BY <1>1, <1>2
<1> QED BY <1>3, NothingInOrder

(* send_NACK gives up what is TrValidRange behind.                         *)
LEMMA TooOldIsOld ==
  ASSUME NEW c \in Connection, c.lastRecv <= Top, \A x \in c.missing : x < c.lastRecv,
         NEW x \in TooOld(c)
  PROVE  x \in Seqno /\ x + TrValidRange <= c.lastRecv
<1>1. /\ x \in Seqno /\ x \in Nat /\ x >= 1 /\ x < c.lastRecv /\ c.lastRecv \in Nat
      /\ SeqCmp(c.lastRecv, SeqAdd(x, TrValidRange)) >= 0
  BY ConnTypes DEF TooOld, Seqno, TrFirstSeqno
<1>2. x \in 1 .. Top /\ SeqAdd(x, TrValidRange) = x + TrValidRange
  BY <1>1, SmallAdd, SmallUnwrapped
<1>3. x + TrValidRange \in 0 .. (Top + TrValidRange) /\ c.lastRecv \in 0 .. (Top + TrValidRange)
  BY <1>1, <1>2, SmallUnwrapped
<1>4. ~(SeqCmp(c.lastRecv, x + TrValidRange) < 0)
  BY <1>1, <1>2, <1>3, SmallCmp
<1>5. ~(c.lastRecv < x + TrValidRange)
  BY <1>3, <1>4, SmallCmp
<1> QED BY <1>1, <1>3, <1>5, SmallUnwrapped

(* receive_str_msg skips a number only when the queue holds a newer one    *)
(* that is TrValidRange behind the packet that has come.                   *)
LEMMA SkippedIsOld ==
  ASSUME NEW k \in 0 .. (Top - 1), NEW c \in Connection, c.nextExpected <= k + 1,
         \A x \in c.plist : c.nextExpected < x /\ x <= k,
         NEW q \in 1 .. k, NEW n \in Seqno, DispatchEndsAt(c, q, n),
         NEW x \in Skipped(c, q, n)
  PROVE  x \in Seqno /\ x + TrValidRange <= q
<1> USE SmallUnwrapped
<1> DEFINE ne == c.nextExpected
           have == Queue(c, q)
<1>1. ne \in 1 .. (k + 1) /\ c.plist \subseteq 1 .. k
  BY DEF Connection, Seqno, TrFirstSeqno
<1>2. /\ n \in ne .. (k + 1)
      /\ have = c.plist \cup (IF q < ne THEN {} ELSE {q})
  BY Dispatch
<1>3. x \in Seqno /\ x \notin have /\ SeqCmp(x, ne) >= 0 /\ SeqCmp(x, n) < 0
  BY DEF Skipped
<1>4. x \in Unwrapped
  <2> SUFFICES ASSUME x \notin Unwrapped PROVE FALSE
    OBVIOUS
  <2>1. ne \in Unwrapped /\ n \in Unwrapped /\ ne <= n /\ n <= n
    BY <1>1, <1>2
  <2>2. SeqCmp(x, ne) \in {-1, 1} /\ (SeqCmp(x, ne) > 0 => SeqCmp(x, n) > 0)
    BY <1>3, <2>1, CmpWrapped
  <2>3. SeqCmp(x, n) > 0
    BY <1>3, <2>2
  <2>4. SeqCmp(x, n) \in {-1, 1}
    BY <1>3, <2>1, CmpWrapped
  <2> QED BY <1>3, <2>3, <2>4
<1>5. ne <= x /\ x < n
  <2>1. ne \in Unwrapped /\ n \in Unwrapped
    BY <1>1, <1>2
  <2>2. SeqCmp(x, ne) \in -1 .. 1 /\ (SeqCmp(x, ne) < 0 <=> x < ne)
        /\ (SeqCmp(x, n) < 0 <=> x < n)
    BY <1>4, <2>1, CmpUnwrapped
  <2> QED BY <1>1, <1>3, <2>2 DEF Seqno, TrFirstSeqno
<1>6. PICK r \in ResumesAt(c, q) : RunEndsAt(have, r, n)
  BY DEF DispatchEndsAt
<1>7. r = ne \/ \E f \in c.plist : /\ r = SeqNext(f)
                                   /\ SeqCmp(q, SeqAdd(f, TrValidRange)) >= 0
  BY <1>6 DEF ResumesAt, Overdue
<1>8. r \in 1 .. (k + 1)
  <2>1. ASSUME NEW f \in c.plist, r = SeqNext(f) PROVE r \in 1 .. (k + 1)
    BY <1>1, <2>1, SmallNext
  <2> QED BY <1>1, <1>7, <2>1
<1>9. r .. (n - 1) \subseteq have
  <2>1. have \subseteq 1 .. k
    BY <1>1, <1>2
  <2> HIDE DEF have, ne
  <2> QED BY ONLY k \in 0 .. (Top - 1), n \in Seqno, <2>1, <1>6, <1>8, RunEnd
<1>10. x < r
  BY <1>1, <1>2, <1>3, <1>5, <1>8, <1>9 DEF Seqno, TrFirstSeqno
<1>11. PICK f \in c.plist : r = SeqNext(f) /\ SeqCmp(q, SeqAdd(f, TrValidRange)) >= 0
  BY <1>1, <1>3, <1>5, <1>7, <1>10 DEF Seqno, TrFirstSeqno
<1>12. /\ f \in 1 .. Top /\ r = f + 1 /\ SeqAdd(f, TrValidRange) = f + TrValidRange
       /\ q \in 0 .. (Top + TrValidRange) /\ f + TrValidRange \in 0 .. (Top + TrValidRange)
  BY <1>1, <1>11, SmallNext, SmallAdd
<1>13. f + TrValidRange <= q
  <2>1. ~(SeqCmp(q, f + TrValidRange) < 0)
    BY <1>11, <1>12, SmallCmp
  <2>2. ~(q < f + TrValidRange)
    BY <1>12, <2>1, SmallCmp
  <2> QED BY <1>12, <2>2
<1>14. x <= f
  BY <1>3, <1>10, <1>12 DEF Seqno, TrFirstSeqno
<1> QED BY <1>3, <1>12, <1>13, <1>14 DEF Seqno, TrFirstSeqno

-----------------------------------------------------------------------------
(* The effect of each handler of the master.                               *)

LEMMA KeepsAlarm ==
  ASSUME IndInv, NEW s \in Stream, NEW k,
         k.state = cs[s].state, k.lastRecv = cs[s].lastRecv,
         cs' = [cs EXCEPT ![s] = k], UNCHANGED <<delivered, givenUp>>
  PROVE  Keeps
<1>1. \A r \in Stream : cs'[r] = IF r = s THEN k ELSE cs[r]
  BY MasterTypes
<1> QED BY <1>1 DEF Keeps

LEMMA EffectSYN ==
  ASSUME IndInv, NEW p \in net, Receive_SYN(p)
  PROVE  Effect
<1>1. PICK s \in Stream : s = p.s
  BY Arrival
<1>2. UNCHANGED <<delivered, givenUp>>
  BY DEF Receive_SYN
<1>3. CASE /\ cs[s].state = "NONE"
           /\ cs' = [cs EXCEPT ![s] = STR_Timer_start(NewConnection)]
  <2>1. PICK k \in Connection : /\ k = STR_Timer_start(NewConnection)
                               /\ k.state = "PASSIVE" /\ k.lastRecv = 0
    <3>1. sent[s] \in Nat
      BY SenderTypes
    <3>2. NewConnection \in Connection
      BY <3>1, NewConnectionSound
    <3>3. NewConnection.state = "PASSIVE" /\ NewConnection.lastRecv = 0
      BY DEF NewConnection, NoConnection
    <3>4. PICK n \in Connection : /\ n = NewConnection
                                 /\ n.state = "PASSIVE" /\ n.lastRecv = 0
      BY <3>2, <3>3
    <3>5. PICK m : m = STR_Timer_start(n)
      OBVIOUS
    <3>6. m \in Connection /\ m.state = "PASSIVE" /\ m.lastRecv = 0
      BY <3>4, <3>5 DEF STR_Timer_start, Connection
    <3> QED BY <3>4, <3>5, <3>6
  <2>2. delivered[s] = <<>>
    BY <1>1, <1>3 DEF IndInv, NetInv, Receive_SYN
  <2> QED BY <1>2, <1>3, <2>1, <2>2 DEF Connects, Effect
<1>4. CASE cs' = [cs EXCEPT ![s] = STR_Timer_start(cs[s])]
  <2>1. PICK k : k = STR_Timer_start(cs[s])
    OBVIOUS
  <2>2. k.state = cs[s].state /\ k.lastRecv = cs[s].lastRecv
    BY <2>1, MasterTypes DEF STR_Timer_start, Connection
  <2> QED BY <1>2, <1>4, <2>1, <2>2, KeepsAlarm DEF Effect
<1> QED BY <1>1, <1>3, <1>4 DEF Receive_SYN

(* A connection that finishes.                                             *)
LEMMA FinishedRecord ==
  ASSUME NEW c \in Connection
  PROVE  LET k == STR_Timer_start([c EXCEPT !.state = "FINISHED"]) IN
         /\ k \in Connection /\ k.state = "FINISHED" /\ k.lastRecv = c.lastRecv
         /\ k.deletePending = c.deletePending
BY DEF STR_Timer_start, Connection, Connected

(* A connection that asks for what is missing.                             *)
LEMMA NackRecord ==
  ASSUME NEW c \in Connection
  PROVE  LET k == AfterNack(c) IN
         /\ k \in Connection /\ k.state = c.state /\ k.lastRecv = c.lastRecv
         /\ k.deletePending = c.deletePending
BY DEF AfterNack, STR_Timer_start, Connection

LEMMA EffectFIN ==
  ASSUME IndInv, FinInv, NEW p \in net, Receive_FIN(p)
  PROVE  Effect
<1>1. PICK s \in Stream : s = p.s
  BY Arrival
<1>2. PICK q \in 1 .. Top : q = p.seqno
  BY Arrival DEF Receive_FIN
<1>3. PICK c : c = NoteSeqno(cs[s], q)
  OBVIOUS
<1>4. /\ cs[s].state # "NONE" /\ Done(s) /\ cs[s] \in Connection /\ p.flag = "FIN"
      /\ sent[s] \in 0 .. (Top - 1) /\ UNCHANGED delivered
  BY <1>1, Arrival, MasterTypes DEF Receive_FIN
<1>5. /\ c \in Connection /\ c.state = cs[s].state
      /\ c.lastRecv <= Top /\ (\A x \in c.missing : x < c.lastRecv)
  <2>1. PICK D, G : D = DeliveredSet(s) /\ G = givenUp[s]
    OBVIOUS
  <2>2. Sound(s, cs[s], D, G, {})
    BY <1>4, <2>1, IsSound
  <2>3. c \in Connection /\ Sound(s, c, D, G, {q}) /\ c.state = cs[s].state
    BY ONLY s \in Stream, q \in 1 .. Top, <1>3, <1>4, <2>2, NoteSound
  <2> QED BY <2>3 DEF Sound
<1>6. c.lastRecv = cs[s].lastRecv \/ c.lastRecv = q
  BY <1>3, <1>4 DEF NoteSeqno, Connection
<1>7. \/ c.lastRecv = cs[s].lastRecv \/ c.lastRecv <= sent[s]
      \/ \E m \in net : m.flag = "FIN" /\ m.s = s /\ c.lastRecv = m.seqno
  BY <1>1, <1>2, <1>4, <1>6
<1>8. CASE Finish(s, c, p) /\ UNCHANGED givenUp
  <2>1. PICK k \in Connection : /\ k = STR_Timer_start([c EXCEPT !.state = "FINISHED"])
                               /\ k.state = "FINISHED" /\ k.lastRecv = c.lastRecv
    BY <1>5, FinishedRecord
  <2>2. cs' = [cs EXCEPT ![s] = k]
    BY <1>8, <2>1 DEF Finish
  <2>3. givenUp' = [givenUp EXCEPT ![s] = @ \cup {}]
    BY <1>8, MasterTypes
  <2>4. Serves(s, k, {}, {})
    BY <1>4, <1>7, <2>1, <2>2, <2>3, NothingDelivered DEF Serves
  <2> QED BY <2>4 DEF Effect
<1>9. CASE /\ c.missing # {}
           /\ cs' = [cs EXCEPT ![s] =
                       [AfterNack(c) EXCEPT !.timeoutCount = 0, !.state = "FIN_NACK_WAIT"]]
           /\ givenUp' = [givenUp EXCEPT ![s] = @ \cup TooOld(c)]
  <2>1. PICK a \in Connection : a = AfterNack(c) /\ a.lastRecv = c.lastRecv
    BY <1>5, NackRecord
  <2>2. PICK k : k = [a EXCEPT !.timeoutCount = 0, !.state = "FIN_NACK_WAIT"]
    OBVIOUS
  <2>3. k \in Connection /\ k.state = "FIN_NACK_WAIT" /\ k.lastRecv = c.lastRecv
    <3>1. 0 \in 0 .. MaxTimeoutCount
      BY StrMasterAssumption
    <3> QED BY <2>1, <2>2, <3>1 DEF Connection, Connected
  <2>4. cs[s].state # "FINISHED"
    <3> SUFFICES ASSUME cs[s].state = "FINISHED" PROVE FALSE
      OBVIOUS
    <3>1. cs[s].missing = {} /\ cs[s].lastRecv > sent[s]
      BY <1>4, IsSound DEF Sound
    <3>2. cs[s].lastRecv = q
      BY <1>1, <1>2, <1>4, <3>1 DEF FinInv, FinNoted
    <3>3. c = cs[s]
      BY <1>3, <3>2, <1>2, SmallCmp, SmallUnwrapped DEF NoteSeqno
    <3> QED BY <1>9, <3>1, <3>3
  <2>5. \A x \in TooOld(c) : x \in Seqno /\ x + TrValidRange <= k.lastRecv
    BY <1>5, <2>3, TooOldIsOld
  <2>6. Serves(s, k, {}, TooOld(c))
    BY <1>4, <1>7, <1>9, <2>1, <2>2, <2>3, <2>4, <2>5, NothingDelivered DEF Serves
  <2> QED BY <2>3, <2>5, <2>6 DEF Effect
<1> QED BY <1>1, <1>2, <1>3, <1>8, <1>9 DEF Receive_FIN

(* The answer to a data packet: what it leaves of the dispatched           *)
(* connection d, and what it gives up of it.                               *)
LEMMA AnswerRecord ==
  ASSUME IndInv, NEW p \in net, NEW s \in Stream, s = p.s, NEW d \in Connection,
         d.state # "NONE", NEW K \in SUBSET Seqno,
         AnswerGap(p, d, K) \/ AnswerNoGap(p, d, K)
  PROVE  \E k \in Connection, O \in {{}, TooOld(d)} :
           /\ k.state # "NONE" /\ k.lastRecv = d.lastRecv
           /\ d.state = "FINISHED" => k.state = "FINISHED"
           /\ cs' = [cs EXCEPT ![s] = k]
           /\ givenUp' = [givenUp EXCEPT ![s] = @ \cup (K \cup O)]
           /\ k.deletePending = d.deletePending
           /\ \/ DeleteDone(cs', s)
              \/ UNCHANGED tids /\ (k.state = "FINISHED" => d.state = "FINISHED")
<1>1. CASE AnswerGap(p, d, K)
  <2>1. PICK a \in Connection : /\ a = AfterNack(d) /\ a.state = d.state
                               /\ a.lastRecv = d.lastRecv /\ a.deletePending = d.deletePending
    BY NackRecord
  <2>2. PICK k : k = [a EXCEPT !.state = IF @ = "PASSIVE" THEN "NACK_WAIT" ELSE @]
    OBVIOUS
  <2>3. /\ k \in Connection /\ k.lastRecv = d.lastRecv /\ k.deletePending = d.deletePending
        /\ k.state = IF d.state = "PASSIVE" THEN "NACK_WAIT" ELSE d.state
        /\ UNCHANGED tids
    BY <1>1, <2>1, <2>2 DEF Connection, Connected, AnswerGap
  <2>4. cs' = [cs EXCEPT ![s] = k]
    BY <1>1, <2>1, <2>2 DEF AnswerGap
  <2>5. givenUp' = [givenUp EXCEPT ![s] = @ \cup (K \cup TooOld(d))]
    <3>1. givenUp' = [givenUp EXCEPT ![s] = @ \cup K \cup TooOld(d)]
      BY <1>1 DEF AnswerGap
    <3>2. givenUp[s] \cup K \cup TooOld(d) = givenUp[s] \cup (K \cup TooOld(d))
      OBVIOUS
    <3> QED BY <3>1, <3>2
  <2> QED BY <2>3, <2>4, <2>5
<1>2. CASE AnswerNoGap(p, d, K)
  <2>1. givenUp' = [givenUp EXCEPT ![s] = @ \cup (K \cup {})]
    BY <1>2 DEF AnswerNoGap
  <2>2. CASE d.state = "FIN_NACK_WAIT" /\ Finish(s, d, p)
    <3>1. PICK k \in Connection : /\ k = STR_Timer_start([d EXCEPT !.state = "FINISHED"])
                                 /\ k.state = "FINISHED" /\ k.lastRecv = d.lastRecv
                                 /\ k.deletePending = d.deletePending
      BY FinishedRecord
    <3> QED BY <2>1, <2>2, <3>1 DEF Finish
  <2>3. CASE /\ d.state = "NACK_WAIT" /\ UNCHANGED tids
             /\ cs' = [cs EXCEPT ![s] = STR_Timer_start([d EXCEPT !.state = "PASSIVE"])]
    <3>1. PICK e : e = [d EXCEPT !.state = "PASSIVE"]
      OBVIOUS
    <3>2. /\ e \in Connection /\ e.state = "PASSIVE" /\ e.lastRecv = d.lastRecv
          /\ e.deletePending = d.deletePending
      BY <3>1 DEF Connection, Connected
    <3>3. PICK k : k = STR_Timer_start(e)
      OBVIOUS
    <3>4. /\ k \in Connection /\ k.state = "PASSIVE" /\ k.lastRecv = d.lastRecv
          /\ k.deletePending = d.deletePending
      BY <3>2, <3>3 DEF STR_Timer_start, Connection
    <3> QED BY <2>1, <2>3, <3>1, <3>3, <3>4
  <2>4. CASE cs' = [cs EXCEPT ![s] = d] /\ UNCHANGED tids
    BY <2>1, <2>4
  <2> QED BY <1>2, <2>2, <2>3, <2>4 DEF AnswerNoGap
<1> QED BY <1>1, <1>2

LEMMA NotedRecord ==
  ASSUME NEW p \in net, NEW s \in Stream, s = p.s, cs[s] \in Connection
  PROVE  Noted(p).lastRecv \in {cs[s].lastRecv, p.seqno}
         /\ Noted(p).nextExpected = cs[s].nextExpected
         /\ Noted(p).deletePending = cs[s].deletePending /\ Noted(p).state = cs[s].state
<1>1. PICK e : e = NoteSeqno(cs[s], p.seqno)
  OBVIOUS
<1>2. /\ e.lastRecv \in {cs[s].lastRecv, p.seqno} /\ e.nextExpected = cs[s].nextExpected
      /\ e.deletePending = cs[s].deletePending /\ e.state = cs[s].state
      /\ [e EXCEPT !.missing = @ \ {p.seqno}].deletePending = e.deletePending
      /\ [e EXCEPT !.missing = @ \ {p.seqno}].state = e.state
      /\ [e EXCEPT !.missing = @ \ {p.seqno}].lastRecv = e.lastRecv
      /\ [e EXCEPT !.missing = @ \ {p.seqno}].nextExpected = e.nextExpected
  BY <1>1 DEF NoteSeqno, Connection
<1> QED BY <1>1, <1>2 DEF Noted

LEMMA EffectDATA ==
  ASSUME IndInv, NEW p \in net, Receive_DATA(p)
  PROVE  Effect
<1>1. PICK s \in Stream : s = p.s
  BY Arrival
<1>2. PICK q \in 1 .. sent[s] : q = p.seqno
  BY <1>1, Arrival DEF Receive_DATA
<1>3. /\ sent[s] \in 0 .. (Top - 1) /\ cs[s].state # "NONE" /\ cs[s] \in Connection
      /\ delivered[s] \in Seq(Seqno)
  BY <1>1, MasterTypes DEF Receive_DATA
<1>4. PICK c \in Connection :
        /\ c = Noted(p) /\ q <= c.lastRecv /\ c.state = cs[s].state
        /\ Sound(s, c, DeliveredSet(s), givenUp[s], {q})
        /\ c.lastRecv \in {cs[s].lastRecv, q} /\ c.nextExpected = cs[s].nextExpected
  BY <1>1, <1>2, <1>3, DataNoted, NotedRecord DEF Receive_DATA
<1>5. PICK n \in Seqno :
        /\ DispatchEndsAt(c, q, n)
        /\ \E out \in InOrder(Ready(c, q, n)) :
             delivered' = [delivered EXCEPT ![s] = @ \o out]
        /\ \/ AnswerGap(p, Dispatched(c, q, n), Skipped(c, q, n))
           \/ AnswerNoGap(p, Dispatched(c, q, n), Skipped(c, q, n))
  BY <1>1, <1>2, <1>4 DEF Receive_DATA
<1>6. PICK d, R, K : d = Dispatched(c, q, n) /\ R = Ready(c, q, n) /\ K = Skipped(c, q, n)
  OBVIOUS
<1>7. PICK D \in SUBSET Nat : D = DeliveredSet(s)
  <2>1. \A i \in DOMAIN delivered[s] : delivered[s][i] \in Seqno
    BY <1>3, ElementOfSeq, LenProperties
  <2>2. DeliveredSet(s) \in SUBSET Nat
    BY <2>1 DEF DeliveredSet, Seqno, TrFirstSeqno
  <2> QED BY <2>2
<1>8. PICK G : G = givenUp[s]
  OBVIOUS
<1>9. Sound(s, c, D, G, {q})
  BY <1>4, <1>7, <1>8
<1>10. /\ d \in Connection /\ K \subseteq Seqno
       /\ Sound(s, d, D \cup R, G \cup K, {})
       /\ \A x \in R : x \in Seqno /\ c.nextExpected <= x /\ x <= sent[s]
       /\ d.state = c.state
  <2>1. c \in Connection /\ q <= c.lastRecv /\ D \in SUBSET Nat
    BY <1>4
  <2>2. DispatchEndsAt(c, q, n) /\ sent[s] \in 0 .. (Top - 1)
    BY <1>3, <1>5
  <2>3. /\ Dispatched(c, q, n) \in Connection
        /\ Sound(s, Dispatched(c, q, n), D \cup Ready(c, q, n), G \cup Skipped(c, q, n), {})
        /\ \A x \in Ready(c, q, n) : x \in Seqno /\ c.nextExpected <= x /\ x <= sent[s]
        /\ Skipped(c, q, n) \subseteq Seqno
        /\ Dispatched(c, q, n).state = c.state
    BY ONLY s \in Stream, q \in 1 .. sent[s], n \in Seqno, <1>9, <2>1, <2>2, DispatchSound
  <2> QED BY <1>6, <2>3
<1>11. d.lastRecv = c.lastRecv
  BY <1>4, <1>6 DEF Dispatched, Connection
<1>12. ASSUME NEW x \in K PROVE x + TrValidRange <= sent[s] /\ x \in Seqno
  <2>1. PICK k \in 0 .. (Top - 1) : k = sent[s]
    BY <1>3
  <2>2. c.nextExpected <= k + 1 /\ \A y \in c.plist : c.nextExpected < y /\ y <= k
    BY <1>9, <2>1 DEF Sound
  <2>3. q \in 1 .. k /\ x \in Skipped(c, q, n) /\ DispatchEndsAt(c, q, n)
    BY <1>5, <1>6, <1>12, <2>1
  <2>4. x \in Seqno /\ x + TrValidRange <= q
    BY ONLY k \in 0 .. (Top - 1), c \in Connection, n \in Seqno, <2>2, <2>3, SkippedIsOld
  <2> QED BY <2>1, <2>3, <2>4, SmallUnwrapped DEF Seqno, TrFirstSeqno
<1>13. \A x \in R : x \in Seqno /\ x <= sent[s] /\ cs[s].nextExpected <= x
  BY <1>4, <1>10
<1>14. PICK k \in Connection, O \in {{}, TooOld(d)} :
         /\ k.state # "NONE" /\ k.lastRecv = d.lastRecv
         /\ d.state = "FINISHED" => k.state = "FINISHED"
         /\ cs' = [cs EXCEPT ![s] = k]
         /\ givenUp' = [givenUp EXCEPT ![s] = @ \cup (K \cup O)]
  <2>1. d.state # "NONE" /\ d \in Connection /\ K \in SUBSET Seqno
    BY <1>3, <1>4, <1>10
  <2>2. AnswerGap(p, d, K) \/ AnswerNoGap(p, d, K)
    BY <1>5, <1>6
  <2> QED BY ONLY IndInv, s \in Stream, p \in net, <1>1, <2>1, <2>2, AnswerRecord
<1>15. ASSUME NEW x \in O PROVE x \in Seqno /\ x + TrValidRange <= k.lastRecv
  <2>1. d.lastRecv <= Top /\ \A y \in d.missing : y < d.lastRecv
    BY <1>10 DEF Sound
  <2> QED BY <1>10, <1>14, <1>15, <2>1, TooOldIsOld
<1>16. k.lastRecv = cs[s].lastRecv \/ k.lastRecv <= sent[s]
  BY <1>3, <1>4, <1>11, <1>14
<1>17. Serves(s, k, R, K \cup O)
  BY <1>3, <1>4, <1>5, <1>6, <1>10, <1>12, <1>13, <1>14, <1>15, <1>16 DEF Serves
<1> QED BY <1>10, <1>12, <1>15, <1>17 DEF Effect

LEMMA EffectDelete ==
  ASSUME IndInv, NEW s \in Stream, Delete(s)
  PROVE  Effect
<1>1. \A r \in Stream : cs'[r] = IF r = s THEN NoConnection ELSE cs[r]
  BY MasterTypes DEF Delete
<1>2. NoConnection.state = "NONE"
  BY DEF NoConnection
<1> QED BY <1>1, <1>2 DEF Delete, Keeps, Effect

LEMMA EffectNackTimer ==
  ASSUME IndInv, NEW s \in Stream, Fired_NACK_WAIT(s), ~Delete(s)
  PROVE  Effect
<1>1. PICK c : c = [cs[s] EXCEPT !.timeoutCount = @ + 1]
  OBVIOUS
<1>2. c.timeoutCount < MaxTimeoutCount /\ c.state \in {"NACK_WAIT", "FIN_NACK_WAIT"}
  BY <1>1 DEF Fired_NACK_WAIT
<1>3. /\ c \in Connection /\ c.state = cs[s].state /\ c.missing = cs[s].missing
      /\ c.lastRecv = cs[s].lastRecv
  <2>1. cs[s] \in Connection /\ cs[s].timeoutCount \in Nat /\ MaxTimeoutCount \in Nat
    BY MasterTypes, StrMasterAssumption DEF Connection
  <2>2. c.timeoutCount = cs[s].timeoutCount + 1
    BY <1>1, <2>1 DEF Connection
  <2>3. cs[s].timeoutCount + 1 \in 0 .. MaxTimeoutCount
    BY <1>2, <2>1, <2>2
  <2> QED BY <1>1, <2>1, <2>3 DEF Connection
<1>4. UNCHANGED delivered /\ cs[s].state # "NONE" /\ cs[s].state # "FINISHED"
  BY <1>2, <1>3 DEF Fired_NACK_WAIT, Delete
<1>5. CASE /\ cs' = [cs EXCEPT ![s] = AfterNack(c)]
           /\ givenUp' = [givenUp EXCEPT ![s] = @ \cup TooOld(c)]
  <2>1. PICK k \in Connection : /\ k = AfterNack(c) /\ k.state = c.state
                               /\ k.lastRecv = c.lastRecv
    BY <1>3, NackRecord
  <2>2. c.lastRecv <= Top /\ \A x \in c.missing : x < c.lastRecv
    BY <1>3, <1>4, IsSound DEF Sound
  <2>3. \A x \in TooOld(c) : x \in Seqno /\ x + TrValidRange <= k.lastRecv
    BY <1>3, <2>1, <2>2, TooOldIsOld
  <2>4. Serves(s, k, {}, TooOld(c))
    BY <1>3, <1>4, <1>5, <2>1, <2>3, NothingDelivered DEF Serves
  <2> QED BY <2>3, <2>4 DEF Effect
<1>6. ASSUME NEW st \in Connected, UNCHANGED givenUp,
             cs' = [cs EXCEPT ![s] = STR_Timer_start([c EXCEPT !.state = st])]
      PROVE  Effect
  <2>1. PICK e : e = [c EXCEPT !.state = st]
    OBVIOUS
  <2>2. e \in Connection /\ e.state = st /\ e.lastRecv = c.lastRecv
    BY <1>3, <2>1 DEF Connection
  <2>3. PICK k : k = STR_Timer_start(e)
    OBVIOUS
  <2>4. k \in Connection /\ k.state = st /\ k.lastRecv = c.lastRecv /\ st # "NONE"
    BY <2>2, <2>3 DEF STR_Timer_start, Connection, Connected
  <2>5. givenUp' = [givenUp EXCEPT ![s] = @ \cup {}]
    BY <1>6, MasterTypes
  <2>6. Serves(s, k, {}, {})
    BY <1>3, <1>4, <1>6, <2>1, <2>3, <2>4, <2>5, NothingDelivered DEF Serves
  <2> QED BY <2>4, <2>6 DEF Effect
<1>7. "PASSIVE" \in Connected /\ "FINISHED" \in Connected
  BY DEF Connected
<1> QED BY <1>1, <1>5, <1>6, <1>7 DEF Fired_NACK_WAIT

LEMMA EffectClose ==
  ASSUME IndInv, NEW t \in Tid, ClientClose(t) \/ ClientGone(t)
  PROVE  Effect
<1>1. DeleteTid(t) /\ UNCHANGED <<delivered, givenUp>>
  BY DEF ClientClose, ClientGone
<1>2. ASSUME NEW r \in Stream
      PROVE  \/ cs'[r].state = "NONE"
             \/ cs'[r].state = cs[r].state /\ cs'[r].lastRecv = cs[r].lastRecv
  <2>1. cs[r] \in Connection
    BY MasterTypes
  <2>2. /\ [cs[r] EXCEPT !.deletePending = TRUE].state = cs[r].state
        /\ [cs[r] EXCEPT !.deletePending = TRUE].lastRecv = cs[r].lastRecv
    BY <2>1 DEF Connection
  <2>3. NoConnection.state = "NONE"
    BY DEF NoConnection
  <2> QED BY <1>1, <2>2, <2>3 DEF DeleteTid
<1> QED BY <1>1, <1>2 DEF Keeps, Effect

LEMMA MasterEffect ==
  ASSUME IndInv, FinInv, MasterNext
  PROVE  Effect
<1>1. ASSUME UNCHANGED streamVars PROVE Effect
  BY <1>1 DEF streamVars, Keeps, Effect
<1>2. ASSUME NEW p \in net, Receive(p) PROVE Effect
  BY <1>1, <1>2, EffectSYN, EffectFIN, EffectDATA
     DEF Receive, Receive_FIN_unknown, Receive_DATA_unknown, masterVars, streamVars
<1>3. ASSUME NEW s \in Stream, Expire(s) PROVE Effect
  <2>1. PICK k : k = [cs[s] EXCEPT !.alarm = "due"]
    OBVIOUS
  <2>2. k.state = cs[s].state /\ k.lastRecv = cs[s].lastRecv
    BY <2>1, MasterTypes DEF Connection
  <2>3. cs' = [cs EXCEPT ![s] = k] /\ UNCHANGED <<delivered, givenUp>>
    BY <1>3, <2>1 DEF Expire
  <2> QED BY <2>2, <2>3, KeepsAlarm DEF Effect
<1>4. ASSUME NEW s \in Stream, STR_Timer_fired(s) PROVE Effect
  BY <1>1, <1>4, EffectDelete, EffectNackTimer
     DEF STR_Timer_fired, Fired_FINISHED, Fired_PASSIVE, masterVars, streamVars
<1>5. ASSUME NEW t \in Tid, OtherOpens(t) \/ OtherEnds(t) PROVE Effect
  BY <1>1, <1>5 DEF OtherOpens, OtherEnds
<1> QED BY <1>2, <1>3, <1>4, <1>5, EffectClose DEF MasterNext, StreamNext, Poll

(* The master sends nothing to itself.                                     *)
LEMMA MasterSends ==
  ASSUME IndInv, MasterNext
  PROVE  \A p \in net' : p \in net \/ p.flag \in MoteFlag
<1>1. ASSUME NEW q, q.flag \in MoteFlag, net' \subseteq net \cup {q}
      PROVE  \A p \in net' : p \in net \/ p.flag \in MoteFlag
  BY <1>1
<1>2. /\ \A s, n : Pkt(s, "SYN_ACK", n).flag \in MoteFlag /\ Pkt(s, "FIN_ACK", n).flag \in MoteFlag
      /\ \A s, c : NackOf(s, c).flag \in MoteFlag
  BY DEF Pkt, NackOf, Nack, MoteFlag
<1>3. ASSUME NEW p \in net, NEW q, q.flag \in MoteFlag, Reply(p, q)
      PROVE  \A m \in net' : m \in net \/ m.flag \in MoteFlag
  <2>1. net' \subseteq net \cup {q}
    BY <1>3, ReplySends
  <2> QED BY <1>3, <2>1
<1>4. ASSUME NEW p \in net, Receive(p)
      PROVE  \A m \in net' : m \in net \/ m.flag \in MoteFlag
  <2>1. CASE \E q : q.flag \in MoteFlag /\ Reply(p, q)
    BY <1>3, <2>1
  <2>2. CASE NoReply(p)
    BY <2>2, ReplySends
  <2>3. CASE Receive_SYN(p)
    BY <1>2, <2>1, <2>3 DEF Receive_SYN
  <2>4. CASE Receive_FIN_unknown(p)
    BY <1>2, <2>1, <2>4 DEF Receive_FIN_unknown
  <2>5. CASE Receive_FIN(p)
    BY <1>2, <2>1, <2>5 DEF Receive_FIN, Finish
  <2>6. CASE Receive_DATA_unknown(p)
    BY <2>2, <2>6 DEF Receive_DATA_unknown
  <2>7. CASE Receive_DATA(p)
    BY <1>2, <2>1, <2>2, <2>7 DEF Receive_DATA, AnswerGap, AnswerNoGap, Finish
  <2> QED BY <1>4, <2>3, <2>4, <2>5, <2>6, <2>7 DEF Receive
<1>5. ASSUME NEW s \in Stream, STR_Timer_fired(s)
      PROVE  \A m \in net' : m \in net \/ m.flag \in MoteFlag
  BY <1>2, <1>5, ChannelOnlyLoses
     DEF STR_Timer_fired, Fired_FINISHED, Fired_NACK_WAIT, Fired_PASSIVE, Delete, WithoutSyn
<1>6. ASSUME NEW t \in Tid, ClientClose(t) \/ ClientGone(t)
      PROVE  \A m \in net' : m \in net \/ m.flag \in MoteFlag
  BY <1>6 DEF ClientClose, ClientGone, DeleteTid, WithoutSyn
<1> QED BY <1>4, <1>5, <1>6 DEF MasterNext, StreamNext, Poll, Expire, OtherOpens, OtherEnds

-----------------------------------------------------------------------------
(* RangeInv and FinInv are invariants.                                     *)

PromiseInv == RangeInv /\ FinInv

LEMMA HighMarks ==
  ASSUME IndInv, NEW s \in Stream
  PROVE  /\ HighMark(s) \in Nat /\ HighMark(s) >= sent[s] /\ HighMark(s) >= MaxNumRetx
         /\ MaxNumRetx \in Nat /\ sent[s] \in Nat
         /\ HighMark(s) \in {sent[s], MaxNumRetx}
BY SenderTypes, StrSenderAssumption DEF HighMark

LEMMA PromiseInit == Init => PromiseInv
<1> SUFFICES ASSUME Init PROVE PromiseInv
  OBVIOUS
<1>1. /\ net = {} /\ \A s \in Stream : cs[s].state = "NONE" /\ givenUp[s] = {}
      /\ \A s \in Stream : conn[s].lastSent = 0 /\ ~conn[s].closed
  BY DEF Init, MasterInit, SenderInit, NoConnection, Idle
<1>2. \A s \in Stream : 0 <= HighMark(s)
  BY InitInv, HighMarks
<1>3. RangeInv
  BY <1>1, <1>2 DEF RangeInv, GivesUpOnlyBeyondRange
<1>4. FinInv
  BY <1>1 DEF FinInv
<1> QED BY <1>3, <1>4 DEF PromiseInv

(* What a step of the mote may do, as far as PromiseInv is concerned.      *)
LEMMA SenderKeepsPromise ==
  ASSUME IndInv, IndInv', PromiseInv, UNCHANGED masterVars, NEW s \in Stream,
         \A r \in Stream \ {s} : conn'[r] = conn[r] /\ sent'[r] = sent[r],
         sent'[s] = sent[s] \/ sent'[s] = sent[s] + 1,
         conn'[s].lastSent <= HighMark(s)',
         conn[s].state = "IDLE" => conn'[s].state = "IDLE",
         Finishing(s) => \/ conn'[s].state = "IDLE"
                         \/ Finishing(s)' /\ conn'[s].lastSent = conn[s].lastSent,
         conn'[s].state = "UNOPENED" => ~conn'[s].closed,
         \A p \in net' : \/ p \in net \/ p.flag # "FIN"
                         \/ Finishing(s) /\ p.s = s /\ p.seqno = conn[s].lastSent + 1
  PROVE  PromiseInv'
<1>1. \A r \in Stream : /\ sent[r] \in Nat /\ sent'[r] \in Nat /\ sent'[r] >= sent[r]
                       /\ cs'[r] = cs[r] /\ givenUp'[r] = givenUp[r] /\ cs[r] \in Connection
  <2> TAKE r \in Stream
  <2>1. sent[r] \in Nat /\ cs[r] \in Connection /\ cs' = cs /\ givenUp' = givenUp
    BY SenderTypes, MasterTypes DEF masterVars
  <2>2. sent'[r] = sent[r] \/ sent'[r] = sent[r] + 1
    OBVIOUS
  <2> QED BY <2>1, <2>2
<1>2. \A r \in Stream : HighMark(r)' >= HighMark(r) /\ HighMark(r) \in Nat /\ HighMark(r)' \in Nat
  BY <1>1, StrSenderAssumption DEF HighMark
<1>3. \A r \in Stream : conn'[r].lastSent <= HighMark(r)'
  <2>1. \A r \in Stream \ {s} : HighMark(r)' = HighMark(r)
    BY DEF HighMark
  <2> QED BY <2>1 DEF PromiseInv, RangeInv
<1>4. \A p \in net' : p.s \in Stream /\ p.seqno \in Seqno0
  BY DEF IndInv, EndsTypeOK, Packet
<1>5. ASSUME NEW p \in net', p.flag = "FIN"
      PROVE  p.seqno <= HighMark(p.s)' + 1
  <2>1. CASE p \in net
    <3>1. p.seqno <= HighMark(p.s) + 1
      BY <1>5, <2>1 DEF PromiseInv, RangeInv
    <3> QED BY <1>2, <1>4, <3>1 DEF Seqno0
  <2>2. CASE p.s = s /\ p.seqno = conn[s].lastSent + 1
    BY <1>2, <2>2, SenderTypes DEF PromiseInv, RangeInv
  <2> QED BY <1>5, <2>1, <2>2
<1>6. RangeInv'
  <2>1. \A r \in Stream : cs'[r].state # "NONE" => cs'[r].lastRecv <= HighMark(r)' + 1
    BY <1>1, <1>2, ConnTypes DEF PromiseInv, RangeInv
  <2>2. ASSUME NEW r \in Stream, NEW x \in givenUp'[r]
        PROVE  x + TrValidRange <= sent'[r] + 1
    <3>1. x + TrValidRange <= sent[r] + 1 /\ x \in Nat /\ TrValidRange \in Nat
      BY <1>1, <2>2, MasterTypes, TrSeqnoAssumption
         DEF PromiseInv, RangeInv, GivesUpOnlyBeyondRange, Seqno, TrFirstSeqno
    <3> QED BY <1>1, <3>1
  <2> QED BY <1>3, <1>5, <2>1, <2>2 DEF RangeInv, GivesUpOnlyBeyondRange
(* A number some FIN may carry keeps being that number.                    *)
<1>7. ASSUME NEW r \in Stream, NEW n, Done(r), FinSent(r, n)
      PROVE  FinSent(r, n)'
  <2>1. CASE r # s
    BY <1>7, <2>1 DEF FinSent, Open, Finishing
  <2>2. CASE r = s /\ Open(s)
    BY <1>7, <2>2 DEF FinSent, Open, Finishing
  <2>3. CASE r = s /\ ~Open(s)
    <3>1. conn[s].state = "IDLE"
      BY <1>7, <2>3 DEF PromiseInv, FinInv, Open, Done
    <3> QED BY <2>3, <3>1 DEF FinSent, Open
  <2> QED BY <2>1, <2>2, <2>3
<1>8. ASSUME NEW p \in net', p \notin net, p.flag = "FIN"
      PROVE  /\ p.s = s /\ p.seqno = conn[s].lastSent + 1 /\ Open(s)
             /\ \A q \in net : q.flag = "FIN" /\ q.s = s => q.seqno = p.seqno
             /\ FinNoted(s, p.seqno)' /\ FinSent(s, p.seqno)'
  <2>1. Finishing(s) /\ p.s = s /\ p.seqno = conn[s].lastSent + 1 /\ Open(s)
    BY <1>8 DEF Finishing, Open
  <2>2. \A q \in net : q.flag = "FIN" /\ q.s = s => q.seqno = p.seqno
    BY <2>1 DEF PromiseInv, FinInv, FinSent
  <2>3. FinNoted(s, p.seqno)'
    <3>1. cs[s].state # "NONE" /\ cs[s].lastRecv > sent[s] => cs[s].lastRecv = p.seqno
      BY <2>1 DEF PromiseInv, FinInv, FinSent
    <3> QED BY <1>1, <3>1, ConnTypes DEF FinNoted
  <2>4. FinSent(s, p.seqno)'
    BY <2>1 DEF FinSent, Open, Finishing
  <2> QED BY <2>1, <2>2, <2>3, <2>4
<1>9. ASSUME NEW p \in net', p \in net, p.flag = "FIN"
      PROVE  FinSent(p.s, p.seqno)' /\ FinNoted(p.s, p.seqno)'
  <2>1. Done(p.s) /\ FinSent(p.s, p.seqno) /\ FinNoted(p.s, p.seqno)
    BY <1>9 DEF IndInv, NetInv, PromiseInv, FinInv
  <2>2. FinNoted(p.s, p.seqno)'
    BY <1>1, <1>4, <2>1, ConnTypes DEF FinNoted
  <2> QED BY <1>4, <1>7, <2>1, <2>2
<1>10. ASSUME NEW r \in Stream, cs'[r].state # "NONE", cs'[r].lastRecv > sent'[r]
       PROVE  FinSent(r, cs[r].lastRecv)'
  <2>1. cs[r].state # "NONE" /\ cs[r].lastRecv > sent[r]
    BY <1>1, <1>10, ConnTypes
  <2>2. Done(r) /\ FinSent(r, cs[r].lastRecv)
    BY <2>1 DEF IndInv, ConnInv, PromiseInv, FinInv
  <2>3. PICK n : n = cs[r].lastRecv /\ n = cs'[r].lastRecv
    BY <1>1
  <2>4. FinSent(r, n)'
    BY <1>7, <2>2, <2>3
  <2> QED BY <2>3, <2>4 DEF FinSent
<1>11. \A r \in Stream : conn'[r].state = "UNOPENED" => ~conn'[r].closed
  BY DEF PromiseInv, FinInv
<1>12. ASSUME NEW p \in net', NEW q \in net', p.flag = "FIN", q.flag = "FIN", p.s = q.s
       PROVE  p.seqno = q.seqno
  <2>1. CASE p \in net /\ q \in net
    BY <1>12, <2>1 DEF PromiseInv, FinInv
  <2>2. CASE p \notin net
    BY <1>8, <1>12, <2>2
  <2>3. CASE q \notin net
    BY <1>8, <1>12, <2>3
  <2> QED BY <2>1, <2>2, <2>3
<1>13. FinInv'
  BY <1>8, <1>9, <1>10, <1>11, <1>12 DEF FinInv
<1> QED BY <1>6, <1>13 DEF PromiseInv

(* A step of the mote that sends no packet of the application.             *)
LEMMA SenderQuietPromise ==
  ASSUME IndInv, IndInv', PromiseInv, UNCHANGED <<masterVars, sent>>, NEW s \in Stream,
         NEW c, conn' = [conn EXCEPT ![s] = c],
         c.lastSent <= HighMark(s), c.state # "UNOPENED",
         conn[s].state = "IDLE" => c.state = "IDLE",
         Finishing(s) => \/ c.state = "IDLE"
                         \/ /\ c.state \in {"FIN_SEND", "FIN_ACK_WAIT"}
                            /\ c.sending # "SYN" /\ c.lastSent = conn[s].lastSent,
         \A p \in net' : \/ p \in net \/ p.flag # "FIN"
                         \/ Finishing(s) /\ p.s = s /\ p.seqno = conn[s].lastSent + 1
  PROVE  PromiseInv'
<1>1. conn'[s] = c /\ \A r \in Stream \ {s} : conn'[r] = conn[r] /\ sent'[r] = sent[r]
  BY SenderTypes
<1>2. HighMark(s)' = HighMark(s)
  BY DEF HighMark
<1>3. Finishing(s) => \/ conn'[s].state = "IDLE"
                      \/ Finishing(s)' /\ conn'[s].lastSent = conn[s].lastSent
  BY <1>1 DEF Finishing
<1> QED BY <1>1, <1>2, <1>3, SenderKeepsPromise

LEMMA PromiseCommands ==
  ASSUME IndInv, IndInv', PromiseInv, UNCHANGED masterVars, NEW s \in Stream,
         ConnectionSend_open(s) \/ send_SYN(s) \/ ConnectionSend_close(s) \/ send_FIN(s)
  PROVE  PromiseInv'
<1>1. conn[s] \in ActiveConnection /\ conn[s].lastSent <= HighMark(s)
  BY SenderTypes DEF PromiseInv, RangeInv
<1>2. CASE ConnectionSend_open(s)
  <2>1. PICK c : c = [conn[s] EXCEPT !.state = "SYN_SEND"]
    OBVIOUS
  <2>2. c.state = "SYN_SEND" /\ c.lastSent = conn[s].lastSent
    BY <1>1, <2>1 DEF ActiveConnection
  <2>3. conn' = [conn EXCEPT ![s] = c] /\ UNCHANGED <<net, sent>> /\ conn[s].state = "UNOPENED"
    BY <1>2, <2>1 DEF ConnectionSend_open, Goto
  <2> QED BY <1>1, <2>2, <2>3, SenderQuietPromise DEF Finishing
<1>3. CASE send_SYN(s)
  <2>1. PICK c : c = [conn[s] EXCEPT !.state = "SYN_ACK_WAIT", !.sending = "SYN"]
    OBVIOUS
  <2>2. c.state = "SYN_ACK_WAIT" /\ c.lastSent = conn[s].lastSent
    BY <1>1, <2>1 DEF ActiveConnection
  <2>3. conn' = [conn EXCEPT ![s] = c] /\ UNCHANGED sent /\ conn[s].state = "SYN_SEND"
    BY <1>3, <2>1 DEF send_SYN
  <2>4. \A p \in net' : p \in net \/ p.flag # "FIN"
    BY <1>3 DEF send_SYN, Sending, Pkt
  <2> QED BY <1>1, <2>2, <2>3, <2>4, SenderQuietPromise DEF Finishing
<1>4. CASE ConnectionSend_close(s)
  <2>1. PICK c : c = [conn[s] EXCEPT !.state = "FIN_SEND", !.closed = TRUE]
    OBVIOUS
  <2>2. c.state = "FIN_SEND" /\ c.lastSent = conn[s].lastSent /\ c.sending = conn[s].sending
    BY <1>1, <2>1 DEF ActiveConnection
  <2>3. conn' = [conn EXCEPT ![s] = c] /\ UNCHANGED <<net, sent>> /\ conn[s].state # "IDLE"
    BY <1>4, <2>1 DEF ConnectionSend_close, Open
  <2> QED BY <1>1, <2>2, <2>3, SenderQuietPromise DEF Finishing
<1>5. CASE send_FIN(s)
  <2>1. PICK c : c = [conn[s] EXCEPT !.state = "FIN_ACK_WAIT", !.sending = "FIN"]
    OBVIOUS
  <2>2. c.state = "FIN_ACK_WAIT" /\ c.lastSent = conn[s].lastSent /\ c.sending = "FIN"
    BY <1>1, <2>1 DEF ActiveConnection
  <2>3. conn' = [conn EXCEPT ![s] = c] /\ UNCHANGED sent /\ conn[s].state # "IDLE"
    BY <1>5, <2>1 DEF send_FIN
  <2>4. Finishing(s)
    BY <1>5 DEF send_FIN, Finishing
  <2>5. SeqNext(conn[s].lastSent) = conn[s].lastSent + 1
    <3>1. conn[s].lastSent \in 0 .. Top
      BY SenderTypes, SmallUnwrapped DEF SenderInv
    <3> QED BY <3>1, SmallNext
  <2>6. \A p \in net' : p \in net \/ (p.s = s /\ p.seqno = conn[s].lastSent + 1)
    BY <1>5, <2>5 DEF send_FIN, Sending, Pkt
  <2> QED BY <1>1, <2>2, <2>3, <2>4, <2>6, SenderQuietPromise
<1> QED BY <1>2, <1>3, <1>4, <1>5

LEMMA PromiseSend ==
  ASSUME IndInv, IndInv', PromiseInv, UNCHANGED masterVars, NEW s \in Stream,
         ConnectionSend_send(s)
  PROVE  PromiseInv'
<1>1. /\ conn \in [Stream -> ActiveConnection] /\ conn[s] \in ActiveConnection
      /\ sent \in [Stream -> 0 .. MaxData] /\ sent[s] \in Nat
      /\ conn[s].lastSent = sent[s] /\ conn[s].state = "ACTIVE" /\ ~conn[s].closed
  BY SenderTypes DEF ConnectionSend_send, SenderInv
<1>2. SeqNext(conn[s].lastSent) = sent[s] + 1
  <2>1. conn[s].lastSent \in 0 .. Top
    BY SenderTypes, SmallUnwrapped DEF SenderInv
  <2> QED BY <1>1, <2>1, SmallNext
<1>3. /\ sent'[s] = sent[s] + 1 /\ conn'[s].lastSent = sent[s] + 1
      /\ conn'[s].state = "ACTIVE"
      /\ \A r \in Stream \ {s} : conn'[r] = conn[r] /\ sent'[r] = sent[r]
  BY <1>1, <1>2 DEF ConnectionSend_send, ActiveConnection
<1>4. conn'[s].lastSent <= HighMark(s)'
  BY <1>1, <1>3, StrSenderAssumption DEF HighMark
<1>5. \A p \in net' : p \in net \/ p.flag # "FIN"
  BY DEF ConnectionSend_send, Sending, Pkt
<1>6. ~Finishing(s)
  BY <1>1 DEF Finishing
<1> QED BY <1>1, <1>3, <1>4, <1>5, <1>6, SenderKeepsPromise

LEMMA PromiseRecover ==
  ASSUME IndInv, IndInv', PromiseInv, UNCHANGED masterVars, NEW s \in Stream, NEW m \in Seqno,
         Retransmit(s, m) \/ Forget(s, m)
  PROVE  PromiseInv'
<1>1. conn[s] \in ActiveConnection /\ conn[s].lastSent <= HighMark(s) /\ Open(s)
  BY SenderTypes DEF PromiseInv, RangeInv, Retransmit, Forget
<1>2. PICK R : conn' = [conn EXCEPT ![s].recover = R]
  BY DEF Retransmit, Forget
<1>3. PICK c : c = [conn[s] EXCEPT !.recover = R]
  OBVIOUS
<1>4. c.state = conn[s].state /\ c.lastSent = conn[s].lastSent /\ c.sending = conn[s].sending
  BY <1>1, <1>3 DEF ActiveConnection
<1>5. conn' = [conn EXCEPT ![s] = c] /\ UNCHANGED sent
  BY <1>2, <1>3 DEF Retransmit, Forget
<1>6. \A p \in net' : p \in net \/ p.flag # "FIN"
  BY DEF Retransmit, Forget, Sending, Pkt
<1> QED BY <1>1, <1>4, <1>5, <1>6, SenderQuietPromise DEF Finishing, Open

LEMMA PromiseReset ==
  ASSUME IndInv, IndInv', PromiseInv, UNCHANGED <<masterVars, sent>>, NEW s \in Stream,
         conn' = [conn EXCEPT ![s] = Reset], net' \subseteq net
  PROVE  PromiseInv'
<1>1. Reset.state = "IDLE" /\ Reset.lastSent = 0 /\ 0 <= HighMark(s)
  BY HighMarks DEF Reset, Idle
<1> QED BY <1>1, SenderQuietPromise

LEMMA PromiseTimers ==
  ASSUME IndInv, IndInv', PromiseInv, UNCHANGED masterVars, NEW s \in Stream,
         SynTimeout(s) \/ FinTimeout(s) \/ \E ok \in BOOLEAN : SendDone(s, ok)
  PROVE  PromiseInv'
<1>1. conn[s] \in ActiveConnection /\ conn[s].lastSent <= HighMark(s) /\ conn[s].lastSent \in Nat
  BY SenderTypes DEF PromiseInv, RangeInv
<1>2. UNCHANGED <<net, sent>>
  BY DEF SynTimeout, FinTimeout, SendDone
<1>3. CASE conn' = [conn EXCEPT ![s] = Reset]
  BY <1>2, <1>3, PromiseReset
<1>4. CASE /\ conn[s].state = "SYN_ACK_WAIT" /\ conn[s].lastSent < MaxNumRetx
           /\ conn' = [conn EXCEPT ![s].lastSent = @ + 1, ![s].state = "SYN_SEND"]
  <2>1. PICK c : c = [conn[s] EXCEPT !.lastSent = @ + 1, !.state = "SYN_SEND"]
    OBVIOUS
  <2>2. c.state = "SYN_SEND" /\ c.lastSent = conn[s].lastSent + 1
    BY <1>1, <2>1 DEF ActiveConnection
  <2>3. conn' = [conn EXCEPT ![s] = c]
    BY <1>4, <2>1
  <2>4. c.lastSent <= HighMark(s)
    BY <1>1, <1>4, <2>2, HighMarks
  <2> QED BY <1>2, <1>4, <2>2, <2>3, <2>4, SenderQuietPromise DEF Finishing
<1>5. CASE /\ conn[s].state = "FIN_ACK_WAIT"
           /\ conn' = [conn EXCEPT ![s].finCnt = @ + 1, ![s].state = "FIN_SEND"]
  <2>1. PICK c : c = [conn[s] EXCEPT !.finCnt = @ + 1, !.state = "FIN_SEND"]
    OBVIOUS
  <2>2. c.state = "FIN_SEND" /\ c.lastSent = conn[s].lastSent /\ c.sending = conn[s].sending
    BY <1>1, <2>1 DEF ActiveConnection
  <2>3. conn' = [conn EXCEPT ![s] = c]
    BY <1>5, <2>1
  <2> QED BY <1>1, <1>2, <1>5, <2>2, <2>3, SenderQuietPromise DEF Finishing
<1>6. ASSUME NEW ok \in BOOLEAN, SendDone(s, ok)
      PROVE  PromiseInv'
  <2>1. PICK st : st = IF ok THEN conn[s].state
                       ELSE IF conn[s].sending = "SYN" THEN "SYN_SEND" ELSE "FIN_SEND"
    OBVIOUS
  <2>2. PICK c : c = [conn[s] EXCEPT !.sending = "no", !.state = st]
    OBVIOUS
  <2>3. c.state = st /\ c.lastSent = conn[s].lastSent /\ c.sending = "no"
    BY <1>1, <2>2 DEF ActiveConnection
  <2>4. conn' = [conn EXCEPT ![s] = c]
    BY <1>6, <2>1, <2>2 DEF SendDone
  <2>5. conn[s].state \notin {"UNOPENED", "IDLE"}
    BY <1>6, SenderTypes DEF SenderInv, SendDone
  <2> QED BY <1>1, <1>2, <2>1, <2>3, <2>4, <2>5, SenderQuietPromise DEF Finishing
<1> QED BY <1>3, <1>4, <1>5, <1>6 DEF SynTimeout, FinTimeout

LEMMA PromiseReceives ==
  ASSUME IndInv, IndInv', PromiseInv, UNCHANGED masterVars, NEW p \in net, SenderReceive(p)
  PROVE  PromiseInv'
<1>1. PICK s \in Stream : s = p.s
  BY Arrival
<1>2. /\ conn[s] \in ActiveConnection /\ conn[s].lastSent <= HighMark(s)
      /\ net' \subseteq net /\ UNCHANGED sent
  BY SenderTypes DEF PromiseInv, RangeInv, SenderReceive, AfterReceipt
<1>3. CASE conn' = conn
  <2>1. PICK c : c = conn[s]
    OBVIOUS
  <2>2. conn' = [conn EXCEPT ![s] = c]
    BY <1>3, <2>1, SenderTypes
  <2>3. CASE c.state # "UNOPENED"
    BY <1>2, <2>1, <2>2, <2>3, SenderQuietPromise DEF Finishing
  <2>4. CASE c.state = "UNOPENED"
    <3>1. conn'[s].state = "UNOPENED" /\ ~conn'[s].closed /\ conn'[s].lastSent <= HighMark(s)'
      BY <1>2, <1>3, <2>1, <2>4 DEF PromiseInv, FinInv, HighMark
    <3> QED BY <1>2, <1>3, <2>1, <2>4, <3>1, SenderKeepsPromise DEF Finishing
  <2> QED BY <2>3, <2>4
<1>4. CASE conn' = [conn EXCEPT ![s] = Reset]
  BY <1>2, <1>4, PromiseReset
<1>5. CASE /\ conn[s].state = "SYN_ACK_WAIT"
           /\ conn' = [conn EXCEPT ![s].state = "ACTIVE", ![s].lastSent = 0]
  <2>1. PICK c : c = [conn[s] EXCEPT !.state = "ACTIVE", !.lastSent = 0]
    OBVIOUS
  <2>2. c.state = "ACTIVE" /\ c.lastSent = 0 /\ 0 <= HighMark(s)
    BY <1>2, <2>1, HighMarks DEF ActiveConnection
  <2>3. conn' = [conn EXCEPT ![s] = c]
    BY <1>5, <2>1
  <2> QED BY <1>2, <1>5, <2>2, <2>3, SenderQuietPromise DEF Finishing
<1>6. ASSUME Open(s), NEW R, conn' = [conn EXCEPT ![s].recover = R]
      PROVE  PromiseInv'
  <2>1. PICK c : c = [conn[s] EXCEPT !.recover = R]
    OBVIOUS
  <2>2. c.state = conn[s].state /\ c.lastSent = conn[s].lastSent /\ c.sending = conn[s].sending
    BY <1>2, <2>1 DEF ActiveConnection
  <2>3. conn' = [conn EXCEPT ![s] = c]
    BY <1>6, <2>1
  <2> QED BY <1>2, <1>6, <2>2, <2>3, SenderQuietPromise DEF Finishing, Open
<1>7. CASE Receive_SYN_ACK(p)
  BY <1>1, <1>3, <1>5, <1>7 DEF Receive_SYN_ACK
<1>8. CASE Receive_FIN_ACK(p)
  BY <1>1, <1>3, <1>4, <1>8 DEF Receive_FIN_ACK
<1>9. CASE Receive_NACK(p)
  BY <1>1, <1>3, <1>6, <1>9 DEF Receive_NACK
<1> QED BY <1>7, <1>8, <1>9 DEF SenderReceive

LEMMA PromiseSender ==
  ASSUME IndInv, PromiseInv, SenderNext, UNCHANGED masterVars
  PROVE  PromiseInv'
<1>1. IndInv'
  BY SenderInvariant
<1> QED BY <1>1, PromiseCommands, PromiseSend, PromiseRecover, PromiseTimers, PromiseReceives
        DEF SenderNext

(* A connection of the master changes as its effect says.                  *)
LEMMA ServedRange ==
  ASSUME IndInv, PromiseInv, NEW s \in Stream, NEW k \in Connection, NEW R, NEW L,
         Serves(s, k, R, L)
  PROVE  /\ k.lastRecv <= HighMark(s) + 1
         /\ \A x \in L : x + TrValidRange <= sent[s] + 1
         /\ k.lastRecv > sent[s] =>
              /\ FinSent(s, k.lastRecv)
              /\ \A p \in net : p.flag = "FIN" /\ p.s = s => p.seqno = k.lastRecv
<1>1. /\ k.lastRecv \in Nat /\ cs[s].lastRecv \in Nat /\ cs[s].state # "NONE"
      /\ HighMark(s) \in Nat /\ sent[s] \in Nat /\ HighMark(s) >= sent[s]
  BY MasterTypes, ConnTypes, HighMarks DEF Serves
<1>2. k.lastRecv <= HighMark(s) + 1
  <2>1. CASE k.lastRecv = cs[s].lastRecv
    BY <1>1, <2>1 DEF PromiseInv, RangeInv
  <2>2. CASE k.lastRecv <= sent[s]
    BY <1>1, <2>2
  <2>3. CASE \E p \in net : p.flag = "FIN" /\ p.s = s /\ k.lastRecv = p.seqno
    BY <2>3 DEF PromiseInv, RangeInv
  <2> QED BY <2>1, <2>2, <2>3 DEF Serves
<1>3. ASSUME NEW x \in L
      PROVE  x + TrValidRange <= sent[s] + 1
  <2>1. x \in Nat /\ x >= 1 /\ TrValidRange \in Nat /\ MaxNumRetx < TrValidRange
    BY <1>3, TrSeqnoAssumption, RetxAssumption DEF Serves, Seqno, TrFirstSeqno
  <2>2. CASE x + TrValidRange <= sent[s]
    BY <1>1, <2>1, <2>2
  <2>3. CASE x + TrValidRange <= k.lastRecv
    BY <1>1, <1>2, <2>1, <2>3, HighMarks
  <2> QED BY <1>3, <2>2, <2>3 DEF Serves
<1>4. ASSUME k.lastRecv > sent[s]
      PROVE  /\ FinSent(s, k.lastRecv)
             /\ \A p \in net : p.flag = "FIN" /\ p.s = s => p.seqno = k.lastRecv
  <2>1. CASE k.lastRecv = cs[s].lastRecv
    BY <1>1, <1>4, <2>1 DEF PromiseInv, FinInv, FinNoted
  <2>2. CASE \E p \in net : p.flag = "FIN" /\ p.s = s /\ k.lastRecv = p.seqno
    BY <2>2 DEF PromiseInv, FinInv
  <2> QED BY <1>1, <1>4, <2>1, <2>2 DEF Serves
<1> QED BY <1>2, <1>3, <1>4

(* What PromiseInv says of stream r and its connection.                    *)
Promised(r) ==
  /\ cs[r].state # "NONE" => cs[r].lastRecv <= HighMark(r) + 1
  /\ \A x \in givenUp[r] : x + TrValidRange <= sent[r] + 1
  /\ \A p \in net : p.flag = "FIN" /\ p.s = r => FinNoted(r, p.seqno)
  /\ cs[r].state # "NONE" /\ cs[r].lastRecv > sent[r] => FinSent(r, cs[r].lastRecv)

LEMMA PromisedNow ==
  ASSUME PromiseInv, NEW r \in Stream
  PROVE  Promised(r)
BY DEF PromiseInv, RangeInv, FinInv, GivesUpOnlyBeyondRange, Promised

LEMMA PromisedThen ==
  ASSUME IndInv, PromiseInv, MasterNext, UNCHANGED senderVars, NEW r \in Stream
  PROVE  Promised(r)'
<1>1. conn' = conn /\ sent' = sent /\ HighMark(r)' = HighMark(r)
  BY DEF senderVars, HighMark
<1>2. \A p \in net' : p.flag = "FIN" => p \in net
  BY MasterSends DEF MoteFlag
<1>3. Promised(r) /\ Effect /\ sent[r] \in Nat /\ HighMark(r) \in Nat
  BY PromisedNow, MasterEffect, HighMarks DEF PromiseInv
<1>4. ASSUME cs'[r].state = cs[r].state, cs'[r].lastRecv = cs[r].lastRecv,
             givenUp'[r] = givenUp[r]
      PROVE  Promised(r)'
  BY <1>1, <1>2, <1>3, <1>4 DEF Promised, FinNoted, FinSent, Open, Finishing
<1>5. ASSUME cs'[r].state = "NONE" \/ cs'[r].lastRecv = 0, givenUp'[r] = givenUp[r]
      PROVE  Promised(r)'
  BY <1>1, <1>3, <1>5 DEF Promised, FinNoted, FinSent
<1>6. CASE Keeps
  BY <1>4, <1>5, <1>6 DEF Keeps
<1>7. ASSUME NEW s \in Stream, Connects(s)
      PROVE  Promised(r)'
  BY <1>4, <1>5, <1>7, MasterTypes DEF Connects
<1>8. ASSUME NEW s \in Stream, NEW k \in Connection, NEW R \in SUBSET Seqno,
             NEW L \in SUBSET Seqno, Serves(s, k, R, L)
      PROVE  Promised(r)'
  <2>1. CASE r # s
    BY <1>4, <1>8, <2>1, MasterTypes DEF Serves
  <2>2. CASE r = s
    <3>1. /\ k.lastRecv <= HighMark(s) + 1
          /\ \A x \in L : x + TrValidRange <= sent[s] + 1
          /\ k.lastRecv > sent[s] =>
               /\ FinSent(s, k.lastRecv)
               /\ \A p \in net : p.flag = "FIN" /\ p.s = s => p.seqno = k.lastRecv
      BY <1>8, ServedRange
    <3>2. cs'[s] = k /\ givenUp'[s] = givenUp[s] \cup L
      BY <1>8, MasterTypes DEF Serves
    <3>3. \A p \in net' : p.flag = "FIN" /\ p.s = s => FinNoted(s, p.seqno)'
      BY <1>1, <1>2, <3>1, <3>2 DEF FinNoted
    <3>4. cs'[s].lastRecv > sent'[s] => FinSent(s, cs[s].lastRecv)'
      BY <1>1, <3>1, <3>2 DEF FinSent, Open, Finishing
    <3>5. cs'[s].lastRecv <= HighMark(s)' + 1
      BY <1>1, <2>2, <3>1, <3>2
    <3>6. \A x \in givenUp'[s] : x + TrValidRange <= sent'[s] + 1
      BY <1>1, <1>3, <2>2, <3>1, <3>2 DEF Promised
    <3> QED BY <2>2, <3>3, <3>4, <3>5, <3>6 DEF Promised
  <2> QED BY <2>1, <2>2
<1> QED BY <1>3, <1>6, <1>7, <1>8 DEF Effect

LEMMA PromiseMaster ==
  ASSUME IndInv, PromiseInv, MasterNext, UNCHANGED senderVars
  PROVE  PromiseInv'
<1>1. conn' = conn /\ sent' = sent /\ \A r \in Stream : HighMark(r)' = HighMark(r)
  BY DEF senderVars, HighMark
<1>2. \A p \in net' : p.flag = "FIN" => p \in net /\ p.s \in Stream
  BY MasterSends, Arrival DEF MoteFlag
<1>3. \A r \in Stream : Promised(r)'
  BY PromisedThen
<1>4. RangeInv'
  <2>1. \A p \in net' : p.flag = "FIN" => p.seqno <= HighMark(p.s)' + 1
    BY <1>1, <1>2 DEF PromiseInv, RangeInv
  <2>2. \A r \in Stream : conn'[r].lastSent <= HighMark(r)'
    BY <1>1 DEF PromiseInv, RangeInv
  <2> QED BY <1>3, <2>1, <2>2 DEF RangeInv, GivesUpOnlyBeyondRange, Promised
<1>5. FinInv'
  <2>1. ASSUME NEW p \in net', p.flag = "FIN"
        PROVE  FinSent(p.s, p.seqno)' /\ FinNoted(p.s, p.seqno)'
    <3>1. FinSent(p.s, p.seqno)'
      BY <1>1, <1>2, <2>1 DEF PromiseInv, FinInv, FinSent, Open, Finishing
    <3> QED BY <1>2, <1>3, <2>1, <3>1 DEF Promised
  <2>2. \A p, q \in net' : p.flag = "FIN" /\ q.flag = "FIN" /\ p.s = q.s => p.seqno = q.seqno
    BY <1>2 DEF PromiseInv, FinInv
  <2>3. \A r \in Stream : conn'[r].state = "UNOPENED" => ~conn'[r].closed
    BY <1>1 DEF PromiseInv, FinInv
  <2> QED BY <1>3, <2>1, <2>2, <2>3 DEF FinInv, Promised
<1> QED BY <1>4, <1>5 DEF PromiseInv

(* Losing a packet, or doing nothing.                                      *)
LEMMA PromiseLose ==
  ASSUME PromiseInv, UNCHANGED <<masterVars, senderVars>>, net' \subseteq net
  PROVE  PromiseInv'
<1>1. RangeInv'
  BY DEF PromiseInv, RangeInv, GivesUpOnlyBeyondRange, HighMark, masterVars, senderVars
<1>2. FinInv'
  BY DEF PromiseInv, FinInv, FinSent, FinNoted, Finishing, Open, masterVars, senderVars
<1> QED BY <1>1, <1>2 DEF PromiseInv

LEMMA PromiseNext == IndInv /\ PromiseInv /\ [Next]_vars => PromiseInv'
<1> SUFFICES ASSUME IndInv, PromiseInv, [Next]_vars PROVE PromiseInv'
  OBVIOUS
<1>1. CASE MasterNext /\ UNCHANGED senderVars
  BY <1>1, PromiseMaster
<1>2. CASE SenderNext /\ UNCHANGED masterVars
  BY <1>2, PromiseSender
<1>3. CASE \E p \in net : Lose(p) /\ UNCHANGED <<masterVars, senderVars>>
  BY <1>3, PromiseLose DEF Lose
<1>4. CASE UNCHANGED vars
  BY <1>4, PromiseLose DEF vars, masterVars, senderVars
<1> QED BY <1>1, <1>2, <1>3, <1>4 DEF Next

(* The numbers in use and the numbers of the FINs stay as RangeInv and     *)
(* FinInv say: the invariants behind the next theorems.                    *)
THEOREM PromiseInvariant == Spec => []PromiseInv
<1>1. Init => IndInv /\ PromiseInv
  BY InitInv, PromiseInit
<1>2. IndInv /\ PromiseInv /\ [Next]_vars => (IndInv /\ PromiseInv)'
  BY NextInv, PromiseNext
<1> QED BY <1>1, <1>2, PTL DEF Spec

(* send_NACK and receive_str_msg give up a packet only when the mote has   *)
(* sent one that is TR_VALID_RANGE newer: a shorter gap is never given up. *)
THEOREM GivesUpLate == Spec => []GivesUpOnlyBeyondRange
<1>1. PromiseInv => GivesUpOnlyBeyondRange
  BY DEF PromiseInv, RangeInv
<1> QED BY <1>1, PromiseInvariant, PTL

-----------------------------------------------------------------------------
(* Closing a tid.                                                          *)

(* A step that changes one connection leaves no tid waiting: if the last   *)
(* one finishes, streamtransport_tid_delete_done is called.                *)
LEMMA CloseStep ==
  ASSUME EndsTypeOK, UNCHANGED others, NEW s \in Stream, NEW k, cs' = [cs EXCEPT ![s] = k],
         UNCHANGED tids \/ DeleteDone(cs', s), k.state \in Connected \cup {"NONE"},
         k.state = "FINISHED" => /\ k.deletePending = cs[s].deletePending
                                 /\ cs[s].state = "FINISHED" \/ DeleteDone(cs', s)
  PROVE  CloseReported
<1>1. /\ TidOf[s] \in Tid /\ tids \in [Tid -> {"task", "close", "acked", "removed"}]
      /\ cs'[s] = k /\ \A r \in Stream \ {s} : cs'[r] = cs[r]
  BY StrMasterAssumption DEF EndsTypeOK, MasterTypeOK
<1>2. SUFFICES ASSUME NEW t \in Tid, tids'[t] = "close", ~TidIsAlive(cs', t), ~LeftWaiting(t)
               PROVE  LeavesWaiting(t)
  BY DEF CloseReported, LeftWaiting
<1>3. tids[t] = "close"
  BY <1>1, <1>2 DEF DeleteDone, CheckCloseDone
<1>4. PICK r \in Stream : TidOf[r] = t /\ cs[r].state \in Connected \ {"FINISHED"}
  BY <1>2, <1>3 DEF LeftWaiting, TidIsAlive
<1>5. r = s /\ k.state \in {"NONE", "FINISHED"}
  BY <1>1, <1>2, <1>4 DEF TidIsAlive
<1>6. CASE k.state = "NONE" \/ ~cs[s].deletePending
  BY <1>1, <1>4, <1>5, <1>6 DEF LeavesWaiting
<1>7. CASE k.state = "FINISHED" /\ cs[s].deletePending
  <2>1. DeleteDone(cs', s) /\ cs'[s].deletePending
    BY <1>1, <1>4, <1>5, <1>7
  <2>2. CheckCloseDone(cs', t)
    BY <1>2, <1>4, <1>5, <2>1 DEF DeleteDone
  <2>3. others[t] # {}
    BY <1>1, <1>2, <1>3, <2>2 DEF CheckCloseDone, TransportIsAlive
  <2> QED BY <2>3 DEF LeavesWaiting
<1> QED BY <1>5, <1>6, <1>7

LEMMA CloseNothing ==
  ASSUME UNCHANGED <<cs, tids>>
  PROVE  CloseReported
BY DEF CloseReported, LeftWaiting

LEMMA CloseReceives ==
  ASSUME IndInv, UNCHANGED others, NEW p \in net, Receive(p)
  PROVE  CloseReported
<1>1. PICK s \in Stream : s = p.s /\ cs[s] \in Connection
  BY Arrival, MasterTypes
<1>2. EndsTypeOK
  BY DEF IndInv
<1>3. CASE Receive_SYN(p)
  <2>1. ASSUME cs' = [cs EXCEPT ![s] = STR_Timer_start(NewConnection)]
        PROVE  CloseReported
    <3>1. NewConnection.state = "PASSIVE"
      BY DEF NewConnection, NoConnection
    <3>2. STR_Timer_start(NewConnection).state = "PASSIVE"
      <4>1. sent[s] \in Nat
        BY SenderTypes
      <4>2. NewConnection \in Connection
        BY <4>1, NewConnectionSound
      <4> QED BY <3>1, <4>2, TimerStart
    <3> QED BY <1>2, <1>3, <2>1, <3>2, CloseStep DEF Connected, Receive_SYN
  <2>2. ASSUME cs' = [cs EXCEPT ![s] = STR_Timer_start(cs[s])]
        PROVE  CloseReported
    <3>1. PICK k : k = STR_Timer_start(cs[s])
      OBVIOUS
    <3>2. k \in Connection /\ k.state = cs[s].state /\ k.deletePending = cs[s].deletePending
      BY <1>1, <3>1 DEF STR_Timer_start, Connection
    <3>3. k.state \in Connected \cup {"NONE"}
      BY <3>2 DEF Connection
    <3> QED BY <1>2, <1>3, <2>2, <3>1, <3>2, <3>3, CloseStep DEF Receive_SYN
  <2> QED BY <1>1, <1>3, <2>1, <2>2 DEF Receive_SYN
<1>4. CASE UNCHANGED masterVars
  BY <1>4, CloseNothing DEF masterVars
<1>5. CASE Receive_FIN(p)
  <2>1. PICK c : c = NoteSeqno(cs[s], p.seqno)
    OBVIOUS
  <2>2. c \in Connection
    <3>1. p.seqno \in 1 .. Top /\ sent[s] \in 0 .. (Top - 1) /\ Done(s) /\ cs[s].state # "NONE"
      BY <1>1, <1>5, Arrival, MasterTypes DEF Receive_FIN
    <3>2. Sound(s, cs[s], DeliveredSet(s), givenUp[s], {})
      BY <3>1, IsSound
    <3> QED BY <1>1, <2>1, <3>1, <3>2, NoteSound
  <2>3. CASE Finish(s, c, p)
    <3>1. PICK e : e = [c EXCEPT !.state = "FINISHED"]
      OBVIOUS
    <3>2. c.deletePending = cs[s].deletePending
      BY <1>1, <2>1 DEF NoteSeqno, Connection
    <3>3. e \in Connection /\ e.state = "FINISHED" /\ e.deletePending = cs[s].deletePending
      BY <2>2, <3>1, <3>2 DEF Connection, Connected
    <3>4. PICK k : k = STR_Timer_start(e)
      OBVIOUS
    <3>5. k.state = "FINISHED" /\ k.deletePending = cs[s].deletePending
      BY <3>3, <3>4 DEF STR_Timer_start, Connection
    <3> QED BY <1>2, <2>3, <3>1, <3>4, <3>5, CloseStep DEF Finish, Connected
  <2>4. CASE /\ cs' = [cs EXCEPT ![s] = [AfterNack(c) EXCEPT !.timeoutCount = 0,
                                                             !.state = "FIN_NACK_WAIT"]]
             /\ UNCHANGED tids
    <3>1. AfterNack(c) \in Connection
      BY <2>2, NackRecord
    <3>2. [AfterNack(c) EXCEPT !.timeoutCount = 0, !.state = "FIN_NACK_WAIT"].state
            = "FIN_NACK_WAIT"
      BY <3>1 DEF Connection
    <3> QED BY <1>2, <2>4, <3>2, CloseStep DEF Connected
  <2> QED BY <1>1, <1>5, <2>1, <2>3, <2>4 DEF Receive_FIN
<1>6. CASE Receive_DATA(p)
  <2>1. PICK c : c = Noted(p)
    OBVIOUS
  <2>2. PICK n \in Seqno :
          /\ DispatchEndsAt(c, p.seqno, n)
          /\ \/ AnswerGap(p, Dispatched(c, p.seqno, n), Skipped(c, p.seqno, n))
             \/ AnswerNoGap(p, Dispatched(c, p.seqno, n), Skipped(c, p.seqno, n))
    BY <1>6, <2>1 DEF Receive_DATA
  <2>3. PICK d, K : d = Dispatched(c, p.seqno, n) /\ K = Skipped(c, p.seqno, n)
    OBVIOUS
  <2>4. /\ c \in Connection /\ c.state = cs[s].state /\ c.deletePending = cs[s].deletePending
        /\ p.seqno \in 1 .. sent[s] /\ p.seqno \in Seqno /\ cs[s].state # "NONE"
    <3>1. p.seqno \in 1 .. sent[s] /\ cs[s].state # "NONE" /\ sent[s] \in 0 .. (Top - 1)
      BY <1>1, <1>6, Arrival, MasterTypes DEF Receive_DATA
    <3>2. p.seqno \in Seqno
      BY <3>1, SmallUnwrapped
    <3> QED BY <1>1, <1>6, <2>1, <3>1, <3>2, DataNoted, NotedRecord DEF Receive_DATA
  <2>5. /\ d \in Connection /\ d.state = c.state /\ d.deletePending = c.deletePending
        /\ K \in SUBSET Seqno
    <3>1. Queue(c, p.seqno) \subseteq Seqno
      BY <2>4, ConnTypes DEF Queue
    <3>2. 0 \in 0 .. MaxTimeoutCount
      BY StrMasterAssumption
    <3> QED BY <2>3, <2>4, <3>1, <3>2 DEF Dispatched, Skipped, Connection
  <2>6. PICK k \in Connection, O \in {{}, TooOld(d)} :
          /\ cs' = [cs EXCEPT ![s] = k] /\ k.deletePending = d.deletePending
          /\ \/ DeleteDone(cs', s)
             \/ UNCHANGED tids /\ (k.state = "FINISHED" => d.state = "FINISHED")
    <3>1. d.state # "NONE"
      BY <2>4, <2>5
    <3>2. AnswerGap(p, d, K) \/ AnswerNoGap(p, d, K)
      BY <2>2, <2>3
    <3> QED BY ONLY IndInv, s \in Stream, p \in net, <1>1, <2>5, <3>1, <3>2, AnswerRecord
  <2>7. k.state \in Connected \cup {"NONE"}
    BY <2>6 DEF Connection
  <2> QED BY <1>2, <2>4, <2>5, <2>6, <2>7, CloseStep
<1> QED BY <1>3, <1>4, <1>5, <1>6 DEF Receive, Receive_FIN_unknown, Receive_DATA_unknown

LEMMA CloseTimers ==
  ASSUME IndInv, UNCHANGED others, NEW s \in Stream, Expire(s) \/ STR_Timer_fired(s)
  PROVE  CloseReported
<1>1. EndsTypeOK /\ cs[s] \in Connection
  BY MasterTypes DEF IndInv
<1>2. ASSUME NEW k, cs' = [cs EXCEPT ![s] = k], UNCHANGED tids,
             k.state \in Connected \cup {"NONE"},
             k.state # "FINISHED" \/ (k.state = cs[s].state
                                      /\ k.deletePending = cs[s].deletePending)
      PROVE  CloseReported
  BY <1>1, <1>2, CloseStep
<1>3. CASE Expire(s)
  <2>1. PICK k : k = [cs[s] EXCEPT !.alarm = "due"]
    OBVIOUS
  <2>2. k.state = cs[s].state /\ k.deletePending = cs[s].deletePending
    BY <1>1, <2>1 DEF Connection
  <2>3. k.state \in Connected \cup {"NONE"}
    BY <1>1, <2>2 DEF Connection
  <2> QED BY <1>2, <1>3, <2>1, <2>2, <2>3 DEF Expire
<1>4. CASE Delete(s)
  <2>1. NoConnection.state = "NONE"
    BY DEF NoConnection
  <2> QED BY <1>2, <1>4, <2>1 DEF Delete
<1>5. CASE Fired_NACK_WAIT(s) /\ ~Delete(s)
  <2>1. PICK c : c = [cs[s] EXCEPT !.timeoutCount = @ + 1]
    OBVIOUS
  <2>2. c.timeoutCount < MaxTimeoutCount /\ c.state \in {"NACK_WAIT", "FIN_NACK_WAIT"}
    BY <1>5, <2>1 DEF Fired_NACK_WAIT
  <2>3. c \in Connection
    <3>1. cs[s].timeoutCount \in Nat /\ MaxTimeoutCount \in Nat
      BY <1>1, StrMasterAssumption DEF Connection
    <3>2. c.timeoutCount = cs[s].timeoutCount + 1
      BY <1>1, <2>1, <3>1 DEF Connection
    <3>3. cs[s].timeoutCount + 1 \in 0 .. MaxTimeoutCount
      BY <2>2, <3>1, <3>2
    <3> QED BY <1>1, <2>1, <3>3 DEF Connection
  <2>4. CASE cs' = [cs EXCEPT ![s] = AfterNack(c)] /\ UNCHANGED tids
    <3>1. AfterNack(c).state = c.state
      BY <2>3, NackRecord
    <3> QED BY <1>2, <2>2, <2>4, <3>1 DEF Connected
  <2>5. CASE /\ cs' = [cs EXCEPT ![s] = STR_Timer_start([c EXCEPT !.state = "PASSIVE"])]
             /\ UNCHANGED tids
    <3>1. PICK e : e = [c EXCEPT !.state = "PASSIVE"]
      OBVIOUS
    <3>2. e \in Connection /\ e.state = "PASSIVE"
      BY <2>3, <3>1 DEF Connection, Connected
    <3>3. STR_Timer_start(e).state = "PASSIVE"
      BY <3>2, TimerStart
    <3> QED BY <1>2, <2>5, <3>1, <3>3 DEF Connected
  <2>6. CASE /\ cs' = [cs EXCEPT ![s] = STR_Timer_start([c EXCEPT !.state = "FINISHED"])]
             /\ DeleteDone(cs', s)
    <3>1. PICK e : e = [c EXCEPT !.state = "FINISHED"]
      OBVIOUS
    <3>2. /\ e \in Connection /\ e.state = "FINISHED"
          /\ e.deletePending = cs[s].deletePending
      BY <1>1, <2>1, <2>3, <3>1 DEF Connection, Connected
    <3>3. PICK k : k = STR_Timer_start(e)
      OBVIOUS
    <3>4. k.state = "FINISHED" /\ k.deletePending = cs[s].deletePending
      BY <3>2, <3>3 DEF STR_Timer_start, Connection
    <3> QED BY <1>1, <2>6, <3>1, <3>3, <3>4, CloseStep DEF Connected
  <2> QED BY <1>5, <2>1, <2>4, <2>5, <2>6 DEF Fired_NACK_WAIT
<1>6. CASE UNCHANGED masterVars
  BY <1>6, CloseNothing DEF masterVars
<1> QED BY <1>3, <1>4, <1>5, <1>6
        DEF STR_Timer_fired, Fired_FINISHED, Fired_PASSIVE

LEMMA CloseRequests ==
  ASSUME IndInv, NEW u \in Tid, ClientClose(u) \/ ClientGone(u)
  PROVE  CloseReported
<1>1. /\ tids \in [Tid -> {"task", "close", "acked", "removed"}] /\ DeleteTid(u)
      /\ \/ tids' = [tids EXCEPT ![u] =
                       IF TransportIsAlive(cs', others'[u], u) THEN "close" ELSE "acked"]
         \/ tids' = [tids EXCEPT ![u] = "removed"]
  BY DEF ClientClose, ClientGone, IndInv, EndsTypeOK, MasterTypeOK
<1>2. SUFFICES ASSUME NEW t \in Tid, tids'[t] = "close", ~TidIsAlive(cs', t), ~LeftWaiting(t)
               PROVE  LeavesWaiting(t)
  BY DEF CloseReported, LeftWaiting
<1>3. CASE t = u
  <2>1. TransportIsAlive(cs', others'[t], t)
    BY <1>1, <1>2, <1>3
  <2> QED BY <1>2, <2>1 DEF TransportIsAlive, LeavesWaiting
<1>4. CASE t # u
  <2>1. tids[t] = "close"
    BY <1>1, <1>2, <1>4
  <2>2. \A r \in Stream : TidOf[r] = t => cs'[r] = cs[r]
    BY <1>1, <1>4 DEF DeleteTid
  <2> QED BY <1>2, <2>1, <2>2 DEF LeftWaiting, TidIsAlive
<1> QED BY <1>3, <1>4

(* check_close_done is called by the last stream of a tid to finish: a tid *)
(* is left to wait for its close in the three ways of CloseNotMissed only, *)
(* for any number of streams and of tids, whatever connections the other   *)
(* transports have.                                                        *)
THEOREM ReportsClose == Spec => CloseNotMissed
<1>1. IndInv /\ [Next]_vars => CloseReported
  <2> SUFFICES ASSUME IndInv, [Next]_vars PROVE CloseReported
    OBVIOUS
  <2>1. CASE MasterNext
    BY <2>1, CloseReceives, CloseTimers, CloseRequests, CloseNothing
       DEF MasterNext, StreamNext, Poll, OtherOpens, OtherEnds, streamVars
  <2>2. CASE UNCHANGED masterVars
    BY <2>2, CloseNothing DEF masterVars
  <2> QED BY <2>1, <2>2 DEF Next, vars, masterVars
<1> QED BY <1>1, Invariant, PTL DEF Spec, CloseNotMissed

-----------------------------------------------------------------------------
(* The refinement: what the abstract specification is told each effect is. *)

StatusOf(k) == CASE k.state = "NONE"     -> "none"
                 [] k.state = "FINISHED" -> "complete"
                 [] OTHER                -> "open"

LEMMA Statuses ==
  /\ DOMAIN Status = Stream /\ Status = [s \in Stream |-> StatusOf(cs[s])]
  /\ \A s \in Stream : Status[s] = StatusOf(cs[s]) /\ Status'[s] = StatusOf(cs'[s])
  /\ Status' = [s \in Stream |-> StatusOf(cs'[s])]
BY DEF Status, StatusOf

(* A served connection makes progress, and nothing but progress.           *)
LEMMA RefineServes ==
  ASSUME IndInv, IndInv', PromiseInv, UNCHANGED senderVars, NEW s \in Stream,
         NEW k \in Connection, NEW R \in SUBSET Seqno, NEW L \in SUBSET Seqno,
         Serves(s, k, R, L)
  PROVE  Abstract!Next
<1>1. /\ cs \in [Stream -> Connection] /\ delivered \in [Stream -> Seq(Seqno)]
      /\ givenUp \in [Stream -> SUBSET Seqno] /\ delivered[s] \in Seq(Seqno)
      /\ sent[s] \in 0 .. (Top - 1) /\ sent' = sent /\ cs[s] \in Connection
  BY MasterTypes DEF senderVars
<1>2. PICK out \in InOrder(R) : delivered' = [delivered EXCEPT ![s] = @ \o out]
  BY DEF Serves
<1>3. /\ cs' = [cs EXCEPT ![s] = k] /\ cs'[s] = k /\ givenUp'[s] = givenUp[s] \cup L
      /\ givenUp' = [givenUp EXCEPT ![s] = @ \cup L] /\ delivered'[s] = delivered[s] \o out
      /\ cs[s].state # "NONE" /\ k.state # "NONE"
      /\ cs[s].state = "FINISHED" => k.state = "FINISHED"
      /\ \A x \in R : x \in Seqno /\ x <= sent[s] /\ cs[s].nextExpected <= x
  BY <1>1, <1>2 DEF Serves
<1>4. PICK d \in Seq(Seqno), m \in Nat :
        /\ d = delivered[s] /\ m = cs[s].nextExpected
        /\ \A i \in DOMAIN d : d[i] < m
        /\ \A i, j \in DOMAIN d : i < j => d[i] < d[j]
        /\ \A x \in R : x \in Seqno /\ m <= x /\ x <= Top
  <2>1. \A i \in DOMAIN delivered[s] : delivered[s][i] < cs[s].nextExpected
    BY <1>3, IsSound DEF Sound, DeliveredSet
  <2>2. \A i, j \in DOMAIN delivered[s] : i < j => delivered[s][i] < delivered[s][j]
    BY DEF IndInv, InOrderNoDuplicate
  <2>3. \A x \in R : x <= Top
    <3> TAKE x \in R
    <3>1. x \in Nat /\ x <= sent[s]
      BY <1>3 DEF Seqno, TrFirstSeqno
    <3> QED BY <1>1, <3>1, SmallUnwrapped
  <2> QED BY <1>1, <1>3, <2>1, <2>2, <2>3, ConnTypes
<1>5. DeliveredSet(s)' = DeliveredSet(s) \cup R
  <2>1. Follows(d, R, d \o out)
    <3>1. MayFollow(d, m, R)
      BY ONLY <1>4 DEF MayFollow
    <3> QED BY ONLY d \in Seq(Seqno), m \in Nat, out \in InOrder(R), <3>1, Delivery, Zenon
  <2>2. PICK e : e = d \o out
    OBVIOUS
  <2>3. {e[i] : i \in DOMAIN e} = {d[i] : i \in DOMAIN d} \cup R
    BY ONLY <2>1, <2>2 DEF Follows
  <2>4. delivered'[s] = e /\ delivered[s] = d
    BY ONLY <1>3, <1>4, <2>2
  <2>5. DeliveredSet(s)' = {e[i] : i \in DOMAIN e}
    BY ONLY <2>4, Zenon DEF DeliveredSet
  <2>6. DeliveredSet(s) = {d[i] : i \in DOMAIN d}
    BY ONLY <2>4, Zenon DEF DeliveredSet
  <2> QED BY ONLY <2>3, <2>5, <2>6
<1>6. Abstract!Given(delivered[s]) = DeliveredSet(s)
  BY DEF Abstract!Given, DeliveredSet
<1>7. PICK st : st = IF k.state = "FINISHED" THEN "complete" ELSE "open"
  OBVIOUS
<1>8. /\ Status[s] # "none" /\ st \in {Status[s], "complete"} /\ st \in {"open", "complete"}
      /\ Status' = [Status EXCEPT ![s] = st]
  <2>1. StatusOf(k) = st /\ StatusOf(cs[s]) \in {"open", "complete"}
        /\ (StatusOf(cs[s]) = "complete" => st = "complete")
    BY <1>3, <1>7 DEF StatusOf
  <2>2. \A r \in Stream : cs'[r] = IF r = s THEN k ELSE cs[r]
    BY <1>1, <1>3
  <2> QED BY <1>7, <2>1, <2>2, Statuses
<1>9. \A x \in R : 1 .. (x - 1) \subseteq DeliveredSet(s) \cup R \cup givenUp'[s]
  <2> TAKE x \in R
  <2>1. ConnInv(s)'
    BY <1>3 DEF IndInv
  <2>2. x < k.nextExpected
    BY <1>3, <1>5, <2>1 DEF ConnInv
  <2>3. \A y \in 1 .. (k.nextExpected - 1) : y \in DeliveredSet(s)' \cup givenUp'[s]
    BY <1>3, <2>1 DEF ConnInv
  <2>4. \A y \in 1 .. (x - 1) : y \in 1 .. (k.nextExpected - 1)
    <3>1. x \in Nat /\ k.nextExpected \in Nat
      BY <1>3, <1>4, ConnTypes DEF Seqno, TrFirstSeqno
    <3> QED BY ONLY <3>1, <2>2
  <2> QED BY <1>5, <2>3, <2>4
<1>10. st = "complete" /\ givenUp'[s] = {} => DeliveredSet(s) \cup R = 1 .. sent[s]
  <2>1. FinishedIsComplete'
    BY Complete, PTL
  <2> QED BY <1>1, <1>3, <1>5, <1>7, <2>1 DEF FinishedIsComplete
<1>11. out \in Abstract!Ascending(R)
  <2>1. out \in [1 .. Cardinality(R) -> R]
    BY DEF InOrder
  <2>2. ASSUME NEW i \in DOMAIN out, NEW j \in DOMAIN out, i < j
        PROVE  out[i] < out[j]
    <3>1. out[i] \in R /\ out[j] \in R /\ SeqCmp(out[i], out[j]) < 0
      BY <2>1, <2>2 DEF InOrder
    <3>2. R \subseteq 0 .. (Top + TrValidRange)
      BY <1>4, SmallUnwrapped DEF Seqno, TrFirstSeqno
    <3> QED BY <3>1, <3>2, SmallCmp
  <2>3. \A i, j \in DOMAIN out : i < j => out[i] < out[j]
    BY <2>2
  <2> QED
    BY ONLY <2>1, <2>3, Zenon DEF Abstract!Ascending, Abstract!Cardinality, Cardinality
<1>12. Abstract!Progress(s, R, L, st)
  BY <1>1, <1>2, <1>3, <1>6, <1>8, <1>9, <1>10, <1>11 DEF Abstract!Progress
<1>13. R \in SUBSET ((Abstract!Newest(delivered[s]) + 1) .. sent[s])
  <2>1. Abstract!Newest(d) \in Nat /\ \A x \in R : Abstract!Newest(d) < x
    <3>1. CASE d = <<>>
      BY <1>3, <3>1 DEF Abstract!Newest, Seqno, TrFirstSeqno
    <3>2. CASE d # <<>>
      <4>1. Len(d) \in DOMAIN d
        BY <3>2, EmptySeq, LenProperties
      <4>2. d[Len(d)] \in Seqno /\ d[Len(d)] < m
        BY <1>4, <4>1, ElementOfSeq, LenProperties
      <4> QED BY <1>4, <3>2, <4>2 DEF Abstract!Newest, Seqno, TrFirstSeqno
    <3> QED BY <3>1, <3>2
  <2>2. \A x \in R : x \in Nat /\ x <= sent[s]
    BY <1>3 DEF Seqno, TrFirstSeqno
  <2> QED BY <1>1, <1>4, <2>1, <2>2
<1>14. L \in SUBSET (1 .. sent[s])
  <2>1. \A x \in L : x + TrValidRange <= sent[s] + 1
    BY ServedRange
  <2>2. \A x \in L : x \in Nat /\ x >= 1
    BY DEF Seqno, TrFirstSeqno
  <2> QED BY <1>1, <2>1, <2>2, TrSeqnoAssumption
<1> QED BY <1>8, <1>12, <1>13, <1>14 DEF Abstract!Next

LEMMA RefineMaster ==
  ASSUME IndInv, IndInv', PromiseInv, MasterNext, UNCHANGED senderVars
  PROVE  Abstract!Next
<1>1. Effect /\ sent' = sent
  BY MasterEffect DEF PromiseInv, senderVars
<1>2. CASE Keeps
  <2>1. PICK S \in SUBSET Stream : S = {r \in Stream : cs'[r].state = "NONE"}
    OBVIOUS
  <2>2. \A r \in Stream : StatusOf(cs'[r]) = IF r \in S THEN "none" ELSE StatusOf(cs[r])
    BY <1>2, <2>1 DEF Keeps, StatusOf
  <2>3. Status' = [r \in Stream |-> IF r \in S THEN "none" ELSE Status[r]]
    BY <2>2, Statuses
  <2>4. Abstract!Vanish(S)
    BY <1>1, <1>2, <2>3 DEF Keeps, Abstract!Vanish
  <2> QED BY <2>4 DEF Abstract!Next
<1>3. ASSUME NEW s \in Stream, Connects(s)
      PROVE  Abstract!Next
  <2>1. PICK k \in Connection : k.state = "PASSIVE" /\ cs' = [cs EXCEPT ![s] = k]
    BY <1>3 DEF Connects
  <2>2. \A r \in Stream : cs'[r] = IF r = s THEN k ELSE cs[r]
    BY <2>1, MasterTypes
  <2>3. StatusOf(k) = "open" /\ StatusOf(cs[s]) = "none"
    BY <1>3, <2>1 DEF StatusOf, Connects
  <2>4. Status' = [Status EXCEPT ![s] = "open"] /\ Status[s] = "none"
    BY <2>2, <2>3, Statuses
  <2>5. Abstract!Open(s)
    BY <1>1, <1>3, <2>4 DEF Connects, Abstract!Open
  <2> QED BY <2>5 DEF Abstract!Next
<1> QED BY <1>1, <1>2, <1>3, RefineServes DEF Effect

(* The mote's application sends only while the stream is not complete.     *)
LEMMA RefineSender ==
  ASSUME IndInv, SenderNext, UNCHANGED masterVars
  PROVE  Abstract!Next \/ UNCHANGED Abstract!specVars
<1>1. Status' = Status /\ delivered' = delivered /\ givenUp' = givenUp
  BY DEF masterVars, Status
<1>2. ASSUME NEW s \in Stream, ConnectionSend_send(s)
      PROVE  Abstract!Next
  <2>1. Status[s] # "complete"
    <3> SUFFICES ASSUME cs[s].state = "FINISHED" PROVE FALSE
      BY DEF Status
    <3>1. Done(s)
      BY IsSound DEF Sound
    <3> QED BY <1>2, <3>1 DEF ConnectionSend_send, Done
  <2>2. sent[s] < MaxData /\ sent' = [sent EXCEPT ![s] = @ + 1]
    BY <1>2 DEF ConnectionSend_send
  <2>3. Abstract!Send(s)
    BY <1>1, <2>1, <2>2 DEF Abstract!Send
  <2> QED BY <2>3 DEF Abstract!Next
<1>3. CASE UNCHANGED sent
  BY <1>1, <1>3 DEF Abstract!specVars
<1> QED BY <1>2, <1>3
        DEF SenderNext, ConnectionSend_open, send_SYN, ConnectionSend_close, send_FIN,
            Retransmit, Forget, SynTimeout, FinTimeout, SendDone, SenderReceive

(* The two ends implement StreamSpec: whatever the channel does, the       *)
(* client is given what the mote sent, each packet once and in order, what *)
(* is passed over was declared lost, and a stream is complete only then.   *)
THEOREM KeepsPromise == Spec => ImplementsStream
<1>1. Init => Abstract!Init
  <2> SUFFICES ASSUME Init PROVE Abstract!Init
    OBVIOUS
  <2>1. \A s \in Stream : cs[s].state = "NONE"
    BY DEF Init, MasterInit, NoConnection
  <2>2. Status = [s \in Stream |-> "none"]
    BY <2>1 DEF Status
  <2> QED BY <2>2 DEF Init, MasterInit, SenderInit, Abstract!Init
<1>2. IndInv /\ IndInv' /\ PromiseInv /\ [Next]_vars => [Abstract!Next]_(Abstract!specVars)
  <2> SUFFICES ASSUME IndInv, IndInv', PromiseInv, [Next]_vars
               PROVE  Abstract!Next \/ UNCHANGED Abstract!specVars
    OBVIOUS
  <2>1. CASE MasterNext /\ UNCHANGED senderVars
    BY <2>1, RefineMaster
  <2>2. CASE SenderNext /\ UNCHANGED masterVars
    BY <2>2, RefineSender
  <2>3. CASE UNCHANGED <<masterVars, senderVars>>
    BY <2>3 DEF masterVars, senderVars, Abstract!specVars, Status
  <2> QED BY <2>1, <2>2, <2>3 DEF Next, vars, masterVars, senderVars
<1> QED BY <1>1, <1>2, Invariant, PromiseInvariant, PTL
        DEF Spec, ImplementsStream, Abstract!Spec
=============================================================================
