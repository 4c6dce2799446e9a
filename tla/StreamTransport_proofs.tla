----------------------- MODULE StreamTransport_proofs -----------------------
(***************************************************************************)
(* Proof that the stream transport delivers in order, without duplicates   *)
(* and without a silent gap, and calls a stream finished only when it is   *)
(* complete: for any number of streams, packets, packets in flight,        *)
(* retries and any TrValidRange, as long as the numbers do not wrap.       *)
(***************************************************************************)
EXTENDS StreamTransport, TrSeqno_proofs, FiniteSetTheorems, SequenceTheorems

(* Every number a packet, a counter or a comparison of a stream uses.      *)
LEMMA SmallUnwrapped ==
  /\ Top \in Nat /\ Top >= 1 /\ MaxData < Top /\ MaxNumRetx < Top
  /\ TrValidRange \in Nat \ {0} /\ Top < TrMaxSeqno
  /\ \A x \in 0 .. (Top + TrValidRange) :
       x \in Unwrapped /\ x \in Seqno0 /\ (x # 0 => x \in Seqno)
BY NoWrapAssumption, StrSenderAssumption, TrSeqnoAssumption
   DEF Top, Unwrapped, Seqno, Seqno0, TrFirstSeqno

LEMMA SmallCmp ==
  ASSUME NEW a \in 0 .. (Top + TrValidRange), NEW b \in 0 .. (Top + TrValidRange)
  PROVE  /\ SeqCmp(a, b) < 0 <=> a < b
         /\ SeqCmp(a, b) = 0 <=> a = b
         /\ SeqCmp(a, b) > 0 <=> a > b
         /\ SeqCmp(a, b) \in -1 .. 1
BY SmallUnwrapped, CmpUnwrapped

LEMMA SmallNext ==
  ASSUME NEW a \in 0 .. Top
  PROVE  SeqNext(a) = a + 1
BY SmallUnwrapped, NoWrapAssumption, TrSeqnoAssumption DEF SeqNext

LEMMA SmallAdd ==
  ASSUME NEW a \in 1 .. Top
  PROVE  SeqAdd(a, TrValidRange) = a + TrValidRange
<1>1. a \in Seqno0 /\ TrValidRange \in 0 .. TrValidRange /\ a + TrValidRange <= TrMaxSeqno
  BY SmallUnwrapped, NoWrapAssumption, TrSeqnoAssumption DEF Seqno0
<1> QED
  BY <1>1, AddShort, TrSeqnoAssumption

-----------------------------------------------------------------------------
(* The dispatch loop of receive_str_msg.  k bounds what the mote has sent. *)

(* In-order delivery stops at the first number that is not at hand.        *)
LEMMA RunEnd ==
  ASSUME NEW k \in 0 .. (Top - 1), NEW have, have \subseteq 1 .. k,
         NEW r \in 1 .. (k + 1), NEW n \in Seqno, RunEndsAt(have, r, n)
  PROVE  n \in r .. (k + 1) /\ n \notin have /\ r .. (n - 1) \subseteq have
<1> USE SmallUnwrapped
<1>1. k + 1 \in Seqno /\ k + 1 \notin have /\ r \in Unwrapped /\ k + 1 \in Unwrapped
  OBVIOUS
<1>2. SeqCmp(k + 1, r) >= 0
  BY <1>1, CmpUnwrapped
<1>3. ~(SeqCmp(k + 1, n) < 0)
  BY <1>1, <1>2 DEF RunEndsAt
<1>4. n \in Unwrapped
  <2> SUFFICES ASSUME n \notin Unwrapped PROVE FALSE
    OBVIOUS
  <2>1. SeqCmp(n, r) >= 0 /\ r <= k + 1
    BY DEF RunEndsAt
  <2>2. SeqCmp(n, r) > 0
    BY <1>1, <2>1, CmpWrapped
  <2>3. SeqCmp(k + 1, n) < 0
    BY <1>1, <2>1, <2>2, CmpWrapped
  <2> QED BY <1>3, <2>3
<1>5. n <= k + 1
  BY <1>1, <1>3, <1>4, CmpUnwrapped DEF Unwrapped
<1>6. n \in r .. (k + 1)
  BY <1>1, <1>4, <1>5, CmpUnwrapped DEF RunEndsAt, Unwrapped
<1>7. ASSUME NEW x \in r .. (n - 1) PROVE x \in have
  <2>1. x \in Seqno /\ x \in Unwrapped
    BY <1>6
  <2>2. SeqCmp(x, r) >= 0 /\ SeqCmp(x, n) < 0
    BY <1>1, <1>4, <1>6, <2>1, CmpUnwrapped DEF Unwrapped
  <2> QED BY <2>1, <2>2 DEF RunEndsAt
<1> QED
  BY <1>6, <1>7 DEF RunEndsAt

(* receive_str_msg as a whole, on a connection whose queue holds packets   *)
(* the mote has sent and the next expected one is not among.               *)
LEMMA Dispatch ==
  ASSUME NEW k \in 0 .. (Top - 1), NEW c \in Connection, c.nextExpected <= k + 1,
         \A x \in c.plist : c.nextExpected < x /\ x <= k,
         NEW q \in 1 .. k, NEW n \in Seqno, DispatchEndsAt(c, q, n)
  PROVE  /\ n \in c.nextExpected .. (k + 1) /\ n \notin Queue(c, q)
         /\ Queue(c, q) = c.plist \cup (IF q < c.nextExpected THEN {} ELSE {q})
         /\ \A x : x \in Ready(c, q, n) <=>
                    x \in Queue(c, q) /\ c.nextExpected <= x /\ x < n
         /\ \A x \in c.nextExpected .. (n - 1) :
              x \in Queue(c, q) \/ x \in Skipped(c, q, n)
         /\ \A x \in Queue(c, q) : SeqCmp(x, n) > 0 <=> x > n
<1> USE SmallUnwrapped
<1> DEFINE ne == c.nextExpected
           have == Queue(c, q)
<1>1. ne \in 1 .. (k + 1) /\ c.plist \subseteq Seqno
  BY DEF Connection, Seqno, TrFirstSeqno
<1>2. c.plist \subseteq 1 .. k
  BY <1>1 DEF Seqno, TrFirstSeqno
<1>3. have = c.plist \cup (IF q < ne THEN {} ELSE {q})
  BY <1>1, SmallCmp DEF Queue
<1>4. have \subseteq 1 .. k
  BY <1>2, <1>3
<1>5. PICK r \in ResumesAt(c, q) : RunEndsAt(have, r, n)
  BY DEF DispatchEndsAt, have
<1>6. r \in ne .. (k + 1)
  <2>1. r = ne \/ \E f \in c.plist : r = SeqNext(f)
    BY <1>5 DEF ResumesAt, Overdue
  <2>2. ASSUME NEW f \in c.plist, r = SeqNext(f) PROVE r \in ne .. (k + 1)
    BY <1>1, <1>2, <2>2, SmallNext
  <2> QED BY <1>1, <2>1, <2>2
<1>7. n \in r .. (k + 1) /\ n \notin have
  <2>1. r \in 1 .. (k + 1)
    BY <1>1, <1>6
  <2> HIDE DEF have, ne
  <2> QED BY ONLY k \in 0 .. (Top - 1), n \in Seqno, <2>1, <1>4, <1>5, RunEnd
<1>8. n \in ne .. (k + 1)
  BY <1>1, <1>6, <1>7
<1>9. ASSUME NEW x \in 1 .. (k + 1)
      PROVE  /\ SeqCmp(x, ne) >= 0 <=> ne <= x
             /\ SeqCmp(x, n) < 0 <=> x < n
             /\ SeqCmp(x, n) > 0 <=> x > n
  <2>1. {x, ne, n} \subseteq 0 .. (Top + TrValidRange)
    BY <1>1, <1>8
  <2>2. SeqCmp(x, ne) \in -1 .. 1 /\ (SeqCmp(x, ne) < 0 <=> x < ne)
    BY <2>1, SmallCmp
  <2>3. /\ SeqCmp(x, n) < 0 <=> x < n
        /\ SeqCmp(x, n) > 0 <=> x > n
    BY <2>1, SmallCmp
  <2> HIDE DEF ne
  <2> QED BY <1>1, <2>2, <2>3
<1>10. ASSUME NEW x
       PROVE  x \in Ready(c, q, n) <=> x \in have /\ ne <= x /\ x < n
  <2>1. x \in have => x \in 1 .. (k + 1)
    BY <1>4
  <2> QED BY <2>1, <1>9 DEF Ready
<1>11. ASSUME NEW x \in ne .. (n - 1)
       PROVE  x \in have \/ x \in Skipped(c, q, n)
  <2>1. x \in 1 .. (k + 1) /\ x \in Seqno /\ ne <= x /\ x < n
    BY <1>1, <1>8
  <2> QED BY <2>1, <1>9 DEF Skipped
<1>12. ASSUME NEW x \in have
       PROVE  SeqCmp(x, n) > 0 <=> x > n
  BY <1>4, <1>9
<1> QED
  BY <1>3, <1>7, <1>8, <1>10, <1>11, <1>12
(* The numbers of D may be handed over after those of d: d is in order and  *)
(* below m, D is not.                                                      *)
MayFollow(d, m, D) ==
  /\ \A i \in DOMAIN d : d[i] < m
  /\ \A i, j \in DOMAIN d : i < j => d[i] < d[j]
  /\ \A x \in D : x \in Seqno /\ m <= x /\ x <= Top

(* e is in order, and it is d with the numbers of D.                        *)
Follows(d, D, e) ==
  /\ e \in Seq(Seqno)
  /\ \A i, j \in DOMAIN e : i < j => e[i] < e[j]
  /\ {e[i] : i \in DOMAIN e} = {d[i] : i \in DOMAIN d} \cup D

(* What the client has got, d, after the packets D in order.               *)
LEMMA Delivery ==
  ASSUME NEW d \in Seq(Seqno), NEW m \in Nat, NEW D, NEW out \in InOrder(D),
         MayFollow(d, m, D)
  PROVE  Follows(d, D, d \o out)
<1> USE SmallUnwrapped DEF MayFollow
<1> DEFINE e == d \o out
<1>1. IsFiniteSet(D) /\ Cardinality(D) \in Nat
  <2>1. D \subseteq 1 .. Top
    BY DEF Seqno, TrFirstSeqno
  <2>2. IsFiniteSet(1 .. Top)
    BY FS_Interval
  <2> QED BY <2>1, <2>2, FS_Subset, FS_CardinalityType
<1>2. /\ out \in Seq(Seqno) /\ DOMAIN out = 1 .. Len(out)
      /\ \A i \in DOMAIN out : out[i] \in D
      /\ \A x \in D : \E i \in DOMAIN out : out[i] = x
      /\ \A i, j \in DOMAIN out : i < j => SeqCmp(out[i], out[j]) < 0
  BY <1>1, IsASeq, SMTT(30) DEF InOrder
<1>3. \A i, j \in DOMAIN out : i < j => out[i] < out[j]
  <2> TAKE i, j \in DOMAIN out
  <2>1. out[i] \in 0 .. (Top + TrValidRange) /\ out[j] \in 0 .. (Top + TrValidRange)
    BY <1>2 DEF Seqno, TrFirstSeqno
  <2> QED BY <1>2, <2>1, SmallCmp
<1>4. e \in Seq(Seqno) /\ Len(e) = Len(d) + Len(out) /\ DOMAIN e = 1 .. Len(e)
      /\ DOMAIN d = 1 .. Len(d) /\ Len(d) \in Nat /\ Len(out) \in Nat
  BY <1>2, ConcatProperties, LenProperties
<1>5. \A i \in DOMAIN e : e[i] = IF i <= Len(d) THEN d[i] ELSE out[i - Len(d)]
  BY <1>2, <1>4, ConcatProperties
<1> HIDE DEF e
<1>6. ASSUME NEW i \in DOMAIN e, NEW j \in DOMAIN e, i < j
      PROVE  e[i] < e[j]
  <2>1. CASE j <= Len(d)
    BY <2>1, <1>4, <1>5, <1>6
  <2>2. CASE i <= Len(d) /\ Len(d) < j
    <3>1. i \in DOMAIN d /\ j - Len(d) \in DOMAIN out
      BY <2>2, <1>2, <1>4
    <3>2. d[i] \in Seqno
      BY <3>1, <1>4, ElementOfSeq
    <3>3. d[i] < m /\ d[i] \in Nat
      BY <3>1, <3>2 DEF Seqno, TrFirstSeqno
    <3>4. out[j - Len(d)] \in D
      BY <3>1, <1>2
    <3>5. m <= out[j - Len(d)] /\ out[j - Len(d)] \in Nat
      BY <3>4 DEF Seqno, TrFirstSeqno
    <3>6. e[i] = d[i] /\ e[j] = out[j - Len(d)]
      BY <2>2, <1>4, <1>5
    <3> QED BY <3>3, <3>5, <3>6
  <2>3. CASE Len(d) < i
    <3>1. i - Len(d) \in DOMAIN out /\ j - Len(d) \in DOMAIN out /\ i - Len(d) < j - Len(d)
      BY <2>3, <1>2, <1>4, <1>6
    <3> QED BY <2>3, <1>3, <1>4, <1>5, <1>6, <3>1
  <2> QED BY <1>4, <1>6, <2>1, <2>2, <2>3
<1>7. ASSUME NEW x
      PROVE  (\E i \in DOMAIN e : e[i] = x) <=> (\E i \in DOMAIN d : d[i] = x) \/ x \in D
  <2>1. ASSUME NEW i \in DOMAIN e, e[i] = x
        PROVE  (\E h \in DOMAIN d : d[h] = x) \/ x \in D
    BY <2>1, <1>2, <1>4, <1>5
  <2>2. ASSUME NEW i \in DOMAIN d, d[i] = x
        PROVE  \E h \in DOMAIN e : e[h] = x
    BY <2>2, <1>4, <1>5
  <2>3. ASSUME x \in D
        PROVE  \E h \in DOMAIN e : e[h] = x
    <3>1. PICK i \in DOMAIN out : out[i] = x
      BY <1>2, <2>3
    <3>2. i + Len(d) \in DOMAIN e /\ ~(i + Len(d) <= Len(d)) /\ i + Len(d) - Len(d) = i
      BY <3>1, <1>2, <1>4
    <3>3. e[i + Len(d)] = x
      BY <3>1, <3>2, <1>5
    <3> QED BY <3>2, <3>3
  <2> QED BY <2>1, <2>2, <2>3
<1>8. {e[i] : i \in DOMAIN e} = {d[i] : i \in DOMAIN d} \cup D
  BY <1>7
<1>9. Follows(d, D, e)
  BY <1>4, <1>6, <1>8 DEF Follows
<1> QED BY <1>9 DEF e
-----------------------------------------------------------------------------
(* Packets.                                                                *)

LEMMA PktType ==
  ASSUME NEW s \in Stream, NEW flag \in MasterFlag \cup MoteFlag, NEW seqno \in Seqno0
  PROVE  Pkt(s, flag, seqno) \in Packet
BY DEF Pkt, Packet

LEMMA NackType ==
  ASSUME NEW s \in Stream, NEW seqno \in Seqno0, NEW list \in SUBSET Seqno
  PROVE  Nack(s, seqno, list) \in Packet
BY DEF Nack, Packet, MoteFlag

LEMMA ChannelOnlyLoses ==
  ASSUME NEW n, NEW q
  PROVE  Sending(n, q) \subseteq n \cup {q}
BY DEF Sending

LEMMA InitInv == Init => IndInv
<1> SUFFICES ASSUME Init PROVE IndInv
  OBVIOUS
<1> USE SmallUnwrapped
<1>1. NoConnection \in Connection
  BY StrMasterAssumption, TrSeqnoAssumption
     DEF NoConnection, Connection, Connected, Seqno, Seqno0, TrFirstSeqno
<1>2. Idle("UNOPENED") \in ActiveConnection
  BY StrSenderAssumption, TrSeqnoAssumption DEF Idle, ActiveConnection, Seqno0
<1>3. EndsTypeOK
  BY <1>1, <1>2, StrSenderAssumption
     DEF Init, MasterInit, SenderInit, EndsTypeOK, MasterTypeOK, SenderTypeOK
<1>4. InOrderNoDuplicate
  BY DEF Init, MasterInit, InOrderNoDuplicate, DeliveredSet
<1>5. \A s \in Stream : SenderInv(s)
  BY DEF Init, SenderInit, SenderInv, Idle, Open
<1>6. (\A p \in net : NetInv(p)) /\ (\A s \in Stream : cs[s].state = "NONE")
  BY DEF Init, MasterInit, NoConnection
<1> QED BY <1>3, <1>4, <1>5, <1>6 DEF IndInv

-----------------------------------------------------------------------------
(* Frames: what it takes for a step of one end on one stream to keep the   *)
(* invariant.                                                              *)

LEMMA MasterFrame ==
  ASSUME IndInv, EndsTypeOK', UNCHANGED senderVars, NEW s \in Stream,
         \A r \in Stream \ {s} :
           /\ cs'[r] = cs[r] /\ delivered'[r] = delivered[r]
           /\ givenUp'[r] = givenUp[r],
         \A p \in net' : p \in net \/ p.flag \in MoteFlag,
         \A i, j \in DOMAIN delivered'[s] : i < j => delivered'[s][i] < delivered'[s][j],
         \A x \in DeliveredSet(s)' : x <= sent[s],
         cs'[s].state # "NONE" => ConnInv(s)',
         \A p \in net' : p.flag = "SYN" /\ p.s = s /\ cs'[s].state = "NONE"
                         => delivered'[s] = <<>>
  PROVE  IndInv'
<1>1. \A r \in Stream \ {s} : DeliveredSet(r)' = DeliveredSet(r)
  BY DEF DeliveredSet
<1>2. InOrderNoDuplicate'
  BY <1>1 DEF IndInv, InOrderNoDuplicate, senderVars
<1>3. \A r \in Stream : SenderInv(r)'
  BY DEF IndInv, SenderInv, Open, senderVars
<1>4. \A p \in net' : NetInv(p)'
  <2> TAKE p \in net'
  <2>1. CASE p.flag \in MoteFlag
    BY <2>1 DEF NetInv, MoteFlag
  <2>2. CASE p \in net
    <3>1. NetInv(p) /\ p.s \in Stream
      BY <2>2 DEF IndInv, EndsTypeOK, Packet
    <3> QED BY <3>1 DEF NetInv, Done, senderVars
  <2> QED BY <2>1, <2>2
<1>5. ASSUME NEW r \in Stream, cs'[r].state # "NONE"
      PROVE  ConnInv(r)'
  <2>1. CASE r = s
    BY <1>5, <2>1
  <2>2. CASE r # s
    <3>1. cs'[r] = cs[r] /\ DeliveredSet(r)' = DeliveredSet(r) /\ givenUp'[r] = givenUp[r]
          /\ sent' = sent /\ conn' = conn
      BY <1>1, <2>2 DEF senderVars
    <3>2. ConnInv(r)
      BY <1>5, <3>1 DEF IndInv
    <3> QED BY <3>1, <3>2 DEF ConnInv, Accounted, Done
  <2> QED BY <2>1, <2>2
<1> QED BY <1>2, <1>3, <1>4, <1>5 DEF IndInv

LEMMA SenderFrame ==
  ASSUME IndInv, EndsTypeOK', UNCHANGED masterVars, NEW s \in Stream,
         \A r \in Stream \ {s} : conn'[r] = conn[r] /\ sent'[r] = sent[r],
         SenderInv(s)',
         sent'[s] = sent[s] \/ (sent'[s] = sent[s] + 1 /\ ~Done(s)),
         Done(s) => Done(s)',
         \A p \in net' : p \in net \/ (p.s = s /\ NetInv(p)')
  PROVE  IndInv'
<1>1. \A r \in Stream : /\ DeliveredSet(r)' = DeliveredSet(r)
                       /\ cs'[r] = cs[r] /\ givenUp'[r] = givenUp[r]
  BY DEF DeliveredSet, masterVars
<1>2. \A r \in Stream : sent[r] \in Nat /\ sent'[r] \in Nat /\ sent'[r] >= sent[r]
                       /\ (Done(r) => sent'[r] = sent[r] /\ Done(r)')
  BY StrSenderAssumption DEF IndInv, EndsTypeOK, SenderTypeOK, Done
<1>3. InOrderNoDuplicate'
  <2> SUFFICES ASSUME NEW r \in Stream, NEW x \in DeliveredSet(r)
               PROVE  x <= sent'[r]
    BY <1>1 DEF IndInv, InOrderNoDuplicate, masterVars
  <2>1. x <= sent[r]
    BY DEF IndInv, InOrderNoDuplicate
  <2>2. x \in Nat
    <3>1. delivered[r] \in Seq(Seqno)
      BY DEF IndInv, EndsTypeOK, MasterTypeOK
    <3>2. PICK i \in DOMAIN delivered[r] : x = delivered[r][i]
      BY DEF DeliveredSet
    <3>3. x \in Seqno
      BY <3>1, <3>2, ElementOfSeq, LenProperties
    <3> QED BY <3>3 DEF Seqno, TrFirstSeqno
  <2> QED BY <1>2, <2>1, <2>2
<1>4. \A r \in Stream : SenderInv(r)'
  BY DEF IndInv, SenderInv, Open
<1>5. \A p \in net' : NetInv(p)'
  <2> SUFFICES ASSUME NEW p \in net, p \in net' PROVE NetInv(p)'
    OBVIOUS
  <2>1. p.s \in Stream /\ p.seqno \in Nat /\ NetInv(p)
    BY TrSeqnoAssumption DEF IndInv, EndsTypeOK, Packet, Seqno0
  <2> QED BY <1>1, <1>2, <2>1, SmallUnwrapped DEF NetInv, masterVars
<1>6. ASSUME NEW r \in Stream, cs'[r].state # "NONE"
      PROVE  ConnInv(r)'
  <2>1. ConnInv(r) /\ cs[r] \in Connection /\ cs'[r] = cs[r]
    BY <1>1, <1>6 DEF IndInv, EndsTypeOK, MasterTypeOK
  <2>2. cs[r].lastRecv \in Nat /\ cs[r].nextExpected \in Nat /\ cs[r].plist \subseteq Nat
    BY <2>1 DEF Connection, Seqno, Seqno0, TrFirstSeqno
  <2>3. cs[r].lastRecv > sent[r] => sent'[r] = sent[r] /\ Done(r)'
    BY <1>2, <2>1 DEF ConnInv
  <2>4. Accounted(r)' = Accounted(r)
    BY <1>1 DEF Accounted
  <2>5. \A x \in 1 .. cs[r].lastRecv : x <= sent'[r] => x \in Accounted(r)
    BY <1>2, <2>1, <2>2, <2>3 DEF ConnInv
  <2> QED BY <1>1, <1>2, <2>1, <2>2, <2>3, <2>4, <2>5 DEF ConnInv
<1> QED BY <1>3, <1>4, <1>5, <1>6 DEF IndInv

-----------------------------------------------------------------------------
(* The mote's actions.                                                     *)

LEMMA SenderTypes ==
  ASSUME IndInv, NEW s \in Stream
  PROVE  /\ conn \in [Stream -> ActiveConnection] /\ conn[s] \in ActiveConnection
         /\ conn[s].lastSent \in Nat /\ SenderInv(s) /\ sent[s] \in Nat
         /\ sent \in [Stream -> 0 .. MaxData] /\ net \subseteq Packet
         /\ conn[s].closed \in BOOLEAN
BY StrSenderAssumption, TrSeqnoAssumption
   DEF IndInv, EndsTypeOK, SenderTypeOK, ActiveConnection, Seqno0

LEMMA SenderTypeOK1 ==
  ASSUME IndInv, UNCHANGED masterVars, conn' \in [Stream -> ActiveConnection],
         sent' \in [Stream -> 0 .. MaxData], net' \subseteq Packet
  PROVE  EndsTypeOK'
BY DEF IndInv, EndsTypeOK, SenderTypeOK, MasterTypeOK, masterVars

LEMMA NothingSent ==
  ASSUME IndInv, NEW s \in Stream, sent[s] = 0
  PROVE  delivered[s] = <<>>
<1>1. delivered[s] \in Seq(Seqno)
  BY DEF IndInv, EndsTypeOK, MasterTypeOK
<1>2. ASSUME NEW i \in DOMAIN delivered[s] PROVE FALSE
  <2>1. delivered[s][i] \in Seqno
    BY <1>1, <1>2, ElementOfSeq, LenProperties
  <2>2. delivered[s][i] <= 0
    BY <1>2 DEF IndInv, InOrderNoDuplicate, DeliveredSet
  <2> QED BY <2>1, <2>2 DEF Seqno, TrFirstSeqno
<1>3. DOMAIN delivered[s] = 1 .. Len(delivered[s]) /\ Len(delivered[s]) \in Nat
  BY <1>1, LenProperties
<1>4. Len(delivered[s]) = 0
  <2> SUFFICES ASSUME Len(delivered[s]) # 0 PROVE FALSE
    OBVIOUS
  <2>1. 1 \in DOMAIN delivered[s]
    BY <1>3
  <2> QED BY <1>2, <2>1
<1> QED BY <1>1, <1>4, EmptySeq

(* A step that sends at most one packet, q, of which NetInv holds.         *)
LEMMA SenderStepInv ==
  ASSUME IndInv, UNCHANGED masterVars, NEW s \in Stream, NEW q \in Packet,
         conn' \in [Stream -> ActiveConnection],
         sent' \in [Stream -> 0 .. MaxData],
         \A r \in Stream \ {s} : conn'[r] = conn[r] /\ sent'[r] = sent[r],
         SenderInv(s)',
         sent'[s] = sent[s] \/ (sent'[s] = sent[s] + 1 /\ ~Done(s)),
         Done(s) => Done(s)',
         net' \subseteq net \/ (net' \subseteq net \cup {q} /\ q.s = s /\ NetInv(q)')
  PROVE  IndInv'
<1>1. net' \subseteq Packet
  BY SenderTypes
<1>2. EndsTypeOK'
  BY <1>1, SenderTypeOK1
<1>3. \A p \in net' : p \in net \/ (p.s = s /\ NetInv(p)')
  OBVIOUS
<1> QED BY <1>2, <1>3, SenderFrame

LEMMA SenderOpen ==
  ASSUME IndInv, UNCHANGED masterVars, NEW s \in Stream, ConnectionSend_open(s)
  PROVE  IndInv'
<1> USE SenderTypes DEF ConnectionSend_open, Goto
<1>1. conn' \in [Stream -> ActiveConnection]
  BY DEF ActiveConnection
<1>2. EndsTypeOK'
  BY <1>1, SenderTypeOK1
<1>3. SenderInv(s)'
  BY DEF SenderInv, ActiveConnection, Open
<1> QED BY <1>2, <1>3, SenderFrame DEF Done, ActiveConnection

LEMMA SenderSYN ==
  ASSUME IndInv, UNCHANGED masterVars, NEW s \in Stream, send_SYN(s)
  PROVE  IndInv'
<1> USE SenderTypes DEF send_SYN
<1>1. conn' \in [Stream -> ActiveConnection]
  BY DEF ActiveConnection
<1>2. PICK q \in Packet : q = Pkt(s, "SYN", 0)
  <2>1. 0 \in Seqno0 /\ "SYN" \in MasterFlag \cup MoteFlag
    BY SmallUnwrapped DEF MasterFlag
  <2> QED BY <2>1, PktType
<1>3. net' \subseteq net \cup {q}
  BY <1>2, ChannelOnlyLoses
<1>4. SenderInv(s)'
  BY DEF SenderInv, ActiveConnection, Open
<1>5. q.s = s /\ NetInv(q)'
  <2>1. delivered[s] = <<>>
    BY NothingSent DEF SenderInv
  <2> QED BY <1>2, <2>1 DEF Pkt, NetInv, masterVars
<1> QED BY <1>1, <1>3, <1>4, <1>5, SenderStepInv DEF Done, ActiveConnection

LEMMA SenderData ==
  ASSUME IndInv, UNCHANGED masterVars, NEW s \in Stream, ConnectionSend_send(s)
  PROVE  IndInv'
<1> USE SenderTypes, SmallUnwrapped, StrSenderAssumption DEF ConnectionSend_send
<1>1. PICK next \in Nat : next = conn[s].lastSent + 1
  OBVIOUS
<1>2. conn[s].lastSent = sent[s] /\ SeqNext(conn[s].lastSent) = next
  BY <1>1, SmallNext DEF SenderInv
<1>3. next \in 1 .. MaxData /\ next \in Seqno0
  BY <1>1, <1>2
<1>4. conn' = [conn EXCEPT ![s].lastSent = next]
  BY <1>2
<1>5. conn' \in [Stream -> ActiveConnection] /\ sent' \in [Stream -> 0 .. MaxData]
  BY <1>1, <1>2, <1>3, <1>4 DEF ActiveConnection
<1>6. PICK q \in Packet : q = Pkt(s, "DATA", next)
  BY <1>3, PktType DEF MasterFlag
<1>7. net' \subseteq net \cup {q}
  BY <1>2, <1>6, ChannelOnlyLoses
<1>8. conn'[s].lastSent = next /\ sent'[s] = next /\ conn'[s].state = "ACTIVE"
  BY <1>1, <1>2, <1>4 DEF ActiveConnection
<1>9. conn'[s].sending = "no" /\ ~conn'[s].closed
  BY <1>4 DEF ActiveConnection
<1>10. SenderInv(s)'
  BY <1>3, <1>8, <1>9 DEF SenderInv, Open
<1>11. q.s = s /\ NetInv(q)'
  BY <1>3, <1>6, <1>8 DEF Pkt, NetInv
<1>12. sent'[s] = sent[s] + 1 /\ ~Done(s)
  BY <1>1, <1>2, <1>8 DEF Done
<1>13. \A r \in Stream \ {s} : conn'[r] = conn[r] /\ sent'[r] = sent[r]
  BY <1>4
<1> QED BY <1>5, <1>7, <1>10, <1>11, <1>12, <1>13, SenderStepInv

LEMMA SenderRetransmit ==
  ASSUME IndInv, UNCHANGED masterVars, NEW s \in Stream, NEW m \in Seqno,
         Retransmit(s, m)
  PROVE  IndInv'
<1> USE SenderTypes DEF Retransmit
<1>1. PICK q \in Packet : q = Pkt(s, "DATA_RETX", m)
  <2>1. m \in Seqno0 /\ "DATA_RETX" \in MasterFlag \cup MoteFlag
    BY DEF MasterFlag, Seqno, Seqno0, TrFirstSeqno
  <2> QED BY <2>1, PktType
<1>2. net' \subseteq net \/ (net' \subseteq net \cup {q} /\ m <= sent[s])
  BY <1>1, ChannelOnlyLoses
<1>3. m <= sent[s] => q.s = s /\ NetInv(q)'
  BY <1>1 DEF Pkt, NetInv, Seqno, TrFirstSeqno
<1>4. conn' \in [Stream -> ActiveConnection]
  BY DEF ActiveConnection
<1>5. SenderInv(s)'
  BY DEF SenderInv, ActiveConnection, Open
<1> QED BY <1>2, <1>3, <1>4, <1>5, SenderStepInv DEF Done, ActiveConnection

LEMMA SenderForget ==
  ASSUME IndInv, UNCHANGED masterVars, NEW s \in Stream, NEW m \in Seqno, Forget(s, m)
  PROVE  IndInv'
<1> USE SenderTypes DEF Forget
<1>1. conn' \in [Stream -> ActiveConnection]
  BY DEF ActiveConnection
<1>2. EndsTypeOK'
  BY <1>1, SenderTypeOK1
<1>3. SenderInv(s)'
  BY DEF SenderInv, ActiveConnection, Open
<1> QED BY <1>2, <1>3, SenderFrame DEF Done, ActiveConnection

LEMMA SenderClose ==
  ASSUME IndInv, UNCHANGED masterVars, NEW s \in Stream, ConnectionSend_close(s)
  PROVE  IndInv'
<1> USE SenderTypes DEF ConnectionSend_close
<1>1. conn' \in [Stream -> ActiveConnection]
  BY DEF ActiveConnection
<1>2. EndsTypeOK'
  BY <1>1, SenderTypeOK1
<1>3. SenderInv(s)'
  BY DEF SenderInv, ActiveConnection, Open
<1> QED BY <1>2, <1>3, SenderFrame DEF Done, ActiveConnection

LEMMA SenderFIN ==
  ASSUME IndInv, UNCHANGED masterVars, NEW s \in Stream, send_FIN(s)
  PROVE  IndInv'
<1> USE SenderTypes DEF send_FIN
<1>1. PICK n \in Nat : n = conn[s].lastSent + 1
  OBVIOUS
<1>2. conn[s].closed /\ n = SeqNext(conn[s].lastSent) /\ n \in (sent[s] + 1) .. Top
  <2>1. conn[s].lastSent \in 0 .. Top
    BY SmallUnwrapped DEF SenderInv
  <2> QED BY <1>1, <2>1, SmallNext, SmallUnwrapped DEF SenderInv, Open
<1>3. PICK q \in Packet : q = Pkt(s, "FIN", n)
  <2>1. n \in Seqno0
    BY <1>2, SmallUnwrapped
  <2> QED BY <2>1, PktType DEF MasterFlag
<1>4. net' \subseteq net \cup {q}
  BY <1>2, <1>3, ChannelOnlyLoses
<1>5. conn' \in [Stream -> ActiveConnection]
  BY DEF ActiveConnection
<1>6. SenderInv(s)' /\ conn'[s].closed
  BY <1>2 DEF SenderInv, ActiveConnection, Open
<1>7. q.s = s /\ NetInv(q)'
  BY <1>2, <1>3, <1>6 DEF Pkt, NetInv, Done
<1> QED BY <1>4, <1>5, <1>6, <1>7, SenderStepInv DEF Done, ActiveConnection

(* A step that sends nothing, and resetConnection.                         *)
LEMMA SenderQuietInv ==
  ASSUME IndInv, UNCHANGED <<masterVars, sent>>, NEW s \in Stream,
         conn' \in [Stream -> ActiveConnection],
         \A r \in Stream \ {s} : conn'[r] = conn[r],
         SenderInv(s)', Done(s) => Done(s)', net' \subseteq net
  PROVE  IndInv'
<1>1. EndsTypeOK'
  BY SenderTypes, SenderTypeOK1
<1> QED BY <1>1, SenderFrame

LEMMA SenderReset ==
  ASSUME IndInv, UNCHANGED <<masterVars, sent>>, NEW s \in Stream, net' \subseteq net,
         conn[s].state # "UNOPENED", conn' = [conn EXCEPT ![s] = Reset]
  PROVE  IndInv'
<1> USE SenderTypes, SmallUnwrapped
<1>1. Reset \in ActiveConnection
  BY StrSenderAssumption DEF Reset, Idle, ActiveConnection
<1>2. conn' \in [Stream -> ActiveConnection] /\ conn'[s] = Reset
  BY <1>1
<1>3. SenderInv(s)' /\ Done(s)'
  BY <1>2 DEF SenderInv, Reset, Idle, Open, Done
<1> QED BY <1>2, <1>3, SenderQuietInv

(* Timeouts and sendDone send nothing.                                     *)
LEMMA SenderSynTimeout ==
  ASSUME IndInv, UNCHANGED masterVars, NEW s \in Stream, SynTimeout(s)
  PROVE  IndInv'
<1> USE SenderTypes DEF SynTimeout
<1>1. CASE /\ conn[s].lastSent < MaxNumRetx
           /\ conn' = [conn EXCEPT ![s].lastSent = @ + 1, ![s].state = "SYN_SEND"]
  <2>1. conn[s].lastSent + 1 \in Seqno0
    BY <1>1, SmallUnwrapped, StrSenderAssumption DEF ActiveConnection, Seqno0
  <2>2. conn' \in [Stream -> ActiveConnection]
    BY <1>1, <2>1 DEF ActiveConnection
  <2>3. SenderInv(s)' /\ (Done(s) => Done(s)')
    BY <1>1, SmallUnwrapped, StrSenderAssumption DEF SenderInv, ActiveConnection, Open, Done
  <2> QED BY <1>1, <2>2, <2>3, SenderQuietInv
<1>2. CASE conn' = [conn EXCEPT ![s] = Reset]
  BY <1>2, SenderReset
<1> QED BY <1>1, <1>2

LEMMA SenderSendDone ==
  ASSUME IndInv, UNCHANGED masterVars, NEW s \in Stream, NEW success \in BOOLEAN,
         SendDone(s, success)
  PROVE  IndInv'
<1> USE SenderTypes DEF SendDone
<1>1. conn' \in [Stream -> ActiveConnection]
  BY DEF ActiveConnection
<1>2. EndsTypeOK'
  BY <1>1, SenderTypeOK1
<1>3. SenderInv(s)'
  BY DEF SenderInv, ActiveConnection, Open
<1> QED BY <1>2, <1>3, SenderFrame DEF Done, ActiveConnection

LEMMA SenderFinTimeout ==
  ASSUME IndInv, UNCHANGED masterVars, NEW s \in Stream, FinTimeout(s)
  PROVE  IndInv'
<1> USE SenderTypes DEF FinTimeout
<1>1. CASE /\ conn[s].finCnt + 1 < MaxNumRetx
           /\ conn' = [conn EXCEPT ![s].finCnt = @ + 1, ![s].state = "FIN_SEND"]
  <2>1. conn[s].finCnt + 1 \in 0 .. MaxNumRetx
    BY <1>1, SmallUnwrapped, StrSenderAssumption DEF ActiveConnection
  <2>2. conn' \in [Stream -> ActiveConnection]
    BY <1>1, <2>1 DEF ActiveConnection
  <2>3. SenderInv(s)' /\ (Done(s) => Done(s)')
    BY <1>1, SmallUnwrapped, StrSenderAssumption DEF SenderInv, ActiveConnection, Open, Done
  <2> QED BY <1>1, <2>2, <2>3, SenderQuietInv
<1>2. CASE conn' = [conn EXCEPT ![s] = Reset]
  BY <1>2, SenderReset
<1> QED BY <1>1, <1>2

LEMMA SenderReceives1 ==
  ASSUME IndInv, UNCHANGED masterVars, NEW p \in net, SenderReceive(p)
  PROVE  IndInv'
<1> USE SenderTypes DEF SenderReceive
<1>1. p.s \in Stream /\ net' \subseteq net /\ UNCHANGED sent
  BY DEF IndInv, EndsTypeOK, Packet, AfterReceipt
<1> DEFINE s == p.s
<1>2. CASE conn' = conn
  <2>1. SenderInv(s)' /\ (Done(s) => Done(s)')
    BY <1>1, <1>2 DEF SenderInv, Open, Done
  <2> QED BY <1>1, <1>2, <2>1, SenderQuietInv
<1>3. CASE Receive_SYN_ACK(p) /\ conn[s].state = "SYN_ACK_WAIT"
  <2>1. conn' = [conn EXCEPT ![s].state = "ACTIVE", ![s].lastSent = 0]
    BY <1>3 DEF Receive_SYN_ACK
  <2>2. conn' \in [Stream -> ActiveConnection] /\ \A r \in Stream \ {s} : conn'[r] = conn[r]
    BY <1>1, <2>1, SmallUnwrapped, SMTT(30) DEF ActiveConnection
  <2>3. SenderInv(s)' /\ (Done(s) => Done(s)')
    BY <1>1, <1>3, <2>1, SmallUnwrapped DEF SenderInv, ActiveConnection, Open, Done
  <2> QED BY <1>1, <2>2, <2>3, SenderQuietInv
<1>4. CASE Receive_FIN_ACK(p) /\ Open(s)
  <2>1. conn' = [conn EXCEPT ![s] = Reset] /\ conn[s].state # "UNOPENED"
    BY <1>4 DEF Receive_FIN_ACK, Open
  <2> QED BY <1>1, <2>1, SenderReset
<1>5. CASE Receive_NACK(p) /\ Open(s)
  <2>1. PICK n : conn' = [conn EXCEPT ![s].recover =
                             @ \cup Oldest(InRange(s, p.list) \ conn[s].recover, n)]
    BY <1>5 DEF Receive_NACK
  <2> DEFINE R == conn[s].recover \cup Oldest(InRange(s, p.list) \ conn[s].recover, n)
  <2>2. conn' = [conn EXCEPT ![s].recover = R]
    BY <2>1
  <2>3. R \in SUBSET Seqno
    <3>1. p.list \in SUBSET Seqno /\ conn[s].recover \in SUBSET Seqno
      BY <1>1 DEF IndInv, EndsTypeOK, Packet, ActiveConnection
    <3> QED BY <3>1 DEF Oldest, InRange
  <2>4. conn' \in [Stream -> ActiveConnection] /\ \A r \in Stream \ {s} : conn'[r] = conn[r]
    BY <1>1, <2>2, <2>3, ZenonT(30) DEF ActiveConnection
  <2>5. SenderInv(s)' /\ (Done(s) => Done(s)')
    BY <1>1, <2>2 DEF SenderInv, ActiveConnection, Open, Done
  <2> QED BY <1>1, <2>4, <2>5, SenderQuietInv
<1> QED
  BY <1>2, <1>3, <1>4, <1>5 DEF Receive_SYN_ACK, Receive_FIN_ACK, Receive_NACK

LEMMA SenderInvariant ==
  ASSUME IndInv, SenderNext, UNCHANGED masterVars
  PROVE  IndInv'
BY SenderOpen, SenderSYN, SenderData, SenderClose, SenderFIN, SenderRetransmit, SenderForget,
   SenderSynTimeout, SenderFinTimeout, SenderSendDone, SenderReceives1 DEF SenderNext

-----------------------------------------------------------------------------
(* The master's pieces.  Sound is ConnInv of a connection record c whose   *)
(* stream has delivered D and given up G, the numbers E not yet dealt with *)
(* and the last conjunct left out.                                         *)

Sound(s, c, D, G, E) ==
  /\ c.lastRecv <= Top /\ c.nextExpected <= c.lastRecv + 1
  /\ c.nextExpected <= sent[s] + 1
  /\ \A x \in D : x < c.nextExpected
  /\ \A x \in c.plist : c.nextExpected < x /\ x <= c.lastRecv /\ x <= sent[s]
  /\ \A x \in c.missing : x < c.lastRecv
  /\ \A x \in 1 .. (c.nextExpected - 1) : x \in D \cup G
  /\ \A x \in (1 .. c.lastRecv) \ E : x <= sent[s] => x \in D \cup c.plist \cup c.missing \cup G
  /\ c.lastRecv > sent[s] => Done(s)
  /\ c.state \in {"FIN_NACK_WAIT", "FINISHED"} => c.lastRecv > sent[s]

LEMMA ConnTypes ==
  ASSUME NEW c \in Connection
  PROVE  /\ c.lastRecv \in Nat /\ c.nextExpected \in Nat /\ c.nextExpected >= 1
         /\ c.plist \subseteq Nat \ {0} /\ c.missing \subseteq Nat \ {0}
         /\ c.plist \subseteq Seqno /\ c.missing \subseteq Seqno
BY TrSeqnoAssumption DEF Connection, Seqno, Seqno0, TrFirstSeqno

LEMMA MasterTypes ==
  ASSUME IndInv, NEW s \in Stream
  PROVE  /\ cs \in [Stream -> Connection] /\ cs[s] \in Connection
         /\ delivered \in [Stream -> Seq(Seqno)] /\ delivered[s] \in Seq(Seqno)
         /\ givenUp \in [Stream -> SUBSET Seqno] /\ givenUp[s] \in SUBSET Seqno
         /\ m_strcs \in Seq(Stream) /\ net \subseteq Packet
         /\ tids \in [Tid -> {"task", "close", "acked", "removed"}]
         /\ sent[s] \in 0 .. (Top - 1)
BY StrSenderAssumption, SmallUnwrapped DEF IndInv, EndsTypeOK, MasterTypeOK, SenderTypeOK

LEMMA IsSound ==
  ASSUME IndInv, NEW s \in Stream, cs[s].state # "NONE"
  PROVE  /\ Sound(s, cs[s], DeliveredSet(s), givenUp[s], {})
         /\ cs[s].state = "FINISHED" => cs[s].missing = {}
BY DEF IndInv, ConnInv, Sound, Accounted

(* detectMissingPacket.                                                    *)
LEMMA NoteSound ==
  ASSUME NEW s \in Stream, NEW c \in Connection, NEW D, NEW G, NEW q \in 1 .. Top,
         sent[s] \in 0 .. (Top - 1),
         Sound(s, c, D, G, {}), q > sent[s] => Done(s)
  PROVE  LET d == NoteSeqno(c, q) IN
         /\ d \in Connection /\ Sound(s, d, D, G, {q})
         /\ d.state = c.state /\ d.plist = c.plist /\ d.nextExpected = c.nextExpected
         /\ d.lastRecv >= q /\ d.lastRecv >= c.lastRecv
         /\ q <= c.lastRecv => d.missing = c.missing
<1> USE SmallUnwrapped, ConnTypes
<1> DEFINE d == NoteSeqno(c, q)
<1>1. c.lastRecv \in 0 .. Top /\ (SeqCmp(q, c.lastRecv) > 0 <=> q > c.lastRecv)
  <2>1. c.lastRecv \in 0 .. Top
    BY DEF Sound
  <2> QED BY <2>1, SmallCmp
<1>2. CASE q <= c.lastRecv
  <2>1. d = c
    BY <1>1, <1>2 DEF NoteSeqno
  <2> QED BY <1>2, <2>1 DEF Sound
<1>3. CASE q > c.lastRecv
  <2>1. PICK B \in SUBSET Seqno : B = Between(c.lastRecv, q)
    BY DEF Between
  <2>2. \A x : x \in B <=> x \in Nat /\ c.lastRecv < x /\ x < q
    <3>1. c.lastRecv \in Unwrapped /\ q \in Unwrapped
      BY <1>1
    <3> QED BY <1>1, <1>3, <2>1, <3>1, BetweenUnwrapped
  <2>3. d = [c EXCEPT !.missing = @ \cup B, !.lastRecv = q]
    BY <1>1, <1>3, <2>1 DEF NoteSeqno, Gap
  <2>4. q \in Seqno0
    OBVIOUS
  <2>5. /\ d.lastRecv = q /\ d.missing = c.missing \cup B /\ d.state = c.state
        /\ d.plist = c.plist /\ d.nextExpected = c.nextExpected
    BY <2>3 DEF Connection
  <2>6. d \in Connection
    BY <2>1, <2>3, <2>4 DEF Connection
  <2> HIDE DEF d
  <2>7. Sound(s, d, D, G, {q})
    BY <1>1, <1>3, <2>2, <2>5 DEF Sound
  <2> QED BY <1>3, <2>5, <2>6, <2>7 DEF d
<1> QED BY <1>1, <1>2, <1>3

(* send_NACK: what is struck off the missing list is given up.             *)
LEMMA NackSound ==
  ASSUME NEW s \in Stream, NEW c \in Connection, NEW D, NEW G, NEW E,
         Sound(s, c, D, G, E)
  PROVE  /\ AfterNack(c) \in Connection /\ TooOld(c) \subseteq Seqno
         /\ Sound(s, AfterNack(c), D, G \cup TooOld(c), E)
         /\ AfterNack(c).state = c.state /\ NackOf(s, c) \in Packet
         /\ c.missing = {} => AfterNack(c).missing = {}
<1> USE ConnTypes
<1>1. PICK T \in SUBSET Seqno : T = TooOld(c)
  BY DEF TooOld
<1>2. PICK k : k = [c EXCEPT !.missing = @ \ T, !.alarm = "armed"]
  OBVIOUS
<1>3. k = AfterNack(c)
  BY <1>1, <1>2 DEF AfterNack, STR_Timer_start, Connection
<1>4. k \in Connection
  BY <1>2 DEF Connection
<1>5. /\ k.lastRecv = c.lastRecv /\ k.missing = c.missing \ T /\ k.state = c.state
      /\ k.plist = c.plist /\ k.nextExpected = c.nextExpected
  BY <1>2 DEF Connection
<1>6. Sound(s, k, D, G \cup T, E)
  BY <1>5 DEF Sound
<1>7. NackOf(s, c) \in Packet
  <2>1. c.lastRecv \in Seqno0 /\ Oldest(c.missing \ TooOld(c), NackListLen) \in SUBSET Seqno
    BY DEF Connection, Oldest
  <2> QED BY <2>1, NackType DEF NackOf
<1> QED BY <1>1, <1>3, <1>4, <1>5, <1>6, <1>7

(* receive_str_msg for a packet q that has been noted.                     *)
LEMMA DispatchSound ==
  ASSUME NEW s \in Stream, NEW c \in Connection, NEW D \in SUBSET Nat, NEW G,
         NEW q \in 1 .. sent[s], sent[s] \in 0 .. (Top - 1), q <= c.lastRecv,
         Sound(s, c, D, G, {q}), NEW n \in Seqno, DispatchEndsAt(c, q, n)
  PROVE  /\ Dispatched(c, q, n) \in Connection
         /\ Sound(s, Dispatched(c, q, n), D \cup Ready(c, q, n), G \cup Skipped(c, q, n), {})
         /\ \A x \in Ready(c, q, n) : x \in Seqno /\ c.nextExpected <= x /\ x <= sent[s]
         /\ Skipped(c, q, n) \subseteq Seqno
         /\ Dispatched(c, q, n).state = c.state
         /\ Dispatched(c, q, n).missing = c.missing
<1> USE SmallUnwrapped, ConnTypes
<1>1. PICK k \in 0 .. (Top - 1) : /\ k <= sent[s] /\ k <= c.lastRecv
                                 /\ (k = sent[s] \/ k = c.lastRecv)
  BY DEF Sound
<1>2. PICK R, K, Q, P : /\ R = Ready(c, q, n) /\ K = Skipped(c, q, n) /\ Q = Queue(c, q)
                        /\ P = {x \in Q : SeqCmp(x, n) > 0}
  OBVIOUS
<1>3. /\ n \in c.nextExpected .. (k + 1) /\ n \notin Q
      /\ Q = c.plist \cup (IF q < c.nextExpected THEN {} ELSE {q})
      /\ \A x : x \in R <=> x \in Q /\ c.nextExpected <= x /\ x < n
      /\ \A x \in c.nextExpected .. (n - 1) : x \in Q \/ x \in K
      /\ \A x \in Q : SeqCmp(x, n) > 0 <=> x > n
  <2>1. c.nextExpected <= k + 1 /\ \A x \in c.plist : c.nextExpected < x /\ x <= k
    BY <1>1 DEF Sound
  <2>2. q \in 1 .. k
    BY <1>1
  <2> QED BY <1>2, <2>1, <2>2, Dispatch, ZenonT(30)
<1>4. Q \subseteq Seqno /\ K \subseteq Seqno /\ P \subseteq Seqno
  <2>1. q \in Seqno
    OBVIOUS
  <2> QED BY <1>2, <1>3, <2>1 DEF Skipped
<1>5. PICK d : d = [c EXCEPT !.timeoutCount = 0, !.nextExpected = n, !.plist = P]
  OBVIOUS
<1>6. d = Dispatched(c, q, n)
  BY <1>2, <1>5 DEF Dispatched
<1>7. /\ d.lastRecv = c.lastRecv /\ d.missing = c.missing /\ d.state = c.state
      /\ d.plist = P /\ d.nextExpected = n
  BY <1>5 DEF Connection
<1>8. d \in Connection
  <2>1. 0 \in 0 .. MaxTimeoutCount
    BY StrMasterAssumption
  <2> QED BY ONLY <1>4, <1>5, <2>1, c \in Connection, n \in Seqno DEF Connection
<1>9. \A x \in Q : x \in Nat \ {0} /\ c.nextExpected <= x /\ x <= c.lastRecv /\ x <= sent[s]
  BY <1>3 DEF Sound
<1>10. \A x \in P : n < x /\ x \in Q
  BY <1>2, <1>3
<1>11. \A x \in Q : x \in R \/ x \in P
  <2> SUFFICES ASSUME NEW x \in Q, ~(x < n) PROVE x \in P
    BY <1>3, <1>9
  <2>1. x > n
    BY <1>3, <1>9
  <2> QED BY <1>2, <1>3, <2>1
<1>12. \A x \in 1 .. (n - 1) : x \in (D \cup R) \cup (G \cup K)
  <2> SUFFICES ASSUME NEW x \in 1 .. (n - 1) PROVE x \in (D \cup R) \cup (G \cup K)
    OBVIOUS
  <2>1. CASE x < c.nextExpected
    BY <2>1 DEF Sound
  <2>2. CASE c.nextExpected <= x
    BY <1>3, <2>2
  <2> QED BY <2>1, <2>2
<1>13. \A x \in 1 .. c.lastRecv :
         x <= sent[s] => x \in (D \cup R) \cup P \cup c.missing \cup (G \cup K)
  <2> SUFFICES ASSUME NEW x \in 1 .. c.lastRecv, x <= sent[s]
               PROVE  x \in (D \cup R) \cup P \cup c.missing \cup (G \cup K)
    OBVIOUS
  <2>1. CASE x \in Q
    BY <1>11, <2>1
  <2>2. CASE x \notin Q /\ x # q
    BY <1>3, <2>2 DEF Sound
  <2>3. CASE x \notin Q /\ x = q
    <3>1. q < c.nextExpected
      BY <1>3, <2>3
    <3> QED BY <2>3, <3>1 DEF Sound
  <2> QED BY <2>1, <2>2, <2>3
<1>14. Sound(s, d, D \cup R, G \cup K, {})
  <2>1. n <= c.lastRecv + 1 /\ n <= sent[s] + 1
    <3>1. c.lastRecv \in Nat /\ c.nextExpected \in Nat
      OBVIOUS
    <3>2. n \in c.nextExpected .. (k + 1) /\ k <= sent[s] /\ k <= c.lastRecv
      BY <1>1, <1>3
    <3> QED BY ONLY <3>1, <3>2, k \in 0 .. (Top - 1), sent[s] \in 0 .. (Top - 1),
                    Top \in Nat
  <2>2. \A x \in D \cup R : x < n
    <3>1. \A x \in D : x < c.nextExpected
      BY DEF Sound
    <3>2. c.nextExpected <= n /\ c.nextExpected \in Nat /\ n \in Nat
      BY <1>3
    <3>3. \A x \in R : x < n
      BY <1>3
    <3> QED BY ONLY <3>1, <3>2, <3>3, D \in SUBSET Nat
  <2> QED BY <1>7, <1>9, <1>10, <1>12, <1>13, <2>1, <2>2 DEF Sound
<1> QED BY <1>2, <1>3, <1>4, <1>6, <1>7, <1>8, <1>9, <1>14

-----------------------------------------------------------------------------
(* The master's actions.                                                   *)

(* A step on one connection, which becomes k and stays in the list, whose  *)
(* stream then has delivered d and given up G, and which answers with at   *)
(* most one packet, q.                                                     *)
LEMMA MasterStepInv ==
  ASSUME IndInv, UNCHANGED senderVars, NEW s \in Stream, NEW k \in Connection,
         NEW d \in Seq(Seqno), NEW G \in SUBSET Seqno, NEW q \in Packet,
         m_strcs' \in Seq(Stream),
         tids' \in [Tid -> {"task", "close", "acked", "removed"}],
         cs' = [cs EXCEPT ![s] = k], delivered' = [delivered EXCEPT ![s] = d],
         givenUp' = [givenUp EXCEPT ![s] = G],
         k.state # "NONE", k.state = "FINISHED" => k.missing = {},
         Sound(s, k, {d[i] : i \in DOMAIN d}, G, {}),
         \A i, j \in DOMAIN d : i < j => d[i] < d[j],
         \A i \in DOMAIN d : d[i] <= sent[s],
         net' \subseteq net \/ (net' \subseteq net \cup {q} /\ q.flag \in MoteFlag)
  PROVE  IndInv'
<1> USE MasterTypes
<1>1. EndsTypeOK'
  BY DEF IndInv, EndsTypeOK, MasterTypeOK, SenderTypeOK, senderVars
<1>2. cs'[s] = k /\ delivered'[s] = d /\ givenUp'[s] = G
  OBVIOUS
<1>3. \A r \in Stream \ {s} :
        cs'[r] = cs[r] /\ delivered'[r] = delivered[r] /\ givenUp'[r] = givenUp[r]
  OBVIOUS
<1>4. DeliveredSet(s)' = {d[i] : i \in DOMAIN d}
  BY <1>2 DEF DeliveredSet
<1>5. ConnInv(s)'
  BY <1>2, <1>4 DEF ConnInv, Sound, Accounted, Done, senderVars
<1>6. \A x \in DeliveredSet(s)' : x <= sent[s]
  BY <1>4
<1> QED BY <1>1, <1>2, <1>3, <1>5, <1>6, MasterFrame

(* The same when nothing is delivered.                                     *)
LEMMA MasterQuietInv ==
  ASSUME IndInv, UNCHANGED <<senderVars, delivered>>, NEW s \in Stream,
         NEW k \in Connection, NEW G \in SUBSET Seqno, NEW q \in Packet,
         m_strcs' \in Seq(Stream),
         tids' \in [Tid -> {"task", "close", "acked", "removed"}],
         cs' = [cs EXCEPT ![s] = k], givenUp' = [givenUp EXCEPT ![s] = G],
         k.state # "NONE", k.state = "FINISHED" => k.missing = {},
         Sound(s, k, DeliveredSet(s), G, {}),
         net' \subseteq net \/ (net' \subseteq net \cup {q} /\ q.flag \in MoteFlag)
  PROVE  IndInv'
<1>1. delivered[s] \in Seq(Seqno) /\ delivered' = [delivered EXCEPT ![s] = delivered[s]]
  BY MasterTypes
<1>2. /\ \A i, j \in DOMAIN delivered[s] : i < j => delivered[s][i] < delivered[s][j]
      /\ \A i \in DOMAIN delivered[s] : delivered[s][i] <= sent[s]
  BY DEF IndInv, InOrderNoDuplicate, DeliveredSet
<1> QED BY <1>1, <1>2, MasterStepInv DEF DeliveredSet

LEMMA ReplySends ==
  ASSUME NEW p \in net, NEW q
  PROVE  /\ Reply(p, q) => net' \subseteq net \cup {q}
         /\ NoReply(p) => net' \subseteq net
BY DEF Reply, NoReply, AfterReceipt, Sending

(* What a packet in flight that the master may receive is.                 *)
LEMMA Arrival ==
  ASSUME IndInv, NEW p \in net
  PROVE  /\ p.s \in Stream /\ p.seqno \in Seqno0 /\ NetInv(p)
         /\ p.flag = "FIN" => p.seqno \in 1 .. Top /\ Done(p.s)
         /\ p.flag \in {"DATA", "DATA_RETX"} => p.seqno \in 1 .. sent[p.s]
<1>1. p.s \in Stream /\ p.seqno \in Seqno0 /\ NetInv(p)
  BY DEF IndInv, EndsTypeOK, Packet
<1> QED BY <1>1, MasterTypes DEF NetInv

LEMMA TimerStart ==
  ASSUME NEW c \in Connection, NEW s, NEW D, NEW G, NEW E
  PROVE  LET k == STR_Timer_start(c) IN
         /\ k \in Connection /\ k.state = c.state /\ k.missing = c.missing
         /\ Sound(s, c, D, G, E) => Sound(s, k, D, G, E)
<1>1. PICK k : k = [c EXCEPT !.alarm = "armed"]
  OBVIOUS
<1>2. /\ k \in Connection /\ k.state = c.state /\ k.missing = c.missing
      /\ k.plist = c.plist /\ k.lastRecv = c.lastRecv /\ k.nextExpected = c.nextExpected
  BY <1>1 DEF Connection
<1>3. Sound(s, c, D, G, E) => Sound(s, k, D, G, E)
  BY <1>2 DEF Sound
<1> QED BY <1>1, <1>2, <1>3 DEF STR_Timer_start

(* A connection that has only just come, or changed its state.             *)
LEMMA NewConnectionSound ==
  ASSUME NEW s \in Stream, sent[s] \in Nat, NEW G
  PROVE  /\ NewConnection \in Connection /\ NewConnection.state = "PASSIVE"
         /\ Sound(s, NewConnection, {}, G, {})
<1>1. PICK n \in Connection : /\ n = NoConnection /\ n.nextExpected = 1 /\ n.lastRecv = 0
                             /\ n.missing = {} /\ n.plist = {}
  <2>1. NoConnection \in Connection
    BY StrMasterAssumption, TrSeqnoAssumption
       DEF NoConnection, Connection, Connected, Seqno, Seqno0, TrFirstSeqno
  <2> QED BY <2>1 DEF NoConnection
<1>2. PICK k : k = [n EXCEPT !.state = "PASSIVE"]
  OBVIOUS
<1>3. /\ k \in Connection /\ k.state = "PASSIVE" /\ k.nextExpected = 1 /\ k.lastRecv = 0
      /\ k.missing = {} /\ k.plist = {}
  BY <1>1, <1>2 DEF Connection, Connected
<1>4. Sound(s, k, {}, G, {})
  BY <1>3, SmallUnwrapped DEF Sound
<1>5. k = NewConnection
  BY <1>1, <1>2 DEF NewConnection
<1> QED BY <1>3, <1>4, <1>5

LEMMA MasterSYN ==
  ASSUME IndInv, UNCHANGED senderVars, NEW p \in net, Receive_SYN(p)
  PROVE  IndInv'
<1>1. PICK s \in Stream : s = p.s
  BY Arrival
<1>2. PICK q \in Packet : q = Pkt(s, "SYN_ACK", 0)
  <2>1. 0 \in Seqno0 /\ "SYN_ACK" \in MasterFlag \cup MoteFlag
    BY SmallUnwrapped DEF MoteFlag
  <2> QED BY <2>1, PktType
<1>3. q.flag \in MoteFlag /\ net' \subseteq net \cup {q}
  BY <1>1, <1>2, ReplySends DEF Receive_SYN, Pkt, MoteFlag
<1>4. /\ givenUp[s] \in SUBSET Seqno /\ givenUp' = [givenUp EXCEPT ![s] = givenUp[s]]
      /\ UNCHANGED <<delivered, tids>> /\ sent[s] \in Nat
  BY MasterTypes DEF Receive_SYN
<1>5. CASE /\ cs[s].state = "NONE"
           /\ cs' = [cs EXCEPT ![s] = STR_Timer_start(NewConnection)]
           /\ m_strcs' = <<s>> \o m_strcs
  <2>1. DeliveredSet(s) = {}
    BY <1>1, <1>5, Arrival DEF Receive_SYN, NetInv, DeliveredSet
  <2>2. PICK k \in Connection : /\ k = STR_Timer_start(NewConnection)
                               /\ k.state = "PASSIVE"
                               /\ Sound(s, k, DeliveredSet(s), givenUp[s], {})
    BY <1>4, <2>1, NewConnectionSound, TimerStart
  <2>3. m_strcs' \in Seq(Stream) /\ tids' \in [Tid -> {"task", "close", "acked", "removed"}]
    BY <1>4, <1>5, MasterTypes, ConcatProperties
  <2> QED BY <1>3, <1>4, <1>5, <2>2, <2>3, MasterQuietInv
<1>6. CASE /\ cs[s].state # "NONE"
           /\ cs' = [cs EXCEPT ![s] = STR_Timer_start(cs[s])]
           /\ UNCHANGED m_strcs
  <2>1. PICK k \in Connection : /\ k = STR_Timer_start(cs[s])
                               /\ k.state = cs[s].state /\ k.missing = cs[s].missing
                               /\ Sound(s, k, DeliveredSet(s), givenUp[s], {})
    BY <1>6, MasterTypes, IsSound, TimerStart
  <2>2. k.state = "FINISHED" => k.missing = {}
    BY <1>6, <2>1, IsSound
  <2>3. m_strcs' \in Seq(Stream) /\ tids' \in [Tid -> {"task", "close", "acked", "removed"}]
    BY <1>4, <1>6, MasterTypes
  <2> QED BY <1>3, <1>4, <1>6, <2>1, <2>2, <2>3, MasterQuietInv
<1> QED BY <1>1, <1>5, <1>6 DEF Receive_SYN

(* An answer without a connection, or no answer.                           *)
LEMMA MasterAnswers ==
  ASSUME IndInv, UNCHANGED <<masterVars, senderVars>>, NEW q \in Packet,
         net' \subseteq net \/ (net' \subseteq net \cup {q} /\ q.flag \in MoteFlag)
  PROVE  IndInv'
<1>1. EndsTypeOK' /\ InOrderNoDuplicate'
  BY DEF IndInv, EndsTypeOK, MasterTypeOK, SenderTypeOK, InOrderNoDuplicate, DeliveredSet,
         masterVars, senderVars
<1>2. \A s \in Stream : SenderInv(s)' /\ (cs'[s].state # "NONE" => ConnInv(s)')
  BY DEF IndInv, SenderInv, ConnInv, Accounted, DeliveredSet, Open, Done,
         masterVars, senderVars
<1>3. \A p \in net' : NetInv(p)'
  BY DEF IndInv, NetInv, Done, MoteFlag, masterVars, senderVars
<1> QED BY <1>1, <1>2, <1>3 DEF IndInv

LEMMA MasterUnknown ==
  ASSUME IndInv, UNCHANGED senderVars, NEW p \in net,
         Receive_FIN_unknown(p) \/ Receive_DATA_unknown(p)
  PROVE  IndInv'
<1>1. PICK q \in Packet : q = Pkt(p.s, "FIN_ACK", p.seqno)
  <2>1. "FIN_ACK" \in MasterFlag \cup MoteFlag
    BY DEF MoteFlag
  <2> QED BY <2>1, PktType, Arrival
<1>2. q.flag \in MoteFlag
  BY <1>1 DEF Pkt, MoteFlag
<1> QED
  BY <1>1, <1>2, ReplySends, MasterAnswers DEF Receive_FIN_unknown, Receive_DATA_unknown

LEMMA Moves ==
  ASSUME NEW s \in Stream, NEW c \in Connection, NEW st \in Connected, NEW D, NEW G,
         Sound(s, c, D, G, {}),
         st \in {"FIN_NACK_WAIT", "FINISHED"} => c.lastRecv > sent[s]
  PROVE  LET k == [c EXCEPT !.state = st] IN
         /\ k \in Connection /\ k.state = st /\ k.missing = c.missing
         /\ Sound(s, k, D, G, {})
<1>1. PICK k : k = [c EXCEPT !.state = st]
  OBVIOUS
<1>2. /\ k \in Connection /\ k.state = st /\ k.missing = c.missing
      /\ k.plist = c.plist /\ k.lastRecv = c.lastRecv /\ k.nextExpected = c.nextExpected
  BY <1>1 DEF Connection
<1>3. Sound(s, k, D, G, {})
  BY <1>2 DEF Sound
<1> QED BY <1>1, <1>2, <1>3

LEMMA DeleteDoneType ==
  ASSUME IndInv, NEW s \in Stream, NEW k, DeleteDone(k, s)
  PROVE  tids' \in [Tid -> {"task", "close", "acked", "removed"}]
<1>1. TidOf[s] \in Tid
  BY StrMasterAssumption
<1> QED BY <1>1, MasterTypes DEF DeleteDone, CheckCloseDone

LEMMA FinAckType ==
  ASSUME NEW s \in Stream, NEW n \in Seqno0
  PROVE  Pkt(s, "FIN_ACK", n) \in Packet /\ Pkt(s, "FIN_ACK", n).flag \in MoteFlag
<1>1. "FIN_ACK" \in MasterFlag \cup MoteFlag
  BY DEF MoteFlag
<1> QED BY <1>1, PktType DEF Pkt, MoteFlag

LEMMA Finishes ==
  ASSUME IndInv, NEW p \in net, NEW s \in Stream, NEW c \in Connection, NEW D, NEW G,
         Sound(s, c, D, G, {}), c.missing = {}, c.lastRecv > sent[s], Finish(s, c, p)
  PROVE  /\ \E k \in Connection : /\ cs' = [cs EXCEPT ![s] = k]
                                 /\ k.state = "FINISHED" /\ k.missing = {}
                                 /\ Sound(s, k, D, G, {})
         /\ \E q \in Packet : net' \subseteq net \cup {q} /\ q.flag \in MoteFlag
         /\ tids' \in [Tid -> {"task", "close", "acked", "removed"}]
<1>1. PICK e : e = [c EXCEPT !.state = "FINISHED"]
  OBVIOUS
<1>a. e \in Connection /\ e.state = "FINISHED" /\ e.missing = {} /\ Sound(s, e, D, G, {})
  <2>1. "FINISHED" \in Connected
    BY DEF Connected
  <2> QED BY <1>1, <2>1, Moves
<1>2. PICK k \in Connection : /\ k = STR_Timer_start(e)
                             /\ k.state = "FINISHED" /\ k.missing = {}
                             /\ Sound(s, k, D, G, {})
  BY <1>a, TimerStart
<1>3. cs' = [cs EXCEPT ![s] = k]
  BY <1>1, <1>2 DEF Finish
<1>4. PICK q \in Packet : q = Pkt(s, "FIN_ACK", c.lastRecv) /\ q.flag \in MoteFlag
  <2>1. c.lastRecv \in Seqno0
    BY DEF Connection
  <2> QED BY <2>1, FinAckType
<1>5. net' \subseteq net \cup {q}
  BY <1>4, ReplySends DEF Finish
<1>6. tids' \in [Tid -> {"task", "close", "acked", "removed"}]
  BY DeleteDoneType DEF Finish
<1> QED BY <1>2, <1>3, <1>4, <1>5, <1>6

LEMMA MasterFIN ==
  ASSUME IndInv, UNCHANGED senderVars, NEW p \in net, Receive_FIN(p)
  PROVE  IndInv'
<1>1. PICK s \in Stream : s = p.s
  BY Arrival
<1>2. PICK seqno \in 1 .. Top : seqno = p.seqno /\ seqno > sent[s] /\ Done(s)
  BY <1>1, Arrival, MasterTypes DEF Receive_FIN, NetInv
<1>3. PICK c \in Connection : /\ c = NoteSeqno(cs[s], seqno)
                             /\ Sound(s, c, DeliveredSet(s), givenUp[s], {})
                             /\ c.lastRecv > sent[s]
  <2>1. cs[s] \in Connection /\ sent[s] \in 0 .. (Top - 1) /\ cs[s].state # "NONE"
    BY <1>1, MasterTypes DEF Receive_FIN
  <2>2. PICK c \in Connection : /\ c = NoteSeqno(cs[s], seqno)
                               /\ Sound(s, c, DeliveredSet(s), givenUp[s], {seqno})
                               /\ c.lastRecv >= seqno
    BY <1>2, <2>1, IsSound, NoteSound
  <2>3. c.lastRecv > sent[s]
    BY <1>2, <2>1, <2>2, ConnTypes
  <2>4. Sound(s, c, DeliveredSet(s), givenUp[s], {})
    BY <1>2, <2>1, <2>2 DEF Sound
  <2> QED BY <2>2, <2>3, <2>4
<1>4. UNCHANGED <<m_strcs, delivered>> /\ m_strcs' \in Seq(Stream) /\ givenUp[s] \in SUBSET Seqno
  BY MasterTypes DEF Receive_FIN
<1>5. CASE c.missing = {} /\ Finish(s, c, p) /\ UNCHANGED givenUp
  <2>1. givenUp' = [givenUp EXCEPT ![s] = givenUp[s]]
    BY <1>5, MasterTypes
  <2>2. PICK k \in Connection : /\ cs' = [cs EXCEPT ![s] = k]
                               /\ k.state = "FINISHED" /\ k.missing = {}
                               /\ Sound(s, k, DeliveredSet(s), givenUp[s], {})
    BY <1>3, <1>5, Finishes
  <2>3. PICK q \in Packet : net' \subseteq net \cup {q} /\ q.flag \in MoteFlag
    BY <1>3, <1>5, Finishes
  <2>4. tids' \in [Tid -> {"task", "close", "acked", "removed"}]
    BY <1>3, <1>5, Finishes
  <2> QED BY <1>4, <2>1, <2>2, <2>3, <2>4, MasterQuietInv
<1>6. CASE /\ c.missing # {}
           /\ cs' = [cs EXCEPT ![s] =
                [AfterNack(c) EXCEPT !.timeoutCount = 0, !.state = "FIN_NACK_WAIT"]]
           /\ Reply(p, NackOf(s, c))
           /\ givenUp' = [givenUp EXCEPT ![s] = @ \cup TooOld(c)]
           /\ UNCHANGED tids
  <2>1. PICK a \in Connection, G \in SUBSET Seqno :
          /\ a = AfterNack(c) /\ G = givenUp[s] \cup TooOld(c)
          /\ Sound(s, a, DeliveredSet(s), G, {})
    BY <1>3, <1>4, NackSound
  <2>2. PICK b \in Connection : /\ b = [a EXCEPT !.timeoutCount = 0]
                               /\ Sound(s, b, DeliveredSet(s), G, {})
                               /\ b.lastRecv = a.lastRecv
    <3>1. PICK b : b = [a EXCEPT !.timeoutCount = 0]
      OBVIOUS
    <3>2. /\ b \in Connection /\ b.state = a.state /\ b.missing = a.missing
          /\ b.plist = a.plist /\ b.lastRecv = a.lastRecv /\ b.nextExpected = a.nextExpected
      BY <3>1, StrMasterAssumption DEF Connection
    <3>3. Sound(s, b, DeliveredSet(s), G, {})
      BY <2>1, <3>2 DEF Sound
    <3> QED BY <3>1, <3>2, <3>3
  <2>3. b.lastRecv > sent[s]
    BY <1>3, <2>1, <2>2 DEF AfterNack, STR_Timer_start, Connection
  <2>4. PICK k \in Connection : /\ k = [b EXCEPT !.state = "FIN_NACK_WAIT"]
                               /\ k.state = "FIN_NACK_WAIT"
                               /\ Sound(s, k, DeliveredSet(s), G, {})
    BY <2>2, <2>3, Moves DEF Connected
  <2>5. cs' = [cs EXCEPT ![s] = k] /\ givenUp' = [givenUp EXCEPT ![s] = G]
    BY <1>6, <2>1, <2>2, <2>4
  <2>6. PICK q \in Packet : q = NackOf(s, c) /\ q.flag \in MoteFlag
    BY <1>3, NackSound DEF NackOf, Nack, MoteFlag
  <2>7. net' \subseteq net \cup {q} /\ tids' \in [Tid -> {"task", "close", "acked", "removed"}]
    BY <1>6, <2>6, ReplySends, MasterTypes
  <2> QED BY <1>4, <2>4, <2>5, <2>6, <2>7, MasterQuietInv
<1> QED BY <1>1, <1>2, <1>3, <1>5, <1>6 DEF Receive_FIN

(* A retransmission is struck off the missing list.                        *)
LEMMA StruckSound ==
  ASSUME NEW s \in Stream, NEW e \in Connection, NEW D, NEW G, NEW q \in 1 .. sent[s],
         Sound(s, e, D, G, {q})
  PROVE  LET c == [e EXCEPT !.missing = @ \ {q}] IN
         /\ c \in Connection /\ c.state = e.state /\ c.lastRecv = e.lastRecv
         /\ c.missing \subseteq e.missing
         /\ Sound(s, c, D, G, {q})
<1>1. PICK c : c = [e EXCEPT !.missing = @ \ {q}]
  OBVIOUS
<1>2. /\ c \in Connection /\ c.state = e.state /\ c.missing = e.missing \ {q}
      /\ c.plist = e.plist /\ c.lastRecv = e.lastRecv /\ c.nextExpected = e.nextExpected
  BY <1>1 DEF Connection
<1>3. Sound(s, c, D, G, {q})
  BY <1>2 DEF Sound
<1> QED BY <1>1, <1>2, <1>3

(* A data packet, noted and struck off the missing list.                   *)
LEMMA DataNoted ==
  ASSUME IndInv, NEW p \in net, p.flag \in {"DATA", "DATA_RETX"},
         NEW s \in Stream, s = p.s, cs[s].state # "NONE",
         NEW q \in 1 .. sent[s], q = p.seqno
  PROVE  /\ Noted(p) \in Connection /\ q <= Noted(p).lastRecv
         /\ Sound(s, Noted(p), DeliveredSet(s), givenUp[s], {q})
         /\ Noted(p).state = "FINISHED" => Noted(p).missing = {}
         /\ Noted(p).state = cs[s].state
<1>1. /\ cs[s] \in Connection /\ sent[s] \in 0 .. (Top - 1) /\ q \in 1 .. Top
      /\ ~(q > sent[s])
  BY MasterTypes, SmallUnwrapped
<1>2. PICK e : e = NoteSeqno(cs[s], q)
  OBVIOUS
<1>3. /\ e \in Connection /\ Sound(s, e, DeliveredSet(s), givenUp[s], {q})
      /\ e.lastRecv >= q /\ e.state = cs[s].state
      /\ q <= cs[s].lastRecv => e.missing = cs[s].missing
  <2>1. Sound(s, cs[s], DeliveredSet(s), givenUp[s], {})
    BY IsSound
  <2> QED BY ONLY s \in Stream, <1>1, <1>2, <2>1, NoteSound
<1>4. e.state = "FINISHED" => e.missing = {}
  <2> SUFFICES ASSUME e.state = "FINISHED" PROVE e.missing = {}
    OBVIOUS
  <2>1. cs[s].lastRecv > sent[s]
    BY <1>3, IsSound DEF Sound
  <2>2. q <= cs[s].lastRecv
    BY <1>1, <2>1, ConnTypes
  <2> QED BY <1>3, <2>2, IsSound
<1>5. CASE p.flag # "DATA_RETX"
  <2>1. Noted(p) = e
    BY <1>2, <1>5 DEF Noted
  <2> QED BY <1>3, <1>4, <2>1, ConnTypes
<1>6. CASE p.flag = "DATA_RETX"
  <2>1. PICK c : c = [e EXCEPT !.missing = @ \ {q}]
    OBVIOUS
  <2>2. /\ c \in Connection /\ Sound(s, c, DeliveredSet(s), givenUp[s], {q})
        /\ c.state = e.state /\ c.lastRecv = e.lastRecv /\ c.missing \subseteq e.missing
    BY <1>3, <2>1, StruckSound
  <2>3. Noted(p) = c
    BY <1>2, <1>6, <2>1 DEF Noted
  <2> QED BY <1>3, <1>4, <2>2, <2>3, ConnTypes
<1> QED BY <1>5, <1>6

(* The answer to a data packet: the new connection, the numbers given up,  *)
(* and what is sent.                                                       *)
AnswerInv(s, d, D, G) ==
  /\ \E k \in Connection, H \in SUBSET Seqno :
       /\ cs' = [cs EXCEPT ![s] = k] /\ givenUp' = [givenUp EXCEPT ![s] = H]
       /\ k.state # "NONE" /\ (k.state = "FINISHED" => k.missing = {})
       /\ Sound(s, k, D, H, {})
  /\ \E q \in Packet : net' \subseteq net \cup {q} /\ q.flag \in MoteFlag
  /\ tids' \in [Tid -> {"task", "close", "acked", "removed"}]

LEMMA GapAnswered ==
  ASSUME IndInv, NEW p \in net, NEW s \in Stream, s = p.s, NEW d \in Connection, NEW D,
         NEW K \in SUBSET Seqno, Sound(s, d, D, givenUp[s] \cup K, {}),
         d.state = "FINISHED" => d.missing = {}, d.state # "NONE", AnswerGap(p, d, K)
  PROVE  AnswerInv(s, d, D, givenUp[s] \cup K)
<1>0. PICK a, H : a = AfterNack(d) /\ H = givenUp[s] \cup K \cup TooOld(d)
  OBVIOUS
<1>1. /\ a \in Connection /\ Sound(s, a, D, H, {}) /\ a.state = d.state
      /\ d.missing = {} => a.missing = {}
      /\ a = AfterNack(d) /\ H = givenUp[s] \cup K \cup TooOld(d) /\ H \in SUBSET Seqno
  <2>1. givenUp[s] \in SUBSET Seqno
    BY MasterTypes
  <2> QED BY <1>0, <2>1, NackSound
<1>2. PICK st \in Connected : st = IF a.state = "PASSIVE" THEN "NACK_WAIT" ELSE a.state
  BY <1>1 DEF Connection, Connected
<1>3. PICK k : k = [a EXCEPT !.state = st]
  OBVIOUS
<1>4. st \in {"FIN_NACK_WAIT", "FINISHED"} => a.lastRecv > sent[s]
  BY <1>1, <1>2 DEF Sound
<1>5. k \in Connection /\ k.state = st /\ k.missing = a.missing /\ Sound(s, k, D, H, {})
  BY <1>1, <1>3, <1>4, Moves
<1>6. cs' = [cs EXCEPT ![s] = k] /\ givenUp' = [givenUp EXCEPT ![s] = H]
  BY <1>1, <1>2, <1>3 DEF AnswerGap
<1>7. k.state # "NONE" /\ (k.state = "FINISHED" => k.missing = {})
  BY <1>1, <1>2, <1>5 DEF Connected
<1>8. PICK q \in Packet : q = NackOf(s, d) /\ q.flag \in MoteFlag
  BY NackSound DEF NackOf, Nack, MoteFlag
<1>9. net' \subseteq net \cup {q} /\ tids' \in [Tid -> {"task", "close", "acked", "removed"}]
  BY <1>8, ReplySends, MasterTypes DEF AnswerGap
<1> QED BY <1>1, <1>5, <1>6, <1>7, <1>8, <1>9 DEF AnswerInv

LEMMA NoGapAnswered ==
  ASSUME IndInv, NEW p \in net, NEW s \in Stream, s = p.s, NEW d \in Connection, NEW D,
         NEW K \in SUBSET Seqno, Sound(s, d, D, givenUp[s] \cup K, {}),
         d.state = "FINISHED" => d.missing = {}, d.state # "NONE", AnswerNoGap(p, d, K)
  PROVE  AnswerInv(s, d, D, givenUp[s] \cup K)
<1>1. PICK H \in SUBSET Seqno : /\ H = givenUp[s] \cup K
                               /\ givenUp' = [givenUp EXCEPT ![s] = H]
  BY MasterTypes DEF AnswerNoGap
<1>2. CASE d.missing = {} /\ d.state = "FIN_NACK_WAIT" /\ Finish(s, d, p)
  <2>1. d.lastRecv > sent[s]
    BY <1>2 DEF Sound
  <2>2. PICK k \in Connection : /\ cs' = [cs EXCEPT ![s] = k]
                               /\ k.state = "FINISHED" /\ k.missing = {}
                               /\ Sound(s, k, D, H, {})
    BY <1>1, <1>2, <2>1, Finishes, ZenonT(30)
  <2>3. /\ \E q \in Packet : net' \subseteq net \cup {q} /\ q.flag \in MoteFlag
        /\ tids' \in [Tid -> {"task", "close", "acked", "removed"}]
    BY <1>1, <1>2, <2>1, Finishes
  <2> QED BY <1>1, <2>2, <2>3 DEF AnswerInv
<1>3. ASSUME NoReply(p), UNCHANGED tids
      PROVE  /\ \E q \in Packet : net' \subseteq net \cup {q} /\ q.flag \in MoteFlag
             /\ tids' \in [Tid -> {"task", "close", "acked", "removed"}]
  <2>1. Pkt(s, "FIN_ACK", 0) \in Packet /\ Pkt(s, "FIN_ACK", 0).flag \in MoteFlag
    BY SmallUnwrapped, FinAckType
  <2> QED BY <1>3, <2>1, ReplySends, MasterTypes
<1>4. CASE /\ d.missing = {} /\ d.state = "NACK_WAIT"
           /\ cs' = [cs EXCEPT ![s] = STR_Timer_start([d EXCEPT !.state = "PASSIVE"])]
           /\ NoReply(p) /\ UNCHANGED tids
  <2>1. PICK e : e = [d EXCEPT !.state = "PASSIVE"]
    OBVIOUS
  <2>2. e \in Connection /\ e.state = "PASSIVE" /\ Sound(s, e, D, H, {})
    <3>1. "PASSIVE" \in Connected
      BY DEF Connected
    <3> QED BY <1>1, <2>1, <3>1, Moves
  <2>3. PICK k \in Connection : /\ k = STR_Timer_start(e) /\ k.state = "PASSIVE"
                               /\ Sound(s, k, D, H, {})
    BY <2>2, TimerStart
  <2> QED BY <1>1, <1>3, <1>4, <2>1, <2>3 DEF AnswerInv
<1>5. CASE cs' = [cs EXCEPT ![s] = d] /\ NoReply(p) /\ UNCHANGED tids
  BY <1>1, <1>3, <1>5 DEF AnswerInv
<1> QED BY <1>2, <1>4, <1>5 DEF AnswerNoGap

LEMMA MasterDATA ==
  ASSUME IndInv, UNCHANGED senderVars, NEW p \in net, Receive_DATA(p)
  PROVE  IndInv'
<1>1. PICK s \in Stream : s = p.s
  BY Arrival
<1>2. PICK q \in 1 .. sent[s] : q = p.seqno
  BY <1>1, Arrival DEF Receive_DATA
<1>3. /\ sent[s] \in 0 .. (Top - 1) /\ cs[s].state # "NONE"
      /\ m_strcs' \in Seq(Stream) /\ delivered[s] \in Seq(Seqno)
  BY <1>1, MasterTypes DEF Receive_DATA
<1>4. PICK c : c = Noted(p)
  OBVIOUS
<1>5. /\ c \in Connection /\ q <= c.lastRecv
      /\ Sound(s, c, DeliveredSet(s), givenUp[s], {q})
      /\ c.state = "FINISHED" => c.missing = {}
      /\ c.state # "NONE"
  BY <1>1, <1>2, <1>3, <1>4, DataNoted DEF Receive_DATA
<1>6. PICK n \in Seqno :
        /\ DispatchEndsAt(c, q, n)
        /\ \E out \in InOrder(Ready(c, q, n)) :
             delivered' = [delivered EXCEPT ![s] = @ \o out]
        /\ \/ AnswerGap(p, Dispatched(c, q, n), Skipped(c, q, n))
           \/ AnswerNoGap(p, Dispatched(c, q, n), Skipped(c, q, n))
  BY <1>1, <1>2, <1>4 DEF Receive_DATA
<1>7. PICK out \in InOrder(Ready(c, q, n)) :
        delivered' = [delivered EXCEPT ![s] = delivered[s] \o out]
  BY <1>6
<1>8. PICK d, R, K : d = Dispatched(c, q, n) /\ R = Ready(c, q, n) /\ K = Skipped(c, q, n)
  OBVIOUS
<1>9. DeliveredSet(s) \in SUBSET Nat
  <2>1. \A i \in DOMAIN delivered[s] : delivered[s][i] \in Seqno
    BY <1>3, ElementOfSeq, LenProperties
  <2> QED BY <2>1 DEF DeliveredSet, Seqno, TrFirstSeqno
<1>10. /\ d \in Connection /\ K \in SUBSET Seqno
       /\ Sound(s, d, DeliveredSet(s) \cup R, givenUp[s] \cup K, {})
       /\ \A x \in R : x \in Seqno /\ c.nextExpected <= x /\ x <= sent[s]
       /\ d.state = c.state /\ d.missing = c.missing
  <2>0. PICK D \in SUBSET Nat : D = DeliveredSet(s)
    BY <1>9
  <2>1. PICK G : G = givenUp[s]
    OBVIOUS
  <2>2. Sound(s, c, D, G, {q}) /\ c \in Connection /\ q <= c.lastRecv
    BY <1>5, <2>0, <2>1
  <2>3. DispatchEndsAt(c, q, n) /\ sent[s] \in 0 .. (Top - 1)
    BY <1>3, <1>6
  <2>4. /\ Dispatched(c, q, n) \in Connection
        /\ Sound(s, Dispatched(c, q, n), D \cup Ready(c, q, n), G \cup Skipped(c, q, n), {})
        /\ \A x \in Ready(c, q, n) : x \in Seqno /\ c.nextExpected <= x /\ x <= sent[s]
        /\ Skipped(c, q, n) \subseteq Seqno
        /\ Dispatched(c, q, n).state = c.state
        /\ Dispatched(c, q, n).missing = c.missing
    BY ONLY s \in Stream, q \in 1 .. sent[s], n \in Seqno, <2>2, <2>3, DispatchSound
  <2> QED BY <1>8, <2>0, <2>1, <2>4
<1>11. AnswerInv(s, d, DeliveredSet(s) \cup R, givenUp[s] \cup K)
  BY <1>1, <1>5, <1>6, <1>8, <1>10, GapAnswered, NoGapAnswered
<1>12. PICK e \in Seq(Seqno) :
         /\ delivered' = [delivered EXCEPT ![s] = e]
         /\ \A i, j \in DOMAIN e : i < j => e[i] < e[j]
         /\ {e[i] : i \in DOMAIN e} = DeliveredSet(s) \cup R
         /\ \A i \in DOMAIN e : e[i] <= sent[s]
  <2>1. PICK l \in Seq(Seqno), m \in Nat : l = delivered[s] /\ m = c.nextExpected
    BY <1>3, <1>5, ConnTypes
  <2>2. /\ \A i, j \in DOMAIN l : i < j => l[i] < l[j]
        /\ \A i \in DOMAIN l : l[i] <= sent[s]
    BY <2>1 DEF IndInv, InOrderNoDuplicate, DeliveredSet
  <2>3. \A i \in DOMAIN l : l[i] < m
    BY <1>5, <2>1 DEF Sound, DeliveredSet
  <2>4. \A x \in R : x \in Seqno /\ m <= x /\ x <= Top
    <3>1. sent[s] <= Top /\ R \subseteq Nat
      BY <1>3, <1>10, SmallUnwrapped DEF Seqno, TrFirstSeqno
    <3>2. PICK z : z = sent[s]
      OBVIOUS
    <3>3. z \in Nat /\ z <= Top
      BY <1>3, <3>1, <3>2, SmallUnwrapped
    <3>4. \A x \in R : x \in Nat /\ x <= z
      BY <1>10, <3>1, <3>2
    <3>5. \A x \in R : x <= Top
      BY ONLY <3>3, <3>4, SmallUnwrapped
    <3> QED BY <1>10, <2>1, <3>5
  <2>5. out \in InOrder(R)
    BY <1>8
  <2>6. Follows(l, R, l \o out)
    <3>1. MayFollow(l, m, R)
      BY ONLY <2>2, <2>3, <2>4 DEF MayFollow
    <3> QED BY ONLY l \in Seq(Seqno), m \in Nat, <2>5, <3>1, Delivery, Zenon
  <2>7. PICK e : e = l \o out
    OBVIOUS
  <2>8. {e[i] : i \in DOMAIN e} = DeliveredSet(s) \cup R
    <3>1. {e[i] : i \in DOMAIN e} = {l[i] : i \in DOMAIN l} \cup R
      BY ONLY <2>6, <2>7 DEF Follows
    <3>2. DeliveredSet(s) = {l[i] : i \in DOMAIN l}
      BY <2>1 DEF DeliveredSet
    <3> QED BY ONLY <3>1, <3>2
  <2>9. \A i \in DOMAIN e : e[i] <= sent[s]
    BY <1>10, <2>1, <2>2, <2>8 DEF DeliveredSet
  <2>10. e \in Seq(Seqno) /\ \A i, j \in DOMAIN e : i < j => e[i] < e[j]
    BY ONLY <2>6, <2>7 DEF Follows
  <2> QED BY <1>7, <2>1, <2>7, <2>8, <2>9, <2>10, ZenonT(30)
<1>13. PICK k \in Connection, H \in SUBSET Seqno :
         /\ cs' = [cs EXCEPT ![s] = k] /\ givenUp' = [givenUp EXCEPT ![s] = H]
         /\ k.state # "NONE" /\ (k.state = "FINISHED" => k.missing = {})
         /\ Sound(s, k, DeliveredSet(s) \cup R, H, {})
  BY <1>11 DEF AnswerInv
<1>14. PICK r \in Packet : net' \subseteq net \cup {r} /\ r.flag \in MoteFlag
  BY <1>11 DEF AnswerInv
<1>15. tids' \in [Tid -> {"task", "close", "acked", "removed"}]
  BY <1>11 DEF AnswerInv
<1>16. Sound(s, k, {e[i] : i \in DOMAIN e}, H, {})
  BY <1>12, <1>13
<1> QED BY <1>3, <1>12, <1>13, <1>14, <1>15, <1>16, MasterStepInv

-----------------------------------------------------------------------------
(* Timers and requests of the clients.                                     *)

LEMMA UnlinkedType ==
  ASSUME Unlinked
  PROVE  m_strcs' \in Seq(Stream)
<1>1. PICK S : S = {s \in Stream : cs'[s].state # "NONE"}
  OBVIOUS
<1>2. Cardinality(S) \in Nat
  BY <1>1, StrNetAssumption, FS_Subset, FS_CardinalityType
<1>3. m_strcs' \in [1 .. Cardinality(S) -> S]
  BY <1>1 DEF Unlinked, Sublist
<1>4. m_strcs' \in [1 .. Cardinality(S) -> Stream]
  BY <1>1, <1>3
<1> QED BY <1>2, <1>4, IsASeq

LEMMA NoConnectionType == NoConnection \in Connection
BY StrMasterAssumption, TrSeqnoAssumption
   DEF NoConnection, Connection, Connected, Seqno, Seqno0, TrFirstSeqno

(* Steps that delete connections, or only touch what ConnInv does not ask  *)
(* about.                                                                  *)
LEMMA MasterDeletes ==
  ASSUME IndInv, UNCHANGED <<senderVars, delivered, givenUp>>, Unlinked,
         cs' \in [Stream -> Connection],
         tids' \in [Tid -> {"task", "close", "acked", "removed"}],
         \A r \in Stream :
           \/ cs'[r] = NoConnection
           \/ cs'[r] = cs[r]
           \/ cs[r].state # "NONE" /\ cs'[r] = [cs[r] EXCEPT !.deletePending = TRUE],
         net' \subseteq net,
         \A p \in net' : p.flag = "SYN" /\ cs'[p.s].state = "NONE" => cs[p.s].state = "NONE"
  PROVE  IndInv'
<1>1. EndsTypeOK'
  BY UnlinkedType DEF IndInv, EndsTypeOK, MasterTypeOK, SenderTypeOK, senderVars
<1>2. InOrderNoDuplicate' /\ \A s \in Stream : SenderInv(s)'
  BY DEF IndInv, InOrderNoDuplicate, DeliveredSet, SenderInv, Open, senderVars
<1>3. \A p \in net' : NetInv(p)'
  BY DEF IndInv, NetInv, Done, senderVars
<1>4. ASSUME NEW r \in Stream, cs'[r].state # "NONE"
      PROVE  ConnInv(r)'
  <2>1. /\ cs'[r].state = cs[r].state /\ cs'[r].missing = cs[r].missing
        /\ cs'[r].plist = cs[r].plist /\ cs'[r].lastRecv = cs[r].lastRecv
        /\ cs'[r].nextExpected = cs[r].nextExpected
    <3>1. cs'[r] # NoConnection
      BY <1>4 DEF NoConnection
    <3> QED BY <3>1, MasterTypes, ZenonT(30) DEF Connection
  <2>2. ConnInv(r)
    BY <1>4, <2>1 DEF IndInv
  <2> QED BY <2>1, <2>2 DEF ConnInv, Accounted, DeliveredSet, Done, senderVars
<1> QED BY <1>1, <1>2, <1>3, <1>4 DEF IndInv

LEMMA MasterDelete ==
  ASSUME IndInv, UNCHANGED senderVars, NEW s \in Stream, Delete(s)
  PROVE  IndInv'
<1>1. /\ cs' \in [Stream -> Connection]
      /\ \A r \in Stream : cs'[r] = IF r = s THEN NoConnection ELSE cs[r]
  BY MasterTypes, NoConnectionType DEF Delete
<1>2. ASSUME NEW p \in net', p.flag = "SYN", cs'[p.s].state = "NONE"
      PROVE  cs[p.s].state = "NONE"
  <2>1. p \in net /\ p.s # s
    BY <1>2 DEF Delete, WithoutSyn
  <2> QED BY <1>1, <1>2, <2>1, Arrival
<1>3. tids' \in [Tid -> {"task", "close", "acked", "removed"}] /\ net' \subseteq net
  BY MasterTypes DEF Delete, WithoutSyn
<1> QED BY <1>1, <1>2, <1>3, MasterDeletes DEF Delete

LEMMA MasterClose ==
  ASSUME IndInv, UNCHANGED senderVars, NEW t \in Tid, ClientClose(t) \/ ClientGone(t)
  PROVE  IndInv'
<1>1. DeleteTid(t) /\ UNCHANGED <<delivered, givenUp>>
  BY DEF ClientClose, ClientGone
<1>2. ASSUME NEW r \in Stream
      PROVE  /\ cs'[r] \in Connection
             /\ \/ cs'[r] = NoConnection
                \/ cs'[r] = cs[r]
                \/ cs[r].state # "NONE" /\ cs'[r] = [cs[r] EXCEPT !.deletePending = TRUE]
  <2>1. cs[r] \in Connection
    BY MasterTypes
  <2>2. [cs[r] EXCEPT !.deletePending = TRUE] \in Connection
    BY <2>1 DEF Connection
  <2> QED BY <1>1, <2>1, <2>2, NoConnectionType DEF DeleteTid
<1>3. cs' \in [Stream -> Connection]
  BY <1>1, <1>2 DEF DeleteTid
<1>4. ASSUME NEW p \in net', p.flag = "SYN", cs'[p.s].state = "NONE"
      PROVE  cs[p.s].state = "NONE"
  <2>1. PICK r \in Stream : r = p.s /\ p \in net
    BY <1>1, Arrival DEF DeleteTid, WithoutSyn
  <2>2. ~(TidOf[r] = t /\ cs[r].state = "FINISHED")
    BY <1>1, <1>4, <2>1 DEF DeleteTid, WithoutSyn
  <2>3. cs[r].state # "NONE" => [cs[r] EXCEPT !.deletePending = TRUE].state # "NONE"
    BY MasterTypes DEF Connection
  <2> QED BY <1>1, <1>4, <2>1, <2>2, <2>3 DEF DeleteTid
<1>5. tids' \in [Tid -> {"task", "close", "acked", "removed"}] /\ net' \subseteq net
  BY <1>1 DEF ClientClose, ClientGone, DeleteTid, WithoutSyn, IndInv, EndsTypeOK, MasterTypeOK
<1> QED BY <1>1, <1>2, <1>3, <1>4, <1>5, MasterDeletes DEF DeleteTid

LEMMA MasterExpire ==
  ASSUME IndInv, UNCHANGED senderVars, NEW s \in Stream, Expire(s)
  PROVE  IndInv'
<1>1. PICK k : k = [cs[s] EXCEPT !.alarm = "due"]
  OBVIOUS
<1>2. /\ k \in Connection /\ k.state = cs[s].state /\ k.missing = cs[s].missing
      /\ k.plist = cs[s].plist /\ k.lastRecv = cs[s].lastRecv
      /\ k.nextExpected = cs[s].nextExpected
  BY <1>1, MasterTypes DEF Connection
<1>3. \A r \in Stream : cs'[r] = IF r = s THEN k ELSE cs[r]
  BY <1>1, MasterTypes DEF Expire
<1>4. EndsTypeOK'
  BY <1>1, <1>2, MasterTypes
     DEF Expire, IndInv, EndsTypeOK, MasterTypeOK, SenderTypeOK, senderVars
<1>5. InOrderNoDuplicate' /\ \A r \in Stream : SenderInv(r)'
  BY DEF IndInv, InOrderNoDuplicate, DeliveredSet, SenderInv, Open, senderVars, Expire
<1>6. \A p \in net' : NetInv(p)'
  <2>1. \A r \in Stream : cs'[r].state = cs[r].state
    BY <1>2, <1>3
  <2> QED BY <2>1, Arrival DEF NetInv, Done, senderVars, Expire
<1>7. ASSUME NEW r \in Stream, cs'[r].state # "NONE"
      PROVE  ConnInv(r)'
  <2>1. /\ cs'[r].state = cs[r].state /\ cs'[r].missing = cs[r].missing
        /\ cs'[r].plist = cs[r].plist /\ cs'[r].lastRecv = cs[r].lastRecv
        /\ cs'[r].nextExpected = cs[r].nextExpected
    BY <1>2, <1>3
  <2>2. ConnInv(r)
    BY <1>7, <2>1 DEF IndInv
  <2> QED BY <2>1, <2>2 DEF ConnInv, Accounted, DeliveredSet, Done, senderVars, Expire
<1> QED BY <1>4, <1>5, <1>6, <1>7 DEF IndInv

LEMMA MasterNackTimer ==
  ASSUME IndInv, UNCHANGED senderVars, NEW s \in Stream, Fired_NACK_WAIT(s)
  PROVE  IndInv'
<1>1. CASE Delete(s)
  BY <1>1, MasterDelete
<1>2. CASE ~Delete(s)
  <2>1. PICK c : c = [cs[s] EXCEPT !.timeoutCount = @ + 1]
    OBVIOUS
  <2>2. c.timeoutCount < MaxTimeoutCount /\ c.state \in {"NACK_WAIT", "FIN_NACK_WAIT"}
    BY <1>2, <2>1 DEF Fired_NACK_WAIT
  <2>3. /\ c \in Connection /\ c.state = cs[s].state /\ c.missing = cs[s].missing
        /\ c.plist = cs[s].plist /\ c.lastRecv = cs[s].lastRecv
        /\ c.nextExpected = cs[s].nextExpected
    <3>1. cs[s] \in Connection /\ cs[s].timeoutCount \in Nat /\ MaxTimeoutCount \in Nat
      BY MasterTypes, StrMasterAssumption DEF Connection
    <3>2. c.timeoutCount = cs[s].timeoutCount + 1
      BY <2>1, <3>1 DEF Connection
    <3>3. cs[s].timeoutCount + 1 \in 0 .. MaxTimeoutCount
      BY <2>2, <3>1, <3>2
    <3> QED BY <2>1, <3>1, <3>3 DEF Connection
  <2>4. Sound(s, c, DeliveredSet(s), givenUp[s], {})
    BY <2>2, <2>3, IsSound DEF Sound
  <2>5. UNCHANGED <<m_strcs, delivered>> /\ m_strcs' \in Seq(Stream)
    BY <1>2, MasterTypes DEF Fired_NACK_WAIT
  <2>6. givenUp[s] \in SUBSET Seqno /\ givenUp = [givenUp EXCEPT ![s] = givenUp[s]]
        /\ tids \in [Tid -> {"task", "close", "acked", "removed"}]
    BY MasterTypes
  <2>7. CASE /\ cs' = [cs EXCEPT ![s] = AfterNack(c)]
             /\ net' = Sending(net, NackOf(s, c))
             /\ givenUp' = [givenUp EXCEPT ![s] = @ \cup TooOld(c)]
             /\ UNCHANGED tids
    <3>0. PICK k, G : k = AfterNack(c) /\ G = givenUp[s] \cup TooOld(c)
      OBVIOUS
    <3>1. /\ k \in Connection /\ G \in SUBSET Seqno
          /\ k = AfterNack(c) /\ G = givenUp[s] \cup TooOld(c)
          /\ Sound(s, k, DeliveredSet(s), G, {}) /\ k.state = c.state
      BY <2>3, <2>4, <2>6, <3>0, NackSound
    <3>2. PICK q \in Packet : q = NackOf(s, c) /\ q.flag \in MoteFlag
      BY <2>3, <2>4, NackSound DEF NackOf, Nack, MoteFlag
    <3>3. net' \subseteq net \cup {q}
      BY <2>7, <3>2, ChannelOnlyLoses
    <3> QED BY <2>2, <2>5, <2>6, <2>7, <3>1, <3>2, <3>3, MasterQuietInv
  <2>8. CASE /\ cs' = [cs EXCEPT ![s] = STR_Timer_start([c EXCEPT !.state = "PASSIVE"])]
             /\ UNCHANGED <<net, tids, givenUp>>
    <3>1. PICK e : e = [c EXCEPT !.state = "PASSIVE"]
      OBVIOUS
    <3>2. e \in Connection /\ e.state = "PASSIVE" /\ Sound(s, e, DeliveredSet(s), givenUp[s], {})
      <4>1. "PASSIVE" \in Connected
        BY DEF Connected
      <4> QED BY <2>3, <2>4, <3>1, <4>1, Moves
    <3>3. PICK k \in Connection : /\ k = STR_Timer_start(e) /\ k.state = "PASSIVE"
                                 /\ Sound(s, k, DeliveredSet(s), givenUp[s], {})
      BY <3>2, TimerStart
    <3>4. Pkt(s, "FIN_ACK", 0) \in Packet
      BY SmallUnwrapped, FinAckType
    <3> QED BY <2>5, <2>6, <2>8, <3>1, <3>3, <3>4, MasterQuietInv
  <2>9. CASE /\ c.missing = {} /\ c.state = "FIN_NACK_WAIT"
             /\ cs' = [cs EXCEPT ![s] = STR_Timer_start([c EXCEPT !.state = "FINISHED"])]
             /\ net' = Sending(net, Pkt(s, "FIN_ACK", c.lastRecv))
             /\ DeleteDone(cs', s)
             /\ UNCHANGED givenUp
    <3>1. PICK e : e = [c EXCEPT !.state = "FINISHED"]
      OBVIOUS
    <3>2. /\ e \in Connection /\ e.state = "FINISHED" /\ e.missing = {}
          /\ Sound(s, e, DeliveredSet(s), givenUp[s], {})
      <4>1. "FINISHED" \in Connected /\ c.lastRecv > sent[s]
        BY <2>4, <2>9 DEF Connected, Sound
      <4> QED BY <2>3, <2>4, <2>9, <3>1, <4>1, Moves
    <3>3. PICK k \in Connection : /\ k = STR_Timer_start(e)
                                 /\ k.state = "FINISHED" /\ k.missing = {}
                                 /\ Sound(s, k, DeliveredSet(s), givenUp[s], {})
      BY <3>2, TimerStart
    <3>4. PICK q \in Packet : q = Pkt(s, "FIN_ACK", c.lastRecv) /\ q.flag \in MoteFlag
      <4>1. c.lastRecv \in Seqno0
        BY <2>3 DEF Connection
      <4> QED BY <4>1, FinAckType
    <3>5. net' \subseteq net \cup {q} /\ tids' \in [Tid -> {"task", "close", "acked", "removed"}]
      BY <2>9, <3>4, ChannelOnlyLoses, DeleteDoneType
    <3> QED BY <2>5, <2>6, <2>9, <3>1, <3>3, <3>4, <3>5, MasterQuietInv
  <2> QED BY <1>2, <2>1, <2>7, <2>8, <2>9 DEF Fired_NACK_WAIT
<1> QED BY <1>1, <1>2

LEMMA NothingHappens ==
  ASSUME IndInv, UNCHANGED <<streamVars, senderVars>>, net' \subseteq net
  PROVE  IndInv'
<1>1. EndsTypeOK' /\ InOrderNoDuplicate'
  BY DEF IndInv, EndsTypeOK, MasterTypeOK, SenderTypeOK, InOrderNoDuplicate, DeliveredSet,
         streamVars, senderVars
<1>2. \A s \in Stream : SenderInv(s)' /\ (cs'[s].state # "NONE" => ConnInv(s)')
  BY DEF IndInv, SenderInv, ConnInv, Accounted, DeliveredSet, Open, Done,
         streamVars, senderVars
<1>3. \A p \in net' : NetInv(p)'
  BY DEF IndInv, NetInv, Done, streamVars, senderVars
<1> QED BY <1>1, <1>2, <1>3 DEF IndInv

LEMMA MasterInvariant ==
  ASSUME IndInv, MasterNext, UNCHANGED senderVars
  PROVE  IndInv'
<1>1. ASSUME NEW p \in net, Receive(p)
      PROVE  IndInv'
  BY <1>1, MasterSYN, MasterUnknown, MasterFIN, MasterDATA DEF Receive
<1>2. ASSUME NEW s \in Stream, STR_Timer_fired(s)
      PROVE  IndInv'
  BY <1>2, MasterDelete, MasterNackTimer, NothingHappens
     DEF STR_Timer_fired, Fired_FINISHED, Fired_PASSIVE, masterVars, streamVars
<1>3. ASSUME NEW t \in Tid, OtherOpens(t) \/ OtherEnds(t)
      PROVE  IndInv'
  BY <1>3, NothingHappens DEF OtherOpens, OtherEnds
<1> QED BY <1>1, <1>2, <1>3, MasterExpire, MasterClose DEF MasterNext, StreamNext, Poll

-----------------------------------------------------------------------------
(* The theorems.                                                           *)

LEMMA NextInv == IndInv /\ [Next]_vars => IndInv'
<1> SUFFICES ASSUME IndInv, [Next]_vars PROVE IndInv'
  OBVIOUS
<1>1. CASE MasterNext /\ UNCHANGED senderVars
  BY <1>1, MasterInvariant
<1>2. CASE SenderNext /\ UNCHANGED masterVars
  BY <1>2, SenderInvariant
<1>3. CASE \E p \in net : Lose(p) /\ UNCHANGED <<masterVars, senderVars>>
  BY <1>3, NothingHappens DEF Lose, masterVars, streamVars
<1>4. CASE UNCHANGED vars
  BY <1>4, NothingHappens DEF vars, streamVars, senderVars
<1> QED BY <1>1, <1>2, <1>3, <1>4 DEF Next

(* The inductive invariant: what the mote's state, the packets in flight   *)
(* and the master's connection say of each other, in every reachable       *)
(* state.                                                                  *)
THEOREM Invariant == Spec => []IndInv
<1>1. Init => IndInv
  BY InitInv
<1>2. IndInv /\ [Next]_vars => IndInv'
  BY NextInv
<1> QED BY <1>1, <1>2, PTL DEF Spec

LEMMA OthersTyped == OthersTypeOK /\ [Next]_vars => OthersTypeOK'
<1> SUFFICES ASSUME OthersTypeOK, [Next]_vars PROVE OthersTypeOK'
  OBVIOUS
<1>1. CASE UNCHANGED others
  BY <1>1 DEF OthersTypeOK
<1>2. CASE \E t \in Tid : \E o \in SUBSET OtherTransports : others' = [others EXCEPT ![t] = o]
  BY <1>2 DEF OthersTypeOK
<1>3. ASSUME NEW t \in Tid, DeleteTid(t) \/ OtherOpens(t) \/ OtherEnds(t)
      PROVE  \E o \in SUBSET OtherTransports : others' = [others EXCEPT ![t] = o]
  <2>1. others[t] \in SUBSET OtherTransports
    BY DEF OthersTypeOK
  <2>2. CASE DeleteTid(t)
    <3>1. PICK o \in SUBSET (others[t] \ {"packet"}) : others' = [others EXCEPT ![t] = o]
      BY <2>2 DEF DeleteTid
    <3> QED BY <2>1, <3>1
  <2>3. CASE OtherOpens(t)
    <3>1. PICK k \in OtherTransports : others' = [others EXCEPT ![t] = others[t] \cup {k}]
      BY <2>3 DEF OtherOpens
    <3>2. others[t] \cup {k} \in SUBSET OtherTransports
      BY <2>1
    <3> QED BY <3>1, <3>2
  <2>4. CASE OtherEnds(t)
    <3>1. others' = [others EXCEPT ![t] = others[t] \ {"rcrt"}]
      BY <2>4 DEF OtherEnds
    <3>2. others[t] \ {"rcrt"} \in SUBSET OtherTransports
      BY <2>1
    <3> QED BY <3>1, <3>2
  <2> QED BY <1>3, <2>2, <2>3, <2>4
<1>4. CASE MasterNext
  BY <1>1, <1>2, <1>3, <1>4 DEF MasterNext, StreamNext, ClientClose, ClientGone
<1> QED BY <1>1, <1>4 DEF Next, vars, masterVars

(* Every variable keeps its type: in particular no number, counter or list *)
(* leaves its range.                                                       *)
THEOREM TypeCorrect == Spec => []TypeOK
<1>1. Init => OthersTypeOK
  BY DEF Init, MasterInit, OthersTypeOK
<1>2. IndInv /\ OthersTypeOK => TypeOK
  BY DEF IndInv, TypeOK
<1> QED BY <1>1, <1>2, OthersTyped, Invariant, PTL DEF Spec

(* receive_str_msg delivers each packet at most once and in the order the  *)
(* mote sent them, whatever the channel loses, duplicates and reorders.    *)
THEOREM DeliversInOrder == Spec => []InOrderNoDuplicate
<1>1. IndInv => InOrderNoDuplicate
  BY DEF IndInv
<1> QED BY <1>1, Invariant, PTL

(* receive_str_msg passes over a number only once it was given up.         *)
THEOREM LeavesNoSilentGap == Spec => []NoSilentGap
<1>1. IndInv => NoSilentGap
  BY DEF IndInv, NoSilentGap, ConnInv
<1> QED BY <1>1, Invariant, PTL

(* detectMissingPacket and receive_str_msg between them lose track of no   *)
(* number.                                                                 *)
THEOREM ForgetsNothing == Spec => []NoneForgotten
<1>1. IndInv => NoneForgotten
  BY DEF IndInv, NoneForgotten, ConnInv, Accounted
<1> QED BY <1>1, Invariant, PTL

(* The reason a finished connection is complete: nothing is missing, so    *)
(* the next expected number is the first that was never sent.              *)
LEMMA Complete == IndInv => FinishedIsComplete
<1>1. ASSUME IndInv, NEW s \in Stream, cs[s].state = "FINISHED", givenUp[s] = {}
      PROVE  DeliveredSet(s) = 1 .. sent[s] /\ cs[s].plist = {}
  <2> USE <1>1
  <2>1. sent[s] \in Nat /\ cs[s] \in Connection /\ cs[s].missing = {}
        /\ Sound(s, cs[s], DeliveredSet(s), {}, {})
    <3>1. Sound(s, cs[s], DeliveredSet(s), givenUp[s], {}) /\ cs[s].missing = {}
      BY IsSound
    <3>2. sent[s] \in Nat /\ cs[s] \in Connection
      BY MasterTypes
    <3> QED BY <3>1, <3>2
  <2>2. cs[s].lastRecv > sent[s] /\ cs[s].lastRecv \in Nat /\ cs[s].nextExpected \in Nat \ {0}
    BY <2>1, ConnTypes DEF Sound
  <2>3. \A x \in 1 .. sent[s] : x \in DeliveredSet(s) \cup cs[s].plist
    BY <2>1, <2>2 DEF Sound
  <2>4. ASSUME NEW x \in cs[s].plist PROVE FALSE
    <3>1. cs[s].nextExpected < x /\ x <= sent[s] /\ x \in Nat
      BY <2>1, ConnTypes DEF Sound
    <3>2. cs[s].nextExpected \in DeliveredSet(s) \cup cs[s].plist
      BY <2>1, <2>2, <2>3, <3>1
    <3> QED BY <2>1, <2>2, <3>2 DEF Sound
  <2>5. \A x \in DeliveredSet(s) : x \in 1 .. sent[s]
    <3> SUFFICES ASSUME NEW i \in DOMAIN delivered[s]
                 PROVE  delivered[s][i] \in 1 .. sent[s]
      BY DEF DeliveredSet
    <3>1. delivered[s][i] \in Seqno
      BY MasterTypes, ElementOfSeq, LenProperties
    <3>2. delivered[s][i] <= sent[s]
      BY DEF IndInv, InOrderNoDuplicate, DeliveredSet
    <3> QED BY <2>1, <3>1, <3>2 DEF Seqno, TrFirstSeqno
  <2> QED BY <2>3, <2>4, <2>5
<1> QED BY <1>1 DEF FinishedIsComplete

(* A connection that goes to FINISHED has delivered all the mote ever sent *)
(* on the stream, unless a packet was given up.                            *)
THEOREM FinishesComplete == Spec => []FinishedIsComplete
BY Complete, Invariant, PTL
=============================================================================
