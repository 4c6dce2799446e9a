----------------------- MODULE PacketTransport_proofs -----------------------
(***************************************************************************)
(* Proof that what either end of the packet transport is told of its       *)
(* packets is so: for any set of tids, any numbers of connections,         *)
(* retransmissions and packets in flight.                                  *)
(***************************************************************************)
EXTENDS PacketTransport, SequenceTheorems, TLAPS

(* A packet sent is at most added to those in flight.                      *)
LEMMA PutAdds ==
  ASSUME NEW a, NEW m
  PROVE  Put(a, m) \subseteq a \cup {m}
BY DEF Put

(* A packet received may stay in flight, and no other appears.             *)
LEMMA TakingAddsNone ==
  ASSUME NEW m, NEW a \in AfterTaking(m)
  PROVE  a \subseteq air
BY DEF AfterTaking

LEMMA MsgType ==
  ASSUME NEW to \in {"mote", "master"}, NEW flag \in PtrFlag, NEW t \in Tid,
         NEW n \in Nat \ {0}, NEW body \in Content
  PROVE  Msg(to, flag, t, n, body) \in Message
BY DEF Msg, Message

-----------------------------------------------------------------------------
(* The connection list of the master.                                      *)

LEMMA Linking ==
  ASSUME m_ptrcs \in Seq(Tid), NEW t \in Tid, m_ptrcs' = WithConnection(t)
  PROVE  /\ m_ptrcs' \in Seq(Tid) /\ Linked(t)'
         /\ \A u \in Tid : Linked(u) => Linked(u)'
<1>1. CASE Linked(t)
  BY <1>1 DEF WithConnection, Linked
<1>2. CASE ~Linked(t)
  <2>1. m_ptrcs' = <<t>> \o m_ptrcs /\ <<t>> \in Seq(Tid)
    BY <1>2 DEF WithConnection
  <2>2. /\ m_ptrcs' \in Seq(Tid) /\ Len(m_ptrcs') = 1 + Len(m_ptrcs)
        /\ m_ptrcs'[1] = t
        /\ \A i \in 1 .. Len(m_ptrcs) : m_ptrcs'[i + 1] = m_ptrcs[i]
    BY <2>1, ConcatProperties
  <2>3. /\ DOMAIN m_ptrcs = 1 .. Len(m_ptrcs) /\ Len(m_ptrcs) \in Nat
        /\ DOMAIN m_ptrcs' = 1 .. (1 + Len(m_ptrcs))
    BY <2>2, LenProperties
  <2>4. \A i \in DOMAIN m_ptrcs : i + 1 \in DOMAIN m_ptrcs'
    BY <2>3
  <2> QED BY <2>2, <2>3, <2>4 DEF Linked
<1> QED BY <1>1, <1>2

(* RemoveAt closes the gap.                                                *)
LEMMA Removing ==
  ASSUME NEW S, NEW s \in Seq(S), NEW i \in 1 .. Len(s)
  PROVE  /\ RemoveAt(s, i) \in Seq(S) /\ Len(RemoveAt(s, i)) = Len(s) - 1
         /\ \A k \in 1 .. (Len(s) - 1) :
              RemoveAt(s, i)[k] = IF k < i THEN s[k] ELSE s[k + 1]
<1>1. PICK n \in Nat : n = Len(s) /\ \A k \in 1 .. n : s[k] \in S
  BY LenProperties, ElementOfSeq
<1>2. PICK front : front = SubSeq(s, 1, i - 1)
  OBVIOUS
<1>3. PICK back : back = SubSeq(s, i + 1, n)
  OBVIOUS
<1>4. /\ front \in Seq(S) /\ Len(front) = i - 1
      /\ \A k \in 1 .. (i - 1) : front[k] = s[k]
  <2>1. 1 \in Int /\ i - 1 \in Int /\ \A k \in 1 .. (i - 1) : s[k] \in S
    BY <1>1
  <2>2. /\ SubSeq(s, 1, i - 1) \in Seq(S)
        /\ Len(SubSeq(s, 1, i - 1)) = IF 1 <= i - 1 THEN (i - 1) - 1 + 1 ELSE 0
        /\ \A k \in 1 .. ((i - 1) - 1 + 1) : SubSeq(s, 1, i - 1)[k] = s[1 + k - 1]
    BY <2>1, SubSeqProperties
  <2> QED BY <1>1, <1>2, <2>2
<1>5. /\ back \in Seq(S) /\ Len(back) = n - i
      /\ \A k \in 1 .. (n - i) : back[k] = s[i + k]
  <2>1. i + 1 \in Int /\ n \in Int /\ \A k \in (i + 1) .. n : s[k] \in S
    BY <1>1
  <2>2. /\ SubSeq(s, i + 1, n) \in Seq(S)
        /\ Len(SubSeq(s, i + 1, n)) = IF i + 1 <= n THEN n - (i + 1) + 1 ELSE 0
        /\ \A k \in 1 .. (n - (i + 1) + 1) : SubSeq(s, i + 1, n)[k] = s[(i + 1) + k - 1]
    BY <2>1, SubSeqProperties
  <2>3. \A k \in 1 .. (n - i) : k \in 1 .. (n - (i + 1) + 1) /\ (i + 1) + k - 1 = i + k
    BY <1>1
  <2> QED BY <1>1, <1>3, <2>2, <2>3, SMTT(30)
<1>6. RemoveAt(s, i) = front \o back
  BY <1>1, <1>2, <1>3 DEF RemoveAt
<1>7. /\ front \o back \in Seq(S) /\ Len(front \o back) = (i - 1) + (n - i)
      /\ \A k \in 1 .. ((i - 1) + (n - i)) :
           (front \o back)[k] = IF k <= i - 1 THEN front[k] ELSE back[k - (i - 1)]
  <2>1. /\ front \o back \in Seq(S) /\ Len(front \o back) = Len(front) + Len(back)
        /\ \A k \in 1 .. Len(front) + Len(back) :
             (front \o back)[k] = IF k <= Len(front) THEN front[k] ELSE back[k - Len(front)]
    BY <1>4, <1>5, ConcatProperties
  <2> QED BY <1>4, <1>5, <2>1
<1>8. ASSUME NEW k \in 1 .. (n - 1)
      PROVE  (front \o back)[k] = IF k < i THEN s[k] ELSE s[k + 1]
  <2>1. CASE k < i
    BY <1>1, <1>4, <1>7, <2>1
  <2>2. CASE ~(k < i)
    <3>1. k - (i - 1) \in 1 .. (n - i) /\ i + (k - (i - 1)) = k + 1
      BY <1>1, <2>2
    <3> QED BY <1>1, <1>5, <1>7, <2>2, <3>1
  <2> QED BY <2>1, <2>2
<1> QED BY <1>1, <1>6, <1>7, <1>8

LEMMA Unlinking ==
  ASSUME m_ptrcs \in Seq(Tid), NEW t \in Tid, Unlink(t)
  PROVE  /\ m_ptrcs' \in Seq(Tid)
         /\ \A u \in Tid \ {t} : Linked(u) => Linked(u)'
<1>1. CASE UNCHANGED m_ptrcs
  BY <1>1 DEF Linked
<1>2. CASE ~UNCHANGED m_ptrcs
  <2>1. PICK i \in DOMAIN m_ptrcs : m_ptrcs[i] = t /\ m_ptrcs' = RemoveAt(m_ptrcs, i)
    BY <1>2 DEF Unlink
  <2>2. PICK n \in Nat : n = Len(m_ptrcs) /\ i \in 1 .. n /\ DOMAIN m_ptrcs = 1 .. n
    BY <2>1, LenProperties
  <2>5. /\ m_ptrcs' \in Seq(Tid) /\ Len(m_ptrcs') = n - 1
        /\ \A k \in 1 .. (n - 1) :
             m_ptrcs'[k] = IF k < i THEN m_ptrcs[k] ELSE m_ptrcs[k + 1]
    BY <2>1, <2>2, Removing
  <2>6. DOMAIN m_ptrcs' = 1 .. (n - 1)
    BY <2>5, LenProperties
  <2>7. ASSUME NEW u \in Tid \ {t}, NEW k \in 1 .. n, m_ptrcs[k] = u
        PROVE  \E j \in 1 .. (n - 1) : m_ptrcs'[j] = u
    <3>1. CASE k < i
      BY <2>2, <2>5, <2>7, <3>1
    <3>2. CASE k > i
      <4>1. k - 1 \in 1 .. (n - 1) /\ ~(k - 1 < i) /\ (k - 1) + 1 = k
        BY <2>2, <3>2
      <4> QED BY <2>5, <2>7, <4>1
    <3>3. k # i
      BY <2>1, <2>7
    <3> QED BY <2>2, <3>1, <3>2, <3>3
  <2> QED BY <2>2, <2>5, <2>6, <2>7 DEF Linked
<1> QED BY <1>1, <1>2

-----------------------------------------------------------------------------
(* What every step of one end leaves as it is.                             *)

LEMMA MasterKeeps ==
  ASSUME IndInv, UNCHANGED ptrMoteVars, PtrMasterTypeOK', air' \subseteq Message,
         got \subseteq got',
         \A t \in Tid : MasterInv(t)',
         \A t \in Tid : tids[t] \in {"close", "gone"} => tids'[t] \in {"close", "gone"},
         \A m \in air' : m \in air \/ PacketInv(m)'
  PROVE  IndInv'
<1>1. TypeOK' /\ ConfirmedWasReceived'
  BY DEF IndInv, TypeOK, PtrMoteTypeOK, PTRConnection, ConfirmedWasReceived, ptrMoteVars
<1>2. ASSUME NEW t \in Tid
      PROVE  TaskInv(t)'
  BY DEF IndInv, TaskInv, ptrMoteVars
<1>3. ASSUME NEW m \in air \cup routing
      PROVE  PacketInv(m)'
  <2>1. PacketInv(m) /\ m.tid \in Tid
    BY DEF IndInv, TypeOK, PtrMoteTypeOK, Message
  <2> QED BY <2>1 DEF PacketInv, ptrMoteVars
<1>4. ASSUME NEW cid \in Cid
      PROVE  SlotInv(cid)'
  BY DEF IndInv, SlotInv, ptrMoteVars
<1> QED BY <1>1, <1>2, <1>3, <1>4 DEF IndInv, ptrMoteVars

LEMMA MoteKeeps ==
  ASSUME IndInv, UNCHANGED ptrMasterVars, PtrMoteTypeOK', air' \subseteq Message,
         confirmed' \subseteq got,
         \A t \in Tid : received[t] \subseteq received'[t] /\ TaskInv(t)',
         \A m \in air' \cup routing' : m \in air \cup routing \/ PacketInv(m)',
         \A cid \in Cid : SlotInv(cid)'
  PROVE  IndInv'
<1>1. TypeOK' /\ ConfirmedWasReceived'
  BY DEF IndInv, TypeOK, PtrMasterTypeOK, ConfirmedWasReceived, ptrMasterVars
<1>2. ASSUME NEW t \in Tid
      PROVE  MasterInv(t)'
  BY DEF IndInv, MasterInv, Linked, ptrMasterVars
<1>3. ASSUME NEW m \in air \cup routing
      PROVE  PacketInv(m)'
  <2>1. PacketInv(m) /\ m.tid \in Tid
    BY DEF IndInv, TypeOK, PtrMoteTypeOK, Message
  <2> QED BY <2>1 DEF PacketInv, ptrMasterVars
<1> QED BY <1>1, <1>2, <1>3 DEF IndInv

LEMMA InitInv ==
  ASSUME Init
  PROVE  IndInv
<1>1. TypeOK
  <2>1. PtrMasterTypeOK
    BY PtrNetAssumption, EmptySeq
       DEF Init, PtrMasterInit, PtrMasterTypeOK, PtrConnection, NewPtr
  <2>2. /\ PList \in [Cid -> PTRConnection] /\ posted \in [Task -> 0 .. MaxPosted]
        /\ e2e \in [Tid -> Nat] /\ received \in [Tid -> SUBSET Content]
    BY PtrNetAssumption, PtrMoteAssumption
       DEF Init, PtrMoteInit, PtrMoteInitWith, PTRConnection, IdleConnection
  <2>3. PtrMoteTypeOK /\ air \subseteq Message
    BY <2>2, PtrMoteAssumption DEF Init, PtrMoteInit, PtrMoteInitWith, PtrMoteTypeOK
  <2> QED BY <2>1, <2>3 DEF TypeOK
<1>2. ConfirmedWasReceived
  BY DEF Init, PtrMoteInit, PtrMoteInitWith, ConfirmedWasReceived
<1>3. ASSUME NEW t \in Tid
      PROVE  MasterInv(t) /\ TaskInv(t)
  BY DEF Init, PtrMasterInit, PtrMoteInit, PtrMoteInitWith, MasterInv, TaskInv, NewPtr
<1>4. ASSUME NEW cid \in Cid
      PROVE  SlotInv(cid)
  BY PtrMoteAssumption DEF Init, PtrMoteInit, PtrMoteInitWith, SlotInv, IdleConnection
<1> QED BY <1>1, <1>2, <1>3, <1>4 DEF IndInv, Init, PtrMoteInit, PtrMoteInitWith

-----------------------------------------------------------------------------
(* Steps of the master.                                                    *)

LEMMA MasterTypes ==
  ASSUME IndInv
  PROVE  /\ m_ptrcs \in Seq(Tid) /\ streams \subseteq Tid /\ air \subseteq Message
         /\ got \subseteq Tid \X (Nat \ {0})
         /\ pc \in [Tid -> PtrConnection]
         /\ tids \in [Tid -> {"new", "task", "close", "gone"}]
         /\ told \in [Tid -> SUBSET {"RETURN", "ACK", "NACK", "CLOSE_ACK"}]
         /\ UNCHANGED ptrMoteVars => UNCHANGED received
         /\ \A t \in Tid : /\ pc[t] \in PtrConnection /\ pc[t].sentSeqNo \in Nat
                           /\ pc[t].packet \in {"none", "task"}
                           /\ pc[t].alarm \in {"off", "armed", "due"}
                           /\ pc[t].retxCount \in 0 .. MaxNumRetx
                           /\ MasterInv(t) /\ TaskInv(t)
         /\ \A m \in air : PacketInv(m)
BY DEF IndInv, TypeOK, PtrMasterTypeOK, PtrConnection, ptrMoteVars

(* A step that concerns the connection and the client of one tid, and puts *)
(* at most one packet in flight.                                           *)
LEMMA MasterStep ==
  ASSUME IndInv, UNCHANGED ptrMoteVars, UNCHANGED got, NEW t \in Tid,
         m_ptrcs' \in Seq(Tid), \A u \in Tid \ {t} : Linked(u) => Linked(u)',
         NEW c \in PtrConnection, pc' = [pc EXCEPT ![t] = c],
         NEW x \in {"new", "task", "close", "gone"}, tids' = [tids EXCEPT ![t] = x],
         NEW A \in SUBSET {"RETURN", "ACK", "NACK", "CLOSE_ACK"}, told' = [told EXCEPT ![t] = A],
         streams' \subseteq Tid,
         air' \subseteq Message, \A m \in air' : m \in air \/ PacketInv(m)',
         tids[t] \in {"close", "gone"} => x \in {"close", "gone"},
         MasterInv(t)'
  PROVE  IndInv'
<1>1. PtrMasterTypeOK'
  BY MasterTypes DEF PtrMasterTypeOK
<1>2. ASSUME NEW u \in Tid \ {t}
      PROVE  MasterInv(u)'
  <2>1. /\ pc'[u] = pc[u] /\ tids'[u] = tids[u] /\ told'[u] = told[u]
        /\ MasterInv(u) /\ UNCHANGED received
    BY MasterTypes
  <2> QED BY <2>1 DEF MasterInv
<1>3. \A u \in Tid : tids[u] \in {"close", "gone"} => tids'[u] \in {"close", "gone"}
  BY MasterTypes
<1> QED BY <1>1, <1>2, <1>3, MasterKeeps

(* A step that only takes packets away.                                    *)
LEMMA MasterIdle ==
  ASSUME IndInv, UNCHANGED ptrMoteVars, UNCHANGED ptrMasterVars, air' \subseteq air
  PROVE  IndInv'
<1>1. PtrMasterTypeOK' /\ air' \subseteq Message /\ UNCHANGED <<received, tids, got>>
  BY MasterTypes DEF PtrMasterTypeOK, ptrMasterVars
<1>2. ASSUME NEW t \in Tid
      PROVE  MasterInv(t)'
  BY <1>1, MasterTypes DEF MasterInv, Linked, ptrMasterVars
<1> QED BY <1>1, <1>2, MasterKeeps

LEMMA TaskSent ==
  ASSUME IndInv, UNCHANGED ptrMoteVars, NEW t \in Tid, SendTask(t)
  PROVE  IndInv'
<1>1. /\ m_ptrcs' \in Seq(Tid) /\ Linked(t)'
      /\ \A u \in Tid \ {t} : Linked(u) => Linked(u)'
  BY Linking, MasterTypes DEF SendTask
<1>2. PICK c \in PtrConnection :
        c = [sentSeqNo |-> pc[t].sentSeqNo + 1, retxCount |-> 0,
             packet |-> "task", alarm |-> "armed"]
  <2>1. pc[t].sentSeqNo + 1 \in Nat /\ 0 \in 0 .. MaxNumRetx
    BY MasterTypes, PtrNetAssumption
  <2> QED BY <2>1 DEF PtrConnection
<1>3. PICK m \in Message : m = Msg("mote", "SEND", t, pc[t].sentSeqNo + 1, "task")
  BY MasterTypes, MsgType DEF PtrFlag, Content
<1>4. air' \subseteq air \cup {m} /\ PacketInv(m)'
  BY <1>3, PutAdds DEF SendTask, PacketInv, Msg
<1>5. told' = [told EXCEPT ![t] = {"RETURN"}]
  BY MasterTypes DEF SendTask, Tell, MasterInv
<1>6. /\ pc' = [pc EXCEPT ![t] = c] /\ tids' = [tids EXCEPT ![t] = "task"]
      /\ tids[t] = "new" /\ streams' = streams /\ got' = got
  BY <1>2 DEF SendTask
<1>7. MasterInv(t)'
  <2>1. pc'[t] = c /\ tids'[t] = "task" /\ told'[t] = {"RETURN"}
    BY <1>5, <1>6, MasterTypes
  <2> QED BY <1>1, <1>2, <2>1, MasterTypes DEF MasterInv
<1>8. air' \subseteq Message /\ \A q \in air' : q \in air \/ PacketInv(q)'
  BY <1>4, MasterTypes
<1> QED BY <1>1, <1>5, <1>6, <1>7, <1>8, MasterTypes, MasterStep

LEMMA TidClosed ==
  ASSUME IndInv, UNCHANGED ptrMoteVars, NEW t \in Tid, ClientClosesTid(t) \/ ClientLeaves(t)
  PROVE  IndInv'
<1>1. m_ptrcs' \in Seq(Tid) /\ \A u \in Tid \ {t} : Linked(u) => Linked(u)'
  BY Unlinking, MasterTypes DEF ClientClosesTid, ClientLeaves, DeletionSent
<1>2. NewPtr \in PtrConnection /\ pc' = [pc EXCEPT ![t] = NewPtr]
  BY PtrNetAssumption DEF ClientClosesTid, ClientLeaves, DeletionSent, NewPtr, PtrConnection
<1>3. PICK x \in {"close", "gone"} : tids' = [tids EXCEPT ![t] = x]
  BY DEF ClientClosesTid, ClientLeaves
<1>4. PICK A \in SUBSET {"RETURN", "ACK", "NACK", "CLOSE_ACK"} :
        told' = [told EXCEPT ![t] = A] /\ A \subseteq told[t] \cup {"CLOSE_ACK"}
  <2>1. told' = [told EXCEPT ![t] = told[t]] \/ told' = [told EXCEPT ![t] = told[t] \cup {"CLOSE_ACK"}]
    BY MasterTypes DEF ClientClosesTid, ClientLeaves, Tell
  <2> QED BY <2>1, MasterTypes
<1>5. PICK m \in Message : m = Msg("mote", "SEND", t, pc[t].sentSeqNo + 1, "close")
  BY MasterTypes, MsgType DEF PtrFlag, Content
<1>6. tids'[t] = x /\ told'[t] = A /\ pc'[t] = NewPtr
  BY <1>2, <1>3, <1>4, MasterTypes
<1>7. air' \subseteq air \cup {m} /\ PacketInv(m)'
  BY <1>5, <1>6, PutAdds DEF ClientClosesTid, ClientLeaves, DeletionSent, PacketInv, Msg
<1>8. MasterInv(t)'
  <2>1. MasterInv(t) /\ tids[t] \in {"task", "close"} /\ UNCHANGED received
    BY MasterTypes DEF ClientClosesTid, ClientLeaves
  <2> QED BY <1>4, <1>6, <2>1 DEF MasterInv, NewPtr
<1>9. UNCHANGED <<streams, got>>
  BY DEF ClientClosesTid, ClientLeaves
<1>10. air' \subseteq Message /\ \A q \in air' : q \in air \/ PacketInv(q)'
  BY <1>7, MasterTypes
<1> QED BY <1>1, <1>2, <1>3, <1>4, <1>8, <1>9, <1>10, MasterTypes, MasterStep

LEMMA StreamStep ==
  ASSUME IndInv, UNCHANGED ptrMoteVars, NEW t \in Tid, StreamStarts(t) \/ StreamEnds(t)
  PROVE  IndInv'
<1>1. /\ UNCHANGED <<air, m_ptrcs, pc, got>> /\ streams' \subseteq Tid
      /\ pc' = [pc EXCEPT ![t] = pc[t]] /\ \A u \in Tid : Linked(u)' = Linked(u)
  BY MasterTypes DEF StreamStarts, StreamEnds, Linked
<1>2. PICK x \in {"new", "task", "close", "gone"},
           A \in SUBSET {"RETURN", "ACK", "NACK", "CLOSE_ACK"} :
        /\ tids' = [tids EXCEPT ![t] = x] /\ told' = [told EXCEPT ![t] = A]
        /\ \/ x = tids[t] /\ A = told[t]
           \/ x = "gone" /\ tids[t] = "close" /\ A = told[t] \cup {"CLOSE_ACK"}
  <2>1. CASE UNCHANGED <<tids, told>>
    BY <2>1, MasterTypes, ZenonT(30)
  <2>2. CASE ~UNCHANGED <<tids, told>>
    <3>1. /\ tids[t] = "close" /\ tids' = [tids EXCEPT ![t] = "gone"]
          /\ told' = [told EXCEPT ![t] = told[t] \cup {"CLOSE_ACK"}]
      BY <2>2, MasterTypes DEF StreamStarts, StreamEnds, CloseDone, Tell
    <3>2. told[t] \cup {"CLOSE_ACK"} \in SUBSET {"RETURN", "ACK", "NACK", "CLOSE_ACK"}
      BY MasterTypes
    <3> QED BY <3>1, <3>2
  <2> QED BY <2>1, <2>2
<1>3. MasterInv(t)'
  <2>1. tids'[t] = x /\ told'[t] = A /\ MasterInv(t) /\ UNCHANGED received
    BY <1>2, MasterTypes
  <2> QED BY <1>1, <1>2, <2>1 DEF MasterInv
<1> QED BY <1>1, <1>2, <1>3, MasterTypes, MasterStep

LEMMA AlarmFallsDue ==
  ASSUME IndInv, UNCHANGED ptrMoteVars, NEW t \in Tid, PtrExpire(t)
  PROVE  IndInv'
<1>1. PICK c \in PtrConnection :
        /\ pc' = [pc EXCEPT ![t] = c] /\ pc[t].alarm # "off" /\ pc'[t] = c
        /\ c.sentSeqNo = pc[t].sentSeqNo /\ c.retxCount = pc[t].retxCount
        /\ c.packet = pc[t].packet
  <2>1. PICK c : c = [pc[t] EXCEPT !.alarm = "due"]
    OBVIOUS
  <2>2. /\ c \in PtrConnection /\ c.packet = pc[t].packet
        /\ c.sentSeqNo = pc[t].sentSeqNo /\ c.retxCount = pc[t].retxCount
    BY <2>1, MasterTypes DEF PtrConnection
  <2>3. pc' = [pc EXCEPT ![t] = c] /\ pc[t].alarm # "off"
    BY <2>1 DEF PtrExpire
  <2> QED BY <2>2, <2>3, MasterTypes
<1>2. UNCHANGED <<air, m_ptrcs, tids, streams, told, got, received>>
  BY MasterTypes DEF PtrExpire
<1>3. MasterInv(t)'
  BY <1>1, <1>2, MasterTypes DEF MasterInv, Linked
<1>4. \A u \in Tid : Linked(u) => Linked(u)'
  BY <1>2 DEF Linked
<1>5. tids' = [tids EXCEPT ![t] = tids[t]] /\ told' = [told EXCEPT ![t] = told[t]]
  BY <1>2, MasterTypes
<1> QED BY <1>1, <1>2, <1>3, <1>4, <1>5, MasterTypes, MasterStep

(* senddone_packettransport, for a connection that ends up as c: a success *)
(* is reported only of a task that the mote has, with the alarm stopped.   *)
LEMMA DoneStep ==
  ASSUME IndInv, UNCHANGED ptrMoteVars, UNCHANGED <<m_ptrcs, streams, got>>,
         air' \subseteq air, NEW t \in Tid, NEW success \in BOOLEAN,
         NEW c \in PtrConnection, pc' = [pc EXCEPT ![t] = c], SendDoneToApp(t, success),
         c.sentSeqNo = pc[t].sentSeqNo, c.retxCount = pc[t].retxCount,
         success => c.alarm = "off" /\ received[t] # {},
         ~success => /\ c.alarm = pc[t].alarm /\ pc[t].alarm # "off"
                     /\ c.retxCount >= MaxNumRetx
  PROVE  IndInv'
<1>1. PICK x \in {"new", "task", "close", "gone"},
           A \in SUBSET {"RETURN", "ACK", "NACK", "CLOSE_ACK"} :
        /\ tids' = [tids EXCEPT ![t] = x] /\ told' = [told EXCEPT ![t] = A]
        /\ \/ tids[t] # "task" /\ x = tids[t] /\ A = told[t]
           \/ success /\ x = "task" /\ tids[t] = "task" /\ A = told[t] \cup {"ACK"}
           \/ ~success /\ x = "gone" /\ tids[t] = "task" /\ A = told[t] \cup {"NACK"}
  <2>1. CASE tids[t] # "task"
    BY <2>1, MasterTypes, ZenonT(30) DEF SendDoneToApp
  <2>2. CASE tids[t] = "task" /\ success
    <3>1. /\ told[t] \cup {"ACK"} \in SUBSET {"RETURN", "ACK", "NACK", "CLOSE_ACK"}
          /\ tids' = [tids EXCEPT ![t] = "task"]
          /\ told' = [told EXCEPT ![t] = told[t] \cup {"ACK"}]
      BY <2>2, MasterTypes DEF SendDoneToApp, Tell
    <3> QED BY <2>2, <3>1
  <2>3. CASE tids[t] = "task" /\ ~success
    <3>1. /\ told[t] \cup {"NACK"} \in SUBSET {"RETURN", "ACK", "NACK", "CLOSE_ACK"}
          /\ tids' = [tids EXCEPT ![t] = "gone"]
          /\ told' = [told EXCEPT ![t] = told[t] \cup {"NACK"}]
      BY <2>3, MasterTypes DEF SendDoneToApp, Tell
    <3> QED BY <2>3, <3>1
  <2> QED BY <2>1, <2>2, <2>3
<1>2. /\ tids'[t] = x /\ told'[t] = A /\ pc'[t] = c
      /\ MasterInv(t) /\ TaskInv(t) /\ UNCHANGED received
  BY <1>1, MasterTypes
<1>3. tids[t] = "task" /\ success => "task" \in received[t]
  BY <1>2 DEF TaskInv
<1>4. MasterInv(t)'
  <2>1. c.alarm # "off" => Linked(t)' /\ c.sentSeqNo > 0
    BY <1>2 DEF MasterInv, Linked
  <2>2. c.alarm # "off" /\ c.retxCount < MaxNumRetx => c.packet # "none"
    BY MasterTypes, PtrNetAssumption
  <2>3. x = "new" => A = {} /\ c.alarm = "off"
    BY <1>1, <1>2 DEF MasterInv
  <2>4. x = "task" /\ "ACK" \in A => c.alarm = "off"
    BY <1>1
  <2>5. "NACK" \in A => x = "gone" /\ "ACK" \notin A
    BY <1>1, <1>2 DEF MasterInv
  <2>6. "ACK" \in A => "task" \in received'[t]
    BY <1>1, <1>2, <1>3 DEF MasterInv
  <2> QED BY <1>2, <2>1, <2>2, <2>3, <2>4, <2>5, <2>6 DEF MasterInv
<1>5. tids[t] \in {"close", "gone"} => x \in {"close", "gone"}
  BY <1>1
<1>6. \A u \in Tid : Linked(u) => Linked(u)'
  BY DEF Linked
<1> QED BY <1>1, <1>4, <1>5, <1>6, MasterTypes, MasterStep

LEMMA MasterReceipt ==
  ASSUME IndInv, UNCHANGED ptrMoteVars, NEW m \in air, MasterGets(m)
  PROVE  IndInv'
<1>1. /\ m \in Message /\ m.tid \in Tid /\ m.seqno \in Nat \ {0}
      /\ m.to = "master" /\ PacketInv(m)
  BY MasterTypes DEF Message, MasterGets
<1>2. CASE MasterGets_ACK(m)
  <2>1. air' \subseteq air /\ UNCHANGED <<m_ptrcs, streams, got>>
    BY <1>2, TakingAddsNone DEF MasterGets_ACK
  <2>2. received[m.tid] # {}
    BY <1>1, <1>2 DEF PacketInv, MasterGets_ACK
  <2>3. PICK c : c = IF Linked(m.tid) THEN [pc[m.tid] EXCEPT !.packet = "none", !.alarm = "off"]
                                      ELSE pc[m.tid]
    OBVIOUS
  <2>4. /\ c \in PtrConnection /\ c.sentSeqNo = pc[m.tid].sentSeqNo
        /\ c.retxCount = pc[m.tid].retxCount
    BY <1>1, <2>3, MasterTypes DEF PtrConnection
  <2>5. CASE Linked(m.tid)
    <3>1. /\ pc' = [pc EXCEPT ![m.tid] = c] /\ c.alarm = "off"
          /\ SendDoneToApp(m.tid, TRUE)
      BY <1>1, <1>2, <2>3, <2>5, MasterTypes DEF MasterGets_ACK, PtrConnection
    <3> QED BY <1>1, <2>1, <2>2, <2>4, <3>1, DoneStep
  <2>6. CASE ~Linked(m.tid)
    <3>1. UNCHANGED <<pc, tids, told>>
      BY <1>2, <2>6 DEF MasterGets_ACK
    <3> QED BY <2>1, <3>1, MasterIdle DEF ptrMasterVars
  <2> QED BY <2>5, <2>6
<1>3. CASE MasterGets_SEND(m)
  <2>1. /\ m_ptrcs' \in Seq(Tid) /\ \A u \in Tid : Linked(u) => Linked(u)'
    BY <1>1, <1>3, Linking, MasterTypes DEF MasterGets_SEND
  <2>2. /\ UNCHANGED <<pc, tids, streams, told, received>>
        /\ got' = got \cup {<<m.tid, m.seqno>>}
    BY <1>3, MasterTypes DEF MasterGets_SEND
  <2>3. PICK q \in Message : q = Msg("mote", "ACK", m.tid, m.seqno, "nothing")
    BY <1>1, MsgType DEF PtrFlag, Content
  <2>4. air' \subseteq air \cup {q}
    <3>1. PICK a \in AfterTaking(m) : air' = a \/ air' = Put(a, q)
      BY <1>3, <2>3 DEF MasterGets_SEND
    <3> QED BY <3>1, PutAdds, TakingAddsNone
  <2>5. PacketInv(q)'
    BY <2>2, <2>3 DEF PacketInv, Msg
  <2>6. PtrMasterTypeOK' /\ air' \subseteq Message /\ got \subseteq got'
    BY <1>1, <2>1, <2>2, <2>4, MasterTypes DEF PtrMasterTypeOK
  <2>7. ASSUME NEW u \in Tid
        PROVE  MasterInv(u)'
    BY <2>1, <2>2, MasterTypes DEF MasterInv
  <2>8. \A p \in air' : p \in air \/ PacketInv(p)'
    BY <2>4, <2>5
  <2> QED BY <2>2, <2>6, <2>7, <2>8, MasterKeeps
<1> QED BY <1>2, <1>3 DEF MasterGets

LEMMA MasterTimer ==
  ASSUME IndInv, UNCHANGED ptrMoteVars, PtrPoll
  PROVE  IndInv'
<1>1. PICK i \in DOMAIN m_ptrcs : PtrFirstDue(i) /\ PTR_Timer_fired(m_ptrcs[i])
  BY DEF PtrPoll
<1>2. PICK t \in Tid : t = m_ptrcs[i] /\ pc[t].alarm = "due" /\ PTR_Timer_fired(t)
  <2>1. m_ptrcs[i] \in Tid
    BY <1>1, MasterTypes, LenProperties, ElementOfSeq
  <2> QED BY <1>1, <2>1 DEF PtrFirstDue
<1>3. UNCHANGED <<m_ptrcs, streams, got>>
  BY DEF PtrPoll
<1>4. CASE Fired_retx(t)
  <2>1. /\ pc[t].retxCount < MaxNumRetx /\ UNCHANGED <<tids, told, received>>
        /\ pc[t].packet = "task" /\ Linked(t) /\ pc[t].sentSeqNo \in Nat \ {0}
    BY <1>2, <1>4, MasterTypes DEF Fired_retx, MasterInv
  <2>2. PICK c : c = [pc[t] EXCEPT !.retxCount = pc[t].retxCount + 1, !.alarm = "armed"]
    OBVIOUS
  <2>3. /\ c \in PtrConnection /\ c.sentSeqNo = pc[t].sentSeqNo /\ c.packet = pc[t].packet
        /\ c.alarm = "armed"
    <3>1. pc[t].retxCount + 1 \in 0 .. MaxNumRetx
      BY <2>1, MasterTypes, PtrNetAssumption
    <3> QED BY <2>2, <3>1, MasterTypes DEF PtrConnection
  <2>4. pc' = [pc EXCEPT ![t] = c] /\ pc'[t] = c
    BY <1>4, <2>2, MasterTypes DEF Fired_retx
  <2>5. PICK q \in Message : q = Msg("mote", "SEND", t, pc[t].sentSeqNo, "task")
    BY <2>1, MsgType DEF PtrFlag, Content
  <2>6. air' \subseteq air \cup {q} /\ PacketInv(q)'
    BY <1>4, <2>1, <2>5, PutAdds DEF Fired_retx, PacketInv, Msg
  <2>7. air' \subseteq Message /\ \A p \in air' : p \in air \/ PacketInv(p)'
    BY <2>5, <2>6, MasterTypes
  <2>8. MasterInv(t)'
    BY <1>2, <1>3, <2>1, <2>3, <2>4, MasterTypes DEF MasterInv, Linked
  <2>9. \A u \in Tid : Linked(u) => Linked(u)'
    BY <1>3 DEF Linked
  <2>10. tids' = [tids EXCEPT ![t] = tids[t]] /\ told' = [told EXCEPT ![t] = told[t]]
    BY <2>1, MasterTypes
  <2> QED BY <1>3, <2>3, <2>4, <2>7, <2>8, <2>9, <2>10, MasterTypes, MasterStep
<1>5. CASE Fired_giveup(t)
  <2>1. /\ pc[t].retxCount >= MaxNumRetx /\ UNCHANGED air /\ SendDoneToApp(t, FALSE)
    BY <1>5 DEF Fired_giveup
  <2>2. PICK c : c = [pc[t] EXCEPT !.packet = "none"]
    OBVIOUS
  <2>3. /\ c \in PtrConnection /\ c.sentSeqNo = pc[t].sentSeqNo
        /\ c.retxCount = pc[t].retxCount /\ c.alarm = pc[t].alarm
    BY <2>2, MasterTypes DEF PtrConnection
  <2>4. pc' = [pc EXCEPT ![t] = c]
    BY <1>5, <2>2 DEF Fired_giveup
  <2> QED BY <1>2, <1>3, <2>1, <2>3, <2>4, DoneStep
<1> QED BY <1>2, <1>4, <1>5 DEF PTR_Timer_fired

LEMMA MasterStepInv ==
  ASSUME IndInv, UNCHANGED ptrMoteVars,
         PtrMasterNext \/ \E t \in Tid : StreamStarts(t)
  PROVE  IndInv'
BY TaskSent, TidClosed, StreamStep, AlarmFallsDue, MasterReceipt, MasterTimer
   DEF PtrMasterNext

-----------------------------------------------------------------------------
(* Steps of the mote.                                                      *)

LEMMA MoteTypes ==
  ASSUME IndInv
  PROVE  /\ PList \in [Cid -> PTRConnection]
         /\ sending \in BOOLEAN /\ routing \subseteq Message /\ (sending => routing # {})
         /\ \A m \in routing : m.to = "master"
         /\ pending \subseteq Task
         /\ posted \in [Task -> 0 .. MaxPosted]
         /\ mySeqNo \in Nat \ {0} /\ e2e \in [Tid -> Nat] /\ be \in Tid \cup {NoTid}
         /\ received \in [Tid -> SUBSET Content]
         /\ confirmed \subseteq Tid \X (Nat \ {0}) /\ finished \subseteq Tid \X (Nat \ {0})
         /\ confirmed \subseteq got /\ air \subseteq Message
         /\ \A m \in air \cup routing : PacketInv(m)
         /\ \A cid \in Cid : /\ PList[cid] \in PTRConnection /\ SlotInv(cid)
                             /\ PList[cid].retxCount \in 0 .. (RetxWrap - 1)
                             /\ PList[cid].seqno \in Nat
         /\ UNCHANGED ptrMasterVars => UNCHANGED <<tids, got>>
BY DEF IndInv, TypeOK, PtrMoteTypeOK, PTRConnection, ConfirmedWasReceived, ptrMasterVars

LEMMA IdleType == IdleConnection \in PTRConnection
<1>1. 0 \in 0 .. (RetxWrap - 1)
  BY PtrNetAssumption, PtrMoteAssumption
<1> QED BY <1>1 DEF IdleConnection, PTRConnection

(* The task queue takes an entry or drops it, and gives one up.            *)
LEMMA QueueType ==
  ASSUME IndInv, NEW k \in Task
  PROVE  /\ Plus(k) \in [Task -> 0 .. MaxPosted] /\ Plus(k)[k] \in 0 .. MaxPosted
         /\ posted[k] > 0 => Minus(k) \in [Task -> 0 .. MaxPosted]
<1>1. posted[k] \in 0 .. MaxPosted /\ MaxPosted \in Nat
  BY MoteTypes, PtrMoteAssumption
<1>2. /\ posted[k] < MaxPosted => posted[k] + 1 \in 0 .. MaxPosted
      /\ posted[k] > 0 => posted[k] - 1 \in 0 .. MaxPosted
  BY <1>1
<1> QED BY <1>1, <1>2, MoteTypes DEF Plus, Minus

(* What SendPkt keeps.                                                     *)
SendPktTypeOK ==
  /\ e2e \in [Tid -> Nat] /\ be \in Tid \cup {NoTid}
  /\ finished \subseteq Tid \X (Nat \ {0})

LEMMA SendPktType ==
  ASSUME IndInv
  PROVE  /\ UNCHANGED sendPktVars => SendPktTypeOK'
         /\ \A t \in Tid, success \in BOOLEAN : SendPktDone(t, success) => SendPktTypeOK'
<1>1. UNCHANGED sendPktVars => SendPktTypeOK'
  BY MoteTypes DEF sendPktVars, SendPktTypeOK
<1>2. ASSUME NEW t \in Tid, NEW success \in BOOLEAN, SendPktDone(t, success)
      PROVE  SendPktTypeOK'
  <2>1. e2e' \in [Tid -> Nat] /\ be' \in Tid \cup {NoTid} /\ e2e[t] \in Nat
    BY <1>2, MoteTypes DEF SendPktDone
  <2>2. finished' \subseteq Tid \X (Nat \ {0})
    BY <1>2, <2>1, MoteTypes DEF SendPktDone
  <2> QED BY <2>1, <2>2 DEF SendPktTypeOK
<1> QED BY <1>1, <1>2

(* A step that receives nothing: every connection that changes has to be   *)
(* sound afterwards, and every packet that is new.                         *)
LEMMA MoteStep ==
  ASSUME IndInv, UNCHANGED ptrMasterVars, UNCHANGED <<received, confirmed>>,
         PList' \in [Cid -> PTRConnection],
         \A cid \in Cid : PList'[cid] = PList[cid] \/ SlotInv(cid)',
         sending' \in BOOLEAN, routing' \subseteq Message, sending' => routing' # {},
         \A m \in routing' : m.to = "master",
         pending' \subseteq Task, posted' \in [Task -> 0 .. MaxPosted],
         mySeqNo' \in Nat \ {0}, SendPktTypeOK', air' \subseteq Message,
         \A m \in air' \cup routing' : m \in air \cup routing \/ PacketInv(m)'
  PROVE  IndInv'
<1>1. PtrMoteTypeOK'
  BY MoteTypes DEF PtrMoteTypeOK, SendPktTypeOK
<1>2. ASSUME NEW t \in Tid
      PROVE  received[t] \subseteq received'[t] /\ TaskInv(t)'
  <2>1. TaskInv(t) /\ UNCHANGED tids
    BY MoteTypes DEF IndInv
  <2> QED BY <2>1 DEF TaskInv
<1>3. ASSUME NEW cid \in Cid
      PROVE  SlotInv(cid)'
  <2>1. SlotInv(cid)
    BY MoteTypes
  <2> QED BY <2>1 DEF SlotInv
<1>4. confirmed' \subseteq got
  BY MoteTypes
<1> QED BY <1>1, <1>2, <1>3, <1>4, MoteKeeps

LEMMA SendStep ==
  ASSUME IndInv, UNCHANGED ptrMasterVars, NEW t \in Tid, Send_send(t) \/ NoAckSend_send(t)
  PROVE  IndInv'
<1>1. /\ mySeqNo' \in Nat \ {0} /\ UNCHANGED <<received, confirmed, air, pending, posted>>
  BY MoteTypes DEF Send_send, NoAckSend_send, TakesNumber
<1>2. finished' \subseteq Tid \X (Nat \ {0}) /\ mySeqNo \in Nat \ {0}
  BY MoteTypes DEF Send_send, NoAckSend_send
<1>3. CASE UNCHANGED <<routing, sending, PList, e2e, be>>
  BY <1>1, <1>2, <1>3, MoteTypes, MoteStep DEF SendPktTypeOK
<1>4. PICK flag \in {"SEND", "NOACK_SEND"}, m \in Message :
        m = Msg("master", flag, t, mySeqNo, "response")
        /\ (UNCHANGED <<routing, sending, PList, e2e, be>> \/ Accepted(m))
        /\ (flag = "SEND" <=> Send_send(t))
  <2>1. \A flag \in {"SEND", "NOACK_SEND"} : Msg("master", flag, t, mySeqNo, "response") \in Message
    BY <1>2, MsgType DEF PtrFlag, Content
  <2>2. ~(Send_send(t) /\ NoAckSend_send(t))
    BY DEF Send_send, NoAckSend_send
  <2>3. CASE Send_send(t)
    BY <2>1, <2>3 DEF Send_send
  <2>4. CASE NoAckSend_send(t)
    BY <2>1, <2>2, <2>4 DEF NoAckSend_send
  <2> QED BY <2>3, <2>4
<1>5. CASE ~UNCHANGED <<routing, sending, PList, e2e, be>>
  <2>1. routing' = {m} /\ m.to = "master" /\ sending' = TRUE /\ PacketInv(m)'
    BY <1>4, <1>5 DEF Accepted, PacketInv, Msg
  <2>2. CASE Send_send(t)
    <3>1. PICK cid \in Cid : PList' = [PList EXCEPT ![cid] =
              [tid |-> t, seqno |-> mySeqNo, retxCount |-> 0, state |-> "ACK_WAIT", timer |-> TRUE]]
      BY <1>5, <2>2 DEF Send_send, Available
    <3>2. PICK k : k = [tid |-> t, seqno |-> mySeqNo, retxCount |-> 0,
                        state |-> "ACK_WAIT", timer |-> TRUE]
      OBVIOUS
    <3>3. k \in PTRConnection
      BY <1>2, <3>2, PtrNetAssumption, PtrMoteAssumption DEF PTRConnection
    <3>4. PList' \in [Cid -> PTRConnection] /\ \A c \in Cid : PList'[c] = IF c = cid THEN k ELSE PList[c]
      BY <3>1, <3>2, <3>3, MoteTypes
    <3>5. SlotInv(cid)'
      BY <1>2, <3>2, <3>4 DEF SlotInv
    <3>6. SendPktTypeOK'
      BY <1>2, <1>5, <2>2, MoteTypes DEF Send_send, SendPktTypeOK
    <3> QED BY <1>1, <2>1, <3>4, <3>5, <3>6, MoteTypes, MoteStep
  <2>3. CASE NoAckSend_send(t)
    <3>1. UNCHANGED PList /\ SendPktTypeOK'
      BY <1>5, <2>3, MoteTypes DEF NoAckSend_send, SendPktTypeOK
    <3> QED BY <1>1, <2>1, <3>1, MoteTypes, MoteStep
  <2> QED BY <2>2, <2>3
<1> QED BY <1>3, <1>5

(* The connection that send_ACK or retx_send takes.                        *)
LEMMA TakenSlot ==
  ASSUME IndInv, NEW s \in {"RECV", "RETX"}, NEW cid \in InState(s)
  PROVE  /\ cid \in Cid /\ PList[cid].state = s
         /\ PList[cid].tid \in Tid /\ PList[cid].seqno \in Nat \ {0}
         /\ s = "RECV" => received[PList[cid].tid] # {}
BY MoteTypes DEF InState, SlotInv

LEMMA AckSending ==
  ASSUME IndInv, UNCHANGED ptrMasterVars, send_ACK
  PROVE  IndInv'
<1>1. /\ posted' \in [Task -> 0 .. MaxPosted] /\ UNCHANGED <<received, confirmed, air, mySeqNo>>
      /\ SendPktTypeOK'
  BY QueueType, SendPktType DEF send_ACK, Task
<1>2. pending' \subseteq Task
  BY MoteTypes DEF send_ACK, TryLater, Task
<1>3. CASE UNCHANGED <<PList, sending, routing>>
  BY <1>1, <1>2, <1>3, MoteTypes, MoteStep
<1>4. CASE ~UNCHANGED <<PList, sending, routing>>
  <2>1. PICK cid \in InState("RECV") :
          /\ Accepted(Msg("master", "ACK", PList[cid].tid, PList[cid].seqno, "nothing"))
          /\ PList' = [PList EXCEPT ![cid].state = "ACK_SENT"]
    BY <1>4 DEF send_ACK, TryLater
  <2>2. /\ cid \in Cid /\ PList[cid].tid \in Tid /\ PList[cid].seqno \in Nat \ {0}
        /\ received[PList[cid].tid] # {}
    BY TakenSlot
  <2>3. PICK m \in Message : m = Msg("master", "ACK", PList[cid].tid, PList[cid].seqno, "nothing")
    BY <2>2, MsgType DEF PtrFlag, Content
  <2>4. routing' = {m} /\ m.to = "master" /\ sending' = TRUE /\ PacketInv(m)'
    BY <1>1, <2>1, <2>2, <2>3 DEF Accepted, PacketInv, Msg
  <2>5. PList' \in [Cid -> PTRConnection]
    BY <2>1, <2>2, MoteTypes DEF PTRConnection
  <2>6. \A c \in Cid : c = cid \/ PList'[c] = PList[c]
    BY <2>1, <2>2, MoteTypes
  <2>7. /\ PList'[cid].state = "ACK_SENT" /\ PList'[cid].tid = PList[cid].tid
        /\ PList'[cid].seqno = PList[cid].seqno
    BY <2>1, <2>2, MoteTypes DEF PTRConnection
  <2>8. SlotInv(cid)'
    BY <1>1, <2>2, <2>7, SMTT(30) DEF SlotInv
  <2> QED BY <1>1, <1>2, <2>4, <2>5, <2>6, <2>8, MoteTypes, MoteStep
<1> QED BY <1>3, <1>4

(* retxCount is an 8-bit counter.                                          *)
LEMMA Wrapped ==
  ASSUME NEW n \in Nat
  PROVE  n % RetxWrap \in 0 .. (RetxWrap - 1)
<1>1. RetxWrap \in Nat /\ RetxWrap > 0
  BY PtrNetAssumption, PtrMoteAssumption, SMTT(30)
<1> QED BY <1>1, SMTT(30)

LEMMA Retransmitting ==
  ASSUME IndInv, UNCHANGED ptrMasterVars, retx_send
  PROVE  IndInv'
<1>1. /\ posted' \in [Task -> 0 .. MaxPosted] /\ UNCHANGED <<received, confirmed, air, mySeqNo>>
      /\ SendPktTypeOK'
  BY QueueType, SendPktType DEF retx_send, Task
<1>2. pending' \subseteq Task
  BY MoteTypes, ZenonT(30) DEF retx_send, TryLater, Task
<1>3. CASE UNCHANGED <<PList, sending, routing>>
  BY <1>1, <1>2, <1>3, MoteTypes, MoteStep
<1>5. PList \in [Cid -> PTRConnection]
  BY MoteTypes, ZenonT(30)
<1>4. CASE ~UNCHANGED <<PList, sending, routing>>
  <2>1. PICK cid \in InState("RETX") :
           \/ /\ PList' = [PList EXCEPT ![cid].retxCount = (PList[cid].retxCount + 1) % RetxWrap]
              /\ UNCHANGED <<sending, routing>>
           \/ /\ Accepted(Msg("master", "SEND", PList[cid].tid, PList[cid].seqno, "response"))
              /\ PList' = [PList EXCEPT ![cid].retxCount = (PList[cid].retxCount + 1) % RetxWrap,
                                        ![cid].timer = TRUE, ![cid].state = "ACK_WAIT"]
    BY <1>4 DEF retx_send, TryLater
  <2>2. cid \in Cid /\ PList[cid].tid \in Tid /\ PList[cid].seqno \in Nat \ {0}
    BY TakenSlot
  <2>3. PICK n \in 0 .. (RetxWrap - 1) : n = (PList[cid].retxCount + 1) % RetxWrap
    <3>1. PList[cid].retxCount + 1 \in Nat
      BY <2>2, MoteTypes, PtrMoteAssumption
    <3> QED BY <3>1, Wrapped
  <2>4. PICK m \in Message : m = Msg("master", "SEND", PList[cid].tid, PList[cid].seqno, "response")
    BY <2>2, MsgType DEF PtrFlag, Content
  <2>5. \/ PList' = [PList EXCEPT ![cid].retxCount = n]
        \/ PList' = [PList EXCEPT ![cid].retxCount = n, ![cid].timer = TRUE,
                                  ![cid].state = "ACK_WAIT"]
    BY <2>1, <2>3
  <2>6. PList' \in [Cid -> PTRConnection] /\ \A c \in Cid : c = cid \/ PList'[c] = PList[c]
    BY ONLY <1>5, <2>2, <2>5, n \in 0 .. (RetxWrap - 1) DEF PTRConnection
  <2>7. /\ PList'[cid].tid = PList[cid].tid /\ PList'[cid].seqno = PList[cid].seqno
        /\ \/ PList'[cid].state = "RETX" /\ PList[cid].state = "RETX"
           \/ PList'[cid].state = "ACK_WAIT" /\ PList'[cid].timer
    <3>1. PList[cid].state = "RETX" /\ PList[cid] \in PTRConnection
      BY MoteTypes, TakenSlot
    <3> QED BY ONLY <1>5, <2>2, <2>5, <3>1 DEF PTRConnection
  <2>8. SlotInv(cid)'
    BY <2>2, <2>7 DEF SlotInv
  <2>9. \/ UNCHANGED <<sending, routing>>
        \/ routing' = {m} /\ m.to = "master" /\ sending' = TRUE /\ PacketInv(m)'
    BY <2>1, <2>4 DEF Accepted, PacketInv, Msg
  <2>10. /\ sending' \in BOOLEAN /\ routing' \subseteq Message /\ (sending' => routing' # {})
         /\ \A q \in routing' : q.to = "master"
         /\ \A q \in air' \cup routing' : q \in air \cup routing \/ PacketInv(q)'
    <3>1. CASE UNCHANGED <<sending, routing>>
      BY <1>1, <3>1, MoteTypes
    <3>2. CASE routing' = {m} /\ m.to = "master" /\ sending' = TRUE /\ PacketInv(m)'
      BY <1>1, <3>2
    <3> QED BY <2>9, <3>1, <3>2
  <2> QED BY <1>1, <1>2, <2>6, <2>8, <2>10, MoteTypes, MoteStep, ZenonT(30)
<1> QED BY <1>3, <1>4

LEMMA Transmitting ==
  ASSUME IndInv, UNCHANGED ptrMasterVars, Transmit
  PROVE  IndInv'
<1>1. air' \subseteq air \cup routing /\ UNCHANGED ptrMoteVars
  BY PutAdds DEF Transmit
<1>2. UNCHANGED <<PList, sending, routing, pending, posted, mySeqNo, received, confirmed>>
      /\ UNCHANGED sendPktVars
  BY <1>1 DEF ptrMoteVars, sendPktVars
<1> QED BY <1>1, <1>2, MoteTypes, SendPktType, MoteStep

LEMMA RetryTimer ==
  ASSUME IndInv, UNCHANGED ptrMasterVars, RetryTimer_fired
  PROVE  IndInv'
<1>1. UNCHANGED <<air, PList, sending, routing, mySeqNo, received, confirmed>>
      /\ UNCHANGED sendPktVars /\ pending' = {}
  BY DEF RetryTimer_fired
<1>2. posted' \in [Task -> 0 .. MaxPosted]
  BY QueueType, MoteTypes DEF RetryTimer_fired
<1> QED BY <1>1, <1>2, MoteTypes, SendPktType, MoteStep

LEMMA ConnTimer ==
  ASSUME IndInv, UNCHANGED ptrMasterVars, NEW cid \in Cid, ConnTimer_fired(cid)
  PROVE  IndInv'
<1>1. UNCHANGED <<air, routing, pending, mySeqNo, received, confirmed>>
      /\ sending' \in BOOLEAN /\ (sending' => sending) /\ SendPktTypeOK'
  <2>1. \/ UNCHANGED sendPktVars
        \/ PList[cid].state = "ACK_WAIT" /\ SendPktDone(PList[cid].tid, FALSE)
    BY DEF ConnTimer_fired
  <2>2. PList[cid].state = "ACK_WAIT" => PList[cid].tid \in Tid
    BY MoteTypes DEF SlotInv
  <2>3. SendPktTypeOK'
    BY <2>1, <2>2, SendPktType
  <2>4. UNCHANGED <<air, routing, pending, mySeqNo, received, confirmed>>
        /\ (UNCHANGED sending \/ sending' = FALSE)
    BY DEF ConnTimer_fired
  <2>5. sending' \in BOOLEAN
    BY <2>4, MoteTypes
  <2>6. sending' => sending
    BY <2>4, Zenon
  <2> QED BY <2>3, <2>4, <2>5, <2>6
<1>2. posted' \in [Task -> 0 .. MaxPosted]
  BY QueueType, MoteTypes DEF ConnTimer_fired, Task
<1>3. PICK k \in PTRConnection :
        /\ PList' = [PList EXCEPT ![cid] = k]
        /\ \/ k = IdleConnection
           \/ /\ k.tid = PList[cid].tid /\ k.seqno = PList[cid].seqno
              /\ k.state = PList[cid].state /\ k.state # "ACK_WAIT"
           \/ /\ k.tid = PList[cid].tid /\ k.seqno = PList[cid].seqno
              /\ k.state = "RETX" /\ PList[cid].state = "ACK_WAIT"
  <2>1. CASE PList' = [PList EXCEPT ![cid] = IdleConnection]
    BY <2>1, IdleType
  <2>2. CASE PList[cid].state # "ACK_WAIT" /\ PList' = [PList EXCEPT ![cid].timer = FALSE]
    <3>1. PICK k : k = [PList[cid] EXCEPT !.timer = FALSE]
      OBVIOUS
    <3>2. /\ k \in PTRConnection /\ k.tid = PList[cid].tid /\ k.seqno = PList[cid].seqno
          /\ k.state = PList[cid].state
      BY <3>1, MoteTypes DEF PTRConnection
    <3> QED BY <2>2, <3>1, <3>2
  <2>3. CASE /\ PList[cid].state = "ACK_WAIT"
             /\ PList' = [PList EXCEPT ![cid].timer = FALSE, ![cid].state = "RETX"]
    <3>1. PICK k : k = [PList[cid] EXCEPT !.timer = FALSE, !.state = "RETX"]
      OBVIOUS
    <3>2. /\ k \in PTRConnection /\ k.tid = PList[cid].tid /\ k.seqno = PList[cid].seqno
          /\ k.state = "RETX"
      BY <3>1, MoteTypes DEF PTRConnection
    <3>3. PList' = [PList EXCEPT ![cid] = k]
      BY <2>3, <3>1, MoteTypes
    <3> QED BY <2>3, <3>2, <3>3
  <2> QED BY <2>1, <2>2, <2>3 DEF ConnTimer_fired
<1>4. PList' \in [Cid -> PTRConnection] /\ \A c \in Cid : PList'[c] = IF c = cid THEN k ELSE PList[c]
  BY <1>3, MoteTypes
<1>5. SlotInv(cid)'
  <2>1. SlotInv(cid) /\ UNCHANGED received /\ PList'[cid] = k
    BY <1>1, <1>4, MoteTypes
  <2> QED BY <1>3, <2>1, PtrMoteAssumption DEF SlotInv, IdleConnection
<1> QED BY <1>1, <1>2, <1>4, <1>5, MoteTypes, MoteStep

(* What the handlers below do to the connection they have found.           *)
LEMMA SlotChange ==
  ASSUME IndInv, UNCHANGED received, NEW cid \in Cid,
         \/ PList' = [PList EXCEPT ![cid] = IdleConnection]
         \/ PList[cid].tid \in Tid /\ PList' = [PList EXCEPT ![cid].state = "RETX", ![cid].timer = FALSE]
         \/ /\ PList[cid].tid \in Tid /\ received[PList[cid].tid] # {}
            /\ PList' = [PList EXCEPT ![cid].state = "RECV"]
  PROVE  /\ PList' \in [Cid -> PTRConnection]
         /\ \A c \in Cid : PList'[c] = PList[c] \/ SlotInv(c)'
<1>1. PICK k \in PTRConnection :
        /\ PList' = [PList EXCEPT ![cid] = k]
        /\ \/ k = IdleConnection
           \/ /\ k.tid = PList[cid].tid /\ k.seqno = PList[cid].seqno /\ k.tid \in Tid
              /\ k.state \in {"RETX", "RECV"}
              /\ k.state = "RECV" => received[k.tid] # {}
  <2>1. CASE PList' = [PList EXCEPT ![cid] = IdleConnection]
    BY <2>1, IdleType
  <2>2. CASE /\ PList[cid].tid \in Tid
             /\ PList' = [PList EXCEPT ![cid].state = "RETX", ![cid].timer = FALSE]
    <3>1. PICK k : k = [PList[cid] EXCEPT !.state = "RETX", !.timer = FALSE]
      OBVIOUS
    <3>2. /\ k \in PTRConnection /\ k.tid = PList[cid].tid /\ k.seqno = PList[cid].seqno
          /\ k.state = "RETX"
      BY <3>1, MoteTypes DEF PTRConnection
    <3>3. PList' = [PList EXCEPT ![cid] = k]
      BY <2>2, <3>1, MoteTypes
    <3> QED BY <2>2, <3>2, <3>3
  <2>3. CASE /\ PList[cid].tid \in Tid /\ received[PList[cid].tid] # {}
             /\ PList' = [PList EXCEPT ![cid].state = "RECV"]
    <3>1. PICK k : k = [PList[cid] EXCEPT !.state = "RECV"]
      OBVIOUS
    <3>2. /\ k \in PTRConnection /\ k.tid = PList[cid].tid /\ k.seqno = PList[cid].seqno
          /\ k.state = "RECV"
      BY <3>1, MoteTypes DEF PTRConnection
    <3>3. PList' = [PList EXCEPT ![cid] = k]
      BY <2>3, <3>1, MoteTypes
    <3> QED BY <2>3, <3>2, <3>3
  <2> QED BY <2>1, <2>2, <2>3
<1>2. PList' \in [Cid -> PTRConnection] /\ \A c \in Cid : PList'[c] = IF c = cid THEN k ELSE PList[c]
  BY <1>1, MoteTypes
<1>3. SlotInv(cid)'
  <2>1. SlotInv(cid) /\ PList'[cid] = k
    BY <1>2, MoteTypes
  <2> QED BY <1>1, <2>1, PtrMoteAssumption DEF SlotInv, IdleConnection
<1> QED BY <1>2, <1>3

LEMMA SendDone ==
  ASSUME IndInv, UNCHANGED ptrMasterVars, NEW success \in BOOLEAN, RoutingSendDone(success)
  PROVE  IndInv'
<1>1. /\ UNCHANGED <<air, pending, mySeqNo, received, confirmed>>
      /\ routing' = {} /\ sending' = FALSE
  BY DEF RoutingSendDone
<1>2. PICK m \in routing :
        \/ ~sending /\ UNCHANGED <<PList, posted>> /\ UNCHANGED sendPktVars
        \/ sending /\ m.flag = "SEND" /\ SendDone_SEND(m.tid, Matching(m.tid, m.seqno), success)
        \/ sending /\ m.flag = "ACK"  /\ SendDone_ACK(Matching(m.tid, m.seqno), success)
        \/ sending /\ m.flag = "NOACK_SEND" /\ SendDone_NOACK(m.tid, success)
  BY DEF RoutingSendDone
<1>3. m \in Message /\ m.tid \in Tid /\ PacketInv(m) /\ m.to \in {"mote", "master"}
  BY MoteTypes DEF Message
<1>4. posted' \in [Task -> 0 .. MaxPosted]
  BY <1>2, QueueType, MoteTypes DEF SendDone_SEND, SendDone_ACK, SendDone_NOACK, Task
<1>5. SendPktTypeOK'
  <2>1. \/ UNCHANGED sendPktVars
        \/ \E s \in BOOLEAN : SendPktDone(m.tid, s)
    BY <1>2 DEF SendDone_SEND, SendDone_ACK, SendDone_NOACK
  <2> QED BY <1>3, <2>1, SendPktType
<1>6. \A cid \in Matching(m.tid, m.seqno) : cid \in Cid /\ PList[cid].tid = m.tid
  BY DEF Matching
<1>7. /\ PList' \in [Cid -> PTRConnection]
      /\ \A c \in Cid : PList'[c] = PList[c] \/ SlotInv(c)'
  <2>1. CASE UNCHANGED PList
    BY <2>1, MoteTypes
  <2>2. CASE m.flag = "SEND" /\ SendDone_SEND(m.tid, Matching(m.tid, m.seqno), success)
             /\ ~UNCHANGED PList
    <3>1. PICK cid \in Matching(m.tid, m.seqno) :
             \/ PList' = [PList EXCEPT ![cid].state = "RETX", ![cid].timer = FALSE]
             \/ PList' = [PList EXCEPT ![cid] = IdleConnection]
      BY <2>2 DEF SendDone_SEND
    <3> QED BY <1>1, <1>3, <1>6, <3>1, SlotChange
  <2>3. CASE m.flag = "ACK" /\ SendDone_ACK(Matching(m.tid, m.seqno), success)
             /\ ~UNCHANGED PList
    <3>1. PICK cid \in Matching(m.tid, m.seqno) :
             \/ PList' = [PList EXCEPT ![cid] = IdleConnection]
             \/ PList' = [PList EXCEPT ![cid].state = "RECV"]
      BY <2>3 DEF SendDone_ACK
    <3>2. received[m.tid] # {}
      BY <1>3, <2>3, MoteTypes DEF PacketInv
    <3> QED BY <1>1, <1>3, <1>6, <3>1, <3>2, SlotChange
  <2> QED BY <1>2, <2>1, <2>2, <2>3 DEF SendDone_NOACK
<1>8. \A q \in air' \cup routing' : q \in air \cup routing
  BY <1>1
<1> QED BY <1>1, <1>4, <1>5, <1>7, <1>8, MoteTypes, MoteStep

LEMMA MoteReceipt ==
  ASSUME IndInv, UNCHANGED ptrMasterVars, NEW m \in air, MoteGets(m)
  PROVE  IndInv'
<1>1. /\ m \in Message /\ m.tid \in Tid /\ m.seqno \in Nat \ {0} /\ m.body \in Content
      /\ m.to = "mote" /\ PacketInv(m)
  BY MoteTypes DEF Message, MoteGets
<1>2. air' \subseteq air /\ UNCHANGED <<sending, routing, pending, mySeqNo, tids, got>>
  BY TakingAddsNone, MoteTypes DEF MoteGets
<1>3. posted' \in [Task -> 0 .. MaxPosted]
  BY QueueType, MoteTypes DEF MoteGets, MoteGets_SEND, MoteGets_ACK, Task
<1>4. SendPktTypeOK'
  BY <1>1, SendPktType DEF MoteGets, MoteGets_SEND, MoteGets_ACK
<1>5. air' \subseteq Message /\ \A q \in air' \cup routing' : q \in air \cup routing
  BY <1>2, MoteTypes
<1>6. CASE MoteGets_SEND(m) /\ UNCHANGED <<PList, received>>
  <2>1. UNCHANGED confirmed
    BY <1>6 DEF MoteGets_SEND
  <2> QED BY <1>2, <1>3, <1>4, <1>5, <1>6, <2>1, MoteTypes, MoteStep
<1>7. CASE MoteGets_SEND(m) /\ ~UNCHANGED <<PList, received>>
  <2>1. PICK cid \in Cid :
          /\ PList' = [PList EXCEPT ![cid] =
               [tid |-> m.tid, seqno |-> m.seqno, retxCount |-> 0,
                state |-> "RECV", timer |-> FALSE]]
          /\ received' = [received EXCEPT ![m.tid] = received[m.tid] \cup {m.body}]
    BY <1>1, <1>7, MoteTypes DEF MoteGets_SEND, Available
  <2>2. /\ UNCHANGED confirmed
        /\ m.body = "task" \/ (m.body = "close" /\ tids[m.tid] \in {"close", "gone"})
    BY <1>1, <1>7 DEF MoteGets_SEND, PacketInv
  <2>3. PICK k : k = [tid |-> m.tid, seqno |-> m.seqno, retxCount |-> 0,
                      state |-> "RECV", timer |-> FALSE]
    OBVIOUS
  <2>4. k \in PTRConnection
    BY <1>1, <2>3, PtrNetAssumption, PtrMoteAssumption DEF PTRConnection
  <2>5. PList' \in [Cid -> PTRConnection] /\ \A c \in Cid : PList'[c] = IF c = cid THEN k ELSE PList[c]
    BY <2>1, <2>3, <2>4, MoteTypes
  <2>6. /\ received' \in [Tid -> SUBSET Content]
        /\ \A t \in Tid : received'[t] = IF t = m.tid THEN received[t] \cup {m.body} ELSE received[t]
    BY <1>1, <2>1, MoteTypes
  <2>7. ASSUME NEW t \in Tid
        PROVE  received[t] \subseteq received'[t] /\ TaskInv(t)'
    <3>1. TaskInv(t)
      BY DEF IndInv
    <3> QED BY <1>2, <2>2, <2>6, <3>1 DEF TaskInv
  <2>8. ASSUME NEW c \in Cid
        PROVE  SlotInv(c)'
    <3>1. CASE c = cid
      <4>1. PList'[c] = k /\ received'[m.tid] # {}
        BY <1>1, <2>5, <2>6, <3>1
      <4> QED BY <1>1, <2>3, <4>1 DEF SlotInv
    <3>2. CASE c # cid
      <4>1. SlotInv(c) /\ PList'[c] = PList[c]
        BY <2>5, <3>2, MoteTypes
      <4>2. PList[c].tid \in Tid => received[PList[c].tid] \subseteq received'[PList[c].tid]
        BY <2>7
      <4> QED BY <4>1, <4>2 DEF SlotInv
    <3> QED BY <3>1, <3>2
  <2>9. PtrMoteTypeOK'
    BY <1>2, <1>3, <1>4, <2>2, <2>5, <2>6, MoteTypes DEF PtrMoteTypeOK, SendPktTypeOK
  <2>10. confirmed' \subseteq got
    BY <2>2, MoteTypes
  <2> QED BY <1>5, <2>7, <2>8, <2>9, <2>10, MoteKeeps
<1>8. CASE MoteGets_ACK(m)
  <2>1. UNCHANGED received /\ <<m.tid, m.seqno>> \in got
    BY <1>1, <1>8 DEF MoteGets_ACK, PacketInv
  <2>2. /\ PList' \in [Cid -> PTRConnection]
        /\ \A c \in Cid : PList'[c] = PList[c] \/ SlotInv(c)'
        /\ confirmed' \subseteq confirmed \cup {<<m.tid, m.seqno>>}
    <3>1. CASE UNCHANGED <<PList, confirmed>>
      BY <3>1, MoteTypes
    <3>2. CASE ~UNCHANGED <<PList, confirmed>>
      <4>1. PICK cid \in Matching(m.tid, m.seqno) :
              /\ PList' = [PList EXCEPT ![cid] = IdleConnection]
              /\ confirmed' = confirmed \cup {<<m.tid, PList[cid].seqno>>}
        BY <1>8, <3>2 DEF MoteGets_ACK
      <4>2. cid \in Cid /\ PList[cid].seqno = m.seqno
        BY <1>1, <4>1 DEF Matching
      <4> QED BY <2>1, <4>1, <4>2, SlotChange
    <3> QED BY <3>1, <3>2
  <2>3. PtrMoteTypeOK' /\ confirmed' \subseteq got
    BY <1>1, <1>2, <1>3, <1>4, <2>1, <2>2, MoteTypes DEF PtrMoteTypeOK, SendPktTypeOK
  <2>4. ASSUME NEW t \in Tid
        PROVE  received[t] \subseteq received'[t] /\ TaskInv(t)'
    <3>1. TaskInv(t)
      BY DEF IndInv
    <3> QED BY <1>2, <2>1, <3>1 DEF TaskInv
  <2>5. ASSUME NEW c \in Cid
        PROVE  SlotInv(c)'
    <3>1. SlotInv(c)
      BY MoteTypes
    <3> QED BY <2>1, <2>2, <3>1 DEF SlotInv
  <2> QED BY <1>5, <2>3, <2>4, <2>5, MoteKeeps
<1> QED BY <1>6, <1>7, <1>8 DEF MoteGets

LEMMA MoteStepInv ==
  ASSUME IndInv, UNCHANGED ptrMasterVars, PtrMoteNext
  PROVE  IndInv'
BY SendStep, AckSending, Retransmitting, Transmitting, SendDone, MoteReceipt, ConnTimer,
   RetryTimer
   DEF PtrMoteNext

-----------------------------------------------------------------------------
(* The invariant and what follows from it.                                 *)

LEMMA NextInv ==
  ASSUME IndInv, [Next]_vars
  PROVE  IndInv'
<1>1. CASE PtrMasterNext /\ UNCHANGED ptrMoteVars
  BY <1>1, MasterStepInv
<1>2. CASE (\E t \in Tid : "task" \in received[t] /\ StreamStarts(t)) /\ UNCHANGED ptrMoteVars
  BY <1>2, MasterStepInv
<1>3. CASE PtrMoteNext /\ UNCHANGED ptrMasterVars
  BY <1>3, MoteStepInv
<1>4. CASE \E m \in air : Vanish(m) /\ UNCHANGED <<ptrMasterVars, ptrMoteVars>>
  BY <1>4, MasterIdle DEF Vanish
<1>5. CASE UNCHANGED vars
  BY <1>5, MasterIdle DEF vars, ptrMasterVars, ptrMoteVars
<1> QED BY <1>1, <1>2, <1>3, <1>4, <1>5 DEF Next

(* IndInv holds of every state the packet transport can reach.             *)
THEOREM Invariant == Spec => []IndInv
<1>1. Init => IndInv
  BY InitInv
<1>2. IndInv /\ [Next]_vars => IndInv'
  BY NextInv
<1> QED BY <1>1, <1>2, PTL DEF Spec

(* Every variable keeps its type; in particular no counter leaves its      *)
(* range and the routing layer only ever has packets to the master.        *)
THEOREM TypeCorrect == Spec => []TypeOK
<1>1. IndInv => TypeOK
  BY DEF IndInv
<1> QED BY <1>1, Invariant, PTL

(* No client is told ACK for a task its mote has not received.             *)
THEOREM AcceptsTruly == Spec => []AcceptedTruly
<1>1. IndInv => AcceptedTruly
  BY DEF IndInv, MasterInv, AcceptedTruly
<1> QED BY <1>1, Invariant, PTL

(* No client is told both ACK and NACK for a task.                         *)
THEOREM AnswersOnce == Spec => []AnswersAgree
<1>1. IndInv => AnswersAgree
  BY DEF IndInv, MasterInv, AnswersAgree
<1> QED BY <1>1, Invariant, PTL

(* A connection of the mote ends with SUCCESS only for a packet that       *)
(* receive_packettransport was called with.                                *)
THEOREM ConfirmsReceived == Spec => []ConfirmedWasReceived
<1>1. IndInv => ConfirmedWasReceived
  BY DEF IndInv
<1> QED BY <1>1, Invariant, PTL

(* retx_PTR never runs without a packet.                                   *)
THEOREM RetransmitsSomething == Spec => []RetxHasPacket
<1>1. IndInv => RetxHasPacket
  BY DEF IndInv, MasterInv, RetxHasPacket
<1> QED BY <1>1, Invariant, PTL

(* No connection of the mote waits for an ACK without a timer.             *)
THEOREM WaitsWithTimer == Spec => []WaitHasTimer
<1>1. IndInv => WaitHasTimer
  BY DEF IndInv, SlotInv, WaitHasTimer
<1> QED BY <1>1, Invariant, PTL
=============================================================================
