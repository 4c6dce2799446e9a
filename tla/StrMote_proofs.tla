---------------------------- MODULE StrMote_proofs ----------------------------
(***************************************************************************)
(* Proofs about the mote's end of the stream transport: for any streams,   *)
(* any size of the log and of the list to retransmit, any number of tasks  *)
(* posted at a time.                                                       *)
(***************************************************************************)
EXTENDS StrMote, TrSeqno_proofs, SequenceTheorems, FiniteSetTheorems, FunctionTheorems,
        WellFoundedInduction, TLAPS

-----------------------------------------------------------------------------
(* Walks along a list.                                                     *)

(* What holds at 0 and is handed on from a number to the next holds at all. *)
LEMMA Climb ==
  ASSUME NEW n \in Nat, NEW S, 0 \in S, \A k \in 1 .. n : k - 1 \in S => k \in S
  PROVE  0 .. n \subseteq S
<1> DEFINE T == {k \in 0 .. n : k \notin S}
<1> SUFFICES ASSUME T # {}
             PROVE  FALSE
  OBVIOUS
<1>1. PICK k \in T : \A j \in T : <<j, k>> \notin OpToRel(<, Nat)
  <2>1. T \subseteq Nat
    OBVIOUS
  <2> HIDE DEF T
  <2> QED BY <2>1, WFMin, NatLessThanWellFounded, Zenon
<1>2. k \in 0 .. n /\ k \notin S /\ k # 0 /\ T \subseteq Nat
  OBVIOUS
<1>3. k \in 1 .. n /\ k - 1 \in 0 .. n /\ k - 1 < k
  BY ONLY <1>2, n \in Nat
<1>4. k - 1 \in S
  <2>1. CASE k - 1 \in T
    <3>1. <<k - 1, k>> \in Nat \X Nat
      BY <1>2, <2>1
    <3>2. <<k - 1, k>>[1] < <<k - 1, k>>[2]
      BY <1>3
    <3> HIDE DEF T
    <3>3. <<k - 1, k>> \in OpToRel(<, Nat)
      BY ONLY <3>1, <3>2, Zenon DEF OpToRel
    <3> QED BY <1>1, <2>1, <3>3, Zenon
  <2>2. CASE k - 1 \notin T
    BY <1>3, <2>2
  <2> QED BY <2>1, <2>2
<1> QED BY <1>2, <1>3, <1>4

(* A function that is defined step by step exists, if each step leads from  *)
(* what may be reached to what may be reached next.                        *)
Leads(n, T, base, step) ==
  base \in T[0] /\ \A k \in 1 .. n : \A a \in T[k - 1] : step[k][a] \in T[k]

Walks(f, n, base, step) ==
  /\ f = [k \in 0 .. n |-> f[k]] /\ f[0] = base
  /\ \A k \in 1 .. n : f[k] = step[k][f[k - 1]]

LEMMA Walk ==
  ASSUME NEW n \in Nat, NEW T, NEW base, NEW step, Leads(n, T, base, step)
  PROVE  \E f : Walks(f, n, base, step) /\ \A k \in 0 .. n : f[k] \in T[k]
<1> USE DEF Leads
<1> DEFINE Upto(f, j) == [k \in 0 .. j |-> IF k = 0 THEN base ELSE step[k][f[k - 1]]]
           S == {j \in 0 .. n : \E f : f = Upto(f, j) /\ \A k \in 0 .. j : f[k] \in T[k]}
<1>1. 0 \in S
  <2> DEFINE f == [k \in 0 .. 0 |-> base]
  <2>1. f = Upto(f, 0) /\ \A k \in 0 .. 0 : f[k] \in T[k]
    OBVIOUS
  <2> HIDE DEF f
  <2> QED BY <2>1
<1>2. ASSUME NEW j \in 1 .. n, j - 1 \in S
      PROVE  j \in S
  <2>1. PICK f : f = Upto(f, j - 1) /\ \A k \in 0 .. (j - 1) : f[k] \in T[k]
    BY <1>2
  <2> DEFINE g == [k \in 0 .. j |-> IF k = j THEN step[j][f[j - 1]] ELSE f[k]]
  <2>2. \A k \in 0 .. (j - 1) : g[k] = f[k] /\ k \in 0 .. j
    OBVIOUS
  <2>3. g[j] = step[j][f[j - 1]] /\ g[j] \in T[j]
    BY <2>1
  <2>4. \A k \in 0 .. j : g[k] = (IF k = 0 THEN base ELSE step[k][g[k - 1]])
    <3> TAKE k \in 0 .. j
    <3>1. CASE k = j
      <4>1. k # 0 /\ j - 1 \in 0 .. (j - 1)
        BY <3>1
      <4> QED BY <2>2, <2>3, <3>1, <4>1
    <3>2. CASE k # j
      <4>1. k \in 0 .. (j - 1) /\ (k # 0 => k - 1 \in 0 .. (j - 1))
        BY <3>2
      <4>2. f[k] = IF k = 0 THEN base ELSE step[k][f[k - 1]]
        BY <2>1, <4>1
      <4> QED BY <2>2, <4>1, <4>2
    <3> QED BY <3>1, <3>2
  <2>5. \A k \in 0 .. j : g[k] \in T[k]
    <3> TAKE k \in 0 .. j
    <3>1. k = j \/ k \in 0 .. (j - 1)
      BY ONLY k \in 0 .. j, j \in 1 .. n, n \in Nat
    <3> HIDE DEF g
    <3> QED BY ONLY <2>1, <2>2, <2>3, <3>1, Zenon
  <2>6. g = Upto(g, j)
    BY <2>4
  <2> HIDE DEF g
  <2> QED BY <2>5, <2>6
<1> HIDE DEF S
<1>3. 0 .. n \subseteq S
  BY <1>1, <1>2, Climb
<1>4. n \in S
  BY <1>3
<1>5. PICK f : f = Upto(f, n) /\ \A k \in 0 .. n : f[k] \in T[k]
  BY <1>4 DEF S
<1>6. /\ f = [k \in 0 .. n |-> f[k]] /\ f[0] = base
      /\ \A k \in 1 .. n : f[k] = step[k][f[k - 1]]
  <2>1. /\ f = [k \in 0 .. n |-> f[k]]
        /\ \A k \in 0 .. n : f[k] = IF k = 0 THEN base ELSE step[k][f[k - 1]]
    BY ONLY <1>5, Zenon
  <2>2. 0 \in 0 .. n /\ \A k \in 1 .. n : k \in 0 .. n /\ k # 0
    BY ONLY n \in Nat
  <2> QED BY ONLY <2>1, <2>2, Zenon
<1> QED BY <1>5, <1>6 DEF Walks

(* After k steps of a clearing, what is in l from b on is what was on the  *)
(* list up to k without the entries that are cleared.                      *)
Cleared(list, n, i, k, l, b) ==
  /\ \A j \in (k + 1) .. n : l[j] = list[j]
  /\ \A j \in b .. k : l[j][1] # i
  /\ {l[j] : j \in b .. k} = {x \in {list[j] : j \in 1 .. k} : x[1] # i}

Left(E, list, n, i, k) ==
  {a \in [l : [1 .. n -> E], first : 1 .. (k + 1)] : Cleared(list, n, i, k, a.l, a.first)}

LEMMA IsLeft ==
  ASSUME NEW E, NEW list, NEW n, NEW i, NEW k, NEW l \in [1 .. n -> E],
         NEW b \in 1 .. (k + 1), Cleared(list, n, i, k, l, b)
  PROVE  [l |-> l, first |-> b] \in Left(E, list, n, i, k)
<1>1. PICK a : a = [l |-> l, first |-> b]
  OBVIOUS
<1>2. a.l = l /\ a.first = b /\ a \in [l : [1 .. n -> E], first : 1 .. (k + 1)]
  BY <1>1
<1>3. a \in Left(E, list, n, i, k)
  BY <1>2, Zenon DEF Left
<1> QED BY <1>1, <1>3

LEMMA ClearStepLeft ==
  ASSUME NEW E, NEW n \in Nat, NEW list \in [1 .. n -> E], NEW i, NEW k \in 1 .. n,
         NEW a \in Left(E, list, n, i, k - 1)
  PROVE  ClearStep(a, k, i) \in Left(E, list, n, i, k)
<1>1. PICK l, b : l = a.l /\ b = a.first
  OBVIOUS
<1>2. /\ l \in [1 .. n -> E] /\ b \in 1 .. k
      /\ a = [l |-> l, first |-> b]
      /\ Cleared(list, n, i, k - 1, l, b)
  BY <1>1 DEF Left
<1>6. /\ \A j \in k .. n : l[j] = list[j]
      /\ \A j \in b .. (k - 1) : l[j][1] # i
      /\ {l[j] : j \in b .. (k - 1)} = {x \in {list[j] : j \in 1 .. (k - 1)} : x[1] # i}
  BY <1>2 DEF Cleared
<1>3. {list[j] : j \in 1 .. k} = {list[j] : j \in 1 .. (k - 1)} \cup {list[k]}
  <2>1. 1 .. k = (1 .. (k - 1)) \cup {k}
    OBVIOUS
  <2> QED BY <2>1
<1>4. CASE l[k][1] = i
  <2>1. PICK w : w = [l EXCEPT ![k] = l[b]]
    OBVIOUS
  <2>2. /\ w \in [1 .. n -> E] /\ b + 1 \in 1 .. (k + 1) /\ w[k] = l[b]
        /\ \A j \in 1 .. n : j # k => w[j] = l[j]
    BY <1>2, <1>6, <1>6, <2>1
  <2>3. \A j \in (k + 1) .. n : w[j] = list[j]
    BY <1>2, <1>6, <2>2
  <2>4. {w[j] : j \in (b + 1) .. k} = {l[j] : j \in b .. (k - 1)}
    <3>1. CASE b = k
      BY <3>1
    <3>2. CASE b # k
      <4>1. (b + 1) .. k = ((b + 1) .. (k - 1)) \cup {k}
            /\ b .. (k - 1) = ((b + 1) .. (k - 1)) \cup {b}
        BY <1>2, <1>6, <3>2
      <4>2. \A j \in (b + 1) .. (k - 1) : w[j] = l[j]
        BY <1>2, <1>6, <2>2
      <4> QED BY <2>2, <4>1, <4>2
    <3> QED BY <3>1, <3>2
  <2>5. \A j \in (b + 1) .. k : w[j][1] # i
    <3> TAKE j \in (b + 1) .. k
    <3>1. PICK h \in b .. (k - 1) : w[j] = l[h]
      BY <2>4
    <3> QED BY <1>2, <1>6, <3>1
  <2>6. {w[j] : j \in (b + 1) .. k} = {x \in {list[j] : j \in 1 .. k} : x[1] # i}
    <3>1. list[k] = l[k]
      BY <1>2, <1>6
    <3> QED BY <1>2, <1>6, <1>3, <1>4, <2>4, <3>1
  <2>7. ClearStep(a, k, i) = [l |-> w, first |-> b + 1]
    BY <1>1, <1>4, <2>1 DEF ClearStep
  <2>8. Cleared(list, n, i, k, w, b + 1)
    BY ONLY <2>3, <2>5, <2>6 DEF Cleared
  <2> QED BY ONLY <2>2, <2>7, <2>8, IsLeft
<1>5. CASE l[k][1] # i
  <2>1. b .. k = (b .. (k - 1)) \cup {k} /\ list[k] = l[k]
    BY <1>2, <1>6
  <2>2. {l[j] : j \in b .. k} = {x \in {list[j] : j \in 1 .. k} : x[1] # i}
    <3>1. {l[j] : j \in b .. k} = {l[j] : j \in b .. (k - 1)} \cup {l[k]}
      BY ONLY <2>1
    <3>2. {l[j] : j \in b .. (k - 1)} = {x \in {list[j] : j \in 1 .. (k - 1)} : x[1] # i}
      BY <1>6
    <3> QED BY ONLY <3>1, <3>2, <2>1, <1>3, <1>5
  <2>3. \A j \in b .. k : l[j][1] # i
    BY <1>2, <1>6, <1>5, <2>1
  <2>4. ClearStep(a, k, i) = [l |-> l, first |-> b] /\ b \in 1 .. (k + 1)
    BY <1>1, <1>2, <1>6, <1>5 DEF ClearStep
  <2>5. \A j \in (k + 1) .. n : l[j] = list[j]
    BY <1>2, <1>6
  <2>6. Cleared(list, n, i, k, l, b)
    BY ONLY <2>2, <2>3, <2>5 DEF Cleared
  <2> QED BY ONLY <1>2, <2>4, <2>6, IsLeft
<1> QED BY <1>4, <1>5

(* A clearing of the list takes off what is cleared and nothing else.       *)
LEMMA Clears ==
  ASSUME NEW E, NEW list \in Seq(E), NEW i
  PROVE  /\ ClearID(list, i) \in Seq(E) /\ Len(ClearID(list, i)) <= Len(list)
         /\ Range(ClearID(list, i)) = {x \in Range(list) : x[1] # i}
<1>0. PICK n \in Nat : n = Len(list) /\ list \in [1 .. n -> E] /\ DOMAIN list = 1 .. n
  BY LenProperties
<1> DEFINE Acc(k) == Left(E, list, n, i, k)
           base == [l |-> list, first |-> 1]
           F(f) == [k \in 0 .. n |-> IF k = 0 THEN base ELSE ClearStep(f[k - 1], k, i)]
           out == CHOOSE f : f = F(f)
<1>1. n \in Nat /\ list \in [1 .. n -> E] /\ base \in Acc(0)
  <2>1. {list[j] : j \in 1 .. 0} = {} /\ 1 \in 1 .. (0 + 1)
    OBVIOUS
  <2>2. Cleared(list, n, i, 0, list, 1)
    BY <2>1 DEF Cleared
  <2> QED BY <1>0, <2>1, <2>2, IsLeft
<1>2. ASSUME NEW k \in 1 .. n, NEW a \in Acc(k - 1)
      PROVE  ClearStep(a, k, i) \in Acc(k)
  BY <1>1, <1>2, ClearStepLeft
<1>3. \E f : f = F(f)
  <2>1. PICK T : T = [k \in 0 .. n |-> Acc(k)]
    OBVIOUS
  <2>2. PICK step : step = [k \in 1 .. n |-> [a \in Acc(k - 1) |-> ClearStep(a, k, i)]]
    OBVIOUS
  <2>3. \E f : Walks(f, n, base, step) /\ \A k \in 0 .. n : f[k] \in T[k]
    <3>1. ASSUME NEW k \in 1 .. n, NEW a \in T[k - 1]
          PROVE  step[k][a] \in T[k]
      <4>1. k - 1 \in 0 .. n /\ k \in 0 .. n
        BY <1>1
      <4>2. T[k - 1] = Acc(k - 1) /\ T[k] = Acc(k)
        BY <2>1, <4>1
      <4>3. step[k][a] = ClearStep(a, k, i)
        BY <2>2, <3>1, <4>2
      <4> HIDE DEF Acc
      <4> QED BY <1>2, <3>1, <4>2, <4>3
    <3>2. base \in T[0]
      BY <1>1, <2>1
    <3>3. Leads(n, T, base, step)
      BY <3>1, <3>2 DEF Leads
    <3> HIDE DEF base
    <3> QED BY ONLY <1>1, <3>3, Walk
  <2>a. PICK f : Walks(f, n, base, step) /\ \A k \in 0 .. n : f[k] \in T[k]
    BY <2>3
  <2>4. ASSUME NEW k \in 1 .. n
        PROVE  step[k][f[k - 1]] = ClearStep(f[k - 1], k, i)
    <3>1. k - 1 \in 0 .. n
      BY <1>1
    <3>2. f[k - 1] \in Acc(k - 1)
      BY <2>1, <2>a, <3>1
    <3> QED BY <2>2, <3>2
  <2>5. f = F(f)
    <3>1. /\ f = [k \in 0 .. n |-> f[k]] /\ f[0] = base
          /\ \A k \in 1 .. n : f[k] = ClearStep(f[k - 1], k, i)
      BY ONLY <2>a, <2>4 DEF Walks
    <3>2. \A k \in 0 .. n : k = 0 \/ k \in 1 .. n
      BY <1>1
    <3> HIDE DEF base
    <3> QED BY ONLY <3>1, <3>2
  <2> QED BY <2>5
<1>4. out = F(out)
  BY <1>3, Zenon
<1> HIDE DEF out
<1> DEFINE S == {k \in 0 .. n : out[k] \in Acc(k)}
<1>5. 0 .. n \subseteq S
  <2>1. 0 \in S
    <3>1. out[0] = base
      BY <1>1, <1>4
    <3> QED BY <1>1, <3>1
  <2>2. ASSUME NEW k \in 1 .. n, k - 1 \in S
        PROVE  k \in S
    <3>1. out[k - 1] \in Acc(k - 1)
      BY <2>2
    <3>2. out[k] = ClearStep(out[k - 1], k, i)
      BY <1>4
    <3> QED BY <1>2, <3>1, <3>2
  <2> HIDE DEF S
  <2> QED BY <1>1, <2>1, <2>2, Climb
<1>6. out[n] \in Acc(n)
  BY <1>1, <1>5
<1>7. PICK l, b : /\ l = out[n].l /\ b = out[n].first /\ l \in [1 .. n -> E]
                  /\ b \in 1 .. (n + 1) /\ Cleared(list, n, i, n, l, b)
  BY <1>6 DEF Left
<1>8. PICK w : w = SubSeq(l, b, n)
  OBVIOUS
<1>9. /\ w \in Seq(E) /\ Len(w) = (IF b <= n THEN n - b + 1 ELSE 0)
      /\ \A j \in 1 .. Len(w) : w[j] = l[b + j - 1]
  <2>1. \A k \in b .. n : l[k] \in E
    BY <1>1, <1>7
  <2>2. b \in Int /\ n \in Int
    BY <1>1, <1>7
  <2> QED BY ONLY <1>8, <2>1, <2>2, SubSeqProperties
<1>10. Range(w) = {l[j] : j \in b .. n}
  <2>1. DOMAIN w = 1 .. Len(w)
    BY <1>9, LenProperties
  <2>2. ASSUME NEW j \in b .. n
        PROVE  \E k \in 1 .. Len(w) : w[k] = l[j]
    <3>0. b \in 1 .. (n + 1) /\ Len(w) = (IF b <= n THEN n - b + 1 ELSE 0)
      BY <1>7, <1>9
    <3>1. j - b + 1 \in 1 .. Len(w) /\ b + (j - b + 1) - 1 = j
      BY ONLY <3>0, n \in Nat, j \in b .. n
    <3> QED BY <1>9, <3>1
  <2>3. ASSUME NEW k \in 1 .. Len(w)
        PROVE  w[k] \in {l[j] : j \in b .. n}
    <3>1. b + k - 1 \in b .. n
      BY <1>1, <1>7, <1>9
    <3> QED BY <1>9, <3>1
  <2> QED BY <2>1, <2>2, <2>3 DEF Range
<1>11. Range(w) = {x \in Range(list) : x[1] # i}
  <2>1. Range(list) = {list[j] : j \in 1 .. n}
    BY <1>0 DEF Range
  <2> QED BY <1>7, <1>10, <2>1 DEF Cleared
<1>12. ClearID(list, i) = w
  BY <1>0, <1>7, <1>8, Zenon DEF ClearID, out
<1> QED BY <1>0, <1>1, <1>7, <1>9, <1>11, <1>12

-----------------------------------------------------------------------------
(* Types.                                                                  *)

States    == {"IDLE", "SYN_SEND", "SYN_ACK_WAIT", "ACTIVE", "FIN_SEND", "FIN_ACK_WAIT"}
TaskName  == {"writeLogger", "readLogger", "eraseLogger", "retransmitDataPacket",
              "send_SYN", "send_FIN"}
Flag      == {"WRITE_LOGGER", "READ_LOGGER", "RETRANSMIT", "SYN", "FIN"}
Buf       == {Erased} \cup (Stream \X Seqno)
ConnType  == [s : Stream \cup {None}, state : States, lastSent : Seqno0,
              finCnt : 0 .. (MaxNumRetx - 1)]
RouteType == [s : Stream \cup {None}, flag : {"none"} \cup MasterFlag, seqno : Seqno0,
              list : {{}}]
OpType    == [kind : {"none", "write", "read", "erase"}, vol : Volumes, idx : Indexes,
              pkt : Buf]
BlockType == [ready : BOOLEAN, currVol : 0 .. 1, nextIndex : Indexes,
              dirty : [0 .. 1 -> BOOLEAN]]
LogType   == [state : {"init", "erase", "idle"}, b : [Conns -> BlockType],
              vol : [Volumes -> [Indexes -> Buf]], op : OpType]
RecType   == [c : [Conns -> ConnType], timer : [Conns -> BOOLEAN],
              psd : [Conns -> BOOLEAN], routing : RouteType, wbuf : Buf,
              writebusy : BOOLEAN, rbuf : Buf, readbusy : BOOLEAN,
              eeprom : {"init", "idle", "busy"}, eraseid : Conns,
              rlist : Seq(Conns \X Seqno), pending : SUBSET Flag,
              posted : Seq(TaskName), log : LogType, sent : [Stream -> 0 .. MaxData],
              opened : SUBSET Stream, closed : SUBSET Stream,
              aired : SUBSET (Stream \X {"SYN", "FIN"}), owed : SUBSET Stream]

(* A connection without a stream is one that is idle.                      *)
Mote == {r \in RecType : /\ Len(r.rlist) <= RListLen
                         /\ \A i \in Conns : r.c[i].s = None <=> r.c[i].state = "IDLE"}

Typed == net \in SUBSET Packet /\ m \in Mote

LEMMA Consts ==
  /\ FlashPkts \in Nat \ {0} /\ Indexes = 0 .. (FlashPkts - 1) /\ Conns = {0, 1}
  /\ Volumes = 0 .. 3 /\ Seqno = 1 .. TrMaxSeqno /\ Seqno0 = 0 .. TrMaxSeqno
  /\ TrMaxSeqno \in Nat \ {0} /\ MaxNumRetx \in 1 .. TrMaxSeqno /\ RListLen \in Nat
  /\ Sends \in [Stream -> 0 .. MaxData] /\ MaxData \in Nat /\ None \notin Stream
  /\ Cid \in [Stream -> Stream]
BY StrMoteAssumption, StrLoggerAssumption, TrSeqnoAssumption
   DEF Indexes, Conns, Volumes, Seqno, Seqno0, TrFirstSeqno

LEMMA IndexType ==
  ASSUME NEW n \in Int
  PROVE  n % FlashPkts \in Indexes
BY Consts

LEMMA IndexOfType ==
  ASSUME NEW n \in Int
  PROVE  IndexOf(n) \in Indexes /\ (IndexOf(n) + 1) % FlashPkts \in Indexes
<1>1. IndexOf(n) \in Indexes
  <2>1. n - 1 \in Int
    OBVIOUS
  <2> QED BY <2>1, IndexType DEF IndexOf
<1>2. IndexOf(n) + 1 \in Int
  BY <1>1, Consts
<1> QED BY <1>1, <1>2, IndexType

LEMMA NextType == ASSUME NEW n \in Seqno0 PROVE SeqNext(n) \in Seqno
BY Consts DEF SeqNext, TrFirstSeqno

(* The least of the connections that satisfy something.                    *)
LEMMA LeastConn ==
  ASSUME NEW S, S \subseteq Conns, S # {}
  PROVE  /\ Min(S) \in S /\ Min(S) \in Conns
         /\ \A i \in S : Min(S) <= i
<1>1. \A i \in S : i = 0 \/ i = 1
  BY Consts
<1>4. \E i \in S : \A j \in S : i <= j
  <2>1. CASE 0 \in S
    BY <1>1, <2>1
  <2>2. CASE 0 \notin S
    BY <1>1, <2>2
  <2> QED BY <2>1, <2>2
<1> QED BY <1>4 DEF Min

-----------------------------------------------------------------------------
(* The log.                                                                *)

LEMMA OpTyped ==
  ASSUME NEW kind \in {"none", "write", "read", "erase"}, NEW v \in Volumes,
         NEW x \in Indexes, NEW p \in Buf
  PROVE  Op(kind, v, x, p) \in OpType /\ Op(kind, v, x, p).kind = kind
BY DEF Op, OpType

LEMMA ZeroTyped == NoOp \in OpType /\ NoOp.kind = "none" /\ 0 \in Indexes /\ Erased \in Buf
BY Consts DEF NoOp, OpType, Buf

LEMMA EraseVolTyped ==
  ASSUME NEW log \in LogType, NEW v \in Volumes
  PROVE  /\ EraseVol(log, v) \in LogType
         /\ EraseVol(log, v).op.kind = IF log.op.kind = "none" THEN "erase" ELSE log.op.kind
<1>1. Op("erase", v, 0, Erased) \in OpType /\ Op("erase", v, 0, Erased).kind = "erase"
  BY OpTyped, ZeroTyped
<1> QED BY <1>1 DEF EraseVol, FlashIdle, LogType

LEMMA LogInitTyped == LogInit \in LogType /\ LogInit.op.kind = "erase"
<1>1. Op("erase", 0, 0, Erased) \in OpType /\ Op("erase", 0, 0, Erased).kind = "erase"
  BY OpTyped, ZeroTyped, Consts
<1> QED BY <1>1, ZeroTyped, Consts DEF LogInit, LogType, BlockType

LEMMA LogEraseTyped ==
  ASSUME NEW log \in LogType, NEW i \in Conns
  PROVE  /\ LogErase(log, i) \in LogType
         /\ log.op.kind # "none" => LogErase(log, i).op.kind = log.op.kind
         /\ log.op.kind = "none" => LogErase(log, i).op.kind \in {"none", "erase"}
<1>1. PICK w : w = [log EXCEPT !.state = "erase",
                    !.b[i] = [@ EXCEPT !.ready = FALSE, !.currVol = 0, !.nextIndex = 0]]
  OBVIOUS
<1>2. w \in LogType /\ w.op = log.op
  <2>1. [log.b[i] EXCEPT !.ready = FALSE, !.currVol = 0, !.nextIndex = 0] \in BlockType
    <3>1. log.b[i] \in BlockType /\ 0 \in 0 .. 1 /\ 0 \in Indexes
      BY ZeroTyped DEF LogType
    <3> QED BY <3>1 DEF BlockType
  <2> QED BY <1>1, <2>1 DEF LogType
<1>3. 2 * i \in Volumes
  BY Consts
<1> QED BY <1>1, <1>2, <1>3, EraseVolTyped, ZenonT(30) DEF LogErase

LEMMA LogWriteTyped ==
  ASSUME NEW log \in LogType, NEW i \in Conns, NEW p \in Stream \X Seqno
  PROVE  LogWrite(log, i, p) \in LogType /\ LogWrite(log, i, p).op.kind = "write"
<1>1. 2 * i + log.b[i].currVol \in Volumes /\ p[2] \in Int /\ log.b[i] \in BlockType
  BY Consts DEF LogType, BlockType
<1>2. IndexOf(p[2]) \in Indexes /\ (IndexOf(p[2]) + 1) % FlashPkts \in Indexes
  BY <1>1, IndexOfType
<1>3. PICK o \in OpType : o = Op("write", 2 * i + log.b[i].currVol, IndexOf(p[2]), p)
                          /\ o.kind = "write"
  BY <1>1, <1>2, OpTyped DEF Buf
<1>4. [log.b[i] EXCEPT !.nextIndex = (IndexOf(p[2]) + 1) % FlashPkts] \in BlockType
  BY <1>1, <1>2 DEF BlockType
<1> QED BY <1>3, <1>4 DEF LogWrite, LogType

LEMMA LogReadTyped ==
  ASSUME NEW log \in LogType, NEW i \in Conns, NEW n \in Seqno
  PROVE  LogRead(log, i, n) \in LogType /\ LogRead(log, i, n).op.kind = "read"
<1>1. ((n - 1) \div FlashPkts) % 2 \in 0 .. 1
  BY Consts
<1>2. 2 * i + (((n - 1) \div FlashPkts) % 2) \in Volumes
  BY <1>1, Consts
<1>3. IndexOf(n) \in Indexes
  <2>1. n \in Int
    BY Consts
  <2> QED BY <2>1, IndexOfType
<1> QED BY <1>2, <1>3, ZeroTyped, OpTyped, ZenonT(30) DEF LogRead, LogType

LEMMA LogWrittenTyped ==
  ASSUME NEW log \in LogType
  PROVE  LogWritten(log) \in LogType /\ LogWritten(log).op.kind \in {"none", "erase"}
<1>1. PICK i, k, o : i = log.op.vol \div 2 /\ k = log.b[i].currVol /\ o = log.op
  OBVIOUS
<1>2. i \in Conns /\ k \in 0 .. 1 /\ o \in OpType /\ log.b[i] \in BlockType /\ 1 - k \in 0 .. 1
      /\ 2 * i + (1 - k) \in Volumes
  <2>1. o \in OpType /\ log.op.vol \in 0 .. 3
    BY <1>1, Consts DEF LogType, OpType
  <2>2. i \in Conns
    BY <1>1, <2>1, Consts
  <2>3. log.b[i] \in BlockType /\ k \in 0 .. 1
    BY <1>1, <2>2 DEF LogType, BlockType
  <2> QED BY <2>1, <2>2, <2>3, Consts
<1>3. PICK w : w = [log EXCEPT !.vol[o.vol][o.idx] = o.pkt, !.op = NoOp]
  OBVIOUS
<1>4. w \in LogType /\ w.op = NoOp /\ w.b = log.b
  BY <1>2, <1>3, ZeroTyped DEF LogType, OpType
<1>5. PICK full : full = [w EXCEPT !.b[i].dirty[k] = TRUE, !.b[i].currVol = 1 - k]
  OBVIOUS
<1>6. full \in LogType /\ full.op = NoOp
  <2>1. [log.b[i] EXCEPT !.dirty[k] = TRUE, !.currVol = 1 - k] \in BlockType
    BY <1>2 DEF BlockType
  <2> QED BY <1>2, <1>4, <1>5, <2>1, ZenonT(30) DEF LogType, BlockType
<1>7. /\ EraseVol(full, 2 * i + (1 - k)) \in LogType
      /\ EraseVol(full, 2 * i + (1 - k)).op.kind = "erase"
  BY <1>2, <1>6, EraseVolTyped, ZeroTyped
<1>8. LogWritten(log) \in {w, full, EraseVol(full, 2 * i + (1 - k))}
  BY <1>1, <1>3, <1>5 DEF LogWritten
<1> QED BY <1>4, <1>6, <1>7, <1>8, ZeroTyped

LEMMA LogEraseDoneTyped ==
  ASSUME NEW log \in LogType
  PROVE  LogEraseDone(log) \in LogType /\ LogEraseDone(log).op.kind \in {"none", "erase"}
<1>1. PICK v, i : v = log.op.vol /\ i = v \div 2
  OBVIOUS
<1>2. v \in 0 .. 3 /\ i \in Conns /\ v % 2 \in 0 .. 1 /\ log.b[i] \in BlockType
  BY <1>1, Consts DEF LogType, OpType
<1>3. PICK e : e = [log EXCEPT !.op = NoOp, !.b[i].dirty[v % 2] = FALSE,
                               !.vol[v] = [x \in Indexes |-> Erased]]
  OBVIOUS
<1>4. e \in LogType /\ e.op = NoOp
  BY <1>2, <1>3, ZeroTyped, Consts DEF LogType, BlockType
<1>5. CASE v % 2 = 0
  <2>1. v + 1 \in Volumes
    BY <1>2, <1>5, Consts
  <2>2. EraseVol(e, v + 1) \in LogType /\ EraseVol(e, v + 1).op.kind = "erase"
    BY <1>4, <2>1, EraseVolTyped, ZeroTyped, ZenonT(30)
  <2>3. LogEraseDone(log) \in {e, EraseVol(e, v + 1)}
    BY <1>1, <1>3, <1>5 DEF LogEraseDone
  <2> QED BY <1>4, <2>2, <2>3, ZeroTyped
<1>6. CASE v % 2 # 0
  <2>1. PICK a, b : a = [e EXCEPT !.b[0].ready = TRUE]
                    /\ b = [e EXCEPT !.b[i].ready = TRUE, !.state = "idle"]
    OBVIOUS
  <2>2. a \in LogType /\ a.op = NoOp /\ b \in LogType /\ b.op = NoOp
    BY <1>2, <1>4, <2>1, Consts, ZenonT(30) DEF LogType, BlockType
  <2>3. EraseVol(a, 2) \in LogType /\ EraseVol(a, 2).op.kind = "erase"
    BY <2>2, EraseVolTyped, ZeroTyped, Consts, SMTT(30)
  <2>4. LogEraseDone(log) \in {e, EraseVol(a, 2), b}
    BY <1>1, <1>3, <1>6, <2>1, Zenon DEF LogEraseDone
  <2> QED BY <1>4, <2>2, <2>3, <2>4, ZeroTyped
<1> QED BY <1>5, <1>6

-----------------------------------------------------------------------------
(* What every step does to the state of the mote, type by type.            *)

LEMMA PostTyped ==
  ASSUME NEW r \in Mote, NEW task \in TaskName
  PROVE  Post(r, task) \in Mote
<1>1. Append(r.posted, task) \in Seq(TaskName)
  BY AppendProperties DEF Mote, RecType
<1> QED BY <1>1, ZenonT(30) DEF Post, Mote, RecType

LEMMA TryLaterTyped ==
  ASSUME NEW r \in Mote, NEW flag \in Flag
  PROVE  TryLater(r, flag) \in Mote
BY ZenonT(30) DEF TryLater, Mote, RecType

LEMMA FreeReadTyped ==
  ASSUME NEW r \in Mote
  PROVE  FreeRead(r) \in Mote
BY ZenonT(30) DEF FreeRead, Mote, RecType, Buf

LEMMA SignalledTyped ==
  ASSUME NEW r \in Mote, NEW i \in Conns
  PROVE  Signalled(r, i) \in Mote
BY DEF Signalled, Mote, RecType

LEMMA IdleTyped == IdleConn \in ConnType /\ IdleConn.s = None /\ IdleConn.state = "IDLE"
BY Consts DEF IdleConn, ConnType, States

(* A connection whose state changes and that has a stream before and after. *)
LEMMA ConnTyped ==
  ASSUME NEW r \in Mote, NEW i \in Conns, NEW c \in ConnType,
         c.s = None <=> c.state = "IDLE"
  PROVE  [r EXCEPT !.c[i] = c] \in Mote
BY ZenonT(30) DEF Mote, RecType

LEMMA ResetTyped ==
  ASSUME NEW r \in Mote, NEW i \in Conns, r.c[i].s # None
  PROVE  ResetConnection(r, i) \in Mote
<1>1. r.c[i].s \in Stream
  BY DEF Mote, RecType, ConnType
<1> QED BY <1>1, IdleTyped, ZenonT(30) DEF ResetConnection, Mote, RecType

LEMMA FinishedTyped ==
  ASSUME NEW r \in Mote, NEW i \in Conns, r.c[i].s # None
  PROVE  Finished(r, i) \in Mote
<1>1. PICK q \in Mote : q = ResetConnection(r, i)
  BY ResetTyped
<1>2. /\ ClearID(q.rlist, i) \in Seq(Conns \X Seqno)
      /\ Len(ClearID(q.rlist, i)) <= RListLen
  <2>1. q.rlist \in Seq(Conns \X Seqno) /\ Len(q.rlist) <= RListLen
    BY DEF Mote, RecType
  <2>2. Len(ClearID(q.rlist, i)) \in Nat /\ Len(q.rlist) \in Nat
    BY <2>1, Clears, LenProperties
  <2> QED BY <2>1, <2>2, Clears, Consts
<1>3. [q EXCEPT !.rlist = ClearID(@, i), !.eraseid = i] \in Mote
  BY <1>2, ZenonT(30) DEF Mote, RecType
<1> QED BY <1>1, <1>3, PostTyped DEF Finished, TaskName

(* Which connections a cid or a stream finds.                              *)
LEMMA FoundByCid ==
  ASSUME NEW r \in Mote, NEW p \in Buf
  PROVE  /\ WithCid(r, p) \subseteq Conns
         /\ \A i \in WithCid(r, p) : /\ p \in Stream \X Seqno /\ r.c[i].s \in Stream
                                     /\ Cid[r.c[i].s] = Cid[p[1]]
         /\ WithCid(r, p) # {} =>
              /\ Min(WithCid(r, p)) \in Conns /\ p \in Stream \X Seqno
              /\ r.c[Min(WithCid(r, p))].s \in Stream
<1>1. /\ WithCid(r, p) \subseteq Conns
      /\ \A i \in WithCid(r, p) : /\ p # Erased /\ r.c[i].s # None
                                  /\ Cid[r.c[i].s] = Cid[p[1]]
  BY Consts DEF WithCid
<1>2. \A i \in Conns : r.c[i].s \in Stream \cup {None}
  BY DEF Mote, RecType, ConnType
<1>3. \A i \in WithCid(r, p) : /\ p \in Stream \X Seqno /\ r.c[i].s \in Stream
                               /\ Cid[r.c[i].s] = Cid[p[1]]
  BY <1>1, <1>2 DEF Buf
<1> QED BY <1>1, <1>3, LeastConn

LEMMA FoundByStream ==
  ASSUME NEW r \in Mote, NEW s
  PROVE  /\ Valid(r, s) \subseteq Conns
         /\ Valid(r, s) # {} => /\ Min(Valid(r, s)) \in Conns /\ s \in Stream
                                /\ r.c[Min(Valid(r, s))].s = s
<1>1. \A i \in Conns : r.c[i].s \in Stream \cup {None}
  BY DEF Mote, RecType, ConnType
<1> QED BY <1>1, LeastConn DEF Valid

LEMMA SendingTyped ==
  ASSUME net \in SUBSET Packet, NEW q \in Packet
  PROVE  Sending(net, q) \in SUBSET Packet
BY DEF Sending

LEMMA PktTyped ==
  ASSUME NEW s \in Stream, NEW flag \in MasterFlag, NEW n \in Seqno0
  PROVE  Pkt(s, flag, n) \in Packet /\ Pkt(s, flag, n) \in RouteType
         /\ Pkt(s, flag, n).s = s /\ Pkt(s, flag, n).flag = flag
BY DEF Pkt, Packet, RouteType

LEMMA OpenTyped ==
  ASSUME Typed, NEW s \in Stream, ConnectionSend_open(s)
  PROVE  Typed'
<1>1. CASE {i \in Conns : m.c[i].state = "IDLE"} = {}
  BY <1>1, PostTyped DEF Typed, ConnectionSend_open, TaskName
<1>2. CASE {i \in Conns : m.c[i].state = "IDLE"} # {}
  <2>1. PICK i \in Conns : i = Min({j \in Conns : m.c[j].state = "IDLE"})
    BY <1>2, LeastConn
  <2>2. PICK c : c = [m.c[i] EXCEPT !.s = s, !.state = "SYN_SEND"]
    OBVIOUS
  <2>3. c \in ConnType /\ c.s # None /\ c.state # "IDLE"
    <3>1. m.c[i] \in ConnType
      BY DEF Typed, Mote, RecType
    <3> QED BY <2>2, <3>1, Consts DEF ConnType, States
  <2>4. [m EXCEPT !.c[i] = c, !.opened = @ \cup {s}] \in Mote
    BY <2>3, ZenonT(30) DEF Typed, Mote, RecType
  <2>5. m' = Post([m EXCEPT !.c[i] = c, !.opened = @ \cup {s}], "send_SYN")
    BY <1>2, <2>1, <2>2 DEF ConnectionSend_open
  <2> QED BY <2>4, <2>5, PostTyped DEF Typed, ConnectionSend_open, TaskName
<1> QED BY <1>1, <1>2

LEMMA SendTyped ==
  ASSUME Typed, NEW s \in Stream, ConnectionSend_send(s)
  PROVE  Typed'
<1>1. PICK i \in WithCid(m, <<s, 0>>) :
        LET n == SeqNext(m.c[i].lastSent)
            q == Pkt(m.c[i].s, "DATA", n)
        IN  /\ m.c[i].state = "ACTIVE" /\ m.routing = NoPkt /\ ~m.writebusy
            /\ m' = Post([m EXCEPT !.c[i].lastSent = n, !.routing = q,
                           !.wbuf = <<s, n>>, !.writebusy = TRUE,
                           !.sent[s] = @ + 1, !.owed = @ \cup {s}], "writeLogger")
            /\ net' = Sending(net, q)
  BY DEF ConnectionSend_send
<1>2. PICK n, q : n = SeqNext(m.c[i].lastSent) /\ q = Pkt(m.c[i].s, "DATA", n)
  OBVIOUS
<1>3. i \in Conns /\ m.c[i] \in ConnType /\ m.c[i].s \in Stream
  BY <1>1, Consts DEF WithCid, Typed, Mote, RecType, ConnType
<1>4. n \in Seqno /\ n \in Seqno0 /\ q \in Packet /\ q \in RouteType
  <2>1. m.c[i].lastSent \in Seqno0
    BY <1>3 DEF ConnType
  <2>2. n \in Seqno /\ n \in Seqno0
    <3>1. n \in Seqno
      BY <1>2, <2>1, NextType
    <3> QED BY <3>1, Consts
  <2> QED BY <1>2, <1>3, <2>2, PktTyped DEF MasterFlag
<1>5. m.sent[s] + 1 \in 0 .. MaxData
  BY Consts DEF ConnectionSend_send, Typed, Mote, RecType
<1>6. PICK r : r = [m EXCEPT !.c[i].lastSent = n, !.routing = q,
                           !.wbuf = <<s, n>>, !.writebusy = TRUE,
                           !.sent[s] = @ + 1, !.owed = @ \cup {s}]
  OBVIOUS
<1>7. r \in Mote
  <2>1. PICK c : c = [m.c[i] EXCEPT !.lastSent = n]
    OBVIOUS
  <2>2. c \in ConnType /\ c.s = m.c[i].s /\ c.state = m.c[i].state
    BY <1>3, <1>4, <2>1 DEF ConnType
  <2>3. <<s, n>> \in Buf
    BY <1>4 DEF Buf
  <2>4. r = [m EXCEPT !.c = [m.c EXCEPT ![i] = c], !.routing = q, !.wbuf = <<s, n>>,
                      !.writebusy = TRUE, !.sent = [m.sent EXCEPT ![s] = @ + 1],
                      !.owed = m.owed \cup {s}]
    BY <1>3, <1>6, <2>1 DEF Typed, Mote, RecType
  <2>5. /\ [m.sent EXCEPT ![s] = @ + 1] \in [Stream -> 0 .. MaxData]
        /\ [m.c EXCEPT ![i] = c] \in [Conns -> ConnType]
        /\ m.owed \cup {s} \in SUBSET Stream
    BY <1>5, <2>2 DEF Typed, Mote, RecType
  <2>6. r \in RecType /\ r.rlist = m.rlist /\ r.c = [m.c EXCEPT ![i] = c]
    BY <1>4, <2>3, <2>4, <2>5, ZenonT(30) DEF Typed, Mote, RecType
  <2>7. \A j \in Conns : r.c[j].s = m.c[j].s /\ r.c[j].state = m.c[j].state
    BY <1>3, <2>2, <2>6 DEF Typed, Mote, RecType
  <2> QED BY <2>6, <2>7 DEF Typed, Mote
<1>8. m' = Post(r, "writeLogger") /\ net' = Sending(net, q)
  BY <1>1, <1>2, <1>6
<1> QED BY <1>4, <1>7, <1>8, PostTyped, SendingTyped DEF Typed, TaskName

LEMMA CloseTyped ==
  ASSUME Typed, NEW s \in Stream, ConnectionSend_close(s)
  PROVE  Typed'
<1>1. PICK gone : gone = [m EXCEPT !.closed = @ \cup {s}]
  OBVIOUS
<1>2. gone \in Mote /\ gone.c = m.c
  BY <1>1, ZenonT(30) DEF Typed, Mote, RecType
<1>3. CASE WithCid(m, <<s, 0>>) = {}
  BY <1>1, <1>2, <1>3 DEF ConnectionSend_close, Typed
<1>4. CASE WithCid(m, <<s, 0>>) # {}
  <2>1. PICK i : i = Min(WithCid(m, <<s, 0>>)) /\ i \in WithCid(m, <<s, 0>>)
    <3>1. WithCid(m, <<s, 0>>) \subseteq Conns
      BY Consts, ZenonT(30) DEF WithCid
    <3> QED BY <1>4, <3>1, LeastConn
  <2>2. i \in Conns /\ m.c[i] \in ConnType /\ m.c[i].s # None
    BY <2>1, Consts DEF WithCid, Typed, Mote, RecType
  <2>3. PICK c : c = [m.c[i] EXCEPT !.state = "FIN_SEND"]
    OBVIOUS
  <2>4. c \in ConnType /\ c.s # None /\ c.state # "IDLE"
    BY <2>2, <2>3 DEF ConnType, States
  <2>5. [gone EXCEPT !.c[i] = c] \in Mote
    BY <1>2, <2>2, <2>4, ConnTyped
  <2>6. m' = Post([gone EXCEPT !.c[i] = c], "send_FIN")
    BY <1>1, <1>2, <1>4, <2>1, <2>3 DEF ConnectionSend_close, Typed, Mote, RecType
  <2> QED BY <2>5, <2>6, PostTyped DEF Typed, ConnectionSend_close, TaskName
<1> QED BY <1>3, <1>4

-----------------------------------------------------------------------------
(* The tasks.                                                              *)

LEMMA WriteTyped ==
  ASSUME NEW r \in Mote
  PROVE  writeLogger(r) \in Mote
<1>1. CASE WithCid(r, r.wbuf) = {} \/ ~r.writebusy
  BY <1>1 DEF writeLogger
<1>2. CASE WithCid(r, r.wbuf) # {} /\ r.writebusy
  <2>1. PICK i \in Conns : i = Min(WithCid(r, r.wbuf)) /\ r.wbuf \in Stream \X Seqno
    BY <1>2, FoundByCid DEF Mote, RecType
  <2>2. LogWrite(r.log, i, r.wbuf) \in LogType
    BY <2>1, LogWriteTyped DEF Mote, RecType
  <2>3. [r EXCEPT !.log = LogWrite(@, i, r.wbuf), !.eeprom = "busy"] \in Mote
    BY <2>2, ZenonT(30) DEF Mote, RecType
  <2>4. TryLater(r, "WRITE_LOGGER") \in Mote
    BY TryLaterTyped DEF Flag
  <2> QED BY <1>2, <2>1, <2>3, <2>4 DEF writeLogger
<1> QED BY <1>1, <1>2

LEMMA ReadTyped ==
  ASSUME NEW r \in Mote
  PROVE  readLogger(r) \in Mote
<1>1. CASE r.readbusy \/ r.rlist = <<>>
  BY <1>1 DEF readLogger
<1>2. CASE ~r.readbusy /\ r.rlist # <<>>
  <2>1. PICK i \in Conns, n \in Seqno : i = Head(r.rlist)[1] /\ n = Head(r.rlist)[2]
    BY <1>2, HeadTailProperties, SMTT(30) DEF Mote, RecType
  <2>2. [r EXCEPT !.rlist = Tail(@)] \in Mote
    <3>1. Tail(r.rlist) \in Seq(Conns \X Seqno) /\ Len(Tail(r.rlist)) = Len(r.rlist) - 1
          /\ Len(r.rlist) \in Nat
      BY <1>2, HeadTailProperties, LenProperties DEF Mote, RecType
    <3>2. Len(Tail(r.rlist)) <= RListLen
      BY <3>1, Consts DEF Mote
    <3> QED BY <3>1, <3>2 DEF Mote, RecType
  <2>3. Post([r EXCEPT !.rlist = Tail(@)], "readLogger") \in Mote
    BY <2>2, PostTyped DEF TaskName
  <2>4. LogRead(r.log, i, n) \in LogType
    BY LogReadTyped DEF Mote, RecType
  <2>5. [r EXCEPT !.log = LogRead(@, i, n), !.eeprom = "busy", !.readbusy = TRUE] \in Mote
    BY <2>4, ZenonT(30) DEF Mote, RecType
  <2>6. TryLater(r, "READ_LOGGER") \in Mote
    BY TryLaterTyped DEF Flag
  <2> QED BY <1>2, <2>1, <2>3, <2>5, <2>6 DEF readLogger
<1> QED BY <1>1, <1>2

LEMMA EraseTyped ==
  ASSUME NEW r \in Mote
  PROVE  eraseLogger(r) \in Mote
<1>1. LogErase(r.log, r.eraseid) \in LogType
  BY LogEraseTyped DEF Mote, RecType
<1>2. PICK asked \in Mote : asked = [r EXCEPT !.log = LogErase(@, r.eraseid)]
  BY <1>1 DEF Mote, RecType
<1>3. [asked EXCEPT !.eeprom = "init"] \in Mote
  BY ZenonT(30) DEF Mote, RecType
<1>4. TryLater(asked, "WRITE_LOGGER") \in Mote
  BY TryLaterTyped DEF Flag
<1> QED BY <1>2, <1>3, <1>4 DEF eraseLogger

LEMMA HandsOverTyped ==
  ASSUME net \in SUBSET Packet, NEW r \in Mote, NEW q \in Packet, q \in RouteType,
         NEW accepted \in Mote, NEW flag \in Flag, NEW ok, HandsOver(r, q, accepted, flag, ok)
  PROVE  Typed'
<1>1. [accepted EXCEPT !.routing = q] \in Mote
  BY ZenonT(30) DEF Mote, RecType
<1> QED BY <1>1, TryLaterTyped, SendingTyped DEF HandsOver, Typed

LEMMA RetransmitTyped ==
  ASSUME Typed, NEW r \in Mote, NEW ok, retransmitDataPacket(r, ok)
  PROVE  Typed'
<1>1. CASE ~r.readbusy \/ r.routing # NoPkt \/ WithCid(r, r.rbuf) = {}
  BY <1>1, TryLaterTyped, FreeReadTyped DEF retransmitDataPacket, Typed, Flag
<1>2. CASE r.readbusy /\ r.routing = NoPkt /\ WithCid(r, r.rbuf) # {}
  <2>1. PICK i : /\ i = Min(WithCid(r, r.rbuf)) /\ r.rbuf \in Stream \X Seqno
                 /\ r.c[i].s \in Stream
    BY <1>2, FoundByCid DEF Mote, RecType
  <2>2. r.rbuf[2] \in Seqno0
    BY <2>1, Consts
  <2>3. PICK q \in Packet : q = Pkt(r.c[i].s, "DATA_RETX", r.rbuf[2]) /\ q \in RouteType
    BY <2>1, <2>2, PktTyped DEF MasterFlag
  <2>4. HandsOver(r, q, FreeRead(r), "RETRANSMIT", ok)
    BY <1>2, <2>1, <2>3 DEF retransmitDataPacket
  <2>5. FreeRead(r) \in Mote /\ "RETRANSMIT" \in Flag /\ net \in SUBSET Packet
    BY FreeReadTyped DEF Typed, Flag
  <2> QED BY ONLY <2>3, <2>4, <2>5, r \in Mote, q \in Packet, HandsOverTyped
<1> QED BY <1>1, <1>2

LEMMA SendFirstTyped ==
  ASSUME Typed, NEW r \in Mote, NEW from \in States \ {"IDLE"},
         NEW to \in States \ {"IDLE"}, NEW flag \in {"SYN", "FIN"}, NEW ok,
         SendFirst(r, from, to, flag, ok)
  PROVE  Typed'
<1> DEFINE found == {i \in Conns : r.c[i].state = from}
<1>1. CASE found = {} \/ r.routing # NoPkt
  BY <1>1, TryLaterTyped DEF SendFirst, Typed, Flag
<1>2. CASE found # {} /\ r.routing = NoPkt
  <2>1. PICK i \in Conns : i = Min(found) /\ r.c[i].state = from
    BY <1>2, LeastConn
  <2>2. r.c[i] \in ConnType /\ r.c[i].s \in Stream /\ r.c[i].lastSent \in Seqno0
    BY <2>1 DEF Mote, RecType, ConnType
  <2>3. PICK n \in Seqno0 : n = IF flag = "SYN" THEN 0 ELSE SeqNext(r.c[i].lastSent)
    <3>1. SeqNext(r.c[i].lastSent) \in Seqno
      BY <2>2, NextType
    <3>2. SeqNext(r.c[i].lastSent) \in Seqno0 /\ 0 \in Seqno0
      BY <3>1, Consts
    <3> QED BY <3>2
  <2>4. PICK q \in Packet : q = Pkt(r.c[i].s, flag, n) /\ q \in RouteType
    BY <2>2, PktTyped DEF MasterFlag
  <2>5. PICK a : a = [r EXCEPT !.c[i].state = to, !.timer[i] = TRUE,
                               !.aired = @ \cup {<<r.c[i].s, flag>>}]
    BY Zenon
  <2>6. a \in Mote
    <3>1. [r.c[i] EXCEPT !.state = to] \in ConnType
      BY <2>2 DEF ConnType
    <3>2. PICK c : c = [r.c[i] EXCEPT !.state = to]
      OBVIOUS
    <3>3. c \in ConnType /\ c.s # None /\ c.state # "IDLE"
      BY <2>2, <3>1, <3>2, Consts DEF ConnType
    <3>4. PICK b \in Mote : b = [r EXCEPT !.c[i] = c]
      BY <2>1, <3>3, ConnTyped
    <3>5. b.aired \cup {<<r.c[i].s, flag>>} \in SUBSET (Stream \X {"SYN", "FIN"})
      BY <2>2, SMTT(30) DEF Mote, RecType
    <3>6. a = [b EXCEPT !.timer[i] = TRUE, !.aired = @ \cup {<<r.c[i].s, flag>>}]
      BY <2>1, <2>5, <3>2, <3>4, ZenonT(30) DEF Mote, RecType
    <3> QED BY <2>1, <3>5, <3>6, ZenonT(30) DEF Mote, RecType
  <2>7. HandsOver(r, q, a, flag, ok)
    BY <1>2, <2>1, <2>3, <2>4, <2>5 DEF SendFirst
  <2>8. flag \in Flag /\ net \in SUBSET Packet
    BY DEF Typed, Flag
  <2> QED BY ONLY <2>4, <2>6, <2>7, <2>8, r \in Mote, q \in Packet, HandsOverTyped
<1> QED BY <1>1, <1>2

LEMMA TaskTyped ==
  ASSUME Typed, NEW ok, RunTask(ok)
  PROVE  Typed'
<1>1. m.posted # <<>> /\ m.posted \in Seq(TaskName)
  BY DEF RunTask, Typed, Mote, RecType
<1>2. Head(m.posted) \in TaskName /\ Tail(m.posted) \in Seq(TaskName)
  BY <1>1, HeadTailProperties
<1>3. PICK r \in Mote : r = [m EXCEPT !.posted = Tail(@)]
  BY <1>2 DEF Typed, Mote, RecType
<1>4. CASE Head(m.posted) = "writeLogger"
  BY <1>3, <1>4, WriteTyped DEF RunTask, Typed
<1>5. CASE Head(m.posted) = "readLogger"
  BY <1>3, <1>5, ReadTyped DEF RunTask, Typed
<1>6. CASE Head(m.posted) = "eraseLogger"
  BY <1>3, <1>6, EraseTyped DEF RunTask, Typed
<1>7. CASE Head(m.posted) = "retransmitDataPacket"
  BY <1>3, <1>7, RetransmitTyped DEF RunTask
<1>8. CASE Head(m.posted) = "send_SYN"
  BY <1>3, <1>8, SendFirstTyped DEF RunTask, send_SYN, States
<1>9. CASE Head(m.posted) = "send_FIN"
  BY <1>3, <1>9, SendFirstTyped DEF RunTask, send_FIN, States
<1> QED BY <1>2, <1>4, <1>5, <1>6, <1>7, <1>8, <1>9 DEF TaskName

-----------------------------------------------------------------------------
(* The flash, the radio and the timers.                                    *)

LEMMA WriteDoneTyped ==
  ASSUME Typed, NEW ok \in BOOLEAN, writeDone(ok)
  PROVE  Typed'
<1>1. PICK r : r = [m EXCEPT !.eeprom = "idle",
                       !.log = IF ok THEN LogWritten(@) ELSE [@ EXCEPT !.op = NoOp]]
  OBVIOUS
<1>2. [m.log EXCEPT !.op = NoOp] \in LogType /\ LogWritten(m.log) \in LogType
  BY LogWrittenTyped, ZeroTyped DEF Typed, Mote, RecType, LogType
<1>3. r \in Mote
  BY <1>1, <1>2, ZenonT(30) DEF Typed, Mote, RecType
<1>4. PICK done \in Mote : done = [r EXCEPT !.writebusy = FALSE, !.wbuf = Erased]
  BY <1>3, ZenonT(30) DEF Mote, RecType, Buf
<1>5. PICK i : i = Min(WithCid(m, m.wbuf))
  OBVIOUS
<1>6. WithCid(m, m.wbuf) # {} => i \in Conns
  BY <1>5, FoundByCid DEF Typed, Mote, RecType
<1>7. m' \in {r, Post(r, "writeLogger"), Post(done, "readLogger")}
      \/ (WithCid(m, m.wbuf) # {} /\ m' = Post(Signalled(done, i), "readLogger"))
  BY <1>1, <1>4, <1>5 DEF writeDone
<1> QED BY <1>3, <1>4, <1>6, <1>7, PostTyped, SignalledTyped DEF writeDone, Typed, TaskName

LEMMA ReadDoneTyped ==
  ASSUME Typed, NEW ok \in BOOLEAN, readDone(ok)
  PROVE  Typed'
<1>1. PICK r \in Mote : r = [m EXCEPT !.eeprom = "idle", !.log.op = NoOp]
  BY ZeroTyped, ZenonT(30) DEF Typed, Mote, RecType, LogType
<1>2. ReadContents(m.log) \in Buf
  BY DEF Typed, Mote, RecType, LogType, OpType, ReadContents
<1>3. PICK l : l = (IF r.rlist = <<>> THEN r.rlist ELSE Tail(r.rlist))
  OBVIOUS
<1>4. l \in Seq(Conns \X Seqno) /\ Len(l) <= RListLen
  <2>1. r.rlist \in Seq(Conns \X Seqno) /\ Len(r.rlist) \in Nat /\ Len(r.rlist) <= RListLen
    BY LenProperties DEF Mote, RecType
  <2>2. CASE r.rlist = <<>>
    BY <1>3, <2>1, <2>2
  <2>3. CASE r.rlist # <<>>
    BY <1>3, <2>1, <2>3, HeadTailProperties, Consts
  <2> QED BY <2>2, <2>3
<1>5. [r EXCEPT !.rbuf = ReadContents(m.log), !.rlist = l] \in Mote
  BY <1>2, <1>4, ZenonT(30) DEF Mote, RecType
<1>6. m' = IF ok THEN Post([r EXCEPT !.rbuf = ReadContents(m.log), !.rlist = l],
                           "retransmitDataPacket")
           ELSE TryLater(FreeRead(r), "READ_LOGGER")
  BY <1>1, <1>3 DEF readDone
<1> QED BY <1>5, <1>6, PostTyped, TryLaterTyped, FreeReadTyped
        DEF readDone, Typed, TaskName, Flag

LEMMA EraseDoneTyped ==
  ASSUME Typed, eraseDone
  PROVE  Typed'
<1>1. LogEraseDone(m.log) \in LogType
  BY LogEraseDoneTyped DEF Typed, Mote, RecType
<1> QED BY <1>1, ZenonT(30) DEF eraseDone, Typed, Mote, RecType

LEMMA StateTyped ==
  ASSUME NEW r \in Mote, NEW i \in Conns, NEW state \in States \ {"IDLE"}, r.c[i].s # None
  PROVE  [r EXCEPT !.c[i].state = state] \in Mote
<1>1. PICK c \in ConnType : c = [r.c[i] EXCEPT !.state = state]
  <2>1. r.c[i] \in ConnType
    BY DEF Mote, RecType
  <2> QED BY <2>1 DEF ConnType
<1>2. c.s # None /\ c.state # "IDLE"
  BY <1>1 DEF Mote, RecType, ConnType
<1>3. [r EXCEPT !.c[i] = c] \in Mote
  BY <1>2, ConnTyped
<1> QED BY <1>1, <1>3 DEF Mote, RecType

LEMMA SendDoneTyped ==
  ASSUME Typed, NEW success \in BOOLEAN, RoutingSend_sendDone(success)
  PROVE  Typed'
<1>1. PICK i, found : found = Valid(m, m.routing.s) /\ i = Min(found)
  OBVIOUS
<1>2. NoPkt \in RouteType
  BY Consts DEF NoPkt, RouteType
<1>3. PICK r \in Mote : r = [m EXCEPT !.routing = NoPkt] /\ r.c = m.c
  <2>1. PICK r : r = [m EXCEPT !.routing = NoPkt]
    OBVIOUS
  <2>2. r \in RecType /\ r.c = m.c /\ r.rlist = m.rlist
    BY <1>2, <2>1 DEF Typed, Mote, RecType
  <2>3. r \in Mote
    BY <2>2 DEF Typed, Mote
  <2> QED BY <2>1, <2>2, <2>3
<1>4. found # {} => i \in Conns /\ r.c[i].s # None
  BY <1>1, <1>3, FoundByStream, Consts DEF Typed
<1>5. found # {} =>
        /\ [r EXCEPT !.psd[i] = TRUE] \in Mote /\ Signalled(r, i) \in Mote
        /\ Post([r EXCEPT !.c[i].state = "SYN_SEND"], "send_SYN") \in Mote
        /\ Post([r EXCEPT !.c[i].state = "FIN_SEND"], "send_FIN") \in Mote
  <2> HAVE found # {}
  <2>1. [r EXCEPT !.psd[i] = TRUE] \in Mote
    BY <1>4, ZenonT(30) DEF Mote, RecType
  <2>2. /\ [r EXCEPT !.c[i].state = "SYN_SEND"] \in Mote
        /\ [r EXCEPT !.c[i].state = "FIN_SEND"] \in Mote
    BY <1>4, StateTyped DEF States
  <2> QED BY <1>4, <2>1, <2>2, SignalledTyped, PostTyped DEF TaskName
<1>6. TryLater(r, "READ_LOGGER") \in Mote
  BY TryLaterTyped DEF Flag
<1>7. /\ UNCHANGED net
      /\ \/ m' \in {r, TryLater(r, "READ_LOGGER")}
         \/ found # {} /\ m' \in {[r EXCEPT !.psd[i] = TRUE], Signalled(r, i),
                                  Post([r EXCEPT !.c[i].state = "SYN_SEND"], "send_SYN"),
                                  Post([r EXCEPT !.c[i].state = "FIN_SEND"], "send_FIN")}
  BY <1>1, <1>3 DEF RoutingSend_sendDone
<1> QED BY <1>3, <1>5, <1>6, <1>7 DEF Typed

LEMMA NackTyped ==
  ASSUME NEW r \in Mote, NEW i \in Conns, NEW list \in SUBSET Seqno,
         NEW q \in ProcessNACK(r, list, i)
  PROVE  q \in Mote
<1>1. PICK new : new = Asked(r, list, i) /\ new \subseteq Seqno
  BY DEF Asked
<1>2. PICK n \in Nat : n = Cardinality(new)
  <2>1. IsFiniteSet(Seqno)
    BY FS_Interval, Consts DEF Seqno, TrFirstSeqno
  <2> QED BY <1>1, <2>1, FS_Subset, FS_CardinalityType
<1>3. PICK out \in [1 .. n -> new] :
        q = Post([r EXCEPT !.rlist = @ \o [k \in {x \in DOMAIN out : x <= RListLen - Len(r.rlist)}
                                            |-> <<i, out[k]>>]], "readLogger")
  BY <1>1, <1>2 DEF ProcessNACK, AskedInOrder
<1>4. PICK l \in Nat : l = Len(r.rlist) /\ l <= RListLen /\ r.rlist \in Seq(Conns \X Seqno)
  BY LenProperties DEF Mote, RecType
<1>5. PICK d \in Nat : {x \in DOMAIN out : x <= RListLen - l} = 1 .. d /\ d <= RListLen - l
  <2>1. CASE n <= RListLen - l
    BY <1>4, <2>1, Consts
  <2>2. CASE ~(n <= RListLen - l)
    <3>1. {x \in DOMAIN out : x <= RListLen - l} = 1 .. (RListLen - l)
      BY <1>4, <2>2, Consts
    <3>2. RListLen - l \in Nat
      BY <1>4, Consts
    <3> QED BY <3>1, <3>2
  <2> QED BY <2>1, <2>2
<1>6. PICK e : e = [k \in 1 .. d |-> <<i, out[k]>>]
  OBVIOUS
<1>7. e \in Seq(Conns \X Seqno) /\ Len(e) = d
  <2>1. \A k \in 1 .. d : k \in DOMAIN out
    BY <1>5
  <2>2. e \in [1 .. d -> Conns \X Seqno]
    BY <1>1, <1>6, <2>1
  <2> QED BY <2>2, LenProperties
<1>8. r.rlist \o e \in Seq(Conns \X Seqno) /\ Len(r.rlist \o e) <= RListLen
  BY <1>4, <1>5, <1>7, ConcatProperties, Consts
<1>9. [r EXCEPT !.rlist = @ \o e] \in Mote
  BY <1>8, ZenonT(30) DEF Mote, RecType
<1>10. q = Post([r EXCEPT !.rlist = @ \o e], "readLogger")
  BY <1>3, <1>4, <1>5, <1>6
<1> QED BY <1>9, <1>10, PostTyped DEF TaskName

LEMMA OpenedTyped ==
  ASSUME NEW r \in Mote, NEW i \in Conns, r.c[i].s # None
  PROVE  Opened(r, i) \in Mote
<1>1. PICK c : c = [r.c[i] EXCEPT !.state = "ACTIVE", !.lastSent = 0]
  OBVIOUS
<1>2. c \in ConnType /\ c.s # None /\ c.state # "IDLE"
  <2>1. r.c[i] \in ConnType /\ 0 \in Seqno0
    BY Consts DEF Mote, RecType
  <2> QED BY <1>1, <2>1 DEF ConnType, States
<1>3. [r EXCEPT !.c[i] = c] \in Mote
  BY <1>2, ConnTyped
<1>4. [[r EXCEPT !.c[i] = c] EXCEPT !.timer[i] = FALSE] \in Mote
  <2>1. PICK a \in Mote : a = [r EXCEPT !.c[i] = c]
    BY <1>3
  <2>2. PICK b : b = [a EXCEPT !.timer[i] = FALSE]
    OBVIOUS
  <2>3. b \in RecType /\ b.c = a.c /\ b.rlist = a.rlist
    BY <2>2, ZenonT(30) DEF Mote, RecType
  <2>4. b \in Mote
    BY <2>3 DEF Mote
  <2> QED BY <2>1, <2>2, <2>4
<1>5. Opened(r, i) \in {r, [[r EXCEPT !.c[i] = c] EXCEPT !.timer[i] = FALSE]}
  BY <1>1 DEF Opened, Mote, RecType
<1> QED BY <1>4, <1>5

LEMMA ReceiveTyped ==
  ASSUME Typed, NEW p \in net, RoutingReceive_receive(p)
  PROVE  Typed'
<1>1. PICK i, found : found = Valid(m, p.s) /\ i = Min(found)
  OBVIOUS
<1>2. net' \in SUBSET Packet /\ p \in Packet /\ p.list \in SUBSET Seqno
  BY DEF RoutingReceive_receive, Typed, Packet
<1>3. found # {} => i \in Conns /\ m.c[i].s # None
  BY <1>1, FoundByStream, Consts DEF Typed
<1>4. PICK t : t = [m EXCEPT !.timer[i] = @ \/ m.c[i].state = "FIN_ACK_WAIT"]
  OBVIOUS
<1>5. found # {} => t \in Mote
  BY <1>3, <1>4, ZenonT(30) DEF Typed, Mote, RecType
<1>6. \/ UNCHANGED m
      \/ found # {} /\ (m' = Opened(m, i) \/ m' = Finished(m, i) \/ m' \in ProcessNACK(t, p.list, i))
  BY <1>1, <1>4 DEF RoutingReceive_receive, MoteFlag
<1> QED BY <1>2, <1>3, <1>5, <1>6, OpenedTyped, FinishedTyped, NackTyped DEF Typed

LEMMA TimerTyped ==
  ASSUME Typed, NEW i \in Conns, StateTimerFired(i)
  PROVE  Typed'
<1>0. PICK b : b = [m EXCEPT !.timer[i] = FALSE]
  OBVIOUS
<1>1. PICK r \in Mote : r = [m EXCEPT !.timer[i] = FALSE] /\ r.c = m.c
  <2>1. b \in RecType /\ b.c = m.c /\ b.rlist = m.rlist
    BY <1>0 DEF Typed, Mote, RecType
  <2>2. b \in Mote
    BY <2>1 DEF Typed, Mote
  <2> QED BY <1>0, <2>1, <2>2
<1>2. /\ m.c[i] \in ConnType /\ m.c[i].lastSent \in 0 .. TrMaxSeqno
      /\ m.c[i].finCnt \in 0 .. (MaxNumRetx - 1)
      /\ m.c[i].state # "IDLE" => m.c[i].s # None
  BY Consts, ZenonT(30) DEF Typed, Mote, RecType, ConnType
<1>3. CASE m.c[i].state = "SYN_ACK_WAIT" /\ m.c[i].lastSent < MaxNumRetx
  <2>1. PICK c : c = [m.c[i] EXCEPT !.lastSent = m.c[i].lastSent + 1, !.state = "SYN_SEND"]
    OBVIOUS
  <2>2. m.c[i].lastSent + 1 \in Seqno0
    BY <1>2, <1>3, Consts, SMTT(30)
  <2>3. c \in ConnType /\ c.s # None /\ c.state # "IDLE"
    BY <1>2, <1>3, <2>1, <2>2 DEF ConnType, States
  <2>4. m' = Post([r EXCEPT !.c[i] = c], "send_SYN")
    BY <1>1, <1>3, <2>1 DEF StateTimerFired
  <2> QED BY <2>3, <2>4, ConnTyped, PostTyped DEF StateTimerFired, Typed, TaskName
<1>4. CASE m.c[i].state = "FIN_ACK_WAIT" /\ m.c[i].finCnt + 1 < MaxNumRetx
  <2>1. PICK c : c = [m.c[i] EXCEPT !.finCnt = m.c[i].finCnt + 1, !.state = "FIN_SEND"]
    OBVIOUS
  <2>2. m.c[i].finCnt + 1 \in 0 .. (MaxNumRetx - 1)
    BY <1>2, <1>4, Consts, SMTT(30)
  <2>3. c \in ConnType /\ c.s # None /\ c.state # "IDLE"
    BY <1>2, <1>4, <2>1, <2>2 DEF ConnType, States
  <2>4. m' = Post([r EXCEPT !.c[i] = c], "send_FIN")
    BY <1>1, <1>4, <2>1 DEF StateTimerFired
  <2> QED BY <2>3, <2>4, ConnTyped, PostTyped DEF StateTimerFired, Typed, TaskName
<1>5. CASE ~(m.c[i].state = "SYN_ACK_WAIT" /\ m.c[i].lastSent < MaxNumRetx)
           /\ ~(m.c[i].state = "FIN_ACK_WAIT" /\ m.c[i].finCnt + 1 < MaxNumRetx)
  <2>1. /\ UNCHANGED net
        /\ \/ m' = r
           \/ m.c[i].state # "IDLE" /\ (m' = ResetConnection(m, i) \/ m' = ResetConnection(r, i)
                                        \/ m' = Finished(r, i))
    BY <1>1, <1>5 DEF StateTimerFired
  <2> QED BY <1>1, <1>2, <2>1, ResetTyped, FinishedTyped DEF Typed
<1> QED BY <1>3, <1>4, <1>5

LEMMA RetryTyped ==
  ASSUME Typed, RetryTimer_fired
  PROVE  Typed'
<1>1. ASSUME NEW flag, NEW task \in TaskName
      PROVE  Again(flag, task) \in Seq(TaskName)
  BY DEF Again
<1>2. PICK a \in Seq(TaskName), b \in Seq(TaskName), c \in Seq(TaskName),
           d \in Seq(TaskName), e \in Seq(TaskName) :
        /\ a = Again("WRITE_LOGGER", "writeLogger") /\ b = Again("READ_LOGGER", "readLogger")
        /\ c = Again("RETRANSMIT", "retransmitDataPacket")
        /\ d = Again("SYN", "send_SYN") /\ e = Again("FIN", "send_FIN")
  BY <1>1 DEF TaskName
<1>3. a \o b \o c \o d \o e \in Seq(TaskName)
  BY ConcatProperties
<1>4. m.posted \o (a \o b \o c \o d \o e) \in Seq(TaskName)
  BY <1>3, ConcatProperties DEF Typed, Mote, RecType
<1>5. m' = [m EXCEPT !.pending = {}, !.posted = @ \o (a \o b \o c \o d \o e)]
  BY <1>2 DEF RetryTimer_fired
<1> QED BY <1>4, <1>5, ZenonT(30) DEF RetryTimer_fired, Typed, Mote, RecType

LEMMA MasterTyped ==
  ASSUME Typed, MasterAnswers
  PROVE  Typed'
<1>1. PICK s \in Stream : \E q \in Answers(s) : net' = Sending(net, q)
  BY DEF MasterAnswers
<1>2. PICK q \in Answers(s) : net' = Sending(net, q)
  BY <1>1
<1>3. q \in Packet
  <2>1. NackLists \subseteq SUBSET Seqno /\ 0 \in Seqno0
    BY StrMoteAssumption, Consts
  <2> QED BY <2>1 DEF Answers, Pkt, Nack, Packet, MoteFlag
<1> QED BY <1>2, <1>3, SendingTyped DEF MasterAnswers, Typed

LEMMA InitTyped == Init => Typed
<1> SUFFICES ASSUME Init
             PROVE  Typed
  OBVIOUS
<1>1. NoPkt \in RouteType /\ Erased \in Buf /\ 0 \in Conns /\ IdleConn \in ConnType
  BY Consts, IdleTyped DEF NoPkt, RouteType, Buf
<1>2. m \in RecType /\ m.rlist = <<>> /\ m.c = [i \in Conns |-> IdleConn]
  BY <1>1, LogInitTyped, Consts DEF Init, RecType
<1> QED BY <1>2, IdleTyped, Consts DEF Init, Typed, Mote

LEMMA NextTyped == Typed /\ [Next]_vars => Typed'
<1> SUFFICES ASSUME Typed, [Next]_vars
             PROVE  Typed'
  OBVIOUS
<1>1. CASE Loses
  BY <1>1 DEF Loses, Lose, Typed
<1>2. ASSUME NEW p \in net, RoutingReceive_receive(p)
      PROVE  Typed'
  BY <1>2, ReceiveTyped
<1>3. ASSUME NEW ok \in BOOLEAN, RunTask(ok) \/ writeDone(ok) \/ readDone(ok)
                                 \/ RoutingSend_sendDone(ok)
      PROVE  Typed'
  BY <1>3, TaskTyped, WriteDoneTyped, ReadDoneTyped, SendDoneTyped
<1>4. ASSUME NEW s \in Stream, \/ ConnectionSend_open(s) \/ ConnectionSend_send(s)
                               \/ ConnectionSend_close(s)
      PROVE  Typed'
  BY <1>4, OpenTyped, SendTyped, CloseTyped
<1>5. ASSUME NEW i \in Conns, StateTimerFired(i)
      PROVE  Typed'
  BY <1>5, TimerTyped
<1>6. CASE eraseDone \/ RetryTimer_fired \/ MasterAnswers
  BY <1>6, EraseDoneTyped, RetryTyped, MasterTyped
<1>7. CASE UNCHANGED vars
  BY <1>7 DEF vars, Typed
<1> QED BY <1>1, <1>2, <1>3, <1>4, <1>5, <1>6, <1>7 DEF Next

LEMMA TypedImplies == Typed => TypeOK
<1> SUFFICES ASSUME Typed
             PROVE  TypeOK
  OBVIOUS
<1>1. Range(m.rlist) \subseteq Conns \X Seqno
  BY ElementOfSeq, LenProperties DEF Range, Typed, Mote, RecType
<1>2. \A i \in Conns : m.c[i] \in ConnType
  BY DEF Typed, Mote, RecType
<1> QED BY <1>1, <1>2 DEF TypeOK, Typed, Mote, RecType, ConnType, Buf

(* The mote's state keeps its types: no counter leaves its range, a        *)
(* connection is idle exactly when it has no stream, and the list of       *)
(* numbers to retransmit never outgrows recoverList (tr_list.h:112,        *)
(* StreamTransportM.nc:455).                                               *)
THEOREM TypeCorrect == Spec => []TypeOK
<1>1. Spec => []Typed
  BY InitTyped, NextTyped, PTL DEF Spec
<1> QED BY <1>1, TypedImplies, PTL

-----------------------------------------------------------------------------
(* Timers and the read buffer.                                             *)

(* AnswerIsTimed and ReadBusyIsServed of a state r.                        *)
Timed(r) == \A i \in Conns : r.c[i].state \in {"SYN_ACK_WAIT", "FIN_ACK_WAIT"} => r.timer[i]

ReadServed(r) == r.readbusy => \/ r.log.op.kind = "read"
                               \/ "retransmitDataPacket" \in Range(r.posted)
                               \/ "RETRANSMIT" \in r.pending

Served(r) == Timed(r) /\ ReadServed(r)

LEMMA RangeAppends ==
  ASSUME NEW S, NEW q \in Seq(S), NEW t \in S
  PROVE  Range(Append(q, t)) = Range(q) \cup {t}
<1>1. PICK n \in Nat : n = Len(q) /\ DOMAIN q = 1 .. n
  BY LenProperties
<1>2. PICK a : a = Append(q, t)
  OBVIOUS
<1>3. /\ DOMAIN a = 1 .. (n + 1) /\ a[n + 1] = t
      /\ \A k \in 1 .. n : a[k] = q[k]
  BY <1>1, <1>2, AppendProperties, LenProperties
<1>4. 1 .. (n + 1) = (1 .. n) \cup {n + 1}
  OBVIOUS
<1>5. Range(a) = Range(q) \cup {t}
  BY <1>1, <1>3, <1>4 DEF Range
<1> QED BY <1>2, <1>5

LEMMA RangeConcats ==
  ASSUME NEW S, NEW q \in Seq(S), NEW w \in Seq(S)
  PROVE  Range(q \o w) = Range(q) \cup Range(w)
<1>1. PICK n \in Nat, k \in Nat : /\ n = Len(q) /\ DOMAIN q = 1 .. n
                                 /\ k = Len(w) /\ DOMAIN w = 1 .. k
  BY LenProperties
<1>2. PICK a : a = q \o w
  OBVIOUS
<1>3. /\ DOMAIN a = 1 .. (n + k)
      /\ \A j \in 1 .. n : a[j] = q[j]
      /\ \A j \in 1 .. k : a[n + j] = w[j]
  <2>1. Len(a) = n + k /\ a \in Seq(S)
    BY <1>1, <1>2, ConcatProperties
  <2>2. \A j \in 1 .. (n + k) : a[j] = IF j <= n THEN q[j] ELSE w[j - n]
    BY <1>1, <1>2, ConcatProperties
  <2>3. DOMAIN a = 1 .. (n + k)
    BY <2>1, LenProperties
  <2>4. \A j \in 1 .. n : a[j] = q[j]
    BY <2>2
  <2>5. \A j \in 1 .. k : n + j \in 1 .. (n + k) /\ ~(n + j <= n) /\ (n + j) - n = j
    OBVIOUS
  <2> QED BY <2>2, <2>3, <2>4, <2>5
<1>4. \A x \in Range(a) : x \in Range(q) \cup Range(w)
  <2> TAKE x \in Range(a)
  <2>1. PICK j \in 1 .. (n + k) : x = a[j]
    BY <1>3 DEF Range
  <2>2. CASE j <= n
    BY <1>1, <1>3, <2>1, <2>2 DEF Range
  <2>3. CASE ~(j <= n)
    <3>1. j - n \in 1 .. k /\ n + (j - n) = j
      BY <2>1, <2>3
    <3>2. x = w[j - n]
      BY <1>3, <2>1, <3>1
    <3> QED BY <1>1, <3>1, <3>2 DEF Range
  <2> QED BY <2>2, <2>3
<1>5. \A x \in Range(q) \cup Range(w) : x \in Range(a)
  <2>1. \A j \in 1 .. n : j \in 1 .. (n + k)
    OBVIOUS
  <2>2. \A j \in 1 .. k : n + j \in 1 .. (n + k)
    OBVIOUS
  <2> QED BY <1>1, <1>3, <2>1, <2>2, ZenonT(30) DEF Range
<1> QED BY <1>2, <1>4, <1>5

(* What is in a queue and not at its head is in the rest.                  *)
LEMMA RangeTail ==
  ASSUME NEW S, NEW q \in Seq(S), q # <<>>
  PROVE  /\ Range(q) = {Head(q)} \cup Range(Tail(q))
<1>1. PICK n \in Nat : n = Len(q) /\ DOMAIN q = 1 .. n /\ n # 0
  BY LenProperties, EmptySeq
<1>2. PICK w : w = Tail(q)
  OBVIOUS
<1>3. /\ DOMAIN w = 1 .. (n - 1) /\ Head(q) = q[1]
      /\ \A j \in 1 .. (n - 1) : w[j] = q[j + 1]
  <2>1. w \in Seq(S) /\ Len(w) = n - 1 /\ Head(q) = q[1]
    BY <1>1, <1>2, HeadTailProperties
  <2>2. \A j \in 1 .. Len(w) : w[j] = q[j + 1]
    BY <1>2, HeadTailProperties
  <2> QED BY <2>1, <2>2, LenProperties
<1>4. \A j \in 1 .. n : j = 1 \/ (j - 1 \in 1 .. (n - 1) /\ (j - 1) + 1 = j)
  BY <1>1
<1>5. \A j \in 1 .. (n - 1) : j + 1 \in 1 .. n
  BY <1>1
<1>6. 1 \in 1 .. n
  BY <1>1
<1>7. Range(q) = {q[1]} \cup Range(w)
  <2>1. \A x \in Range(q) : x \in {q[1]} \cup Range(w)
    <3> TAKE x \in Range(q)
    <3>1. PICK j \in 1 .. n : x = q[j]
      BY <1>1 DEF Range
    <3>2. CASE j = 1
      BY <3>1, <3>2
    <3>3. CASE j # 1
      <4>1. j - 1 \in 1 .. (n - 1) /\ w[j - 1] = q[j]
        BY <1>3, <1>4, <3>3
      <4> QED BY <1>3, <3>1, <4>1 DEF Range
    <3> QED BY <3>2, <3>3
  <2>2. \A x \in {q[1]} \cup Range(w) : x \in Range(q)
    BY <1>1, <1>3, <1>5, <1>6 DEF Range
  <2> QED BY <2>1, <2>2
<1> QED BY <1>2, <1>3, <1>7

LEMMA PostServed ==
  ASSUME NEW r \in Mote, NEW task \in TaskName, Served(r)
  PROVE  Served(Post(r, task))
<1>1. Range(Append(r.posted, task)) = Range(r.posted) \cup {task}
  BY RangeAppends DEF Mote, RecType
<1> QED BY <1>1 DEF Post, Served, Timed, ReadServed, Mote, RecType

LEMMA TryLaterServed ==
  ASSUME NEW r \in Mote, NEW flag, Served(r)
  PROVE  Served(TryLater(r, flag))
BY DEF TryLater, Served, Timed, ReadServed, Mote, RecType

LEMMA FreeReadServed ==
  ASSUME NEW r \in Mote, Timed(r)
  PROVE  Served(FreeRead(r))
BY DEF FreeRead, Served, Timed, ReadServed, Mote, RecType

LEMMA SignalledServed ==
  ASSUME NEW r \in Mote, NEW i \in Conns, Served(r)
  PROVE  Served(Signalled(r, i))
BY DEF Signalled, Served, Timed, ReadServed, Mote, RecType

LEMMA ResetServed ==
  ASSUME NEW r \in Mote, NEW i \in Conns, Served(r)
  PROVE  Served(ResetConnection(r, i))
BY IdleTyped DEF ResetConnection, Served, Timed, ReadServed, Mote, RecType

LEMMA FinishedServed ==
  ASSUME NEW r \in Mote, NEW i \in Conns, r.c[i].s # None, Served(r)
  PROVE  Served(Finished(r, i))
<1>1. PICK q \in Mote : q = ResetConnection(r, i) /\ Served(q)
  BY ResetTyped, ResetServed
<1>2. PICK w : w = [q EXCEPT !.rlist = ClearID(@, i), !.eraseid = i]
  OBVIOUS
<1>3. Served(w) /\ w.posted = q.posted /\ q.posted \in Seq(TaskName)
  BY <1>1, <1>2 DEF Served, Timed, ReadServed, Mote, RecType
<1>4. Range(Append(w.posted, "eraseLogger")) = Range(w.posted) \cup {"eraseLogger"}
  BY <1>3, RangeAppends DEF TaskName
<1>5. Finished(r, i) = Post(w, "eraseLogger")
  BY <1>1, <1>2 DEF Finished
<1>6. Served([w EXCEPT !.posted = Append(@, "eraseLogger")])
  BY <1>1, <1>2, <1>3, <1>4 DEF Served, Timed, ReadServed, Mote, RecType
<1> QED BY <1>5, <1>6 DEF Post

(* A connection takes a state in which it waits for nothing.               *)
LEMMA StateServed ==
  ASSUME NEW r \in Mote, NEW i \in Conns, NEW c, Served(r),
         c.state \notin {"SYN_ACK_WAIT", "FIN_ACK_WAIT"}
  PROVE  Served([r EXCEPT !.c[i] = c])
BY DEF Served, Timed, ReadServed, Mote, RecType

LEMMA TaskServed ==
  ASSUME Typed, Served(m), NEW ok, RunTask(ok)
  PROVE  Served(m')
<1>1. m.posted # <<>> /\ m.posted \in Seq(TaskName)
  BY DEF RunTask, Typed, Mote, RecType
<1>2. /\ Head(m.posted) \in TaskName /\ Tail(m.posted) \in Seq(TaskName)
      /\ Range(m.posted) = {Head(m.posted)} \cup Range(Tail(m.posted))
  BY <1>1, HeadTailProperties, RangeTail
<1>3. PICK r \in Mote : r = [m EXCEPT !.posted = Tail(@)]
  BY <1>2 DEF Typed, Mote, RecType
<1>4. Timed(r) /\ (Head(m.posted) # "retransmitDataPacket" => Served(r))
  BY <1>2, <1>3 DEF Served, Timed, ReadServed, Typed, Mote, RecType
<1>5. r.log \in LogType
  BY DEF Mote, RecType
<1>6. CASE Head(m.posted) = "writeLogger"
  <2>1. m' = writeLogger(r)
    BY <1>3, <1>6 DEF RunTask
  <2>2. PICK i : i = Min(WithCid(r, r.wbuf))
    OBVIOUS
  <2>3. \/ m' = r \/ m' = TryLater(r, "WRITE_LOGGER")
        \/ /\ r.log.op.kind = "none"
           /\ m' = [r EXCEPT !.log = LogWrite(@, i, r.wbuf), !.eeprom = "busy"]
    BY <2>1, <2>2 DEF writeLogger, LogWriteOK, FlashIdle
  <2>4. ASSUME r.log.op.kind = "none"
        PROVE  Served([r EXCEPT !.log = LogWrite(@, i, r.wbuf), !.eeprom = "busy"])
    BY <1>4, <1>6, <2>4 DEF Served, Timed, ReadServed, Mote, RecType
  <2> QED BY <1>4, <1>6, <2>3, <2>4, TryLaterServed
<1>7. CASE Head(m.posted) = "readLogger"
  <2>1. m' = readLogger(r)
    BY <1>3, <1>7 DEF RunTask
  <2>2. CASE r.readbusy \/ r.rlist = <<>>
    BY <1>4, <1>7, <2>1, <2>2 DEF readLogger
  <2>3. CASE ~(r.readbusy \/ r.rlist = <<>>)
    <3>1. PICK i \in Conns, n \in Seqno : i = Head(r.rlist)[1] /\ n = Head(r.rlist)[2]
      BY <2>3, HeadTailProperties, SMTT(30) DEF Mote, RecType
    <3>2. PICK w : w = [r EXCEPT !.rlist = Tail(@)]
      OBVIOUS
    <3>3. Served(Post(w, "readLogger"))
      <4>1. Range(Append(r.posted, "readLogger")) = Range(r.posted) \cup {"readLogger"}
        BY RangeAppends DEF Mote, RecType, TaskName
      <4> QED BY <1>4, <1>7, <3>2, <4>1 DEF Post, Served, Timed, ReadServed, Mote, RecType
    <3>4. PICK g \in LogType : g = LogRead(r.log, i, n) /\ g.op.kind = "read"
      BY <1>5, LogReadTyped
    <3>5. PICK z : z = [r EXCEPT !.log = g, !.eeprom = "busy", !.readbusy = TRUE]
      OBVIOUS
    <3>6. Served(z)
      BY <1>4, <3>4, <3>5 DEF Served, Timed, ReadServed, Mote, RecType
    <3>7. m' \in {Post(w, "readLogger"), z, TryLater(r, "READ_LOGGER")}
      BY <2>1, <2>3, <3>1, <3>2, <3>4, <3>5 DEF readLogger
    <3> QED BY <1>4, <1>7, <3>3, <3>6, <3>7, TryLaterServed
  <2> QED BY <2>2, <2>3
<1>8. CASE Head(m.posted) = "eraseLogger"
  <2>1. PICK g : g = LogErase(r.log, r.eraseid) /\ (r.log.op.kind = "read" => g.op.kind = "read")
    BY <1>5, LogEraseTyped DEF Mote, RecType
  <2>2. PICK asked \in Mote : asked = [r EXCEPT !.log = g] /\ Served(asked)
    <3>1. PICK a : a = [r EXCEPT !.log = g]
      OBVIOUS
    <3>2. a \in Mote
      BY <2>1, <3>1, LogEraseTyped, ZenonT(30) DEF Mote, RecType
    <3>3. Served(a)
      BY <1>4, <1>8, <2>1, <3>1 DEF Served, Timed, ReadServed, Mote, RecType
    <3> QED BY <3>1, <3>2, <3>3
  <2>3. Served([asked EXCEPT !.eeprom = "init"])
    BY <2>2 DEF Served, Timed, ReadServed, Mote, RecType
  <2>4. m' \in {[asked EXCEPT !.eeprom = "init"], TryLater(asked, "WRITE_LOGGER")}
    BY <1>3, <1>8, <2>1, <2>2 DEF RunTask, eraseLogger
  <2> QED BY <2>2, <2>3, <2>4, TryLaterServed
<1>9. CASE Head(m.posted) = "retransmitDataPacket"
  <2>1. retransmitDataPacket(r, ok)
    BY <1>3, <1>9 DEF RunTask
  <2>2. Served(TryLater(r, "RETRANSMIT"))
    BY <1>4 DEF TryLater, Served, Timed, ReadServed, Mote, RecType
  <2>3. PICK f \in Mote : f = FreeRead(r) /\ Served(f)
    BY <1>4, FreeReadTyped, FreeReadServed
  <2>4. \/ ~r.readbusy /\ m' = r
        \/ m' = TryLater(r, "RETRANSMIT") \/ m' = f
        \/ \E q : m' = [f EXCEPT !.routing = q]
    BY <2>1, <2>3 DEF retransmitDataPacket, HandsOver
  <2>5. \A q : Served([f EXCEPT !.routing = q])
    BY <2>3 DEF Served, Timed, ReadServed, Mote, RecType
  <2>6. ~r.readbusy => Served(r)
    BY <1>4 DEF Served, ReadServed
  <2> QED BY <2>2, <2>3, <2>4, <2>5, <2>6
<1>10. ASSUME NEW from, NEW to, NEW flag, SendFirst(r, from, to, flag, ok), Served(r)
       PROVE  Served(m')
  <2> DEFINE found == {i \in Conns : r.c[i].state = from}
  <2>1. CASE found = {} \/ r.routing # NoPkt
    BY <1>10, <2>1, TryLaterServed DEF SendFirst
  <2>2. CASE found # {} /\ r.routing = NoPkt
    <3>1. PICK i \in Conns : i = Min(found)
      BY <2>2, LeastConn
    <3>2. PICK a : a = [r EXCEPT !.c[i].state = to, !.timer[i] = TRUE,
                                 !.aired = @ \cup {<<r.c[i].s, flag>>}]
      BY Zenon
    <3>3. \/ m' = TryLater(r, flag)
          \/ \E q : m' = [a EXCEPT !.routing = q]
      BY <1>10, <2>2, <3>1, <3>2 DEF SendFirst, HandsOver
    <3>4. \A q : Served([a EXCEPT !.routing = q])
      BY <1>10, <3>2 DEF Served, Timed, ReadServed, Mote, RecType
    <3> QED BY <1>10, <3>3, <3>4, TryLaterServed
  <2> QED BY <2>1, <2>2
<1>11. CASE Head(m.posted) \in {"send_SYN", "send_FIN"}
  BY <1>3, <1>4, <1>10, <1>11 DEF RunTask, send_SYN, send_FIN
<1> QED BY <1>2, <1>6, <1>7, <1>8, <1>9, <1>11 DEF TaskName

LEMMA FlashServed ==
  ASSUME Typed, Served(m), NEW ok \in BOOLEAN, writeDone(ok) \/ readDone(ok) \/ eraseDone
  PROVE  Served(m')
<1>1. /\ m \in Mote /\ m.log \in LogType /\ m.log.op \in OpType
      /\ NoOp \in OpType /\ NoOp.kind = "none"
  BY ZeroTyped DEF Typed, Mote, RecType, LogType
<1>2. CASE writeDone(ok)
  <2>1. PICK g \in LogType : g = IF ok THEN LogWritten(m.log) ELSE [m.log EXCEPT !.op = NoOp]
    BY <1>1, LogWrittenTyped DEF LogType
  <2>2. PICK r : r = [m EXCEPT !.eeprom = "idle", !.log = g]
    OBVIOUS
  <2>3. r \in Mote /\ Served(r)
    BY <1>1, <1>2, <2>1, <2>2, ZenonT(30) DEF writeDone, Served, Timed, ReadServed, Mote, RecType
  <2>4. PICK done \in Mote : done = [r EXCEPT !.writebusy = FALSE, !.wbuf = Erased] /\ Served(done)
    <3>1. PICK d : d = [r EXCEPT !.writebusy = FALSE, !.wbuf = Erased]
      OBVIOUS
    <3>2. d \in Mote
      BY <2>3, <3>1, ZenonT(30) DEF Mote, RecType, Buf
    <3>3. Served(d)
      BY <2>3, <3>1 DEF Served, Timed, ReadServed, Mote, RecType
    <3> QED BY <3>1, <3>2, <3>3
  <2>5. PICK i : i = Min(WithCid(m, m.wbuf))
    OBVIOUS
  <2>6. WithCid(m, m.wbuf) # {} => i \in Conns
    BY <1>1, <2>5, FoundByCid DEF Mote, RecType
  <2>7. m' \in {r, Post(r, "writeLogger"), Post(done, "readLogger")}
        \/ (WithCid(m, m.wbuf) # {} /\ m' = Post(Signalled(done, i), "readLogger"))
    BY <1>2, <2>1, <2>2, <2>4, <2>5 DEF writeDone
  <2> QED BY <2>3, <2>4, <2>6, <2>7, PostServed, SignalledServed, SignalledTyped DEF TaskName
<1>3. CASE readDone(ok)
  <2>1. PICK r \in Mote : r = [m EXCEPT !.eeprom = "idle", !.log.op = NoOp] /\ Timed(r)
    <3>1. PICK r : r = [m EXCEPT !.eeprom = "idle", !.log.op = NoOp]
      OBVIOUS
    <3>2. r \in Mote
      BY <1>1, <3>1 DEF Mote, RecType, LogType
    <3>3. Timed(r)
      BY <1>1, <3>1 DEF Served, Timed, Mote, RecType
    <3> QED BY <3>1, <3>2, <3>3
  <2>2. PICK l : l = (IF r.rlist = <<>> THEN r.rlist ELSE Tail(r.rlist))
    OBVIOUS
  <2>3. PICK w : w = [r EXCEPT !.rbuf = ReadContents(m.log), !.rlist = l]
    OBVIOUS
  <2>4. Served(Post(w, "retransmitDataPacket"))
    <3>1. "retransmitDataPacket" \in Range(Append(r.posted, "retransmitDataPacket"))
      BY RangeAppends DEF Mote, RecType, TaskName
    <3> QED BY <2>1, <2>3, <3>1 DEF Post, Served, Timed, ReadServed, Mote, RecType
  <2>5. m' = IF ok THEN Post(w, "retransmitDataPacket")
             ELSE TryLater(FreeRead(r), "READ_LOGGER")
    BY <1>3, <2>1, <2>2, <2>3 DEF readDone
  <2> QED BY <2>1, <2>4, <2>5, FreeReadTyped, FreeReadServed, TryLaterServed
<1>4. CASE eraseDone
  <2>1. PICK g : g = LogEraseDone(m.log)
    OBVIOUS
  <2>2. PICK e : m' = [m EXCEPT !.log = g, !.eeprom = e]
    BY <1>4, <2>1 DEF eraseDone
  <2> QED BY <1>1, <1>4, <2>2 DEF eraseDone, Served, Timed, ReadServed, Mote, RecType
<1> QED BY <1>2, <1>3, <1>4

LEMMA SendDoneServed ==
  ASSUME Typed, Served(m), NEW success \in BOOLEAN, RoutingSend_sendDone(success)
  PROVE  Served(m')
<1>1. PICK i, found : found = Valid(m, m.routing.s) /\ i = Min(found)
  OBVIOUS
<1>2. found # {} => i \in Conns
  BY <1>1, FoundByStream DEF Typed
<1>3. PICK r \in Mote : r = [m EXCEPT !.routing = NoPkt] /\ r.c = m.c /\ Served(r)
  <2>1. PICK r : r = [m EXCEPT !.routing = NoPkt]
    OBVIOUS
  <2>2. NoPkt \in RouteType
    BY Consts DEF NoPkt, RouteType
  <2>3. r \in RecType /\ r.c = m.c /\ r.rlist = m.rlist
    BY <2>1, <2>2 DEF Typed, Mote, RecType
  <2>4. r \in Mote
    BY <2>3 DEF Typed, Mote
  <2>5. Served(r)
    BY <2>1 DEF Served, Timed, ReadServed, Typed, Mote, RecType
  <2> QED BY <2>1, <2>3, <2>4, <2>5
<1>4. ASSUME NEW j \in Conns, NEW state \in {"SYN_SEND", "FIN_SEND"}, NEW task \in TaskName
      PROVE  Served(Post([r EXCEPT !.c[j].state = state], task))
  <2>1. Range(Append(r.posted, task)) = Range(r.posted) \cup {task}
    BY RangeAppends DEF Mote, RecType
  <2> QED BY <1>3, <2>1 DEF Post, Served, Timed, ReadServed, Mote, RecType
<1>5. \A j \in Conns : Served([r EXCEPT !.psd[j] = TRUE])
  BY <1>3 DEF Served, Timed, ReadServed, Mote, RecType
<1>6. \/ m' \in {r, TryLater(r, "READ_LOGGER")}
      \/ found # {} /\ m' \in {[r EXCEPT !.psd[i] = TRUE], Signalled(r, i),
                               Post([r EXCEPT !.c[i].state = "SYN_SEND"], "send_SYN"),
                               Post([r EXCEPT !.c[i].state = "FIN_SEND"], "send_FIN")}
  BY <1>1, <1>3 DEF RoutingSend_sendDone
<1> QED BY <1>2, <1>3, <1>4, <1>5, <1>6, TryLaterServed, SignalledServed DEF TaskName

LEMMA ReceiveServed ==
  ASSUME Typed, Served(m), NEW p \in net, RoutingReceive_receive(p)
  PROVE  Served(m')
<1>1. PICK i, found : found = Valid(m, p.s) /\ i = Min(found)
  OBVIOUS
<1>2. found # {} => i \in Conns /\ m.c[i].s # None
  BY <1>1, FoundByStream, Consts DEF Typed
<1>3. PICK t : t = [m EXCEPT !.timer[i] = @ \/ m.c[i].state = "FIN_ACK_WAIT"]
  OBVIOUS
<1>4. \/ UNCHANGED m
      \/ found # {} /\ (m' = Opened(m, i) \/ m' = Finished(m, i) \/ m' \in ProcessNACK(t, p.list, i))
  BY <1>1, <1>3 DEF RoutingReceive_receive, MoteFlag
<1>5. ASSUME found # {}, m' = Opened(m, i)
      PROVE  Served(m')
  <2>1. PICK c : c = [m.c[i] EXCEPT !.state = "ACTIVE", !.lastSent = 0]
    OBVIOUS
  <2>2. c.state = "ACTIVE"
    <3>1. m.c[i] \in ConnType
      BY <1>2, <1>5 DEF Typed, Mote, RecType
    <3> QED BY <2>1, <3>1 DEF ConnType
  <2>3. PICK w : w = [m EXCEPT !.timer[i] = FALSE, !.c[i] = c]
    OBVIOUS
  <2>4. m' \in {m, w}
    BY <1>5, <2>1, <2>3 DEF Opened
  <2>5. /\ w.readbusy = m.readbusy /\ w.log = m.log /\ w.posted = m.posted
        /\ w.pending = m.pending /\ i \in Conns /\ w.c[i] = c
        /\ \A j \in Conns \ {i} : w.c[j] = m.c[j] /\ w.timer[j] = m.timer[j]
    BY <1>2, <1>5, <2>3 DEF Typed, Mote, RecType
  <2>6. Served(w)
    BY <2>2, <2>5 DEF Served, Timed, ReadServed
  <2> QED BY <2>4, <2>6
<1>6. ASSUME found # {}, m' \in ProcessNACK(t, p.list, i)
      PROVE  Served(m')
  <2>1. PICK l : m' = Post([t EXCEPT !.rlist = l], "readLogger")
    BY <1>6 DEF ProcessNACK
  <2>2. PICK w : w = [t EXCEPT !.rlist = l]
    OBVIOUS
  <2>3. Range(Append(w.posted, "readLogger")) = Range(w.posted) \cup {"readLogger"}
    <3>1. w.posted \in Seq(TaskName)
      BY <1>3, <2>2 DEF Typed, Mote, RecType
    <3> QED BY <3>1, RangeAppends DEF TaskName
  <2>4. Served(w)
    BY <1>2, <1>3, <1>6, <2>2 DEF Served, Timed, ReadServed, Typed, Mote, RecType
  <2>5. m' = [w EXCEPT !.posted = Append(@, "readLogger")]
    BY <2>1, <2>2 DEF Post
  <2>6. /\ m'.c = w.c /\ m'.timer = w.timer /\ m'.readbusy = w.readbusy /\ m'.log = w.log
        /\ m'.pending = w.pending /\ m'.posted = Append(w.posted, "readLogger")
    BY <1>3, <2>2, <2>5 DEF Typed, Mote, RecType
  <2> QED BY <2>3, <2>4, <2>6 DEF Served, Timed, ReadServed
<1> QED BY <1>2, <1>4, <1>5, <1>6, FinishedServed DEF Typed

LEMMA TimerServed ==
  ASSUME Typed, Served(m), NEW i \in Conns, StateTimerFired(i)
  PROVE  Served(m')
<1>1. PICK r \in Mote : r = [m EXCEPT !.timer[i] = FALSE] /\ r.c = m.c /\ ReadServed(r)
                        /\ r.posted = m.posted
                        /\ (m.c[i].state \notin {"SYN_ACK_WAIT", "FIN_ACK_WAIT"} => Served(r))
                        /\ \A j \in Conns \ {i} : r.timer[j] = m.timer[j]
  <2>1. PICK b : b = [m EXCEPT !.timer[i] = FALSE]
    OBVIOUS
  <2>2. b \in RecType /\ b.c = m.c /\ b.rlist = m.rlist /\ b.posted = m.posted
    BY <2>1, ZenonT(30) DEF Typed, Mote, RecType
  <2>3. b \in Mote
    BY <2>2 DEF Typed, Mote
  <2>4. /\ ReadServed(b) /\ \A j \in Conns \ {i} : b.timer[j] = m.timer[j]
        /\ (m.c[i].state \notin {"SYN_ACK_WAIT", "FIN_ACK_WAIT"} => Timed(b))
    BY <2>1 DEF Served, Timed, ReadServed, Typed, Mote, RecType
  <2> QED BY <2>1, <2>2, <2>3, <2>4 DEF Served
<1>2. ASSUME NEW c, c.state \in {"SYN_SEND", "FIN_SEND"}, NEW task \in TaskName,
             m' = Post([r EXCEPT !.c[i] = c], task)
      PROVE  Served(m')
  <2>1. Range(Append(r.posted, task)) = Range(r.posted) \cup {task}
    BY RangeAppends DEF Mote, RecType
  <2> QED BY <1>1, <1>2, <2>1 DEF Post, Served, Timed, ReadServed, Typed, Mote, RecType
<1>3. PICK q : q = ResetConnection(r, i) /\ Served(q) /\ q.posted = m.posted
  <2>1. PICK q : q = ResetConnection(r, i)
    OBVIOUS
  <2>2. Served(q) /\ q.posted = r.posted
    BY <1>1, <2>1, IdleTyped DEF ResetConnection, Served, Timed, ReadServed, Typed, Mote, RecType
  <2> QED BY <1>1, <2>1, <2>2
<1>4. m.c[i] \in ConnType
  BY DEF Typed, Mote, RecType
<1>5. CASE m.c[i].state = "SYN_ACK_WAIT"
  <2>1. PICK c : c = [m.c[i] EXCEPT !.lastSent = m.c[i].lastSent + 1, !.state = "SYN_SEND"]
    OBVIOUS
  <2>2. c.state = "SYN_SEND"
    BY <1>4, <2>1 DEF ConnType
  <2>3. m' = q \/ m' = Post([r EXCEPT !.c[i] = c], "send_SYN")
    BY <1>1, <1>3, <1>5, <2>1 DEF StateTimerFired
  <2> QED BY <1>2, <1>3, <2>2, <2>3 DEF TaskName
<1>6. CASE m.c[i].state = "FIN_ACK_WAIT"
  <2>1. PICK c : c = [m.c[i] EXCEPT !.finCnt = m.c[i].finCnt + 1, !.state = "FIN_SEND"]
    OBVIOUS
  <2>2. c.state = "FIN_SEND"
    BY <1>4, <2>1 DEF ConnType
  <2>3. m' = Finished(r, i) \/ m' = Post([r EXCEPT !.c[i] = c], "send_FIN")
    BY <1>1, <1>6, <2>1 DEF StateTimerFired
  <2>4. ASSUME m' = Finished(r, i)
        PROVE  Served(m')
    <3>1. PICK w : w = [q EXCEPT !.rlist = ClearID(@, i), !.eraseid = i]
      OBVIOUS
    <3>2. m' = Post(w, "eraseLogger")
      BY <1>3, <2>4, <3>1 DEF Finished
    <3>3. Range(Append(m.posted, "eraseLogger")) = Range(m.posted) \cup {"eraseLogger"}
      BY RangeAppends, SMTT(30) DEF Typed, Mote, RecType, TaskName
    <3>4. /\ m'.c = q.c /\ m'.timer = q.timer /\ m'.readbusy = q.readbusy /\ m'.log = q.log
          /\ m'.pending = q.pending /\ m'.posted = Append(m.posted, "eraseLogger")
      BY <1>1, <1>3, <3>1, <3>2 DEF ResetConnection, Post, Mote, RecType
    <3> QED BY <1>3, <3>3, <3>4 DEF Served, Timed, ReadServed
  <2> QED BY <1>2, <2>2, <2>3, <2>4 DEF TaskName
<1>7. CASE m.c[i].state \notin {"SYN_ACK_WAIT", "FIN_ACK_WAIT"}
  BY <1>1, <1>7 DEF StateTimerFired
<1> QED BY <1>5, <1>6, <1>7

LEMMA RetryServed ==
  ASSUME Typed, Served(m), RetryTimer_fired
  PROVE  Served(m')
<1>1. ASSUME NEW flag, NEW task \in TaskName
      PROVE  Again(flag, task) \in Seq(TaskName)
  BY DEF Again
<1>2. PICK a \in Seq(TaskName), b \in Seq(TaskName), c \in Seq(TaskName),
           d \in Seq(TaskName), e \in Seq(TaskName) :
        /\ a = Again("WRITE_LOGGER", "writeLogger") /\ b = Again("READ_LOGGER", "readLogger")
        /\ c = Again("RETRANSMIT", "retransmitDataPacket")
        /\ d = Again("SYN", "send_SYN") /\ e = Again("FIN", "send_FIN")
  BY <1>1 DEF TaskName
<1>3. m' = [m EXCEPT !.pending = {}, !.posted = @ \o (a \o b \o c \o d \o e)]
  BY <1>2 DEF RetryTimer_fired
<1>4. "RETRANSMIT" \in m.pending => "retransmitDataPacket" \in Range(c)
  <2>1. Range(<<"retransmitDataPacket">>) = {"retransmitDataPacket"}
    BY DEF Range
  <2> QED BY <1>2, <2>1 DEF Again
<1>5. Range(c) \subseteq Range(a \o b \o c \o d \o e) /\ a \o b \o c \o d \o e \in Seq(TaskName)
  <2>1. PICK ab \in Seq(TaskName) : ab = a \o b
    BY ConcatProperties
  <2>2. PICK abc \in Seq(TaskName) : abc = ab \o c
    BY ConcatProperties
  <2>3. PICK abcd \in Seq(TaskName) : abcd = abc \o d
    BY ConcatProperties
  <2>4. PICK abcde \in Seq(TaskName) : abcde = abcd \o e
    BY ConcatProperties
  <2>5. Range(abc) = Range(ab) \cup Range(c)
    BY <2>2, RangeConcats
  <2>6. Range(abcd) = Range(abc) \cup Range(d)
    BY <2>3, RangeConcats
  <2>7. Range(abcde) = Range(abcd) \cup Range(e)
    BY <2>4, RangeConcats
  <2>8. abcde = a \o b \o c \o d \o e
    BY <2>1, <2>2, <2>3, <2>4
  <2> QED BY <2>5, <2>6, <2>7, <2>8
<1>6. PICK w \in Seq(TaskName) : w = a \o b \o c \o d \o e
  BY <1>5
<1>7. Range(m.posted \o w) = Range(m.posted) \cup Range(w)
  BY RangeConcats DEF Typed, Mote, RecType
<1>8. m' = [m EXCEPT !.pending = {}, !.posted = @ \o w]
  BY <1>3, <1>6
<1> QED BY <1>4, <1>5, <1>6, <1>7, <1>8 DEF Served, Timed, ReadServed, Typed, Mote, RecType

LEMMA CommandServed ==
  ASSUME Typed, Served(m), NEW s \in Stream,
         ConnectionSend_open(s) \/ ConnectionSend_send(s) \/ ConnectionSend_close(s)
  PROVE  Served(m')
<1>1. ASSUME NEW task \in TaskName
      PROVE  Range(Append(m.posted, task)) = Range(m.posted) \cup {task}
  BY RangeAppends DEF Typed, Mote, RecType
<1>2. CASE ConnectionSend_open(s)
  <2>1. CASE {i \in Conns : m.c[i].state = "IDLE"} = {}
    BY <1>2, <2>1, PostServed DEF Typed, ConnectionSend_open, TaskName
  <2>2. CASE {i \in Conns : m.c[i].state = "IDLE"} # {}
    <3>1. PICK i \in Conns : i = Min({j \in Conns : m.c[j].state = "IDLE"})
      BY <2>2, LeastConn
    <3>2. PICK c : c = [m.c[i] EXCEPT !.s = s, !.state = "SYN_SEND"]
      OBVIOUS
    <3>3. c.state = "SYN_SEND"
      <4>1. m.c[i] \in ConnType
        BY DEF Typed, Mote, RecType
      <4> QED BY <3>2, <4>1 DEF ConnType
    <3>4. m' = Post([m EXCEPT !.c[i] = c, !.opened = @ \cup {s}], "send_SYN")
      BY <1>2, <2>2, <3>1, <3>2 DEF ConnectionSend_open
    <3> QED BY <1>1, <3>3, <3>4
            DEF TaskName, Post, Served, Timed, ReadServed, Typed, Mote, RecType
  <2> QED BY <2>1, <2>2
<1>3. CASE ConnectionSend_send(s)
  <2>1. PICK i, n, q :
          /\ i \in WithCid(m, <<s, 0>>)
          /\ m.c[i].state = "ACTIVE"
          /\ m' = Post([m EXCEPT !.c[i].lastSent = n, !.routing = q,
                           !.wbuf = <<s, n>>, !.writebusy = TRUE,
                           !.sent[s] = @ + 1, !.owed = @ \cup {s}], "writeLogger")
    BY <1>3 DEF ConnectionSend_send
  <2>2. i \in Conns /\ m.c[i] \in ConnType
    BY <2>1, Consts DEF WithCid, Typed, Mote, RecType
  <2>3. [m.c[i] EXCEPT !.lastSent = n].state = "ACTIVE"
    BY <2>1, <2>2 DEF ConnType
  <2> QED BY <1>1, <2>1, <2>2, <2>3
          DEF TaskName, Post, Served, Timed, ReadServed, Typed, Mote, RecType
<1>4. CASE ConnectionSend_close(s)
  <2>1. PICK i : i = Min(WithCid(m, <<s, 0>>))
    OBVIOUS
  <2>2. \/ m' = [m EXCEPT !.closed = @ \cup {s}]
        \/ /\ WithCid(m, <<s, 0>>) # {}
           /\ m' = Post([[m EXCEPT !.closed = @ \cup {s}] EXCEPT !.c[i].state = "FIN_SEND"], "send_FIN")
    BY <1>4, <2>1 DEF ConnectionSend_close
  <2>3. ASSUME WithCid(m, <<s, 0>>) # {}
        PROVE  i \in Conns /\ m.c[i] \in ConnType
    <3>1. WithCid(m, <<s, 0>>) \subseteq Conns
      BY Consts DEF WithCid
    <3> QED BY <2>1, <2>3, <3>1, LeastConn DEF Typed, Mote, RecType
  <2>4. PICK gone \in Mote : gone = [m EXCEPT !.closed = @ \cup {s}] /\ Served(gone)
    <3>1. PICK g : g = [m EXCEPT !.closed = @ \cup {s}]
      OBVIOUS
    <3>2. g \in Mote
      BY <3>1, ZenonT(30) DEF Typed, Mote, RecType
    <3>3. Served(g)
      BY <3>1 DEF Served, Timed, ReadServed, Typed, Mote, RecType
    <3> QED BY <3>1, <3>2, <3>3
  <2>5. ASSUME WithCid(m, <<s, 0>>) # {}
        PROVE  Served(Post([gone EXCEPT !.c[i].state = "FIN_SEND"], "send_FIN"))
    <3>1. Range(Append(gone.posted, "send_FIN")) = Range(gone.posted) \cup {"send_FIN"}
      BY RangeAppends DEF Mote, RecType, TaskName
    <3>2. i \in Conns /\ gone.c[i] \in ConnType
      BY <2>3, <2>5 DEF Mote, RecType
    <3>3. PICK c : c = [gone.c[i] EXCEPT !.state = "FIN_SEND"]
      OBVIOUS
    <3>4. c.state = "FIN_SEND"
      BY <3>2, <3>3 DEF ConnType
    <3>5. [gone EXCEPT !.c[i].state = "FIN_SEND"] = [gone EXCEPT !.c[i] = c]
      BY <3>3
    <3> QED BY <2>4, <3>1, <3>2, <3>4, <3>5 DEF Post, Served, Timed, ReadServed, Mote, RecType
  <2> QED BY <2>2, <2>4, <2>5
<1> QED BY <1>2, <1>3, <1>4

LEMMA NextServed == Typed /\ Served(m) /\ [Next]_vars => Served(m')
<1> SUFFICES ASSUME Typed, Served(m), [Next]_vars
             PROVE  Served(m')
  OBVIOUS
<1>1. CASE Loses \/ MasterAnswers \/ UNCHANGED vars
  BY <1>1 DEF Loses, MasterAnswers, vars
<1>2. ASSUME NEW p \in net, RoutingReceive_receive(p)
      PROVE  Served(m')
  BY <1>2, ReceiveServed
<1>3. ASSUME NEW ok \in BOOLEAN, RunTask(ok) \/ writeDone(ok) \/ readDone(ok)
                                 \/ RoutingSend_sendDone(ok)
      PROVE  Served(m')
  BY <1>3, TaskServed, FlashServed, SendDoneServed
<1>4. ASSUME NEW s \in Stream, \/ ConnectionSend_open(s) \/ ConnectionSend_send(s)
                               \/ ConnectionSend_close(s)
      PROVE  Served(m')
  BY <1>4, CommandServed
<1>5. ASSUME NEW i \in Conns, StateTimerFired(i)
      PROVE  Served(m')
  BY <1>5, TimerServed
<1>6. CASE eraseDone \/ RetryTimer_fired
  BY <1>6, FlashServed, RetryServed
<1> QED BY <1>1, <1>2, <1>3, <1>4, <1>5, <1>6 DEF Next

LEMMA ServedInvariant == Spec => [](Typed /\ Served(m))
<1>1. Init => Served(m)
  BY IdleTyped, Consts DEF Init, Served, Timed, ReadServed
<1>2. Typed /\ Served(m) /\ [Next]_vars => (Typed /\ Served(m))'
  BY NextTyped, NextServed
<1> QED BY <1>1, <1>2, InitTyped, PTL DEF Spec

(* A connection in SYN_ACK_WAIT or FIN_ACK_WAIT always has its SubTimer     *)
(* running, however the answers, the give-ups and the retries of the two   *)
(* connections fall: only the timer takes it out of there when no answer   *)
(* comes (StreamTransportM.nc:334, 490, 611).                              *)
THEOREM WaitsAreTimed == Spec => []AnswerIsTimed
<1>1. Served(m) => AnswerIsTimed
  BY DEF Served, Timed, AnswerIsTimed
<1> QED BY <1>1, ServedInvariant, PTL

(* eepromReadBufBusy is set only while a read, the task that sends what     *)
(* was read, or the retry of that task is under way, whatever fails: one    *)
(* lost step would end retransmission on both connections for ever          *)
(* (StreamTransportM.nc:279, 303, 415, 441).                               *)
THEOREM ReadBufferIsFreed == Spec => []ReadBusyIsServed
<1>1. Served(m) => ReadBusyIsServed
  BY DEF Served, ReadServed, ReadBusyIsServed
<1> QED BY <1>1, ServedInvariant, PTL

-----------------------------------------------------------------------------
(* One sendDone at a time.                                                 *)

(* Two connections never have the same stream, and a stream that is opened *)
(* is never opened again.                                                  *)
Apart(r) ==
  \A i, j \in Conns : r.c[i].s # None => r.c[i].s \in r.opened /\ (i # j => r.c[j].s # r.c[i].s)

HasConn(r, s, S) == \E i \in Conns : r.c[i].s = s /\ r.c[i].state \in S

(* A FIN_ACK answers a FIN: when it arrives, no packet of its stream is     *)
(* with the radio.                                                         *)
FinAired(r, n) ==
  /\ \A p \in n : p.flag = "FIN_ACK" => p = Pkt(p.s, "FIN_ACK", 0) /\ <<p.s, "FIN">> \in r.aired
  /\ \A s \in Stream : <<s, "FIN">> \in r.aired =>
        /\ HasConn(r, s, {"FIN_SEND", "FIN_ACK_WAIT"})
        /\ r.routing.s = s => r.routing.flag \notin {"SYN", "DATA"}

(* A packet is with the radio for the first time.                          *)
OnAir(r) ==
  r.routing.flag = "DATA" =>
    /\ HasConn(r, r.routing.s, {"ACTIVE", "FIN_SEND"})
    /\ r.writebusy => r.wbuf[1] = r.routing.s
    /\ \A i \in Conns : ~r.psd[i]

(* The packet in the send buffer has its connection.                       *)
InBuffer(r) ==
  r.writebusy =>
    /\ r.wbuf # Erased
    /\ HasConn(r, r.wbuf[1], {"ACTIVE", "FIN_SEND", "FIN_ACK_WAIT"})
    /\ ~(r.routing.flag = "SYN" /\ r.routing.s = r.wbuf[1])

(* A sendDone that waits for the log is of the packet in the send buffer.   *)
PsdWaits(r) == \A i \in Conns : r.psd[i] => r.writebusy /\ r.c[i].s = r.wbuf[1]

OwedHas(r) == \A s \in r.owed : \/ r.routing.flag = "DATA" /\ r.routing.s = s
                                \/ \E i \in Conns : r.psd[i] /\ r.c[i].s = s

OweInv(r, n) ==
  /\ Apart(r) /\ FinAired(r, n) /\ OnAir(r) /\ InBuffer(r) /\ PsdWaits(r) /\ OwedHas(r)

(* What OweInv is about.                                                   *)
View(r) == <<r.c, r.psd, r.routing, r.wbuf, r.writebusy, r.opened, r.aired, r.owed>>

(* The hypotheses: a packet is in the log before the closing of its         *)
(* connection is over, and no two streams have one cid.                    *)
Settled == /\ "slow" \notin Faults
           /\ \A s, t \in Stream : Cid[s] = Cid[t] => s = t

LEMMA SameView ==
  ASSUME NEW r, NEW q, NEW n, NEW k, OweInv(r, n), View(q) = View(r), k \subseteq n
  PROVE  OweInv(q, k)
<1>1. /\ q.c = r.c /\ q.psd = r.psd /\ q.routing = r.routing /\ q.wbuf = r.wbuf
      /\ q.writebusy = r.writebusy /\ q.opened = r.opened /\ q.aired = r.aired
      /\ q.owed = r.owed
  BY DEF View
<1> QED BY <1>1 DEF OweInv, Apart, FinAired, HasConn, OnAir, InBuffer, PsdWaits, OwedHas

LEMMA SendsOwe ==
  ASSUME NEW r, NEW n, NEW q, OweInv(r, n), q.flag # "FIN_ACK"
  PROVE  OweInv(r, Sending(n, q))
BY DEF OweInv, FinAired, Sending

(* The connection of a stream is the one that is known of it.              *)
LEMMA TheConn ==
  ASSUME NEW r, Apart(r), NEW i \in Conns, r.c[i].s # None, NEW S, HasConn(r, r.c[i].s, S)
  PROVE  r.c[i].state \in S
BY DEF Apart, HasConn

LEMMA ConnOwe ==
  ASSUME NEW r \in Mote, NEW n, NEW i \in Conns, NEW c \in ConnType, OweInv(r, n),
         c.s = r.c[i].s, r.c[i].s # None,
         <<c.s, "FIN">> \in r.aired => c.state \in {"FIN_SEND", "FIN_ACK_WAIT"},
         r.routing.flag = "DATA" /\ r.routing.s = c.s => c.state \in {"ACTIVE", "FIN_SEND"},
         r.writebusy /\ r.wbuf[1] = c.s => c.state \in {"ACTIVE", "FIN_SEND", "FIN_ACK_WAIT"}
  PROVE  OweInv([r EXCEPT !.c[i] = c], n)
<1>1. PICK q : q = [r EXCEPT !.c[i] = c]
  OBVIOUS
<1>2. /\ q.psd = r.psd /\ q.routing = r.routing /\ q.wbuf = r.wbuf
      /\ q.writebusy = r.writebusy /\ q.opened = r.opened /\ q.aired = r.aired
      /\ q.owed = r.owed /\ q.c[i] = c /\ \A j \in Conns \ {i} : q.c[j] = r.c[j]
  BY <1>1 DEF Mote, RecType
<1>3. \A j \in Conns : q.c[j].s = r.c[j].s
  BY <1>2
<1>4. ASSUME NEW s, NEW S, HasConn(r, s, S), s = c.s => c.state \in S
      PROVE  HasConn(q, s, S)
  BY <1>2, <1>3, <1>4 DEF HasConn
<1>5. Apart(q)
  BY <1>2, <1>3 DEF OweInv, Apart
<1>6. FinAired(q, n)
  BY <1>2, <1>4 DEF OweInv, FinAired
<1>7. OnAir(q)
  BY <1>2, <1>4 DEF OweInv, OnAir
<1>8. InBuffer(q)
  BY <1>2, <1>4 DEF OweInv, InBuffer
<1>9. PsdWaits(q) /\ OwedHas(q)
  BY <1>2, <1>3 DEF OweInv, PsdWaits, OwedHas
<1> QED BY <1>1, <1>5, <1>6, <1>7, <1>8, <1>9 DEF OweInv

LEMMA RouteOwe ==
  ASSUME NEW r \in Mote, NEW n, NEW q \in RouteType, OweInv(r, n),
         r.routing.flag # "DATA", q.flag \in {"none", "SYN", "FIN", "DATA_RETX"},
         q.flag = "SYN" => /\ <<q.s, "FIN">> \notin r.aired
                           /\ ~(r.writebusy /\ r.wbuf[1] = q.s)
  PROVE  OweInv([r EXCEPT !.routing = q], n)
<1>1. PICK w : w = [r EXCEPT !.routing = q]
  OBVIOUS
<1>2. /\ w.psd = r.psd /\ w.routing = q /\ w.wbuf = r.wbuf
      /\ w.writebusy = r.writebusy /\ w.opened = r.opened /\ w.aired = r.aired
      /\ w.owed = r.owed /\ w.c = r.c
  BY <1>1 DEF Mote, RecType
<1>3. OweInv(w, n)
  BY <1>2 DEF OweInv, Apart, FinAired, HasConn, OnAir, InBuffer, PsdWaits, OwedHas
<1> QED BY <1>1, <1>3

LEMMA AiredOwe ==
  ASSUME NEW r \in Mote, NEW n, NEW s \in Stream, NEW flag \in {"SYN", "FIN"}, OweInv(r, n),
         flag = "FIN" => /\ HasConn(r, s, {"FIN_SEND", "FIN_ACK_WAIT"})
                         /\ r.routing.flag \notin {"SYN", "DATA"}
  PROVE  OweInv([r EXCEPT !.aired = @ \cup {<<s, flag>>}], n)
<1>1. PICK w : w = [r EXCEPT !.aired = @ \cup {<<s, flag>>}]
  OBVIOUS
<1>2. /\ w.psd = r.psd /\ w.routing = r.routing /\ w.wbuf = r.wbuf
      /\ w.writebusy = r.writebusy /\ w.opened = r.opened
      /\ w.aired = r.aired \cup {<<s, flag>>}
      /\ w.owed = r.owed /\ w.c = r.c
  BY <1>1 DEF Mote, RecType
<1>3. OweInv(w, n)
  BY <1>2 DEF OweInv, Apart, FinAired, HasConn, OnAir, InBuffer, PsdWaits, OwedHas
<1> QED BY <1>1, <1>3

(* A connection ends only when nothing of its stream is under way.         *)
LEMMA ResetOwe ==
  ASSUME NEW r \in Mote, NEW n, NEW i \in Conns, OweInv(r, n), r.c[i].s # None,
         ~(r.writebusy /\ r.wbuf[1] = r.c[i].s),
         ~(r.routing.flag = "DATA" /\ r.routing.s = r.c[i].s),
         \A p \in n : p.flag = "FIN_ACK" => p.s # r.c[i].s
  PROVE  OweInv(ResetConnection(r, i), n)
<1>1. PICK w, s : w = ResetConnection(r, i) /\ s = r.c[i].s
  OBVIOUS
<1>2. /\ w.routing = r.routing /\ w.wbuf = r.wbuf
      /\ w.writebusy = r.writebusy /\ w.opened = r.opened
      /\ w.aired = {x \in r.aired : x[1] # s}
      /\ w.owed = r.owed /\ w.c[i] = IdleConn /\ ~w.psd[i]
      /\ \A j \in Conns \ {i} : w.c[j] = r.c[j] /\ w.psd[j] = r.psd[j]
  BY <1>1 DEF ResetConnection, Mote, RecType
<1>3. IdleConn.s = None /\ None \notin Stream
  BY IdleTyped, Consts
<1>4. ASSUME NEW t, NEW S, HasConn(r, t, S), t # s
      PROVE  HasConn(w, t, S)
  BY <1>1, <1>2, <1>4 DEF HasConn
<1>5. Apart(w)
  BY <1>2, <1>3 DEF OweInv, Apart
<1>6. FinAired(w, n)
  <2>1. ASSUME NEW p \in n, p.flag = "FIN_ACK"
        PROVE  p = Pkt(p.s, "FIN_ACK", 0) /\ <<p.s, "FIN">> \in w.aired
    BY <1>1, <1>2, <2>1 DEF OweInv, FinAired
  <2>2. ASSUME NEW t \in Stream, <<t, "FIN">> \in w.aired
        PROVE  /\ HasConn(w, t, {"FIN_SEND", "FIN_ACK_WAIT"})
               /\ w.routing.s = t => w.routing.flag \notin {"SYN", "DATA"}
    BY <1>1, <1>2, <1>4, <2>2 DEF OweInv, FinAired
  <2> QED BY <2>1, <2>2 DEF FinAired
<1>7. OnAir(w)
  BY <1>1, <1>2, <1>4 DEF OweInv, OnAir
<1>8. InBuffer(w)
  BY <1>1, <1>2, <1>4 DEF OweInv, InBuffer
<1>9. PsdWaits(w)
  BY <1>2 DEF OweInv, PsdWaits
<1>10. OwedHas(w)
  <2>1. ~r.psd[i]
    BY DEF OweInv, PsdWaits
  <2> QED BY <1>2, <2>1 DEF OweInv, OwedHas
<1> QED BY <1>1, <1>5, <1>6, <1>7, <1>8, <1>9, <1>10 DEF OweInv

LEMMA FinishedOwe ==
  ASSUME NEW r \in Mote, NEW n, NEW i \in Conns, OweInv(ResetConnection(r, i), n),
         r.c[i].s # None
  PROVE  OweInv(Finished(r, i), n)
<1>1. PICK q \in Mote : q = ResetConnection(r, i)
  BY ResetTyped
<1>2. View(Finished(r, i)) = View(q)
  BY <1>1 DEF Finished, Post, View, Mote, RecType
<1> QED BY <1>1, <1>2, SameView

-----------------------------------------------------------------------------
LEMMA TaskOwe ==
  ASSUME Typed, OweInv(m, net), NEW ok, RunTask(ok)
  PROVE  OweInv(m', net')
<1>1. m.posted # <<>> /\ m.posted \in Seq(TaskName)
  BY DEF RunTask, Typed, Mote, RecType
<1>2. Head(m.posted) \in TaskName /\ Tail(m.posted) \in Seq(TaskName)
  BY <1>1, HeadTailProperties
<1>3. PICK r \in Mote : r = [m EXCEPT !.posted = Tail(@)]
  BY <1>2 DEF Typed, Mote, RecType
<1>4. OweInv(r, net)
  <2>1. View(r) = View(m)
    BY <1>3 DEF View, Typed, Mote, RecType
  <2> QED BY <2>1, SameView
<1>5. \A flag : View(TryLater(r, flag)) = View(r)
  BY DEF View, TryLater, Mote, RecType
<1>6. CASE Head(m.posted) = "writeLogger"
  <2>1. View(writeLogger(r)) = View(r)
    BY DEF writeLogger, View, TryLater, Mote, RecType
  <2> QED BY <1>3, <1>4, <1>6, <2>1, SameView DEF RunTask
<1>7. CASE Head(m.posted) = "readLogger"
  <2>1. View(readLogger(r)) = View(r)
    BY DEF readLogger, View, TryLater, Post, Mote, RecType
  <2> QED BY <1>3, <1>4, <1>7, <2>1, SameView DEF RunTask
<1>8. CASE Head(m.posted) = "eraseLogger"
  <2>1. View(eraseLogger(r)) = View(r)
    BY DEF eraseLogger, View, TryLater, Mote, RecType
  <2> QED BY <1>3, <1>4, <1>8, <2>1, SameView DEF RunTask
<1>9. CASE Head(m.posted) = "retransmitDataPacket"
  <2>1. PICK f \in Mote : f = FreeRead(r) /\ OweInv(f, net)
    <3>1. View(FreeRead(r)) = View(r)
      BY DEF FreeRead, View, Mote, RecType
    <3> QED BY <1>4, <3>1, SameView, FreeReadTyped
  <2>2. \/ UNCHANGED net /\ m' \in {r, TryLater(r, "RETRANSMIT"), f}
        \/ /\ r.routing = NoPkt /\ WithCid(r, r.rbuf) # {}
           /\ LET q == Pkt(r.c[Min(WithCid(r, r.rbuf))].s, "DATA_RETX", r.rbuf[2])
              IN  m' = [f EXCEPT !.routing = q] /\ net' = Sending(net, q)
    BY <1>3, <1>9, <2>1 DEF RunTask, retransmitDataPacket, HandsOver
  <2>3. ASSUME NEW q, r.routing = NoPkt, WithCid(r, r.rbuf) # {},
               q = Pkt(r.c[Min(WithCid(r, r.rbuf))].s, "DATA_RETX", r.rbuf[2]),
               m' = [f EXCEPT !.routing = q], net' = Sending(net, q)
        PROVE  OweInv(m', net')
    <3>1. PICK s \in Stream, n \in Seqno0 : s = r.c[Min(WithCid(r, r.rbuf))].s /\ n = r.rbuf[2]
      <4>1. /\ r.rbuf \in Stream \X Seqno
            /\ r.c[Min(WithCid(r, r.rbuf))].s \in Stream
        BY <2>3, FoundByCid DEF Mote, RecType
      <4>2. r.rbuf[2] \in Seqno0
        BY <4>1, Consts
      <4> QED BY <4>1, <4>2
    <3>2. q \in RouteType /\ q.flag = "DATA_RETX"
      BY <2>3, <3>1, PktTyped DEF MasterFlag
    <3>3. f.routing = NoPkt /\ NoPkt.flag = "none"
      BY <2>1, <2>3 DEF FreeRead, Mote, RecType, NoPkt
    <3>4. OweInv(m', net)
      BY <2>1, <2>3, <3>2, <3>3, RouteOwe
    <3> QED BY <2>3, <3>2, <3>4, SendsOwe
  <2> QED BY <1>4, <1>5, <2>1, <2>2, <2>3, SameView
<1>10. ASSUME NEW from \in {"SYN_SEND", "FIN_SEND"}, NEW to, NEW flag,
              \/ from = "SYN_SEND" /\ to = "SYN_ACK_WAIT" /\ flag = "SYN"
              \/ from = "FIN_SEND" /\ to = "FIN_ACK_WAIT" /\ flag = "FIN",
              SendFirst(r, from, to, flag, ok)
       PROVE  OweInv(m', net')
  <2> DEFINE found == {i \in Conns : r.c[i].state = from}
  <2>1. CASE found = {} \/ r.routing # NoPkt
    BY <1>4, <1>5, <1>10, <2>1, SameView DEF SendFirst
  <2>2. CASE found # {} /\ r.routing = NoPkt
    <3>1. PICK i \in Conns : i = Min(found) /\ r.c[i].state = from
      BY <2>2, LeastConn
    <3>2. PICK s \in Stream : s = r.c[i].s /\ r.c[i] \in ConnType /\ s # None
      BY <1>10, <3>1, Consts, ZenonT(30) DEF Mote, RecType, ConnType
    <3>3. PICK n \in Seqno0 : n = IF flag = "SYN" THEN 0 ELSE SeqNext(r.c[i].lastSent)
      <4>1. SeqNext(r.c[i].lastSent) \in Seqno
        BY <3>2, NextType DEF ConnType
      <4>2. SeqNext(r.c[i].lastSent) \in Seqno0 /\ 0 \in Seqno0
        BY <4>1, Consts
      <4> QED BY <4>2
    <3>4. PICK q \in RouteType : q = Pkt(s, flag, n) /\ q.flag = flag /\ q.s = s
      BY <1>10, <3>2, PktTyped DEF MasterFlag
    <3>5. PICK c \in ConnType : c = [r.c[i] EXCEPT !.state = to] /\ c.s = s /\ c.state = to
      <4>1. PICK c : c = [r.c[i] EXCEPT !.state = to]
        OBVIOUS
      <4>2. to \in States
        BY <1>10 DEF States
      <4>3. c \in ConnType /\ c.s = s /\ c.state = to
        BY <3>2, <4>1, <4>2 DEF ConnType
      <4> QED BY <4>1, <4>3
    <3>6. NoPkt.flag = "none"
      BY DEF NoPkt
    <3>7. flag = "SYN" => <<s, "FIN">> \notin r.aired /\ ~(r.writebusy /\ r.wbuf[1] = s)
      <4> SUFFICES ASSUME flag = "SYN"
                   PROVE  <<s, "FIN">> \notin r.aired /\ ~(r.writebusy /\ r.wbuf[1] = s)
        OBVIOUS
      <4>1. r.c[i].state = "SYN_SEND" /\ Apart(r)
        BY <1>4, <1>10, <3>1 DEF OweInv
      <4>2. ~HasConn(r, s, {"FIN_SEND", "FIN_ACK_WAIT"})
        BY <3>2, <4>1, TheConn
      <4>3. ~HasConn(r, s, {"ACTIVE", "FIN_SEND", "FIN_ACK_WAIT"})
        BY <3>2, <4>1, TheConn
      <4> QED BY <1>4, <4>2, <4>3 DEF OweInv, FinAired, InBuffer
    <3>8. PICK b \in Mote : b = [r EXCEPT !.c[i] = c] /\ OweInv(b, net)
      <4>1. c.s # None /\ c.state # "IDLE"
        BY <1>10, <3>2, <3>5
      <4>2. [r EXCEPT !.c[i] = c] \in Mote
        BY <4>1, ConnTyped
      <4>3. OweInv([r EXCEPT !.c[i] = c], net)
        BY <1>4, <1>10, <2>2, <3>2, <3>5, <3>6, <3>7, ConnOwe
      <4> QED BY <4>2, <4>3
    <3>9. PICK a \in Mote : a = [b EXCEPT !.aired = @ \cup {<<s, flag>>}] /\ OweInv(a, net)
      <4>1. HasConn(b, s, {to})
        BY <3>5, <3>8 DEF HasConn, Mote, RecType
      <4>2. flag = "FIN" => HasConn(b, s, {"FIN_SEND", "FIN_ACK_WAIT"})
        BY <1>10, <4>1 DEF HasConn
      <4>3. b.routing.flag = "none"
        BY <2>2, <3>6, <3>8 DEF Mote, RecType
      <4>4. flag \in {"SYN", "FIN"}
        BY <1>10
      <4>5. [b EXCEPT !.aired = @ \cup {<<s, flag>>}] \in Mote
        <5>1. PICK w : w = [b EXCEPT !.aired = @ \cup {<<s, flag>>}]
          OBVIOUS
        <5>2. b.aired \cup {<<s, flag>>} \in SUBSET (Stream \X {"SYN", "FIN"})
          BY <4>4 DEF Mote, RecType
        <5>3. w \in RecType /\ w.c = b.c /\ w.rlist = b.rlist
          BY <5>1, <5>2, ZenonT(30) DEF Mote, RecType
        <5> QED BY <5>1, <5>3 DEF Mote
      <4> QED BY <3>8, <4>2, <4>3, <4>4, <4>5, AiredOwe
    <3>10. PICK z : z = [a EXCEPT !.routing = q]
      OBVIOUS
    <3>11. OweInv(z, Sending(net, q))
      <4>1. a.routing.flag = "none" /\ a.writebusy = r.writebusy /\ a.wbuf = r.wbuf
            /\ a.aired = r.aired \cup {<<s, flag>>}
        BY <2>2, <3>6, <3>8, <3>9 DEF Mote, RecType
      <4>2. flag = "SYN" => <<s, "FIN">> \notin a.aired
        BY <3>7, <4>1
      <4>3. OweInv(z, net)
        BY <1>10, <3>4, <3>7, <3>9, <3>10, <4>1, <4>2, RouteOwe
      <4> QED BY <1>10, <3>4, <4>3, SendsOwe
    <3>12. PICK u : u = [[r EXCEPT !.c[i].state = to, !.timer[i] = TRUE,
                             !.aired = @ \cup {<<s, flag>>}] EXCEPT !.routing = q]
      OBVIOUS
    <3>13. View(u) = View(z)
      BY <3>5, <3>8, <3>9, <3>10, <3>12 DEF View, Mote, RecType
    <3>14. \/ m' = u /\ net' = Sending(net, q)
           \/ m' = TryLater(r, flag) /\ UNCHANGED net
      BY <1>10, <2>2, <3>1, <3>2, <3>3, <3>4, <3>12, Zenon DEF SendFirst, HandsOver
    <3>15. OweInv(u, Sending(net, q))
      BY <3>11, <3>13, SameView
    <3> QED BY <1>4, <1>5, <3>14, <3>15, SameView
  <2> QED BY <2>1, <2>2
<1>11. CASE Head(m.posted) \in {"send_SYN", "send_FIN"}
  BY <1>3, <1>10, <1>11 DEF RunTask, send_SYN, send_FIN
<1> QED BY <1>2, <1>6, <1>7, <1>8, <1>9, <1>11 DEF TaskName

LEMMA FlashOwe ==
  ASSUME Typed, Settled, OweInv(m, net), NEW ok \in BOOLEAN,
         writeDone(ok) \/ readDone(ok) \/ eraseDone
  PROVE  OweInv(m', net')
<1>1. m \in Mote
  BY DEF Typed
<1>2. CASE readDone(ok)
  <2>1. View(m') = View(m)
    BY <1>1, <1>2 DEF readDone, Post, TryLater, FreeRead, View, Mote, RecType
  <2> QED BY <1>2, <2>1, SameView DEF readDone
<1>3. CASE eraseDone
  <2>1. View(m') = View(m)
    BY <1>1, <1>3 DEF eraseDone, View, Mote, RecType
  <2> QED BY <1>3, <2>1, SameView DEF eraseDone
<1>4. CASE writeDone(ok)
  <2>1. PICK g : g = IF ok THEN LogWritten(m.log) ELSE [m.log EXCEPT !.op = NoOp]
    OBVIOUS
  <2>2. PICK r : r = [m EXCEPT !.eeprom = "idle", !.log = g]
    OBVIOUS
  <2>3. PICK i : i = Min(WithCid(m, m.wbuf))
    OBVIOUS
  <2>4. PICK done : done = [r EXCEPT !.writebusy = FALSE, !.wbuf = Erased]
    OBVIOUS
  <2>5. CASE WithCid(m, m.wbuf) = {} \/ ~ok
    <3>1. m' \in {r, Post(r, "writeLogger")}
      BY <1>4, <2>1, <2>2, <2>5 DEF writeDone
    <3>2. View(m') = View(m)
      BY <1>1, <2>2, <3>1, ZenonT(30) DEF Post, View, Mote, RecType
    <3> QED BY <1>4, <3>2, SameView DEF writeDone
  <2>6. CASE WithCid(m, m.wbuf) # {} /\ ok
    <3>1. i \in Conns /\ m.wbuf \in Stream \X Seqno /\ m.c[i].s = m.wbuf[1] /\ m.c[i].s # None
      <4>1. i \in Conns /\ m.wbuf \in Stream \X Seqno /\ m.c[i].s \in Stream
        BY <1>1, <2>3, <2>6, FoundByCid DEF Mote, RecType
      <4>2. i \in WithCid(m, m.wbuf)
        BY <1>1, <2>3, <2>6, FoundByCid, LeastConn DEF Mote, RecType
      <4>3. Cid[m.c[i].s] = Cid[m.wbuf[1]]
        BY <1>1, <4>2, FoundByCid DEF Mote, RecType
      <4> QED BY <4>1, <4>3, Consts DEF Settled
    <3>2. m' \in {Post(done, "readLogger"), Post(Signalled(done, i), "readLogger")}
          /\ (m.psd[i] => m' = Post(Signalled(done, i), "readLogger"))
      <4>1. r.psd = m.psd
        BY <1>1, <2>2 DEF Mote, RecType
      <4> QED BY <1>4, <2>1, <2>2, <2>3, <2>4, <2>6, <4>1 DEF writeDone
    <3>3. /\ m'.c = m.c /\ m'.routing = m.routing /\ ~m'.writebusy
          /\ m'.opened = m.opened /\ m'.aired = m.aired
          /\ m'.owed \subseteq m.owed /\ \A j \in Conns : m'.psd[j] => m.psd[j]
          /\ m.psd[i] => ~m'.psd[i] /\ m'.owed = m.owed \ {m.c[i].s}
      <4>1. /\ done.c = m.c /\ done.routing = m.routing /\ ~done.writebusy
            /\ done.opened = m.opened /\ done.aired = m.aired
            /\ done.owed = m.owed /\ done.psd = m.psd
        BY <1>1, <2>2, <2>4 DEF Mote, RecType
      <4>2. PICK w : w = Signalled(done, i)
        OBVIOUS
      <4>3. /\ w.c = m.c /\ w.routing = m.routing /\ ~w.writebusy
            /\ w.opened = m.opened /\ w.aired = m.aired
            /\ w.owed = m.owed \ {m.c[i].s} /\ w.psd = [m.psd EXCEPT ![i] = FALSE]
        BY <1>1, <2>2, <2>4, <4>1, <4>2 DEF Signalled, Mote, RecType
      <4>4. m.psd \in [Conns -> BOOLEAN]
        BY <1>1 DEF Mote, RecType
      <4>5. ASSUME m' = Post(w, "readLogger")
            PROVE  /\ m'.c = m.c /\ m'.routing = m.routing /\ ~m'.writebusy
                   /\ m'.opened = m.opened /\ m'.aired = m.aired
                   /\ m'.owed = m.owed \ {m.c[i].s} /\ m'.psd = [m.psd EXCEPT ![i] = FALSE]
        BY <1>1, <2>2, <2>4, <4>2, <4>3, <4>5 DEF Post, Signalled, Mote, RecType
      <4>6. CASE m.psd[i]
        BY <3>1, <3>2, <4>2, <4>4, <4>5, <4>6
      <4>7. ASSUME m' = Post(done, "readLogger")
            PROVE  /\ m'.c = m.c /\ m'.routing = m.routing /\ ~m'.writebusy
                   /\ m'.opened = m.opened /\ m'.aired = m.aired
                   /\ m'.owed = m.owed /\ m'.psd = m.psd
        BY <1>1, <2>2, <2>4, <4>1, <4>7 DEF Post, Mote, RecType
      <4>8. CASE ~m.psd[i]
        BY <3>1, <3>2, <4>2, <4>4, <4>5, <4>7, <4>8
      <4> QED BY <4>6, <4>8
    <3>4. \A j \in Conns : m.psd[j] => j = i
      BY <3>1 DEF OweInv, PsdWaits, Apart
    <3>5. \A j \in Conns : ~m'.psd[j]
      BY <3>1, <3>3, <3>4
    <3>6. OwedHas(m')
      BY <3>3, <3>4 DEF OweInv, OwedHas
    <3>7. Apart(m') /\ FinAired(m', net) /\ OnAir(m') /\ InBuffer(m') /\ PsdWaits(m')
      BY <3>3, <3>5 DEF OweInv, Apart, FinAired, HasConn, OnAir, InBuffer, PsdWaits
    <3> QED BY <1>4, <3>6, <3>7 DEF OweInv, writeDone
  <2> QED BY <2>5, <2>6
<1> QED BY <1>2, <1>3, <1>4

LEMMA SendDoneOwe ==
  ASSUME Typed, OweInv(m, net), NEW success \in BOOLEAN, RoutingSend_sendDone(success)
  PROVE  OweInv(m', net')
<1>1. PICK i, found : found = Valid(m, m.routing.s) /\ i = Min(found)
  OBVIOUS
<1>2. found # {} => i \in Conns /\ m.routing.s \in Stream /\ m.c[i].s = m.routing.s
                    /\ m.c[i].s # None
  BY <1>1, FoundByStream, Consts DEF Typed
<1>3. PICK r \in Mote : r = [m EXCEPT !.routing = NoPkt]
  <2>1. PICK r : r = [m EXCEPT !.routing = NoPkt]
    OBVIOUS
  <2>2. NoPkt \in RouteType
    BY Consts DEF NoPkt, RouteType
  <2>3. r \in RecType /\ r.c = m.c /\ r.rlist = m.rlist
    BY <2>1, <2>2 DEF Typed, Mote, RecType
  <2> QED BY <2>1, <2>3 DEF Typed, Mote
<1>4. /\ NoPkt \in RouteType /\ NoPkt.flag = "none"
  BY Consts DEF NoPkt, RouteType
<1>5. m.routing.flag # "DATA" => OweInv(r, net)
  BY <1>3, <1>4, RouteOwe DEF Typed
<1>6. CASE m.routing.flag = "DATA"
  <2>1. found # {}
    <3>1. PICK j \in Conns : m.c[j].s = m.routing.s /\ m.c[j].state \in {"ACTIVE", "FIN_SEND"}
      BY <1>6 DEF OweInv, OnAir, HasConn
    <3>2. m.c[j].s # None
      BY <3>1 DEF Typed, Mote
    <3> QED BY <1>1, <3>1, <3>2 DEF Valid
  <2>2. UNCHANGED net /\ m' = IF m.writebusy THEN [r EXCEPT !.psd[i] = TRUE] ELSE Signalled(r, i)
    BY <1>1, <1>3, <1>6, <2>1 DEF RoutingSend_sendDone
  <2>3. \A j \in Conns : ~m.psd[j]
    BY <1>6 DEF OweInv, OnAir
  <2>4. \A s \in m.owed : s = m.routing.s
    BY <2>3 DEF OweInv, OwedHas
  <2>5. /\ m'.c = m.c /\ m'.routing = NoPkt /\ m'.wbuf = m.wbuf /\ m'.writebusy = m.writebusy
        /\ m'.opened = m.opened /\ m'.aired = m.aired
        /\ m.writebusy => m'.owed = m.owed /\ m'.psd = [m.psd EXCEPT ![i] = TRUE]
        /\ ~m.writebusy => /\ m'.owed = m.owed \ {m.c[i].s}
                           /\ m'.psd = [m.psd EXCEPT ![i] = FALSE]
    BY <1>3, <2>2 DEF Signalled, Mote, RecType, Typed
  <2>6. m.psd \in [Conns -> BOOLEAN] /\ (m.writebusy => m.wbuf[1] = m.routing.s)
    BY <1>6 DEF OweInv, OnAir, Typed, Mote, RecType
  <2>7. OwedHas(m')
    BY <1>2, <2>1, <2>4, <2>5, <2>6 DEF OwedHas
  <2>8. PsdWaits(m')
    BY <1>2, <2>1, <2>3, <2>5, <2>6 DEF PsdWaits
  <2>9. Apart(m') /\ FinAired(m', net) /\ OnAir(m') /\ InBuffer(m')
    BY <1>4, <2>5 DEF OweInv, Apart, FinAired, HasConn, OnAir, InBuffer
  <2> QED BY <2>2, <2>7, <2>8, <2>9 DEF OweInv
<1>7. ASSUME NEW state \in {"SYN_SEND", "FIN_SEND"}, NEW task, found # {},
             m.routing.flag # "DATA",
             state = "SYN_SEND" => m.routing.flag = "SYN",
             m' = Post([r EXCEPT !.c[i].state = state], task)
      PROVE  OweInv(m', net)
  <2>1. m.c[i] \in ConnType /\ r.c = m.c /\ m \in Mote
    BY <1>2, <1>3, <1>7 DEF Typed, Mote, RecType
  <2>2. PICK c \in ConnType : c = [m.c[i] EXCEPT !.state = state] /\ c.s = m.c[i].s
                              /\ c.state = state
    <3>1. PICK c : c = [m.c[i] EXCEPT !.state = state]
      OBVIOUS
    <3>2. c \in ConnType /\ c.s = m.c[i].s /\ c.state = state
      BY <2>1, <3>1 DEF ConnType, States
    <3> QED BY <3>1, <3>2
  <2>3. state = "SYN_SEND" => /\ <<c.s, "FIN">> \notin m.aired
                              /\ ~(m.writebusy /\ m.wbuf[1] = c.s)
    BY <1>2, <1>7, <2>2 DEF OweInv, FinAired, InBuffer
  <2>4. OweInv([m EXCEPT !.c[i] = c], net)
    BY <1>2, <1>7, <2>1, <2>2, <2>3, ConnOwe
  <2>5. PICK b \in Mote : b = [m EXCEPT !.c[i] = c] /\ OweInv(b, net)
    <3>1. c.s # None /\ c.state # "IDLE"
      BY <1>2, <1>7, <2>2
    <3> QED BY <1>2, <1>7, <2>1, <2>4, <3>1, ConnTyped
  <2>6. OweInv([b EXCEPT !.routing = NoPkt], net)
    <3>1. b.routing = m.routing
      BY <2>1, <2>5 DEF Mote, RecType
    <3> QED BY <1>4, <1>7, <2>5, <3>1, RouteOwe
  <2>7. View(m') = View([b EXCEPT !.routing = NoPkt])
    BY <1>3, <1>7, <2>1, <2>2, <2>5 DEF Post, View, Mote, RecType
  <2> QED BY <2>6, <2>7, SameView
<1>8. CASE m.routing.flag # "DATA"
  <2>1. /\ UNCHANGED net
        /\ \/ m' \in {r, TryLater(r, "READ_LOGGER")}
           \/ found # {} /\ m.routing.flag = "SYN"
              /\ m' = Post([r EXCEPT !.c[i].state = "SYN_SEND"], "send_SYN")
           \/ found # {} /\ m' = Post([r EXCEPT !.c[i].state = "FIN_SEND"], "send_FIN")
    BY <1>1, <1>3, <1>8 DEF RoutingSend_sendDone
  <2>2. View(TryLater(r, "READ_LOGGER")) = View(r)
    BY <1>3 DEF TryLater, View, Mote, RecType
  <2> QED BY <1>5, <1>7, <1>8, <2>1, <2>2, SameView
<1> QED BY <1>6, <1>8

LEMMA ReceiveOwe ==
  ASSUME Typed, Settled, OweInv(m, net), NEW p \in net, RoutingReceive_receive(p)
  PROVE  OweInv(m', net')
<1>1. PICK i, found : found = Valid(m, p.s) /\ i = Min(found)
  OBVIOUS
<1>2. found # {} => i \in Conns /\ p.s \in Stream /\ m.c[i].s = p.s /\ m.c[i].s # None
  BY <1>1, FoundByStream, Consts DEF Typed
<1>3. PICK t : t = [m EXCEPT !.timer[i] = @ \/ m.c[i].state = "FIN_ACK_WAIT"]
  OBVIOUS
<1>4. /\ net' = net \ {p}
      /\ \/ UNCHANGED m
         \/ found # {} /\ \/ m' = Opened(m, i) \/ m' \in ProcessNACK(t, p.list, i)
                          \/ p.flag = "FIN_ACK" /\ MayEnd(p.s) /\ m' = Finished(m, i)
  BY <1>1, <1>3 DEF RoutingReceive_receive, MoteFlag
<1>5. net' \subseteq net /\ m \in Mote
  BY <1>4 DEF Typed
<1>6. ASSUME found # {}, m' = Opened(m, i)
      PROVE  OweInv(m', net')
  <2>1. CASE m.c[i].state # "SYN_ACK_WAIT"
    BY <1>5, <1>6, <2>1, SameView DEF Opened
  <2>2. CASE m.c[i].state = "SYN_ACK_WAIT"
    <3>1. PICK c : c = [m.c[i] EXCEPT !.state = "ACTIVE", !.lastSent = 0]
      OBVIOUS
    <3>2. c \in ConnType /\ c.s = m.c[i].s
      <4>1. m.c[i] \in ConnType /\ 0 \in Seqno0
        BY <1>2, <1>5, <1>6, Consts DEF Mote, RecType
      <4> QED BY <3>1, <4>1 DEF ConnType, States
    <3>3. /\ ~HasConn(m, c.s, {"FIN_SEND", "FIN_ACK_WAIT"})
          /\ ~HasConn(m, c.s, {"ACTIVE", "FIN_SEND"})
          /\ ~HasConn(m, c.s, {"ACTIVE", "FIN_SEND", "FIN_ACK_WAIT"})
      BY <1>2, <1>6, <2>2, <3>2, TheConn DEF OweInv
    <3>4. OweInv([m EXCEPT !.c[i] = c], net)
      <4>1. c.s \in Stream
        BY <1>2, <1>6, <3>2
      <4>2. /\ <<c.s, "FIN">> \notin m.aired
            /\ ~(m.routing.flag = "DATA" /\ m.routing.s = c.s)
            /\ ~(m.writebusy /\ m.wbuf[1] = c.s)
        BY <3>3, <4>1 DEF OweInv, FinAired, OnAir, InBuffer
      <4> QED BY <1>2, <1>5, <1>6, <3>2, <4>2, ConnOwe
    <3>5. View(m') = View([m EXCEPT !.c[i] = c])
      BY <1>5, <1>6, <2>2, <3>1 DEF Opened, View, Mote, RecType
    <3> QED BY <1>5, <3>4, <3>5, SameView
  <2> QED BY <2>1, <2>2
<1>7. ASSUME found # {}, m' \in ProcessNACK(t, p.list, i)
      PROVE  OweInv(m', net')
  <2>1. PICK l : m' = Post([t EXCEPT !.rlist = l], "readLogger")
    BY <1>7 DEF ProcessNACK
  <2>2. View(m') = View(m)
    BY <1>3, <1>5, <2>1 DEF Post, View, Mote, RecType
  <2> QED BY <1>5, <2>2, SameView
<1>8. ASSUME found # {}, p.flag = "FIN_ACK", MayEnd(p.s), m' = Finished(m, i)
      PROVE  OweInv(m', net')
  <2>1. ~(m.writebusy /\ m.wbuf[1] = m.c[i].s)
    BY <1>2, <1>8 DEF MayEnd, Settled
  <2>2. <<p.s, "FIN">> \in m.aired /\ p = Pkt(p.s, "FIN_ACK", 0)
    BY <1>8 DEF OweInv, FinAired
  <2>3. ~(m.routing.flag = "DATA" /\ m.routing.s = m.c[i].s)
    BY <1>2, <1>8, <2>2 DEF OweInv, FinAired
  <2>4. \A q \in net' : q.flag = "FIN_ACK" => q.s # m.c[i].s
    BY <1>2, <1>4, <1>8, <2>2 DEF OweInv, FinAired
  <2>5. OweInv(m, net')
    BY <1>5, SameView
  <2>6. OweInv(ResetConnection(m, i), net')
    BY <1>2, <1>5, <1>8, <2>1, <2>3, <2>4, <2>5, ResetOwe
  <2> QED BY <1>2, <1>5, <1>8, <2>6, FinishedOwe
<1> QED BY <1>4, <1>5, <1>6, <1>7, <1>8, SameView

LEMMA TimerOwe ==
  ASSUME Typed, Settled, OweInv(m, net), net = {}, NEW i \in Conns, StateTimerFired(i)
  PROVE  OweInv(m', net')
<1>1. PICK r \in Mote : r = [m EXCEPT !.timer[i] = FALSE] /\ r.c = m.c /\ OweInv(r, net)
                        /\ r.writebusy = m.writebusy /\ r.wbuf = m.wbuf /\ r.routing = m.routing
                        /\ View(r) = View(m)
  <2>1. PICK b : b = [m EXCEPT !.timer[i] = FALSE]
    OBVIOUS
  <2>2. b \in RecType /\ b.c = m.c /\ b.rlist = m.rlist /\ View(b) = View(m)
        /\ b.writebusy = m.writebusy /\ b.wbuf = m.wbuf /\ b.routing = m.routing
    BY <2>1 DEF View, Typed, Mote, RecType
  <2>3. b \in Mote
    BY <2>2 DEF Typed, Mote
  <2> QED BY <2>1, <2>2, <2>3, SameView
<1>2. r.c[i] \in ConnType /\ UNCHANGED net
  BY <1>1 DEF Mote, RecType, StateTimerFired
<1>3. CASE m.c[i].state = "SYN_ACK_WAIT"
  <2>1. r.c[i].s # None
    BY <1>1, <1>3 DEF Mote
  <2>2. PICK s \in Stream : s = r.c[i].s
    BY <1>2, <2>1 DEF ConnType
  <2>3. /\ <<s, "FIN">> \notin r.aired /\ ~(r.routing.flag = "DATA" /\ r.routing.s = s)
        /\ ~(r.writebusy /\ r.wbuf[1] = s)
    <3>1. /\ ~HasConn(r, s, {"FIN_SEND", "FIN_ACK_WAIT"})
          /\ ~HasConn(r, s, {"ACTIVE", "FIN_SEND"})
          /\ ~HasConn(r, s, {"ACTIVE", "FIN_SEND", "FIN_ACK_WAIT"})
      BY <1>1, <1>3, <2>1, <2>2, TheConn DEF OweInv
    <3> QED BY <1>1, <3>1 DEF OweInv, FinAired, OnAir, InBuffer
  <2>4. PICK c : c = [m.c[i] EXCEPT !.lastSent = m.c[i].lastSent + 1, !.state = "SYN_SEND"]
    OBVIOUS
  <2>5. CASE m.c[i].lastSent < MaxNumRetx
    <3>1. c \in ConnType /\ c.s = s
      <4>1. m.c[i].lastSent + 1 \in Seqno0
        <5>1. m.c[i].lastSent \in Nat /\ m.c[i].lastSent < MaxNumRetx
          BY <1>1, <1>2, <2>5, Consts DEF ConnType
        <5> QED BY ONLY <5>1, Consts
      <4> QED BY <1>1, <1>2, <2>2, <2>4, <4>1 DEF ConnType, States
    <3>2. OweInv([r EXCEPT !.c[i] = c], net)
      BY <1>1, <2>1, <2>2, <2>3, <3>1, ConnOwe
    <3>3. m' = Post([r EXCEPT !.c[i] = c], "send_SYN")
      BY <1>1, <1>3, <2>4, <2>5 DEF StateTimerFired
    <3>4. View(m') = View([r EXCEPT !.c[i] = c])
      BY <3>3 DEF Post, View, Mote, RecType
    <3> QED BY <1>2, <3>2, <3>4, SameView
  <2>6. CASE ~(m.c[i].lastSent < MaxNumRetx)
    <3>1. m' = ResetConnection(r, i)
      BY <1>1, <1>3, <2>6 DEF StateTimerFired
    <3> QED BY <1>1, <1>2, <2>1, <2>2, <2>3, <3>1, ResetOwe
  <2> QED BY <2>5, <2>6
<1>4. CASE m.c[i].state = "FIN_ACK_WAIT"
  <2>1. r.c[i].s # None
    BY <1>1, <1>4 DEF Mote
  <2>2. PICK c : c = [m.c[i] EXCEPT !.finCnt = m.c[i].finCnt + 1, !.state = "FIN_SEND"]
    OBVIOUS
  <2>3. CASE m.c[i].finCnt + 1 < MaxNumRetx
    <3>1. c \in ConnType /\ c.s = r.c[i].s /\ c.state = "FIN_SEND"
      <4>1. m.c[i].finCnt + 1 \in 0 .. (MaxNumRetx - 1)
        <5>1. m.c[i].finCnt \in Nat /\ m.c[i].finCnt + 1 < MaxNumRetx
          BY <1>1, <1>2, <2>3, Consts DEF ConnType
        <5> QED BY ONLY <5>1, Consts
      <4> QED BY <1>1, <1>2, <2>2, <4>1 DEF ConnType, States
    <3>2. OweInv([r EXCEPT !.c[i] = c], net)
      BY <1>1, <2>1, <3>1, ConnOwe
    <3>3. m' = Post([r EXCEPT !.c[i] = c], "send_FIN")
      BY <1>1, <1>4, <2>2, <2>3 DEF StateTimerFired
    <3>4. View(m') = View([r EXCEPT !.c[i] = c])
      BY <3>3 DEF Post, View, Mote, RecType
    <3> QED BY <1>2, <3>2, <3>4, SameView
  <2>4. CASE ~(m.c[i].finCnt + 1 < MaxNumRetx)
    <3>1. MayEnd(r.c[i].s) /\ m' = Finished(r, i)
      BY <1>1, <1>4, <2>4 DEF StateTimerFired
    <3>2. ~(r.writebusy /\ r.wbuf[1] = r.c[i].s)
      BY <1>1, <3>1 DEF MayEnd, Settled
    <3>3. ~(r.routing.flag = "DATA" /\ r.routing.s = r.c[i].s)
      BY <1>1, <1>4, <2>1, TheConn DEF OweInv, OnAir
    <3>4. OweInv(ResetConnection(r, i), net)
      BY <1>1, <2>1, <3>2, <3>3, ResetOwe
    <3> QED BY <1>2, <2>1, <3>1, <3>4, FinishedOwe
  <2> QED BY <2>3, <2>4
<1>5. CASE m.c[i].state \notin {"SYN_ACK_WAIT", "FIN_ACK_WAIT"}
  BY <1>1, <1>2, <1>5 DEF StateTimerFired
<1> QED BY <1>3, <1>4, <1>5

LEMMA CommandOwe ==
  ASSUME Typed, Settled, OweInv(m, net), net = {}, NEW s \in Stream,
         ConnectionSend_open(s) \/ ConnectionSend_send(s) \/ ConnectionSend_close(s)
  PROVE  OweInv(m', net')
<1>1. m \in Mote
  BY DEF Typed
<1>2. CASE ConnectionSend_open(s)
  <2>1. CASE {i \in Conns : m.c[i].state = "IDLE"} = {}
    <3>1. View(Post(m, "send_SYN")) = View(m)
      BY <1>1 DEF Post, View, Mote, RecType
    <3> QED BY <1>2, <2>1, <3>1, SameView DEF ConnectionSend_open
  <2>2. CASE {i \in Conns : m.c[i].state = "IDLE"} # {}
    <3>1. PICK i \in Conns : i = Min({j \in Conns : m.c[j].state = "IDLE"})
                             /\ m.c[i].state = "IDLE"
      BY <2>2, LeastConn
    <3>2. PICK c : c = [m.c[i] EXCEPT !.s = s, !.state = "SYN_SEND"]
      OBVIOUS
    <3>3. /\ m' = Post([m EXCEPT !.c[i] = c, !.opened = @ \cup {s}], "send_SYN")
          /\ UNCHANGED net /\ s \notin m.opened
      BY <1>2, <2>2, <3>1, <3>2 DEF ConnectionSend_open
    <3>4. c.s = s /\ c.state = "SYN_SEND" /\ m.c[i].s = None /\ None # s
      <4>1. m.c[i] \in ConnType /\ m.c[i].s = None
        BY <1>1, <3>1 DEF Mote, RecType
      <4> QED BY <3>2, <4>1, Consts DEF ConnType
    <3>5. /\ m'.psd = m.psd /\ m'.routing = m.routing /\ m'.wbuf = m.wbuf
          /\ m'.writebusy = m.writebusy /\ m'.opened = m.opened \cup {s} /\ m'.aired = m.aired
          /\ m'.owed = m.owed /\ m'.c[i] = c /\ \A j \in Conns \ {i} : m'.c[j] = m.c[j]
      BY <1>1, <3>3 DEF Post, Mote, RecType
    <3>6. ASSUME NEW t, NEW S, HasConn(m, t, S), t # None
          PROVE  HasConn(m', t, S)
      BY <3>4, <3>5, <3>6 DEF HasConn
    <3>7. Apart(m')
      BY <3>3, <3>4, <3>5 DEF OweInv, Apart
    <3>8. FinAired(m', net)
      BY <3>5, <3>6, Consts DEF OweInv, FinAired
    <3>9. m.routing.flag = "DATA" => m.routing.s # None
      BY <1>1 DEF OweInv, OnAir, HasConn, Mote
    <3>10. m.writebusy => m.wbuf[1] \in Stream
      BY <1>1 DEF OweInv, InBuffer, Mote, RecType, Buf
    <3>11. OnAir(m')
      BY <3>5, <3>6, <3>9 DEF OweInv, OnAir
    <3>12. InBuffer(m')
      BY <3>5, <3>6, <3>10, Consts DEF OweInv, InBuffer
    <3>13. ~m.psd[i]
      BY <3>4, <3>10, Consts DEF OweInv, PsdWaits
    <3>14. PsdWaits(m')
      BY <3>5, <3>13 DEF OweInv, PsdWaits
    <3>15. OwedHas(m')
      BY <3>5, <3>13 DEF OweInv, OwedHas
    <3> QED BY <3>3, <3>7, <3>8, <3>11, <3>12, <3>14, <3>15 DEF OweInv
  <2> QED BY <2>1, <2>2
<1>3. CASE ConnectionSend_send(s)
  <2>1. PICK i, n, q :
          /\ i \in WithCid(m, <<s, 0>>)
          /\ m.c[i].state = "ACTIVE" /\ m.routing = NoPkt /\ ~m.writebusy
          /\ q = Pkt(m.c[i].s, "DATA", n)
          /\ m' = Post([m EXCEPT !.c[i].lastSent = n, !.routing = q,
                           !.wbuf = <<s, n>>, !.writebusy = TRUE,
                           !.sent[s] = @ + 1, !.owed = @ \cup {s}], "writeLogger")
          /\ net' = Sending(net, q)
    BY <1>3 DEF ConnectionSend_send
  <2>2. i \in Conns /\ m.c[i] \in ConnType /\ m.c[i].s = s
    <3>1. i \in Conns /\ m.c[i] \in ConnType
      BY <2>1, Consts DEF WithCid, Typed, Mote, RecType
    <3>2. m.c[i].s # None /\ Cid[m.c[i].s] = Cid[s]
      BY <2>1, Consts DEF WithCid
    <3> QED BY <3>1, <3>2 DEF Settled, ConnType
  <2>3. PICK c : c = [m.c[i] EXCEPT !.lastSent = n] /\ c.s = s /\ c.state = "ACTIVE"
    <3>1. PICK c : c = [m.c[i] EXCEPT !.lastSent = n]
      OBVIOUS
    <3>2. c.s = s /\ c.state = "ACTIVE"
      BY <2>1, <2>2, <3>1 DEF ConnType
    <3> QED BY <3>1, <3>2
  <2>4. q.flag = "DATA" /\ q.s = s /\ NoPkt.flag = "none" /\ <<s, n>> # Erased
    BY <2>1, <2>2, Consts DEF Pkt, NoPkt, Erased
  <2>5. /\ m'.psd = m.psd /\ m'.routing = q /\ m'.wbuf = <<s, n>>
        /\ m'.writebusy /\ m'.opened = m.opened /\ m'.aired = m.aired
        /\ m'.owed = m.owed \cup {s} /\ m'.c[i] = c /\ \A j \in Conns \ {i} : m'.c[j] = m.c[j]
    BY <1>1, <2>1, <2>2, <2>3 DEF Post, Mote, RecType
  <2>6. \A j \in Conns : m'.c[j].s = m.c[j].s /\ m'.c[j].state = m.c[j].state
    BY <2>1, <2>2, <2>3, <2>5, ZenonT(30)
  <2>7. \A j \in Conns : ~m.psd[j]
    BY <2>1 DEF OweInv, PsdWaits
  <2>8. m.owed = {}
    BY <2>1, <2>4, <2>7 DEF OweInv, OwedHas
  <2>9. <<s, "FIN">> \notin m.aired
    <3>1. ~HasConn(m, s, {"FIN_SEND", "FIN_ACK_WAIT"})
      BY <2>1, <2>2, TheConn, Consts DEF OweInv
    <3> QED BY <3>1 DEF OweInv, FinAired
  <2>10. Apart(m') /\ \A t, S : HasConn(m, t, S) => HasConn(m', t, S)
    BY <2>5, <2>6 DEF OweInv, Apart, HasConn
  <2>11. FinAired(m', net)
    BY <2>4, <2>5, <2>9, <2>10 DEF OweInv, FinAired
  <2>12. OnAir(m') /\ InBuffer(m') /\ PsdWaits(m') /\ OwedHas(m')
    <3>1. m'.c[i].s = s /\ m'.c[i].state = "ACTIVE" /\ m'.wbuf[1] = s
      BY <2>2, <2>3, <2>5
    <3>2. HasConn(m', s, {"ACTIVE", "FIN_SEND"}) /\ HasConn(m', s, {"ACTIVE", "FIN_SEND", "FIN_ACK_WAIT"})
      BY <2>2, <3>1 DEF HasConn
    <3>3. OnAir(m') /\ InBuffer(m')
      BY <2>4, <2>5, <2>7, <3>1, <3>2 DEF OnAir, InBuffer
    <3>4. PsdWaits(m') /\ OwedHas(m')
      BY <2>4, <2>5, <2>7, <2>8 DEF PsdWaits, OwedHas
    <3> QED BY <3>3, <3>4
  <2>13. OweInv(m', net)
    BY <2>10, <2>11, <2>12 DEF OweInv
  <2> QED BY <2>1, <2>4, <2>13, SendsOwe
<1>4. CASE ConnectionSend_close(s)
  <2>1. PICK i : i = Min(WithCid(m, <<s, 0>>))
    OBVIOUS
  <2>2. PICK gone \in Mote : gone = [m EXCEPT !.closed = @ \cup {s}] /\ OweInv(gone, net)
                             /\ gone.c = m.c
    <3>1. PICK g : g = [m EXCEPT !.closed = @ \cup {s}]
      OBVIOUS
    <3>2. g \in Mote /\ View(g) = View(m) /\ g.c = m.c
      BY <3>1, ZenonT(30) DEF View, Typed, Mote, RecType
    <3> QED BY <3>1, <3>2, SameView
  <2>3. /\ UNCHANGED net
        /\ \/ m' = gone
           \/ /\ WithCid(m, <<s, 0>>) # {}
              /\ m' = Post([gone EXCEPT !.c[i].state = "FIN_SEND"], "send_FIN")
    BY <1>4, <2>1, <2>2 DEF ConnectionSend_close
  <2>4. ASSUME WithCid(m, <<s, 0>>) # {}
        PROVE  OweInv(Post([gone EXCEPT !.c[i].state = "FIN_SEND"], "send_FIN"), net)
    <3>1. i \in Conns /\ gone.c[i] \in ConnType /\ gone.c[i].s # None
      <4>1. WithCid(m, <<s, 0>>) \subseteq Conns
        BY Consts DEF WithCid
      <4>2. i \in WithCid(m, <<s, 0>>) /\ i \in Conns
        BY <2>1, <2>4, <4>1, LeastConn
      <4>3. m.c[i].s # None
        BY <4>2 DEF WithCid
      <4> QED BY <2>2, <4>2, <4>3 DEF Mote, RecType
    <3>2. PICK c \in ConnType : c = [gone.c[i] EXCEPT !.state = "FIN_SEND"]
                                /\ c.s = gone.c[i].s /\ c.state = "FIN_SEND"
      <4>1. PICK c : c = [gone.c[i] EXCEPT !.state = "FIN_SEND"]
        OBVIOUS
      <4>2. c \in ConnType /\ c.s = gone.c[i].s /\ c.state = "FIN_SEND"
        BY <3>1, <4>1 DEF ConnType, States
      <4> QED BY <4>1, <4>2
    <3>3. OweInv([gone EXCEPT !.c[i] = c], net)
      BY <2>2, <3>1, <3>2, ConnOwe
    <3>4. View(Post([gone EXCEPT !.c[i].state = "FIN_SEND"], "send_FIN"))
            = View([gone EXCEPT !.c[i] = c])
      BY <3>2 DEF Post, View, Mote, RecType
    <3> QED BY <3>3, <3>4, SameView
  <2> QED BY <2>2, <2>3, <2>4
<1> QED BY <1>2, <1>3, <1>4

LEMMA NextOwe ==
  ASSUME Settled, Typed, OweInv(m, net), [Next]_vars
  PROVE  OweInv(m', net')
<1>1. CASE Loses
  BY <1>1, SameView DEF Loses, Lose
<1>2. ASSUME NEW p \in net, RoutingReceive_receive(p)
      PROVE  OweInv(m', net')
  BY <1>2, ReceiveOwe
<1>3. ASSUME NEW ok \in BOOLEAN, RunTask(ok) \/ writeDone(ok) \/ readDone(ok)
                                 \/ RoutingSend_sendDone(ok)
      PROVE  OweInv(m', net')
  BY <1>3, TaskOwe, FlashOwe, SendDoneOwe
<1>4. ASSUME net = {}, NEW s \in Stream, \/ ConnectionSend_open(s) \/ ConnectionSend_send(s)
                                         \/ ConnectionSend_close(s)
      PROVE  OweInv(m', net')
  BY <1>4, CommandOwe
<1>5. ASSUME net = {}, NEW i \in Conns, StateTimerFired(i)
      PROVE  OweInv(m', net')
  BY <1>5, TimerOwe
<1>6. CASE eraseDone
  BY <1>6, FlashOwe
<1>7. CASE RetryTimer_fired
  <2>1. PICK due : m' = [m EXCEPT !.pending = {}, !.posted = due]
    BY <1>7 DEF RetryTimer_fired
  <2>2. View(m') = View(m) /\ net' = net
    BY <1>7, <2>1 DEF RetryTimer_fired, View, Typed, Mote, RecType
  <2> QED BY <2>2, SameView
<1>8. CASE MasterAnswers
  <2>1. PICK s \in Stream : \E q \in Answers(s) : net' = Sending(net, q)
    BY <1>8 DEF MasterAnswers
  <2>2. PICK q \in Answers(s) : net' = Sending(net, q)
    BY <2>1
  <2>3. q.flag = "FIN_ACK" => q = Pkt(q.s, "FIN_ACK", 0) /\ <<q.s, "FIN">> \in m.aired
    BY DEF Answers, Pkt, Nack
  <2>4. m' = m
    BY <1>8 DEF MasterAnswers
  <2> QED BY <2>2, <2>3, <2>4 DEF Sending, OweInv, FinAired
<1>9. CASE UNCHANGED vars
  BY <1>9 DEF vars
<1> QED BY <1>1, <1>2, <1>3, <1>4, <1>5, <1>6, <1>7, <1>8, <1>9 DEF Next

LEMMA OweImplies ==
  ASSUME Typed, OweInv(m, net)
  PROVE  OneOwed
<1>1. \A s \in m.owed : \/ m.routing.flag = "DATA" /\ m.routing.s = s
                        \/ m.writebusy /\ \E i \in Valid(m, s) : m.psd[i]
  <2> TAKE s \in m.owed
  <2>1. s # None
    BY Consts DEF Typed, Mote, RecType
  <2> QED BY <2>1 DEF OweInv, OwedHas, PsdWaits, Valid
<1>2. \E x : m.owed \subseteq {x}
  <2>1. CASE m.routing.flag = "DATA"
    BY <2>1 DEF OweInv, OwedHas, OnAir
  <2>2. CASE m.routing.flag # "DATA"
    BY <2>2 DEF OweInv, OwedHas, PsdWaits
  <2> QED BY <2>1, <2>2
<1>3. Cardinality(m.owed) <= 1
  <2>1. PICK x : m.owed \subseteq {x}
    BY <1>2
  <2>2. IsFiniteSet({x}) /\ Cardinality({x}) = 1
    BY FS_Singleton
  <2>3. Cardinality(m.owed) <= Cardinality({x})
    BY <2>1, <2>2, FS_Subset
  <2> QED BY <2>2, <2>3
<1> QED BY <1>1, <1>3 DEF OneOwed

(* At most one packet waits for its sendDone, and it has what will signal   *)
(* it: the packet is with the radio, or its connection is marked to be      *)
(* signalled when the log has it. This is what an application that keeps    *)
(* one buffer relies on (StreamTransportM.nc:379, 522, 263). It needs that *)
(* the flash is done with a packet before its connection is over, and that *)
(* streams have cids of their own; a refused packet, a failed write, a      *)
(* give-up or an erasure of a busy flash cannot break it.                  *)
THEOREM OneSendDone == ASSUME Settled PROVE Spec => []OneOwed
<1>1. Init => OweInv(m, net)
  BY IdleTyped DEF Init, NoPkt, OweInv, Apart, FinAired, OnAir, InBuffer, PsdWaits, OwedHas
<1>2. Typed /\ OweInv(m, net) /\ [Next]_vars => (Typed /\ OweInv(m, net))'
  BY NextTyped, NextOwe
<1>3. Spec => [](Typed /\ OweInv(m, net))
  BY <1>1, <1>2, InitTyped, PTL DEF Spec
<1> QED BY <1>3, OweImplies, PTL

-----------------------------------------------------------------------------
(* The oldest of the numbers that are asked for.                           *)

(* tr_seqno_cmp the other way round.                                       *)
LEMMA CmpTurns ==
  ASSUME NEW a \in Seqno0, NEW b \in Seqno0
  PROVE  /\ SeqCmp(a, b) \in -1 .. 1 /\ SeqCmp(a, b) = 0 - SeqCmp(b, a)
         /\ SeqCmp(a, b) = 0 <=> a = b
<1>1. CASE a = b
  BY <1>1, Consts DEF SeqCmp
<1>2. CASE a < b
  BY <1>2, CmpUnfold, Consts
<1>3. CASE b < a
  BY <1>3, CmpUnfold, Consts
<1> QED BY <1>1, <1>2, <1>3, Consts

(* out lists the numbers of S in their order.                              *)
InOrder(out, d, S) ==
  /\ out \in [1 .. d -> S]
  /\ \A j, k \in 1 .. d : j < k => SeqCmp(out[j], out[k]) < 0
  /\ \A n \in S : \E k \in 1 .. d : out[k] = n

Older(S, x) == {y \in S : SeqCmp(y, x) < 0}

Firsts(out, d, k) == {out[j] : j \in {x \in 1 .. d : x <= k}}

LEMMA OlderThan ==
  ASSUME NEW S, S \subseteq Seqno, NEW d \in Nat, NEW out, InOrder(out, d, S), NEW k \in 1 .. d
  PROVE  Cardinality(Older(S, out[k])) = k - 1
<1>1. /\ \A j \in 1 .. d : out[j] \in S /\ out[j] \in Seqno0
      /\ \A i, j \in 1 .. d : i < j => SeqCmp(out[i], out[j]) < 0
      /\ \A n \in S : \E j \in 1 .. d : out[j] = n
  <2>1. Seqno \subseteq Seqno0
    BY Consts
  <2>2. \A j \in 1 .. d : out[j] \in S
    BY DEF InOrder
  <2>3. \A j \in 1 .. d : out[j] \in Seqno0
    BY <2>1, <2>2
  <2> QED BY <2>2, <2>3 DEF InOrder
<1>2. \A j \in 1 .. d : SeqCmp(out[j], out[k]) < 0 <=> j < k
  <2> TAKE j \in 1 .. d
  <2>1. SeqCmp(out[j], out[k]) = 0 - SeqCmp(out[k], out[j]) /\ SeqCmp(out[j], out[k]) \in -1 .. 1
        /\ SeqCmp(out[k], out[j]) \in -1 .. 1
    BY <1>1, CmpTurns
  <2>2. SeqCmp(out[k], out[k]) = 0
    BY <1>1, CmpTurns
  <2>3. CASE j = k
    BY <2>2, <2>3
  <2>4. CASE j < k
    BY <1>1, <2>4
  <2>5. CASE k < j
    <3>1. SeqCmp(out[k], out[j]) < 0
      BY <1>1, <2>5
    <3> QED BY <2>1, <2>5, <3>1
  <2> QED BY <2>3, <2>4, <2>5
<1>3. PICK T : T = {y \in S : SeqCmp(y, out[k]) < 0}
  OBVIOUS
<1>4. PICK f : f = [j \in 1 .. (k - 1) |-> out[j]]
  OBVIOUS
<1>5. f \in [1 .. (k - 1) -> T]
  BY <1>1, <1>2, <1>3, <1>4
<1>6. ASSUME NEW a \in 1 .. (k - 1), NEW b \in 1 .. (k - 1), f[a] = f[b]
      PROVE  a = b
  <2>1. out[a] = out[b] /\ a \in 1 .. d /\ b \in 1 .. d
    BY <1>4, <1>6
  <2>2. SeqCmp(out[a], out[b]) = 0 /\ SeqCmp(out[b], out[a]) = 0
    BY <1>1, <2>1, CmpTurns
  <2>3. ~(a < b) /\ ~(b < a)
    BY <1>1, <2>1, <2>2
  <2> QED BY <2>3
<1>7. \A t \in T : \E j \in 1 .. (k - 1) : f[j] = t
  <2> TAKE t \in T
  <2>1. PICK j \in 1 .. d : out[j] = t
    BY <1>1, <1>3
  <2>2. j < k
    BY <1>2, <1>3, <2>1
  <2> QED BY <1>4, <2>1, <2>2
<1>8. f \in Bijection(1 .. (k - 1), T)
  BY <1>5, <1>6, <1>7, Fun_IsBij
<1>9. IsFiniteSet(1 .. (k - 1)) /\ Cardinality(1 .. (k - 1)) = k - 1
  BY FS_Interval
<1>10. Cardinality(T) = k - 1
  BY <1>8, <1>9, FS_Bijection DEF ExistsBijection
<1> QED BY <1>3, <1>10 DEF Older

LEMMA FirstsAreOldest ==
  ASSUME NEW S, S \subseteq Seqno, NEW d \in Nat, NEW out, InOrder(out, d, S), NEW n \in Nat
  PROVE  Oldest(S, n) = Firsts(out, d, n)
<1>1. /\ \A j \in 1 .. d : out[j] \in S
      /\ \A x \in S : \E j \in 1 .. d : out[j] = x
  BY DEF InOrder
<1>2. \A j \in 1 .. d : Cardinality(Older(S, out[j])) = j - 1
  <2> TAKE j \in 1 .. d
  <2> QED BY OlderThan
<1>3. \A j \in 1 .. d : out[j] \in Oldest(S, n) <=> j <= n
  <2> TAKE j \in 1 .. d
  <2>1. out[j] \in Oldest(S, n) <=> Cardinality(Older(S, out[j])) < n
    BY <1>1, Zenon DEF Oldest, Older
  <2>2. Cardinality(Older(S, out[j])) = j - 1
    BY <1>2
  <2> QED BY <2>1, <2>2
<1>4. \A x \in Oldest(S, n) : \E j \in 1 .. d : j <= n /\ x = out[j]
  <2> TAKE x \in Oldest(S, n)
  <2>1. x \in S
    BY DEF Oldest
  <2>2. PICK j \in 1 .. d : out[j] = x
    BY <1>1, <2>1
  <2> QED BY <1>3, <2>2
<1> QED BY <1>3, <1>4 DEF Firsts

(* The first k of a list but one number are the oldest of the numbers but  *)
(* that one.                                                               *)
(* Without b, the first k are the oldest of as many or one fewer.          *)
OldestBut(S, b, out, d, k) ==
  \E n \in 0 .. k : Oldest(S \ {b}, n) = Firsts(out, d, k) \ {b}

LEMMA FirstsBut ==
  ASSUME NEW S, S \subseteq Seqno, NEW d \in Nat, NEW out, InOrder(out, d, S), NEW k \in Nat,
         NEW b
  PROVE  OldestBut(S, b, out, d, k)
<1> SUFFICES \E n \in 0 .. k : Oldest(S \ {b}, n) = Firsts(out, d, k) \ {b}
  BY DEF OldestBut
<1>0. /\ out \in [1 .. d -> S]
      /\ \A i, j \in 1 .. d : i < j => SeqCmp(out[i], out[j]) < 0
      /\ \A x \in S : \E j \in 1 .. d : out[j] = x
  BY DEF InOrder
<1>1. CASE b \notin S
  <2>1. S \ {b} = S /\ Firsts(out, d, k) \ {b} = Firsts(out, d, k)
    BY <1>0, <1>1 DEF Firsts
  <2> QED BY <2>1, FirstsAreOldest
<1>2. CASE b \in S
  <2>1. PICK h \in 1 .. d : out[h] = b
    BY <1>0, <1>2
  <2>2. PICK w : w = [j \in 1 .. (d - 1) |-> IF j < h THEN out[j] ELSE out[j + 1]]
    OBVIOUS
  <2>3. /\ \A j \in 1 .. (d - 1) : j < h => w[j] = out[j] /\ j \in 1 .. d
        /\ \A j \in 1 .. (d - 1) : j >= h => w[j] = out[j + 1] /\ j + 1 \in 1 .. d
    BY <2>2
  <2>4. \A i, j \in 1 .. d : out[i] = out[j] => i = j
    <3> SUFFICES ASSUME NEW i \in 1 .. d, NEW j \in 1 .. d, out[i] = out[j]
                 PROVE  i = j
      OBVIOUS
    <3>1. out[i] \in Seqno0
      <4>1. Seqno \subseteq Seqno0 /\ out[i] \in S
        BY <1>0, Consts
      <4> QED BY <4>1
    <3>2. SeqCmp(out[i], out[j]) = 0 /\ SeqCmp(out[j], out[i]) = 0
      BY <3>1, CmpTurns
    <3>3. ~(i < j) /\ ~(j < i)
      BY <1>0, <3>2
    <3> QED BY <3>3
  <2>5. \A j \in 1 .. (d - 1) : w[j] \in S \ {b}
    <3> TAKE j \in 1 .. (d - 1)
    <3>1. CASE j < h
      BY <1>0, <2>1, <2>3, <2>4, <3>1
    <3>2. CASE j >= h
      <4>1. j + 1 # h /\ j + 1 \in 1 .. d /\ w[j] = out[j + 1]
        BY <2>3, <3>2
      <4> QED BY <1>0, <2>1, <2>4, <4>1
    <3> QED BY <3>1, <3>2
  <2>6. \A i, j \in 1 .. (d - 1) : i < j => SeqCmp(w[i], w[j]) < 0
    <3> SUFFICES ASSUME NEW i \in 1 .. (d - 1), NEW j \in 1 .. (d - 1), i < j
                 PROVE  SeqCmp(w[i], w[j]) < 0
      OBVIOUS
    <3>1. PICK x \in 1 .. d, y \in 1 .. d : w[i] = out[x] /\ w[j] = out[y] /\ x < y
      <4>1. CASE j < h
        BY <2>3, <4>1
      <4>2. CASE i < h /\ j >= h
        <5>1. i \in 1 .. d /\ j + 1 \in 1 .. d /\ i < j + 1 /\ w[i] = out[i] /\ w[j] = out[j + 1]
          BY <2>3, <4>2
        <5> QED BY <5>1
      <4>3. CASE i >= h
        <5>1. i + 1 \in 1 .. d /\ j + 1 \in 1 .. d /\ i + 1 < j + 1
              /\ w[i] = out[i + 1] /\ w[j] = out[j + 1]
          BY <2>3, <4>3
        <5> QED BY <5>1
      <4> QED BY <4>1, <4>2, <4>3
    <3> QED BY <1>0, <3>1
  <2>7. \A x \in S \ {b} : \E j \in 1 .. (d - 1) : w[j] = x
    <3> TAKE x \in S \ {b}
    <3>1. PICK j \in 1 .. d : out[j] = x
      BY <1>0
    <3>2. j # h
      BY <2>1, <3>1
    <3>3. CASE j < h
      <4>1. j \in 1 .. (d - 1)
        BY <3>3
      <4> QED BY <2>3, <3>1, <3>3, <4>1
    <3>4. CASE j > h
      <4>1. j - 1 \in 1 .. (d - 1) /\ j - 1 >= h /\ (j - 1) + 1 = j
        BY <3>4
      <4> QED BY <2>3, <3>1, <4>1
    <3> QED BY <3>2, <3>3, <3>4
  <2>8. PICK c \in Nat : c = d - 1
    OBVIOUS
  <2>9. InOrder(w, c, S \ {b})
    <3>1. w \in [1 .. c -> S \ {b}]
      BY <2>2, <2>5, <2>8
    <3> QED BY <2>6, <2>7, <2>8, <3>1 DEF InOrder
  <2>10. PICK n \in 0 .. k : n = IF h <= k THEN k - 1 ELSE k
    OBVIOUS
  <2>11. \A x : x \in Firsts(w, c, n) => x \in Firsts(out, d, k) \ {b}
    <3> TAKE x
    <3> HAVE x \in Firsts(w, c, n)
    <3>1. PICK j \in 1 .. c : j <= n /\ x = w[j]
      BY DEF Firsts
    <3>2. x # b
      BY <2>5, <2>8, <3>1
    <3>3. PICK y \in 1 .. d : y <= k /\ x = out[y]
      <4>1. CASE j < h
        BY <2>3, <2>8, <2>10, <3>1, <4>1
      <4>2. CASE j >= h
        <5>1. j + 1 \in 1 .. d /\ x = out[j + 1] /\ j + 1 <= k
          BY <2>3, <2>8, <2>10, <3>1, <4>2
        <5> QED BY <5>1
      <4> QED BY <4>1, <4>2
    <3> QED BY <3>2, <3>3 DEF Firsts
  <2>12. \A x : x \in Firsts(out, d, k) \ {b} => x \in Firsts(w, c, n)
    <3> TAKE x
    <3> HAVE x \in Firsts(out, d, k) \ {b}
    <3>1. PICK j \in 1 .. d : j <= k /\ x = out[j]
      BY DEF Firsts
    <3>2. j # h
      BY <2>1, <3>1
    <3>3. PICK y \in 1 .. c : y <= n /\ x = w[y]
      <4>1. CASE j < h
        BY <2>3, <2>8, <2>10, <3>1, <4>1
      <4>2. CASE j > h
        <5>1. j - 1 \in 1 .. c /\ j - 1 >= h /\ (j - 1) + 1 = j /\ j - 1 <= n
          BY <2>8, <2>10, <3>1, <4>2
        <5> QED BY <2>3, <2>8, <3>1, <5>1
      <4> QED BY <3>2, <4>1, <4>2
    <3> QED BY <3>3 DEF Firsts
  <2>13. Firsts(w, c, n) = Firsts(out, d, k) \ {b}
    BY <2>11, <2>12
  <2>14. Oldest(S \ {b}, n) = Firsts(w, c, n)
    <3>1. S \ {b} \subseteq Seqno /\ n \in Nat
      OBVIOUS
    <3> QED BY <2>9, <3>1, FirstsAreOldest
  <2> QED BY <2>13, <2>14
<1> QED BY <1>1, <1>2

-----------------------------------------------------------------------------
(* What the mote does on a stream, of a state r.                           *)

AskedOf(r, i) == {e[2] : e \in {x \in Range(r.rlist) : x[1] = i}}

BufferOf(r, s) ==
  IF r.readbusy /\ r.log.op.kind # "read" /\ r.rbuf # Erased /\ r.rbuf[1] = s
  THEN {r.rbuf[2]} ELSE {}

SendingOf(r, s) ==
  IF r.routing.s = s /\ r.routing.flag \in {"SYN", "FIN"} THEN r.routing.flag ELSE "no"

Absent(r, s) ==
  [state |-> IF s \in r.opened THEN "IDLE" ELSE "UNOPENED", closed |-> FALSE,
   sending |-> "no", lastSent |-> 0, finCnt |-> 0, recover |-> {}]

Here(r, i, s) ==
  [state |-> r.c[i].state, closed |-> s \in r.closed, sending |-> SendingOf(r, s),
   lastSent |-> r.c[i].lastSent, finCnt |-> r.c[i].finCnt,
   recover |-> AskedOf(r, i) \cup BufferOf(r, s)]

ConnAt(r, s) ==
  IF Valid(r, s) = {} THEN Absent(r, s) ELSE Here(r, Min(Valid(r, s)), s)

LEMMA ConnIs == \A s : ConnOf(s) = ConnAt(m, s)
BY DEF ConnOf, ConnAt, Absent, Here, AskedOf, BufferOf, SendingOf

LEMMA ConnWillBe == \A s : ConnOf(s)' = ConnAt(m', s)
<1>1. (\A s : ConnOf(s) = ConnAt(m, s))'
  BY ConnIs, PTL
<1> QED BY <1>1

LEMMA ConnHere ==
  ASSUME NEW r, Apart(r), NEW i \in Conns, NEW s \in Stream, r.c[i].s = s
  PROVE  ConnAt(r, s) = Here(r, i, s) /\ Valid(r, s) = {i} /\ Min(Valid(r, s)) = i
<1>1. Valid(r, s) = {i}
  BY Consts DEF Valid, Apart
<1>2. Min({i}) = i
  BY <1>1, LeastConn
<1> QED BY <1>1, <1>2 DEF ConnAt

LEMMA ConnGone ==
  ASSUME NEW r, NEW s, \A i \in Conns : r.c[i].s # s
  PROVE  ConnAt(r, s) = Absent(r, s) /\ Valid(r, s) = {}
BY DEF ConnAt, Valid

(* From r to q stream s stays as it is.                                    *)
Stays(r, q, s) ==
  /\ s \in q.opened <=> s \in r.opened
  /\ \A i \in Conns : r.c[i].s = s <=> q.c[i].s = s
  /\ \A i \in Conns : r.c[i].s = s =>
        /\ q.c[i] = r.c[i] /\ AskedOf(q, i) = AskedOf(r, i)
        /\ SendingOf(q, s) = SendingOf(r, s) /\ BufferOf(q, s) = BufferOf(r, s)
        /\ s \in q.closed <=> s \in r.closed

LEMMA StaysSame ==
  ASSUME NEW r, NEW q, NEW s \in Stream, Stays(r, q, s)
  PROVE  ConnAt(q, s) = ConnAt(r, s)
<1>1. Valid(q, s) = Valid(r, s)
  BY DEF Stays, Valid
<1>2. CASE Valid(r, s) = {}
  BY <1>1, <1>2 DEF ConnAt, Absent, Stays
<1>3. CASE Valid(r, s) # {}
  <2>1. PICK i \in Conns : i = Min(Valid(r, s)) /\ r.c[i].s = s
    <3>1. Valid(r, s) \subseteq Conns
      BY DEF Valid
    <3>2. Min(Valid(r, s)) \in Valid(r, s)
      BY <1>3, <3>1, LeastConn
    <3> QED BY <3>1, <3>2 DEF Valid
  <2>2. /\ q.c[i] = r.c[i] /\ AskedOf(q, i) = AskedOf(r, i)
        /\ SendingOf(q, s) = SendingOf(r, s) /\ BufferOf(q, s) = BufferOf(r, s)
        /\ s \in q.closed <=> s \in r.closed
    BY <2>1 DEF Stays
  <2>3. Here(q, i, s) = Here(r, i, s)
    <3>1. (s \in q.closed) = (s \in r.closed)
      BY <2>2
    <3> QED BY <2>2, <3>1, Zenon DEF Here
  <2> QED BY <1>1, <1>3, <2>1, <2>3 DEF ConnAt
<1> QED BY <1>2, <1>3

-----------------------------------------------------------------------------
(* The steps of StrSender, of what becomes of the stream they are about.   *)

(* Stream s becomes b, and no other is touched.                            *)
Turns(s, b) == \A t \in Stream : ConnAt(m', t) = IF t = s THEN b ELSE ConnAt(m, t)

Conn == [s \in Stream |-> ConnOf(s)]

LEMMA Turned ==
  ASSUME NEW s \in Stream, NEW b, Turns(s, b)
  PROVE  /\ Conn' = [Conn EXCEPT ![s] = b]
         /\ Conn[s] = ConnAt(m, s) /\ Conn = [t \in Stream |-> Conn[t]]
<1>1. Conn' = [t \in Stream |-> ConnOf(t)']
  BY DEF Conn
<1>2. Conn = [t \in Stream |-> ConnAt(m, t)]
  BY ConnIs DEF Conn
<1>3. Conn' = [t \in Stream |-> ConnAt(m', t)]
  BY <1>1, ConnWillBe
<1> QED BY <1>2, <1>3 DEF Turns

LEMMA AsOpen ==
  ASSUME NEW s \in Stream, NEW a, a = ConnAt(m, s), a.state = "UNOPENED",
         Turns(s, [a EXCEPT !.state = "SYN_SEND"]), UNCHANGED net, m'.sent = m.sent
  PROVE  Sender!SenderNext
<1>1. Conn' = [Conn EXCEPT ![s].state = "SYN_SEND"] /\ Conn[s] = a
  BY Turned
<1>2. Sender!ConnectionSend_open(s)
  BY <1>1 DEF Conn, Sender!ConnectionSend_open, Sender!Goto
<1> QED BY <1>2 DEF Sender!SenderNext

LEMMA SameNet ==
  /\ \A n, q : Sender!Sending(n, q) = Sending(n, q)
  /\ \A s, flag, n : Sender!Pkt(s, flag, n) = Pkt(s, flag, n)
  /\ Sender!Seqno = Seqno
  /\ \A n : Sender!SeqNext(n) = SeqNext(n)
  /\ \A a, b : Sender!SeqCmp(a, b) = SeqCmp(a, b) /\ Sender!SeqDiff(a, b) = SeqDiff(a, b)
BY DEF Sender!Sending, Sending, Sender!Cardinality, Cardinality, Sender!Pkt, Pkt,
       Sender!Seqno, Seqno, Sender!TrFirstSeqno, TrFirstSeqno, Sender!SeqNext, SeqNext,
       Sender!SeqCmp, SeqCmp, Sender!SeqAdd, SeqAdd, Sender!Word16, Word16,
       Sender!SeqDiff, SeqDiff

LEMMA SameOldest == \A S, n : Sender!Oldest(S, n) = Oldest(S, n)
BY SameNet, Zenon DEF Sender!Oldest, Oldest, Sender!Cardinality, Cardinality

LEMMA AsSYN ==
  ASSUME NEW s \in Stream, NEW a, a = ConnAt(m, s), a.state = "SYN_SEND", a.sending = "no",
         Turns(s, [a EXCEPT !.state = "SYN_ACK_WAIT", !.sending = "SYN"]),
         net' = Sending(net, Pkt(s, "SYN", 0)), m'.sent = m.sent
  PROVE  Sender!SenderNext
<1>1. Conn' = [Conn EXCEPT ![s].state = "SYN_ACK_WAIT", ![s].sending = "SYN"] /\ Conn[s] = a
  <2>1. /\ Conn' = [Conn EXCEPT ![s] = [a EXCEPT !.state = "SYN_ACK_WAIT", !.sending = "SYN"]]
        /\ Conn[s] = a /\ Conn = [t \in Stream |-> Conn[t]]
    BY Turned
  <2> QED BY ONLY <2>1, s \in Stream
<1>2. Sender!send_SYN(s)
  BY <1>1, SameNet DEF Conn, Sender!send_SYN
<1> QED BY <1>2 DEF Sender!SenderNext

LEMMA AsFIN ==
  ASSUME NEW s \in Stream, NEW a, a = ConnAt(m, s), a.state = "FIN_SEND", a.sending = "no",
         Turns(s, [a EXCEPT !.state = "FIN_ACK_WAIT", !.sending = "FIN"]),
         net' = Sending(net, Pkt(s, "FIN", SeqNext(a.lastSent))), m'.sent = m.sent
  PROVE  Sender!SenderNext
<1>1. Conn' = [Conn EXCEPT ![s].state = "FIN_ACK_WAIT", ![s].sending = "FIN"] /\ Conn[s] = a
  <2>1. /\ Conn' = [Conn EXCEPT ![s] = [a EXCEPT !.state = "FIN_ACK_WAIT", !.sending = "FIN"]]
        /\ Conn[s] = a /\ Conn = [t \in Stream |-> Conn[t]]
    BY Turned
  <2> QED BY ONLY <2>1, s \in Stream
<1>2. Sender!send_FIN(s)
  BY <1>1, SameNet DEF Conn, Sender!send_FIN
<1> QED BY <1>2 DEF Sender!SenderNext

LEMMA AsSend ==
  ASSUME NEW s \in Stream, NEW a, a = ConnAt(m, s), a.state = "ACTIVE", a.sending = "no",
         ~a.closed, m.sent[s] < MaxData,
         Turns(s, [a EXCEPT !.lastSent = SeqNext(@)]),
         net' = Sending(net, Pkt(s, "DATA", SeqNext(a.lastSent))),
         m'.sent = [m.sent EXCEPT ![s] = @ + 1]
  PROVE  Sender!SenderNext
<1>1. Conn' = [Conn EXCEPT ![s].lastSent = SeqNext(@)] /\ Conn[s] = a
  BY Turned
<1>2. Sender!ConnectionSend_send(s)
  BY <1>1, SameNet DEF Conn, Sender!ConnectionSend_send
<1> QED BY <1>2 DEF Sender!SenderNext

LEMMA AsClose ==
  ASSUME NEW s \in Stream, NEW a, a = ConnAt(m, s), a.state \notin {"UNOPENED", "IDLE"},
         ~a.closed, Turns(s, [a EXCEPT !.state = "FIN_SEND", !.closed = TRUE]),
         UNCHANGED net, m'.sent = m.sent
  PROVE  Sender!SenderNext
<1>1. Conn' = [Conn EXCEPT ![s].state = "FIN_SEND", ![s].closed = TRUE] /\ Conn[s] = a
  <2>1. /\ Conn' = [Conn EXCEPT ![s] = [a EXCEPT !.state = "FIN_SEND", !.closed = TRUE]]
        /\ Conn[s] = a /\ Conn = [t \in Stream |-> Conn[t]]
    BY Turned
  <2> QED BY ONLY <2>1, s \in Stream
<1>2. Sender!ConnectionSend_close(s)
  BY <1>1 DEF Conn, Sender!ConnectionSend_close, Sender!Open
<1> QED BY <1>2 DEF Sender!SenderNext

LEMMA AsRetransmit ==
  ASSUME NEW s \in Stream, NEW a, a = ConnAt(m, s), a.state \notin {"UNOPENED", "IDLE"},
         a.sending = "no", NEW k \in Seqno, k \in a.recover,
         NEW R, R \in {a.recover, a.recover \ {k}},
         Turns(s, [a EXCEPT !.recover = R]), SeqCmp(a.lastSent, k) >= 0, k <= m.sent[s],
         net' = Sending(net, Pkt(s, "DATA_RETX", k)), m'.sent = m.sent
  PROVE  Sender!SenderNext
<1>1. Conn' = [Conn EXCEPT ![s].recover = R] /\ Conn[s] = a
  BY Turned
<1>2. Sender!Retransmit(s, k)
  BY <1>1, SameNet DEF Conn, Sender!Retransmit, Sender!Open
<1> QED BY <1>2, SameNet DEF Sender!SenderNext

LEMMA AsForget ==
  ASSUME NEW s \in Stream, NEW a, a = ConnAt(m, s), a.state \notin {"UNOPENED", "IDLE"},
         NEW k \in Seqno, k \in a.recover,
         Turns(s, [a EXCEPT !.recover = @ \ {k}]), UNCHANGED net, m'.sent = m.sent
  PROVE  Sender!SenderNext
<1>1. Conn' = [Conn EXCEPT ![s].recover = @ \ {k}] /\ Conn[s] = a
  BY Turned
<1>2. Sender!Forget(s, k)
  BY <1>1, SameNet DEF Conn, Sender!Forget, Sender!Open
<1> QED BY <1>2, SameNet DEF Sender!SenderNext

LEMMA AsSynTimeout ==
  ASSUME NEW s \in Stream, NEW a, a = ConnAt(m, s), a.state = "SYN_ACK_WAIT",
         IF a.lastSent < MaxNumRetx
         THEN Turns(s, [a EXCEPT !.lastSent = @ + 1, !.state = "SYN_SEND"])
         ELSE a.lastSent >= MaxNumRetx /\ Turns(s, Sender!Reset),
         UNCHANGED net, m'.sent = m.sent
  PROVE  Sender!SenderNext
<1>1. Conn[s] = a
        /\ \/ a.lastSent < MaxNumRetx
              /\ Conn' = [Conn EXCEPT ![s].lastSent = @ + 1, ![s].state = "SYN_SEND"]
           \/ a.lastSent >= MaxNumRetx /\ Conn' = [Conn EXCEPT ![s] = Sender!Reset]
  <2>1. CASE a.lastSent < MaxNumRetx
    <3>1. /\ Conn' = [Conn EXCEPT ![s] = [a EXCEPT !.lastSent = @ + 1, !.state = "SYN_SEND"]]
          /\ Conn[s] = a /\ Conn = [t \in Stream |-> Conn[t]]
      BY <2>1, Turned
    <3> QED BY ONLY <2>1, <3>1, s \in Stream
  <2>2. CASE ~(a.lastSent < MaxNumRetx)
    BY <2>2, Turned
  <2> QED BY <2>1, <2>2
<1>2. Sender!SynTimeout(s)
  BY <1>1 DEF Conn, Sender!SynTimeout
<1> QED BY <1>2 DEF Sender!SenderNext

LEMMA AsFinTimeout ==
  ASSUME NEW s \in Stream, NEW a, a = ConnAt(m, s), a.state = "FIN_ACK_WAIT",
         IF a.finCnt + 1 < MaxNumRetx
         THEN Turns(s, [a EXCEPT !.finCnt = @ + 1, !.state = "FIN_SEND"])
         ELSE a.finCnt + 1 >= MaxNumRetx /\ Turns(s, Sender!Reset),
         UNCHANGED net, m'.sent = m.sent
  PROVE  Sender!SenderNext
<1>1. Conn[s] = a
        /\ \/ a.finCnt + 1 < MaxNumRetx
              /\ Conn' = [Conn EXCEPT ![s].finCnt = @ + 1, ![s].state = "FIN_SEND"]
           \/ a.finCnt + 1 >= MaxNumRetx /\ Conn' = [Conn EXCEPT ![s] = Sender!Reset]
  <2>1. CASE a.finCnt + 1 < MaxNumRetx
    <3>1. /\ Conn' = [Conn EXCEPT ![s] = [a EXCEPT !.finCnt = @ + 1, !.state = "FIN_SEND"]]
          /\ Conn[s] = a /\ Conn = [t \in Stream |-> Conn[t]]
      BY <2>1, Turned
    <3> QED BY ONLY <2>1, <3>1, s \in Stream
  <2>2. CASE ~(a.finCnt + 1 < MaxNumRetx)
    BY <2>2, Turned
  <2> QED BY <2>1, <2>2
<1>2. Sender!FinTimeout(s)
  BY <1>1 DEF Conn, Sender!FinTimeout
<1> QED BY <1>2 DEF Sender!SenderNext

LEMMA AsSendDone ==
  ASSUME NEW s \in Stream, NEW a, a = ConnAt(m, s), a.sending \in {"SYN", "FIN"},
         NEW success \in BOOLEAN,
         Turns(s, [a EXCEPT !.sending = "no",
                            !.state = IF success THEN @
                                      ELSE IF a.sending = "SYN" THEN "SYN_SEND"
                                      ELSE "FIN_SEND"]),
         UNCHANGED net, m'.sent = m.sent
  PROVE  Sender!SenderNext
<1>1. /\ Conn' = [Conn EXCEPT ![s].sending = "no",
                    ![s].state = IF success THEN @
                                 ELSE IF a.sending = "SYN" THEN "SYN_SEND" ELSE "FIN_SEND"]
      /\ Conn[s] = a
  <2>1. /\ Conn' = [Conn EXCEPT ![s] = [a EXCEPT !.sending = "no",
                     !.state = IF success THEN @
                               ELSE IF a.sending = "SYN" THEN "SYN_SEND" ELSE "FIN_SEND"]]
        /\ Conn[s] = a /\ Conn = [t \in Stream |-> Conn[t]]
    BY Turned
  <2> QED BY ONLY <2>1, s \in Stream
<1>2. Sender!SendDone(s, success)
  BY <1>1 DEF Conn, Sender!SendDone
<1> QED BY <1>2 DEF Sender!SenderNext

LEMMA AsReceive ==
  ASSUME NEW p \in net, p.s \in Stream, NEW a, a = ConnAt(m, p.s),
         \/ p.flag = "SYN_ACK" /\ Turns(p.s, IF a.state = "SYN_ACK_WAIT"
                                             THEN [a EXCEPT !.state = "ACTIVE", !.lastSent = 0]
                                             ELSE a)
         \/ p.flag = "FIN_ACK" /\ a.state \notin {"UNOPENED", "IDLE"}
              /\ Turns(p.s, Sender!Reset),
         net' = net \ {p}, m'.sent = m.sent
  PROVE  Sender!SenderNext
<1>1. Conn[p.s] = a /\ Conn = [t \in Stream |-> Conn[t]]
  BY ConnIs DEF Conn
<1>2. CASE p.flag = "SYN_ACK"
  <2>1. Conn' = IF a.state = "SYN_ACK_WAIT"
                THEN [Conn EXCEPT ![p.s].state = "ACTIVE", ![p.s].lastSent = 0] ELSE Conn
    <3>1. CASE a.state = "SYN_ACK_WAIT"
      <4>1. Conn' = [Conn EXCEPT ![p.s] = [a EXCEPT !.state = "ACTIVE", !.lastSent = 0]]
        BY <1>2, <3>1, Turned
      <4> QED BY ONLY <1>1, <3>1, <4>1, p.s \in Stream
    <3>2. CASE a.state # "SYN_ACK_WAIT"
      <4>1. Conn' = [Conn EXCEPT ![p.s] = a]
        BY <1>2, <3>2, Turned
      <4> QED BY ONLY <1>1, <3>2, <4>1, p.s \in Stream
    <3> QED BY <3>1, <3>2
  <2>2. Sender!Receive_SYN_ACK(p)
    BY <1>1, <1>2, <2>1 DEF Conn, Sender!Receive_SYN_ACK
  <2> QED BY <2>2 DEF Sender!SenderReceive, Sender!AfterReceipt, Sender!SenderNext
<1>3. CASE p.flag = "FIN_ACK"
  <2>1. Conn' = [Conn EXCEPT ![p.s] = Sender!Reset]
    BY <1>3, Turned
  <2>2. Sender!Receive_FIN_ACK(p)
    BY <1>1, <1>3, <2>1 DEF Conn, Sender!Receive_FIN_ACK, Sender!Open
  <2> QED BY <2>2 DEF Sender!SenderReceive, Sender!AfterReceipt, Sender!SenderNext
<1> QED BY <1>2, <1>3

InRange(list, last) ==
  {n \in list : \A k \in list : SeqCmp(k, n) <= 0 => SeqDiff(last, k) <= TrValidRange}

LEMMA AsNack ==
  ASSUME NEW p \in net, p.s \in Stream, NEW a, a = ConnAt(m, p.s), p.flag = "NACK",
         a.state \notin {"UNOPENED", "IDLE"},
         NEW n \in 0 .. (RListLen + 1 - Cardinality(a.recover)),
         Turns(p.s, [a EXCEPT !.recover =
                       @ \cup Oldest(InRange(p.list, a.lastSent) \ a.recover, n)]),
         net' = net \ {p}, m'.sent = m.sent
  PROVE  Sender!SenderNext
<1>1. Conn[p.s] = a
  BY ConnIs DEF Conn
<1>2. Sender!InRange(p.s, p.list) = InRange(p.list, a.lastSent)
  BY <1>1, SameNet, Zenon DEF Sender!InRange, InRange, Conn
<1>3. PICK O : O = Oldest(InRange(p.list, a.lastSent) \ a.recover, n)
  OBVIOUS
<1>4. Sender!Oldest(Sender!InRange(p.s, p.list) \ a.recover, n) = O
  BY <1>2, <1>3, SameOldest
<1>5. Conn' = [Conn EXCEPT ![p.s].recover = @ \cup O]
  BY <1>3, Turned
<1>6. Sender!Cardinality(a.recover) = Cardinality(a.recover)
  BY DEF Sender!Cardinality, Cardinality
<1>7. Sender!Receive_NACK(p)
  BY <1>1, <1>4, <1>5, <1>6 DEF Conn, Sender!Receive_NACK, Sender!Open
<1> QED BY <1>7 DEF Sender!SenderReceive, Sender!AfterReceipt, Sender!SenderNext

LEMMA AsElsewhere ==
  ASSUME \A t \in Stream : ConnAt(m', t) = ConnAt(m, t), m'.sent = m.sent,
         \A q \in net' \ net : q.flag \in MoteFlag
  PROVE  Elsewhere
<1>1. Conn' = Conn
  <2>1. Conn' = [t \in Stream |-> ConnOf(t)']
    BY DEF Conn
  <2> QED BY <2>1, ConnIs, ConnWillBe DEF Conn
<1> QED BY <1>1 DEF Conn, Elsewhere, Sender!senderVars

-----------------------------------------------------------------------------
(* The invariant of the refinement.                                        *)

Names(r) ==
  /\ r.closed \subseteq r.opened /\ r.routing.s \in r.opened \cup {None}
  /\ \A s \in Stream : r.sent[s] > 0 => s \in r.opened
  /\ \A i \in Conns : r.c[i].s = None => r.c[i] = IdleConn

(* The number that was sent last is the number of packets sent, but where  *)
(* lastSentSeqNo counts SYNs.                                              *)
CountedAt(r, i, s) ==
  /\ r.c[i].state \in {"SYN_SEND", "SYN_ACK_WAIT"} =>
       r.sent[s] = 0 /\ <<s, "FIN">> \notin r.aired
  /\ r.c[i].state = "ACTIVE" => r.c[i].lastSent = r.sent[s]
  /\ r.c[i].state \in {"FIN_SEND", "FIN_ACK_WAIT"} =>
       r.c[i].lastSent = r.sent[s] \/ r.sent[s] = 0

SynFirst(r) == \A s \in Stream : r.routing.flag = "SYN" /\ r.routing.s = s => r.sent[s] = 0

Counted(r) ==
  SynFirst(r) /\ \A i \in Conns : \A s \in Stream : r.c[i].s = s => CountedAt(r, i, s)

(* The master asks only for what it may miss.                              *)
MayMiss(r, s) == r.sent[s] > 0 \/ <<s, "FIN">> \in r.aired

Asks(r, n) ==
  /\ \A p \in n : p.flag = "NACK" =>
        \A i \in Conns : r.c[i].s = p.s => MayMiss(r, p.s)
  /\ \A e \in Range(r.rlist) : \A s \in Stream \cup {None} :
        r.c[e[1]].s = s => s # None /\ MayMiss(r, s)

(* What was read is retransmitted by one task, posted or waiting.          *)
Reading(r) == r.log.op.kind = "read"
InHand(r)  == r.readbusy /\ ~Reading(r)
Retransmits(r) == {j \in DOMAIN r.posted : r.posted[j] = "retransmitDataPacket"}

Tokens(r) ==
  /\ Reading(r) => r.readbusy
  /\ ~InHand(r) => Retransmits(r) = {} /\ "RETRANSMIT" \notin r.pending
  /\ \A j, k \in Retransmits(r) : j = k
  /\ "RETRANSMIT" \in r.pending => Retransmits(r) = {}

(* What is in the buffers and the log was sent, and lies where its number   *)
(* is looked for.                                                          *)
WasSent(r, p) == p # Erased => p[1] \in r.opened /\ p[2] <= r.sent[p[1]]

LiesAt(r, v, p) == \A i \in Conns : r.c[i].s = p[1] => v \div 2 = i

Held(r) ==
  /\ WasSent(r, r.rbuf) /\ (r.writebusy => WasSent(r, r.wbuf))
  /\ \A v \in Volumes : \A x \in Indexes : r.log.vol[v][x] # Erased =>
        /\ WasSent(r, r.log.vol[v][x]) /\ LiesAt(r, v, r.log.vol[v][x])
        /\ r.log.vol[v][x][2] = x + 1
  /\ r.log.op.kind = "write" =>
        /\ r.writebusy /\ r.log.op.pkt = r.wbuf /\ r.wbuf # Erased
        /\ r.log.op.idx = IndexOf(r.wbuf[2]) /\ LiesAt(r, r.log.op.vol, r.wbuf)

(* What is being read was asked for, if its connection is still there.     *)
BeingRead(r) == r.log.vol[r.log.op.vol][r.log.op.idx]

ReadsAsked(r) ==
  Reading(r) /\ BeingRead(r) # Erased =>
    \A i \in Conns : r.c[i].s = BeingRead(r)[1] => <<i, BeingRead(r)[2]>> \in Range(r.rlist)

RefInv(r, n) ==
  /\ Names(r) /\ Counted(r) /\ Asks(r, n) /\ Tokens(r) /\ Held(r) /\ ReadsAsked(r)

(* The log of a connection has room for all that is sent on a stream: then *)
(* the number of a packet is known from where it lies.                     *)
Roomy == MaxData <= FlashPkts

LEMMA Fits ==
  ASSUME Roomy
  PROVE  /\ MaxData + TrValidRange <= TrMaxSeqno /\ MaxData < TrMaxSeqno
         /\ \A k \in 1 .. MaxData : IndexOf(k) = k - 1
<1>1. /\ FlashPkts \in Nat \ {0} /\ TrMaxSeqno \in Nat \ {0} /\ MaxData \in Nat
      /\ TrValidRange \in Nat \ {0} /\ TrValidRange <= FlashPkts
      /\ TrMaxSeqno % (2 * FlashPkts) = 0
  BY Consts, StrMoteAssumption, TrSeqnoAssumption
<1>2. TrMaxSeqno >= 2 * FlashPkts
  BY <1>1
<1>3. \A k \in 1 .. MaxData : (k - 1) % FlashPkts = k - 1
  BY <1>1 DEF Roomy
<1> QED BY <1>1, <1>2, <1>3 DEF Roomy, IndexOf

LEMMA SameCount ==
  ASSUME NEW r, NEW q, NEW n, NEW k, Names(r), Counted(r), Asks(r, n),
         q.c = r.c, q.opened = r.opened, q.closed = r.closed, q.sent = r.sent,
         q.routing = r.routing, q.aired = r.aired, Range(q.rlist) \subseteq Range(r.rlist),
         k \subseteq n
  PROVE  Names(q) /\ Counted(q) /\ Asks(q, k)
BY DEF Names, Counted, CountedAt, SynFirst, Asks, MayMiss

LEMMA StillSent ==
  ASSUME NEW r \in Mote, NEW q \in Mote, r.opened \subseteq q.opened,
         \A s \in Stream : r.sent[s] <= q.sent[s], NEW p \in Buf, WasSent(r, p)
  PROVE  WasSent(q, p)
<1> SUFFICES ASSUME p # Erased
             PROVE  p[1] \in q.opened /\ p[2] <= q.sent[p[1]]
  BY DEF WasSent
<1>1. p[1] \in Stream /\ p[2] \in Seqno /\ p[1] \in r.opened /\ p[2] <= r.sent[p[1]]
  BY DEF Buf, WasSent
<1>2. q.sent[p[1]] \in Int /\ r.sent[p[1]] \in Int /\ p[2] \in Int
  BY <1>1, Consts DEF Mote, RecType
<1> QED BY <1>1, <1>2

(* A connection that is left, and one that is opened, are of nothing that  *)
(* is held.                                                                *)
StillConn(r, q, i) == q.c[i].s = r.c[i].s \/ q.c[i].s = None \/ q.c[i].s \notin r.opened

LEMMA SameHeld ==
  ASSUME NEW r \in Mote, NEW q \in Mote, Held(r), ReadsAsked(r),
         q.rbuf \in {r.rbuf, Erased},
         \A v \in Volumes : \A x \in Indexes : q.log.vol[v][x] \in {r.log.vol[v][x], Erased},
         q.log.op = r.log.op \/ q.log.op.kind \notin {"write", "read"},
         q.log.op.kind = "write" => q.wbuf = r.wbuf /\ q.writebusy = r.writebusy,
         q.writebusy => WasSent(q, q.wbuf) \/ (r.writebusy /\ q.wbuf = r.wbuf),
         r.opened \subseteq q.opened, \A s \in Stream : r.sent[s] <= q.sent[s],
         \A i \in Conns : StillConn(r, q, i),
         Reading(q) => \A i \in Conns : q.c[i].s = r.c[i].s =>
           \A k \in Seqno : <<i, k>> \in Range(r.rlist) => <<i, k>> \in Range(q.rlist)
             \/ q.c[i].s = None
  PROVE  Held(q) /\ ReadsAsked(q)
<1>0. /\ \A v \in Volumes : \A x \in Indexes : r.log.vol[v][x] \in Buf
      /\ r.rbuf \in Buf /\ r.wbuf \in Buf /\ q.log.op.vol \in Volumes /\ q.log.op.idx \in Indexes
  BY DEF Mote, RecType, LogType, OpType
<1>1. \A p \in Buf : WasSent(r, p) => WasSent(q, p)
  BY StillSent
<1>2. WasSent(q, Erased)
  BY DEF WasSent
<1>3. ASSUME NEW p \in Buf, p # Erased, WasSent(r, p), NEW v, LiesAt(r, v, p)
      PROVE  LiesAt(q, v, p)
  <2>1. p[1] \in Stream /\ p[1] \in r.opened /\ p[1] # None
    BY <1>3, Consts DEF Buf, WasSent
  <2> QED BY <1>3, <2>1 DEF LiesAt, StillConn
<1>4. WasSent(q, q.rbuf) /\ (q.writebusy => WasSent(q, q.wbuf))
  BY <1>0, <1>1, <1>2 DEF Held
<1>5. ASSUME NEW v \in Volumes, NEW x \in Indexes, q.log.vol[v][x] # Erased
      PROVE  /\ WasSent(q, q.log.vol[v][x]) /\ LiesAt(q, v, q.log.vol[v][x])
             /\ q.log.vol[v][x][2] = x + 1
  BY <1>0, <1>1, <1>3, <1>5 DEF Held
<1>6. ASSUME q.log.op.kind = "write"
      PROVE  /\ q.writebusy /\ q.log.op.pkt = q.wbuf /\ q.wbuf # Erased
             /\ q.log.op.idx = IndexOf(q.wbuf[2]) /\ LiesAt(q, q.log.op.vol, q.wbuf)
  <2>1. q.log.op = r.log.op /\ q.wbuf = r.wbuf /\ q.writebusy = r.writebusy
    BY <1>6
  <2> QED BY <1>0, <1>3, <1>6, <2>1 DEF Held
<1>7. ReadsAsked(q)
  <2> SUFFICES ASSUME Reading(q), BeingRead(q) # Erased, NEW i \in Conns,
                      q.c[i].s = BeingRead(q)[1]
               PROVE  <<i, BeingRead(q)[2]>> \in Range(q.rlist)
    BY DEF ReadsAsked
  <2>1. q.log.op = r.log.op /\ Reading(r)
    BY DEF Reading
  <2>2. PICK p \in Buf : p = BeingRead(r) /\ p = BeingRead(q) /\ WasSent(r, p)
    <3>1. PICK v \in Volumes, x \in Indexes : v = r.log.op.vol /\ x = r.log.op.idx
      BY <1>0, <2>1
    <3>2. BeingRead(q) = r.log.vol[v][x] /\ BeingRead(r) = r.log.vol[v][x]
      BY <2>1, <3>1, ZenonT(30) DEF BeingRead
    <3> QED BY <1>0, <3>2 DEF Held
  <2>3. p[1] \in Stream /\ p[2] \in Seqno /\ p[1] \in r.opened /\ p[1] # None
    BY <2>2, Consts DEF Buf, WasSent
  <2>4. q.c[i].s = r.c[i].s
    BY <2>2, <2>3 DEF StillConn
  <2>5. <<i, p[2]>> \in Range(r.rlist)
    BY <2>1, <2>2, <2>4 DEF ReadsAsked
  <2> QED BY <2>2, <2>3, <2>4, <2>5
<1> QED BY <1>4, <1>5, <1>6, <1>7 DEF Held

-----------------------------------------------------------------------------
LEMMA TokensKept ==
  ASSUME NEW r, NEW q, Tokens(r), Retransmits(q) = Retransmits(r),
         "RETRANSMIT" \in q.pending <=> "RETRANSMIT" \in r.pending,
         InHand(r) => InHand(q), Reading(q) => q.readbusy
  PROVE  Tokens(q)
BY DEF Tokens

LEMMA PostKeeps ==
  ASSUME NEW r \in Mote, NEW t \in TaskName \ {"retransmitDataPacket"}, NEW q,
         q.posted = Append(r.posted, t)
  PROVE  Retransmits(q) = Retransmits(r)
<1>1. PICK n \in Nat : n = Len(r.posted) /\ DOMAIN r.posted = 1 .. n /\ r.posted \in Seq(TaskName)
  BY LenProperties DEF Mote, RecType
<1>2. /\ DOMAIN q.posted = 1 .. (n + 1) /\ q.posted[n + 1] = t
      /\ \A k \in 1 .. n : q.posted[k] = r.posted[k]
  BY <1>1, AppendProperties, LenProperties
<1> QED BY <1>1, <1>2 DEF Retransmits

(* The first task is taken off.                                            *)
LEMMA TailKeeps ==
  ASSUME NEW r \in Mote, r.posted # <<>>, Tokens(r), NEW q, q.posted = Tail(r.posted)
  PROVE  /\ \A j, k \in Retransmits(q) : j = k
         /\ Retransmits(r) = {} \/ Head(r.posted) = "retransmitDataPacket" => Retransmits(q) = {}
<1>1. PICK n \in Nat : /\ n = Len(r.posted) /\ DOMAIN r.posted = 1 .. n /\ n > 0
                       /\ r.posted \in Seq(TaskName)
  BY LenProperties, EmptySeq DEF Mote, RecType
<1>2. /\ DOMAIN q.posted = 1 .. (n - 1)
      /\ \A k \in 1 .. (n - 1) : q.posted[k] = r.posted[k + 1]
      /\ Head(r.posted) = r.posted[1]
  BY <1>1, HeadTailProperties, LenProperties
<1>3. \A j \in Retransmits(q) : j \in 1 .. (n - 1) /\ j + 1 \in Retransmits(r) /\ j + 1 # 1
  BY <1>1, <1>2 DEF Retransmits
<1>4. \A j, k \in Retransmits(q) : j = k
  <2> TAKE j, k \in Retransmits(q)
  <2>1. j + 1 = k + 1
    BY <1>3 DEF Tokens
  <2> QED BY <1>3, <2>1
<1>5. ASSUME Head(r.posted) = "retransmitDataPacket"
      PROVE  Retransmits(q) = {}
  <2>1. 1 \in Retransmits(r)
    BY <1>1, <1>2, <1>5 DEF Retransmits
  <2> QED BY <1>3, <2>1 DEF Tokens
<1> QED BY <1>3, <1>4, <1>5

(* A step that does not touch what StrSender speaks of.                     *)
LEMMA SameConns ==
  ASSUME NEW r, NEW q, q.c = r.c, q.opened = r.opened, q.closed = r.closed,
         q.routing = r.routing, q.rlist = r.rlist,
         \A s \in Stream : BufferOf(q, s) = BufferOf(r, s)
  PROVE  \A s \in Stream : ConnAt(q, s) = ConnAt(r, s)
<1> TAKE s \in Stream
<1>1. Stays(r, q, s)
  BY DEF Stays, AskedOf, SendingOf
<1> QED BY <1>1, StaysSame

LEMMA Popped ==
  ASSUME Typed, RefInv(m, net), OweInv(m, net), m.posted # <<>>
  PROVE  \E r \in Mote :
           /\ r = [m EXCEPT !.posted = Tail(@)]
           /\ RefInv(r, net) /\ OweInv(r, net) /\ r.sent = m.sent /\ r.rlist = m.rlist
           /\ \A s \in Stream : ConnAt(r, s) = ConnAt(m, s)
           /\ Head(m.posted) = "retransmitDataPacket" =>
                Retransmits(r) = {} /\ "RETRANSMIT" \notin r.pending /\ InHand(r)
<1>1. m.posted \in Seq(TaskName) /\ Tail(m.posted) \in Seq(TaskName)
  BY HeadTailProperties DEF Typed, Mote, RecType
<1>2. PICK r \in Mote : r = [m EXCEPT !.posted = Tail(@)]
  BY <1>1 DEF Typed, Mote, RecType
<1>3. /\ r.c = m.c /\ r.psd = m.psd /\ r.routing = m.routing /\ r.wbuf = m.wbuf
      /\ r.writebusy = m.writebusy /\ r.rbuf = m.rbuf /\ r.readbusy = m.readbusy
      /\ r.rlist = m.rlist /\ r.pending = m.pending /\ r.posted = Tail(m.posted)
      /\ r.log = m.log /\ r.sent = m.sent /\ r.opened = m.opened /\ r.closed = m.closed
      /\ r.aired = m.aired /\ r.owed = m.owed
  BY <1>2 DEF Typed, Mote, RecType
<1>4. Names(r) /\ Counted(r) /\ Asks(r, net)
  BY <1>3, SameCount DEF RefInv
<1>5. Held(r) /\ ReadsAsked(r)
  BY <1>3, ZenonT(30) DEF RefInv, Held, ReadsAsked, WasSent, LiesAt, Reading, BeingRead
<1>6. Tokens(m) /\ m \in Mote /\ (Reading(r) <=> Reading(m)) /\ (InHand(r) <=> InHand(m))
  BY <1>3 DEF RefInv, Typed, Reading, InHand
<1>7. /\ \A j, k \in Retransmits(r) : j = k
      /\ Retransmits(m) = {} \/ Head(m.posted) = "retransmitDataPacket" => Retransmits(r) = {}
  BY <1>3, <1>6, TailKeeps
<1>8. Tokens(r)
  BY <1>3, <1>6, <1>7 DEF Tokens
<1>9. ASSUME Head(m.posted) = "retransmitDataPacket"
      PROVE  Retransmits(r) = {} /\ "RETRANSMIT" \notin r.pending /\ InHand(r)
  <2>1. Retransmits(m) # {}
    <3>1. 1 \in DOMAIN m.posted /\ m.posted[1] = Head(m.posted)
      BY <1>1, LenProperties, EmptySeq, HeadTailProperties
    <3> QED BY <1>9, <3>1 DEF Retransmits
  <2> QED BY <1>3, <1>6, <1>7, <1>9, <2>1 DEF Tokens
<1>10. OweInv(r, net)
  BY <1>3, SameView DEF View
<1>11. \A s \in Stream : ConnAt(r, s) = ConnAt(m, s)
  BY <1>3, SameConns, ZenonT(30) DEF BufferOf
<1> QED BY <1>2, <1>3, <1>4, <1>5, <1>8, <1>9, <1>10, <1>11 DEF RefInv

RefView(r) == <<r.c, r.routing, r.wbuf, r.writebusy, r.rbuf, r.readbusy, r.rlist, r.log.op,
                r.log.vol, r.sent, r.opened, r.closed, r.aired>>

LEMMA SameRef ==
  ASSUME NEW r, NEW q, NEW n, NEW k, RefInv(r, n), k \subseteq n, RefView(q) = RefView(r),
         Retransmits(q) = Retransmits(r),
         "RETRANSMIT" \in q.pending <=> "RETRANSMIT" \in r.pending
  PROVE  RefInv(q, k) /\ \A s \in Stream : ConnAt(q, s) = ConnAt(r, s)
<1>1. /\ q.c = r.c /\ q.routing = r.routing /\ q.wbuf = r.wbuf
      /\ q.writebusy = r.writebusy /\ q.rbuf = r.rbuf /\ q.readbusy = r.readbusy
      /\ q.rlist = r.rlist /\ q.log.op = r.log.op /\ q.log.vol = r.log.vol
      /\ q.sent = r.sent /\ q.opened = r.opened /\ q.closed = r.closed
      /\ q.aired = r.aired
  BY DEF RefView
<1>2. Names(q) /\ Counted(q) /\ Asks(q, k)
  BY <1>1, SameCount DEF RefInv
<1>3. Held(q) /\ ReadsAsked(q)
  BY <1>1, ZenonT(30) DEF RefInv, Held, ReadsAsked, WasSent, LiesAt, Reading, BeingRead
<1>4. Tokens(q)
  BY <1>1 DEF RefInv, Tokens, Reading, InHand
<1>5. \A s \in Stream : ConnAt(q, s) = ConnAt(r, s)
  BY <1>1, SameConns, ZenonT(30) DEF BufferOf
<1> QED BY <1>2, <1>3, <1>4, <1>5 DEF RefInv

LEMMA PostRef ==
  ASSUME NEW r \in Mote, NEW n, RefInv(r, n), NEW t \in TaskName \ {"retransmitDataPacket"}
  PROVE  /\ RefInv(Post(r, t), n) /\ Post(r, t).sent = r.sent
         /\ \A s \in Stream : ConnAt(Post(r, t), s) = ConnAt(r, s)
<1>1. PICK q : q = Post(r, t)
  OBVIOUS
<1>2. /\ RefView(q) = RefView(r) /\ q.posted = Append(r.posted, t) /\ q.pending = r.pending
      /\ q.sent = r.sent
  BY <1>1 DEF Post, RefView, Mote, RecType
<1>3. Retransmits(q) = Retransmits(r)
  BY <1>2, PostKeeps
<1> QED BY <1>1, <1>2, <1>3, SameRef

LEMMA TryLaterRef ==
  ASSUME NEW r \in Mote, NEW n, RefInv(r, n), NEW flag \in Flag \ {"RETRANSMIT"}
  PROVE  /\ RefInv(TryLater(r, flag), n) /\ TryLater(r, flag).sent = r.sent
         /\ \A s \in Stream : ConnAt(TryLater(r, flag), s) = ConnAt(r, s)
<1>1. PICK q : q = TryLater(r, flag)
  OBVIOUS
<1>2. /\ RefView(q) = RefView(r) /\ q.posted = r.posted /\ q.pending = r.pending \cup {flag}
      /\ q.sent = r.sent
  BY <1>1 DEF TryLater, RefView, Mote, RecType
<1>3. Retransmits(q) = Retransmits(r)
  BY <1>2 DEF Retransmits
<1> QED BY <1>1, <1>2, <1>3, SameRef

(* A step of the flash: the log and what is written are all that changes.  *)
LEMMA FlashRef ==
  ASSUME NEW r \in Mote, NEW q \in Mote, NEW n, RefInv(r, n), Held(q),
         q.c = r.c, q.routing = r.routing, q.rbuf = r.rbuf, q.readbusy = r.readbusy,
         q.rlist = r.rlist, q.sent = r.sent, q.opened = r.opened, q.closed = r.closed,
         q.aired = r.aired, q.posted = r.posted, q.pending = r.pending,
         ~Reading(q), ~Reading(r)
  PROVE  RefInv(q, n) /\ \A s \in Stream : ConnAt(q, s) = ConnAt(r, s)
<1>1. Names(q) /\ Counted(q) /\ Asks(q, n)
  BY SameCount DEF RefInv
<1>2. ReadsAsked(q)
  BY DEF ReadsAsked
<1>3. Tokens(q)
  BY DEF RefInv, Tokens, InHand, Retransmits
<1>4. \A s \in Stream : ConnAt(q, s) = ConnAt(r, s)
  BY SameConns, ZenonT(30) DEF BufferOf, Reading
<1> QED BY <1>1, <1>2, <1>3, <1>4 DEF RefInv

Steps == Elsewhere \/ Sender!SenderNext

(* A step that StrSender does not see.                                     *)
LEMMA Unseen ==
  ASSUME NEW q, m' = q, \A s \in Stream : ConnAt(q, s) = ConnAt(m, s), q.sent = m.sent,
         UNCHANGED net
  PROVE  Steps
BY AsElsewhere DEF Steps

-----------------------------------------------------------------------------
(* Steps of the log.                                                       *)

LEMMA TheCid ==
  ASSUME Settled, NEW r \in Mote, Apart(r), NEW p \in Buf, WithCid(r, p) # {}
  PROVE  LET i == Min(WithCid(r, p))
         IN  /\ i \in Conns /\ p \in Stream \X Seqno /\ p # Erased /\ r.c[i].s = p[1]
             /\ \A j \in Conns : r.c[j].s = p[1] => j = i
<1>1. PICK i : i = Min(WithCid(r, p))
  OBVIOUS
<1>2. /\ i \in WithCid(r, p) /\ i \in Conns /\ p \in Stream \X Seqno /\ r.c[i].s \in Stream
      /\ Cid[r.c[i].s] = Cid[p[1]]
  <2>1. WithCid(r, p) \subseteq Conns
    BY FoundByCid
  <2>2. i \in WithCid(r, p)
    BY <1>1, <2>1, LeastConn
  <2> QED BY <2>2, FoundByCid
<1>3. r.c[i].s = p[1] /\ p[1] # None /\ p # Erased
  BY <1>2, Consts DEF Settled, WithCid
<1> QED BY <1>1, <1>2, <1>3 DEF Apart

LEMMA WriteRef ==
  ASSUME Settled, NEW r \in Mote, RefInv(r, net), Apart(r)
  PROVE  /\ RefInv(writeLogger(r), net) /\ writeLogger(r).sent = r.sent
         /\ \A s \in Stream : ConnAt(writeLogger(r), s) = ConnAt(r, s)
<1>1. PICK i : i = Min(WithCid(r, r.wbuf))
  OBVIOUS
<1>2. CASE WithCid(r, r.wbuf) # {} /\ r.writebusy /\ r.eeprom = "idle"
           /\ LogWriteOK(r.log, i, r.wbuf[2])
  <2>1. PICK q : q = [r EXCEPT !.log = LogWrite(@, i, r.wbuf), !.eeprom = "busy"]
    OBVIOUS
  <2>2. q = writeLogger(r)
    BY <1>1, <1>2, <2>1 DEF writeLogger
  <2>3. /\ i \in Conns /\ r.wbuf # Erased /\ r.c[i].s = r.wbuf[1]
        /\ \A j \in Conns : r.c[j].s = r.wbuf[1] => j = i
    <3>1. r.wbuf \in Buf
      BY DEF Mote, RecType
    <3> QED BY ONLY <1>1, <1>2, <3>1, Settled, r \in Mote, Apart(r), TheCid
  <2>4. /\ q.c = r.c /\ q.routing = r.routing /\ q.rbuf = r.rbuf /\ q.readbusy = r.readbusy
        /\ q.rlist = r.rlist /\ q.sent = r.sent /\ q.opened = r.opened
        /\ q.closed = r.closed /\ q.aired = r.aired /\ q.posted = r.posted
        /\ q.pending = r.pending /\ q.wbuf = r.wbuf /\ q.writebusy = r.writebusy
        /\ q.log = LogWrite(r.log, i, r.wbuf)
    BY <2>1 DEF Mote, RecType
  <2>5. /\ q.log.vol = r.log.vol
        /\ q.log.op = Op("write", 2 * i + r.log.b[i].currVol, IndexOf(r.wbuf[2]), r.wbuf)
    BY <2>4 DEF LogWrite, Mote, RecType, LogType
  <2>6. /\ q.log.op.kind = "write" /\ q.log.op.pkt = r.wbuf
        /\ q.log.op.idx = IndexOf(r.wbuf[2]) /\ q.log.op.vol = 2 * i + r.log.b[i].currVol
    BY <2>5 DEF Op
  <2>7. (2 * i + r.log.b[i].currVol) \div 2 = i
    <3>1. r.log.b[i].currVol \in 0 .. 1
      BY <2>3 DEF Mote, RecType, LogType, BlockType
    <3> QED BY <2>3, <3>1, Consts
  <2>8. Held(q)
    <3>1. LiesAt(q, q.log.op.vol, q.wbuf)
      BY <2>3, <2>4, <2>6, <2>7 DEF LiesAt
    <3>2. \A p : WasSent(r, p) => WasSent(q, p)
      BY <2>4 DEF WasSent
    <3>3. \A v, p : LiesAt(r, v, p) => LiesAt(q, v, p)
      BY <2>4 DEF LiesAt
    <3>4. WasSent(q, q.rbuf) /\ (q.writebusy => WasSent(q, q.wbuf))
      BY <2>4, <3>2 DEF RefInv, Held
    <3>5. \A v \in Volumes : \A x \in Indexes : q.log.vol[v][x] # Erased =>
            /\ WasSent(q, q.log.vol[v][x]) /\ LiesAt(q, v, q.log.vol[v][x])
            /\ q.log.vol[v][x][2] = x + 1
      BY <2>5, <3>2, <3>3 DEF RefInv, Held
    <3> QED BY <1>2, <2>3, <2>4, <2>6, <3>1, <3>4, <3>5 DEF Held
  <2>9. ~Reading(q) /\ ~Reading(r)
    BY <1>2, <2>6 DEF Reading, LogWriteOK, FlashIdle
  <2>10. q \in Mote
    BY <2>2, WriteTyped
  <2> QED BY <2>2, <2>4, <2>8, <2>9, <2>10, FlashRef
<1>3. CASE ~(WithCid(r, r.wbuf) # {} /\ r.writebusy /\ r.eeprom = "idle"
             /\ LogWriteOK(r.log, i, r.wbuf[2]))
  <2>1. writeLogger(r) \in {r, TryLater(r, "WRITE_LOGGER")}
    BY <1>1, <1>3 DEF writeLogger
  <2> QED BY <2>1, TryLaterRef DEF Flag
<1> QED BY <1>2, <1>3

LEMMA EraseRef ==
  ASSUME NEW r \in Mote, RefInv(r, net)
  PROVE  /\ RefInv(eraseLogger(r), net) /\ eraseLogger(r).sent = r.sent
         /\ \A s \in Stream : ConnAt(eraseLogger(r), s) = ConnAt(r, s)
<1>1. PICK q : q = [r EXCEPT !.log = LogErase(@, r.eraseid)]
  OBVIOUS
<1>2. /\ q.c = r.c /\ q.routing = r.routing /\ q.rbuf = r.rbuf /\ q.readbusy = r.readbusy
      /\ q.rlist = r.rlist /\ q.sent = r.sent /\ q.opened = r.opened
      /\ q.closed = r.closed /\ q.aired = r.aired /\ q.posted = r.posted
      /\ q.pending = r.pending /\ q.wbuf = r.wbuf /\ q.writebusy = r.writebusy
      /\ q.log = LogErase(r.log, r.eraseid)
  BY <1>1 DEF Mote, RecType
<1>3. q.log.vol = r.log.vol
      /\ \/ q.log.op = r.log.op
         \/ r.log.op.kind = "none" /\ q.log.op.kind = "erase"
  BY <1>2 DEF LogErase, EraseVol, FlashIdle, Op, Mote, RecType, LogType
<1>4. q \in Mote
  <2>1. LogErase(r.log, r.eraseid) \in LogType
    BY LogEraseTyped DEF Mote, RecType
  <2> QED BY <1>1, <2>1 DEF Mote, RecType
<1>5. RefInv(q, net) /\ \A s \in Stream : ConnAt(q, s) = ConnAt(r, s)
  <2>1. CASE q.log.op = r.log.op
    <3>1. RefView(q) = RefView(r) /\ Retransmits(q) = Retransmits(r)
      BY <1>2, <1>3, <2>1 DEF RefView, Retransmits
    <3> QED BY <1>2, <3>1, SameRef
  <2>2. CASE r.log.op.kind = "none" /\ q.log.op.kind = "erase"
    <3>1. Held(q)
      BY <1>2, <1>3, <2>2 DEF RefInv, Held, WasSent, LiesAt
    <3> QED BY <1>2, <1>4, <2>2, <3>1, FlashRef DEF Reading
  <2> QED BY <1>3, <2>1, <2>2
<1>6. PICK w : w = [q EXCEPT !.eeprom = "init"]
  OBVIOUS
<1>7. RefView(w) = RefView(q) /\ w.posted = q.posted /\ w.pending = q.pending /\ w.sent = q.sent
  BY <1>4, <1>6 DEF RefView, Mote, RecType
<1>8. RefInv(w, net) /\ \A s \in Stream : ConnAt(w, s) = ConnAt(q, s)
  <2>1. Retransmits(w) = Retransmits(q)
    BY <1>7 DEF Retransmits
  <2> QED BY <1>5, <1>7, <2>1, SameRef
<1>9. eraseLogger(r) \in {w, TryLater(q, "WRITE_LOGGER")}
  BY <1>1, <1>6 DEF eraseLogger
<1> QED BY <1>2, <1>4, <1>5, <1>7, <1>8, <1>9, TryLaterRef DEF Flag

LEMMA LogWrittenIs ==
  ASSUME NEW log \in LogType
  PROVE  LogWritten(log).vol = [log.vol EXCEPT ![log.op.vol][log.op.idx] = log.op.pkt]
<1>1. PICK i, k, o : i = log.op.vol \div 2 /\ k = log.b[i].currVol /\ o = log.op
  OBVIOUS
<1>2. PICK w : w = [log EXCEPT !.vol[o.vol][o.idx] = o.pkt, !.op = NoOp]
  OBVIOUS
<1>3. PICK full : full = [w EXCEPT !.b[i].dirty[k] = TRUE, !.b[i].currVol = 1 - k]
  OBVIOUS
<1>4. w.vol = [log.vol EXCEPT ![o.vol][o.idx] = o.pkt] /\ full.vol = w.vol
  BY <1>2, <1>3 DEF LogType
<1>5. EraseVol(full, 2 * i + (1 - k)).vol = full.vol
  BY <1>2, <1>3 DEF EraseVol, LogType
<1>6. LogWritten(log) \in {w, full, EraseVol(full, 2 * i + (1 - k))}
  BY <1>1, <1>2, <1>3 DEF LogWritten
<1> QED BY <1>1, <1>4, <1>5, <1>6

LEMMA LogEraseDoneIs ==
  ASSUME NEW log \in LogType, NEW v \in Volumes, NEW x \in Indexes
  PROVE  LogEraseDone(log).vol[v][x] \in {log.vol[v][x], Erased}
<1>1. PICK u, i : u = log.op.vol /\ i = u \div 2
  OBVIOUS
<1>2. PICK e : e = [log EXCEPT !.op = NoOp, !.b[i].dirty[u % 2] = FALSE,
                               !.vol[u] = [y \in Indexes |-> Erased]]
  OBVIOUS
<1>3. PICK a, b : a = [e EXCEPT !.b[0].ready = TRUE]
                  /\ b = [e EXCEPT !.b[i].ready = TRUE, !.state = "idle"]
  OBVIOUS
<1>4. e.vol[v][x] \in {log.vol[v][x], Erased}
  BY <1>2 DEF LogType
<1>5. a.vol = e.vol /\ b.vol = e.vol
  BY <1>2, <1>3 DEF LogType
<1>6. EraseVol(e, u + 1).vol = e.vol /\ EraseVol(a, 2).vol = a.vol
  BY <1>2, <1>3 DEF EraseVol, LogType
<1>7. LogEraseDone(log) \in {e, EraseVol(e, u + 1), EraseVol(a, 2), b}
  BY <1>1, <1>2, <1>3, Zenon DEF LogEraseDone
<1> QED BY <1>4, <1>5, <1>6, <1>7

(* A packet that is written lies where its number is looked for.            *)
LEMMA WrittenHeld ==
  ASSUME Roomy, NEW r \in Mote, Held(r), r.log.op.kind = "write", NEW q, q.c = r.c,
         q.opened = r.opened, q.sent = r.sent, q.rbuf = r.rbuf,
         q.log.vol \in {r.log.vol,
                        [r.log.vol EXCEPT ![r.log.op.vol][r.log.op.idx] = r.log.op.pkt]},
         q.log.op.kind # "write", q.writebusy => r.writebusy /\ q.wbuf = r.wbuf
  PROVE  Held(q)
<1>1. PICK u \in Volumes, y \in Indexes, p \in Stream \X Seqno :
        u = r.log.op.vol /\ y = r.log.op.idx /\ p = r.log.op.pkt /\ p = r.wbuf /\ p # Erased
        /\ y = IndexOf(p[2]) /\ LiesAt(r, u, p) /\ WasSent(r, p)
  <2>1. r.log.op.vol \in Volumes /\ r.log.op.idx \in Indexes /\ r.wbuf \in Buf
    BY DEF Mote, RecType, LogType, OpType
  <2> QED BY <2>1 DEF Held, Buf
<1>2. p[2] = y + 1
  <2>1. p[2] \in Seqno /\ p[2] <= r.sent[p[1]] /\ r.sent[p[1]] \in 0 .. MaxData
    BY <1>1 DEF WasSent, Mote, RecType
  <2>2. p[2] \in 1 .. MaxData
    BY <2>1, Consts
  <2> QED BY <1>1, <2>2, Fits
<1>3. \A z : WasSent(q, z) <=> WasSent(r, z)
  BY DEF WasSent
<1>4. \A v, z : LiesAt(q, v, z) <=> LiesAt(r, v, z)
  BY DEF LiesAt
<1>5. ASSUME NEW v \in Volumes, NEW x \in Indexes, q.log.vol[v][x] # Erased
      PROVE  /\ WasSent(q, q.log.vol[v][x]) /\ LiesAt(q, v, q.log.vol[v][x])
             /\ q.log.vol[v][x][2] = x + 1
  <2>1. \/ q.log.vol[v][x] = r.log.vol[v][x]
        \/ v = u /\ x = y /\ q.log.vol[v][x] = p
    BY <1>1, SMTT(30) DEF Mote, RecType, LogType
  <2>2. CASE q.log.vol[v][x] = r.log.vol[v][x]
    BY <1>3, <1>4, <1>5, <2>2 DEF Held
  <2>3. CASE v = u /\ x = y /\ q.log.vol[v][x] = p
    BY <1>1, <1>2, <1>3, <1>4, <2>3
  <2> QED BY <2>1, <2>2, <2>3
<1> QED BY <1>3, <1>5 DEF Held

LEMMA WriteDoneRef ==
  ASSUME Roomy, Typed, RefInv(m, net), NEW ok \in BOOLEAN, writeDone(ok)
  PROVE  RefInv(m', net') /\ Steps
<1>1. PICK r : r = [m EXCEPT !.eeprom = "idle",
                       !.log = IF ok THEN LogWritten(@) ELSE [@ EXCEPT !.op = NoOp]]
  OBVIOUS
<1>2. /\ [m.log EXCEPT !.op = NoOp] \in LogType /\ LogWritten(m.log) \in LogType
      /\ LogWritten(m.log).op.kind \in {"none", "erase"} /\ m.log \in LogType
  BY LogWrittenTyped, ZeroTyped DEF Typed, Mote, RecType, LogType
<1>3. r \in Mote
  BY <1>1, <1>2, ZenonT(30) DEF Typed, Mote, RecType
<1>4. PICK done \in Mote : done = [r EXCEPT !.writebusy = FALSE, !.wbuf = Erased]
  BY <1>3, ZenonT(30) DEF Mote, RecType, Buf
<1>5. PICK i : i = Min(WithCid(m, m.wbuf))
  OBVIOUS
<1>6. WithCid(m, m.wbuf) # {} => i \in Conns
  BY <1>5, FoundByCid DEF Typed, Mote, RecType
<1>7. m' \in {r, Post(r, "writeLogger"), Post(done, "readLogger")}
      \/ (WithCid(m, m.wbuf) # {} /\ m' = Post(Signalled(done, i), "readLogger"))
  BY <1>1, <1>4, <1>5 DEF writeDone
<1>8. /\ m.log.op.kind = "write" /\ UNCHANGED net
  BY DEF writeDone
<1>9. ASSUME NEW q \in Mote, q \in {r, done, Signalled(done, i)}
      PROVE  RefInv(q, net) /\ (\A s \in Stream : ConnAt(q, s) = ConnAt(m, s)) /\ q.sent = m.sent
  <2>1. /\ q.c = m.c /\ q.routing = m.routing /\ q.rbuf = m.rbuf /\ q.readbusy = m.readbusy
        /\ q.rlist = m.rlist /\ q.sent = m.sent /\ q.opened = m.opened
        /\ q.closed = m.closed /\ q.aired = m.aired /\ q.posted = m.posted
        /\ q.pending = m.pending
        /\ q.log = IF ok THEN LogWritten(m.log) ELSE [m.log EXCEPT !.op = NoOp]
        /\ q.writebusy => m.writebusy /\ q.wbuf = m.wbuf
    <3>1. /\ r.c = m.c /\ r.routing = m.routing /\ r.rbuf = m.rbuf /\ r.readbusy = m.readbusy
          /\ r.rlist = m.rlist /\ r.sent = m.sent /\ r.opened = m.opened
          /\ r.closed = m.closed /\ r.aired = m.aired /\ r.posted = m.posted
          /\ r.pending = m.pending /\ r.writebusy = m.writebusy /\ r.wbuf = m.wbuf
          /\ r.log = IF ok THEN LogWritten(m.log) ELSE [m.log EXCEPT !.op = NoOp]
      BY <1>1 DEF Typed, Mote, RecType
    <3>2. /\ done.c = r.c /\ done.routing = r.routing /\ done.rbuf = r.rbuf
          /\ done.readbusy = r.readbusy /\ done.log = r.log
          /\ done.rlist = r.rlist /\ done.sent = r.sent /\ done.opened = r.opened
          /\ done.closed = r.closed /\ done.aired = r.aired /\ done.posted = r.posted
          /\ done.pending = r.pending /\ done.writebusy = FALSE
      BY <1>3, <1>4 DEF Mote, RecType
    <3>3. CASE q = r
      BY <3>1, <3>3
    <3>4. CASE q = done
      BY <3>1, <3>2, <3>4
    <3>5. CASE q = Signalled(done, i)
      <4>1. /\ q.c = done.c /\ q.routing = done.routing /\ q.rbuf = done.rbuf
            /\ q.readbusy = done.readbusy /\ q.log = done.log
            /\ q.rlist = done.rlist /\ q.sent = done.sent /\ q.opened = done.opened
            /\ q.closed = done.closed /\ q.aired = done.aired /\ q.posted = done.posted
            /\ q.pending = done.pending /\ q.writebusy = done.writebusy
        BY <1>4, <3>5 DEF Signalled, Mote, RecType
      <4> QED BY <3>1, <3>2, <4>1
    <3> QED BY <1>9, <3>3, <3>4, <3>5
  <2>2. q.log.vol \in {m.log.vol,
                       [m.log.vol EXCEPT ![m.log.op.vol][m.log.op.idx] = m.log.op.pkt]}
    <3>1. [m.log EXCEPT !.op = NoOp].vol = m.log.vol
      BY <1>2 DEF LogType
    <3> QED BY <1>2, <2>1, <3>1, LogWrittenIs
  <2>3. q.log.op.kind \in {"none", "erase"}
    <3>1. [m.log EXCEPT !.op = NoOp].op.kind = "none"
      BY <1>2, ZeroTyped DEF LogType
    <3> QED BY <1>2, <2>1, <3>1
  <2>4. Held(q)
    BY <1>8, <2>1, <2>2, <2>3, WrittenHeld DEF RefInv, Typed
  <2> QED BY <1>8, <2>1, <2>3, <2>4, FlashRef DEF Typed, Reading
<1>10. ASSUME NEW q \in Mote, q \in {r, done, Signalled(done, i)},
              NEW t \in {"writeLogger", "readLogger"}, m' \in {q, Post(q, t)}
       PROVE  RefInv(m', net') /\ Steps
  <2>1. /\ RefInv(m', net) /\ m'.sent = m.sent
        /\ \A s \in Stream : ConnAt(m', s) = ConnAt(m, s)
    BY <1>9, <1>10, PostRef DEF TaskName
  <2> QED BY <1>8, <2>1, Unseen
<1> QED BY <1>3, <1>4, <1>6, <1>7, <1>10, SignalledTyped

LEMMA EraseDoneRef ==
  ASSUME Typed, RefInv(m, net), eraseDone
  PROVE  RefInv(m', net') /\ Steps
<1>1. /\ m.log.op.kind = "erase" /\ UNCHANGED net /\ m'.log = LogEraseDone(m.log)
      /\ m'.c = m.c /\ m'.routing = m.routing /\ m'.rbuf = m.rbuf
      /\ m'.readbusy = m.readbusy /\ m'.rlist = m.rlist /\ m'.sent = m.sent
      /\ m'.opened = m.opened /\ m'.closed = m.closed /\ m'.aired = m.aired
      /\ m'.posted = m.posted /\ m'.pending = m.pending /\ m'.wbuf = m.wbuf
      /\ m'.writebusy = m.writebusy
  BY DEF eraseDone, Typed, Mote, RecType
<1>2. m \in Mote /\ m' \in Mote /\ m.log \in LogType
  BY EraseDoneTyped DEF Typed, Mote, RecType
<1>3. /\ LogEraseDone(m.log).op.kind \in {"none", "erase"}
      /\ \A v \in Volumes : \A x \in Indexes :
           LogEraseDone(m.log).vol[v][x] \in {m.log.vol[v][x], Erased}
  BY <1>2, LogEraseDoneTyped, LogEraseDoneIs
<1>4. Held(m')
  <2>1. \A i \in Conns : StillConn(m, m', i)
    BY <1>1 DEF StillConn
  <2>2. ~Reading(m') /\ m'.log.op.kind \notin {"write", "read"}
    BY <1>1, <1>3 DEF Reading
  <2>3. \A s \in Stream : m.sent[s] <= m'.sent[s]
    BY <1>1, <1>2, Consts DEF Mote, RecType
  <2> QED BY <1>1, <1>2, <1>3, <2>1, <2>2, <2>3, SameHeld DEF RefInv
<1>5. ~Reading(m) /\ ~Reading(m')
  BY <1>1, <1>3 DEF Reading
<1>6. RefInv(m', net) /\ \A s \in Stream : ConnAt(m', s) = ConnAt(m, s)
  BY <1>1, <1>2, <1>4, <1>5, FlashRef
<1> QED BY <1>1, <1>6, Unseen

-----------------------------------------------------------------------------
(* The retry timer, the master and the channel.                            *)

Finds(q) == {j \in DOMAIN q : q[j] = "retransmitDataPacket"}
AtMostOne(q) == \A j, k \in Finds(q) : j = k

LEMMA Joined ==
  ASSUME NEW q \in Seq(TaskName), NEW w \in Seq(TaskName)
  PROVE  /\ q \o w \in Seq(TaskName)
         /\ Finds(q) = {} /\ Finds(w) = {} => Finds(q \o w) = {}
         /\ AtMostOne(q) /\ Finds(w) = {} => AtMostOne(q \o w)
         /\ Finds(q) = {} /\ AtMostOne(w) => AtMostOne(q \o w)
<1>1. PICK n \in Nat, k \in Nat : /\ n = Len(q) /\ DOMAIN q = 1 .. n
                                 /\ k = Len(w) /\ DOMAIN w = 1 .. k
  BY LenProperties
<1>2. PICK a : a = q \o w
  OBVIOUS
<1>3. /\ DOMAIN a = 1 .. (n + k) /\ a \in Seq(TaskName)
      /\ \A j \in 1 .. (n + k) : a[j] = IF j <= n THEN q[j] ELSE w[j - n]
  <2>1. Len(a) = n + k /\ a \in Seq(TaskName)
    BY <1>1, <1>2, ConcatProperties
  <2>2. \A j \in 1 .. (n + k) : a[j] = IF j <= n THEN q[j] ELSE w[j - n]
    BY <1>1, <1>2, ConcatProperties
  <2> QED BY <2>1, <2>2, LenProperties
<1>4. \A j \in Finds(a) : /\ j \in 1 .. (n + k)
                          /\ (j <= n /\ j \in Finds(q)) \/ (j > n /\ j - n \in Finds(w))
  BY <1>1, <1>3 DEF Finds
<1>5. Finds(q) = {} /\ Finds(w) = {} => Finds(a) = {}
  BY <1>4
<1>6. ASSUME AtMostOne(q), Finds(w) = {}
      PROVE  AtMostOne(a)
  BY <1>4, <1>6 DEF AtMostOne
<1>7. ASSUME Finds(q) = {}, AtMostOne(w)
      PROVE  AtMostOne(a)
  <2> SUFFICES ASSUME NEW j \in Finds(a), NEW h \in Finds(a)
               PROVE  j = h
    BY DEF AtMostOne
  <2>1. j - n = h - n
    BY <1>4, <1>7 DEF AtMostOne
  <2> QED BY <1>4, <2>1
<1> QED BY <1>2, <1>3, <1>5, <1>6, <1>7

LEMMA RetryRef ==
  ASSUME Typed, RefInv(m, net), RetryTimer_fired
  PROVE  RefInv(m', net') /\ Steps
<1>1. ASSUME NEW flag, NEW task \in TaskName
      PROVE  /\ Again(flag, task) \in Seq(TaskName) /\ AtMostOne(Again(flag, task))
             /\ task # "retransmitDataPacket" \/ flag \notin m.pending =>
                  Finds(Again(flag, task)) = {}
  BY DEF Again, AtMostOne, Finds
<1>2. PICK a \in Seq(TaskName), b \in Seq(TaskName), c \in Seq(TaskName),
           d \in Seq(TaskName), e \in Seq(TaskName) :
        /\ a = Again("WRITE_LOGGER", "writeLogger") /\ b = Again("READ_LOGGER", "readLogger")
        /\ c = Again("RETRANSMIT", "retransmitDataPacket")
        /\ d = Again("SYN", "send_SYN") /\ e = Again("FIN", "send_FIN")
        /\ Finds(a) = {} /\ Finds(b) = {} /\ Finds(d) = {} /\ Finds(e) = {} /\ AtMostOne(c)
        /\ "RETRANSMIT" \notin m.pending => Finds(c) = {}
  BY <1>1, SMTT(30) DEF TaskName
<1>3. PICK w \in Seq(TaskName) :
        /\ w = a \o b \o c \o d \o e /\ AtMostOne(w)
        /\ "RETRANSMIT" \notin m.pending => Finds(w) = {}
  <2>1. PICK ab \in Seq(TaskName) : ab = a \o b /\ Finds(ab) = {}
    BY <1>2, Joined
  <2>2. PICK abc \in Seq(TaskName) : /\ abc = ab \o c /\ AtMostOne(abc)
                                     /\ "RETRANSMIT" \notin m.pending => Finds(abc) = {}
    BY <1>2, <2>1, Joined
  <2>3. PICK abcd \in Seq(TaskName) : /\ abcd = abc \o d /\ AtMostOne(abcd)
                                      /\ "RETRANSMIT" \notin m.pending => Finds(abcd) = {}
    BY <1>2, <2>2, Joined
  <2>4. PICK abcde \in Seq(TaskName) : /\ abcde = abcd \o e /\ AtMostOne(abcde)
                                       /\ "RETRANSMIT" \notin m.pending => Finds(abcde) = {}
    BY <1>2, <2>3, Joined
  <2> QED BY <2>1, <2>2, <2>3, <2>4
<1>4. m' = [m EXCEPT !.pending = {}, !.posted = @ \o w] /\ UNCHANGED net
  BY <1>2, <1>3 DEF RetryTimer_fired
<1>5. /\ m'.c = m.c /\ m'.routing = m.routing /\ m'.wbuf = m.wbuf
      /\ m'.writebusy = m.writebusy /\ m'.rbuf = m.rbuf /\ m'.readbusy = m.readbusy
      /\ m'.rlist = m.rlist /\ m'.log = m.log /\ m'.sent = m.sent
      /\ m'.opened = m.opened /\ m'.closed = m.closed /\ m'.aired = m.aired
      /\ m'.posted = m.posted \o w /\ m'.pending = {} /\ m.posted \in Seq(TaskName)
  BY <1>4 DEF Typed, Mote, RecType
<1>6. Tokens(m')
  <2>1. Retransmits(m) = Finds(m.posted) /\ Retransmits(m') = Finds(m.posted \o w)
    BY <1>5 DEF Retransmits, Finds
  <2>2. Tokens(m) /\ (Reading(m') <=> Reading(m)) /\ (InHand(m') <=> InHand(m))
    BY <1>5 DEF RefInv, Reading, InHand
  <2>3. AtMostOne(m.posted)
    BY <2>1, <2>2 DEF Tokens, AtMostOne
  <2>4. AtMostOne(m.posted \o w)
    <3>1. CASE "RETRANSMIT" \in m.pending
      BY <1>3, <1>5, <2>1, <2>2, <3>1, Joined DEF Tokens
    <3>2. CASE "RETRANSMIT" \notin m.pending
      BY <1>3, <1>5, <2>3, <3>2, Joined
    <3> QED BY <3>1, <3>2
  <2>5. ~InHand(m) => Finds(m.posted \o w) = {}
    BY <1>3, <1>5, <2>1, <2>2, Joined DEF Tokens
  <2> QED BY <1>5, <2>1, <2>2, <2>4, <2>5 DEF Tokens, AtMostOne
<1>7. Names(m') /\ Counted(m') /\ Asks(m', net)
  BY <1>5, SameCount, SMTT(30) DEF RefInv
<1>8. Held(m') /\ ReadsAsked(m')
  BY <1>5, ZenonT(30) DEF RefInv, Held, ReadsAsked, WasSent, LiesAt, Reading, BeingRead
<1>9. \A s \in Stream : ConnAt(m', s) = ConnAt(m, s)
  BY <1>5, SameConns, ZenonT(30) DEF BufferOf
<1> QED BY <1>4, <1>5, <1>6, <1>7, <1>8, <1>9, Unseen DEF RefInv

LEMMA MasterRef ==
  ASSUME Typed, RefInv(m, net), MasterAnswers, Apart(m)
  PROVE  RefInv(m', net') /\ Steps
<1>0. PICK s \in Stream : \E q \in Answers(s) : net' = Sending(net, q)
  BY DEF MasterAnswers
<1>1. PICK q \in Answers(s) : net' = Sending(net, q) /\ m' = m
  BY <1>0 DEF MasterAnswers
<1>2. q.flag \in MoteFlag /\ (q.flag = "NACK" => q.s = s /\ MayMiss(m, s))
  BY <1>1 DEF Answers, Pkt, Nack, MoteFlag, MayMiss
<1>3. net' \subseteq net \cup {q}
  BY <1>1 DEF Sending
<1>4. Asks(m, net')
  BY <1>2, <1>3 DEF RefInv, Asks
<1>5. Elsewhere
  BY <1>1, <1>2, <1>3, AsElsewhere
<1> QED BY <1>1, <1>4, <1>5 DEF RefInv, Steps

LEMMA LosesRef ==
  ASSUME Typed, RefInv(m, net), Loses
  PROVE  RefInv(m', net') /\ Steps
<1>1. m' = m /\ net' \subseteq net
  BY DEF Loses, Lose
<1>2. Asks(m, net')
  BY <1>1 DEF RefInv, Asks
<1>3. Elsewhere
  BY <1>1, AsElsewhere
<1> QED BY <1>1, <1>2, <1>3 DEF RefInv, Steps

-----------------------------------------------------------------------------
(* Commands.                                                               *)

(* The streams whose connection is not touched.                            *)
LEMMA OthersStay ==
  ASSUME NEW r, NEW q, NEW i \in Conns, NEW t \in Stream, r.c[i].s # t, q.c[i].s # t,
         \A j \in Conns \ {i} : q.c[j] = r.c[j] /\ AskedOf(q, j) = AskedOf(r, j),
         t \in q.opened <=> t \in r.opened, t \in q.closed <=> t \in r.closed,
         \A j \in Conns : r.c[j].s = t => SendingOf(q, t) = SendingOf(r, t)
                                          /\ BufferOf(q, t) = BufferOf(r, t)
  PROVE  ConnAt(q, t) = ConnAt(r, t)
<1>1. \A j \in Conns : r.c[j].s = t <=> q.c[j].s = t
  OBVIOUS
<1>2. Stays(r, q, t)
  BY <1>1 DEF Stays
<1> QED BY <1>2, StaysSame

LEMMA OpenRef ==
  ASSUME Typed, Typed', RefInv(m, net), OweInv(m, net), OweInv(m', net'), net = {},
         NEW s \in Stream, ConnectionSend_open(s)
  PROVE  RefInv(m', net') /\ Steps
<1> DEFINE idle == {i \in Conns : m.c[i].state = "IDLE"}
<1>1. CASE idle = {}
  <2>1. m' = Post(m, "send_SYN") /\ UNCHANGED net
    BY <1>1 DEF ConnectionSend_open
  <2> QED BY <2>1, PostRef, Unseen DEF Typed, TaskName
<1>2. CASE idle # {}
  <2>1. PICK i \in Conns : i = Min(idle) /\ m.c[i].state = "IDLE"
    BY <1>2, LeastConn
  <2>2. /\ s \notin m.opened /\ UNCHANGED net
        /\ m' = Post([m EXCEPT !.c[i] = [@ EXCEPT !.s = s, !.state = "SYN_SEND"],
                                !.opened = @ \cup {s}], "send_SYN")
    BY <1>2, <2>1 DEF ConnectionSend_open
  <2>3. /\ m'.c[i] = [m.c[i] EXCEPT !.s = s, !.state = "SYN_SEND"]
        /\ \A j \in Conns \ {i} : m'.c[j] = m.c[j]
        /\ m'.opened = m.opened \cup {s} /\ m'.posted = Append(m.posted, "send_SYN")
        /\ m'.routing = m.routing /\ m'.wbuf = m.wbuf /\ m'.writebusy = m.writebusy
        /\ m'.rbuf = m.rbuf /\ m'.readbusy = m.readbusy /\ m'.rlist = m.rlist
        /\ m'.pending = m.pending /\ m'.log = m.log /\ m'.sent = m.sent
        /\ m'.closed = m.closed /\ m'.aired = m.aired
    <3>1. PICK c : c = [m.c[i] EXCEPT !.s = s, !.state = "SYN_SEND"]
      OBVIOUS
    <3>2. PICK r : r = [m EXCEPT !.c[i] = c, !.opened = @ \cup {s}]
      OBVIOUS
    <3>3. m' = Post(r, "send_SYN")
      BY <2>2, <3>1, <3>2
    <3>4. /\ r.c[i] = c /\ \A j \in Conns \ {i} : r.c[j] = m.c[j]
          /\ r.opened = m.opened \cup {s} /\ r.posted = m.posted
          /\ r.routing = m.routing /\ r.wbuf = m.wbuf /\ r.writebusy = m.writebusy
          /\ r.rbuf = m.rbuf /\ r.readbusy = m.readbusy /\ r.rlist = m.rlist
          /\ r.pending = m.pending /\ r.log = m.log /\ r.sent = m.sent
          /\ r.closed = m.closed /\ r.aired = m.aired
          /\ "posted" \in DOMAIN r
      BY <3>2 DEF Typed, Mote, RecType
    <3>5. /\ m'.c = r.c /\ m'.opened = r.opened /\ m'.posted = Append(r.posted, "send_SYN")
          /\ m'.routing = r.routing /\ m'.wbuf = r.wbuf /\ m'.writebusy = r.writebusy
          /\ m'.rbuf = r.rbuf /\ m'.readbusy = r.readbusy /\ m'.rlist = r.rlist
          /\ m'.pending = r.pending /\ m'.log = r.log /\ m'.sent = r.sent
          /\ m'.closed = r.closed /\ m'.aired = r.aired
      BY <3>3, <3>4 DEF Post
    <3> QED BY <3>1, <3>4, <3>5
  <2>4. /\ m \in Mote /\ m' \in Mote /\ m.c[i].s = None /\ m.c[i] = IdleConn
        /\ Names(m) /\ Counted(m) /\ Asks(m, net) /\ Tokens(m) /\ Held(m) /\ ReadsAsked(m)
    BY <2>1 DEF Typed, Mote, RefInv, Names
  <2>5. m'.c[i] = [s |-> s, state |-> "SYN_SEND", lastSent |-> 0, finCnt |-> 0]
    <3>1. m'.c[i] = [IdleConn EXCEPT !.s = s, !.state = "SYN_SEND"]
      BY <2>3, <2>4
    <3> QED BY ONLY <3>1 DEF IdleConn
  <2>6. /\ s # None /\ m.sent[s] = 0 /\ <<s, "FIN">> \notin m.aired /\ m.routing.s # s
        /\ s \notin m.closed /\ \A j \in Conns : m.c[j].s # s
    <3>1. Apart(m) /\ FinAired(m, net)
      BY DEF OweInv
    <3>2. \A j \in Conns : m.c[j].s # s
      BY <2>2, <3>1, Consts DEF Apart
    <3>3. <<s, "FIN">> \notin m.aired
      BY <3>1, <3>2 DEF FinAired, HasConn
    <3>4. m.sent[s] \in Nat
      BY <2>4, Consts DEF Mote, RecType
    <3> QED BY <2>2, <2>4, <3>2, <3>3, <3>4, Consts DEF Names
  <2>7. Names(m')
    BY <2>3, <2>4, <2>5, <2>6 DEF Names
  <2>8. Counted(m')
    <3>1. SynFirst(m')
      BY <2>3, <2>4 DEF Counted, SynFirst
    <3>2. CountedAt(m', i, s)
      BY <2>3, <2>5, <2>6 DEF CountedAt
    <3>3. ASSUME NEW j \in Conns, j # i, NEW t \in Stream, m'.c[j].s = t
          PROVE  CountedAt(m', j, t)
      BY <2>3, <2>4, <3>3 DEF Counted, CountedAt
    <3> QED BY <2>5, <3>1, <3>2, <3>3 DEF Counted
  <2>9. \A e \in Range(m.rlist) : e \in Conns \X Seqno /\ e[1] # i
    <3>1. Range(m.rlist) \subseteq Conns \X Seqno
      BY <2>4, TypedImplies DEF TypeOK
    <3> QED BY <2>4, <3>1 DEF Asks
  <2>10. Asks(m', net')
    BY <2>2, <2>3, <2>4, <2>9 DEF Asks, MayMiss
  <2>11. Tokens(m')
    <3>1. Retransmits(m') = Retransmits(m)
      BY <2>3, <2>4, PostKeeps DEF TaskName
    <3> QED BY <2>3, <2>4, <3>1, TokensKept DEF InHand, Reading, Tokens
  <2>12. Held(m') /\ ReadsAsked(m')
    <3>1. \A j \in Conns : StillConn(m, m', j)
      BY <2>2, <2>3, <2>5 DEF StillConn
    <3>2. \A t \in Stream : m.sent[t] <= m'.sent[t]
      BY <2>3, <2>4, Consts DEF Mote, RecType
    <3>3. \A v \in Volumes : \A x \in Indexes : m'.log.vol[v][x] \in {m.log.vol[v][x], Erased}
      BY <2>3
    <3>4. m.opened \subseteq m'.opened
      BY <2>3
    <3>5. m'.writebusy => m.writebusy /\ m'.wbuf = m.wbuf
      BY <2>3
    <3> QED BY <2>3, <2>4, <3>1, <3>2, <3>3, <3>4, <3>5, SameHeld
  <2>13. PICK a : a = Absent(m, s) /\ a = ConnAt(m, s) /\ a.state = "UNOPENED"
    BY <2>2, <2>6, ConnGone DEF Absent
  <2>14. ConnAt(m', s) = [a EXCEPT !.state = "SYN_SEND"]
    <3>1. ConnAt(m', s) = Here(m', i, s)
      BY <2>5, ConnHere DEF OweInv
    <3>2. AskedOf(m', i) = {}
      BY <2>3, <2>9 DEF AskedOf
    <3>3. BufferOf(m', s) = {}
      BY <2>2, <2>3, <2>4 DEF BufferOf, Held, WasSent
    <3>4. SendingOf(m', s) = "no"
      BY <2>3, <2>6 DEF SendingOf
    <3>5. (s \in m'.closed) = FALSE
      BY <2>3, <2>6
    <3>6. Here(m', i, s) = [state |-> "SYN_SEND", closed |-> FALSE, sending |-> "no",
                            lastSent |-> 0, finCnt |-> 0, recover |-> {} \cup {}]
      <4>1. m'.c[i].state = "SYN_SEND" /\ m'.c[i].lastSent = 0 /\ m'.c[i].finCnt = 0
        BY <2>5
      <4> QED BY <3>2, <3>3, <3>4, <3>5, <4>1, Zenon DEF Here
    <3>7. a = [state |-> "UNOPENED", closed |-> FALSE, sending |-> "no",
               lastSent |-> 0, finCnt |-> 0, recover |-> {}]
      BY <2>2, <2>13, Zenon DEF Absent
    <3>8. {} \cup {} = {}
      OBVIOUS
    <3>9. [a EXCEPT !.state = "SYN_SEND"]
            = [state |-> "SYN_SEND", closed |-> FALSE, sending |-> "no",
               lastSent |-> 0, finCnt |-> 0, recover |-> {}]
      <4>1. PICK no : no = FALSE
        OBVIOUS
      <4>2. a = [state |-> "UNOPENED", closed |-> no, sending |-> "no",
                 lastSent |-> 0, finCnt |-> 0, recover |-> {}]
        BY <3>7, <4>1
      <4>3. [a EXCEPT !.state = "SYN_SEND"]
              = [state |-> "SYN_SEND", closed |-> no, sending |-> "no",
                 lastSent |-> 0, finCnt |-> 0, recover |-> {}]
        BY ONLY <4>2
      <4> QED BY ONLY <4>1, <4>3
    <3> QED BY ONLY <3>1, <3>6, <3>8, <3>9
  <2>15. \A t \in Stream : t # s => ConnAt(m', t) = ConnAt(m, t)
    <3> TAKE t \in Stream
    <3> HAVE t # s
    <3>1. m.c[i].s # t /\ m'.c[i].s # t
      BY <2>4, <2>5, Consts
    <3>2. \A j \in Conns : AskedOf(m', j) = AskedOf(m, j)
      BY <2>3 DEF AskedOf
    <3>3. SendingOf(m', t) = SendingOf(m, t) /\ BufferOf(m', t) = BufferOf(m, t)
      BY <2>3 DEF SendingOf, BufferOf
    <3>4. (t \in m'.opened <=> t \in m.opened) /\ (t \in m'.closed <=> t \in m.closed)
      BY <2>3
    <3>5. \A j \in Conns \ {i} : m'.c[j] = m.c[j] /\ AskedOf(m', j) = AskedOf(m, j)
      BY <2>3, <3>2
    <3> QED BY ONLY <3>1, <3>3, <3>4, <3>5, OthersStay, i \in Conns, t \in Stream
  <2>16. Turns(s, [a EXCEPT !.state = "SYN_SEND"])
    BY <2>14, <2>15 DEF Turns
  <2>17. Sender!SenderNext
    BY <2>2, <2>3, <2>13, <2>16, AsOpen
  <2> QED BY <2>7, <2>8, <2>10, <2>11, <2>12, <2>17 DEF RefInv, Steps
<1> QED BY <1>1, <1>2

LEMMA CountedBut ==
  ASSUME NEW r, NEW q, NEW i \in Conns, Counted(r), Apart(q), SynFirst(q),
         \A j \in Conns \ {i} : q.c[j] = r.c[j],
         \A t \in Stream : q.c[i].s # t =>
           q.sent[t] = r.sent[t] /\ (<<t, "FIN">> \in q.aired => <<t, "FIN">> \in r.aired),
         \A t \in Stream : q.c[i].s = t => CountedAt(q, i, t)
  PROVE  Counted(q)
<1> SUFFICES ASSUME NEW j \in Conns, NEW t \in Stream, q.c[j].s = t, j # i
             PROVE  CountedAt(q, j, t)
  BY DEF Counted
<1>1. q.c[i].s # t /\ q.c[j] = r.c[j]
  BY Consts DEF Apart
<1> QED BY <1>1 DEF Counted, CountedAt

(* A step that leaves the log and the buffers.                             *)
LEMMA RestKept ==
  ASSUME NEW r \in Mote, NEW q \in Mote, Tokens(r), Held(r), ReadsAsked(r),
         q.rbuf = r.rbuf, q.readbusy = r.readbusy, q.log = r.log, q.rlist = r.rlist,
         q.wbuf = r.wbuf, q.writebusy = r.writebusy, r.opened \subseteq q.opened,
         \A s \in Stream : r.sent[s] <= q.sent[s], \A i \in Conns : StillConn(r, q, i),
         "RETRANSMIT" \in q.pending <=> "RETRANSMIT" \in r.pending,
         Retransmits(q) = Retransmits(r)
  PROVE  Tokens(q) /\ Held(q) /\ ReadsAsked(q)
<1>1. Tokens(q)
  BY TokensKept DEF InHand, Reading, Tokens
<1>2. \A v \in Volumes : \A x \in Indexes : q.log.vol[v][x] \in {r.log.vol[v][x], Erased}
  OBVIOUS
<1>3. q.writebusy => r.writebusy /\ q.wbuf = r.wbuf
  OBVIOUS
<1> QED BY <1>1, <1>2, <1>3, SameHeld

LEMMA CidIs ==
  ASSUME Settled, NEW r \in Mote, NEW s \in Stream, NEW i \in WithCid(r, <<s, 0>>)
  PROVE  i \in Conns /\ r.c[i].s = s
<1>1. i \in Conns /\ r.c[i].s # None /\ Cid[r.c[i].s] = Cid[s]
  BY Consts DEF WithCid
<1>2. r.c[i].s \in Stream
  BY <1>1 DEF Mote, RecType, ConnType
<1> QED BY <1>1, <1>2 DEF Settled

LEMMA SendRef ==
  ASSUME Settled, Roomy, Typed, Typed', RefInv(m, net), OweInv(m, net), OweInv(m', net'),
         net = {}, NEW s \in Stream, ConnectionSend_send(s)
  PROVE  RefInv(m', net') /\ Steps
<1>1. PICK i \in WithCid(m, <<s, 0>>) :
        LET n == SeqNext(m.c[i].lastSent)
            q == Pkt(m.c[i].s, "DATA", n)
        IN  /\ m.c[i].state = "ACTIVE" /\ m.routing = NoPkt /\ ~m.writebusy
            /\ m' = Post([m EXCEPT !.c[i].lastSent = n, !.routing = q,
                            !.wbuf = <<s, n>>, !.writebusy = TRUE,
                            !.sent[s] = @ + 1, !.owed = @ \cup {s}], "writeLogger")
            /\ net' = Sending(net, q)
  BY DEF ConnectionSend_send
<1>2. /\ s \in m.opened \ m.closed /\ m.sent[s] < Sends[s]
      /\ i \in Conns /\ m.c[i].s = s /\ m \in Mote /\ m' \in Mote
  BY CidIs DEF ConnectionSend_send, Typed
<1>3. PICK n, q : n = SeqNext(m.c[i].lastSent) /\ q = Pkt(s, "DATA", n)
  OBVIOUS
<1>4. PICK w : w = [m EXCEPT !.c[i].lastSent = n, !.routing = q, !.wbuf = <<s, n>>,
                             !.writebusy = TRUE, !.sent[s] = @ + 1, !.owed = @ \cup {s}]
  OBVIOUS
<1>5. m' = Post(w, "writeLogger") /\ net' = Sending(net, q)
  BY <1>1, <1>2, <1>3, <1>4
<1>6. /\ w.c[i] = [m.c[i] EXCEPT !.lastSent = n] /\ \A j \in Conns \ {i} : w.c[j] = m.c[j]
      /\ w.opened = m.opened /\ w.posted = m.posted /\ w.routing = q
      /\ w.wbuf = <<s, n>> /\ w.writebusy = TRUE /\ w.rbuf = m.rbuf
      /\ w.readbusy = m.readbusy /\ w.rlist = m.rlist /\ w.pending = m.pending
      /\ w.log = m.log /\ w.sent = [m.sent EXCEPT ![s] = @ + 1]
      /\ w.closed = m.closed /\ w.aired = m.aired /\ "posted" \in DOMAIN w
  BY <1>2, <1>4, ZenonT(30) DEF Mote, RecType
<1>c. m'.c[i] = [m.c[i] EXCEPT !.lastSent = n] /\ \A j \in Conns \ {i} : m'.c[j] = m.c[j]
  BY <1>5, <1>6 DEF Post
<1>s. m'.sent = [m.sent EXCEPT ![s] = @ + 1] /\ m'.posted = Append(m.posted, "writeLogger")
  BY <1>5, <1>6 DEF Post
<1>r. m'.routing = q /\ m'.wbuf = <<s, n>> /\ m'.writebusy = TRUE
  BY <1>5, <1>6 DEF Post
<1>7. /\ m'.opened = m.opened /\ m'.closed = m.closed /\ m'.aired = m.aired
      /\ m'.rbuf = m.rbuf /\ m'.readbusy = m.readbusy /\ m'.rlist = m.rlist
      /\ m'.pending = m.pending /\ m'.log = m.log
  BY <1>5, <1>6 DEF Post
<1>8. /\ Names(m) /\ Counted(m) /\ Asks(m, net) /\ Tokens(m) /\ Held(m) /\ ReadsAsked(m)
      /\ q.flag = "DATA" /\ q.s = s /\ NoPkt.flag = "none" /\ NoPkt.s = None
  BY <1>3 DEF RefInv, Pkt, NoPkt
<1>9. /\ m.c[i].lastSent = m.sent[s] /\ m.sent[s] \in Nat /\ m.sent[s] < MaxData
      /\ n = m.sent[s] + 1 /\ m'.sent[s] = n
      /\ m'.c[i].s = s /\ m'.c[i].state = "ACTIVE" /\ m'.c[i].lastSent = n
      /\ m'.c[i].finCnt = m.c[i].finCnt
  <2>1. m.c[i].lastSent = m.sent[s]
    BY <1>1, <1>2, <1>8 DEF Counted, CountedAt
  <2>2. m.sent[s] \in Nat /\ m.sent[s] < MaxData /\ m.sent \in [Stream -> 0 .. MaxData]
    <3>1. m.sent \in [Stream -> 0 .. MaxData] /\ Sends[s] \in 0 .. MaxData /\ MaxData \in Nat
      BY <1>2, Consts DEF Mote, RecType
    <3> QED BY <1>2, <3>1
  <2>3. n = m.sent[s] + 1
    BY <1>3, <2>1, <2>2, Fits, Consts DEF SeqNext
  <2>4. m.c[i] \in ConnType
    BY <1>2, SMTT(30) DEF Mote, RecType
  <2>5. m'.c[i].s = s /\ m'.c[i].state = "ACTIVE" /\ m'.c[i].lastSent = n
        /\ m'.c[i].finCnt = m.c[i].finCnt
    BY <1>1, <1>2, <1>c, <2>4 DEF ConnType
  <2>6. m'.sent[s] = m.sent[s] + 1
    BY <1>s, <2>2
  <2> QED BY <2>1, <2>2, <2>3, <2>5, <2>6
<1>o. \A j \in Conns : m'.c[j].s = m.c[j].s
  BY <1>2, <1>c, <1>9
<1>10. \A t \in Stream : m.sent[t] <= m'.sent[t]
  BY <1>2, <1>s, <1>9, Consts, SMTT(30) DEF Mote, RecType
<1>11. \A t \in Stream : t # s => m'.sent[t] = m.sent[t]
  BY <1>2, <1>s DEF Mote, RecType
<1>12. Names(m')
  <2>1. m'.closed \subseteq m'.opened /\ m'.routing.s \in m'.opened
    BY <1>2, <1>7, <1>r, <1>8 DEF Names
  <2>2. \A t \in Stream : m'.sent[t] > 0 => t \in m'.opened
    BY <1>2, <1>7, <1>8, <1>11 DEF Names
  <2>3. \A j \in Conns : m'.c[j].s = None => m'.c[j] = IdleConn
    BY <1>2, <1>c, <1>8, <1>o, Consts DEF Names
  <2> QED BY <2>1, <2>2, <2>3 DEF Names
<1>13. Counted(m')
  <2>1. SynFirst(m')
    BY <1>r, <1>8 DEF SynFirst
  <2>2. CountedAt(m', i, s)
    BY <1>9 DEF CountedAt
  <2>3. \A t \in Stream : m'.c[i].s = t => CountedAt(m', i, t)
    BY <1>9, <2>2
  <2>4. \A t \in Stream : m'.c[i].s # t =>
          m'.sent[t] = m.sent[t] /\ (<<t, "FIN">> \in m'.aired => <<t, "FIN">> \in m.aired)
    BY <1>7, <1>9, <1>11
  <2>5. Apart(m')
    BY DEF OweInv
  <2> QED BY ONLY <1>2, <1>c, <1>8, <2>1, <2>3, <2>4, <2>5, CountedBut
<1>14. Asks(m', net')
  <2>2. \A t \in Stream : MayMiss(m, t) => MayMiss(m', t)
    <3>1. \A t \in Stream : m.sent[t] \in Int /\ m'.sent[t] \in Int
      BY <1>2, Consts DEF Mote, RecType
    <3> QED BY <1>7, <1>10, <3>1 DEF MayMiss
  <2>3. \A p \in net' : p.flag # "NACK"
    BY <1>5, <1>8 DEF Sending
  <2>4. \A e \in Range(m'.rlist) : \A t \in Stream \cup {None} :
          m'.c[e[1]].s = t => t # None /\ MayMiss(m', t)
    <3> TAKE e \in Range(m'.rlist)
    <3>1. e \in Range(m.rlist) /\ e[1] \in Conns
      BY <1>2, <1>7, TypedImplies DEF TypeOK
    <3> QED BY <1>8, <1>o, <2>2, <3>1 DEF Asks
  <2> QED BY <2>3, <2>4 DEF Asks
<1>15. Tokens(m')
  <2>1. Retransmits(m') = Retransmits(m)
    BY <1>2, <1>s, PostKeeps DEF TaskName
  <2> QED BY <1>7, <1>8, <2>1, TokensKept DEF InHand, Reading, Tokens
<1>16. Held(m') /\ ReadsAsked(m')
  <2>1. \A j \in Conns : StillConn(m, m', j)
    BY <1>o DEF StillConn
  <2>2. \A v \in Volumes : \A x \in Indexes : m'.log.vol[v][x] \in {m.log.vol[v][x], Erased}
    BY <1>7, SMTT(30)
  <2>3. m'.log.op.kind # "write"
    BY <1>1, <1>7, <1>8 DEF Held
  <2>4. WasSent(m', m'.wbuf)
    BY <1>2, <1>7, <1>r, <1>9, Consts DEF WasSent
  <2> QED BY <1>2, <1>7, <1>8, <1>10, <2>1, <2>2, <2>3, <2>4, SameHeld
<1>17. PICK cl, se, la, fi, re, a :
         /\ a = [state |-> "ACTIVE", closed |-> cl, sending |-> se, lastSent |-> la,
                 finCnt |-> fi, recover |-> re]
         /\ a = ConnAt(m, s) /\ cl = FALSE /\ se = "no" /\ la = m.c[i].lastSent
         /\ ConnAt(m', s) = [state |-> "ACTIVE", closed |-> cl, sending |-> se, lastSent |-> n,
                             finCnt |-> fi, recover |-> re]
  <2>1. ConnAt(m, s) = Here(m, i, s) /\ ConnAt(m', s) = Here(m', i, s)
    BY <1>2, <1>9, ConnHere DEF OweInv
  <2>2. SendingOf(m, s) = "no" /\ SendingOf(m', s) = "no"
    BY <1>1, <1>r, <1>8 DEF SendingOf
  <2>3. PICK re : re = AskedOf(m, i) \cup BufferOf(m, s)
                  /\ re = AskedOf(m', i) \cup BufferOf(m', s)
    BY <1>7 DEF AskedOf, BufferOf
  <2>4. (s \in m.closed) = FALSE /\ (s \in m'.closed) = FALSE
    BY <1>2, <1>7
  <2>5. PICK fi : fi = m.c[i].finCnt /\ fi = m'.c[i].finCnt
    BY <1>9
  <2>6. Here(m, i, s) = [state |-> "ACTIVE", closed |-> FALSE, sending |-> "no",
                         lastSent |-> m.c[i].lastSent, finCnt |-> fi, recover |-> re]
    <3>1. m.c[i].state = "ACTIVE"
      BY <1>1
    <3> QED BY ONLY <2>2, <2>3, <2>4, <2>5, <3>1, Zenon DEF Here
  <2>7. Here(m', i, s) = [state |-> "ACTIVE", closed |-> FALSE, sending |-> "no",
                          lastSent |-> n, finCnt |-> fi, recover |-> re]
    BY ONLY <1>9, <2>2, <2>3, <2>4, <2>5, Zenon DEF Here
  <2> QED BY <2>1, <2>6, <2>7
<1>18. Turns(s, [a EXCEPT !.lastSent = SeqNext(@)])
  <2>1. ConnAt(m', s) = [a EXCEPT !.lastSent = SeqNext(@)]
    <3>1. n = SeqNext(la)
      BY <1>3, <1>17
    <3>2. [a EXCEPT !.lastSent = SeqNext(@)]
            = [state |-> "ACTIVE", closed |-> cl, sending |-> se, lastSent |-> n,
               finCnt |-> fi, recover |-> re]
      <4>1. a = [state |-> "ACTIVE", closed |-> cl, sending |-> se, lastSent |-> la,
                 finCnt |-> fi, recover |-> re]
        BY <1>17
      <4> QED BY ONLY <3>1, <4>1
    <3> QED BY <1>17, <3>2
  <2>2. ASSUME NEW t \in Stream, t # s
        PROVE  ConnAt(m', t) = ConnAt(m, t)
    <3>1. m.c[i].s # t /\ m'.c[i].s # t
      BY <1>2, <1>9, <2>2
    <3>2. /\ SendingOf(m', t) = SendingOf(m, t) /\ BufferOf(m', t) = BufferOf(m, t)
          /\ (t \in m'.opened <=> t \in m.opened) /\ (t \in m'.closed <=> t \in m.closed)
      <4>1. SendingOf(m', t) = "no" /\ SendingOf(m, t) = "no"
        BY <1>1, <1>r, <1>8 DEF SendingOf
      <4> QED BY <1>7, <4>1 DEF BufferOf
    <3>3. \A j \in Conns \ {i} : m'.c[j] = m.c[j] /\ AskedOf(m', j) = AskedOf(m, j)
      BY <1>c, <1>7 DEF AskedOf
    <3> QED BY ONLY <1>2, <3>1, <3>2, <3>3, OthersStay, t \in Stream, SMTT(30)
  <2> QED BY <2>1, <2>2 DEF Turns
<1>19. Sender!SenderNext
  <2>1. a.state = "ACTIVE" /\ a.sending = "no" /\ ~a.closed /\ a.lastSent = m.c[i].lastSent
    <3>1. a = [state |-> "ACTIVE", closed |-> cl, sending |-> se, lastSent |-> la,
               finCnt |-> fi, recover |-> re]
      BY <1>17
    <3>2. a.state = "ACTIVE" /\ a.sending = se /\ a.closed = cl /\ a.lastSent = la
      BY ONLY <3>1
    <3> QED BY <1>17, <3>2
  <2>2. net' = Sending(net, Pkt(s, "DATA", SeqNext(a.lastSent)))
    BY <1>3, <1>5, <2>1
  <2>3. a = ConnAt(m, s) /\ m.sent[s] < MaxData /\ m'.sent = [m.sent EXCEPT ![s] = @ + 1]
    BY <1>s, <1>9, <1>17
  <2> QED BY <1>18, <2>1, <2>2, <2>3, AsSend
<1> QED BY <1>12, <1>13, <1>14, <1>15, <1>16, <1>19 DEF RefInv, Steps

LEMMA SentGrows ==
  ASSUME NEW r \in Mote, NEW q, q.sent = r.sent
  PROVE  \A t \in Stream : r.sent[t] <= q.sent[t]
<1>1. \A t \in Stream : r.sent[t] \in Int
  BY Consts DEF Mote, RecType
<1> QED BY <1>1

LEMMA LiveState ==
  ASSUME NEW r \in Mote, NEW i \in Conns, NEW s \in Stream, r.c[i].s = s
  PROVE  r.c[i].state \in States \ {"IDLE"} /\ r.c[i] \in ConnType
<1>1. r.c[i] \in ConnType /\ r.c[i].s # None
  BY Consts DEF Mote, RecType
<1> QED BY <1>1 DEF Mote, ConnType

(* What is asked of a connection that is still there.                      *)
LEMMA StillAsks ==
  ASSUME NEW r \in Mote, NEW q, NEW n, NEW k, Asks(r, n), k \subseteq n,
         \A j \in Conns : q.c[j].s = r.c[j].s, Range(q.rlist) \subseteq Range(r.rlist),
         \A t \in Stream \cup {None} : MayMiss(r, t) => MayMiss(q, t)
  PROVE  Asks(q, k)
<1>1. ASSUME NEW e \in Range(q.rlist), NEW t \in Stream \cup {None}, q.c[e[1]].s = t
      PROVE  t # None /\ MayMiss(q, t)
  <2>1. e \in Range(r.rlist) /\ e[1] \in Conns
    <3>1. r.rlist \in Seq(Conns \X Seqno)
      BY DEF Mote, RecType
    <3>2. \A j \in DOMAIN r.rlist : r.rlist[j] \in Conns \X Seqno
      BY <3>1, ElementOfSeq, LenProperties
    <3> QED BY <3>2 DEF Range
  <2> QED BY <1>1, <2>1 DEF Asks
<1>2. ASSUME NEW p \in k, p.flag = "NACK", NEW j \in Conns, q.c[j].s = p.s
      PROVE  MayMiss(q, p.s)
  <2>1. r.c[j].s \in Stream \cup {None} /\ r.c[j].s = p.s /\ MayMiss(r, p.s)
    BY <1>2 DEF Asks, Mote, RecType, ConnType
  <2> QED BY <2>1
<1> QED BY <1>1, <1>2 DEF Asks

LEMMA CloseRef ==
  ASSUME Settled, Typed, Typed', RefInv(m, net), OweInv(m, net), OweInv(m', net'),
         net = {}, NEW s \in Stream, ConnectionSend_close(s)
  PROVE  RefInv(m', net') /\ Steps
<1> DEFINE found == WithCid(m, <<s, 0>>)
<1>1. PICK gone : gone = [m EXCEPT !.closed = @ \cup {s}]
  OBVIOUS
<1>2. /\ s \in m.opened \ m.closed /\ UNCHANGED net /\ m \in Mote /\ m' \in Mote
      /\ m' = IF found = {} THEN gone
              ELSE Post([gone EXCEPT !.c[Min(found)].state = "FIN_SEND"], "send_FIN")
  BY <1>1 DEF ConnectionSend_close, Typed
<1>3. /\ gone.c = m.c /\ gone.opened = m.opened /\ gone.posted = m.posted
      /\ gone.routing = m.routing /\ gone.wbuf = m.wbuf /\ gone.writebusy = m.writebusy
      /\ gone.rbuf = m.rbuf /\ gone.readbusy = m.readbusy /\ gone.rlist = m.rlist
      /\ gone.pending = m.pending /\ gone.log = m.log /\ gone.sent = m.sent
      /\ gone.closed = m.closed \cup {s} /\ gone.aired = m.aired
      /\ "posted" \in DOMAIN gone /\ "c" \in DOMAIN gone
  BY <1>1, <1>2 DEF Mote, RecType
<1>4. Names(m) /\ Counted(m) /\ Asks(m, net) /\ Tokens(m) /\ Held(m) /\ ReadsAsked(m)
  BY DEF RefInv
<1>5. CASE found = {}
  <2>1. m' = gone
    BY <1>2, <1>5
  <2>2. \A j \in Conns : m.c[j].s # s
    BY <1>5, Consts DEF WithCid, Erased
  <2>3. Names(m')
    BY <1>2, <1>3, <1>4, <2>1 DEF Names
  <2>4. Counted(m') /\ Asks(m', net)
    BY <1>3, <1>4, <2>1 DEF Counted, SynFirst, CountedAt, Asks, MayMiss
  <2>5. Retransmits(m') = Retransmits(m)
    BY <1>3, <2>1 DEF Retransmits
  <2>6. \A t \in Stream : m.sent[t] <= m'.sent[t]
    BY <1>2, <1>3, <2>1, SentGrows
  <2>7. Tokens(m') /\ Held(m') /\ ReadsAsked(m')
    BY <1>2, <1>3, <1>4, <2>1, <2>5, <2>6, RestKept DEF StillConn
  <2>8. \A t \in Stream : ConnAt(m', t) = ConnAt(m, t)
    <3> TAKE t \in Stream
    <3>1. Stays(m, m', t)
      BY <1>3, <2>1, <2>2 DEF Stays, AskedOf, SendingOf, BufferOf
    <3> QED BY <3>1, StaysSame
  <2> QED BY <1>2, <1>3, <2>1, <2>3, <2>4, <2>7, <2>8, Unseen DEF RefInv
<1>6. CASE found # {}
  <2>1. PICK i \in Conns : i = Min(found) /\ m.c[i].s = s
    <3>1. found \subseteq Conns
      BY <1>2, Consts, Zenon DEF WithCid
    <3>2. Min(found) \in found
      BY <1>6, <3>1, LeastConn
    <3> QED BY <1>2, <3>2, CidIs
  <2>2. PICK w : w = [gone EXCEPT !.c[i].state = "FIN_SEND"]
    OBVIOUS
  <2>3. m' = Post(w, "send_FIN")
    BY <1>2, <1>6, <2>1, <2>2
  <2>4. /\ w.c = [m.c EXCEPT ![i].state = "FIN_SEND"]
        /\ w.opened = m.opened /\ w.posted = m.posted
        /\ w.routing = m.routing /\ w.wbuf = m.wbuf /\ w.writebusy = m.writebusy
        /\ w.rbuf = m.rbuf /\ w.readbusy = m.readbusy /\ w.rlist = m.rlist
        /\ w.pending = m.pending /\ w.log = m.log /\ w.sent = m.sent
        /\ w.closed = m.closed \cup {s} /\ w.aired = m.aired /\ "posted" \in DOMAIN w
    BY <1>3, <2>2
  <2>5. /\ m'.c = [m.c EXCEPT ![i].state = "FIN_SEND"]
        /\ m'.opened = m.opened /\ m'.posted = Append(m.posted, "send_FIN")
        /\ m'.routing = m.routing /\ m'.wbuf = m.wbuf /\ m'.writebusy = m.writebusy
        /\ m'.rbuf = m.rbuf /\ m'.readbusy = m.readbusy /\ m'.rlist = m.rlist
        /\ m'.pending = m.pending /\ m'.log = m.log /\ m'.sent = m.sent
        /\ m'.closed = m.closed \cup {s} /\ m'.aired = m.aired
    BY <2>3, <2>4 DEF Post
  <2>6. PICK c : /\ c = m.c[i] /\ c \in ConnType /\ c.s = s
                 /\ m'.c[i] = [c EXCEPT !.state = "FIN_SEND"]
                 /\ \A j \in Conns \ {i} : m'.c[j] = m.c[j]
    BY <1>2, <2>1, <2>5, ZenonT(30) DEF Mote, RecType
  <2>7. /\ m'.c[i].s = s /\ m'.c[i].state = "FIN_SEND"
        /\ m'.c[i].lastSent = c.lastSent /\ m'.c[i].finCnt = c.finCnt
        /\ \A j \in Conns : m'.c[j].s = m.c[j].s
    BY <2>1, <2>6 DEF ConnType
  <2>8. Names(m')
    <3>1. \A j \in Conns : m'.c[j].s = None => m'.c[j] = IdleConn
      BY <1>4, <2>6, <2>7, Consts DEF Names
    <3> QED BY <1>2, <1>4, <2>5, <3>1 DEF Names
  <2>9. Counted(m')
    <3>1. CountedAt(m, i, s) /\ SynFirst(m)
      BY <1>4, <2>1 DEF Counted
    <3>2. CountedAt(m', i, s)
      <4>1. c.state \in States \ {"IDLE"}
        BY <1>2, <2>1, <2>6, LiveState
      <4> QED BY <2>5, <2>6, <2>7, <3>1, <4>1 DEF CountedAt, States
    <3>3. \A t \in Stream : m'.c[i].s = t => CountedAt(m', i, t)
      BY <2>7, <3>2
    <3>4. SynFirst(m') /\ Apart(m')
      BY <2>5, <3>1 DEF SynFirst, OweInv
    <3> QED BY <1>4, <2>5, <2>6, <3>3, <3>4, CountedBut
  <2>10. Asks(m', net')
    <3>1. \A t \in Stream \cup {None} : MayMiss(m, t) => MayMiss(m', t)
      BY <2>5 DEF MayMiss
    <3>2. m'.rlist = m.rlist /\ net' = net
      BY <1>2, <2>5
    <3> QED BY <1>2, <1>4, <2>7, <3>1, <3>2, StillAsks
  <2>11. Tokens(m') /\ Held(m') /\ ReadsAsked(m')
    <3>1. Retransmits(m') = Retransmits(m)
      <4>1. m'.posted = Append(m.posted, "send_FIN")
        BY <2>5
      <4> QED BY <1>2, <4>1, PostKeeps DEF TaskName
    <3>2. \A t \in Stream : m.sent[t] <= m'.sent[t]
      <4>1. m'.sent = m.sent
        BY <2>5
      <4> QED BY <1>2, <4>1, SentGrows
    <3>3. \A j \in Conns : StillConn(m, m', j)
      BY <2>7 DEF StillConn
    <3> QED BY <1>2, <1>4, <2>5, <3>1, <3>2, <3>3, RestKept
  <2>a. PICK cl, op, st : cl = FALSE /\ op = TRUE /\ st = c.state
    OBVIOUS
  <2>b. PICK se, re, la, fi :
          /\ SendingOf(m, s) = se /\ SendingOf(m', s) = se
          /\ AskedOf(m, i) \cup BufferOf(m, s) = re /\ AskedOf(m', i) \cup BufferOf(m', s) = re
          /\ c.lastSent = la /\ c.finCnt = fi
    BY <2>5, ZenonT(30) DEF SendingOf, AskedOf, BufferOf
  <2>12. PICK a :
           /\ a = ConnAt(m, s)
           /\ a = [state |-> st, closed |-> cl, sending |-> se, lastSent |-> la,
                   finCnt |-> fi, recover |-> re]
           /\ ConnAt(m', s) = [state |-> "FIN_SEND", closed |-> op, sending |-> se,
                               lastSent |-> la, finCnt |-> fi, recover |-> re]
    <3>1. ConnAt(m, s) = Here(m, i, s) /\ ConnAt(m', s) = Here(m', i, s)
      BY <2>1, <2>7, ConnHere DEF OweInv
    <3>4. (s \in m.closed) = cl /\ (s \in m'.closed) = op
      <4>1. s \notin m.closed /\ s \in m'.closed
        BY <1>2, <2>5
      <4>2. (s \in m.closed) = FALSE /\ (s \in m'.closed) = TRUE
        BY ONLY <4>1
      <4> QED BY ONLY <2>a, <4>2, Zenon
    <3>6. Here(m, i, s) = [state |-> st, closed |-> cl, sending |-> se,
                           lastSent |-> la, finCnt |-> fi, recover |-> re]
      BY ONLY <2>6, <2>a, <2>b, <3>4, Zenon DEF Here
    <3>7. Here(m', i, s) = [state |-> "FIN_SEND", closed |-> op, sending |-> se,
                            lastSent |-> la, finCnt |-> fi, recover |-> re]
      BY ONLY <2>7, <2>b, <3>4, Zenon DEF Here
    <3> QED BY <3>1, <3>6, <3>7
  <2>13. ConnAt(m', s) = [a EXCEPT !.state = "FIN_SEND", !.closed = TRUE]
    <3>1. a = [state |-> st, closed |-> cl, sending |-> se, lastSent |-> la,
               finCnt |-> fi, recover |-> re]
      BY <2>12
    <3>2. [a EXCEPT !.state = "FIN_SEND", !.closed = op]
            = [state |-> "FIN_SEND", closed |-> op, sending |-> se, lastSent |-> la,
               finCnt |-> fi, recover |-> re]
      <4>1. [a EXCEPT !.state = "FIN_SEND"]
              = [state |-> "FIN_SEND", closed |-> cl, sending |-> se, lastSent |-> la,
                 finCnt |-> fi, recover |-> re]
        BY ONLY <3>1
      <4>2. PICK b : b = [a EXCEPT !.state = "FIN_SEND"]
        OBVIOUS
      <4>3. [b EXCEPT !.closed = op]
              = [state |-> "FIN_SEND", closed |-> op, sending |-> se, lastSent |-> la,
                 finCnt |-> fi, recover |-> re]
        <5>1. b = [state |-> "FIN_SEND", closed |-> cl, sending |-> se, lastSent |-> la,
                   finCnt |-> fi, recover |-> re]
          BY <4>1, <4>2
        <5> QED BY ONLY <5>1
      <4>4. [a EXCEPT !.state = "FIN_SEND", !.closed = op] = [b EXCEPT !.closed = op]
        BY ONLY <4>2
      <4> QED BY <4>3, <4>4
    <3> QED BY <2>12, <2>a, <3>2
  <2>14. ASSUME NEW t \in Stream, t # s
         PROVE  ConnAt(m', t) = ConnAt(m, t)
    <3>1. m.c[i].s # t /\ m'.c[i].s # t
      BY <2>1, <2>7, <2>14
    <3>2. /\ SendingOf(m', t) = SendingOf(m, t) /\ BufferOf(m', t) = BufferOf(m, t)
          /\ (t \in m'.opened <=> t \in m.opened) /\ (t \in m'.closed <=> t \in m.closed)
      BY <2>5, <2>14 DEF SendingOf, BufferOf
    <3>3. \A j \in Conns \ {i} : m'.c[j] = m.c[j] /\ AskedOf(m', j) = AskedOf(m, j)
      BY <2>5, <2>6 DEF AskedOf
    <3> QED BY ONLY <3>1, <3>2, <3>3, OthersStay, i \in Conns, t \in Stream
  <2>15. a.state \notin {"UNOPENED", "IDLE"} /\ ~a.closed
    <3>1. a = [state |-> st, closed |-> cl, sending |-> se, lastSent |-> la,
               finCnt |-> fi, recover |-> re]
      BY <2>12
    <3>2. a.state = st /\ a.closed = cl
      BY ONLY <3>1
    <3>3. c.state \in States \ {"IDLE"}
      BY <1>2, <2>1, <2>6, LiveState
    <3> QED BY <2>a, <3>2, <3>3 DEF States
  <2>16. Sender!SenderNext
    <3>1. Turns(s, [a EXCEPT !.state = "FIN_SEND", !.closed = TRUE])
      BY <2>13, <2>14 DEF Turns
    <3> QED BY <1>2, <2>5, <2>12, <2>15, <3>1, AsClose
  <2> QED BY <2>8, <2>9, <2>10, <2>11, <2>16 DEF RefInv, Steps
<1> QED BY <1>5, <1>6

-----------------------------------------------------------------------------
(* Numbers that are dropped.                                               *)

LEMMA AskedTail ==
  ASSUME NEW r \in Mote, r.rlist # <<>>, NEW q, q.rlist = Tail(r.rlist)
  PROVE  \E i \in Conns, k \in Seqno :
           /\ i = Head(r.rlist)[1] /\ k = Head(r.rlist)[2] /\ <<i, k>> \in Range(r.rlist)
           /\ Range(q.rlist) \subseteq Range(r.rlist)
           /\ \A e \in Range(r.rlist) : e = <<i, k>> \/ e \in Range(q.rlist)
           /\ k \in AskedOf(r, i)
           /\ AskedOf(q, i) \in {AskedOf(r, i), AskedOf(r, i) \ {k}}
           /\ \A j \in Conns \ {i} : AskedOf(q, j) = AskedOf(r, j)
<1>1. r.rlist \in Seq(Conns \X Seqno)
  BY DEF Mote, RecType
<1>2. PICK e \in Conns \X Seqno : e = Head(r.rlist)
  BY <1>1, HeadTailProperties
<1>3. PICK i \in Conns, k \in Seqno : e = <<i, k>>
  OBVIOUS
<1>4. Range(r.rlist) = {<<i, k>>} \cup Range(q.rlist)
  BY <1>1, <1>2, <1>3, RangeTail
<1>5. PICK A, B : A = Range(r.rlist) /\ B = Range(q.rlist)
  OBVIOUS
<1>6. A = {<<i, k>>} \cup B
  BY <1>4, <1>5
<1>a. /\ \A j, x : x \in AskedOf(r, j) <=> \E y \in A : y[1] = j /\ x = y[2]
      /\ \A j, x : x \in AskedOf(q, j) <=> \E y \in B : y[1] = j /\ x = y[2]
  BY <1>5 DEF AskedOf
<1>b. e[1] = i /\ e[2] = k /\ A = {e} \cup B
  BY <1>3, <1>6
<1>7. k \in AskedOf(r, i)
  BY <1>a, <1>b
<1>8. \A x : x \in AskedOf(r, i) <=> x = k \/ x \in AskedOf(q, i)
  BY <1>a, <1>b
<1>9. AskedOf(q, i) \in {AskedOf(r, i), AskedOf(r, i) \ {k}}
  <2>1. CASE k \in AskedOf(q, i)
    <3>1. AskedOf(q, i) = AskedOf(r, i)
      BY <1>8, <2>1
    <3> QED BY <3>1
  <2>2. CASE k \notin AskedOf(q, i)
    <3>1. AskedOf(q, i) = AskedOf(r, i) \ {k}
      BY <1>8, <2>2
    <3> QED BY <3>1
  <2> QED BY <2>1, <2>2
<1>10. ASSUME NEW j \in Conns \ {i}
       PROVE  AskedOf(q, j) = AskedOf(r, j)
  <2>1. \A x : x \in AskedOf(r, j) <=> x \in AskedOf(q, j)
    BY <1>a, <1>b
  <2> QED BY <2>1
<1>11. i = Head(r.rlist)[1] /\ k = Head(r.rlist)[2]
  BY <1>2, <1>3
<1>12. /\ <<i, k>> \in Range(r.rlist) /\ Range(q.rlist) \subseteq Range(r.rlist)
       /\ \A x \in Range(r.rlist) : x = <<i, k>> \/ x \in Range(q.rlist)
  BY <1>4
<1> QED BY <1>7, <1>9, <1>10, <1>11, <1>12

(* A connection of which only what is asked changes.                       *)
LEMMA HereAsked ==
  ASSUME NEW r, NEW q, NEW i, NEW s, q.c[i] = r.c[i], s \in q.closed <=> s \in r.closed,
         SendingOf(q, s) = SendingOf(r, s)
  PROVE  Here(q, i, s) = [Here(r, i, s) EXCEPT !.recover = AskedOf(q, i) \cup BufferOf(q, s)]
<1>1. PICK st, se, la, fi, R, A, cl :
        /\ st = r.c[i].state /\ la = r.c[i].lastSent /\ fi = r.c[i].finCnt
        /\ se = SendingOf(r, s) /\ R = AskedOf(q, i) \cup BufferOf(q, s)
        /\ A = AskedOf(r, i) \cup BufferOf(r, s) /\ cl = (s \in r.closed)
  OBVIOUS
<1>2. (s \in q.closed) = (s \in r.closed)
  OBVIOUS
<1>3. (s \in q.closed) = cl /\ (s \in r.closed) = cl
  BY ONLY <1>1, <1>2, Zenon
<1>4. Here(r, i, s) = [state |-> st, closed |-> cl, sending |-> se, lastSent |-> la,
                       finCnt |-> fi, recover |-> A]
  BY ONLY <1>1, <1>3, Zenon DEF Here
<1>5. Here(q, i, s) = [state |-> st, closed |-> cl, sending |-> se, lastSent |-> la,
                       finCnt |-> fi, recover |-> R]
  <2>1. st = q.c[i].state /\ la = q.c[i].lastSent /\ fi = q.c[i].finCnt /\ se = SendingOf(q, s)
    BY <1>1
  <2>2. R = AskedOf(q, i) \cup BufferOf(q, s)
    BY <1>1
  <2> QED BY ONLY <1>3, <2>1, <2>2, Zenon DEF Here
<1>6. PICK a : a = Here(r, i, s)
  OBVIOUS
<1>7. [a EXCEPT !.recover = R] = [state |-> st, closed |-> cl, sending |-> se, lastSent |-> la,
                                  finCnt |-> fi, recover |-> R]
  <2>1. a = [state |-> st, closed |-> cl, sending |-> se, lastSent |-> la,
             finCnt |-> fi, recover |-> A]
    BY <1>4, <1>6
  <2> QED BY ONLY <2>1
<1> QED BY <1>1, <1>5, <1>6, <1>7

(* From r to q one number, of connection i, may be dropped.                *)
Drop(r, q, i, k) ==
  /\ q.c = r.c /\ q.opened = r.opened /\ q.closed = r.closed /\ q.sent = r.sent
  /\ \A t \in Stream : SendingOf(q, t) = SendingOf(r, t)
  /\ \A t \in Stream : \A j \in Conns \ {i} : r.c[j].s = t =>
       AskedOf(q, j) \cup BufferOf(q, t) = AskedOf(r, j) \cup BufferOf(r, t)
  /\ \A t \in Stream : r.c[i].s = t =>
       /\ k \in AskedOf(r, i) \cup BufferOf(r, t)
       /\ AskedOf(q, i) \cup BufferOf(q, t) \in
            {AskedOf(r, i) \cup BufferOf(r, t), (AskedOf(r, i) \cup BufferOf(r, t)) \ {k}}

(* What becomes of a stream that is a, and of b, when k is dropped.         *)
Drops(r, i, t, k, a, b) ==
  /\ a = Here(r, i, t) /\ a.state = r.c[i].state
  /\ a.lastSent = r.c[i].lastSent /\ a.sending = SendingOf(r, t)
  /\ a.state \notin {"UNOPENED", "IDLE"} /\ k \in a.recover
  /\ \E R \in {a.recover, a.recover \ {k}} : b = [a EXCEPT !.recover = R]

LEMMA Dropped ==
  ASSUME NEW r \in Mote, Apart(r), NEW q, NEW i \in Conns, NEW k, Drop(r, q, i, k)
  PROVE  /\ \A t \in Stream : r.c[i].s # t => ConnAt(q, t) = ConnAt(r, t)
         /\ \A t \in Stream : r.c[i].s = t => Drops(r, i, t, k, ConnAt(r, t), ConnAt(q, t))
<1>1. Apart(q)
  BY DEF Apart, Drop
<1>2. ASSUME NEW t \in Stream, r.c[i].s # t
      PROVE  ConnAt(q, t) = ConnAt(r, t)
  <2>1. CASE \A j \in Conns : r.c[j].s # t
    <3>1. \A j \in Conns : q.c[j].s # t
      BY <2>1 DEF Drop
    <3>2. ConnAt(q, t) = Absent(q, t) /\ ConnAt(r, t) = Absent(r, t)
      BY <2>1, <3>1, ConnGone
    <3>3. q.opened = r.opened
      BY DEF Drop
    <3> QED BY <3>2, <3>3 DEF Absent
  <2>2. CASE \E j \in Conns : r.c[j].s = t
    <3>1. PICK j \in Conns \ {i} : r.c[j].s = t
      BY <1>2, <2>2
    <3>2. q.c[j] = r.c[j] /\ (t \in q.closed <=> t \in r.closed) /\ SendingOf(q, t) = SendingOf(r, t)
          /\ AskedOf(q, j) \cup BufferOf(q, t) = AskedOf(r, j) \cup BufferOf(r, t)
      BY <3>1 DEF Drop
    <3>3. ConnAt(q, t) = Here(q, j, t) /\ ConnAt(r, t) = Here(r, j, t)
      BY <1>1, <3>1, <3>2, ConnHere
    <3>4. Here(q, j, t) = [Here(r, j, t) EXCEPT !.recover = AskedOf(r, j) \cup BufferOf(r, t)]
      <4>1. Here(q, j, t) = [Here(r, j, t) EXCEPT !.recover = AskedOf(q, j) \cup BufferOf(q, t)]
        BY ONLY <3>2, HereAsked
      <4> QED BY <3>2, <4>1
    <3>5. [Here(r, j, t) EXCEPT !.recover = AskedOf(r, j) \cup BufferOf(r, t)] = Here(r, j, t)
      <4>1. PICK st, cl, se, la, fi, A, a :
              /\ a = Here(r, j, t) /\ A = AskedOf(r, j) \cup BufferOf(r, t)
              /\ a = [state |-> st, closed |-> cl, sending |-> se,
                      lastSent |-> la, finCnt |-> fi, recover |-> A]
        BY Zenon DEF Here
      <4>2. [a EXCEPT !.recover = A] = a
        <5>1. a = [state |-> st, closed |-> cl, sending |-> se,
                   lastSent |-> la, finCnt |-> fi, recover |-> A]
          BY <4>1
        <5> QED BY ONLY <5>1
      <4> QED BY <4>1, <4>2
    <3> QED BY <3>3, <3>4, <3>5
  <2> QED BY <2>1, <2>2
<1>3. ASSUME NEW t \in Stream, r.c[i].s = t
      PROVE  Drops(r, i, t, k, ConnAt(r, t), ConnAt(q, t))
  <2>1. PICK a : a = ConnAt(r, t) /\ a = Here(r, i, t)
    BY <1>3, ConnHere
  <2>2. ConnAt(q, t) = Here(q, i, t)
    <3>1. q.c[i].s = t
      BY <1>3 DEF Drop
    <3> QED BY <1>1, <3>1, ConnHere
  <2>3. /\ a.state = r.c[i].state /\ a.recover = AskedOf(r, i) \cup BufferOf(r, t)
        /\ a.lastSent = r.c[i].lastSent /\ a.sending = SendingOf(r, t)
    BY <2>1 DEF Here
  <2>4. a.state \notin {"UNOPENED", "IDLE"}
    <3>1. r.c[i].state \in States \ {"IDLE"}
      BY <1>3, LiveState
    <3> QED BY <2>3, <3>1 DEF States
  <2>5. PICK R : R = AskedOf(q, i) \cup BufferOf(q, t)
    OBVIOUS
  <2>6. k \in a.recover /\ R \in {a.recover, a.recover \ {k}}
    BY <1>3, <2>3, <2>5 DEF Drop
  <2>7. Here(q, i, t) = [a EXCEPT !.recover = R]
    <3>1. q.c[i] = r.c[i] /\ (t \in q.closed <=> t \in r.closed) /\ SendingOf(q, t) = SendingOf(r, t)
      BY DEF Drop
    <3>2. Here(q, i, t) = [Here(r, i, t) EXCEPT !.recover = AskedOf(q, i) \cup BufferOf(q, t)]
      BY ONLY <3>1, HereAsked
    <3> QED BY <2>1, <2>5, <3>2
  <2>8. \E S \in {a.recover, a.recover \ {k}} : ConnAt(q, t) = [a EXCEPT !.recover = S]
    BY <2>2, <2>6, <2>7
  <2>9. Drops(r, i, t, k, a, ConnAt(q, t))
    BY <2>1, <2>3, <2>4, <2>6, <2>8 DEF Drops
  <2> QED BY <2>1, <2>9
<1> QED BY <1>2, <1>3

(* What StrSender sees of it is Forget, or nothing.                        *)
LEMMA DropStep ==
  ASSUME NEW r \in Mote, Apart(r), \A t \in Stream : ConnAt(r, t) = ConnAt(m, t), r.sent = m.sent,
         NEW q, NEW i \in Conns, NEW k \in Seqno, Drop(r, q, i, k),
         \A t \in Stream : ConnAt(m', t) = ConnAt(q, t), m'.sent = q.sent, UNCHANGED net
  PROVE  Steps
<1>1. m'.sent = m.sent
  BY DEF Drop
<1>2. CASE \A t \in Stream : ConnAt(q, t) = ConnAt(r, t)
  <2>1. \A t \in Stream : ConnAt(m', t) = ConnAt(m, t)
    BY <1>2
  <2> QED BY <1>1, <2>1, AsElsewhere DEF Steps
<1>3. CASE ~(\A t \in Stream : ConnAt(q, t) = ConnAt(r, t))
  <2>1. PICK s \in Stream : r.c[i].s = s /\ ConnAt(q, s) # ConnAt(r, s)
    BY <1>3, Dropped
  <2>2. PICK a : a = ConnAt(m, s) /\ a = ConnAt(r, s)
    OBVIOUS
  <2>3. PICK R \in {a.recover, a.recover \ {k}} :
          /\ ConnAt(q, s) = [a EXCEPT !.recover = R]
          /\ a.state \notin {"UNOPENED", "IDLE"} /\ k \in a.recover /\ a = Here(r, i, s)
    <3>1. Drops(r, i, s, k, a, ConnAt(q, s))
      BY <2>1, <2>2, Dropped
    <3> QED BY ONLY <3>1 DEF Drops
  <2>4. [a EXCEPT !.recover = a.recover] = a
    <3>1. PICK st, cl, se, la, fi, A : a = [state |-> st, closed |-> cl, sending |-> se,
                                            lastSent |-> la, finCnt |-> fi, recover |-> A]
      BY <2>3, Zenon DEF Here
    <3> QED BY ONLY <3>1
  <2>5. ConnAt(m', s) = [a EXCEPT !.recover = @ \ {k}]
    BY <2>1, <2>2, <2>3, <2>4
  <2>6. \A t \in Stream : t # s => ConnAt(m', t) = ConnAt(m, t)
    BY <2>1, Dropped
  <2>7. Turns(s, [a EXCEPT !.recover = @ \ {k}])
    BY <2>5, <2>6 DEF Turns
  <2>8. Sender!SenderNext
    BY <1>1, <2>2, <2>3, <2>7, AsForget
  <2> QED BY <2>8 DEF Steps
<1> QED BY <1>2, <1>3

-----------------------------------------------------------------------------
(* Tasks that read the log.                                                *)

LEMMA BackFromEnd ==
  ASSUME NEW F \in Nat \ {0}, NEW M \in Nat \ {0}, M % (2 * F) = 0, NEW d \in 0 .. (F - 1)
  PROVE  (M - 1 - d) % F = F - 1 - d
<1>1. PICK g \in Nat \ {0} : g = 2 * F
  OBVIOUS
<1>2. PICK z \in Int : M = g * z
  <2>1. M = g * (M \div g) + (M % g) /\ M \div g \in Int
    BY <1>1
  <2> QED BY <1>1, <2>1
<1>3. PICK y \in Int : y = 2 * z - 1
  OBVIOUS
<1>4. M - 1 - d = F * y + (F - 1 - d)
  <2>1. g * z = F * (2 * z)
    BY <1>1
  <2>2. F * (2 * z) = F * y + F
    BY <1>3
  <2> QED BY <1>2, <2>1, <2>2
<1>5. PICK a \in Int, q \in Int, r \in 0 .. (F - 1) : a = M - 1 - d /\ a = F * q + r /\ r = a % F
  <2>1. PICK a \in Int : a = M - 1 - d
    OBVIOUS
  <2>2. a = F * (a \div F) + (a % F) /\ a \div F \in Int /\ a % F \in 0 .. (F - 1)
    BY <2>1
  <2> QED BY <2>1, <2>2
<1>6. F * q + r = F * y + (F - 1 - d)
  BY <1>4, <1>5
<1>7. F * (q - y) = (F - 1 - d) - r
  <2>1. F * (q - y) = F * q - F * y
    OBVIOUS
  <2> QED BY <1>6, <2>1
<1>8. PICK x \in Int : x = q - y
  OBVIOUS
<1>9. F * x < F /\ F * x > 0 - F
  BY <1>7, <1>8
<1>10. x = 0
  <2>1. CASE x >= 1
    <3>1. F * x >= F
      BY <2>1
    <3> QED BY <1>9, <3>1
  <2>2. CASE x <= 0 - 1
    <3>1. F * x <= 0 - F
      BY <2>2
    <3> QED BY <1>9, <3>1
  <2> QED BY <2>1, <2>2
<1>11. q = y
  BY <1>8, <1>10
<1>12. r = F - 1 - d
  BY <1>7, <1>8, <1>10
<1>13. a % F = F - 1 - d
  BY <1>5, <1>12
<1> QED BY <1>5, <1>13, Zenon

(* A number that is not ahead of the last one sent is looked for at its     *)
(* own place, or where nothing of the stream can lie.                      *)
LEMMA FoundIsAsked ==
  ASSUME Roomy, NEW l \in 1 .. MaxData, NEW n \in Seqno, SeqCmp(l, n) >= 0,
         IndexOf(n) + 1 <= l
  PROVE  IndexOf(n) + 1 = n
<1>0. /\ FlashPkts \in Nat \ {0} /\ TrMaxSeqno \in Nat \ {0} /\ MaxData \in Nat
      /\ TrValidRange \in Nat \ {0} /\ TrValidRange <= FlashPkts
      /\ TrMaxSeqno % (2 * FlashPkts) = 0 /\ MaxData <= FlashPkts
      /\ n \in 1 .. TrMaxSeqno /\ MaxData < TrMaxSeqno
  BY Consts, StrMoteAssumption, TrSeqnoAssumption, Fits DEF Roomy
<1>1. CASE n <= l
  <2>1. n \in 1 .. MaxData
    BY <1>0, <1>1
  <2> QED BY <2>1, Fits, <1>0
<1>2. CASE n > l
  <2>1. l \in Seqno0 /\ n \in Seqno0 /\ l < n
    BY <1>0, <1>2, Consts
  <2>2. l + TrMaxSeqno - n < TrValidRange
    BY <2>1, CmpUnfold, Consts
  <2>3. PICK d \in 0 .. (FlashPkts - 1) : d = TrMaxSeqno - n
    BY <1>0, <2>2
  <2>4. n - 1 = TrMaxSeqno - 1 - d
    BY <1>0, <2>3
  <2>5. IndexOf(n) = FlashPkts - 1 - d
    BY <1>0, <2>4, BackFromEnd DEF IndexOf
  <2> QED BY <1>0, <2>2, <2>3, <2>5
<1> QED BY <1>0, <1>1, <1>2
LEMMA ReadRef ==
  ASSUME Roomy, NEW r \in Mote, RefInv(r, net), OweInv(r, net), r.sent = m.sent,
         \A t \in Stream : ConnAt(r, t) = ConnAt(m, t), m' = readLogger(r), UNCHANGED net
  PROVE  RefInv(m', net) /\ Steps
<1> DEFINE i == Head(r.rlist)[1]
           n == Head(r.rlist)[2]
<1>0. /\ Names(r) /\ Counted(r) /\ Asks(r, net) /\ Tokens(r) /\ Held(r) /\ ReadsAsked(r)
      /\ Apart(r)
  BY DEF RefInv, OweInv
<1>1. CASE r.readbusy \/ r.rlist = <<>>
  <2>1. m' = r
    BY <1>1 DEF readLogger
  <2> QED BY <2>1, Unseen
<1>2. CASE ~(r.readbusy \/ r.rlist = <<>>) /\ (r.c[i].s = None \/ SeqCmp(r.c[i].lastSent, n) < 0)
  <2>1. PICK q : q = [r EXCEPT !.rlist = Tail(@)]
    OBVIOUS
  <2>2. m' = Post(q, "readLogger")
    BY <1>2, <2>1 DEF readLogger
  <2>3. /\ q.c = r.c /\ q.routing = r.routing /\ q.wbuf = r.wbuf
        /\ q.writebusy = r.writebusy /\ q.rbuf = r.rbuf /\ q.readbusy = r.readbusy
        /\ q.log = r.log /\ q.sent = r.sent
        /\ q.opened = r.opened /\ q.closed = r.closed /\ q.aired = r.aired
        /\ q.posted = r.posted /\ q.pending = r.pending /\ q.rlist = Tail(r.rlist)
    BY <2>1 DEF Mote, RecType
  <2>4. PICK j \in Conns, k \in Seqno :
           /\ Range(q.rlist) \subseteq Range(r.rlist) /\ k \in AskedOf(r, j)
           /\ AskedOf(q, j) \in {AskedOf(r, j), AskedOf(r, j) \ {k}}
           /\ \A h \in Conns \ {j} : AskedOf(q, h) = AskedOf(r, h)
    <3>1. r.rlist # <<>> /\ q.rlist = Tail(r.rlist)
      BY <1>2, <2>3
    <3> QED BY ONLY <3>1, r \in Mote, AskedTail, ZenonT(30)
  <2>5. Names(q) /\ Counted(q) /\ Asks(q, net)
    BY <1>0, <2>3, <2>4, SameCount
  <2>6. ~Reading(q) /\ ~Reading(r)
    BY <1>0, <1>2, <2>3 DEF Tokens, Reading
  <2>7. Tokens(q)
    BY <1>0, <2>3 DEF Tokens, Retransmits, InHand, Reading
  <2>8. Held(q) /\ ReadsAsked(q)
    BY <1>0, <2>3, <2>6 DEF Held, ReadsAsked, WasSent, LiesAt
  <2>9. RefInv(q, net)
    BY <2>5, <2>7, <2>8 DEF RefInv
  <2>10. q \in Mote
    <3>1. Tail(r.rlist) \in Seq(Conns \X Seqno) /\ Len(Tail(r.rlist)) = Len(r.rlist) - 1
          /\ Len(r.rlist) \in Nat
      BY <1>2, HeadTailProperties, LenProperties, EmptySeq DEF Mote, RecType
    <3>2. Len(Tail(r.rlist)) <= RListLen
      BY <3>1, Consts DEF Mote
    <3> QED BY <2>1, <3>1, <3>2 DEF Mote, RecType
  <2>11. RefInv(m', net) /\ m'.sent = q.sent /\ \A t \in Stream : ConnAt(m', t) = ConnAt(q, t)
    BY <2>2, <2>9, <2>10, PostRef DEF TaskName
  <2>12. Drop(r, q, j, k)
    <3>1. \A t \in Stream : BufferOf(q, t) = {} /\ BufferOf(r, t) = {}
      BY <1>2, <2>3 DEF BufferOf
    <3>2. AskedOf(q, j) \cup {} = AskedOf(q, j) /\ AskedOf(r, j) \cup {} = AskedOf(r, j)
      OBVIOUS
    <3>3. \A t \in Stream : SendingOf(q, t) = SendingOf(r, t)
      BY <2>3 DEF SendingOf
    <3> QED BY <2>3, <2>4, <3>1, <3>2, <3>3 DEF Drop
  <2>13. Steps
    BY <1>0, <2>11, <2>12, DropStep
  <2> QED BY <2>11, <2>13
<1>3. CASE /\ ~(r.readbusy \/ r.rlist = <<>>)
           /\ ~(r.c[i].s = None \/ SeqCmp(r.c[i].lastSent, n) < 0)
           /\ r.eeprom = "idle" /\ LogReadOK(r.log)
  <2>1. PICK q : q = [r EXCEPT !.log = LogRead(@, i, n), !.eeprom = "busy", !.readbusy = TRUE]
    OBVIOUS
  <2>2. m' = q
    BY <1>3, <2>1 DEF readLogger
  <2>3. /\ q.c = r.c /\ q.routing = r.routing /\ q.wbuf = r.wbuf
        /\ q.writebusy = r.writebusy /\ q.rbuf = r.rbuf /\ q.readbusy = TRUE
        /\ q.rlist = r.rlist /\ q.sent = r.sent /\ q.log = LogRead(r.log, i, n)
        /\ q.opened = r.opened /\ q.closed = r.closed /\ q.aired = r.aired
        /\ q.posted = r.posted /\ q.pending = r.pending
    BY <2>1 DEF Mote, RecType
  <2>4. /\ q.log.vol = r.log.vol
        /\ q.log.op = Op("read", 2 * i + (((n - 1) \div FlashPkts) % 2), IndexOf(n), Erased)
        /\ r.log.op.kind = "none"
    BY <1>3, <2>3 DEF LogRead, LogReadOK, FlashIdle, Mote, RecType, LogType
  <2>5. /\ q.log.op.kind = "read" /\ q.log.op.idx = IndexOf(n)
        /\ q.log.op.vol = 2 * i + (((n - 1) \div FlashPkts) % 2)
    BY <2>4 DEF Op
  <2>6. i \in Conns /\ n \in Seqno /\ <<i, n>> \in Range(r.rlist)
    <3>1. PICK w : w = [r EXCEPT !.rlist = Tail(@)]
      OBVIOUS
    <3>2. r.rlist # <<>> /\ w.rlist = Tail(r.rlist)
      BY <1>3, <3>1 DEF Mote, RecType
    <3> QED BY ONLY <3>2, r \in Mote, AskedTail
  <2>7. Names(q) /\ Counted(q) /\ Asks(q, net)
    BY <1>0, <2>3, SameCount
  <2>8. Tokens(q)
    BY <1>0, <1>3, <2>3, <2>4, <2>5 DEF Tokens, Retransmits, InHand, Reading
  <2>9. Held(q)
    BY <1>0, <2>3, <2>4, <2>5, ZenonT(30) DEF Held, WasSent, LiesAt
  <2>10. ReadsAsked(q)
    <3> SUFFICES ASSUME BeingRead(q) # Erased, NEW j \in Conns, q.c[j].s = BeingRead(q)[1]
                 PROVE  <<j, BeingRead(q)[2]>> \in Range(q.rlist)
      BY DEF ReadsAsked
    <3>1. PICK v \in Volumes, x \in Indexes : /\ v = q.log.op.vol /\ x = q.log.op.idx
                                              /\ v \div 2 = i /\ x = IndexOf(n)
      <4>0. PICK k \in Int, j1 \in Conns : k = n /\ j1 = i
        BY <2>6, Consts
      <4>1. ((k - 1) \div FlashPkts) \in Int /\ IndexOf(k) \in Indexes
        <5>1. FlashPkts \in Nat \ {0}
          BY Consts
        <5>2. ((k - 1) \div FlashPkts) \in Int
          BY ONLY <5>1, k \in Int
        <5> QED BY <5>2, IndexOfType
      <4>2. PICK h \in 0 .. 1 : h = ((n - 1) \div FlashPkts) % 2
        BY <4>0, <4>1
      <4>3. 2 * i + h \in Volumes /\ (2 * i + h) \div 2 = i
        <5>1. 2 * j1 + h \in Volumes /\ (2 * j1 + h) \div 2 = j1
          BY Consts
        <5> QED BY <4>0, <5>1
      <4>4. IndexOf(n) \in Indexes
        BY <4>0, <4>1
      <4> QED BY <2>5, <4>2, <4>3, <4>4
    <3>2. PICK p \in Buf : /\ p = r.log.vol[v][x] /\ p = BeingRead(q) /\ p # Erased
                           /\ WasSent(r, p) /\ LiesAt(r, v, p) /\ p[2] = x + 1
      <4>1. BeingRead(q) = r.log.vol[v][x] /\ r.log.vol[v][x] # Erased
        BY <2>4, <3>1, Zenon DEF BeingRead
      <4>2. r.log.vol[v][x] \in Buf
        BY DEF Mote, RecType, LogType
      <4> QED BY <1>0, <4>1, <4>2 DEF Held
    <3>3. p[1] \in Stream /\ p[2] \in Seqno /\ p[2] <= r.sent[p[1]] /\ r.c[j].s = p[1]
      BY <2>3, <3>2 DEF Buf, WasSent
    <3>4. j = i
      BY <3>1, <3>2, <3>3 DEF LiesAt
    <3>5. PICK l \in 1 .. MaxData : l = r.sent[p[1]]
      <4>1. r.sent[p[1]] \in 0 .. MaxData
        BY <3>3 DEF Mote, RecType
      <4> QED BY <3>3, <4>1, Consts
    <3>6. r.c[i].lastSent = l
      <4>1. CountedAt(r, i, p[1])
        BY <1>0, <3>3, <3>4 DEF Counted
      <4>2. r.c[i].state \in States \ {"IDLE"}
        BY <3>3, <3>4, LiveState
      <4>3. l # 0 /\ l = r.sent[p[1]]
        BY <3>5
      <4> QED BY <4>1, <4>2, <4>3 DEF CountedAt, States
    <3>7. SeqCmp(l, n) >= 0
      <4>1. l \in Seqno0 /\ n \in Seqno0
        BY <2>6, <3>5, Fits, Consts, SMTT(30)
      <4>2. SeqCmp(l, n) \in -1 .. 1
        BY <4>1, CmpTurns
      <4> QED BY <1>3, <3>6, <4>2
    <3>8. IndexOf(n) + 1 = n
      <4>1. IndexOf(n) + 1 <= l
        BY <3>1, <3>2, <3>3, <3>5
      <4> QED BY <2>6, <3>7, <4>1, FoundIsAsked
    <3> QED BY <2>3, <2>6, <3>1, <3>2, <3>4, <3>8, Zenon
  <2>11. \A t \in Stream : ConnAt(q, t) = ConnAt(r, t)
    <3>1. \A t \in Stream : BufferOf(q, t) = {} /\ BufferOf(r, t) = {}
      BY <1>3, <2>5 DEF BufferOf
    <3> QED BY <2>3, <3>1, SameConns
  <2>12. RefInv(m', net)
    BY <2>2, <2>7, <2>8, <2>9, <2>10 DEF RefInv
  <2>13. Steps
    <3>1. \A t \in Stream : ConnAt(q, t) = ConnAt(m, t)
      BY <2>11
    <3> QED BY <2>2, <2>3, <3>1, Unseen
  <2> QED BY <2>12, <2>13
<1>4. CASE /\ ~(r.readbusy \/ r.rlist = <<>>)
           /\ ~(r.c[i].s = None \/ SeqCmp(r.c[i].lastSent, n) < 0)
           /\ ~(r.eeprom = "idle" /\ LogReadOK(r.log))
  <2>1. m' = TryLater(r, "READ_LOGGER")
    BY <1>4 DEF readLogger
  <2>2. RefInv(m', net) /\ m'.sent = r.sent /\ \A t \in Stream : ConnAt(m', t) = ConnAt(r, t)
    BY <2>1, TryLaterRef DEF Flag
  <2>3. \A t \in Stream : ConnAt(m', t) = ConnAt(m, t)
    BY <2>2
  <2> QED BY <2>2, <2>3, Unseen
<1> QED BY <1>1, <1>2, <1>3, <1>4

-----------------------------------------------------------------------------
(* Tasks that send.                                                        *)

Shape(st, cl, se, la, fi, re) ==
  [state |-> st, closed |-> cl, sending |-> se, lastSent |-> la, finCnt |-> fi, recover |-> re]

LEMMA Fields ==
  ASSUME NEW st, NEW cl, NEW se, NEW la, NEW fi, NEW re, NEW a,
         a = Shape(st, cl, se, la, fi, re)
  PROVE  /\ a.state = st /\ a.closed = cl /\ a.sending = se /\ a.lastSent = la
         /\ a.finCnt = fi /\ a.recover = re
BY DEF Shape

(* A connection of which what is asked does not change.                    *)
LEMMA HereShape ==
  ASSUME NEW r, NEW q, NEW i, NEW s, s \in q.closed <=> s \in r.closed,
         AskedOf(q, i) \cup BufferOf(q, s) = AskedOf(r, i) \cup BufferOf(r, s)
  PROVE  \E cl, re :
           /\ Here(r, i, s) = Shape(r.c[i].state, cl, SendingOf(r, s), r.c[i].lastSent,
                                    r.c[i].finCnt, re)
           /\ Here(q, i, s) = Shape(q.c[i].state, cl, SendingOf(q, s), q.c[i].lastSent,
                                    q.c[i].finCnt, re)
<1>1. PICK re, cl : /\ re = AskedOf(r, i) \cup BufferOf(r, s) /\ cl = (s \in r.closed)
                    /\ re = AskedOf(q, i) \cup BufferOf(q, s)
  OBVIOUS
<1>2. (s \in q.closed) = (s \in r.closed)
  OBVIOUS
<1>3. (s \in q.closed) = cl /\ (s \in r.closed) = cl
  BY ONLY <1>1, <1>2, Zenon
<1> QED BY ONLY <1>1, <1>3, Zenon DEF Here, Shape

(* What becomes of a.                                                      *)
Hands(a, x, y)   == [a EXCEPT !.state = x, !.sending = y]
Returns(a, x, y) == [a EXCEPT !.sending = y, !.state = x]
Counts(a, x, y)  == [a EXCEPT !.lastSent = y, !.state = x]
Opens(a, x, y)   == [a EXCEPT !.state = x, !.lastSent = y]
Repeats(a, x, y) == [a EXCEPT !.finCnt = y, !.state = x]

LEMMA Reshaped ==
  ASSUME NEW st, NEW cl, NEW se, NEW la, NEW fi, NEW re, NEW a,
         a = Shape(st, cl, se, la, fi, re), NEW x, NEW y
  PROVE  /\ Hands(a, x, y) = Shape(x, cl, y, la, fi, re)
         /\ Returns(a, x, y) = Shape(x, cl, y, la, fi, re)
         /\ Counts(a, x, y) = Shape(x, cl, se, y, fi, re)
         /\ Opens(a, x, y) = Shape(x, cl, se, y, fi, re)
         /\ Repeats(a, x, y) = Shape(x, cl, se, la, y, re)
<1>0. a = [state |-> st, closed |-> cl, sending |-> se, lastSent |-> la, finCnt |-> fi,
           recover |-> re]
  BY DEF Shape
<1>1. [a EXCEPT !.state = x]
        = [state |-> x, closed |-> cl, sending |-> se, lastSent |-> la, finCnt |-> fi,
           recover |-> re]
  BY ONLY <1>0
<1>2. PICK b : b = [a EXCEPT !.state = x]
  OBVIOUS
<1>3. b = [state |-> x, closed |-> cl, sending |-> se, lastSent |-> la, finCnt |-> fi,
           recover |-> re]
  BY <1>1, <1>2
<1>4. [b EXCEPT !.sending = y] = [state |-> x, closed |-> cl, sending |-> y, lastSent |-> la,
                                  finCnt |-> fi, recover |-> re]
  BY ONLY <1>3
<1>5. [b EXCEPT !.lastSent = y] = [state |-> x, closed |-> cl, sending |-> se, lastSent |-> y,
                                   finCnt |-> fi, recover |-> re]
  BY ONLY <1>3
<1>6. [b EXCEPT !.finCnt = y] = [state |-> x, closed |-> cl, sending |-> se, lastSent |-> la,
                                 finCnt |-> y, recover |-> re]
  BY ONLY <1>3
<1>7. /\ [a EXCEPT !.state = x, !.sending = y] = [b EXCEPT !.sending = y]
      /\ [a EXCEPT !.state = x, !.lastSent = y] = [b EXCEPT !.lastSent = y]
  BY ONLY <1>2
<1>8. [a EXCEPT !.sending = y, !.state = x] = [b EXCEPT !.sending = y]
  BY ONLY <1>0, <1>2
<1>9. [a EXCEPT !.lastSent = y, !.state = x] = [b EXCEPT !.lastSent = y]
  BY ONLY <1>0, <1>2
<1>10. [a EXCEPT !.finCnt = y, !.state = x] = [b EXCEPT !.finCnt = y]
  BY ONLY <1>0, <1>2
<1> QED BY ONLY <1>4, <1>5, <1>6, <1>7, <1>8, <1>9, <1>10
        DEF Shape, Hands, Returns, Counts, Opens, Repeats

LEMMA RetryReads ==
  ASSUME NEW r \in Mote, NEW n, RefInv(r, n), Retransmits(r) = {}, InHand(r),
         NEW q, q = TryLater(r, "RETRANSMIT")
  PROVE  RefInv(q, n) /\ q.sent = r.sent /\ \A t \in Stream : ConnAt(q, t) = ConnAt(r, t)
<1>1. /\ q.c = r.c /\ q.routing = r.routing /\ q.wbuf = r.wbuf
      /\ q.writebusy = r.writebusy /\ q.rbuf = r.rbuf /\ q.readbusy = r.readbusy
      /\ q.rlist = r.rlist /\ q.log = r.log
      /\ q.sent = r.sent /\ q.opened = r.opened /\ q.closed = r.closed
      /\ q.aired = r.aired /\ q.posted = r.posted /\ q.pending = r.pending \cup {"RETRANSMIT"}
  BY DEF TryLater, Mote, RecType
<1>2. Names(q) /\ Counted(q) /\ Asks(q, n)
  BY <1>1, SameCount DEF RefInv
<1>3. Held(r) /\ ReadsAsked(r) /\ Tokens(r)
  BY DEF RefInv
<1>a. Held(q)
  BY ONLY <1>1, <1>3 DEF Held, WasSent, LiesAt
<1>b. ReadsAsked(q)
  BY ONLY <1>1, <1>3, Zenon DEF ReadsAsked, Reading, BeingRead
<1>4. Tokens(q)
  BY <1>1, <1>3 DEF Tokens, Reading, InHand, Retransmits
<1>5. \A s \in Stream : ConnAt(q, s) = ConnAt(r, s)
  <2>1. \A s \in Stream : BufferOf(q, s) = BufferOf(r, s)
    BY ONLY <1>1 DEF BufferOf
  <2> QED BY ONLY <1>1, <2>1, SameConns
<1> QED BY <1>1, <1>2, <1>a, <1>b, <1>4, <1>5 DEF RefInv

(* What was read is handed over, or its stream is gone.                    *)
LEMMA FreedRef ==
  ASSUME NEW r \in Mote, NEW n, RefInv(r, n), Retransmits(r) = {},
         "RETRANSMIT" \notin r.pending, InHand(r), NEW q,
         q.c = r.c, q.wbuf = r.wbuf, q.writebusy = r.writebusy, q.rbuf = Erased,
         q.readbusy = FALSE, q.rlist = r.rlist, q.log = r.log, q.sent = r.sent,
         q.opened = r.opened, q.closed = r.closed, q.aired = r.aired, q.posted = r.posted,
         q.pending = r.pending, q.routing.flag \notin {"SYN"} \/ q.routing = r.routing,
         q.routing.s \in r.opened \cup {None}
  PROVE  RefInv(q, n)
<1>1. Names(q)
  BY DEF RefInv, Names
<1>2. Counted(q) /\ Asks(q, n)
  BY DEF RefInv, Counted, SynFirst, CountedAt, Asks, MayMiss
<1>3. Held(q) /\ ReadsAsked(q)
  BY DEF RefInv, Held, ReadsAsked, WasSent, LiesAt, Reading, InHand
<1>4. Tokens(q)
  BY DEF Tokens, Reading, InHand, Retransmits
<1> QED BY <1>1, <1>2, <1>3, <1>4 DEF RefInv

LEMMA RetransmitRef ==
  ASSUME Settled, Roomy, NEW r \in Mote, RefInv(r, net), OweInv(r, net), r.sent = m.sent,
         \A t \in Stream : ConnAt(r, t) = ConnAt(m, t), NEW ok \in BOOLEAN,
         Retransmits(r) = {}, "RETRANSMIT" \notin r.pending, InHand(r),
         retransmitDataPacket(r, ok)
  PROVE  RefInv(m', net') /\ Steps
<1> DEFINE found == WithCid(r, r.rbuf)
           i     == Min(found)
           q     == Pkt(r.c[i].s, "DATA_RETX", r.rbuf[2])
<1>0. Apart(r) /\ r.readbusy /\ ~Reading(r) /\ r.rbuf \in Buf /\ Held(r) /\ Counted(r)
  BY DEF OweInv, InHand, RefInv, Mote, RecType
<1>1. CASE m' = TryLater(r, "RETRANSMIT") /\ UNCHANGED net
  <2>1. RefInv(m', net) /\ m'.sent = r.sent /\ \A t \in Stream : ConnAt(m', t) = ConnAt(r, t)
    BY <1>1, RetryReads
  <2>2. \A t \in Stream : ConnAt(m', t) = ConnAt(m, t)
    BY <2>1
  <2> QED BY <1>1, <2>1, <2>2, Unseen
<1>2. CASE found = {} /\ m' = FreeRead(r) /\ UNCHANGED net
  <2>1. /\ m'.c = r.c /\ m'.routing = r.routing /\ m'.wbuf = r.wbuf
        /\ m'.writebusy = r.writebusy /\ m'.rbuf = Erased /\ m'.readbusy = FALSE
        /\ m'.rlist = r.rlist /\ m'.log = r.log
        /\ m'.sent = r.sent /\ m'.opened = r.opened /\ m'.closed = r.closed
        /\ m'.aired = r.aired /\ m'.posted = r.posted /\ m'.pending = r.pending
    BY <1>2 DEF FreeRead, Mote, RecType
  <2>2. RefInv(m', net)
    <3>1. r.routing.s \in r.opened \cup {None}
      BY DEF RefInv, Names
    <3> QED BY <2>1, <3>1, FreedRef
  <2>3. ASSUME NEW t \in Stream, NEW j \in Conns, r.c[j].s = t
        PROVE  BufferOf(m', t) = {} /\ BufferOf(r, t) = {}
    <3>1. r.rbuf = Erased \/ r.rbuf[1] # t
      BY <1>2, <2>3, Consts DEF WithCid
    <3> QED BY <2>1, <3>1 DEF BufferOf
  <2>4. ASSUME NEW t \in Stream
        PROVE  ConnAt(m', t) = ConnAt(m, t)
    <3>1. Stays(r, m', t)
      BY <2>1, <2>3 DEF Stays, AskedOf, SendingOf
    <3> QED BY <3>1, StaysSame
  <2> QED BY <1>2, <2>1, <2>2, <2>4, Unseen
<1>3. CASE found # {} /\ r.routing = NoPkt /\ m' = [FreeRead(r) EXCEPT !.routing = q]
           /\ net' = Sending(net, q)
  <2>1. PICK s \in Stream, k \in Seqno : /\ i \in Conns /\ r.rbuf = <<s, k>> /\ r.rbuf # Erased
                                        /\ r.c[i].s = s /\ r.rbuf[1] = s /\ r.rbuf[2] = k
    BY <1>0, <1>3, TheCid
  <2>2. /\ m'.c = r.c /\ m'.routing = q /\ m'.wbuf = r.wbuf
        /\ m'.writebusy = r.writebusy /\ m'.rbuf = Erased /\ m'.readbusy = FALSE
        /\ m'.rlist = r.rlist /\ m'.log = r.log
        /\ m'.sent = r.sent /\ m'.opened = r.opened /\ m'.closed = r.closed
        /\ m'.aired = r.aired /\ m'.posted = r.posted /\ m'.pending = r.pending
    BY <1>3 DEF FreeRead, Mote, RecType
  <2>3. q = Pkt(s, "DATA_RETX", k) /\ q.flag = "DATA_RETX" /\ q.s = s
    BY <2>1 DEF Pkt
  <2>4. s \in r.opened /\ s # None /\ k <= r.sent[s]
    BY <1>0, <2>1, Consts DEF Apart, Held, WasSent
  <2>5. RefInv(m', net)
    BY <2>2, <2>3, <2>4, FreedRef
  <2>6. RefInv(m', net')
    <3>1. \A p \in net' : p \in net \/ p = q
      BY <1>3 DEF Sending
    <3>2. Asks(m', net')
      BY <2>3, <2>5, <3>1 DEF RefInv, Asks
    <3> QED BY <2>5, <3>2 DEF RefInv
  <2>7. Drop(r, m', i, k)
    <3>1. \A t \in Stream : SendingOf(m', t) = "no" /\ SendingOf(r, t) = "no"
      BY <1>3, <2>2, <2>3 DEF SendingOf, NoPkt
    <3>2. \A t \in Stream : BufferOf(m', t) = {} /\ BufferOf(r, t) = IF t = s THEN {k} ELSE {}
      BY <1>0, <2>1, <2>2 DEF BufferOf, Reading
    <3>3. \A j \in Conns : AskedOf(m', j) = AskedOf(r, j)
      BY <2>2 DEF AskedOf
    <3>4. PICK A : A = AskedOf(r, i)
      OBVIOUS
    <3>5. k \in A \cup {k} /\ A \cup {} \in {A \cup {k}, (A \cup {k}) \ {k}}
      <4>1. CASE k \in A
        <5>1. A \cup {} = A \cup {k}
          BY <4>1
        <5> QED BY <5>1
      <4>2. CASE k \notin A
        <5>1. A \cup {} = (A \cup {k}) \ {k}
          BY <4>2
        <5> QED BY <5>1
      <4> QED BY <4>1, <4>2
    <3>6. ASSUME NEW t \in Stream, NEW j \in Conns \ {i}, r.c[j].s = t
          PROVE  AskedOf(m', j) \cup BufferOf(m', t) = AskedOf(r, j) \cup BufferOf(r, t)
      <4>1. t # s
        BY <1>0, <2>1, <2>4, <3>6 DEF Apart
      <4> QED BY <3>2, <3>3, <4>1
    <3> QED BY <2>1, <2>2, <3>1, <3>2, <3>3, <3>4, <3>5, <3>6 DEF Drop
  <2>8. PICK a : a = ConnAt(m, s) /\ a = ConnAt(r, s)
    OBVIOUS
  <2>9. Drops(r, i, s, k, a, ConnAt(m', s))
    BY <1>0, <2>1, <2>7, <2>8, Dropped
  <2>10. PICK R \in {a.recover, a.recover \ {k}} : ConnAt(m', s) = [a EXCEPT !.recover = R]
    BY ONLY <2>9 DEF Drops
  <2>11. /\ a.state \notin {"UNOPENED", "IDLE"} /\ k \in a.recover
         /\ a.lastSent = r.c[i].lastSent /\ a.sending = "no"
    <3>1. SendingOf(r, s) = "no"
      BY <1>3 DEF SendingOf, NoPkt
    <3> QED BY ONLY <2>9, <3>1 DEF Drops
  <2>12. SeqCmp(a.lastSent, k) >= 0 /\ k <= m.sent[s]
    <3>1. PICK l \in 1 .. MaxData : l = r.sent[s] /\ k \in 1 .. MaxData /\ k <= l
      <4>1. r.sent[s] \in 0 .. MaxData
        BY DEF Mote, RecType
      <4> QED BY <2>4, <4>1, Consts
    <3>2. r.c[i].lastSent = l
      <4>1. CountedAt(r, i, s)
        BY <1>0, <2>1 DEF Counted
      <4>2. r.c[i].state \in States \ {"IDLE"}
        BY <2>1, LiveState
      <4>3. l # 0 /\ l = r.sent[s]
        BY <3>1
      <4> QED BY <4>1, <4>2, <4>3 DEF CountedAt, States
    <3>3. l \in Unwrapped /\ k \in Unwrapped
      <4>1. /\ MaxData + TrValidRange <= TrMaxSeqno /\ MaxData \in Nat
            /\ TrValidRange \in Nat /\ TrMaxSeqno \in Nat
        BY Fits, Consts, TrSeqnoAssumption
      <4> QED BY <3>1, <4>1 DEF Unwrapped
    <3>4. ~(SeqCmp(l, k) < 0) /\ SeqCmp(l, k) \in -1 .. 1
      BY <3>1, <3>3, CmpUnwrapped
    <3> QED BY <2>4, <2>11, <3>2, <3>4
  <2>13. Turns(s, [a EXCEPT !.recover = R])
    <3>1. \A t \in Stream : t # s => ConnAt(m', t) = ConnAt(m, t)
      BY <1>0, <2>1, <2>7, Dropped
    <3> QED BY <2>10, <3>1 DEF Turns
  <2>14. Sender!SenderNext
    <3>1. net' = Sending(net, Pkt(s, "DATA_RETX", k)) /\ m'.sent = m.sent
      BY <1>3, <2>2, <2>3
    <3> QED BY <2>8, <2>11, <2>12, <2>13, <3>1, AsRetransmit
  <2> QED BY <2>6, <2>14 DEF Steps
<1> QED BY <1>0, <1>1, <1>2, <1>3 DEF retransmitDataPacket, HandsOver

LEMMA SendFirstRef ==
  ASSUME NEW r \in Mote, RefInv(r, net), OweInv(r, net), r.sent = m.sent, OweInv(m', net'),
         m' \in Mote, \A t \in Stream : ConnAt(r, t) = ConnAt(m, t), NEW ok \in BOOLEAN,
         NEW from, NEW to, NEW flag,
         \/ from = "SYN_SEND" /\ to = "SYN_ACK_WAIT" /\ flag = "SYN"
         \/ from = "FIN_SEND" /\ to = "FIN_ACK_WAIT" /\ flag = "FIN",
         SendFirst(r, from, to, flag, ok)
  PROVE  RefInv(m', net') /\ Steps
<1> DEFINE found == {j \in Conns : r.c[j].state = from}
           i     == Min(found)
<1>1. CASE m' = r /\ UNCHANGED net
  BY <1>1, Unseen
<1>2. CASE m' = TryLater(r, flag) /\ UNCHANGED net
  <2>1. flag \in Flag \ {"RETRANSMIT"}
    BY DEF Flag
  <2>2. RefInv(m', net) /\ m'.sent = r.sent /\ \A t \in Stream : ConnAt(m', t) = ConnAt(r, t)
    BY <1>2, <2>1, TryLaterRef
  <2>3. \A t \in Stream : ConnAt(m', t) = ConnAt(m, t)
    BY <2>2
  <2> QED BY <1>2, <2>2, <2>3, Unseen
<1>3. CASE /\ found # {} /\ r.routing = NoPkt
           /\ \E q, w : /\ q = Pkt(r.c[i].s, flag, IF flag = "SYN" THEN 0
                                                  ELSE SeqNext(r.c[i].lastSent))
                        /\ w = [r EXCEPT !.c[i].state = to, !.timer[i] = TRUE,
                                         !.aired = @ \cup {<<r.c[i].s, flag>>}]
                        /\ m' = [w EXCEPT !.routing = q] /\ net' = Sending(net, q)
  <2>0. r.routing.flag = "none"
    <3>1. r.routing = NoPkt
      BY <1>3, ZenonT(30)
    <3> QED BY ONLY <3>1 DEF NoPkt
  <2>1. PICK h \in Conns : h = i /\ r.c[h].state = from
    BY <1>3, LeastConn, Zenon
  <2>2. PICK s \in Stream : r.c[h].s = s /\ r.c[h] \in ConnType
    <3>1. r.c[h] \in ConnType /\ r.c[h].s # None
      BY <2>1 DEF Mote, RecType
    <3> QED BY <3>1 DEF ConnType
  <2>3. PICK q, w : /\ q = Pkt(s, flag, IF flag = "SYN" THEN 0 ELSE SeqNext(r.c[h].lastSent))
                    /\ w = [r EXCEPT !.c[h].state = to, !.timer[h] = TRUE,
                                     !.aired = @ \cup {<<s, flag>>}]
                    /\ m' = [w EXCEPT !.routing = q] /\ net' = Sending(net, q)
    BY <1>3, <2>1, <2>2, ZenonT(30)
  <2>4. /\ w.c = [r.c EXCEPT ![h].state = to] /\ w.wbuf = r.wbuf
        /\ w.writebusy = r.writebusy /\ w.rbuf = r.rbuf /\ w.readbusy = r.readbusy
        /\ w.rlist = r.rlist /\ w.log = r.log /\ w.sent = r.sent /\ w.opened = r.opened
        /\ w.closed = r.closed /\ w.aired = r.aired \cup {<<s, flag>>}
        /\ w.posted = r.posted /\ w.pending = r.pending /\ "routing" \in DOMAIN w
    BY <2>3 DEF Mote, RecType
  <2>5. /\ m'.c = [r.c EXCEPT ![h].state = to] /\ m'.wbuf = r.wbuf
        /\ m'.writebusy = r.writebusy /\ m'.rbuf = r.rbuf /\ m'.readbusy = r.readbusy
        /\ m'.rlist = r.rlist /\ m'.log = r.log /\ m'.sent = r.sent /\ m'.opened = r.opened
        /\ m'.closed = r.closed /\ m'.aired = r.aired \cup {<<s, flag>>}
        /\ m'.posted = r.posted /\ m'.pending = r.pending /\ m'.routing = q
    BY <2>3, <2>4
  <2>6. /\ m'.c[h].s = s /\ m'.c[h].state = to /\ m'.c[h].lastSent = r.c[h].lastSent
        /\ m'.c[h].finCnt = r.c[h].finCnt /\ \A j \in Conns \ {h} : m'.c[j] = r.c[j]
    BY <2>1, <2>2, <2>5 DEF ConnType, Mote, RecType
  <2>7. \A j \in Conns : m'.c[j].s = r.c[j].s
    BY <2>2, <2>6
  <2>8. /\ Names(r) /\ Counted(r) /\ Asks(r, net) /\ Tokens(r) /\ Held(r) /\ ReadsAsked(r)
        /\ Apart(r) /\ Apart(m') /\ s # None /\ q.s = s /\ q.flag = flag /\ s \in r.opened
    BY <2>2, <2>3, Consts DEF RefInv, OweInv, Apart, Pkt
  <2>9. Names(m')
    <3>1. \A j \in Conns : m'.c[j].s = None => m'.c[j] = IdleConn
      BY <2>6, <2>8 DEF Names
    <3> QED BY <2>5, <2>8, <3>1 DEF Names
  <2>10. Counted(m')
    <3>1. CountedAt(r, h, s)
      BY <2>2, <2>8, SMTT(30) DEF Counted
    <3>2. CountedAt(m', h, s)
      BY <2>1, <2>5, <2>6, <3>1 DEF CountedAt
    <3>3. SynFirst(m')
      BY <2>1, <2>5, <2>8, <3>1 DEF CountedAt, SynFirst
    <3>4. \A t \in Stream : m'.c[h].s # t =>
            m'.sent[t] = r.sent[t] /\ (<<t, "FIN">> \in m'.aired => <<t, "FIN">> \in r.aired)
      BY <2>5, <2>6
    <3>5. \A t \in Stream : m'.c[h].s = t => CountedAt(m', h, t)
      BY <2>6, <3>2
    <3> QED BY ONLY <2>6, <2>8, <3>3, <3>4, <3>5, CountedBut
  <2>11. Asks(m', net')
    <3>1. \A t \in Stream \cup {None} : MayMiss(r, t) => MayMiss(m', t)
      BY <2>5 DEF MayMiss
    <3>2. Asks(m', net)
      <4>1. m'.rlist = r.rlist
        BY <2>5
      <4> QED BY <2>7, <2>8, <3>1, <4>1, StillAsks
    <3>3. \A p \in net' : p \in net \/ p = q
      BY <2>3 DEF Sending
    <3>4. q.flag # "NACK"
      BY <2>8
    <3> QED BY ONLY <3>2, <3>3, <3>4 DEF Asks
  <2>12. Tokens(m') /\ Held(m') /\ ReadsAsked(m')
    <3>1. Retransmits(m') = Retransmits(r)
      BY <2>5 DEF Retransmits
    <3>2. \A t \in Stream : r.sent[t] <= m'.sent[t]
      <4>1. m'.sent = r.sent
        BY <2>5
      <4> QED BY <4>1, SentGrows
    <3>3. \A j \in Conns : StillConn(r, m', j)
      BY <2>7 DEF StillConn
    <3> QED BY <2>5, <2>8, <3>1, <3>2, <3>3, RestKept
  <2>13. SendingOf(m', s) = flag /\ SendingOf(r, s) = "no"
    <3>1. m'.routing.s = s /\ m'.routing.flag = flag /\ flag \in {"SYN", "FIN"}
      BY <2>5, <2>8
    <3> QED BY ONLY <2>0, <3>1 DEF SendingOf
  <2>14. PICK cl, re : /\ Here(r, h, s) = Shape(from, cl, "no", r.c[h].lastSent,
                                               r.c[h].finCnt, re)
                       /\ Here(m', h, s) = Shape(to, cl, flag, r.c[h].lastSent,
                                                r.c[h].finCnt, re)
    <3>1. /\ s \in m'.closed <=> s \in r.closed
          /\ AskedOf(m', h) \cup BufferOf(m', s) = AskedOf(r, h) \cup BufferOf(r, s)
      BY <2>5 DEF AskedOf, BufferOf
    <3>2. \E cl, re :
           /\ Here(r, h, s) = Shape(r.c[h].state, cl, SendingOf(r, s), r.c[h].lastSent,
                                    r.c[h].finCnt, re)
           /\ Here(m', h, s) = Shape(m'.c[h].state, cl, SendingOf(m', s), m'.c[h].lastSent,
                                    m'.c[h].finCnt, re)
      BY ONLY <3>1, HereShape
    <3> QED BY <2>1, <2>6, <2>13, <3>2, ZenonT(30)
  <2>15. PICK a : a = ConnAt(m, s) /\ a = Here(r, h, s)
    <3>1. ConnAt(r, s) = Here(r, h, s)
      BY <2>2, <2>8, ConnHere
    <3> QED BY <3>1
  <2>16. ConnAt(m', s) = [a EXCEPT !.state = to, !.sending = flag]
    <3>1. ConnAt(m', s) = Here(m', h, s)
      BY <2>6, <2>8, ConnHere
    <3>2. a = Shape(from, cl, "no", r.c[h].lastSent, r.c[h].finCnt, re)
      BY <2>14, <2>15
    <3>3. Hands(a, to, flag) = Shape(to, cl, flag, r.c[h].lastSent, r.c[h].finCnt, re)
      BY ONLY <3>2, Reshaped
    <3>4. ConnAt(m', s) = Hands(a, to, flag)
      BY ONLY <2>14, <3>1, <3>3
    <3> QED BY ONLY <3>4 DEF Hands
  <2>17. ASSUME NEW t \in Stream, t # s
         PROVE  ConnAt(m', t) = ConnAt(m, t)
    <3>1. /\ r.c[h].s # t /\ m'.c[h].s # t
          /\ (t \in m'.opened <=> t \in r.opened) /\ (t \in m'.closed <=> t \in r.closed)
          /\ \A j \in Conns \ {h} : m'.c[j] = r.c[j] /\ AskedOf(m', j) = AskedOf(r, j)
      BY <2>2, <2>5, <2>6, <2>17 DEF AskedOf
    <3>2. SendingOf(m', t) = SendingOf(r, t) /\ BufferOf(m', t) = BufferOf(r, t)
      <4>1. SendingOf(m', t) = "no" /\ SendingOf(r, t) = "no"
        <5>1. m'.routing.s = s
          BY <2>5, <2>8
        <5> QED BY ONLY <2>0, <2>17, <5>1 DEF SendingOf
      <4>2. BufferOf(m', t) = BufferOf(r, t)
        BY <2>5 DEF BufferOf
      <4> QED BY <4>1, <4>2
    <3>3. ConnAt(m', t) = ConnAt(r, t)
      BY ONLY <3>1, <3>2, OthersStay, h \in Conns, t \in Stream
    <3> QED BY <3>3
  <2>18. Turns(s, [a EXCEPT !.state = to, !.sending = flag])
    BY <2>16, <2>17 DEF Turns
  <2>19. a.state = from /\ a.sending = "no" /\ a.lastSent = r.c[h].lastSent
    <3>1. a = Shape(from, cl, "no", r.c[h].lastSent, r.c[h].finCnt, re)
      BY <2>14, <2>15
    <3> QED BY ONLY <3>1, Fields
  <2>20. Sender!SenderNext
    <3>1. m'.sent = m.sent
      BY <2>5
    <3>2. CASE flag = "SYN"
      <4>1. net' = Sending(net, Pkt(s, "SYN", 0))
        BY <2>3, <3>2
      <4> QED BY <2>15, <2>18, <2>19, <3>1, <3>2, <4>1, AsSYN
    <3>3. CASE flag = "FIN"
      <4>1. net' = Sending(net, Pkt(s, "FIN", SeqNext(a.lastSent)))
        BY <2>3, <2>19, <3>3
      <4> QED BY <2>15, <2>18, <2>19, <3>1, <3>3, <4>1, AsFIN
    <3> QED BY <3>2, <3>3
  <2> QED BY <2>9, <2>10, <2>11, <2>12, <2>20 DEF RefInv, Steps
<1> QED BY <1>1, <1>2, <1>3, Zenon DEF SendFirst, HandsOver

LEMMA TaskRef ==
  ASSUME Settled, Roomy, Typed, Typed', RefInv(m, net), OweInv(m, net), OweInv(m', net'),
         NEW ok \in BOOLEAN, RunTask(ok)
  PROVE  RefInv(m', net') /\ Steps
<1>1. m.posted # <<>> /\ m.posted \in Seq(TaskName)
  BY DEF RunTask, Typed, Mote, RecType
<1>2. Head(m.posted) \in TaskName
  BY <1>1, HeadTailProperties
<1>3. PICK r \in Mote :
           /\ r = [m EXCEPT !.posted = Tail(@)]
           /\ RefInv(r, net) /\ OweInv(r, net) /\ r.sent = m.sent
           /\ \A s \in Stream : ConnAt(r, s) = ConnAt(m, s)
           /\ Head(m.posted) = "retransmitDataPacket" =>
                Retransmits(r) = {} /\ "RETRANSMIT" \notin r.pending /\ InHand(r)
  BY <1>1, Popped
<1>4. Apart(r) /\ m' \in Mote
  BY <1>3 DEF OweInv, Typed
<1>5. ASSUME RefInv(m', net), m'.sent = r.sent, UNCHANGED net,
             \A s \in Stream : ConnAt(m', s) = ConnAt(r, s)
      PROVE  RefInv(m', net') /\ Steps
  <2>1. \A s \in Stream : ConnAt(m', s) = ConnAt(m, s)
    BY <1>3, <1>5
  <2> QED BY <1>3, <1>5, <2>1, Unseen
<1>6. CASE Head(m.posted) = "writeLogger"
  <2>1. m' = writeLogger(r) /\ UNCHANGED net
    BY <1>3, <1>6 DEF RunTask
  <2> QED BY <1>3, <1>4, <1>5, <2>1, WriteRef
<1>7. CASE Head(m.posted) = "readLogger"
  <2>1. m' = readLogger(r) /\ UNCHANGED net
    BY <1>3, <1>7 DEF RunTask
  <2> QED BY <1>3, <2>1, ReadRef
<1>8. CASE Head(m.posted) = "eraseLogger"
  <2>1. m' = eraseLogger(r) /\ UNCHANGED net
    BY <1>3, <1>8 DEF RunTask
  <2> QED BY <1>3, <1>5, <2>1, EraseRef
<1>9. CASE Head(m.posted) = "retransmitDataPacket"
  <2>1. retransmitDataPacket(r, ok)
    BY <1>3, <1>9 DEF RunTask
  <2> QED BY <1>3, <1>9, <2>1, RetransmitRef
<1>10. CASE Head(m.posted) = "send_SYN"
  <2>1. SendFirst(r, "SYN_SEND", "SYN_ACK_WAIT", "SYN", ok)
    BY <1>3, <1>10 DEF RunTask, send_SYN
  <2> QED BY <1>3, <1>4, <2>1, SendFirstRef
<1>11. CASE Head(m.posted) = "send_FIN"
  <2>1. SendFirst(r, "FIN_SEND", "FIN_ACK_WAIT", "FIN", ok)
    BY <1>3, <1>11 DEF RunTask, send_FIN
  <2> QED BY <1>3, <1>4, <2>1, SendFirstRef
<1> QED BY <1>2, <1>6, <1>7, <1>8, <1>9, <1>10, <1>11 DEF TaskName

-----------------------------------------------------------------------------
(* The end of a read.                                                      *)

LEMMA PostRetransmit ==
  ASSUME NEW r \in Mote, Retransmits(r) = {}, NEW q,
         q.posted = Append(r.posted, "retransmitDataPacket")
  PROVE  \A j, k \in Retransmits(q) : j = k
<1>1. PICK n \in Nat : n = Len(r.posted) /\ DOMAIN r.posted = 1 .. n /\ r.posted \in Seq(TaskName)
  BY LenProperties DEF Mote, RecType
<1>2. DOMAIN q.posted = 1 .. (n + 1) /\ \A k \in 1 .. n : q.posted[k] = r.posted[k]
  BY <1>1, AppendProperties, LenProperties DEF TaskName
<1>3. \A j \in Retransmits(q) : j = n + 1
  BY <1>1, <1>2 DEF Retransmits
<1> QED BY <1>3

LEMMA ReadDoneRef ==
  ASSUME Typed, Typed', RefInv(m, net), OweInv(m, net), NEW ok \in BOOLEAN, readDone(ok)
  PROVE  RefInv(m', net') /\ Steps
<1>0. /\ Names(m) /\ Counted(m) /\ Asks(m, net) /\ Tokens(m) /\ Held(m) /\ ReadsAsked(m)
      /\ Apart(m) /\ m.log.op.kind = "read" /\ UNCHANGED net /\ Reading(m) /\ m.readbusy
      /\ m \in Mote /\ ~InHand(m) /\ Retransmits(m) = {} /\ "RETRANSMIT" \notin m.pending
  BY DEF RefInv, OweInv, readDone, Typed, Tokens, Reading, InHand
<1>1. PICK r : r = [m EXCEPT !.eeprom = "idle", !.log.op = NoOp]
  OBVIOUS
<1>2. /\ r.c = m.c /\ r.routing = m.routing /\ r.wbuf = m.wbuf /\ r.writebusy = m.writebusy
      /\ r.rbuf = m.rbuf /\ r.readbusy = m.readbusy /\ r.rlist = m.rlist /\ r.sent = m.sent
      /\ r.opened = m.opened /\ r.closed = m.closed /\ r.aired = m.aired
      /\ r.posted = m.posted /\ r.pending = m.pending /\ r.log.op = NoOp
      /\ r.log.vol = m.log.vol /\ r.log.op.kind = "none"
  BY <1>0, <1>1, ZeroTyped DEF Mote, RecType, LogType
<1>n. r \in Mote
  BY <1>0, <1>1, ZeroTyped, ZenonT(30) DEF Mote, RecType, LogType
<1>b. \A t \in Stream : BufferOf(m, t) = {}
  BY <1>0 DEF BufferOf
<1>3. CASE ok
  <2>1. PICK w : w = [r EXCEPT !.rbuf = ReadContents(m.log),
                               !.rlist = IF @ = <<>> THEN @ ELSE Tail(@)]
    OBVIOUS
  <2>2. m' = Post(w, "retransmitDataPacket")
    BY <1>1, <1>3, <2>1 DEF readDone
  <2>3. /\ w.c = m.c /\ w.routing = m.routing /\ w.wbuf = m.wbuf
        /\ w.writebusy = m.writebusy /\ w.readbusy = m.readbusy /\ w.sent = m.sent
        /\ w.opened = m.opened /\ w.closed = m.closed /\ w.aired = m.aired
        /\ w.posted = m.posted /\ w.pending = m.pending /\ w.log = r.log
        /\ w.rbuf = BeingRead(m) /\ "posted" \in DOMAIN w
        /\ w.rlist = IF m.rlist = <<>> THEN m.rlist ELSE Tail(m.rlist)
    BY <1>2, <1>n, <2>1 DEF ReadContents, BeingRead, Mote, RecType
  <2>4. /\ m'.c = m.c /\ m'.routing = m.routing /\ m'.wbuf = m.wbuf
        /\ m'.writebusy = m.writebusy /\ m'.readbusy = m.readbusy /\ m'.sent = m.sent
        /\ m'.opened = m.opened /\ m'.closed = m.closed /\ m'.aired = m.aired
        /\ m'.posted = Append(m.posted, "retransmitDataPacket") /\ m'.pending = m.pending
        /\ m'.rbuf = BeingRead(m) /\ m'.log = r.log
        /\ m'.rlist = IF m.rlist = <<>> THEN m.rlist ELSE Tail(m.rlist)
    BY <2>2, <2>3 DEF Post
  <2>5. PICK p \in Buf : p = BeingRead(m) /\ WasSent(m, p)
    <3>1. m.log.op.vol \in Volumes /\ m.log.op.idx \in Indexes
      BY <1>0 DEF Mote, RecType, LogType, OpType
    <3>2. BeingRead(m) \in Buf
      BY <1>0, <3>1 DEF BeingRead, Mote, RecType, LogType
    <3> QED BY <1>0, <3>1, <3>2 DEF BeingRead, Held, WasSent
  <2>6. Held(m') /\ ReadsAsked(m')
    <3>1. WasSent(m', m'.rbuf) /\ (m'.writebusy => WasSent(m', m'.wbuf))
      BY <1>0, <2>4, <2>5 DEF WasSent, Held
    <3>2. m'.log.vol = m.log.vol /\ m'.log.op.kind = "none"
      BY <1>2, <2>4
    <3>3. \A v \in Volumes : \A x \in Indexes : m'.log.vol[v][x] # Erased =>
            /\ WasSent(m', m'.log.vol[v][x]) /\ LiesAt(m', v, m'.log.vol[v][x])
            /\ m'.log.vol[v][x][2] = x + 1
      BY <1>0, <2>4, <3>2 DEF WasSent, LiesAt, Held
    <3> QED BY <3>1, <3>2, <3>3 DEF Held, ReadsAsked, Reading
  <2>7. Tokens(m')
    <3>1. \A j, k \in Retransmits(m') : j = k
      BY <1>0, <2>4, PostRetransmit
    <3>2. InHand(m') /\ ~Reading(m')
      BY <1>0, <1>2, <2>4 DEF InHand, Reading
    <3> QED BY <1>0, <2>4, <3>1, <3>2 DEF Tokens
  <2>8. \A t \in Stream : SendingOf(m', t) = SendingOf(m, t)
    BY <2>4 DEF SendingOf
  <2>9. \A t \in Stream : BufferOf(m', t) = IF p # Erased /\ p[1] = t THEN {p[2]} ELSE {}
    BY <1>0, <1>2, <2>4, <2>5 DEF BufferOf
  <2>10. CASE m.rlist = <<>>
    <3>1. p = Erased \/ \A i \in Conns : m.c[i].s # p[1]
      <4>1. \A x : x \notin Range(m.rlist)
        BY <2>10 DEF Range
      <4> QED BY <1>0, <2>5, <4>1 DEF ReadsAsked
    <3>2. ASSUME NEW t \in Stream
          PROVE  ConnAt(m', t) = ConnAt(m, t)
      <4>1. Stays(m, m', t)
        BY <1>b, <2>4, <2>8, <2>9, <2>10, <3>1 DEF Stays, AskedOf
      <4> QED BY <4>1, StaysSame
    <3>3. Names(m') /\ Counted(m') /\ Asks(m', net)
      BY <1>0, <2>4, <2>10, SameCount
    <3>4. RefInv(m', net)
      BY <2>6, <2>7, <3>3 DEF RefInv
    <3> QED BY <1>0, <2>4, <3>2, <3>4, Unseen
  <2>11. CASE m.rlist # <<>>
    <3>1. PICK i \in Conns, k \in Seqno :
             /\ i = Head(m.rlist)[1] /\ k = Head(m.rlist)[2]
             /\ Range(m'.rlist) \subseteq Range(m.rlist)
             /\ \A e \in Range(m.rlist) : e = <<i, k>> \/ e \in Range(m'.rlist)
             /\ k \in AskedOf(m, i)
             /\ AskedOf(m', i) \in {AskedOf(m, i), AskedOf(m, i) \ {k}}
             /\ \A j \in Conns \ {i} : AskedOf(m', j) = AskedOf(m, j)
      <4>1. m \in Mote /\ m.rlist # <<>> /\ m'.rlist = Tail(m.rlist)
        BY <1>0, <2>4, <2>11
      <4> QED BY ONLY <4>1, AskedTail, ZenonT(30)
    <3>2. Names(m') /\ Counted(m') /\ Asks(m', net)
      BY <1>0, <2>4, <3>1, SameCount
    <3>3. RefInv(m', net)
      BY <2>6, <2>7, <3>2 DEF RefInv
    <3>4. \A j \in Conns : p # Erased /\ m.c[j].s = p[1] => p[2] \in AskedOf(m, j)
      <4> TAKE j \in Conns
      <4> HAVE p # Erased /\ m.c[j].s = p[1]
      <4>1. <<j, p[2]>> \in Range(m.rlist)
        BY <1>0, <2>5 DEF ReadsAsked
      <4>2. PICK e \in Range(m.rlist) : e = <<j, p[2]>> /\ e[1] = j /\ e[2] = p[2]
        BY <4>1
      <4> QED BY ONLY <4>2 DEF AskedOf
    <3>5. \A t \in Stream : \A j \in Conns : m.c[j].s = t =>
            AskedOf(m', j) \cup BufferOf(m', t) \in
              {AskedOf(m, j), IF j = i THEN AskedOf(m, j) \ {k} ELSE AskedOf(m, j)}
      <4> TAKE t \in Stream
      <4> TAKE j \in Conns
      <4> HAVE m.c[j].s = t
      <4>1. PICK A, B, C : A = AskedOf(m, j) /\ B = AskedOf(m', j) /\ C = BufferOf(m', t)
        OBVIOUS
      <4>2. C = {} \/ (C = {p[2]} /\ p[2] \in A)
        BY <2>9, <3>4, <4>1
      <4>3. B = A \/ (j = i /\ B = A \ {k})
        BY <3>1, <4>1
      <4>4. B \cup C = A \/ (j = i /\ B \cup C = A \ {k})
        <5>1. CASE C = {}
          <6>1. B \cup C = B
            BY <5>1
          <6> QED BY <4>3, <6>1
        <5>2. CASE C = {p[2]} /\ p[2] \in A /\ B = A
          <6>1. B \cup C = A
            BY <5>2
          <6> QED BY <6>1
        <5>3. CASE C = {p[2]} /\ p[2] \in A /\ j = i /\ B = A \ {k} /\ p[2] = k
          <6>1. B \cup C = A
            BY <5>3
          <6> QED BY <6>1
        <5>4. CASE C = {p[2]} /\ p[2] \in A /\ j = i /\ B = A \ {k} /\ p[2] # k
          <6>1. B \cup C = A \ {k}
            BY <5>4
          <6> QED BY <5>4, <6>1
        <5> QED BY <4>2, <4>3, <5>1, <5>2, <5>3, <5>4
      <4> QED BY <4>1, <4>4
    <3>6. Steps
      <4>1. \A t \in Stream : \A j \in Conns \ {i} : m.c[j].s = t =>
              AskedOf(m', j) \cup BufferOf(m', t) = AskedOf(m, j) \cup BufferOf(m, t)
        BY <1>b, <3>5
      <4>2. \A t \in Stream : m.c[i].s = t =>
              /\ k \in AskedOf(m, i) \cup BufferOf(m, t)
              /\ AskedOf(m', i) \cup BufferOf(m', t) \in
                   {AskedOf(m, i) \cup BufferOf(m, t),
                    (AskedOf(m, i) \cup BufferOf(m, t)) \ {k}}
        BY <1>b, <3>1, <3>5
      <4>3. Drop(m, m', i, k)
        BY <2>4, <2>8, <4>1, <4>2 DEF Drop
      <4> QED BY <1>0, <4>3, DropStep
    <3> QED BY <1>0, <3>3, <3>6
  <2> QED BY <2>10, <2>11
<1>4. CASE ~ok
  <2>1. PICK q : q = FreeRead(r)
    OBVIOUS
  <2>2. m' = TryLater(q, "READ_LOGGER")
    BY <1>1, <1>4, <2>1 DEF readDone
  <2>3. /\ q.c = m.c /\ q.routing = m.routing /\ q.wbuf = m.wbuf
        /\ q.writebusy = m.writebusy /\ q.rbuf = Erased /\ q.readbusy = FALSE
        /\ q.rlist = m.rlist /\ q.sent = m.sent /\ q.log = r.log
        /\ q.opened = m.opened /\ q.closed = m.closed /\ q.aired = m.aired
        /\ q.posted = m.posted /\ q.pending = m.pending
    BY <1>2, <1>n, <2>1 DEF FreeRead, Mote, RecType
  <2>4. Names(q) /\ Counted(q) /\ Asks(q, net)
    BY <1>0, <2>3, SameCount
  <2>5. Held(q) /\ ReadsAsked(q)
    BY <1>0, <1>2, <2>3 DEF Held, ReadsAsked, WasSent, LiesAt, Reading
  <2>6. Tokens(q)
    BY <1>0, <1>2, <2>3 DEF Tokens, Retransmits, InHand, Reading
  <2>7. \A t \in Stream : ConnAt(q, t) = ConnAt(m, t)
    <3>1. \A t \in Stream : BufferOf(q, t) = BufferOf(m, t)
      BY <1>b, <2>3 DEF BufferOf
    <3> QED BY <2>3, <3>1, SameConns
  <2>8. q \in Mote
    BY <1>n, <2>1, FreeReadTyped
  <2>9. RefInv(q, net)
    BY <2>4, <2>5, <2>6 DEF RefInv
  <2>10. RefInv(m', net) /\ m'.sent = q.sent /\ \A t \in Stream : ConnAt(m', t) = ConnAt(q, t)
    BY <2>2, <2>8, <2>9, TryLaterRef DEF Flag
  <2>11. \A t \in Stream : ConnAt(m', t) = ConnAt(m, t)
    BY <2>7, <2>10
  <2> QED BY <1>0, <2>3, <2>10, <2>11, Unseen
<1> QED BY <1>3, <1>4

-----------------------------------------------------------------------------
(* A connection goes from one state to another.                            *)
Moved(r, q, h, s) ==
  /\ r.c[h].s = s /\ q.c[h].s = s /\ \A j \in Conns \ {h} : q.c[j] = r.c[j]
  /\ q.wbuf = r.wbuf /\ q.writebusy = r.writebusy /\ q.rbuf = r.rbuf
  /\ q.readbusy = r.readbusy /\ q.rlist = r.rlist /\ q.log = r.log /\ q.sent = r.sent
  /\ q.opened = r.opened /\ q.closed = r.closed /\ q.aired = r.aired
  /\ "RETRANSMIT" \in q.pending <=> "RETRANSMIT" \in r.pending
  /\ Retransmits(q) = Retransmits(r) /\ q.routing \in {r.routing, NoPkt}
  /\ CountedAt(q, h, s) /\ \A t \in Stream : t # s => SendingOf(q, t) = SendingOf(r, t)

(* One record of the connection in r, the other in q.                      *)
Reshapes(r, q, h, s) ==
  \E cl, re :
    /\ ConnAt(r, s) = Shape(r.c[h].state, cl, SendingOf(r, s), r.c[h].lastSent,
                            r.c[h].finCnt, re)
    /\ ConnAt(q, s) = Shape(q.c[h].state, cl, SendingOf(q, s), q.c[h].lastSent,
                            q.c[h].finCnt, re)

LEMMA Moves ==
  ASSUME NEW r \in Mote, NEW n, NEW k, k \subseteq n, RefInv(r, n), NEW q \in Mote,
         Apart(r), Apart(q), NEW h \in Conns, NEW s \in Stream, Moved(r, q, h, s)
  PROVE  /\ RefInv(q, k) /\ Reshapes(r, q, h, s)
         /\ \A t \in Stream : t # s => ConnAt(q, t) = ConnAt(r, t)
<1>a. /\ r.c[h].s = s /\ q.c[h].s = s /\ \A j \in Conns \ {h} : q.c[j] = r.c[j]
      /\ q.wbuf = r.wbuf /\ q.writebusy = r.writebusy /\ q.rbuf = r.rbuf
      /\ q.readbusy = r.readbusy /\ q.rlist = r.rlist /\ q.log = r.log /\ q.sent = r.sent
      /\ q.opened = r.opened /\ q.closed = r.closed /\ q.aired = r.aired
      /\ "RETRANSMIT" \in q.pending <=> "RETRANSMIT" \in r.pending
      /\ Retransmits(q) = Retransmits(r) /\ q.routing \in {r.routing, NoPkt}
      /\ CountedAt(q, h, s) /\ \A t \in Stream : t # s => SendingOf(q, t) = SendingOf(r, t)
  BY DEF Moved
<1> USE <1>a
<1>0. /\ Names(r) /\ Counted(r) /\ Asks(r, n) /\ Tokens(r) /\ Held(r) /\ ReadsAsked(r)
      /\ s # None
  BY Consts DEF RefInv
<1>1. \A j \in Conns : q.c[j].s = r.c[j].s
  OBVIOUS
<1>2. q.routing = r.routing \/ (q.routing.flag = "none" /\ q.routing.s = None)
  BY DEF NoPkt
<1>3. Names(q)
  <2>1. \A j \in Conns : q.c[j].s = None => q.c[j] = IdleConn
    BY <1>0 DEF Names
  <2> QED BY <1>0, <1>2, <2>1 DEF Names
<1>4. Counted(q)
  <2>1. SynFirst(q)
    BY <1>0, <1>2 DEF Counted, SynFirst
  <2>2. \A t \in Stream : q.c[h].s = t => CountedAt(q, h, t)
    OBVIOUS
  <2>3. \A t \in Stream : q.c[h].s # t =>
          q.sent[t] = r.sent[t] /\ (<<t, "FIN">> \in q.aired => <<t, "FIN">> \in r.aired)
    OBVIOUS
  <2> QED BY <1>0, <2>1, <2>2, <2>3, CountedBut
<1>5. Asks(q, k)
  <2>1. \A t \in Stream \cup {None} : MayMiss(r, t) => MayMiss(q, t)
    BY DEF MayMiss
  <2> QED BY <1>0, <1>1, <2>1, StillAsks
<1>6. Tokens(q) /\ Held(q) /\ ReadsAsked(q)
  <2>1. \A t \in Stream : r.sent[t] <= q.sent[t]
    BY SentGrows
  <2>2. \A j \in Conns : StillConn(r, q, j)
    BY <1>1 DEF StillConn
  <2> QED BY <1>0, <2>1, <2>2, RestKept
<1>7. ASSUME NEW t \in Stream, t # s
      PROVE  ConnAt(q, t) = ConnAt(r, t)
  <2>1. /\ r.c[h].s # t /\ q.c[h].s # t
        /\ (t \in q.opened <=> t \in r.opened) /\ (t \in q.closed <=> t \in r.closed)
        /\ \A j \in Conns \ {h} : q.c[j] = r.c[j] /\ AskedOf(q, j) = AskedOf(r, j)
    BY <1>7 DEF AskedOf
  <2>2. SendingOf(q, t) = SendingOf(r, t) /\ BufferOf(q, t) = BufferOf(r, t)
    BY <1>7 DEF BufferOf
  <2> QED BY ONLY <2>1, <2>2, OthersStay, h \in Conns, t \in Stream
<1>8. Reshapes(r, q, h, s)
  <2>1. /\ s \in q.closed <=> s \in r.closed
        /\ AskedOf(q, h) \cup BufferOf(q, s) = AskedOf(r, h) \cup BufferOf(r, s)
    BY DEF AskedOf, BufferOf
  <2>2. PICK cl, re :
           /\ Here(r, h, s) = Shape(r.c[h].state, cl, SendingOf(r, s), r.c[h].lastSent,
                                    r.c[h].finCnt, re)
           /\ Here(q, h, s) = Shape(q.c[h].state, cl, SendingOf(q, s), q.c[h].lastSent,
                                    q.c[h].finCnt, re)
    BY ONLY <2>1, HereShape
  <2>3. ConnAt(r, s) = Here(r, h, s) /\ ConnAt(q, s) = Here(q, h, s)
    BY ConnHere
  <2> QED BY ONLY <2>2, <2>3 DEF Reshapes
<1> QED BY <1>3, <1>4, <1>5, <1>6, <1>7, <1>8 DEF RefInv

(* The routing layer gives back what it was handed and StrSender does not  *)
(* see.                                                                    *)
LEMMA FreesRef ==
  ASSUME NEW r \in Mote, NEW q, NEW n, RefInv(r, n), q.c = r.c, q.wbuf = r.wbuf,
         q.writebusy = r.writebusy, q.rbuf = r.rbuf, q.readbusy = r.readbusy,
         q.rlist = r.rlist, q.log = r.log, q.sent = r.sent, q.opened = r.opened,
         q.closed = r.closed, q.aired = r.aired, q.posted = r.posted,
         q.pending = r.pending, q.routing = NoPkt,
         \A j \in Conns : \A t \in Stream : r.c[j].s = t => SendingOf(r, t) = "no"
  PROVE  RefInv(q, n) /\ \A t \in Stream : ConnAt(q, t) = ConnAt(r, t)
<1>1. q.routing.flag = "none" /\ q.routing.s = None
  BY DEF NoPkt
<1>2. Names(q) /\ Counted(q) /\ Asks(q, n)
  BY <1>1 DEF RefInv, Names, Counted, SynFirst, CountedAt, Asks, MayMiss
<1>3. Held(r) /\ ReadsAsked(r) /\ Tokens(r)
  BY DEF RefInv
<1>4. Held(q)
  BY ONLY <1>3, q.c = r.c, q.opened = r.opened, q.sent = r.sent, q.rbuf = r.rbuf, SMTT(30),
          q.log = r.log, q.wbuf = r.wbuf, q.writebusy = r.writebusy
     DEF Held, WasSent, LiesAt
<1>5. ReadsAsked(q) /\ Tokens(q)
  BY <1>3, ZenonT(30) DEF ReadsAsked, Reading, BeingRead, Tokens, InHand, Retransmits
<1>6. ASSUME NEW t \in Stream
      PROVE  ConnAt(q, t) = ConnAt(r, t)
  <2>1. SendingOf(q, t) = "no"
    BY <1>1 DEF SendingOf
  <2>2. AskedOf(q, 0) = AskedOf(r, 0) /\ AskedOf(q, 1) = AskedOf(r, 1)
    BY DEF AskedOf
  <2>3. BufferOf(q, t) = BufferOf(r, t)
    BY DEF BufferOf
  <2>4. \A j \in Conns : AskedOf(q, j) = AskedOf(r, j)
    BY <2>2, Consts
  <2>5. Stays(r, q, t)
    BY <2>1, <2>3, <2>4 DEF Stays
  <2> QED BY <2>5, StaysSame
<1> QED BY <1>2, <1>4, <1>5, <1>6 DEF RefInv

LEMMA SendDoneRef ==
  ASSUME Typed, Typed', RefInv(m, net), OweInv(m, net), OweInv(m', net'), net = {},
         NEW success \in BOOLEAN, RoutingSend_sendDone(success)
  PROVE  RefInv(m', net') /\ Steps
<1>1. PICK i, found : found = Valid(m, m.routing.s) /\ i = Min(found)
  OBVIOUS
<1>2. PICK r : r = [m EXCEPT !.routing = NoPkt]
  BY Zenon
<1>3. /\ r.c = m.c /\ r.wbuf = m.wbuf /\ r.writebusy = m.writebusy /\ r.rbuf = m.rbuf
      /\ r.readbusy = m.readbusy /\ r.rlist = m.rlist /\ r.log = m.log /\ r.sent = m.sent
      /\ r.opened = m.opened /\ r.closed = m.closed /\ r.aired = m.aired
      /\ r.posted = m.posted /\ r.pending = m.pending /\ r.routing = NoPkt
  BY <1>2 DEF Typed, Mote, RecType
<1>4. r \in Mote /\ m \in Mote /\ m' \in Mote /\ Apart(m) /\ Apart(m') /\ UNCHANGED net
  <2>1. NoPkt \in RouteType
    BY Consts DEF NoPkt, RouteType
  <2>2. r \in RecType
    BY <1>2, <2>1, ZenonT(30) DEF Typed, Mote, RecType
  <2>3. r \in Mote
    BY <1>3, <2>2 DEF Typed, Mote
  <2> QED BY <2>3, Zenon DEF Typed, OweInv, RoutingSend_sendDone
<1>5. /\ found \subseteq Conns
      /\ found # {} => i \in Conns /\ m.c[i].s = m.routing.s /\ m.routing.s # None
  <2>1. found \subseteq Conns
    BY <1>1 DEF Valid
  <2>2. found # {} => i \in found
    BY <1>1, <2>1, LeastConn
  <2> QED BY <1>1, <2>1, <2>2 DEF Valid
<1>6. CASE m.routing.flag \notin {"SYN", "FIN"} \/ found = {}
  <2>1. \A j \in Conns : \A t \in Stream : m.c[j].s = t => SendingOf(m, t) = "no"
    <3>1. m.routing.flag \in {"SYN", "FIN"} =>
            \A j \in Conns : \A t \in Stream : m.c[j].s = t => m.routing.s # t
      BY <1>1, <1>6, Consts DEF Valid
    <3> QED BY <3>1 DEF SendingOf
  <2>2. RefInv(r, net) /\ \A t \in Stream : ConnAt(r, t) = ConnAt(m, t)
    BY <1>3, <1>4, <2>1, FreesRef
  <2>3. m' \in {r, TryLater(r, "READ_LOGGER")} \/
        (found # {} /\ m' \in {[r EXCEPT !.psd[i] = TRUE], Signalled(r, i)})
    BY <1>1, <1>2, <1>6 DEF RoutingSend_sendDone
  <2>4. CASE m' = r
    BY <1>3, <1>4, <2>2, <2>4, Unseen
  <2>5. CASE m' = TryLater(r, "READ_LOGGER")
    <3>1. /\ RefInv(m', net) /\ m'.sent = r.sent
          /\ \A t \in Stream : ConnAt(m', t) = ConnAt(r, t)
      BY <1>4, <2>2, <2>5, TryLaterRef DEF Flag
    <3>2. \A t \in Stream : ConnAt(m', t) = ConnAt(m, t)
      BY <2>2, <3>1
    <3> QED BY <1>3, <1>4, <3>1, <3>2, Unseen
  <2>6. CASE found # {} /\ m' \in {[r EXCEPT !.psd[i] = TRUE], Signalled(r, i)}
    <3>1. /\ RefView(m') = RefView(r) /\ m'.posted = r.posted /\ m'.pending = r.pending
          /\ m'.sent = r.sent
      <4>1. CASE m' = [r EXCEPT !.psd[i] = TRUE]
        BY <1>4, <4>1 DEF RefView, Mote, RecType
      <4>2. CASE m' = [r EXCEPT !.owed = @ \ {r.c[i].s}, !.psd[i] = FALSE]
        BY <1>4, <4>2 DEF RefView, Mote, RecType
      <4> QED BY <2>6, <4>1, <4>2 DEF Signalled
    <3>2. Retransmits(m') = Retransmits(r)
      BY <3>1 DEF Retransmits
    <3>3. RefInv(m', net) /\ \A t \in Stream : ConnAt(m', t) = ConnAt(r, t)
      BY <2>2, <3>1, <3>2, SameRef
    <3>4. \A t \in Stream : ConnAt(m', t) = ConnAt(m, t)
      BY <2>2, <3>3
    <3> QED BY <1>3, <1>4, <3>1, <3>3, <3>4, Unseen
  <2> QED BY <2>3, <2>4, <2>5, <2>6
<1>7. CASE m.routing.flag \in {"SYN", "FIN"} /\ found # {}
  <2>1. PICK s \in Stream : s = m.routing.s /\ m.c[i].s = s /\ s # None
    <3>1. m.c[i].s \in Stream \cup {None}
      BY <1>4, <1>5, <1>7 DEF Mote, RecType, ConnType
    <3> QED BY <1>5, <1>7, <3>1
  <2>2. i \in Conns /\ CountedAt(m, i, s) /\ SynFirst(m) /\ FinAired(m, net)
    BY <1>5, <1>7, <2>1 DEF RefInv, Counted, OweInv
  <2>3. PICK x : x = IF success THEN m.c[i].state
                     ELSE IF m.routing.flag = "SYN" THEN "SYN_SEND" ELSE "FIN_SEND"
    OBVIOUS
  <2>4. /\ m'.c[i].s = s /\ m'.c[i].state = x /\ m'.c[i].lastSent = m.c[i].lastSent
        /\ m'.c[i].finCnt = m.c[i].finCnt /\ \A j \in Conns \ {i} : m'.c[j] = m.c[j]
        /\ m'.wbuf = m.wbuf /\ m'.writebusy = m.writebusy /\ m'.rbuf = m.rbuf
        /\ m'.readbusy = m.readbusy /\ m'.rlist = m.rlist /\ m'.log = m.log
        /\ m'.sent = m.sent /\ m'.opened = m.opened /\ m'.closed = m.closed
        /\ m'.aired = m.aired /\ m'.pending = m.pending /\ m'.routing = NoPkt
        /\ Retransmits(m') = Retransmits(m)
    <3>1. CASE success
      <4>1. m' = r
        BY <1>1, <1>2, <1>7, <3>1 DEF RoutingSend_sendDone
      <4> QED BY <1>3, <2>1, <2>3, <3>1, <4>1 DEF Retransmits
    <3>2. CASE ~success
      <4>0. PICK w : w = [r EXCEPT !.c[i].state = x]
        OBVIOUS
      <4>1. PICK t \in {"send_SYN", "send_FIN"} : m' = Post(w, t)
        <5>1. CASE m.routing.flag = "SYN"
          <6>1. x = "SYN_SEND"
            BY <2>3, <3>2, <5>1
          <6>2. m' = Post([r EXCEPT !.c[i].state = "SYN_SEND"], "send_SYN")
            BY <1>1, <1>2, <1>7, <3>2, <5>1 DEF RoutingSend_sendDone
          <6> QED BY ONLY <4>0, <6>1, <6>2
        <5>2. CASE m.routing.flag = "FIN"
          <6>1. x = "FIN_SEND"
            BY <2>3, <3>2, <5>2
          <6>2. m' = Post([r EXCEPT !.c[i].state = "FIN_SEND"], "send_FIN")
            BY <1>1, <1>2, <1>7, <3>2, <5>2 DEF RoutingSend_sendDone
          <6> QED BY ONLY <4>0, <6>1, <6>2
        <5> QED BY <1>7, <5>1, <5>2
      <4>2. m.c[i] \in ConnType /\ m.c \in [Conns -> ConnType]
        BY <1>4, <2>2 DEF Mote, RecType
      <4>3. /\ w.c = [m.c EXCEPT ![i].state = x] /\ w.wbuf = m.wbuf
            /\ w.writebusy = m.writebusy /\ w.rbuf = m.rbuf /\ w.readbusy = m.readbusy
            /\ w.rlist = m.rlist /\ w.log = m.log /\ w.sent = m.sent
            /\ w.opened = m.opened /\ w.closed = m.closed /\ w.aired = m.aired
            /\ w.posted = m.posted /\ w.pending = m.pending /\ w.routing = NoPkt
            /\ "posted" \in DOMAIN w
        BY <1>3, <1>4, <4>0 DEF Mote, RecType
      <4>4. /\ m'.c = w.c /\ m'.wbuf = w.wbuf
            /\ m'.writebusy = w.writebusy /\ m'.rbuf = w.rbuf /\ m'.readbusy = w.readbusy
            /\ m'.rlist = w.rlist /\ m'.log = w.log /\ m'.sent = w.sent
            /\ m'.opened = w.opened /\ m'.closed = w.closed /\ m'.aired = w.aired
            /\ m'.pending = w.pending /\ m'.routing = w.routing
            /\ m'.posted = Append(w.posted, t)
        BY ONLY <4>1, <4>3 DEF Post
      <4>5. Retransmits(m') = Retransmits(m)
        <5>1. t \in TaskName \ {"retransmitDataPacket"} /\ m'.posted = Append(m.posted, t)
          BY <4>1, <4>3, <4>4 DEF TaskName
        <5> QED BY <1>4, <5>1, PostKeeps
      <4>6. /\ m'.c[i].s = s /\ m'.c[i].state = x /\ m'.c[i].lastSent = m.c[i].lastSent
            /\ m'.c[i].finCnt = m.c[i].finCnt /\ \A j \in Conns \ {i} : m'.c[j] = m.c[j]
        BY <2>1, <2>2, <4>2, <4>3, <4>4 DEF ConnType
      <4> QED BY <4>3, <4>4, <4>5, <4>6
    <3> QED BY <3>1, <3>2
  <2>5. CountedAt(m', i, s)
    <3>1. CASE success
      BY <2>2, <2>3, <2>4, <3>1 DEF CountedAt
    <3>2. CASE ~success /\ m.routing.flag = "SYN"
      <4>1. m.sent[s] = 0 /\ <<s, "FIN">> \notin m.aired
        BY <2>1, <2>2, <3>2 DEF SynFirst, FinAired
      <4> QED BY <2>3, <2>4, <3>2, <4>1 DEF CountedAt
    <3>3. CASE ~success /\ m.routing.flag = "FIN"
      <4>1. m.c[i].lastSent = m.sent[s] \/ m.sent[s] = 0
        <5>1. m.c[i].state \in States \ {"IDLE"}
          BY <1>4, <2>1, <2>2, LiveState
        <5> QED BY <2>2, <5>1 DEF CountedAt, States
      <4> QED BY <2>3, <2>4, <3>3, <4>1 DEF CountedAt
    <3> QED BY <1>7, <3>1, <3>2, <3>3
  <2>6. PICK flag \in {"SYN", "FIN"} : flag = m.routing.flag
    BY <1>7
  <2>7. \A t \in Stream : SendingOf(m', t) = "no" /\ SendingOf(m, t) = IF t = s THEN flag ELSE "no"
    BY <2>1, <2>4, <2>6 DEF SendingOf, NoPkt
  <2>8. /\ RefInv(m', net) /\ Reshapes(m, m', i, s)
        /\ \A t \in Stream : t # s => ConnAt(m', t) = ConnAt(m, t)
    <3>1. Moved(m, m', i, s)
      BY <2>1, <2>2, <2>4, <2>5, <2>7 DEF Moved
    <3> QED BY <1>4, <2>2, <3>1, Moves
  <2>9. PICK a, cl, re, st, la, fi :
          /\ a = ConnAt(m, s) /\ a = Shape(st, cl, flag, la, fi, re) /\ st = m.c[i].state
          /\ ConnAt(m', s) = Shape(x, cl, "no", la, fi, re)
    <3>1. /\ m'.c[i].state = x /\ m'.c[i].lastSent = m.c[i].lastSent
          /\ m'.c[i].finCnt = m.c[i].finCnt
          /\ SendingOf(m', s) = "no" /\ SendingOf(m, s) = flag
      BY <2>4, <2>7
    <3>2. Reshapes(m, m', i, s)
      BY <2>8
    <3> QED BY ONLY <3>1, <3>2 DEF Reshapes
  <2>10. Returns(a, x, "no") = Shape(x, cl, "no", la, fi, re)
    BY ONLY <2>9, Reshaped
  <2>11. a.sending = flag /\ a.state = st
    BY ONLY <2>9, Fields
  <2>12. x = IF success THEN a.state ELSE IF a.sending = "SYN" THEN "SYN_SEND" ELSE "FIN_SEND"
    BY <2>3, <2>6, <2>9, <2>11
  <2>13. Returns(a, x, "no")
           = [a EXCEPT !.sending = "no",
                       !.state = IF success THEN @
                                 ELSE IF a.sending = "SYN" THEN "SYN_SEND" ELSE "FIN_SEND"]
    BY ONLY <2>12 DEF Returns
  <2>14. Turns(s, [a EXCEPT !.sending = "no",
                       !.state = IF success THEN @
                                 ELSE IF a.sending = "SYN" THEN "SYN_SEND" ELSE "FIN_SEND"])
    BY <2>8, <2>9, <2>10, <2>13 DEF Turns
  <2>15. Sender!SenderNext
    <3>1. a.sending \in {"SYN", "FIN"} /\ a = ConnAt(m, s) /\ m'.sent = m.sent
      BY <2>4, <2>6, <2>9, <2>11
    <3> QED BY <1>4, <2>14, <3>1, AsSendDone
  <2> QED BY <1>4, <2>8, <2>15 DEF Steps
<1> QED BY <1>6, <1>7

-----------------------------------------------------------------------------
(* A connection ends.                                                      *)
Ended(r, q, h, s) ==
  /\ q.c = [r.c EXCEPT ![h] = IdleConn] /\ Range(q.rlist) = {x \in Range(r.rlist) : x[1] # h}
  /\ q.aired = {x \in r.aired : x[1] # s} /\ q.closed = r.closed \cup {s}
  /\ q.wbuf = r.wbuf /\ q.writebusy = r.writebusy /\ q.rbuf = r.rbuf
  /\ q.readbusy = r.readbusy /\ q.log = r.log /\ q.sent = r.sent /\ q.opened = r.opened
  /\ q.routing = r.routing /\ q.pending = r.pending /\ Retransmits(q) = Retransmits(r)

LEMMA EndRef ==
  ASSUME NEW r \in Mote, NEW n \in SUBSET Packet, NEW k, k \subseteq n, RefInv(r, n),
         NEW q \in Mote, Apart(r), Apart(q), NEW h \in Conns, NEW s \in Stream, r.c[h].s = s,
         Ended(r, q, h, s)
  PROVE  /\ RefInv(q, k) /\ ConnAt(q, s) = Sender!Reset
         /\ \A t \in Stream : t # s => ConnAt(q, t) = ConnAt(r, t)
<1>0. /\ Names(r) /\ Counted(r) /\ Asks(r, n) /\ Tokens(r) /\ Held(r) /\ ReadsAsked(r)
      /\ s # None /\ s \in r.opened
  BY Consts DEF RefInv, Apart
<1>1. /\ q.c[h].s = None /\ q.c[h] = IdleConn
      /\ \A j \in Conns \ {h} : q.c[j] = r.c[j]
  BY IdleTyped DEF Ended, Mote, RecType
<1>2. \A j \in Conns : q.c[j].s # s
  BY <1>0, <1>1 DEF Apart
<1>3. Names(q)
  <2>1. \A j \in Conns : q.c[j].s = None => q.c[j] = IdleConn
    BY <1>0, <1>1 DEF Names
  <2> QED BY <1>0, <2>1 DEF Names, Ended
<1>4. Counted(q)
  <2>1. SynFirst(q)
    BY <1>0 DEF Counted, SynFirst, Ended
  <2>2. \A t \in Stream : q.c[h].s = t => CountedAt(q, h, t)
    BY <1>1, Consts
  <2>3. \A t \in Stream : q.c[h].s # t =>
          q.sent[t] = r.sent[t] /\ (<<t, "FIN">> \in q.aired => <<t, "FIN">> \in r.aired)
    BY DEF Ended
  <2> QED BY <1>0, <1>1, <2>1, <2>2, <2>3, CountedBut
<1>5. Asks(q, k)
  <2>1. \A t \in Stream : t # s /\ MayMiss(r, t) => MayMiss(q, t)
    BY DEF MayMiss, Ended
  <2>2. ASSUME NEW p \in k, p.flag = "NACK", NEW j \in Conns, q.c[j].s = p.s
        PROVE  MayMiss(q, p.s)
    <3>1. p.s \in Stream /\ p \in n
      BY <2>2 DEF Packet
    <3>2. j # h /\ p.s # s
      BY <1>1, <1>2, <2>2, <3>1, Consts
    <3> QED BY <1>0, <1>1, <2>1, <2>2, <3>1, <3>2 DEF Asks
  <2>3. ASSUME NEW e \in Range(q.rlist), NEW t \in Stream \cup {None}, q.c[e[1]].s = t
        PROVE  t # None /\ MayMiss(q, t)
    <3>1. e \in Range(r.rlist) /\ e[1] # h
      BY <2>3 DEF Ended
    <3>2. e[1] \in Conns
      <4>1. r.rlist \in Seq(Conns \X Seqno)
        BY DEF Mote, RecType
      <4>2. PICK d \in DOMAIN r.rlist : e = r.rlist[d]
        BY <3>1 DEF Range
      <4>3. e \in Conns \X Seqno
        BY <4>1, <4>2
      <4> QED BY <4>3
    <3>3. r.c[e[1]].s = t
      BY <1>1, <2>3, <3>1, <3>2
    <3>4. t # None /\ MayMiss(r, t) /\ t # s
      BY <1>0, <1>2, <2>3, <3>1, <3>2, <3>3 DEF Asks
    <3> QED BY <2>1, <3>4
  <2> QED BY <2>2, <2>3 DEF Asks
<1>6. Tokens(q)
  BY <1>0, TokensKept DEF Ended, Tokens, InHand, Reading
<1>7. Held(q) /\ ReadsAsked(q)
  <2>1. \A t \in Stream : r.sent[t] <= q.sent[t]
    BY SentGrows DEF Ended
  <2>2. \A j \in Conns : StillConn(r, q, j)
    BY <1>1 DEF StillConn
  <2>3. \A j \in Conns : q.c[j].s = r.c[j].s =>
          \A x \in Seqno : <<j, x>> \in Range(r.rlist) => <<j, x>> \in Range(q.rlist)
            \/ q.c[j].s = None
    <3> TAKE j \in Conns
    <3> HAVE q.c[j].s = r.c[j].s
    <3> TAKE x \in Seqno
    <3> HAVE <<j, x>> \in Range(r.rlist)
    <3>1. j # h
      BY <1>0, <1>1
    <3>2. <<j, x>>[1] # h
      BY <3>1
    <3> QED BY <3>2 DEF Ended
  <2>4. /\ q.rbuf = r.rbuf /\ q.log = r.log /\ q.wbuf = r.wbuf /\ q.writebusy = r.writebusy
        /\ q.opened = r.opened
    BY DEF Ended
  <2>5. q.writebusy => r.writebusy /\ q.wbuf = r.wbuf
    BY <2>4
  <2> QED BY <1>0, <2>1, <2>2, <2>3, <2>4, <2>5, SameHeld
<1>8. ConnAt(q, s) = Sender!Reset
  <2>1. ConnAt(q, s) = Absent(q, s)
    BY <1>2, ConnGone
  <2>2. s \in q.opened
    BY <1>0 DEF Ended
  <2> QED BY <2>1, <2>2 DEF Absent, Sender!Reset, Sender!Idle
<1>9. ASSUME NEW t \in Stream, t # s
      PROVE  ConnAt(q, t) = ConnAt(r, t)
  <2>1. \A j \in Conns \ {h} : AskedOf(q, j) = AskedOf(r, j)
    <3> TAKE j \in Conns \ {h}
    <3>1. {x \in Range(q.rlist) : x[1] = j} = {x \in Range(r.rlist) : x[1] = j}
      BY DEF Ended
    <3> QED BY <3>1 DEF AskedOf
  <2>2. /\ r.c[h].s # t /\ q.c[h].s # t
        /\ (t \in q.opened <=> t \in r.opened) /\ (t \in q.closed <=> t \in r.closed)
        /\ \A j \in Conns \ {h} : q.c[j] = r.c[j] /\ AskedOf(q, j) = AskedOf(r, j)
    BY <1>1, <1>9, <2>1, Consts DEF Ended
  <2>3. SendingOf(q, t) = SendingOf(r, t) /\ BufferOf(q, t) = BufferOf(r, t)
    BY DEF SendingOf, BufferOf, Ended
  <2> QED BY ONLY <2>2, <2>3, OthersStay, h \in Conns, t \in Stream
<1> QED BY <1>3, <1>4, <1>5, <1>6, <1>7, <1>8, <1>9 DEF RefInv

LEMMA ResetIs ==
  ASSUME NEW r \in Mote, NEW h \in Conns, NEW s \in Stream, r.c[h].s = s,
         NEW q, q = ResetConnection(r, h)
  PROVE  /\ q.c = [r.c EXCEPT ![h] = IdleConn] /\ q.rlist = r.rlist
         /\ q.aired = {x \in r.aired : x[1] # s} /\ q.closed = r.closed \cup {s}
         /\ q.wbuf = r.wbuf /\ q.writebusy = r.writebusy /\ q.rbuf = r.rbuf
         /\ q.readbusy = r.readbusy /\ q.log = r.log /\ q.sent = r.sent /\ q.opened = r.opened
         /\ q.routing = r.routing /\ q.pending = r.pending /\ q.posted = r.posted
BY DEF ResetConnection, Mote, RecType

(* resetConnection, of a connection of which nothing is asked; and the end *)
(* of one of which something may be.                                       *)
LEMMA ResetEnds ==
  ASSUME NEW r \in Mote, NEW h \in Conns, NEW s \in Stream, r.c[h].s = s,
         NEW n, Asks(r, n), ~MayMiss(r, s), NEW q, q = ResetConnection(r, h)
  PROVE  Ended(r, q, h, s)
<1>1. /\ q.c = [r.c EXCEPT ![h] = IdleConn] /\ q.rlist = r.rlist
      /\ q.aired = {x \in r.aired : x[1] # s} /\ q.closed = r.closed \cup {s}
      /\ q.wbuf = r.wbuf /\ q.writebusy = r.writebusy /\ q.rbuf = r.rbuf
      /\ q.readbusy = r.readbusy /\ q.log = r.log /\ q.sent = r.sent /\ q.opened = r.opened
      /\ q.routing = r.routing /\ q.pending = r.pending /\ q.posted = r.posted
  BY ResetIs
<1>2. \A e \in Range(r.rlist) : e[1] # h
  BY DEF Asks
<1>3. Range(q.rlist) = {x \in Range(r.rlist) : x[1] # h}
  BY <1>1, <1>2
<1>4. Retransmits(q) = Retransmits(r)
  BY <1>1 DEF Retransmits
<1> QED BY <1>1, <1>3, <1>4 DEF Ended

LEMMA FinishedEnds ==
  ASSUME NEW r \in Mote, NEW h \in Conns, NEW s \in Stream, r.c[h].s = s, s # None,
         NEW q, q = Finished(r, h)
  PROVE  Ended(r, q, h, s)
<1>1. PICK w \in Mote : w = ResetConnection(r, h)
  BY ResetTyped
<1>2. /\ w.c = [r.c EXCEPT ![h] = IdleConn] /\ w.rlist = r.rlist
      /\ w.aired = {x \in r.aired : x[1] # s} /\ w.closed = r.closed \cup {s}
      /\ w.wbuf = r.wbuf /\ w.writebusy = r.writebusy /\ w.rbuf = r.rbuf
      /\ w.readbusy = r.readbusy /\ w.log = r.log /\ w.sent = r.sent /\ w.opened = r.opened
      /\ w.routing = r.routing /\ w.pending = r.pending /\ w.posted = r.posted
  BY <1>1, ResetIs
<1>3. PICK v : v = [w EXCEPT !.rlist = ClearID(@, h), !.eraseid = h]
  OBVIOUS
<1>4. /\ v.c = w.c /\ v.rlist = ClearID(w.rlist, h)
      /\ v.aired = w.aired /\ v.closed = w.closed
      /\ v.wbuf = w.wbuf /\ v.writebusy = w.writebusy /\ v.rbuf = w.rbuf
      /\ v.readbusy = w.readbusy /\ v.log = w.log /\ v.sent = w.sent /\ v.opened = w.opened
      /\ v.routing = w.routing /\ v.pending = w.pending /\ v.posted = w.posted
      /\ "posted" \in DOMAIN v
  BY <1>1, <1>3 DEF Mote, RecType
<1>5. /\ q.c = v.c /\ q.rlist = v.rlist /\ q.aired = v.aired /\ q.closed = v.closed
      /\ q.wbuf = v.wbuf /\ q.writebusy = v.writebusy /\ q.rbuf = v.rbuf
      /\ q.readbusy = v.readbusy /\ q.log = v.log /\ q.sent = v.sent /\ q.opened = v.opened
      /\ q.routing = v.routing /\ q.pending = v.pending
      /\ q.posted = Append(v.posted, "eraseLogger")
  <2>1. q = Post(v, "eraseLogger")
    BY <1>1, <1>3 DEF Finished
  <2> QED BY ONLY <1>4, <2>1 DEF Post
<1>6. Retransmits(q) = Retransmits(r)
  <2>1. "eraseLogger" \in TaskName \ {"retransmitDataPacket"}
    BY DEF TaskName
  <2>2. q.posted = Append(r.posted, "eraseLogger")
    BY <1>2, <1>4, <1>5
  <2> QED BY <2>1, <2>2, PostKeeps
<1>7. Range(q.rlist) = {x \in Range(r.rlist) : x[1] # h}
  <2>1. r.rlist \in Seq(Conns \X Seqno)
    BY DEF Mote, RecType
  <2>2. Range(ClearID(r.rlist, h)) = {x \in Range(r.rlist) : x[1] # h}
    BY <2>1, Clears
  <2>3. q.rlist = ClearID(r.rlist, h)
    BY <1>2, <1>4, <1>5
  <2> QED BY <2>2, <2>3
<1> QED BY <1>2, <1>4, <1>5, <1>6, <1>7 DEF Ended

LEMMA TimerRef ==
  ASSUME Typed, Typed', RefInv(m, net), OweInv(m, net), OweInv(m', net'),
         NEW i \in Conns, StateTimerFired(i)
  PROVE  RefInv(m', net') /\ Steps
<1>1. PICK r : r = [m EXCEPT !.timer[i] = FALSE]
  OBVIOUS
<1>2. /\ r.c = m.c /\ r.wbuf = m.wbuf /\ r.writebusy = m.writebusy /\ r.rbuf = m.rbuf
      /\ r.readbusy = m.readbusy /\ r.rlist = m.rlist /\ r.log = m.log /\ r.sent = m.sent
      /\ r.opened = m.opened /\ r.closed = m.closed /\ r.aired = m.aired
      /\ r.posted = m.posted /\ r.pending = m.pending /\ r.routing = m.routing
  BY <1>1 DEF Typed, Mote, RecType
<1>3. /\ r \in Mote /\ m \in Mote /\ m' \in Mote /\ Apart(m) /\ Apart(m') /\ Apart(r)
      /\ UNCHANGED net /\ net \in SUBSET Packet
  <2>1. r \in RecType
    BY <1>1 DEF Typed, Mote, RecType
  <2>2. r \in Mote
    BY <1>2, <2>1 DEF Typed, Mote
  <2>3. Apart(m) /\ Apart(m')
    BY DEF OweInv
  <2>4. Apart(r)
    BY <1>2, <2>3 DEF Apart
  <2> QED BY <2>2, <2>3, <2>4 DEF Typed, StateTimerFired
<1>4. RefInv(r, net) /\ \A t \in Stream : ConnAt(r, t) = ConnAt(m, t)
  <2>1. RefView(r) = RefView(m) /\ Retransmits(r) = Retransmits(m)
    BY <1>2 DEF RefView, Retransmits
  <2> QED BY <1>2, <2>1, SameRef
<1>5. CASE m.c[i].state \notin {"SYN_ACK_WAIT", "FIN_ACK_WAIT"}
  <2>1. m' = r
    BY <1>1, <1>5 DEF StateTimerFired
  <2> QED BY <1>2, <1>3, <1>4, <2>1, Unseen
<1>6. CASE m.c[i].state \in {"SYN_ACK_WAIT", "FIN_ACK_WAIT"}
  <2>1. PICK s \in Stream : m.c[i].s = s /\ s # None
    <3>1. m.c[i] \in ConnType /\ m.c[i].s # None
      BY <1>3, <1>6 DEF Mote, RecType
    <3> QED BY <3>1 DEF ConnType
  <2>2. /\ CountedAt(m, i, s) /\ Asks(m, net) /\ m.c[i] \in ConnType
        /\ m.c[i].lastSent \in Int /\ m.c[i].finCnt \in Int /\ m.c \in [Conns -> ConnType]
    <3>1. m.c[i] \in ConnType /\ m.c \in [Conns -> ConnType]
      BY <1>3 DEF Mote, RecType
    <3>2. m.c[i].lastSent \in Int /\ m.c[i].finCnt \in Int
      BY <3>1, Consts, SMTT(30) DEF ConnType
    <3>3. CountedAt(m, i, s) /\ Asks(m, net)
      BY <2>1 DEF RefInv, Counted
    <3> QED BY <3>1, <3>2, <3>3
  <2>3. PICK a : a = ConnAt(m, s) /\ a = ConnAt(r, s)
    BY <1>4
  <2>4. a = Here(r, i, s) /\ a.state = m.c[i].state /\ a.lastSent = m.c[i].lastSent
        /\ a.finCnt = m.c[i].finCnt
    <3>1. a = Here(r, i, s)
      BY <1>2, <1>3, <2>1, <2>3, ConnHere
    <3> QED BY <1>2, <3>1 DEF Here
  <2>5. ASSUME NEW c, NEW t \in {"send_SYN", "send_FIN"},
               m' = Post([r EXCEPT !.c[i] = c], t), c.s = s,
               CountedAt(m', i, s) \/ c.state = "FIN_SEND"
                 \/ (c.state = "SYN_SEND" /\ m.c[i].state = "SYN_ACK_WAIT"),
               c.lastSent = m.c[i].lastSent \/ c.state # "FIN_SEND"
        PROVE  /\ RefInv(m', net) /\ m'.sent = m.sent /\ m'.c[i] = c
               /\ \A u \in Stream : u # s => ConnAt(m', u) = ConnAt(m, u)
               /\ \E cl, re, se :
                    /\ a = Shape(m.c[i].state, cl, se, m.c[i].lastSent, m.c[i].finCnt, re)
                    /\ ConnAt(m', s) = Shape(c.state, cl, se, c.lastSent, c.finCnt, re)
    <3>1. PICK w : w = [r EXCEPT !.c[i] = c]
      OBVIOUS
    <3>2. /\ w.c = [m.c EXCEPT ![i] = c] /\ w.wbuf = m.wbuf
          /\ w.writebusy = m.writebusy /\ w.rbuf = m.rbuf /\ w.readbusy = m.readbusy
          /\ w.rlist = m.rlist /\ w.log = m.log /\ w.sent = m.sent
          /\ w.opened = m.opened /\ w.closed = m.closed /\ w.aired = m.aired
          /\ w.posted = m.posted /\ w.pending = m.pending /\ w.routing = m.routing
          /\ "posted" \in DOMAIN w
      BY <1>2, <1>3, <3>1 DEF Mote, RecType
    <3>3. /\ m'.c = w.c /\ m'.wbuf = w.wbuf
          /\ m'.writebusy = w.writebusy /\ m'.rbuf = w.rbuf /\ m'.readbusy = w.readbusy
          /\ m'.rlist = w.rlist /\ m'.log = w.log /\ m'.sent = w.sent
          /\ m'.opened = w.opened /\ m'.closed = w.closed /\ m'.aired = w.aired
          /\ m'.pending = w.pending /\ m'.routing = w.routing
          /\ m'.posted = Append(w.posted, t)
      <4>1. m' = Post(w, t)
        BY <2>5, <3>1
      <4> QED BY ONLY <3>2, <4>1 DEF Post
    <3>4. Retransmits(m') = Retransmits(m)
      <4>1. t \in TaskName \ {"retransmitDataPacket"} /\ m'.posted = Append(m.posted, t)
        BY <3>2, <3>3 DEF TaskName
      <4> QED BY <1>3, <4>1, PostKeeps
    <3>5. m'.c[i] = c /\ \A j \in Conns \ {i} : m'.c[j] = m.c[j]
      BY <2>2, <3>2, <3>3
    <3>6. CountedAt(m', i, s)
      <4>1. m'.sent = m.sent /\ m'.aired = m.aired
        BY <3>2, <3>3
      <4> QED BY <1>6, <2>2, <2>5, <3>5, <4>1 DEF CountedAt
    <3>7. \A u \in Stream : SendingOf(m', u) = SendingOf(m, u)
      BY <3>2, <3>3 DEF SendingOf
    <3>8. /\ RefInv(m', net) /\ Reshapes(m, m', i, s)
          /\ \A u \in Stream : u # s => ConnAt(m', u) = ConnAt(m, u)
      <4>1. /\ m'.wbuf = m.wbuf /\ m'.writebusy = m.writebusy /\ m'.rbuf = m.rbuf
            /\ m'.readbusy = m.readbusy /\ m'.rlist = m.rlist /\ m'.log = m.log
            /\ m'.sent = m.sent /\ m'.opened = m.opened /\ m'.closed = m.closed
            /\ m'.aired = m.aired /\ m'.pending = m.pending /\ m'.routing = m.routing
        BY ONLY <3>2, <3>3
      <4>2. m'.c[i].s = s
        BY <2>5, <3>5
      <4>3. Moved(m, m', i, s)
        BY <2>1, <3>4, <3>5, <3>6, <3>7, <4>1, <4>2 DEF Moved
      <4> QED BY <1>3, <4>3, Moves
    <3>9. PICK cl, re, se :
            /\ a = Shape(m.c[i].state, cl, se, m.c[i].lastSent, m.c[i].finCnt, re)
            /\ ConnAt(m', s) = Shape(c.state, cl, se, c.lastSent, c.finCnt, re)
      <4>1. m'.c[i] = c /\ SendingOf(m', s) = SendingOf(m, s) /\ a = ConnAt(m, s)
        BY <2>3, <3>5, <3>7
      <4> QED BY ONLY <3>8, <4>1 DEF Reshapes
    <3>10. m'.sent = m.sent
      BY <3>2, <3>3
    <3> QED BY ONLY <3>5, <3>8, <3>9, <3>10
  <2>6. CASE m.c[i].state = "SYN_ACK_WAIT" /\ m.c[i].lastSent < MaxNumRetx
    <3>1. PICK c : c = [m.c[i] EXCEPT !.lastSent = m.c[i].lastSent + 1, !.state = "SYN_SEND"]
      OBVIOUS
    <3>2. /\ c.s = s /\ c.state = "SYN_SEND" /\ c.lastSent = m.c[i].lastSent + 1
          /\ c.finCnt = m.c[i].finCnt
      BY <2>1, <2>2, <3>1 DEF ConnType
    <3>3. m' = Post([r EXCEPT !.c[i] = c], "send_SYN")
      BY <1>1, <2>6, <3>1 DEF StateTimerFired
    <3>4. /\ RefInv(m', net) /\ m'.sent = m.sent
          /\ \A u \in Stream : u # s => ConnAt(m', u) = ConnAt(m, u)
          /\ \E cl, re, se :
               /\ a = Shape(m.c[i].state, cl, se, m.c[i].lastSent, m.c[i].finCnt, re)
               /\ ConnAt(m', s) = Shape(c.state, cl, se, c.lastSent, c.finCnt, re)
      BY <2>5, <2>6, <3>2, <3>3
    <3>5. PICK cl, re, se, st, la, fi :
            /\ a = Shape(st, cl, se, la, fi, re) /\ la = m.c[i].lastSent
            /\ ConnAt(m', s) = Shape("SYN_SEND", cl, se, la + 1, fi, re)
      BY <3>2, <3>4
    <3>6. Counts(a, "SYN_SEND", la + 1) = Shape("SYN_SEND", cl, se, la + 1, fi, re)
      BY ONLY <3>5, Reshaped
    <3>7. ConnAt(m', s) = [a EXCEPT !.lastSent = a.lastSent + 1, !.state = "SYN_SEND"]
      <4>1. a.lastSent = la
        BY <2>4, <3>5
      <4>2. ConnAt(m', s) = Counts(a, "SYN_SEND", a.lastSent + 1)
        BY ONLY <3>5, <3>6, <4>1
      <4> QED BY ONLY <4>2 DEF Counts
    <3>8. Turns(s, [a EXCEPT !.lastSent = @ + 1, !.state = "SYN_SEND"])
      BY <3>4, <3>7 DEF Turns
    <3>9. Sender!SenderNext
      <4>1. a = ConnAt(m, s) /\ a.state = "SYN_ACK_WAIT" /\ a.lastSent < MaxNumRetx
        BY <2>3, <2>4, <2>6
      <4> QED BY <1>3, <3>4, <3>8, <4>1, AsSynTimeout
    <3> QED BY <1>3, <3>4, <3>9 DEF Steps
  <2>7. CASE m.c[i].state = "SYN_ACK_WAIT" /\ ~(m.c[i].lastSent < MaxNumRetx)
    <3>1. m' = ResetConnection(r, i)
      BY <1>1, <2>7 DEF StateTimerFired
    <3>2. Asks(r, net) /\ ~MayMiss(r, s)
      BY <1>2, <1>4, <2>2, <2>7 DEF RefInv, CountedAt, MayMiss
    <3>3. Ended(r, m', i, s)
      BY <1>2, <1>3, <2>1, <3>1, <3>2, ResetEnds
    <3>4. /\ RefInv(m', net) /\ ConnAt(m', s) = Sender!Reset
          /\ \A t \in Stream : t # s => ConnAt(m', t) = ConnAt(r, t)
      BY <1>2, <1>3, <1>4, <2>1, <3>3, EndRef
    <3>5. m'.sent = m.sent /\ Turns(s, Sender!Reset)
      BY <1>2, <1>4, <3>3, <3>4 DEF Ended, Turns
    <3>6. Sender!SenderNext
      <4>1. /\ a = ConnAt(m, s) /\ a.state = "SYN_ACK_WAIT" /\ ~(a.lastSent < MaxNumRetx)
            /\ a.lastSent >= MaxNumRetx
        <5>1. MaxNumRetx \in Int
          BY Consts
        <5> QED BY <2>2, <2>3, <2>4, <2>7, <5>1
      <4> QED BY <1>3, <3>5, <4>1, AsSynTimeout
    <3> QED BY <1>3, <3>4, <3>6 DEF Steps
  <2>8. CASE m.c[i].state = "FIN_ACK_WAIT" /\ m.c[i].finCnt + 1 < MaxNumRetx
    <3>1. PICK c : c = [m.c[i] EXCEPT !.finCnt = m.c[i].finCnt + 1, !.state = "FIN_SEND"]
      OBVIOUS
    <3>2. /\ c.s = s /\ c.state = "FIN_SEND" /\ c.finCnt = m.c[i].finCnt + 1
          /\ c.lastSent = m.c[i].lastSent
      BY <2>1, <2>2, <3>1 DEF ConnType
    <3>3. m' = Post([r EXCEPT !.c[i] = c], "send_FIN")
      BY <1>1, <2>8, <3>1 DEF StateTimerFired
    <3>4. /\ RefInv(m', net) /\ m'.sent = m.sent
          /\ \A u \in Stream : u # s => ConnAt(m', u) = ConnAt(m, u)
          /\ \E cl, re, se :
               /\ a = Shape(m.c[i].state, cl, se, m.c[i].lastSent, m.c[i].finCnt, re)
               /\ ConnAt(m', s) = Shape(c.state, cl, se, c.lastSent, c.finCnt, re)
      BY <2>5, <2>8, <3>2, <3>3
    <3>5. PICK cl, re, se, st, la, fi :
            /\ a = Shape(st, cl, se, la, fi, re) /\ fi = m.c[i].finCnt
            /\ ConnAt(m', s) = Shape("FIN_SEND", cl, se, la, fi + 1, re)
      BY <3>2, <3>4
    <3>6. Repeats(a, "FIN_SEND", fi + 1) = Shape("FIN_SEND", cl, se, la, fi + 1, re)
      BY ONLY <3>5, Reshaped
    <3>7. ConnAt(m', s) = [a EXCEPT !.finCnt = a.finCnt + 1, !.state = "FIN_SEND"]
      <4>1. a.finCnt = fi
        BY <2>4, <3>5
      <4>2. ConnAt(m', s) = Repeats(a, "FIN_SEND", a.finCnt + 1)
        BY ONLY <3>5, <3>6, <4>1
      <4> QED BY ONLY <4>2 DEF Repeats
    <3>8. Turns(s, [a EXCEPT !.finCnt = @ + 1, !.state = "FIN_SEND"])
      BY <3>4, <3>7 DEF Turns
    <3>9. Sender!SenderNext
      <4>1. a = ConnAt(m, s) /\ a.state = "FIN_ACK_WAIT" /\ a.finCnt + 1 < MaxNumRetx
        BY <2>3, <2>4, <2>8
      <4> QED BY <1>3, <3>4, <3>8, <4>1, AsFinTimeout
    <3> QED BY <1>3, <3>4, <3>9 DEF Steps
  <2>9. CASE m.c[i].state = "FIN_ACK_WAIT" /\ ~(m.c[i].finCnt + 1 < MaxNumRetx)
    <3>1. m' = Finished(r, i)
      BY <1>1, <2>9 DEF StateTimerFired
    <3>2. Ended(r, m', i, s)
      BY <1>2, <1>3, <2>1, <3>1, FinishedEnds
    <3>4. /\ RefInv(m', net) /\ ConnAt(m', s) = Sender!Reset
          /\ \A t \in Stream : t # s => ConnAt(m', t) = ConnAt(r, t)
      BY <1>2, <1>3, <1>4, <2>1, <3>2, EndRef
    <3>5. m'.sent = m.sent /\ Turns(s, Sender!Reset)
      BY <1>2, <1>4, <3>2, <3>4 DEF Ended, Turns
    <3>6. Sender!SenderNext
      <4>1. /\ a = ConnAt(m, s) /\ a.state = "FIN_ACK_WAIT" /\ ~(a.finCnt + 1 < MaxNumRetx)
            /\ a.finCnt + 1 >= MaxNumRetx
        <5>1. MaxNumRetx \in Int
          BY Consts
        <5> QED BY <2>2, <2>3, <2>4, <2>9, <5>1
      <4> QED BY <1>3, <3>5, <4>1, AsFinTimeout
    <3> QED BY <1>3, <3>4, <3>6 DEF Steps
  <2> QED BY <1>6, <2>6, <2>7, <2>8, <2>9
<1> QED BY <1>5, <1>6

-----------------------------------------------------------------------------
(* What the master asks for.                                               *)

LEMMA AskedCount ==
  ASSUME NEW r \in Mote, NEW i \in Conns
  PROVE  /\ IsFiniteSet(AskedOf(r, i)) /\ AskedOf(r, i) \subseteq Seqno
         /\ Cardinality(AskedOf(r, i)) \in Nat /\ Cardinality(AskedOf(r, i)) <= Len(r.rlist)
<1>1. PICK n \in Nat : /\ n = Len(r.rlist) /\ DOMAIN r.rlist = 1 .. n
                       /\ r.rlist \in [1 .. n -> Conns \X Seqno]
  BY LenProperties DEF Mote, RecType
<1>2. PICK J : J = {j \in 1 .. n : r.rlist[j][1] = i}
  OBVIOUS
<1>3. PICK f : f = [j \in J |-> r.rlist[j][2]]
  OBVIOUS
<1>4. PICK A : A = AskedOf(r, i)
  OBVIOUS
<1>5. \A j \in J : r.rlist[j] \in Range(r.rlist) /\ r.rlist[j][1] = i
  BY <1>1, <1>2 DEF Range
<1>6. \A j \in J : r.rlist[j][2] \in A
  BY <1>4, <1>5 DEF AskedOf
<1>7. \A a \in A : \E j \in J : a = r.rlist[j][2]
  <2> TAKE a \in A
  <2>1. PICK e \in Range(r.rlist) : e[1] = i /\ a = e[2]
    BY <1>4 DEF AskedOf
  <2>2. PICK j \in 1 .. n : e = r.rlist[j]
    BY <1>1, <2>1 DEF Range
  <2> QED BY <1>2, <2>1, <2>2
<1>8. f \in [J -> A] /\ \A a \in A : \E j \in J : f[j] = a
  BY <1>3, <1>6, <1>7
<1>9. f \in Surjection(J, A)
  BY <1>8, Fun_IsSurj
<1>10. /\ IsFiniteSet(1 .. n) /\ Cardinality(1 .. n) = n
  BY FS_Interval
<1>11. IsFiniteSet(J) /\ Cardinality(J) <= n
  BY <1>2, <1>10, FS_Subset
<1>12. IsFiniteSet(A) /\ Cardinality(A) <= Cardinality(J)
  BY <1>9, <1>11, FS_Surjection
<1>13. Cardinality(A) \in Nat /\ Cardinality(J) \in Nat
  BY <1>11, <1>12, FS_CardinalityType
<1>14. A \subseteq Seqno
  <2> SUFFICES ASSUME NEW a \in A PROVE a \in Seqno
    OBVIOUS
  <2>1. PICK j \in J : a = r.rlist[j][2]
    BY <1>7
  <2>2. r.rlist[j] \in Conns \X Seqno
    BY <1>1, <1>2
  <2> QED BY <2>1, <2>2
<1> QED BY <1>1, <1>4, <1>11, <1>12, <1>13, <1>14

LEMMA AskedIs ==
  ASSUME NEW r \in Mote, NEW i \in Conns, NEW list \in SUBSET Seqno
  PROVE  Asked(r, list, i) = InRange(list, r.c[i].lastSent) \ AskedOf(r, i)
<1>1. \A n \in Seqno : <<i, n>> \in Range(r.rlist) <=> n \in AskedOf(r, i)
  <2> TAKE n \in Seqno
  <2>1. ASSUME <<i, n>> \in Range(r.rlist)
        PROVE  n \in AskedOf(r, i)
    <3>1. PICK e \in Range(r.rlist) : e = <<i, n>> /\ e[1] = i /\ e[2] = n
      BY <2>1
    <3> QED BY ONLY <3>1 DEF AskedOf
  <2>2. ASSUME n \in AskedOf(r, i)
        PROVE  <<i, n>> \in Range(r.rlist)
    <3>1. PICK e \in Range(r.rlist) : e[1] = i /\ e[2] = n
      BY <2>2 DEF AskedOf
    <3>2. e \in Conns \X Seqno
      <4>1. r.rlist \in Seq(Conns \X Seqno)
        BY DEF Mote, RecType
      <4>2. PICK d \in DOMAIN r.rlist : e = r.rlist[d]
        BY <3>1 DEF Range
      <4> QED BY <4>1, <4>2
    <3>3. e = <<i, n>>
      BY <3>1, <3>2
    <3> QED BY <3>1, <3>3
  <2> QED BY <2>1, <2>2
<1>2. PICK l : l = r.c[i].lastSent
  OBVIOUS
<1>3. ASSUME NEW n
      PROVE  n \in Asked(r, list, i) <=> n \in InRange(list, r.c[i].lastSent) \ AskedOf(r, i)
  BY <1>1, <1>2, Zenon DEF Asked, InRange
<1> QED BY <1>3

(* What process_NACK_packet adds.                                          *)
Added(r, q, i, out, d) ==
  /\ q.c = r.c /\ q.wbuf = r.wbuf /\ q.writebusy = r.writebusy /\ q.rbuf = r.rbuf
  /\ q.readbusy = r.readbusy /\ q.log = r.log /\ q.sent = r.sent /\ q.opened = r.opened
  /\ q.closed = r.closed /\ q.aired = r.aired /\ q.pending = r.pending
  /\ q.routing = r.routing /\ q.posted = Append(r.posted, "readLogger")
  /\ Range(q.rlist) =
       Range(r.rlist) \cup {<<i, x>> : x \in Firsts(out, d, RListLen - Len(r.rlist))}

LEMMA NackAdds ==
  ASSUME NEW r \in Mote, NEW i \in Conns, NEW list \in SUBSET Seqno,
         NEW q \in ProcessNACK(r, list, i)
  PROVE  \E d \in Nat : \E out : InOrder(out, d, Asked(r, list, i)) /\ Added(r, q, i, out, d)
<1>1. PICK new : new = Asked(r, list, i) /\ new \subseteq Seqno
  BY DEF Asked
<1>2. PICK n \in Nat : n = Cardinality(new)
  <2>1. IsFiniteSet(Seqno)
    BY FS_Interval, Consts DEF Seqno, TrFirstSeqno
  <2> QED BY <1>1, <2>1, FS_Subset, FS_CardinalityType
<1>3. PICK out \in AskedInOrder(r, list, i) :
        q = Post([r EXCEPT !.rlist = @ \o [k \in {x \in DOMAIN out : x <= RListLen - Len(r.rlist)}
                                            |-> <<i, out[k]>>]], "readLogger")
  BY DEF ProcessNACK
<1>4. out \in [1 .. n -> new] /\ InOrder(out, n, new) /\ DOMAIN out = 1 .. n
  <2>1. /\ out \in [1 .. n -> new]
        /\ \A j, k \in DOMAIN out : j < k => SeqCmp(out[j], out[k]) < 0
        /\ \A x \in new : \E k \in DOMAIN out : out[k] = x
    BY <1>1, <1>2, <1>3 DEF AskedInOrder
  <2>2. DOMAIN out = 1 .. n
    BY <2>1
  <2> QED BY <2>1, <2>2 DEF InOrder
<1>5. PICK l \in Nat : l = Len(r.rlist) /\ l <= RListLen /\ r.rlist \in Seq(Conns \X Seqno)
  BY LenProperties DEF Mote, RecType
<1>6. PICK d \in Nat : {x \in 1 .. n : x <= RListLen - l} = 1 .. d
  <2>1. CASE n <= RListLen - l
    <3>1. {x \in 1 .. n : x <= RListLen - l} = 1 .. n
      <4>1. RListLen - l \in Int
        BY <1>5, Consts
      <4>2. \A x \in 1 .. n : x <= RListLen - l
        BY <2>1, <4>1
      <4> QED BY <4>2
    <3> QED BY <3>1
  <2>2. CASE ~(n <= RListLen - l)
    <3>1. {x \in 1 .. n : x <= RListLen - l} = 1 .. (RListLen - l)
      BY <1>5, <2>2, Consts
    <3>2. RListLen - l \in Nat
      BY <1>5, Consts
    <3> QED BY <3>1, <3>2
  <2> QED BY <2>1, <2>2
<1>7. PICK e : e = [k \in 1 .. d |-> <<i, out[k]>>]
  OBVIOUS
<1>8. e \in Seq(Conns \X Seqno) /\ DOMAIN e = 1 .. d
  <2>1. \A k \in 1 .. d : k \in 1 .. n
    BY <1>6
  <2>2. e \in [1 .. d -> Conns \X Seqno]
    BY <1>1, <1>4, <1>7, <2>1
  <2> QED BY <2>2, LenProperties
<1>9. Range(e) = {<<i, x>> : x \in Firsts(out, n, RListLen - l)}
  <2>1. Range(e) = {<<i, out[k]>> : k \in 1 .. d}
    BY <1>7, <1>8 DEF Range
  <2>2. Firsts(out, n, RListLen - l) = {out[k] : k \in 1 .. d}
    BY <1>6 DEF Firsts
  <2> QED BY <2>1, <2>2
<1>10. Range(r.rlist \o e) = Range(r.rlist) \cup Range(e)
  BY <1>5, <1>8, RangeConcats
<1>11. PICK w : w = [r EXCEPT !.rlist = @ \o e]
  OBVIOUS
<1>12. /\ w.c = r.c /\ w.wbuf = r.wbuf /\ w.writebusy = r.writebusy /\ w.rbuf = r.rbuf
       /\ w.readbusy = r.readbusy /\ w.log = r.log /\ w.sent = r.sent /\ w.opened = r.opened
       /\ w.closed = r.closed /\ w.aired = r.aired /\ w.pending = r.pending
       /\ w.routing = r.routing /\ w.posted = r.posted /\ w.rlist = r.rlist \o e
       /\ "posted" \in DOMAIN w
  BY <1>11 DEF Mote, RecType
<1>13. q = Post(w, "readLogger")
  <2>1. {x \in DOMAIN out : x <= RListLen - Len(r.rlist)} = 1 .. d
    BY <1>4, <1>5, <1>6
  <2> QED BY <1>3, <1>7, <1>11, <2>1
<1>14. /\ q.c = w.c /\ q.wbuf = w.wbuf /\ q.writebusy = w.writebusy /\ q.rbuf = w.rbuf
       /\ q.readbusy = w.readbusy /\ q.log = w.log /\ q.sent = w.sent /\ q.opened = w.opened
       /\ q.closed = w.closed /\ q.aired = w.aired /\ q.pending = w.pending
       /\ q.routing = w.routing /\ q.posted = Append(w.posted, "readLogger")
       /\ q.rlist = w.rlist
  BY ONLY <1>12, <1>13 DEF Post
<1>15. Range(q.rlist) =
         Range(r.rlist) \cup {<<i, x>> : x \in Firsts(out, n, RListLen - Len(r.rlist))}
  <2>1. Range(q.rlist) = Range(r.rlist) \cup Range(e)
    BY <1>10, <1>12, <1>14
  <2> QED BY <1>5, <1>9, <2>1
<1>16. Added(r, q, i, out, n)
  BY <1>12, <1>14, <1>15 DEF Added
<1> QED BY <1>1, <1>4, <1>16

LEMMA AddedAsks ==
  ASSUME NEW r \in Mote, NEW i \in Conns, NEW q, NEW out, NEW d, Added(r, q, i, out, d)
  PROVE  /\ AskedOf(q, i) = AskedOf(r, i) \cup Firsts(out, d, RListLen - Len(r.rlist))
         /\ \A j \in Conns \ {i} : AskedOf(q, j) = AskedOf(r, j)
<1>1. PICK F : F = Firsts(out, d, RListLen - Len(r.rlist))
  OBVIOUS
<1>2. Range(q.rlist) = Range(r.rlist) \cup {<<i, x>> : x \in F}
  BY <1>1 DEF Added
<1>3. \A x \in F : <<i, x>>[1] = i /\ <<i, x>>[2] = x
  OBVIOUS
<1>4. AskedOf(q, i) = AskedOf(r, i) \cup F
  <2>1. \A x \in AskedOf(q, i) : x \in AskedOf(r, i) \cup F
    <3> TAKE x \in AskedOf(q, i)
    <3>1. PICK e \in Range(q.rlist) : e[1] = i /\ x = e[2]
      BY DEF AskedOf
    <3>2. CASE e \in Range(r.rlist)
      BY <3>1, <3>2 DEF AskedOf
    <3>3. CASE e \notin Range(r.rlist)
      BY <1>2, <1>3, <3>1, <3>3
    <3> QED BY <3>2, <3>3
  <2>2. \A x \in AskedOf(r, i) : x \in AskedOf(q, i)
    BY <1>2 DEF AskedOf
  <2>3. \A x \in F : x \in AskedOf(q, i)
    <3> TAKE x \in F
    <3>1. PICK e \in Range(q.rlist) : e[1] = i /\ x = e[2]
      BY <1>2, <1>3
    <3> QED BY <3>1 DEF AskedOf
  <2> QED BY <2>1, <2>2, <2>3
<1>5. ASSUME NEW j \in Conns \ {i}
      PROVE  AskedOf(q, j) = AskedOf(r, j)
  <2>1. {x \in Range(q.rlist) : x[1] = j} = {x \in Range(r.rlist) : x[1] = j}
    BY <1>2, <1>3
  <2> QED BY <2>1 DEF AskedOf
<1> QED BY <1>1, <1>4, <1>5

LEMMA AddedRef ==
  ASSUME NEW r \in Mote, NEW i \in Conns, NEW q \in Mote, NEW out, NEW d,
         Added(r, q, i, out, d), NEW n, NEW k, k \subseteq n, RefInv(r, n),
         NEW s \in Stream, r.c[i].s = s, MayMiss(r, s)
  PROVE  RefInv(q, k)
<1>1. /\ q.c = r.c /\ q.wbuf = r.wbuf /\ q.writebusy = r.writebusy /\ q.rbuf = r.rbuf
      /\ q.readbusy = r.readbusy /\ q.log = r.log /\ q.sent = r.sent /\ q.opened = r.opened
      /\ q.closed = r.closed /\ q.aired = r.aired /\ q.pending = r.pending
      /\ q.routing = r.routing /\ q.posted = Append(r.posted, "readLogger")
  BY DEF Added
<1>2. Range(r.rlist) \subseteq Range(q.rlist) /\ \A e \in Range(q.rlist) :
        e \in Range(r.rlist) \/ e[1] = i
  BY DEF Added
<1>3. /\ Names(r) /\ Counted(r) /\ Asks(r, n) /\ Tokens(r) /\ Held(r) /\ ReadsAsked(r)
  BY DEF RefInv
<1>4. Names(q) /\ Counted(q)
  BY <1>1, <1>3 DEF Names, Counted, SynFirst, CountedAt
<1>5. Asks(q, k)
  <2>1. \A t : MayMiss(q, t) <=> MayMiss(r, t)
    BY <1>1 DEF MayMiss
  <2>2. \A p \in k : p.flag = "NACK" => \A j \in Conns : q.c[j].s = p.s => MayMiss(q, p.s)
    BY <1>1, <1>3, <2>1 DEF Asks
  <2>3. ASSUME NEW e \in Range(q.rlist), NEW t \in Stream \cup {None}, q.c[e[1]].s = t
        PROVE  t # None /\ MayMiss(q, t)
    <3>1. CASE e \in Range(r.rlist)
      BY <1>1, <1>3, <2>1, <2>3, <3>1 DEF Asks
    <3>2. CASE e[1] = i
      BY <1>1, <2>1, <2>3, <3>2, Consts
    <3> QED BY <1>2, <3>1, <3>2
  <2> QED BY <2>2, <2>3 DEF Asks
<1>6. Tokens(q)
  <2>1. Retransmits(q) = Retransmits(r)
    BY <1>1, PostKeeps DEF TaskName
  <2> QED BY <1>1, <1>3, <2>1, TokensKept DEF Tokens, InHand, Reading
<1>7. Held(q)
  BY ONLY <1>1, <1>3 DEF Held, WasSent, LiesAt
<1>8. ReadsAsked(q)
  BY ONLY <1>1, <1>2, <1>3, Zenon DEF ReadsAsked, Reading, BeingRead
<1> QED BY <1>4, <1>5, <1>6, <1>7, <1>8 DEF RefInv

(* R becomes Q by what of L StrSender has room for.                        *)
Takes(Q, R, L) ==
  \E n \in 0 .. (RListLen + 1 - Cardinality(R)) : Q = R \cup Oldest(L \ R, n)

(* The numbers that a NACK adds are the oldest of those that it may add,   *)
(* and StrSender has room for as many.                                     *)
LEMMA AddsOldest ==
  ASSUME NEW r \in Mote, NEW i \in Conns, NEW list \in SUBSET Seqno,
         NEW d \in Nat, NEW out, InOrder(out, d, Asked(r, list, i)),
         NEW B, B = {} \/ \E b : B = {b}
  PROVE  Takes(AskedOf(r, i) \cup Firsts(out, d, RListLen - Len(r.rlist)) \cup B,
               AskedOf(r, i) \cup B, InRange(list, r.c[i].lastSent))
<1>1. PICK K \in Nat, l \in Nat : K = RListLen - l /\ l = Len(r.rlist)
  <2>1. PICK l \in Nat : l = Len(r.rlist) /\ l <= RListLen
    BY LenProperties DEF Mote, RecType
  <2>2. RListLen - l \in Nat
    BY <2>1, Consts
  <2> QED BY <2>1, <2>2
<1>2. PICK S : S = Asked(r, list, i) /\ S \subseteq Seqno
  BY DEF Asked
<1>3. PICK A, L : A = AskedOf(r, i) /\ L = InRange(list, r.c[i].lastSent) /\ S = L \ A
                  /\ IsFiniteSet(A) /\ Cardinality(A) \in Nat /\ Cardinality(A) <= l
  BY <1>1, <1>2, AskedCount, AskedIs
<1>4. PICK F : F = Firsts(out, d, K)
  OBVIOUS
<1>5. CASE B = {}
  <2>1. A \cup B = A /\ L \ (A \cup B) = S
    BY <1>3, <1>5
  <2>2. Oldest(S, K) = F
    BY <1>2, <1>4, FirstsAreOldest
  <2>3. K \in 0 .. (RListLen + 1 - Cardinality(A))
    BY <1>1, <1>3, Consts
  <2>4. A \cup F \cup B = (A \cup B) \cup Oldest(L \ (A \cup B), K)
    BY <1>5, <2>1, <2>2
  <2> QED BY <1>1, <1>3, <1>4, <2>1, <2>3, <2>4 DEF Takes
<1>6. CASE \E b : B = {b}
  <2>1. PICK b : B = {b}
    BY <1>6
  <2>2. PICK n \in 0 .. K : Oldest(S \ {b}, n) = F \ {b}
    <3>1. S \subseteq Seqno /\ InOrder(out, d, S) /\ d \in Nat /\ K \in Nat
      BY <1>2
    <3>2. OldestBut(S, b, out, d, K)
      BY ONLY <3>1, FirstsBut
    <3> QED BY <1>4, <3>2 DEF OldestBut
  <2>3. L \ (A \cup B) = S \ {b}
    BY <1>3, <2>1
  <2>4. PICK c \in Nat : c = Cardinality(A \cup B) /\ c <= l + 1
    <3>1. Cardinality(A \cup {b}) = IF b \in A THEN Cardinality(A) ELSE Cardinality(A) + 1
      BY <1>3, FS_AddElement
    <3> QED BY <1>3, <2>1, <3>1
  <2>5. n \in 0 .. (RListLen + 1 - c)
    BY <1>1, <2>4, Consts
  <2>6. A \cup F \cup B = (A \cup B) \cup Oldest(L \ (A \cup B), n)
    BY <2>1, <2>2, <2>3
  <2> QED BY <1>1, <1>3, <1>4, <2>4, <2>5, <2>6 DEF Takes
<1> QED BY <1>5, <1>6

LEMMA OpenedRef ==
  ASSUME Typed, Typed', RefInv(m, net), OweInv(m, net), OweInv(m', net'), NEW p \in net,
         p.flag = "SYN_ACK", net' = net \ {p}, NEW i \in Conns, NEW s \in Stream, p.s = s,
         m.c[i].s = s, m' = Opened(m, i)
  PROVE  RefInv(m', net') /\ Steps
<1>1. m \in Mote /\ m' \in Mote /\ Apart(m) /\ Apart(m') /\ net' \subseteq net
  BY DEF Typed, OweInv
<1>2. PICK a : a = ConnAt(m, s) /\ a = Here(m, i, s) /\ a.state = m.c[i].state
  BY <1>1, ConnHere DEF Here
<1>3. CASE m.c[i].state = "SYN_ACK_WAIT"
  <2>1. CountedAt(m, i, s) /\ m.c[i] \in ConnType /\ m.c \in [Conns -> ConnType]
    BY <1>1 DEF RefInv, Counted, Mote, RecType
  <2>2. PICK c : c = [m.c[i] EXCEPT !.state = "ACTIVE", !.lastSent = 0]
    OBVIOUS
  <2>3. c.s = s /\ c.state = "ACTIVE" /\ c.lastSent = 0 /\ c.finCnt = m.c[i].finCnt
    BY <2>1, <2>2 DEF ConnType
  <2>4. /\ m'.c = [m.c EXCEPT ![i] = c] /\ m'.wbuf = m.wbuf
        /\ m'.writebusy = m.writebusy /\ m'.rbuf = m.rbuf /\ m'.readbusy = m.readbusy
        /\ m'.rlist = m.rlist /\ m'.log = m.log /\ m'.sent = m.sent
        /\ m'.opened = m.opened /\ m'.closed = m.closed /\ m'.aired = m.aired
        /\ m'.posted = m.posted /\ m'.pending = m.pending /\ m'.routing = m.routing
    <3>1. m' = [m EXCEPT !.timer[i] = FALSE,
                         !.c[i] = [@ EXCEPT !.state = "ACTIVE", !.lastSent = 0]]
      BY <1>3 DEF Opened
    <3> QED BY <1>1, <2>2, <3>1 DEF Mote, RecType
  <2>5. m'.c[i] = c /\ \A j \in Conns \ {i} : m'.c[j] = m.c[j]
    BY <2>1, <2>4
  <2>6. Moved(m, m', i, s)
    <3>1. CountedAt(m', i, s)
      BY <1>3, <2>1, <2>3, <2>4, <2>5 DEF CountedAt
    <3>2. \A t \in Stream : t # s => SendingOf(m', t) = SendingOf(m, t)
      BY <2>4 DEF SendingOf
    <3>3. Retransmits(m') = Retransmits(m)
      BY <2>4 DEF Retransmits
    <3> QED BY <2>3, <2>4, <2>5, <3>1, <3>2, <3>3 DEF Moved
  <2>7. /\ RefInv(m', net') /\ Reshapes(m, m', i, s)
        /\ \A t \in Stream : t # s => ConnAt(m', t) = ConnAt(m, t)
    BY <1>1, <2>6, Moves
  <2>8. PICK cl, re, se, st, la, fi :
          /\ a = Shape(st, cl, se, la, fi, re)
          /\ ConnAt(m', s) = Shape("ACTIVE", cl, se, 0, fi, re)
    <3>1. SendingOf(m', s) = SendingOf(m, s)
      BY <2>4 DEF SendingOf
    <3> QED BY <1>2, <2>3, <2>5, <2>7, <3>1, ZenonT(30) DEF Reshapes
  <2>9. ConnAt(m', s) = [a EXCEPT !.state = "ACTIVE", !.lastSent = 0]
    <3>1. Opens(a, "ACTIVE", 0) = Shape("ACTIVE", cl, se, 0, fi, re)
      BY ONLY <2>8, Reshaped
    <3>2. ConnAt(m', s) = Opens(a, "ACTIVE", 0)
      BY <2>8, <3>1
    <3> QED BY ONLY <3>2 DEF Opens
  <2>10. Turns(s, [a EXCEPT !.state = "ACTIVE", !.lastSent = 0])
    BY <2>7, <2>9 DEF Turns
  <2>11. Sender!SenderNext
    <3>1. Turns(s, IF a.state = "SYN_ACK_WAIT"
                   THEN [a EXCEPT !.state = "ACTIVE", !.lastSent = 0] ELSE a)
      BY <1>2, <1>3, <2>10
    <3>2. m'.sent = m.sent
      BY <2>4
    <3> QED BY <1>2, <3>1, <3>2, AsReceive
  <2> QED BY <2>7, <2>11 DEF Steps
<1>4. CASE m.c[i].state # "SYN_ACK_WAIT"
  <2>1. m' = m
    BY <1>4 DEF Opened
  <2>2. RefInv(m', net')
    BY <1>1, <2>1, SameRef
  <2>3. Turns(s, IF a.state = "SYN_ACK_WAIT"
                 THEN [a EXCEPT !.state = "ACTIVE", !.lastSent = 0] ELSE a)
    <3>1. Turns(s, a)
      BY <1>2, <2>1 DEF Turns
    <3> QED BY <1>2, <1>4, <3>1
  <2>4. Sender!SenderNext
    BY <1>2, <2>1, <2>3, AsReceive
  <2> QED BY <2>2, <2>4 DEF Steps
<1> QED BY <1>3, <1>4

LEMMA NackRef ==
  ASSUME Typed, Typed', RefInv(m, net), OweInv(m, net), OweInv(m', net'), NEW p \in net,
         p.flag = "NACK", net' = net \ {p}, NEW i \in Conns, NEW s \in Stream, p.s = s,
         m.c[i].s = s, NEW b \in BOOLEAN, m' \in ProcessNACK([m EXCEPT !.timer[i] = b], p.list, i)
  PROVE  RefInv(m', net') /\ Steps
<1>1. m \in Mote /\ m' \in Mote /\ Apart(m) /\ Apart(m') /\ net' \subseteq net
      /\ p.list \in SUBSET Seqno
  BY DEF Typed, OweInv, Packet
<1>2. PICK r : r = [m EXCEPT !.timer[i] = b]
  OBVIOUS
<1>3. /\ r.c = m.c /\ r.wbuf = m.wbuf /\ r.writebusy = m.writebusy /\ r.rbuf = m.rbuf
      /\ r.readbusy = m.readbusy /\ r.rlist = m.rlist /\ r.log = m.log /\ r.sent = m.sent
      /\ r.opened = m.opened /\ r.closed = m.closed /\ r.aired = m.aired
      /\ r.posted = m.posted /\ r.pending = m.pending /\ r.routing = m.routing
  BY <1>1, <1>2 DEF Mote, RecType
<1>4. r \in Mote
  <2>1. r \in RecType
    BY <1>1, <1>2, ZenonT(30) DEF Mote, RecType
  <2> QED BY <1>1, <1>3, <2>1 DEF Mote
<1>5. RefInv(r, net) /\ \A t \in Stream : ConnAt(r, t) = ConnAt(m, t)
  <2>1. RefView(r) = RefView(m) /\ Retransmits(r) = Retransmits(m)
    BY <1>3 DEF RefView, Retransmits
  <2> QED BY <1>3, <2>1, SameRef
<1>6. Apart(r) /\ MayMiss(r, s)
  <2>1. MayMiss(m, s)
    BY DEF RefInv, Asks
  <2> QED BY <1>1, <1>3, <2>1 DEF Apart, MayMiss
<1>7. PICK d \in Nat : \E o : InOrder(o, d, Asked(r, p.list, i)) /\ Added(r, m', i, o, d)
  BY <1>1, <1>2, <1>4, NackAdds
<1>8. PICK out : InOrder(out, d, Asked(r, p.list, i)) /\ Added(r, m', i, out, d)
  BY <1>7
<1>9. RefInv(m', net')
  BY <1>1, <1>3, <1>4, <1>5, <1>6, <1>8, AddedRef
<1>10. PICK F, A, B : /\ F = Firsts(out, d, RListLen - Len(r.rlist)) /\ A = AskedOf(r, i)
                      /\ B = BufferOf(r, s)
  OBVIOUS
<1>11. B = {} \/ \E x : B = {x}
  BY <1>10 DEF BufferOf
<1>12. Takes(A \cup F \cup B, A \cup B, InRange(p.list, r.c[i].lastSent))
  BY <1>1, <1>4, <1>8, <1>10, <1>11, AddsOldest
<1>13. /\ AskedOf(m', i) = A \cup F
       /\ \A j \in Conns \ {i} : AskedOf(m', j) = AskedOf(r, j)
  BY <1>4, <1>8, <1>10, AddedAsks
<1>14. /\ m'.c = r.c /\ m'.opened = r.opened /\ m'.closed = r.closed /\ m'.sent = m.sent
       /\ \A t \in Stream : SendingOf(m', t) = SendingOf(r, t) /\ BufferOf(m', t) = BufferOf(r, t)
  BY <1>3, <1>8 DEF Added, SendingOf, BufferOf
<1>15. PICK a : a = ConnAt(m, s) /\ a = Here(r, i, s)
  BY <1>3, <1>4, <1>5, <1>6, ConnHere
<1>16. /\ a.recover = A \cup B /\ a.lastSent = r.c[i].lastSent
       /\ a.state \notin {"UNOPENED", "IDLE"}
  <2>1. r.c[i].state \in States \ {"IDLE"}
    BY <1>3, <1>4, LiveState
  <2>2. a.recover = A \cup B /\ a.lastSent = r.c[i].lastSent /\ a.state = r.c[i].state
    BY <1>10, <1>15 DEF Here
  <2> QED BY <2>1, <2>2 DEF States
<1>17. PICK n \in 0 .. (RListLen + 1 - Cardinality(a.recover)) :
         A \cup F \cup B = a.recover \cup Oldest(InRange(p.list, a.lastSent) \ a.recover, n)
  BY <1>12, <1>16 DEF Takes
<1>18. ConnAt(m', s) = [a EXCEPT !.recover =
                          @ \cup Oldest(InRange(p.list, a.lastSent) \ a.recover, n)]
  <2>1. ConnAt(m', s) = Here(m', i, s)
    BY <1>1, <1>3, <1>14, ConnHere
  <2>2. AskedOf(m', i) \cup BufferOf(m', s) = A \cup F \cup B
    BY <1>10, <1>13, <1>14
  <2>3. Here(m', i, s) = [Here(r, i, s) EXCEPT !.recover = A \cup F \cup B]
    <3>1. m'.c[i] = r.c[i] /\ (s \in m'.closed <=> s \in r.closed)
          /\ SendingOf(m', s) = SendingOf(r, s)
      BY <1>14
    <3>2. Here(m', i, s) = [Here(r, i, s) EXCEPT !.recover = AskedOf(m', i) \cup BufferOf(m', s)]
      BY ONLY <3>1, HereAsked
    <3> QED BY ONLY <2>2, <3>2
  <2> QED BY <1>15, <1>17, <2>1, <2>3
<1>19. ASSUME NEW t \in Stream, t # s
       PROVE  ConnAt(m', t) = ConnAt(m, t)
  <2>1. /\ r.c[i].s # t /\ m'.c[i].s # t
        /\ (t \in m'.opened <=> t \in r.opened) /\ (t \in m'.closed <=> t \in r.closed)
        /\ \A j \in Conns \ {i} : m'.c[j] = r.c[j] /\ AskedOf(m', j) = AskedOf(r, j)
    BY <1>3, <1>13, <1>14, <1>19
  <2>2. SendingOf(m', t) = SendingOf(r, t) /\ BufferOf(m', t) = BufferOf(r, t)
    BY <1>14
  <2>3. ConnAt(m', t) = ConnAt(r, t)
    BY ONLY <2>1, <2>2, OthersStay, i \in Conns, t \in Stream
  <2> QED BY <1>5, <2>3
<1>20. Turns(s, [a EXCEPT !.recover =
                   @ \cup Oldest(InRange(p.list, a.lastSent) \ a.recover, n)])
  BY <1>18, <1>19 DEF Turns
<1>21. Sender!SenderNext
  BY <1>14, <1>15, <1>16, <1>20, AsNack
<1> QED BY <1>9, <1>21 DEF Steps

LEMMA ReceiveRef ==
  ASSUME Typed, Typed', RefInv(m, net), OweInv(m, net), OweInv(m', net'), NEW p \in net,
         RoutingReceive_receive(p)
  PROVE  RefInv(m', net') /\ Steps
<1>1. PICK i, found : found = Valid(m, p.s) /\ i = Min(found)
  OBVIOUS
<1>2. /\ m \in Mote /\ m' \in Mote /\ Apart(m) /\ Apart(m') /\ net' = net \ {p}
      /\ net' \subseteq net /\ p.flag \in MoteFlag /\ p.s \in Stream /\ net \in SUBSET Packet
  BY DEF Typed, OweInv, RoutingReceive_receive, Packet
<1>3. CASE found = {}
  <2>1. m' = m
    BY <1>1, <1>3 DEF RoutingReceive_receive
  <2>2. RefInv(m', net')
    BY <1>2, <2>1, SameRef
  <2>3. Elsewhere
    BY <1>2, <2>1, AsElsewhere
  <2> QED BY <2>2, <2>3 DEF Steps
<1>4. CASE found # {}
  <2>1. i \in Conns /\ m.c[i].s = p.s /\ p.s # None
    <3>1. found \subseteq Conns
      BY <1>1 DEF Valid
    <3>2. i \in found
      BY <1>1, <1>4, <3>1, LeastConn
    <3> QED BY <1>1, <3>1, <3>2 DEF Valid
  <2>2. CASE p.flag = "SYN_ACK"
    <3>1. m' = Opened(m, i)
      BY <1>1, <1>4, <2>2 DEF RoutingReceive_receive
    <3> QED BY <1>2, <2>1, <2>2, <3>1, OpenedRef
  <2>3. CASE p.flag = "FIN_ACK"
    <3>1. m' = Finished(m, i)
      BY <1>1, <1>4, <2>3 DEF RoutingReceive_receive
    <3>2. PICK s \in Stream : s = p.s
      BY <1>2
    <3>3. Ended(m, m', i, s)
      BY <1>2, <2>1, <3>1, <3>2, FinishedEnds
    <3>4. /\ RefInv(m', net') /\ ConnAt(m', s) = Sender!Reset
          /\ \A t \in Stream : t # s => ConnAt(m', t) = ConnAt(m, t)
      BY <1>2, <2>1, <3>2, <3>3, EndRef
    <3>5. m'.sent = m.sent /\ Turns(s, Sender!Reset)
      BY <3>3, <3>4 DEF Ended, Turns
    <3>6. PICK a : a = ConnAt(m, s) /\ a.state \notin {"UNOPENED", "IDLE"}
      <4>1. m.c[i].state \in States \ {"IDLE"}
        BY <1>2, <2>1, <3>2, LiveState
      <4>2. ConnAt(m, s) = Here(m, i, s)
        BY <1>2, <2>1, <3>2, ConnHere
      <4> QED BY <4>1, <4>2 DEF Here, States
    <3>7. Sender!SenderNext
      BY <1>2, <2>3, <3>2, <3>5, <3>6, AsReceive
    <3> QED BY <3>4, <3>7 DEF Steps
  <2>4. CASE p.flag = "NACK"
    <3>1. PICK b : b = (m.timer[i] \/ m.c[i].state = "FIN_ACK_WAIT")
      OBVIOUS
    <3>2. b \in BOOLEAN
      BY <3>1
    <3>3. m' \in ProcessNACK([m EXCEPT !.timer[i] = b], p.list, i)
      BY <1>1, <1>4, <2>4, <3>1 DEF RoutingReceive_receive
    <3> QED BY <1>2, <2>1, <2>4, <3>2, <3>3, NackRef
  <2> QED BY <1>2, <2>2, <2>3, <2>4 DEF MoteFlag
<1> QED BY <1>3, <1>4

-----------------------------------------------------------------------------
(* Every step, and the whole of it.                                        *)

LEMMA InitRef ==
  ASSUME Init
  PROVE  RefInv(m, net) /\ Sender!SenderInit
<1>1. /\ net = {} /\ m.c = [i \in Conns |-> IdleConn] /\ m.routing = NoPkt
      /\ m.wbuf = Erased /\ m.rbuf = Erased /\ m.writebusy = FALSE /\ m.readbusy = FALSE
      /\ m.rlist = <<>> /\ m.pending = {} /\ m.posted = <<>> /\ m.log = LogInit
      /\ m.sent = [s \in Stream |-> 0] /\ m.opened = {} /\ m.closed = {}
  BY DEF Init
<1>2. \A i \in Conns : m.c[i] = IdleConn /\ m.c[i].s = None /\ m.c[i].state = "IDLE"
  BY <1>1, IdleTyped
<1>3. NoPkt.s = None /\ NoPkt.flag # "SYN" /\ \A s \in Stream : s # None
  BY Consts DEF NoPkt
<1>4. Range(m.rlist) = {} /\ Retransmits(m) = {}
  BY <1>1 DEF Range, Retransmits
<1>5. /\ m.log.op.kind = "erase"
      /\ \A v \in Volumes : \A x \in Indexes : m.log.vol[v][x] = Erased
  BY <1>1 DEF LogInit, Op
<1>6. Names(m)
  BY <1>1, <1>2, <1>3 DEF Names
<1>7. Counted(m)
  <2>1. SynFirst(m)
    BY <1>1, <1>3 DEF SynFirst
  <2> QED BY <1>2, <1>3, <2>1 DEF Counted
<1>8. Asks(m, net)
  BY <1>1, <1>4 DEF Asks
<1>9. Tokens(m)
  BY <1>1, <1>4, <1>5 DEF Tokens, Reading
<1>10. Held(m) /\ ReadsAsked(m)
  BY <1>1, <1>5 DEF Held, WasSent, ReadsAsked, Reading
<1>11. ASSUME NEW s \in Stream PROVE ConnOf(s) = Sender!Idle("UNOPENED")
  <2>1. Valid(m, s) = {}
    BY <1>2, <1>3 DEF Valid
  <2> QED BY <1>1, <2>1, ConnIs DEF ConnAt, Absent, Sender!Idle
<1>12. Sender!SenderInit
  BY <1>1, <1>11 DEF Sender!SenderInit
<1> QED BY <1>6, <1>7, <1>8, <1>9, <1>10, <1>12 DEF RefInv

LEMMA NextRef ==
  ASSUME Settled, Roomy, Typed, Typed', RefInv(m, net), OweInv(m, net), OweInv(m', net'),
         Next
  PROVE  RefInv(m', net') /\ Steps
<1>0. Apart(m)
  BY DEF OweInv
<1>1. CASE Loses
  BY <1>1, LosesRef
<1>2. ASSUME NEW p \in net, RoutingReceive_receive(p)
      PROVE  RefInv(m', net') /\ Steps
  BY <1>2, ReceiveRef
<1>3. ASSUME NEW ok \in BOOLEAN, RunTask(ok)
      PROVE  RefInv(m', net') /\ Steps
  BY <1>3, TaskRef
<1>4. ASSUME net = {}, NEW s \in Stream, \/ ConnectionSend_open(s) \/ ConnectionSend_send(s)
                                         \/ ConnectionSend_close(s)
      PROVE  RefInv(m', net') /\ Steps
  <2>1. CASE ConnectionSend_open(s)
    BY <1>4, <2>1, OpenRef
  <2>2. CASE ConnectionSend_send(s)
    BY <1>4, <2>2, SendRef
  <2>3. CASE ConnectionSend_close(s)
    BY <1>4, <2>3, CloseRef
  <2> QED BY <1>4, <2>1, <2>2, <2>3
<1>5. ASSUME net = {}, NEW ok \in BOOLEAN,
             writeDone(ok) \/ readDone(ok) \/ RoutingSend_sendDone(ok)
      PROVE  RefInv(m', net') /\ Steps
  <2>1. CASE writeDone(ok)
    BY <2>1, WriteDoneRef
  <2>2. CASE readDone(ok)
    BY <2>2, ReadDoneRef
  <2>3. CASE RoutingSend_sendDone(ok)
    BY <1>5, <2>3, SendDoneRef
  <2> QED BY <1>5, <2>1, <2>2, <2>3
<1>6. CASE eraseDone
  BY <1>6, EraseDoneRef
<1>7. ASSUME NEW i \in Conns, StateTimerFired(i)
      PROVE  RefInv(m', net') /\ Steps
  BY <1>7, TimerRef
<1>8. CASE RetryTimer_fired
  BY <1>8, RetryRef
<1>9. CASE MasterAnswers
  BY <1>0, <1>9, MasterRef
<1> QED BY <1>1, <1>2, <1>3, <1>4, <1>5, <1>6, <1>7, <1>8, <1>9 DEF Next

(* What the mote does on each of its streams is what StrSender allows, so   *)
(* what is shown of StrSender with the master at its other end holds of the *)
(* two connections, the recover list, the log and the posted tasks that     *)
(* StreamTransportM.nc makes a stream of: a packet leaves only in the       *)
(* state, with the number and after the sendDone that StrSender asks for    *)
(* (StreamTransportM.nc:297, 372, 588), numbers leave the recover list only *)
(* as it lets them (RecoverListM.nc), and every other step shows nothing of *)
(* the streams.  It needs a stream's packets to fit its log: once the log   *)
(* has gone round, a number is read where a later one lies.                 *)
THEOREM MoteIsSender == ASSUME Settled, Roomy PROVE Spec => ImplementsSender
<1>1. Init => Typed /\ OweInv(m, net) /\ RefInv(m, net) /\ Sender!SenderInit
  <2>1. Init => OweInv(m, net)
    BY IdleTyped DEF Init, NoPkt, OweInv, Apart, FinAired, OnAir, InBuffer, PsdWaits, OwedHas
  <2> QED BY <2>1, InitTyped, InitRef
<1>2. Typed /\ OweInv(m, net) /\ RefInv(m, net) /\ [Next]_vars
        => /\ (Typed /\ OweInv(m, net) /\ RefInv(m, net))'
           /\ [Elsewhere \/ Sender!SenderNext]_<<net, Sender!senderVars>>
  <2> SUFFICES ASSUME Typed, OweInv(m, net), RefInv(m, net), [Next]_vars
               PROVE  /\ Typed' /\ OweInv(m', net') /\ RefInv(m', net')
                      /\ [Elsewhere \/ Sender!SenderNext]_<<net, Sender!senderVars>>
    OBVIOUS
  <2>1. Typed' /\ OweInv(m', net')
    BY NextTyped, NextOwe
  <2>2. CASE Next
    <3>1. RefInv(m', net') /\ Steps
      BY ONLY Settled, Roomy, Typed, OweInv(m, net), RefInv(m, net), <2>1, <2>2, NextRef
    <3> QED BY <2>1, <3>1 DEF Steps
  <2>3. CASE UNCHANGED vars
    <3>1. m' = m /\ net' = net
      BY <2>3 DEF vars
    <3>2. RefInv(m', net')
      BY <3>1
    <3>3. Sender!senderVars' = Sender!senderVars
      <4>1. \A s \in Stream : ConnOf(s)' = ConnOf(s)
        BY <3>1, ConnIs, ConnWillBe
      <4> QED BY <3>1, <4>1 DEF Sender!senderVars
    <3> QED BY <2>1, <3>1, <3>2, <3>3
  <2> QED BY <2>2, <2>3
<1> QED BY <1>1, <1>2, PTL DEF Spec, ImplementsSender
=============================================================================
