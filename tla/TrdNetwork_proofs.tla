-------------------------- MODULE TrdNetwork_proofs --------------------------
(***************************************************************************)
(* Proofs about dissemination: for any motes and masters, any links, any   *)
(* size of the tables and logs, any bounds on ages.                        *)
(*                                                                         *)
(* Nothing is said here of the numbers and ages in packets and tables:     *)
(* circular comparison orders only numbers that are close, and a summary   *)
(* names what the comparison picked.  What is said is what a record is a   *)
(* record of, and where an entry of a table points.                        *)
(***************************************************************************)
EXTENDS TrdNetwork, SequenceTheorems, FiniteSetTheorems, WellFoundedInduction, TLAPS

-----------------------------------------------------------------------------
(* Lists of anything.                                                      *)

IsList(c) == c \in Seq({c[i] : i \in DOMAIN c})

LEMMA ListHas ==
  ASSUME NEW c, IsList(c)
  PROVE  Len(c) \in Nat /\ DOMAIN c = 1 .. Len(c) /\ c = [i \in 1 .. Len(c) |-> c[i]]
BY LenProperties DEF IsList

LEMMA ListIs ==
  ASSUME NEW n \in Nat, NEW c, c = [i \in 1 .. n |-> c[i]]
  PROVE  IsList(c) /\ Len(c) = n /\ DOMAIN c = 1 .. n
<1>1. c \in [1 .. n -> {c[i] : i \in 1 .. n}] /\ DOMAIN c = 1 .. n
  OBVIOUS
<1> QED BY <1>1 DEF IsList

LEMMA ListOf ==
  ASSUME NEW S, NEW c \in Seq(S)
  PROVE  IsList(c)
<1>1. Len(c) \in Nat /\ c = [i \in 1 .. Len(c) |-> c[i]]
  BY LenProperties
<1> QED BY <1>1, ListIs

LEMMA ListAppend ==
  ASSUME NEW c, NEW e, IsList(c)
  PROVE  /\ IsList(Append(c, e)) /\ Len(Append(c, e)) = Len(c) + 1
         /\ DOMAIN Append(c, e) = 1 .. (Len(c) + 1)
         /\ \A i \in 1 .. (Len(c) + 1) :
              Append(c, e)[i] = IF i = Len(c) + 1 THEN e ELSE c[i]
<1> DEFINE S == {c[i] : i \in DOMAIN c} \cup {e}
<1>1. c \in Seq(S) /\ e \in S
  BY ListHas DEF IsList
<1> HIDE DEF S
<1>2. /\ Append(c, e) \in Seq(S) /\ Len(Append(c, e)) = Len(c) + 1
      /\ \A i \in 1 .. Len(c) : Append(c, e)[i] = c[i]
      /\ Append(c, e)[Len(c) + 1] = e
  BY <1>1, AppendProperties
<1>3. IsList(Append(c, e)) /\ Len(c) \in Nat
  BY <1>2, ListOf, ListHas
<1>4. DOMAIN Append(c, e) = 1 .. Len(Append(c, e))
  BY <1>3, ListHas
<1> QED BY <1>2, <1>3, <1>4

LEMMA ListExcept ==
  ASSUME NEW c, NEW k, NEW e, IsList(c)
  PROVE  /\ IsList([c EXCEPT ![k] = e]) /\ Len([c EXCEPT ![k] = e]) = Len(c)
         /\ DOMAIN [c EXCEPT ![k] = e] = DOMAIN c
         /\ \A i \in DOMAIN c : [c EXCEPT ![k] = e][i] = IF i = k THEN e ELSE c[i]
<1>1. PICK d : d = [c EXCEPT ![k] = e]
  OBVIOUS
<1>2. /\ Len(c) \in Nat /\ d = [i \in 1 .. Len(c) |-> d[i]] /\ DOMAIN c = 1 .. Len(c)
      /\ \A i \in DOMAIN c : d[i] = IF i = k THEN e ELSE c[i]
  BY <1>1, ListHas
<1>3. IsList(d) /\ Len(d) = Len(c) /\ DOMAIN d = DOMAIN c
  BY <1>2, ListIs
<1> QED BY <1>1, <1>2, <1>3

LEMMA ListFront ==
  ASSUME NEW c, IsList(c), Len(c) # 0
  PROVE  LET d == SubSeq(c, 1, Len(c) - 1)
         IN  /\ IsList(d) /\ Len(d) = Len(c) - 1 /\ DOMAIN d = 1 .. (Len(c) - 1)
             /\ \A i \in DOMAIN d : i \in DOMAIN c /\ d[i] = c[i]
<1> DEFINE S == {c[i] : i \in DOMAIN c}
<1>1. PICK n \in Nat : n = Len(c) /\ n # 0 /\ DOMAIN c = 1 .. n
  BY ListHas
<1>2. c \in Seq(S) /\ \A i \in 1 .. (n - 1) : c[i] \in S
  BY <1>1 DEF IsList
<1> HIDE DEF S
<1>3. /\ SubSeq(c, 1, n - 1) \in Seq(S)
      /\ Len(SubSeq(c, 1, n - 1)) = n - 1
      /\ \A i \in 1 .. (n - 1) : SubSeq(c, 1, n - 1)[i] = c[i]
  BY <1>1, <1>2, SubSeqProperties
<1>4. IsList(SubSeq(c, 1, n - 1))
  BY <1>3, ListOf
<1>5. DOMAIN SubSeq(c, 1, n - 1) = 1 .. (n - 1)
  BY <1>3, <1>4, ListHas
<1> QED BY <1>1, <1>3, <1>4, <1>5

LEMMA ListTail ==
  ASSUME NEW c, IsList(c), c # <<>>
  PROVE  /\ IsList(Tail(c)) /\ Len(Tail(c)) = Len(c) - 1
         /\ \A i \in DOMAIN Tail(c) : i + 1 \in DOMAIN c /\ Tail(c)[i] = c[i + 1]
<1> DEFINE S == {c[i] : i \in DOMAIN c}
<1>1. c \in Seq(S)
  BY DEF IsList
<1> HIDE DEF S
<1>2. /\ Tail(c) \in Seq(S) /\ Len(Tail(c)) = Len(c) - 1
      /\ \A i \in 1 .. Len(Tail(c)) : Tail(c)[i] = c[i + 1]
  BY <1>1, HeadTailProperties
<1>3. IsList(Tail(c))
  BY <1>2, ListOf
<1>4. DOMAIN Tail(c) = 1 .. Len(Tail(c)) /\ Len(c) \in Nat /\ DOMAIN c = 1 .. Len(c)
  BY <1>3, ListHas
<1> QED BY <1>2, <1>3, <1>4

-----------------------------------------------------------------------------
(* Tables whose entries point into the set M of places of a log.           *)

EntIn(e, M)   == DOMAIN e = {"seqno", "memloc", "age"} /\ e.memloc \in M
CacheIn(c, M) == IsList(c) /\ \A i \in DOMAIN c : EntIn(c[i], M)
RowIn(r, M)   == DOMAIN r = {"origin", "cache"} /\ CacheIn(r.cache, M)
TableIn(t, M) == IsList(t) /\ \A i \in DOMAIN t : RowIn(t[i], M)

LEMMA NothingIn ==
  ASSUME NEW M
  PROVE  IsList(<<>>) /\ CacheIn(<<>>, M) /\ TableIn(<<>>, M)
<1>1. IsList(<<>>) /\ DOMAIN <<>> = {}
  BY DEF IsList
<1> QED BY <1>1 DEF CacheIn, TableIn

(* A place that is in use stays in use.                                     *)
LEMMA WiderIn ==
  ASSUME NEW t, NEW M, NEW P, M \subseteq P, TableIn(t, M)
  PROVE  TableIn(t, P)
BY DEF TableIn, RowIn, CacheIn, EntIn

LEMMA AgedIn ==
  ASSUME NEW M, NEW c, NEW n, CacheIn(c, M)
  PROVE  CacheIn(AgedBy(c, n), M)
<1>1. PICK d : d = AgedBy(c, n)
  OBVIOUS
<1>2. DOMAIN d = DOMAIN c /\ d = [i \in DOMAIN c |-> d[i]]
  BY <1>1 DEF AgedBy
<1>3. IsList(d)
  BY <1>2, ListHas, ListIs DEF CacheIn
<1>4. ASSUME NEW i \in DOMAIN d
      PROVE  EntIn(d[i], M)
  <2>1. PICK v : d[i] = [c[i] EXCEPT !.age = v]
    BY <1>1, <1>2 DEF AgedBy
  <2>2. EntIn(c[i], M)
    BY <1>2 DEF CacheIn
  <2> QED BY <2>1, <2>2 DEF EntIn
<1> QED BY <1>1, <1>3, <1>4 DEF CacheIn

LEMMA InsertedIn ==
  ASSUME NEW M, NEW c, NEW e, CacheIn(c, M), EntIn(e, M)
  PROVE  CacheIn(Inserted(c, e), M)
<1>1. CASE Len(c) = CacheEntries
  <2>1. PICK k : Inserted(c, e) = [c EXCEPT ![k] = e]
    BY <1>1 DEF Inserted
  <2>2. PICK d : d = [c EXCEPT ![k] = e]
    OBVIOUS
  <2>3. IsList(d) /\ DOMAIN d = DOMAIN c /\ \A i \in DOMAIN c : d[i] = IF i = k THEN e ELSE c[i]
    BY <2>2, ListExcept DEF CacheIn
  <2> QED BY <2>1, <2>2, <2>3 DEF CacheIn
<1>2. CASE Len(c) # CacheEntries
  <2>1. Inserted(c, e) = Append(c, e)
    BY <1>2 DEF Inserted
  <2>2. IsList(c) /\ Len(c) \in Nat /\ DOMAIN c = 1 .. Len(c)
    BY ListHas DEF CacheIn
  <2>3. \A i \in 1 .. (Len(c) + 1) : i = Len(c) + 1 \/ i \in DOMAIN c
    BY <2>2
  <2> QED BY <2>1, <2>2, <2>3, ListAppend DEF CacheIn
<1> QED BY <1>1, <1>2

LEMMA ClassifiedIn ==
  ASSUME NEW M, NEW c, NEW seqno, NEW age, CacheIn(c, M)
  PROVE  CacheIn(ClassifiedCache(c, seqno, age), M)
BY AgedIn DEF ClassifiedCache, AgedBeside

LEMMA RowOfIn ==
  ASSUME NEW t, NEW o, o \in Origins(t)
  PROVE  RowOf(t, o) \in DOMAIN t /\ t[RowOf(t, o)].origin = o
BY DEF Origins, RowOf

LEMMA CacheOfIn ==
  ASSUME NEW M, NEW t, NEW o, TableIn(t, M)
  PROVE  CacheIn(CacheOf(t, o), M)
BY RowOfIn, NothingIn DEF CacheOf, TableIn, RowIn

LEMMA EntryOfIn ==
  ASSUME NEW M, NEW t, NEW o, NEW seqno, TableIn(t, M), Has(t, o, seqno)
  PROVE  EntryOf(t, o, seqno).memloc \in M
<1>1. PICK c : c = CacheOf(t, o) /\ CacheIn(c, M)
  BY CacheOfIn
<1>2. (CHOOSE i \in IndexOf(c, seqno) : TRUE) \in IndexOf(c, seqno)
  BY <1>1 DEF Has
<1> QED BY <1>1, <1>2 DEF EntryOf, IndexOf, CacheIn, EntIn

(* Another cache in a row.                                                  *)
LEMMA CacheSet ==
  ASSUME NEW M, NEW t, NEW k, NEW c, NEW d, TableIn(t, M), CacheIn(c, M),
         d = [t EXCEPT ![k].cache = c]
  PROVE  TableIn(d, M)
<1>2. PICK r : r = [t[k] EXCEPT !.cache = c]
  OBVIOUS
<1>1. d = [t EXCEPT ![k] = r]
  BY <1>2
<1>3. k \in DOMAIN t => RowIn(r, M)
  BY <1>2 DEF TableIn, RowIn
<1>4. IsList(d) /\ DOMAIN d = DOMAIN t /\ \A i \in DOMAIN t : d[i] = IF i = k THEN r ELSE t[i]
  <2>1. IsList(t)
    BY DEF TableIn
  <2> QED BY ONLY <1>1, <2>1, ListExcept
<1> QED BY <1>3, <1>4 DEF TableIn

LEMMA WithoutRowIn ==
  ASSUME NEW M, NEW t, NEW k \in DOMAIN t, TableIn(t, M)
  PROVE  TableIn(WithoutRow(t, k), M) /\ Len(WithoutRow(t, k)) = Len(t) - 1
<1>1. PICK d : d = IF k = Len(t) THEN t ELSE [t EXCEPT ![k] = t[Len(t)]]
  OBVIOUS
<1>2. Len(t) \in Nat /\ DOMAIN t = 1 .. Len(t) /\ Len(t) # 0 /\ Len(t) \in DOMAIN t
  BY ListHas DEF TableIn
<1>3. TableIn(d, M) /\ Len(d) = Len(t)
  BY <1>1, <1>2, ListExcept DEF TableIn
<1>4. WithoutRow(t, k) = SubSeq(d, 1, Len(d) - 1)
  BY <1>1, <1>3 DEF WithoutRow
<1>5. IsList(d) /\ Len(d) # 0
  BY <1>2, <1>3 DEF TableIn
<1>6. /\ IsList(SubSeq(d, 1, Len(d) - 1)) /\ Len(SubSeq(d, 1, Len(d) - 1)) = Len(d) - 1
      /\ \A i \in DOMAIN SubSeq(d, 1, Len(d) - 1) :
           i \in DOMAIN d /\ SubSeq(d, 1, Len(d) - 1)[i] = d[i]
  BY <1>5, ListFront
<1> QED BY <1>3, <1>4, <1>6 DEF TableIn

LEMMA WithoutNodeIn ==
  ASSUME NEW M, NEW t, NEW o, TableIn(t, M)
  PROVE  TableIn(WithoutNode(t, o), M)
BY WithoutRowIn, RowOfIn DEF WithoutNode

LEMMA InsertedTableIn ==
  ASSUME NEW M, NEW t, NEW o, NEW e, TableIn(t, M), EntIn(e, M)
  PROVE  TableIn(InsertedTable(t, o, e), M)
<1>1. CASE o \in Origins(t)
  <2>1. CacheIn(t[RowOf(t, o)].cache, M)
    BY <1>1, RowOfIn DEF TableIn, RowIn
  <2>2. PICK c : c = Inserted(t[RowOf(t, o)].cache, e) /\ CacheIn(c, M)
    BY <2>1, InsertedIn
  <2>3. InsertedTable(t, o, e) = [t EXCEPT ![RowOf(t, o)].cache = c]
    BY <1>1, <2>2 DEF InsertedTable
  <2> QED BY <2>2, <2>3, CacheSet, ZenonT(30)
<1>2. CASE o \notin Origins(t)
  <2>1. PICK r : r = [origin |-> o, cache |-> <<e>>]
    OBVIOUS
  <2>2. IsList(<<e>>) /\ DOMAIN <<e>> = {1} /\ <<e>>[1] = e
    <3>1. <<e>> \in Seq({e}) /\ DOMAIN <<e>> = {1} /\ <<e>>[1] = e
      OBVIOUS
    <3> QED BY <3>1, ListOf
  <2>3. RowIn(r, M)
    BY <2>1, <2>2 DEF RowIn, CacheIn
  <2>4. InsertedTable(t, o, e) = Append(t, r)
    BY <1>2, <2>1 DEF InsertedTable
  <2>5. IsList(t) /\ Len(t) \in Nat /\ DOMAIN t = 1 .. Len(t)
    BY ListHas DEF TableIn
  <2>6. \A i \in 1 .. (Len(t) + 1) : i = Len(t) + 1 \/ i \in DOMAIN t
    BY <2>5
  <2> QED BY <2>3, <2>4, <2>5, <2>6, ListAppend DEF TableIn
<1> QED BY <1>1, <1>2

LEMMA ClassifiedTableIn ==
  ASSUME NEW M, NEW t, NEW o, NEW seqno, NEW age, TableIn(t, M)
  PROVE  TableIn(ClassifiedTable(t, o, seqno, age), M)
<1>1. CASE o \in Origins(t)
  <2>1. CacheIn(t[RowOf(t, o)].cache, M)
    BY <1>1, RowOfIn DEF TableIn, RowIn
  <2>2. PICK c : c = ClassifiedCache(t[RowOf(t, o)].cache, seqno, age) /\ CacheIn(c, M)
    BY <2>1, ClassifiedIn
  <2>3. ClassifiedTable(t, o, seqno, age) = [t EXCEPT ![RowOf(t, o)].cache = c]
    BY <1>1, <2>2 DEF ClassifiedTable
  <2> QED BY <2>2, <2>3, CacheSet, ZenonT(30)
<1>2. CASE o \notin Origins(t)
  BY <1>2 DEF ClassifiedTable
<1> QED BY <1>1, <1>2

-----------------------------------------------------------------------------
(* Walks.  A function that is defined from one number to the next is a      *)
(* function: it exists, and what each step hands on holds at every number.  *)

(* What holds at 0 and is handed on from a number to the next holds at all. *)
LEMMA Climb ==
  ASSUME NEW n \in Nat, NEW S, 0 \in S, \A k \in 1 .. n : k - 1 \in S => k \in S
  PROVE  0 .. n \subseteq S
<1> DEFINE T == {k \in 0 .. n : k \notin S}
<1> SUFFICES ASSUME T # {}
             PROVE  FALSE
  OBVIOUS
<1>1. PICK k \in T : \A j \in T : <<j, k>> \notin OpToRel(<, Nat)
  <2>1. T \subseteq Nat
    OBVIOUS
  <2> HIDE DEF T
  <2> QED BY <2>1, WFMin, NatLessThanWellFounded, Zenon
<1>2. k \in 1 .. n /\ k \notin S
  OBVIOUS
<1>3. k - 1 \in 0 .. n /\ k - 1 \in Nat /\ k \in Nat /\ k - 1 < k
  BY <1>2
<1>4. k - 1 \in S
  <2> SUFFICES ASSUME k - 1 \in T
               PROVE  FALSE
    BY <1>3
  <2>1. <<k - 1, k>> \in Nat \X Nat /\ <<k - 1, k>>[1] < <<k - 1, k>>[2]
    BY <1>3
  <2> HIDE DEF T
  <2>2. <<k - 1, k>> \in OpToRel(<, Nat)
    BY ONLY <2>1, Zenon DEF OpToRel
  <2> QED BY <1>1, <2>2, Zenon
<1> QED BY <1>2, <1>4

AgedAfter(t, out) ==
  out = [k \in 0 .. Len(t) |-> IF k = 0 THEN [t |-> t, i |-> 1] ELSE AgedRow(out[k - 1])]

LEMMA AgedWalk ==
  ASSUME NEW t, Len(t) \in Nat
  PROVE  \E out : AgedAfter(t, out) /\ AgedTable(t) = out[Len(t)].t
<1>1. PICK n \in Nat : n = Len(t)
  OBVIOUS
<1> DEFINE Upto(f, j) ==
             [k \in 0 .. j |-> IF k = 0 THEN [t |-> t, i |-> 1] ELSE AgedRow(f[k - 1])]
           S == {j \in 0 .. n : \E f : f = Upto(f, j)}
           out == CHOOSE f : f = Upto(f, n)
<1>2. 0 \in S
  <2>1. PICK f : f = [k \in 0 .. 0 |-> [t |-> t, i |-> 1]]
    OBVIOUS
  <2>2. f = Upto(f, 0)
    BY <2>1
  <2> QED BY <2>2
<1>3. ASSUME NEW j \in 1 .. n, j - 1 \in S
      PROVE  j \in S
  <2>1. PICK f : f = Upto(f, j - 1)
    BY <1>3
  <2>2. PICK g : g = [k \in 0 .. j |-> IF k = j THEN AgedRow(f[j - 1]) ELSE f[k]]
    OBVIOUS
  <2>3. ASSUME NEW k \in 0 .. j
        PROVE  g[k] = IF k = 0 THEN [t |-> t, i |-> 1] ELSE AgedRow(g[k - 1])
    <3>1. k # 0 => k - 1 \in 0 .. (j - 1) /\ k - 1 \in 0 .. j /\ k - 1 # j
      OBVIOUS
    <3>2. k # 0 => g[k - 1] = f[k - 1]
      BY <2>2, <3>1
    <3>3. CASE k = j
      BY <2>2, <3>2, <3>3
    <3>4. CASE k # j
      <4>1. k \in 0 .. (j - 1)
        BY <3>4
      <4>2. f[k] = IF k = 0 THEN [t |-> t, i |-> 1] ELSE AgedRow(f[k - 1])
        BY <2>1, <4>1
      <4> QED BY <2>2, <3>2, <3>4, <4>2
    <3> QED BY <3>3, <3>4
  <2>4. g = Upto(g, j)
    BY <2>2, <2>3
  <2> QED BY <2>4
<1> HIDE DEF S
<1>4. n \in S
  BY <1>2, <1>3, Climb
<1>5. \E f : f = Upto(f, n)
  BY <1>4 DEF S
<1>6. out = Upto(out, n)
  BY <1>5, Zenon
<1> HIDE DEF out
<1>7. AgedAfter(t, out)
  BY <1>1, <1>6 DEF AgedAfter
<1>8. AgedTable(t) = out[n].t
  BY <1>1, Zenon DEF AgedTable, out
<1> QED BY <1>1, <1>7, <1>8


LEMMA AgedTableIn ==
  ASSUME NEW M, NEW t, TableIn(t, M)
  PROVE  TableIn(AgedTable(t), M)
<1>1. PICK n \in Nat : n = Len(t)
  BY ListHas DEF TableIn
<1>2. PICK out : AgedAfter(t, out) /\ AgedTable(t) = out[n].t
  BY <1>1, AgedWalk
<1> DEFINE Acc(a, k) == /\ DOMAIN a = {"t", "i"} /\ TableIn(a.t, M)
                        /\ a.i \in Nat \ {0} /\ Len(a.t) - a.i + 1 = n - k
           S == {k \in 0 .. n : Acc(out[k], k)}
<1>3. ASSUME NEW a, NEW k \in 1 .. n, Acc(a, k - 1)
      PROVE  Acc(AgedRow(a), k)
  <2>1. PICK d, i : d = a.t /\ i = a.i
    OBVIOUS
  <2>2. IsList(d) /\ Len(d) \in Nat /\ DOMAIN d = 1 .. Len(d) /\ TableIn(d, M)
    BY <1>3, <2>1, ListHas DEF TableIn
  <2>3. i \in DOMAIN d /\ Len(d) - i + 1 = n - (k - 1) /\ i \in Nat \ {0}
    BY <1>3, <2>1, <2>2
  <2>4. PICK row : row = [d[i] EXCEPT !.cache = AgedBy(@, 1)]
    OBVIOUS
  <2>5. RowIn(row, M)
    <3>1. CacheIn(AgedBy(d[i].cache, 1), M) /\ DOMAIN d[i] = {"origin", "cache"}
      BY <2>2, <2>3, AgedIn DEF TableIn, RowIn
    <3> QED BY <2>4, <3>1 DEF RowIn
  <2>6. CASE NewestAge(row.cache) > DeleteOld
    <3>1. AgedRow(a) = [a EXCEPT !.t = WithoutRow(d, i)]
      BY <2>1, <2>4, <2>6, ZenonT(30) DEF AgedRow
    <3>2. TableIn(WithoutRow(d, i), M) /\ Len(WithoutRow(d, i)) = Len(d) - 1
      BY <2>2, <2>3, WithoutRowIn
    <3>3. /\ DOMAIN AgedRow(a) = {"t", "i"} /\ AgedRow(a).t = WithoutRow(d, i)
          /\ AgedRow(a).i = i
      BY <1>3, <2>1, <3>1
    <3> QED BY <2>2, <2>3, <3>2, <3>3, SMTT(30)
  <2>7. CASE ~(NewestAge(row.cache) > DeleteOld)
    <3>1. AgedRow(a) = [t |-> [d EXCEPT ![i] = row], i |-> i + 1]
      BY <2>1, <2>4, <2>7 DEF AgedRow
    <3>2. PICK e : e = [d EXCEPT ![i] = row]
      OBVIOUS
    <3>3. /\ IsList(e) /\ Len(e) = Len(d) /\ DOMAIN e = DOMAIN d
          /\ \A j \in DOMAIN d : e[j] = IF j = i THEN row ELSE d[j]
      BY ONLY <2>2, <3>2, ListExcept
    <3>4. TableIn(e, M)
      BY <2>2, <2>5, <3>3 DEF TableIn
    <3> QED BY <2>2, <2>3, <3>1, <3>2, <3>3, <3>4
  <2> QED BY <2>6, <2>7
<1>4. 0 .. n \subseteq S
  <2>1. 0 \in S
    <3>1. out[0] = [t |-> t, i |-> 1]
      BY <1>1, <1>2 DEF AgedAfter
    <3> QED BY <1>1, <3>1
  <2>2. ASSUME NEW k \in 1 .. n, k - 1 \in S
        PROVE  k \in S
    <3>1. out[k] = AgedRow(out[k - 1])
      BY <1>1, <1>2 DEF AgedAfter
    <3>2. Acc(out[k - 1], k - 1)
      BY <2>2
    <3> HIDE DEF Acc
    <3> QED BY <1>3, <3>1, <3>2
  <2> HIDE DEF S
  <2> QED BY <2>1, <2>2, Climb
<1>5. n \in S
  BY <1>4
<1> QED BY <1>2, <1>5

SummaryAfter(t, ignoreOld, out) ==
  out = [k \in 0 .. Len(t) |->
           IF k = 0 THEN <<>> ELSE Advertised(out[k - 1], t[k], ignoreOld)]

LEMMA SummaryWalk ==
  ASSUME NEW t, NEW ignoreOld, Len(t) \in Nat
  PROVE  \E out : SummaryAfter(t, ignoreOld, out) /\ Summary(t, ignoreOld) = out[Len(t)]
<1>1. PICK n \in Nat : n = Len(t)
  OBVIOUS
<1> DEFINE Upto(f, j) ==
             [k \in 0 .. j |-> IF k = 0 THEN <<>> ELSE Advertised(f[k - 1], t[k], ignoreOld)]
           S == {j \in 0 .. n : \E f : f = Upto(f, j)}
           out == CHOOSE f : f = Upto(f, n)
<1>2. 0 \in S
  <2>1. PICK f : f = [k \in 0 .. 0 |-> <<>>]
    OBVIOUS
  <2>2. f = Upto(f, 0)
    BY <2>1
  <2> QED BY <2>2
<1>3. ASSUME NEW j \in 1 .. n, j - 1 \in S
      PROVE  j \in S
  <2>1. PICK f : f = Upto(f, j - 1)
    BY <1>3
  <2>2. PICK g : g = [k \in 0 .. j |-> IF k = j THEN Advertised(f[j - 1], t[j], ignoreOld) ELSE f[k]]
    OBVIOUS
  <2>3. ASSUME NEW k \in 0 .. j
        PROVE  g[k] = IF k = 0 THEN <<>> ELSE Advertised(g[k - 1], t[k], ignoreOld)
    <3>1. k # 0 => k - 1 \in 0 .. (j - 1) /\ k - 1 \in 0 .. j /\ k - 1 # j
      OBVIOUS
    <3>2. k # 0 => g[k - 1] = f[k - 1]
      BY <2>2, <3>1
    <3>3. CASE k = j
      BY <2>2, <3>2, <3>3
    <3>4. CASE k # j
      <4>1. k \in 0 .. (j - 1)
        BY <3>4
      <4>2. f[k] = IF k = 0 THEN <<>> ELSE Advertised(f[k - 1], t[k], ignoreOld)
        BY <2>1, <4>1
      <4> QED BY <2>2, <3>2, <3>4, <4>2
    <3> QED BY <3>3, <3>4
  <2>4. g = Upto(g, j)
    BY <2>2, <2>3
  <2> QED BY <2>4
<1> HIDE DEF S
<1>4. n \in S
  BY <1>2, <1>3, Climb
<1>5. \E f : f = Upto(f, n)
  BY <1>4 DEF S
<1>6. out = Upto(out, n)
  BY <1>5, Zenon
<1> HIDE DEF out
<1>7. SummaryAfter(t, ignoreOld, out)
  BY <1>1, <1>6 DEF SummaryAfter
<1>8. Summary(t, ignoreOld) = out[n]
  BY <1>1, Zenon DEF Summary, out
<1> QED BY <1>1, <1>7, <1>8

LEMMA SummaryIn ==
  ASSUME NEW M, NEW t, NEW ignoreOld, TableIn(t, M)
  PROVE  IsList(Summary(t, ignoreOld))
<1>1. PICK n \in Nat : n = Len(t)
  BY ListHas DEF TableIn
<1>2. PICK out : SummaryAfter(t, ignoreOld, out) /\ Summary(t, ignoreOld) = out[n]
  BY <1>1, SummaryWalk
<1> DEFINE S == {k \in 0 .. n : IsList(out[k])}
<1>3. 0 .. n \subseteq S
  <2>1. 0 \in S
    <3>1. out[0] = <<>>
      BY <1>1, <1>2 DEF SummaryAfter
    <3> QED BY <3>1, NothingIn
  <2>2. ASSUME NEW k \in 1 .. n, k - 1 \in S
        PROVE  k \in S
    <3>1. out[k] = Advertised(out[k - 1], t[k], ignoreOld)
      BY <1>1, <1>2 DEF SummaryAfter
    <3>2. IsList(out[k - 1])
      BY <2>2
    <3> QED BY <3>1, <3>2, ListAppend DEF Advertised
  <2> HIDE DEF S
  <2> QED BY <2>1, <2>2, Climb
<1>4. n \in S
  BY <1>3
<1> QED BY <1>2, <1>4

Uncompared(t) == [t |-> t, req |-> <<>>, late |-> FALSE, same |-> FALSE]

ComparedAfter(t, es, out) ==
  out = [k \in 0 .. Len(es) |->
           IF k = 0 THEN Uncompared(t) ELSE ComparedTo(out[k - 1], es[k])]

LEMMA ComparedWalk ==
  ASSUME NEW t, NEW es, Len(es) \in Nat
  PROVE  \E out : ComparedAfter(t, es, out) /\ Compared(t, es) = out[Len(es)]
<1>1. PICK n \in Nat : n = Len(es)
  OBVIOUS
<1> DEFINE Upto(f, j) ==
             [k \in 0 .. j |-> IF k = 0 THEN Uncompared(t) ELSE ComparedTo(f[k - 1], es[k])]
           S == {j \in 0 .. n : \E f : f = Upto(f, j)}
           out == CHOOSE f : f = Upto(f, n)
<1>2. 0 \in S
  <2>1. PICK f : f = [k \in 0 .. 0 |-> Uncompared(t)]
    OBVIOUS
  <2>2. f = Upto(f, 0)
    BY <2>1
  <2> QED BY <2>2
<1>3. ASSUME NEW j \in 1 .. n, j - 1 \in S
      PROVE  j \in S
  <2>1. PICK f : f = Upto(f, j - 1)
    BY <1>3
  <2>2. PICK g : g = [k \in 0 .. j |-> IF k = j THEN ComparedTo(f[j - 1], es[j]) ELSE f[k]]
    OBVIOUS
  <2>3. ASSUME NEW k \in 0 .. j
        PROVE  g[k] = IF k = 0 THEN Uncompared(t) ELSE ComparedTo(g[k - 1], es[k])
    <3>1. k # 0 => k - 1 \in 0 .. (j - 1) /\ k - 1 \in 0 .. j /\ k - 1 # j
      OBVIOUS
    <3>2. k # 0 => g[k - 1] = f[k - 1]
      BY <2>2, <3>1
    <3>3. CASE k = j
      BY <2>2, <3>2, <3>3
    <3>4. CASE k # j
      <4>1. k \in 0 .. (j - 1)
        BY <3>4
      <4>2. f[k] = IF k = 0 THEN Uncompared(t) ELSE ComparedTo(f[k - 1], es[k])
        BY <2>1, <4>1
      <4> QED BY <2>2, <3>2, <3>4, <4>2
    <3> QED BY <3>3, <3>4
  <2>4. g = Upto(g, j)
    BY <2>2, <2>3
  <2> QED BY <2>4
<1> HIDE DEF S
<1>4. n \in S
  BY <1>2, <1>3, Climb
<1>5. \E f : f = Upto(f, n)
  BY <1>4 DEF S
<1>6. out = Upto(out, n)
  BY <1>5, Zenon
<1> HIDE DEF out
<1>7. ComparedAfter(t, es, out)
  BY <1>1, <1>6 DEF ComparedAfter
<1>8. Compared(t, es) = out[n]
  BY <1>1, Zenon DEF Compared, Uncompared, out
<1> QED BY <1>1, <1>7, <1>8

LEMMA ComparedIn ==
  ASSUME NEW M, NEW t, NEW es, TableIn(t, M), IsList(es)
  PROVE  TableIn(Compared(t, es).t, M)
<1>1. PICK n \in Nat : n = Len(es)
  BY ListHas
<1>2. PICK out : ComparedAfter(t, es, out) /\ Compared(t, es) = out[n]
  BY <1>1, ComparedWalk
<1> DEFINE S == {k \in 0 .. n : TableIn(out[k].t, M)}
<1>3. 0 .. n \subseteq S
  <2>1. 0 \in S
    <3>1. out[0] = Uncompared(t)
      BY <1>1, <1>2 DEF ComparedAfter
    <3> QED BY <3>1 DEF Uncompared
  <2>2. ASSUME NEW k \in 1 .. n, k - 1 \in S
        PROVE  k \in S
    <3>1. out[k] = ComparedTo(out[k - 1], es[k])
      BY <1>1, <1>2 DEF ComparedAfter
    <3>2. TableIn(out[k - 1].t, M)
      BY <2>2
    <3>3. \/ out[k].t = WithoutNode(out[k - 1].t, es[k].origin)
          \/ out[k].t = ClassifiedTable(out[k - 1].t, es[k].origin, es[k].seqno, es[k].age)
      BY <3>1 DEF ComparedTo
    <3> QED BY <3>2, <3>3, WithoutNodeIn, ClassifiedTableIn
  <2> HIDE DEF S
  <2> QED BY <2>1, <2>2, Climb
<1>4. n \in S
  BY <1>3
<1> QED BY <1>2, <1>4

-----------------------------------------------------------------------------
(* Packets, and the packets a node is sending.                              *)

IsMsg(p)  == DOMAIN p = {"kind", "origin", "seqno", "age"} /\ p.kind = "msg"
Packed(p) == /\ p.kind \in {"msg", "summary", "request"}
             /\ p.kind = "msg" => IsMsg(p)
             /\ p.kind = "summary" => IsList(p.list)
Aired(a)  == DOMAIN a = {"pkt", "to"} /\ Packed(a.pkt)
AirIn(air) == IsList(air) /\ \A i \in DOMAIN air : Aired(air[i])

LEMMA SentIn ==
  ASSUME NEW air, NEW p, NEW to, AirIn(air), Packed(p)
  PROVE  AirIn(Append(air, [pkt |-> p, to |-> to]))
<1>0. PICK x : x = [pkt |-> p, to |-> to]
  OBVIOUS
<1>1. Aired(x)
  BY <1>0 DEF Aired
<1>2. IsList(air) /\ Len(air) \in Nat /\ DOMAIN air = 1 .. Len(air)
  BY ListHas DEF AirIn
<1>3. \A i \in 1 .. (Len(air) + 1) : i = Len(air) + 1 \/ i \in DOMAIN air
  BY <1>2
<1> QED BY <1>0, <1>1, <1>2, <1>3, ListAppend DEF AirIn

LEMMA MsgPacked ==
  ASSUME NEW p, IsMsg(p)
  PROVE  Packed(p)
BY DEF IsMsg, Packed

LEMMA SummaryPacked ==
  ASSUME NEW n, NEW num, NEW es, IsList(es)
  PROVE  Packed(SummaryMsg(n, num, es))
BY DEF SummaryMsg, Packed

LEMMA RequestPacked ==
  ASSUME NEW n, NEW es
  PROVE  Packed(RequestMsg(n, es))
BY DEF RequestMsg, Packed

(* What is sent again is still a message.                                   *)
LEMMA AgePacked ==
  ASSUME NEW p, NEW t, NEW junk, IsMsg(p)
  PROVE  IsMsg(WithAge(p, t, junk))
BY DEF WithAge, IsMsg

LEMMA EntriesIn ==
  ASSUME NEW p, Packed(p), p.kind = "summary"
  PROVE  IsList(Entries(p))
BY NothingIn DEF Packed, Entries

(* A neighbour has heard or missed the first packet.                        *)
LEMMA ResolvedAir ==
  ASSUME NEW s, NEW m, "air" \in DOMAIN s, AirIn(s.air), s.air # <<>>
  PROVE  \E air : AirIn(air) /\ Resolved(s, m) = [s EXCEPT !.air = air]
<1>1. PICK to : to = s.air[1].to \ {m}
  OBVIOUS
<1>2. CASE to = {}
  <2>1. Resolved(s, m) = [s EXCEPT !.air = Tail(s.air)]
    BY <1>1, <1>2 DEF Resolved
  <2>2. AirIn(Tail(s.air))
    BY ListTail DEF AirIn
  <2> QED BY <2>1, <2>2
<1>3. CASE to # {}
  <2>1. PICK x : x = [s.air[1] EXCEPT !.to = to]
    OBVIOUS
  <2>2. PICK air : air = [s.air EXCEPT ![1] = x]
    OBVIOUS
  <2>3. Resolved(s, m) = [s EXCEPT !.air = air]
    BY <1>1, <1>3, <2>1, <2>2 DEF Resolved
  <2>4. 1 \in DOMAIN s.air => Aired(x)
    BY <2>1 DEF AirIn, Aired
  <2>5. IsList(s.air)
    BY DEF AirIn
  <2>6. IsList(air) /\ DOMAIN air = DOMAIN s.air
        /\ \A i \in DOMAIN s.air : air[i] = IF i = 1 THEN x ELSE s.air[i]
    BY ONLY <2>2, <2>5, ListExcept
  <2>7. AirIn(air)
    BY <2>4, <2>6 DEF AirIn
  <2> QED BY <2>3, <2>7
<1> QED BY <1>2, <1>3

-----------------------------------------------------------------------------
(* The inductive invariant.                                                 *)

(* The places of a log that hold a message.                                 *)
Written(log) == {i \in DOMAIN log : IsMsg(log[i])}

MoteFields ==
  {"state", "rx", "table", "flash", "buf", "loc", "log", "ptr", "rlist", "last", "timer",
   "posted", "ticks", "air", "got", "frag", "tasks"}

MoteOK(s) ==
  /\ DOMAIN s = MoteFields
  /\ TableIn(s.table, Written(s.log)) /\ AirIn(s.air)
  /\ DOMAIN s.log = 0 .. (LogSize - 1) /\ s.ptr \in DOMAIN s.log
  /\ s.flash = "READ" => s.loc \in Written(s.log)
  /\ s.rx \in BOOLEAN /\ (s.rx => s.state \in {"INIT", "INIT_READY", "STEADY"})
  /\ s.state = "FAST_PACKET" => s.flash # "READ" /\ IsMsg(s.buf) /\ s.last = MetaOf(s.buf)

MasterFields ==
  {"state", "rx", "table", "mem", "ptr", "pkt", "fast", "rlist", "last", "timer", "alarms",
   "loops", "ready", "seqno", "ticks", "air", "got", "frag", "tasks"}

MasterOK(s) ==
  /\ DOMAIN s = MasterFields
  /\ TableIn(s.table, Written(s.mem)) /\ AirIn(s.air)
  /\ DOMAIN s.mem = 0 .. (MemSize - 1) /\ s.ptr \in DOMAIN s.mem
  /\ s.state = "FAST_PACKET" => IsMsg(s.pkt)

IndInv ==
  /\ DOMAIN node = Node
  /\ \A n \in Motes : MoteOK(node[n])
  /\ \A n \in Masters : MasterOK(node[n])

(* A place that is written is added to those that are.                      *)
LEMMA WrittenAlso ==
  ASSUME NEW log, NEW k \in DOMAIN log, NEW p, IsMsg(p)
  PROVE  /\ Written(log) \subseteq Written([log EXCEPT ![k] = p])
         /\ k \in Written([log EXCEPT ![k] = p])
         /\ DOMAIN [log EXCEPT ![k] = p] = DOMAIN log
BY DEF Written

-----------------------------------------------------------------------------
(* The motes.                                                              *)

LEMMA MoteKeeps ==
  ASSUME NEW s, NEW d, MoteOK(s), DOMAIN d = MoteFields,
         d.table = s.table, d.air = s.air, d.log = s.log, d.ptr = s.ptr,
         d.flash = s.flash, d.loc = s.loc, d.rx = s.rx, d.state = s.state,
         d.buf = s.buf, d.last = s.last
  PROVE  MoteOK(d)
BY DEF MoteOK

LEMMA MoteTimers ==
  ASSUME NEW s, MoteOK(s)
  PROVE  /\ MoteOK(TimerReset(s)) /\ MoteOK(TimerProcessed(s)) /\ MoteOK(TimerSuppress(s))
         /\ MoteOK(TimerUpdated(s))
<1>1. DOMAIN s = MoteFields
  BY DEF MoteOK
<1>2. ASSUME NEW v
      PROVE  MoteOK([s EXCEPT !.timer = v])
  <2>1. PICK d : d = [s EXCEPT !.timer = v]
    OBVIOUS
  <2>2. /\ DOMAIN d = MoteFields /\ d.table = s.table /\ d.air = s.air /\ d.log = s.log
        /\ d.ptr = s.ptr /\ d.flash = s.flash /\ d.loc = s.loc /\ d.rx = s.rx
        /\ d.state = s.state /\ d.buf = s.buf /\ d.last = s.last
    BY <1>1, <2>1 DEF MoteFields
  <2> QED BY <2>1, <2>2, MoteKeeps
<1> QED BY <1>2 DEF TimerReset, TimerProcessed, TimerSuppress, TimerUpdated

LEMMA MoteReceived ==
  ASSUME NEW s, NEW p, NEW bounded, MoteOK(s)
  PROVE  MoteOK(Received(s, p, bounded))
<1>1. DOMAIN s = MoteFields
  BY DEF MoteOK
<1>2. PICK got, frag, tasks :
        Received(s, p, bounded) = [s EXCEPT !.got = got, !.frag = frag, !.tasks = tasks]
  BY DEF Received
<1>3. PICK d : d = [s EXCEPT !.got = got, !.frag = frag, !.tasks = tasks]
  OBVIOUS
<1>4. /\ DOMAIN d = MoteFields /\ d.table = s.table /\ d.air = s.air /\ d.log = s.log
      /\ d.ptr = s.ptr /\ d.flash = s.flash /\ d.loc = s.loc /\ d.rx = s.rx
      /\ d.state = s.state /\ d.buf = s.buf /\ d.last = s.last
  BY <1>1, <1>3 DEF MoteFields
<1> QED BY <1>2, <1>3, <1>4, MoteKeeps

LEMMA MoteSent ==
  ASSUME NEW s, NEW to, NEW p, MoteOK(s), Packed(p)
  PROVE  MoteOK(Sent(s, to, p))
<1>1. PICK d : d = Sent(s, to, p)
  OBVIOUS
<1>2. /\ DOMAIN d = MoteFields /\ d.air = Append(s.air, [pkt |-> p, to |-> to])
      /\ d.table = s.table /\ d.log = s.log
      /\ d.ptr = s.ptr /\ d.flash = s.flash /\ d.loc = s.loc /\ d.rx = s.rx
      /\ d.state = s.state /\ d.buf = s.buf /\ d.last = s.last
  BY <1>1 DEF MoteOK, MoteFields, Sent
<1>3. AirIn(d.air)
  BY <1>2, SentIn DEF MoteOK
<1> QED BY <1>1, <1>2, <1>3 DEF MoteOK

LEMMA MoteTable ==
  ASSUME NEW s, NEW t, MoteOK(s), TableIn(t, Written(s.log))
  PROVE  MoteOK([s EXCEPT !.table = t])
<1>1. PICK d : d = [s EXCEPT !.table = t]
  OBVIOUS
<1>2. /\ DOMAIN d = MoteFields /\ d.table = t /\ d.air = s.air /\ d.log = s.log
      /\ d.ptr = s.ptr /\ d.flash = s.flash /\ d.loc = s.loc /\ d.rx = s.rx
      /\ d.state = s.state /\ d.buf = s.buf /\ d.last = s.last
  BY <1>1 DEF MoteOK, MoteFields
<1> QED BY <1>1, <1>2 DEF MoteOK

(* The state of a mote moves on, but not to FAST_PACKET.                    *)
LEMMA MoteState ==
  ASSUME NEW s, NEW st, MoteOK(s), st # "FAST_PACKET",
         s.rx => st \in {"INIT", "INIT_READY", "STEADY"}
  PROVE  MoteOK([s EXCEPT !.state = st])
<1>1. PICK d : d = [s EXCEPT !.state = st]
  OBVIOUS
<1>2. /\ DOMAIN d = MoteFields /\ d.table = s.table /\ d.air = s.air /\ d.log = s.log
      /\ d.ptr = s.ptr /\ d.flash = s.flash /\ d.loc = s.loc /\ d.rx = s.rx
      /\ d.state = st /\ d.buf = s.buf /\ d.last = s.last
  BY <1>1 DEF MoteOK, MoteFields
<1> QED BY <1>1, <1>2 DEF MoteOK

LEMMA MoteNoted ==
  ASSUME NEW s, NEW p, NEW class, MoteOK(s)
  PROVE  MoteOK(Noted(s, p, class))
<1>1. TableIn(s.table, Written(s.log))
  BY DEF MoteOK
<1>2. PICK t : /\ TableIn(t, Written(s.log)) /\ Noted(s, p, class) = [s EXCEPT !.table = t]
  BY <1>1, WithoutNodeIn, ClassifiedTableIn DEF Noted
<1> QED BY <1>2, MoteTable

(* The write of a received message: its place is in use from then on.      *)
LEMMA MoteStoreOK ==
  ASSUME NEW s, NEW p, NEW check_age, NEW w, MoteOK(s), IsMsg(p), s.flash # "READ"
  PROVE  MoteOK(MoteStore(s, p, check_age, w))
<1>1. PICK got : got = [s EXCEPT !.buf = p, !.last = MetaOf(p)]
  OBVIOUS
<1>2. /\ DOMAIN got = MoteFields /\ got.table = s.table /\ got.air = s.air /\ got.log = s.log
      /\ got.ptr = s.ptr /\ got.flash = s.flash /\ got.loc = s.loc /\ got.rx = s.rx
      /\ got.state = s.state /\ got.buf = p /\ got.last = MetaOf(p)
  BY <1>1 DEF MoteOK, MoteFields
<1>3. MoteOK(got)
  BY <1>2 DEF MoteOK
<1>4. PICK log : log = [s.log EXCEPT ![s.ptr] = p]
  OBVIOUS
<1>5. /\ Written(s.log) \subseteq Written(log) /\ s.ptr \in Written(log)
      /\ DOMAIN log = 0 .. (LogSize - 1) /\ (s.ptr + 1) % LogSize \in 0 .. (LogSize - 1)
  BY <1>4, WrittenAlso, TrdMoteAssumption DEF MoteOK
<1>6. PICK written : written = LoggerWrite(got, p)
  OBVIOUS
<1>7. /\ DOMAIN written = MoteFields /\ written.table = s.table /\ written.air = s.air
      /\ written.log = log /\ written.ptr = (s.ptr + 1) % LogSize
      /\ written.flash = "WRITE" /\ written.loc = s.loc /\ written.rx = s.rx
      /\ written.state = s.state /\ written.buf = p /\ written.last = MetaOf(p)
  BY <1>2, <1>4, <1>6 DEF LoggerWrite, MoteFields
<1>8. TableIn(s.table, Written(log))
  BY <1>5, WiderIn DEF MoteOK
<1>9. MoteOK(written)
  BY <1>3, <1>5, <1>7, <1>8 DEF MoteOK
<1>10. PICK t : /\ t = InsertedTable(s.table, p.origin, Entry(p.seqno, s.ptr, p.age))
                /\ TableIn(t, Written(log))
  <2>1. EntIn(Entry(p.seqno, s.ptr, p.age), Written(log))
    BY <1>5 DEF EntIn, Entry
  <2> QED BY <1>8, <2>1, InsertedTableIn
<1>11. PICK kept, st :
         /\ kept = [TimerReset(written) EXCEPT !.table = t, !.state = st]
         /\ st = IF Is(s, "STEADY") THEN "FAST_PACKET" ELSE s.state
  OBVIOUS
<1>12. /\ DOMAIN kept = MoteFields /\ kept.table = t /\ kept.air = s.air
       /\ kept.log = log /\ kept.ptr = (s.ptr + 1) % LogSize
       /\ kept.flash = "WRITE" /\ kept.loc = s.loc /\ kept.rx = s.rx
       /\ kept.state = st /\ kept.buf = p /\ kept.last = MetaOf(p)
  BY <1>7, <1>11 DEF TimerReset, MoteFields
<1>13. MoteOK(kept)
  BY <1>5, <1>9, <1>10, <1>11, <1>12, <1>7 DEF MoteOK, Is
<1>14. PICK ready : ready = [kept EXCEPT !.state = "INIT_READY", !.rx = FALSE]
  OBVIOUS
<1>15. /\ DOMAIN ready = MoteFields /\ ready.table = t /\ ready.air = s.air
       /\ ready.log = log /\ ready.ptr = (s.ptr + 1) % LogSize
       /\ ready.flash = "WRITE" /\ ready.loc = s.loc /\ ready.rx = FALSE
       /\ ready.state = "INIT_READY"
  BY <1>12, <1>14 DEF MoteFields
<1>16. MoteOK(ready)
  BY <1>13, <1>12, <1>15 DEF MoteOK
<1>17. MoteStore(s, p, check_age, w) \in
         {got, written, kept, Received(kept, p, TRUE), Received(ready, p, TRUE)}
  <2>1. kept = [TimerReset(written) EXCEPT
                  !.table = InsertedTable(@, p.origin, Entry(p.seqno, s.ptr, p.age)),
                  !.state = IF Is(s, "STEADY") THEN "FAST_PACKET" ELSE @]
    BY <1>7, <1>10, <1>11 DEF TimerReset, MoteFields
  <2> QED BY <1>1, <1>6, <1>14, <2>1, Zenon DEF MoteStore
<1> QED BY <1>3, <1>9, <1>13, <1>16, <1>17, MoteReceived

LEMMA MoteAged ==
  ASSUME NEW s, MoteOK(s)
  PROVE  MoteOK([s EXCEPT !.table = AgedTable(s.table)])
<1>1. TableIn(AgedTable(s.table), Written(s.log))
  BY AgedTableIn DEF MoteOK
<1> QED BY <1>1, MoteTable

LEMMA MoteNewMsgOK ==
  ASSUME NEW s, NEW p, NEW w, MoteOK(s), IsMsg(p)
  PROVE  MoteOK(MoteNewMsg(s, p, w))
<1>1. PICK class : class = Classify(s.table, p.origin, p.seqno, p.age)
  OBVIOUS
<1>2. PICK r : r = Noted(s, p, class) /\ MoteOK(r)
  BY MoteNoted
<1>3. \/ MoteNewMsg(s, p, w) \in {r, TimerSuppress(r), TimerReset(r)}
      \/ MoteNewMsg(s, p, w) = [r EXCEPT !.table = AgedTable(r.table)]
      \/ r.flash = "IDLE" /\ MoteNewMsg(s, p, w) = MoteStore(r, p, class = "TOO_NEW", w)
  BY <1>1, <1>2 DEF MoteNewMsg
<1>4. CASE r.flash = "IDLE" /\ MoteNewMsg(s, p, w) = MoteStore(r, p, class = "TOO_NEW", w)
  <2>1. PICK check_age : check_age = (class = "TOO_NEW")
    OBVIOUS
  <2>2. MoteOK(MoteStore(r, p, check_age, w))
    BY <1>2, <1>4, MoteStoreOK
  <2> QED BY <1>4, <2>1, <2>2
<1> QED BY <1>2, <1>3, <1>4, MoteTimers, MoteAged

LEMMA MoteSummaryOK ==
  ASSUME NEW s, NEW n, NEW ignoreOld, NEW ok, MoteOK(s)
  PROVE  MoteOK(MoteSummary(s, n, ignoreOld, ok))
<1>1. PICK es : es = Summary(s.table, ignoreOld) /\ IsList(es)
  BY SummaryIn DEF MoteOK
<1>2. Packed(SummaryMsg(n, Len(es), es))
  BY <1>1, SummaryPacked
<1>3. MoteSummary(s, n, ignoreOld, ok) \in {s, Sent(s, Hearers(n), SummaryMsg(n, Len(es), es))}
  BY <1>1 DEF MoteSummary
<1> QED BY <1>2, <1>3, MoteSent

(* The radio has taken the packet a mote was to forward.                    *)
LEMMA MoteForwards ==
  ASSUME NEW s, NEW n, MoteOK(s), s.state = "FAST_PACKET"
  PROVE  MoteOK([Sent(s, Hearers(n), s.buf) EXCEPT !.state = "STEADY"])
<1>1. Packed(s.buf)
  BY MsgPacked DEF MoteOK
<1>2. MoteOK(Sent(s, Hearers(n), s.buf))
  BY <1>1, MoteSent
<1> QED BY <1>2, MoteState

LEMMA MoteTimerFiredOK ==
  ASSUME NEW s, NEW n, NEW ok, MoteOK(s)
  PROVE  MoteOK(MoteTimerFired(s, n, ok))
<1>1. DOMAIN s = MoteFields
  BY DEF MoteOK
<1>2. CASE Is(s, "FAST_PACKET")
  <2>1. MoteTimerFired(s, n, ok) \in
          {s, TimerProcessed([Sent(s, Hearers(n), s.buf) EXCEPT !.state = "STEADY"])}
    BY <1>2 DEF MoteTimerFired
  <2> QED BY <1>2, <2>1, MoteForwards, MoteTimers DEF Is
<1>3. CASE ~Is(s, "FAST_PACKET") /\ s.rx
  <2>1. PICK d : d = [s EXCEPT !.rx = FALSE]
    OBVIOUS
  <2>2. MoteTimerFired(s, n, ok) = TimerProcessed(TimerReset(d))
    BY <1>3, <2>1 DEF MoteTimerFired
  <2>3. /\ DOMAIN d = MoteFields /\ d.table = s.table /\ d.air = s.air /\ d.log = s.log
        /\ d.ptr = s.ptr /\ d.flash = s.flash /\ d.loc = s.loc /\ d.rx = FALSE
        /\ d.state = s.state /\ d.buf = s.buf /\ d.last = s.last
    BY <1>1, <2>1 DEF MoteFields
  <2>4. MoteOK(d)
    BY <2>3 DEF MoteOK
  <2> QED BY <2>2, <2>4, MoteTimers
<1>4. CASE ~Is(s, "FAST_PACKET") /\ ~s.rx /\ (s.state = "STEADY" \/ InitBit(s))
  <2>1. MoteTimerFired(s, n, ok) \in {s, TimerProcessed(MoteSummary(s, n, TRUE, ok))}
    BY <1>4 DEF MoteTimerFired
  <2> QED BY <2>1, MoteSummaryOK, MoteTimers
<1>5. CASE ~Is(s, "FAST_PACKET") /\ ~s.rx /\ ~(s.state = "STEADY" \/ InitBit(s))
  <2>1. PICK d : d = [s EXCEPT !.posted = TRUE]
    OBVIOUS
  <2>2. MoteTimerFired(s, n, ok) = TimerProcessed(d)
    BY <1>5, <2>1 DEF MoteTimerFired
  <2>3. /\ DOMAIN d = MoteFields /\ d.table = s.table /\ d.air = s.air /\ d.log = s.log
        /\ d.ptr = s.ptr /\ d.flash = s.flash /\ d.loc = s.loc /\ d.rx = s.rx
        /\ d.state = s.state /\ d.buf = s.buf /\ d.last = s.last
    BY <1>1, <2>1 DEF MoteFields
  <2> QED BY <2>2, <2>3, MoteKeeps, MoteTimers
<1> QED BY <1>2, <1>3, <1>4, <1>5

LEMMA MoteComparedOK ==
  ASSUME NEW s, NEW n, NEW p, NEW ok, NEW garbage, NEW r,
         MoteOK(s), TableIn(r.t, Written(s.log))
  PROVE  MoteOK(MoteCompared(s, n, p, ok, garbage, r))
<1>1. PICK done : done = [s EXCEPT !.table = r.t] /\ MoteOK(done)
  BY MoteTable
<1>2. PICK req : req = Sent(done, {p.sender}, RequestMsg(n, r.req)) /\ MoteOK(req)
  BY <1>1, MoteSent, RequestPacked
<1>3. done.state = s.state /\ done.rx = s.rx /\ req.state = s.state /\ DOMAIN req = MoteFields
  BY <1>1, <1>2 DEF MoteOK, MoteFields, Sent
<1>4. CASE r.req # <<>>
  <2>1. CASE ~(s.rx \/ ~ok) /\ (s.state = "STEADY" \/ InitBit(s))
    <3>1. PICK d : d = [req EXCEPT !.rx = TRUE]
      OBVIOUS
    <3>2. MoteCompared(s, n, p, ok, garbage, r) = TimerReset(d)
      BY <1>1, <1>2, <1>4, <2>1, <3>1 DEF MoteCompared
    <3>3. /\ DOMAIN d = MoteFields /\ d.table = req.table /\ d.air = req.air
          /\ d.log = req.log /\ d.ptr = req.ptr /\ d.flash = req.flash /\ d.loc = req.loc
          /\ d.rx = TRUE /\ d.state = s.state
      BY <1>3, <3>1 DEF MoteFields
    <3>4. MoteOK(d)
      BY <1>2, <1>3, <2>1, <3>3 DEF MoteOK, InitBit
    <3> QED BY <3>2, <3>4, MoteTimers
  <2>2. CASE ~(~(s.rx \/ ~ok) /\ (s.state = "STEADY" \/ InitBit(s)))
    <3>1. MoteCompared(s, n, p, ok, garbage, r) \in {done, req}
      BY <1>1, <1>2, <1>4, <2>2 DEF MoteCompared
    <3> QED BY <1>1, <1>2, <3>1
  <2> QED BY <2>1, <2>2
<1>5. CASE r.req = <<>>
  <2>1. \/ MoteCompared(s, n, p, ok, garbage, r) \in {done, TimerProcessed(TimerReset(done))}
        \/ MoteCompared(s, n, p, ok, garbage, r) =
             [TimerSuppress(done) EXCEPT !.state = IF Is(s, "INIT_READY") THEN "STEADY" ELSE @]
    BY <1>1, <1>5 DEF MoteCompared
  <2>2. PICK d : d = TimerSuppress(done) /\ MoteOK(d)
    BY <1>1, MoteTimers
  <2>3. MoteOK([d EXCEPT !.state = IF Is(s, "INIT_READY") THEN "STEADY" ELSE @])
    <3>1. CASE Is(s, "INIT_READY")
      BY <2>2, <3>1, MoteState
    <3>2. CASE ~Is(s, "INIT_READY")
      <4>1. PICK e : e = [d EXCEPT !.state = d.state]
        OBVIOUS
      <4>2. /\ DOMAIN e = MoteFields /\ e.table = d.table /\ e.air = d.air /\ e.log = d.log
            /\ e.ptr = d.ptr /\ e.flash = d.flash /\ e.loc = d.loc /\ e.rx = d.rx
            /\ e.state = d.state /\ e.buf = d.buf /\ e.last = d.last
        BY <2>2, <4>1 DEF MoteOK, MoteFields
      <4>3. MoteOK(e)
        BY <2>2, <4>2, MoteKeeps
      <4>4. [d EXCEPT !.state = IF Is(s, "INIT_READY") THEN "STEADY" ELSE @] = e
        BY ONLY <3>2, <4>1
      <4> QED BY ONLY <4>3, <4>4
    <3> QED BY <3>1, <3>2
  <2> QED BY <1>1, <2>1, <2>2, <2>3, MoteTimers
<1> QED BY <1>4, <1>5

LEMMA MoteSummaryReceivedOK ==
  ASSUME NEW s, NEW n, NEW p, NEW ok, NEW garbage, MoteOK(s), Packed(p), p.kind = "summary"
  PROVE  MoteOK(MoteSummaryReceived(s, n, p, ok, garbage))
<1>1. PICK r : r = Compared(s.table, Entries(p)) /\ TableIn(r.t, Written(s.log))
  BY EntriesIn, ComparedIn DEF MoteOK
<1>2. PICK d : d = IF Asks(p) THEN MoteSummary(s, n, FALSE, ok) ELSE s
  OBVIOUS
<1>3. MoteOK(d)
  BY <1>2, MoteSummaryOK
<1>4. d.log = s.log
  BY <1>2 DEF MoteSummary, Sent, MoteOK, MoteFields
<1>5. MoteOK(MoteCompared(d, n, p, ok, garbage, r))
  BY <1>1, <1>3, <1>4, MoteComparedOK
<1> QED BY <1>1, <1>2, <1>5 DEF MoteSummaryReceived

LEMMA MoteRequestReceivedOK ==
  ASSUME NEW s, NEW p, MoteOK(s)
  PROVE  MoteOK(MoteRequestReceived(s, p))
<1>1. PICK l : l = Requested(s.table, s.rlist, p.list)
  OBVIOUS
<1>2. PICK d : d = [s EXCEPT !.rlist = l, !.posted = TRUE,
                             !.state = IF Is(s, "STEADY") /\ l # <<>> THEN "TX" ELSE @]
  OBVIOUS
<1>3. MoteRequestReceived(s, p) \in {s, d}
  BY <1>1, <1>2 DEF MoteRequestReceived
<1>4. /\ DOMAIN d = MoteFields /\ d.table = s.table /\ d.air = s.air /\ d.log = s.log
      /\ d.ptr = s.ptr /\ d.flash = s.flash /\ d.loc = s.loc /\ d.rx = s.rx
      /\ d.state = (IF Is(s, "STEADY") /\ l # <<>> THEN "TX" ELSE s.state)
      /\ d.buf = s.buf /\ d.last = s.last
  BY <1>2 DEF MoteOK, MoteFields
<1>5. MoteOK(d)
  BY <1>4 DEF MoteOK, Is
<1> QED BY <1>3, <1>5

(* A read takes the buffer, and so the packet to be forwarded is dropped.  *)
LEMMA ReadMemoryOK ==
  ASSUME NEW s, NEW w, MoteOK(s)
  PROVE  MoteOK(ReadMemory(s, w))
<1>1. DOMAIN s = MoteFields
  BY DEF MoteOK
<1>2. PICK run : run = [s EXCEPT !.posted = FALSE]
  OBVIOUS
<1>3. /\ DOMAIN run = MoteFields /\ run.table = s.table /\ run.air = s.air
      /\ run.log = s.log /\ run.ptr = s.ptr /\ run.flash = s.flash /\ run.loc = s.loc
      /\ run.rx = s.rx /\ run.state = s.state /\ run.buf = s.buf /\ run.last = s.last
      /\ run.rlist = s.rlist
  BY <1>1, <1>2 DEF MoteFields
<1>4. PICK first : first = run.rlist[1]
  OBVIOUS
<1>5. CASE s.flash # "IDLE" \/ s.rlist = <<>>
  <2>1. ReadMemory(s, w) = run
    BY <1>2, <1>5 DEF ReadMemory
  <2> QED BY <1>3, <2>1, MoteKeeps
<1>6. CASE ~(s.flash # "IDLE" \/ s.rlist = <<>>) /\ ~Has(s.table, first[1], first[2])
  <2>1. PICK d : d = [run EXCEPT !.rlist = ListDeleteFirst(@)]
    OBVIOUS
  <2>2. ReadMemory(s, w) = d
    BY <1>2, <1>4, <1>6, <2>1 DEF ReadMemory
  <2>3. /\ DOMAIN d = MoteFields /\ d.table = s.table /\ d.air = s.air /\ d.log = s.log
        /\ d.ptr = s.ptr /\ d.flash = s.flash /\ d.loc = s.loc /\ d.rx = s.rx
        /\ d.state = s.state /\ d.buf = s.buf /\ d.last = s.last
    BY <1>3, <2>1 DEF MoteFields
  <2> QED BY <2>2, <2>3, MoteKeeps
<1>7. CASE ~(s.flash # "IDLE" \/ s.rlist = <<>>) /\ Has(s.table, first[1], first[2])
  <2>1. PICK st : st = IF Is(s, "FAST_PACKET") THEN "STEADY" ELSE s.state
    OBVIOUS
  <2>2. st # "FAST_PACKET" /\ (s.rx => st \in {"INIT", "INIT_READY", "STEADY"})
    BY <2>1 DEF MoteOK, Is
  <2>3. PICK read : read = [run EXCEPT !.state = st, !.last = NoMeta]
    OBVIOUS
  <2>4. /\ DOMAIN read = MoteFields /\ read.table = s.table /\ read.air = s.air
        /\ read.log = s.log /\ read.ptr = s.ptr /\ read.flash = s.flash
        /\ read.loc = s.loc /\ read.rx = s.rx /\ read.state = st
    BY <1>3, <2>3 DEF MoteFields
  <2>5. PICK loc : /\ loc = EntryOf(s.table, first[1], first[2]).memloc
                   /\ loc \in Written(s.log)
    BY <1>7, EntryOfIn DEF MoteOK
  <2>6. PICK d : d = [read EXCEPT !.flash = "READ", !.buf = NoPacket, !.loc = loc]
    OBVIOUS
  <2>7. PICK e : e = [read EXCEPT !.posted = TRUE]
    OBVIOUS
  <2>8. read = [run EXCEPT !.state = IF Is(s, "FAST_PACKET") THEN "STEADY" ELSE @,
                           !.last = NoMeta]
    BY <1>3, <2>1, <2>3
  <2>9. ReadMemory(s, w) \in {d, e}
    BY <1>2, <1>4, <1>7, <2>5, <2>6, <2>7, <2>8 DEF ReadMemory
  <2>10. /\ DOMAIN d = MoteFields /\ d.table = s.table /\ d.air = s.air /\ d.log = s.log
         /\ d.ptr = s.ptr /\ d.flash = "READ" /\ d.loc = loc /\ d.rx = s.rx /\ d.state = st
    BY <2>4, <2>6 DEF MoteFields
  <2>11. /\ DOMAIN e = MoteFields /\ e.table = s.table /\ e.air = s.air /\ e.log = s.log
         /\ e.ptr = s.ptr /\ e.flash = s.flash /\ e.loc = s.loc /\ e.rx = s.rx
         /\ e.state = st
    BY <2>4, <2>7 DEF MoteFields
  <2>12. MoteOK(d) /\ MoteOK(e)
    BY <2>2, <2>5, <2>10, <2>11 DEF MoteOK
  <2> QED BY <2>9, <2>12
<1> QED BY <1>5, <1>6, <1>7

LEMMA MoteWriteDoneOK ==
  ASSUME NEW s, MoteOK(s)
  PROVE  MoteOK(MoteWriteDone(s)) /\ MoteOK(MoteInitDone(s))
<1>1. PICK d, e : d = MoteWriteDone(s) /\ e = MoteInitDone(s)
  OBVIOUS
<1>2. /\ DOMAIN d = MoteFields /\ d.table = s.table /\ d.air = s.air /\ d.log = s.log
      /\ d.ptr = s.ptr /\ d.flash = "IDLE" /\ d.loc = s.loc /\ d.rx = s.rx
      /\ d.state = s.state /\ d.buf = s.buf /\ d.last = s.last
  BY <1>1 DEF MoteOK, MoteFields, MoteWriteDone
<1>3. /\ DOMAIN e = MoteFields /\ e.table = s.table /\ e.air = s.air /\ e.log = s.log
      /\ e.ptr = s.ptr /\ e.flash = "IDLE" /\ e.loc = s.loc /\ e.rx = s.rx
      /\ e.state = s.state /\ e.buf = s.buf /\ e.last = s.last
  BY <1>1 DEF MoteOK, MoteFields, MoteInitDone
<1> QED BY <1>1, <1>2, <1>3 DEF MoteOK

(* What was read is the message that was asked for, or at least a message. *)
LEMMA MoteReadDoneOK ==
  ASSUME NEW s, NEW n, NEW w, NEW ok, NEW junk, MoteOK(s), s.flash = "READ"
  PROVE  MoteOK(MoteReadDone(s, n, w, ok, junk))
<1>1. /\ DOMAIN s = MoteFields /\ IsMsg(s.log[s.loc]) /\ s.state # "FAST_PACKET"
  BY DEF MoteOK, Written
<1>2. PICK p : /\ p = IF w THEN WithAge(s.log[s.loc], s.table, junk) ELSE s.log[s.loc]
               /\ Packed(p)
  BY <1>1, AgePacked, MsgPacked
<1>3. PICK idle : idle = [s EXCEPT !.flash = "IDLE", !.buf = p, !.loc = 0]
  OBVIOUS
<1>4. /\ DOMAIN idle = MoteFields /\ idle.table = s.table /\ idle.air = s.air
      /\ idle.log = s.log /\ idle.ptr = s.ptr /\ idle.flash = "IDLE" /\ idle.rx = s.rx
      /\ idle.state = s.state
  BY <1>1, <1>3 DEF MoteFields
<1>5. MoteOK(idle)
  BY <1>1, <1>4 DEF MoteOK
<1>6. PICK r : r = Sent(idle, Hearers(n), p) /\ MoteOK(r)
  BY <1>2, <1>5, MoteSent
<1>7. DOMAIN r = MoteFields /\ r.rx = s.rx /\ r.state = s.state
  BY <1>4, <1>6 DEF MoteOK, Sent, MoteFields
<1>8. PICK l : l = ListDeleteFirst(s.rlist)
  OBVIOUS
<1>9. PICK d : d = [r EXCEPT !.rlist = l, !.posted = @ \/ l # <<>>,
                             !.state = IF l = <<>> /\ Is(s, "TX") THEN "STEADY" ELSE @]
  OBVIOUS
<1>10. /\ DOMAIN d = MoteFields /\ d.table = r.table /\ d.air = r.air /\ d.log = r.log
       /\ d.ptr = r.ptr /\ d.flash = r.flash /\ d.loc = r.loc /\ d.rx = r.rx
       /\ d.state = IF l = <<>> /\ Is(s, "TX") THEN "STEADY" ELSE r.state
  BY <1>7, <1>9 DEF MoteFields
<1>11. MoteOK(d)
  BY <1>1, <1>6, <1>7, <1>10 DEF MoteOK
<1>12. MoteReadDone(s, n, w, ok, junk) \in {idle, d}
  BY <1>2, <1>3, <1>6, <1>8, <1>9 DEF MoteReadDone
<1> QED BY <1>5, <1>11, <1>12

LEMMA MoteAgingFiredOK ==
  ASSUME NEW s, MoteOK(s)
  PROVE  MoteOK(MoteAgingFired(s))
<1>1. PICK r : r = [s EXCEPT !.table = AgedTable(s.table)] /\ MoteOK(r)
  BY MoteAged
<1>2. PICK d : d = MoteAgingFired(s)
  OBVIOUS
<1>3. /\ DOMAIN d = MoteFields /\ d.table = r.table /\ d.air = r.air /\ d.log = r.log
      /\ d.ptr = r.ptr /\ d.flash = r.flash /\ d.loc = r.loc /\ d.rx = r.rx
      /\ d.state \in {"INIT_READY", r.state} /\ d.buf = r.buf /\ d.last = r.last
  BY <1>1, <1>2 DEF MoteOK, MoteFields, MoteAgingFired
<1> QED BY <1>1, <1>2, <1>3 DEF MoteOK

LEMMA MoteReceiveOK ==
  ASSUME NEW s, NEW n, NEW p, NEW w, NEW ok, NEW garbage, MoteOK(s), Packed(p)
  PROVE  MoteOK(MoteReceive(s, n, p, w, ok, garbage))
<1>1. CASE p.kind = "msg"
  <2>1. IsMsg(p) /\ MoteReceive(s, n, p, w, ok, garbage) = MoteNewMsg(s, p, w)
    BY <1>1 DEF Packed, MoteReceive
  <2> QED BY <2>1, MoteNewMsgOK
<1>2. CASE p.kind = "summary"
  <2>1. MoteReceive(s, n, p, w, ok, garbage) = MoteSummaryReceived(s, n, p, ok, garbage)
    BY <1>2 DEF MoteReceive
  <2> QED BY <1>2, <2>1, MoteSummaryReceivedOK
<1>3. CASE p.kind = "request"
  <2>1. MoteReceive(s, n, p, w, ok, garbage) = MoteRequestReceived(s, p)
    BY <1>3 DEF MoteReceive
  <2> QED BY <2>1, MoteRequestReceivedOK
<1> QED BY <1>1, <1>2, <1>3 DEF Packed

-----------------------------------------------------------------------------
(* The masters.                                                            *)

LEMMA MasterKeeps ==
  ASSUME NEW s, NEW d, MasterOK(s), DOMAIN d = MasterFields,
         d.table = s.table, d.air = s.air, d.mem = s.mem, d.ptr = s.ptr,
         d.state # "FAST_PACKET" \/ (s.state = "FAST_PACKET" /\ d.pkt = s.pkt)
  PROVE  MasterOK(d)
BY DEF MasterOK

LEMMA MasterTimers ==
  ASSUME NEW s, MasterOK(s)
  PROVE  /\ MasterOK(TimerReset(s)) /\ MasterOK(TimerProcessed(s))
         /\ MasterOK(TimerSuppress(s)) /\ MasterOK(TimerUpdated(s))
<1>1. DOMAIN s = MasterFields
  BY DEF MasterOK
<1>2. ASSUME NEW v
      PROVE  MasterOK([s EXCEPT !.timer = v])
  <2>1. PICK d : d = [s EXCEPT !.timer = v]
    OBVIOUS
  <2>2. /\ DOMAIN d = MasterFields /\ d.table = s.table /\ d.air = s.air /\ d.mem = s.mem
        /\ d.ptr = s.ptr /\ d.state = s.state /\ d.pkt = s.pkt
    BY <1>1, <2>1 DEF MasterFields
  <2> QED BY <2>1, <2>2, MasterKeeps
<1> QED BY <1>2 DEF TimerReset, TimerProcessed, TimerSuppress, TimerUpdated

LEMMA MasterReceived ==
  ASSUME NEW s, NEW p, NEW bounded, MasterOK(s)
  PROVE  MasterOK(Received(s, p, bounded))
<1>1. DOMAIN s = MasterFields
  BY DEF MasterOK
<1>2. PICK got, frag, tasks :
        Received(s, p, bounded) = [s EXCEPT !.got = got, !.frag = frag, !.tasks = tasks]
  BY DEF Received
<1>3. PICK d : d = [s EXCEPT !.got = got, !.frag = frag, !.tasks = tasks]
  OBVIOUS
<1>4. /\ DOMAIN d = MasterFields /\ d.table = s.table /\ d.air = s.air /\ d.mem = s.mem
      /\ d.ptr = s.ptr /\ d.state = s.state /\ d.pkt = s.pkt
  BY <1>1, <1>3 DEF MasterFields
<1> QED BY <1>2, <1>3, <1>4, MasterKeeps

(* A packet goes to the base station, or is lost there: nothing else is    *)
(* touched.                                                                *)
LEMMA CloudOK ==
  ASSUME NEW s, NEW n, NEW to, NEW p, MasterOK(s), Packed(p)
  PROVE  /\ MasterOK(Cloud(s, n, to, p))
         /\ \A f \in MasterFields \ {"air"} : Cloud(s, n, to, p)[f] = s[f]
         /\ Cloud(s, n, to, p).table = s.table /\ Cloud(s, n, to, p).mem = s.mem
         /\ Cloud(s, n, to, p).ptr = s.ptr /\ Cloud(s, n, to, p).state = s.state
         /\ Cloud(s, n, to, p).pkt = s.pkt /\ Cloud(s, n, to, p).rx = s.rx
<1>1. PICK d : d = Cloud(s, n, to, p)
  OBVIOUS
<1>2. /\ DOMAIN d = MasterFields /\ d.table = s.table /\ d.mem = s.mem
      /\ d.ptr = s.ptr /\ d.state = s.state /\ d.pkt = s.pkt /\ d.rx = s.rx
      /\ \A f \in MasterFields \ {"air"} : d[f] = s[f]
      /\ d.air \in {s.air, Append(s.air, [pkt |-> p, to |-> to])}
  BY <1>1 DEF MasterOK, MasterFields, Cloud, Sent
<1>3. AirIn(d.air)
  BY <1>2, SentIn DEF MasterOK
<1> QED BY <1>1, <1>2, <1>3 DEF MasterOK

LEMMA MasterTable ==
  ASSUME NEW s, NEW t, MasterOK(s), TableIn(t, Written(s.mem))
  PROVE  MasterOK([s EXCEPT !.table = t])
<1>1. PICK d : d = [s EXCEPT !.table = t]
  OBVIOUS
<1>2. /\ DOMAIN d = MasterFields /\ d.table = t /\ d.air = s.air /\ d.mem = s.mem
      /\ d.ptr = s.ptr /\ d.state = s.state /\ d.pkt = s.pkt
  BY <1>1 DEF MasterOK, MasterFields
<1> QED BY <1>1, <1>2 DEF MasterOK

LEMMA MasterState ==
  ASSUME NEW s, NEW st, MasterOK(s), st \in {s.state} \/ st # "FAST_PACKET"
  PROVE  MasterOK([s EXCEPT !.state = st])
<1>1. PICK d : d = [s EXCEPT !.state = st]
  OBVIOUS
<1>2. /\ DOMAIN d = MasterFields /\ d.table = s.table /\ d.air = s.air /\ d.mem = s.mem
      /\ d.ptr = s.ptr /\ d.state = st /\ d.pkt = s.pkt
  BY <1>1 DEF MasterOK, MasterFields
<1> QED BY <1>1, <1>2 DEF MasterOK

LEMMA MasterNoted ==
  ASSUME NEW s, NEW p, NEW class, MasterOK(s)
  PROVE  MasterOK(Noted(s, p, class))
<1>1. TableIn(s.table, Written(s.mem))
  BY DEF MasterOK
<1>2. PICK t : /\ TableIn(t, Written(s.mem)) /\ Noted(s, p, class) = [s EXCEPT !.table = t]
  BY <1>1, WithoutNodeIn, ClassifiedTableIn DEF Noted
<1> QED BY <1>2, MasterTable

LEMMA MasterAged ==
  ASSUME NEW s, MasterOK(s)
  PROVE  MasterOK([s EXCEPT !.table = AgedTable(s.table)])
<1>1. TableIn(AgedTable(s.table), Written(s.mem))
  BY AgedTableIn DEF MasterOK
<1> QED BY <1>1, MasterTable

LEMMA ConnectedOK ==
  ASSUME NEW s, MasterOK(s)
  PROVE  /\ MasterOK(Connected(s)) /\ Connected(s).mem = s.mem
         /\ Connected(s).table = s.table
<1>1. PICK d : d = [s EXCEPT !.state = "INIT_0", !.alarms = @ \cup {"init"}]
  OBVIOUS
<1>2. /\ DOMAIN d = MasterFields /\ d.table = s.table /\ d.air = s.air /\ d.mem = s.mem
      /\ d.ptr = s.ptr /\ d.state = "INIT_0"
  BY <1>1 DEF MasterOK, MasterFields
<1>3. MasterOK(d)
  BY <1>2 DEF MasterOK
<1>4. Connected(s) \in {d, s}
  BY <1>1 DEF Connected
<1> QED BY <1>2, <1>3, <1>4

LEMMA MemPlaces == MemSize \in Nat \ {0}
BY TrdTableAssumption, TrdSeqnoAssumption DEF MemSize

LEMMA MasterStoreOK ==
  ASSUME NEW s, NEW n, NEW p, NEW check_age, MasterOK(s), IsMsg(p)
  PROVE  MasterOK(MasterStore(s, n, p, check_age))
<1>1. PICK mem : mem = [s.mem EXCEPT ![s.ptr] = p]
  OBVIOUS
<1>2. /\ Written(s.mem) \subseteq Written(mem) /\ s.ptr \in Written(mem)
      /\ DOMAIN mem = 0 .. (MemSize - 1) /\ (s.ptr + 1) % MemSize \in 0 .. (MemSize - 1)
  BY <1>1, WrittenAlso, MemPlaces DEF MasterOK
<1>3. PICK t : /\ t = IF CanInsert(s.table, p.origin, p.seqno)
                      THEN InsertedTable(s.table, p.origin, Entry(p.seqno, s.ptr, p.age))
                      ELSE s.table
               /\ TableIn(t, Written(mem))
  <2>1. TableIn(s.table, Written(mem))
    BY <1>2, WiderIn DEF MasterOK
  <2>2. EntIn(Entry(p.seqno, s.ptr, p.age), Written(mem))
    BY <1>2 DEF EntIn, Entry
  <2> QED BY <2>1, <2>2, InsertedTableIn
<1>4. PICK ptr : ptr = (s.ptr + 1) % MemSize
  OBVIOUS
<1>5. PICK kept : kept = [s EXCEPT !.pkt = p, !.last = MetaOf(p), !.mem = mem, !.ptr = ptr,
                                   !.table = t]
  OBVIOUS
<1>6. /\ DOMAIN kept = MasterFields /\ kept.table = t /\ kept.air = s.air
      /\ kept.mem = mem /\ kept.ptr = ptr /\ kept.state = s.state /\ kept.pkt = p
  BY <1>5 DEF MasterOK, MasterFields
<1>7. MasterOK(kept)
  BY <1>2, <1>3, <1>4, <1>6 DEF MasterOK
<1>8. PICK out : out = IF p.origin # n THEN Cloud(kept, n, Hearers(n), p) ELSE kept
  OBVIOUS
<1>9. MasterOK(out) /\ out.pkt = p
  BY <1>6, <1>7, <1>8, CloudOK, MsgPacked
<1>10. PICK passed : passed = TimerReset(out)
  OBVIOUS
<1>11. MasterOK(passed) /\ passed.pkt = p
  <2>1. passed.pkt = p
    BY <1>9, <1>10 DEF TimerReset, MasterOK, MasterFields
  <2> QED BY <1>9, <1>10, <2>1, MasterTimers
<1>12. PICK fast : fast = IF MasterIs(passed, "STEADY")
                          THEN [passed EXCEPT !.state = "FAST_PACKET", !.fast = FastRetx]
                          ELSE passed
  OBVIOUS
<1>13. MasterOK(fast)
  <2>1. PICK d : d = [passed EXCEPT !.state = "FAST_PACKET", !.fast = FastRetx]
    OBVIOUS
  <2>2. /\ DOMAIN d = MasterFields /\ d.table = passed.table /\ d.air = passed.air
        /\ d.mem = passed.mem /\ d.ptr = passed.ptr /\ d.pkt = p
    BY <1>11, <2>1 DEF MasterOK, MasterFields
  <2>3. MasterOK(d)
    BY <1>11, <2>2 DEF MasterOK
  <2> QED BY <1>11, <1>12, <2>1, <2>3
<1>14. PICK ready : ready = [fast EXCEPT !.state = "INIT_READY", !.rx = FALSE]
  OBVIOUS
<1>15. MasterOK(ready)
  <2>1. /\ DOMAIN ready = MasterFields /\ ready.table = fast.table /\ ready.air = fast.air
        /\ ready.mem = fast.mem /\ ready.ptr = fast.ptr /\ ready.state = "INIT_READY"
    BY <1>13, <1>14 DEF MasterOK, MasterFields
  <2> QED BY <1>13, <2>1, MasterKeeps
<1>16. MasterStore(s, n, p, check_age) \in
         {fast, ready, Received(fast, p, FALSE), Received(ready, p, FALSE)}
  <2> DEFINE K == [s EXCEPT
                     !.pkt = p, !.last = MetaOf(p), !.mem[s.ptr] = p,
                     !.ptr = (@ + 1) % MemSize,
                     !.table = IF CanInsert(@, p.origin, p.seqno)
                               THEN InsertedTable(@, p.origin, Entry(p.seqno, s.ptr, p.age))
                               ELSE @]
             P == TimerReset(IF p.origin # n THEN Cloud(K, n, Hearers(n), p) ELSE K)
             F == IF MasterIs(P, "STEADY")
                  THEN [P EXCEPT !.state = "FAST_PACKET", !.fast = FastRetx] ELSE P
             Given(r) == IF p.origin # n THEN Received(r, p, FALSE) ELSE r
  <2>1. K = kept
    BY <1>1, <1>3, <1>4, <1>5
  <2>2. MasterStore(s, n, p, check_age) =
          IF ~Starting(F) /\ ~check_age THEN Given(F)
          ELSE IF p.age < IgnoreOld /\ s.ticks + 1 >= p.age
          THEN Given([F EXCEPT !.state = "INIT_READY", !.rx = FALSE])
          ELSE F
    BY Zenon DEF MasterStore
  <2> HIDE DEF K
  <2>3. P = passed
    BY <1>8, <1>10, <2>1
  <2> HIDE DEF P
  <2>4. F = fast
    BY <1>12, <2>3
  <2> HIDE DEF F
  <2> QED BY <1>14, <2>2, <2>4
<1> QED BY <1>13, <1>15, <1>16, MasterReceived

LEMMA MasterNewMsgOK ==
  ASSUME NEW s, NEW n, NEW p, MasterOK(s), IsMsg(p)
  PROVE  MasterOK(MasterNewMsg(s, n, p))
<1>1. PICK class : class = Classify(s.table, p.origin, p.seqno, p.age)
  OBVIOUS
<1>2. PICK r : r = Noted(Connected(s), p, class) /\ MasterOK(r)
  BY ConnectedOK, MasterNoted
<1>3. \/ MasterNewMsg(s, n, p) \in {r, TimerSuppress(r), TimerReset(r)}
      \/ MasterNewMsg(s, n, p) = [r EXCEPT !.table = AgedTable(r.table)]
      \/ MasterNewMsg(s, n, p) = MasterStore(r, n, p, class = "TOO_NEW")
  BY <1>1, <1>2 DEF MasterNewMsg
<1>4. CASE MasterNewMsg(s, n, p) = MasterStore(r, n, p, class = "TOO_NEW")
  <2>1. PICK check_age : check_age = (class = "TOO_NEW")
    OBVIOUS
  <2>2. MasterOK(MasterStore(r, n, p, check_age))
    BY <1>2, MasterStoreOK
  <2> QED BY <1>4, <2>1, <2>2
<1> QED BY <1>2, <1>3, <1>4, MasterTimers, MasterAged

LEMMA MasterSendOK ==
  ASSUME NEW s, NEW n, MasterOK(s)
  PROVE  MasterOK(MasterSend(s, n))
<1>1. PICK p : p = TrdMsg(n, NextSeqno(s, n), 1)
  OBVIOUS
<1>2. IsMsg(p)
  BY <1>1 DEF TrdMsg, IsMsg
<1>3. PICK d : d = [s EXCEPT !.seqno = p.seqno]
  OBVIOUS
<1>4. /\ DOMAIN d = MasterFields /\ d.table = s.table /\ d.air = s.air /\ d.mem = s.mem
      /\ d.ptr = s.ptr /\ d.state = s.state /\ d.pkt = s.pkt
  BY <1>3 DEF MasterOK, MasterFields
<1>5. MasterOK(Cloud(d, n, Hearers(n), p))
  BY <1>2, <1>4, MasterKeeps, CloudOK, MsgPacked
<1>6. MasterSend(s, n) = MasterNewMsg(Cloud(d, n, Hearers(n), p), n, p)
  BY <1>1, <1>3 DEF MasterSend
<1> QED BY <1>2, <1>5, <1>6, MasterNewMsgOK

LEMMA MasterSummaryOK ==
  ASSUME NEW s, NEW n, NEW ignoreOld, MasterOK(s)
  PROVE  MasterOK(MasterSummary(s, n, ignoreOld)) /\ MasterSummary(s, n, ignoreOld).mem = s.mem
<1>1. PICK es : es = Summary(s.table, ignoreOld) /\ IsList(es)
  BY SummaryIn DEF MasterOK
<1>2. PICK num : num = IF MasterIs(s, "DISCONNECTED") \/ Starting(s) THEN -1 ELSE Len(es)
  OBVIOUS
<1>3. PICK list : list = (IF num < 0 THEN <<>> ELSE es) /\ IsList(list)
  BY <1>1, NothingIn
<1>4. Packed(SummaryMsg(n, num, list))
  BY <1>3, SummaryPacked
<1>5. MasterSummary(s, n, ignoreOld) = Cloud(s, n, Hearers(n), SummaryMsg(n, num, list))
  BY <1>1, <1>2, <1>3 DEF MasterSummary
<1> QED BY <1>4, <1>5, CloudOK

LEMMA MasterTimerFiredOK ==
  ASSUME NEW s, NEW n, MasterOK(s)
  PROVE  MasterOK(MasterTimerFired(s, n))
<1>1. CASE MasterIs(s, "FAST_PACKET")
  <2>1. PICK r : r = Cloud(s, n, Hearers(n), s.pkt)
    OBVIOUS
  <2>2. MasterOK(r) /\ r.state = s.state
    <3>1. Packed(s.pkt)
      BY <1>1, MsgPacked DEF MasterOK, MasterIs
    <3> QED BY <2>1, <3>1, CloudOK
  <2>3. PICK d : d = [r EXCEPT !.fast = @ - 1,
                               !.state = IF s.fast <= 0 THEN "STEADY" ELSE @]
    OBVIOUS
  <2>4. /\ DOMAIN d = MasterFields /\ d.table = r.table /\ d.air = r.air /\ d.mem = r.mem
        /\ d.ptr = r.ptr /\ d.pkt = r.pkt /\ d.state \in {"STEADY", r.state}
    BY <2>2, <2>3 DEF MasterOK, MasterFields
  <2>5. MasterOK(d)
    BY <2>2, <2>4 DEF MasterOK
  <2>6. MasterTimerFired(s, n) = TimerProcessed(d)
    BY <1>1, <2>1, <2>3 DEF MasterTimerFired
  <2> QED BY <2>5, <2>6, MasterTimers
<1>2. CASE ~MasterIs(s, "FAST_PACKET") /\ s.rx
  <2>1. PICK d : d = [s EXCEPT !.rx = FALSE]
    OBVIOUS
  <2>2. /\ DOMAIN d = MasterFields /\ d.table = s.table /\ d.air = s.air /\ d.mem = s.mem
        /\ d.ptr = s.ptr /\ d.pkt = s.pkt /\ d.state = s.state
    BY <2>1 DEF MasterOK, MasterFields
  <2>3. MasterTimerFired(s, n) = TimerProcessed(d)
    BY <1>2, <2>1 DEF MasterTimerFired
  <2> QED BY <2>2, <2>3, MasterKeeps, MasterTimers
<1>3. CASE ~MasterIs(s, "FAST_PACKET") /\ ~s.rx
  <2>1. \/ MasterTimerFired(s, n) = TimerProcessed(MasterSummary(s, n, TRUE))
        \/ MasterTimerFired(s, n) = TimerProcessed(s)
    BY <1>3 DEF MasterTimerFired
  <2> QED BY <2>1, MasterSummaryOK, MasterTimers
<1> QED BY <1>1, <1>2, <1>3

LEMMA MasterComparedOK ==
  ASSUME NEW s, NEW n, NEW p, NEW garbage, NEW r, MasterOK(s), TableIn(r.t, Written(s.mem))
  PROVE  MasterOK(MasterCompared(s, n, p, garbage, r))
<1>1. PICK done : done = [s EXCEPT !.table = r.t] /\ MasterOK(done)
  BY MasterTable
<1>2. PICK to : to = IF Starting(s) THEN Hearers(n) ELSE {p.sender}
  OBVIOUS
<1>3. PICK req : req = Cloud(done, n, to, RequestMsg(n, r.req)) /\ MasterOK(req)
  BY <1>1, CloudOK, RequestPacked
<1>4. CASE r.req # <<>>
  <2>1. PICK d : d = [req EXCEPT !.rx = TRUE]
    OBVIOUS
  <2>2. /\ DOMAIN d = MasterFields /\ d.table = req.table /\ d.air = req.air
        /\ d.mem = req.mem /\ d.ptr = req.ptr /\ d.pkt = req.pkt /\ d.state = req.state
    BY <1>3, <2>1 DEF MasterOK, MasterFields
  <2>3. MasterOK(d)
    BY <1>3, <2>2, MasterKeeps
  <2>4. MasterCompared(s, n, p, garbage, r) \in {done, req, TimerReset(d)}
    BY <1>1, <1>2, <1>3, <1>4, <2>1 DEF MasterCompared
  <2> QED BY <1>1, <1>3, <2>3, <2>4, MasterTimers
<1>5. CASE r.req = <<>>
  <2>1. PICK q : q = TimerSuppress(done) /\ MasterOK(q)
    BY <1>1, MasterTimers
  <2>2. PICK d : d = [q EXCEPT !.state = "STEADY", !.ready = TRUE, !.alarms = @ \ {"init"}]
    OBVIOUS
  <2>3. /\ DOMAIN d = MasterFields /\ d.table = q.table /\ d.air = q.air
        /\ d.mem = q.mem /\ d.ptr = q.ptr /\ d.state = "STEADY"
    BY <2>1, <2>2 DEF MasterOK, MasterFields
  <2>4. MasterOK(d)
    BY <2>1, <2>3, MasterKeeps
  <2>5. MasterCompared(s, n, p, garbage, r) \in
          {done, q, d, TimerProcessed(TimerReset(MasterSummary(done, n, TRUE)))}
    BY <1>1, <1>5, <2>1, <2>2, Zenon DEF MasterCompared
  <2> QED BY <1>1, <2>1, <2>4, <2>5, MasterSummaryOK, MasterTimers
<1> QED BY <1>4, <1>5

LEMMA MasterSummaryReceivedOK ==
  ASSUME NEW s, NEW n, NEW p, NEW garbage, MasterOK(s), Packed(p), p.kind = "summary"
  PROVE  MasterOK(MasterSummaryReceived(s, n, p, garbage))
<1>1. PICK r : r = Compared(s.table, Entries(p)) /\ TableIn(r.t, Written(s.mem))
  BY EntriesIn, ComparedIn DEF MasterOK
<1>2. PICK c : c = Connected(s) /\ MasterOK(c) /\ c.mem = s.mem
  BY ConnectedOK
<1>3. PICK d : d = IF Asks(p) /\ c.table # <<>> /\ MasterIs(c, "STEADY")
                   THEN MasterSummary(c, n, FALSE) ELSE c
  OBVIOUS
<1>4. MasterOK(d) /\ d.mem = s.mem
  BY <1>2, <1>3, MasterSummaryOK
<1>5. MasterOK(MasterCompared(d, n, p, garbage, r))
  BY <1>1, <1>4, MasterComparedOK
<1> QED BY <1>1, <1>2, <1>3, <1>5 DEF MasterSummaryReceived

LEMMA MasterReadOK ==
  ASSUME NEW s, NEW n, NEW junk, MasterOK(s)
  PROVE  MasterOK(MasterRead(s, n, junk))
<1>1. PICK first, l : first = s.rlist[1] /\ l = ListDeleteFirst(s.rlist)
  OBVIOUS
<1>2. CASE s.rlist = <<>>
  <2>1. PICK d : d = [s EXCEPT !.alarms = @ \ {"recover"}]
    OBVIOUS
  <2>2. /\ DOMAIN d = MasterFields /\ d.table = s.table /\ d.air = s.air /\ d.mem = s.mem
        /\ d.ptr = s.ptr /\ d.pkt = s.pkt /\ d.state = s.state
    BY <2>1 DEF MasterOK, MasterFields
  <2>3. MasterRead(s, n, junk) = d
    BY <1>2, <2>1 DEF MasterRead
  <2> QED BY <2>2, <2>3, MasterKeeps
<1>3. CASE s.rlist # <<>> /\ ~Has(s.table, first[1], first[2])
  <2>1. PICK d : d = [s EXCEPT !.rlist = l]
    OBVIOUS
  <2>2. /\ DOMAIN d = MasterFields /\ d.table = s.table /\ d.air = s.air /\ d.mem = s.mem
        /\ d.ptr = s.ptr /\ d.pkt = s.pkt /\ d.state = s.state
    BY <2>1 DEF MasterOK, MasterFields
  <2>3. MasterRead(s, n, junk) = d
    BY <1>1, <1>3, <2>1 DEF MasterRead
  <2> QED BY <2>2, <2>3, MasterKeeps
<1>4. CASE s.rlist # <<>> /\ Has(s.table, first[1], first[2])
  <2>1. PICK msg : msg = s.mem[EntryOf(s.table, first[1], first[2]).memloc]
    OBVIOUS
  <2>2. IsMsg(msg)
    BY <1>4, <2>1, EntryOfIn DEF MasterOK, Written
  <2>3. PICK p : p = WithAge(msg, s.table, junk) /\ Packed(p)
    BY <2>2, AgePacked, MsgPacked
  <2>4. PICK r : /\ r = Cloud(s, n, Hearers(n), p) /\ MasterOK(r) /\ r.state = s.state
                 /\ r.pkt = s.pkt
    BY <2>3, CloudOK
  <2>5. PICK d : d = [r EXCEPT !.rlist = l, !.alarms = @ \cup {"recover"},
                        !.state = IF l = <<>> /\ MasterIs(s, "TX") THEN "STEADY" ELSE @]
    BY Zenon
  <2>6. /\ DOMAIN d = MasterFields /\ d.table = r.table /\ d.air = r.air /\ d.mem = r.mem
        /\ d.ptr = r.ptr /\ d.pkt = r.pkt /\ d.state \in {"STEADY", r.state}
    BY <2>4, <2>5, ZenonT(30) DEF MasterOK, MasterFields
  <2>7. MasterRead(s, n, junk) = d
    BY <1>1, <1>4, <2>1, <2>3, <2>4, <2>5 DEF MasterRead
  <2> QED BY <2>4, <2>6, <2>7, MasterKeeps
<1> QED BY <1>2, <1>3, <1>4

LEMMA MasterRequestReceivedOK ==
  ASSUME NEW s, NEW n, NEW p, NEW junk, MasterOK(s)
  PROVE  MasterOK(MasterRequestReceived(s, n, p, junk))
<1>1. PICK l : l = Requested(s.table, s.rlist, p.list)
  OBVIOUS
<1>2. PICK d : d = [s EXCEPT !.rlist = l,
                      !.state = IF MasterIs(s, "STEADY") /\ l # <<>> THEN "TX" ELSE @]
  OBVIOUS
<1>3. /\ DOMAIN d = MasterFields /\ d.table = s.table /\ d.air = s.air /\ d.mem = s.mem
      /\ d.ptr = s.ptr /\ d.pkt = s.pkt /\ d.state \in {"TX", s.state}
  BY <1>2 DEF MasterOK, MasterFields
<1>4. PICK r : r = MasterRead(d, n, junk) /\ MasterOK(r)
  BY <1>3, MasterKeeps, MasterReadOK
<1>5. PICK e : e = [r EXCEPT !.alarms = @ \cup {"recover"}]
  OBVIOUS
<1>6. /\ DOMAIN e = MasterFields /\ e.table = r.table /\ e.air = r.air /\ e.mem = r.mem
      /\ e.ptr = r.ptr /\ e.pkt = r.pkt /\ e.state = r.state
  BY <1>4, <1>5 DEF MasterOK, MasterFields
<1>7. MasterRequestReceived(s, n, p, junk) = e
  BY <1>1, <1>2, <1>4, <1>5 DEF MasterRequestReceived
<1> QED BY <1>4, <1>6, <1>7, MasterKeeps

LEMMA InitFiredOK ==
  ASSUME NEW s, MasterOK(s)
  PROVE  MasterOK(InitFired(s))
<1>1. DOMAIN s = MasterFields
  BY DEF MasterOK
<1>2. PICK off : off = [s EXCEPT !.alarms = @ \ {"init"}]
  OBVIOUS
<1>3. PICK on : on = [s EXCEPT !.alarms = @ \cup {"init"}]
  OBVIOUS
<1>4. /\ DOMAIN off = MasterFields /\ off.table = s.table /\ off.air = s.air
      /\ off.mem = s.mem /\ off.ptr = s.ptr /\ off.pkt = s.pkt /\ off.state = s.state
  BY <1>1, <1>2 DEF MasterFields
<1>5. /\ DOMAIN on = MasterFields /\ on.table = s.table /\ on.air = s.air
      /\ on.mem = s.mem /\ on.ptr = s.ptr /\ on.pkt = s.pkt /\ on.state = s.state
  BY <1>1, <1>3 DEF MasterFields
<1>6. MasterOK(off) /\ MasterOK(on)
  BY <1>4, <1>5, MasterKeeps
<1>7. CASE MasterIs(s, "DISCONNECTED")
  <2>1. PICK q : q = TimerReset(on) /\ MasterOK(q)
    BY <1>6, MasterTimers
  <2>2. PICK d : d = [q EXCEPT !.loops = @ + 1,
                               !.state = IF s.loops >= InitLoops THEN "INIT_0" ELSE @]
    OBVIOUS
  <2>3. /\ DOMAIN d = MasterFields /\ d.table = q.table /\ d.air = q.air /\ d.mem = q.mem
        /\ d.ptr = q.ptr /\ d.pkt = q.pkt /\ d.state \in {"INIT_0", q.state}
    BY <2>1, <2>2 DEF MasterOK, MasterFields
  <2>4. InitFired(s) = d
    BY <1>3, <1>7, <2>1, <2>2 DEF InitFired
  <2> QED BY <2>1, <2>3, <2>4, MasterKeeps
<1>8. CASE ~MasterIs(s, "DISCONNECTED")
  <2>1. PICK d : d = [off EXCEPT !.state = "STEADY", !.ready = TRUE]
    OBVIOUS
  <2>2. /\ DOMAIN d = MasterFields /\ d.table = off.table /\ d.air = off.air
        /\ d.mem = off.mem /\ d.ptr = off.ptr /\ d.state = "STEADY"
    BY <1>4, <2>1 DEF MasterFields
  <2>3. InitFired(s) \in {TimerReset([on EXCEPT !.state = "INIT"]),
                          [on EXCEPT !.state = "INIT_READY"], d, on, off}
    BY <1>2, <1>3, <1>8, <2>1 DEF InitFired
  <2>4. MasterOK([on EXCEPT !.state = "INIT"]) /\ MasterOK([on EXCEPT !.state = "INIT_READY"])
    BY <1>6, MasterState
  <2>5. MasterOK(d)
    BY <1>6, <2>2, MasterKeeps
  <2> QED BY <1>6, <2>3, <2>4, <2>5, MasterTimers
<1> QED BY <1>7, <1>8

LEMMA MasterAgingFiredOK ==
  ASSUME NEW s, MasterOK(s)
  PROVE  MasterOK(MasterAgingFired(s))
<1>1. PICK r : r = [s EXCEPT !.table = AgedTable(s.table)] /\ MasterOK(r)
  BY MasterAged
<1>2. PICK d : d = MasterAgingFired(s)
  OBVIOUS
<1>3. /\ DOMAIN d = MasterFields /\ d.table = r.table /\ d.air = r.air /\ d.mem = r.mem
      /\ d.ptr = r.ptr /\ d.pkt = r.pkt /\ d.state = r.state
  BY <1>1, <1>2 DEF MasterOK, MasterFields, MasterAgingFired
<1> QED BY <1>1, <1>2, <1>3, MasterKeeps

LEMMA MasterReceiveOK ==
  ASSUME NEW s, NEW n, NEW p, NEW garbage, NEW junk, MasterOK(s), Packed(p)
  PROVE  MasterOK(MasterReceive(s, n, p, garbage, junk))
<1>1. CASE p.kind = "msg"
  <2>1. IsMsg(p) /\ MasterReceive(s, n, p, garbage, junk) = MasterNewMsg(s, n, p)
    BY <1>1 DEF Packed, MasterReceive
  <2> QED BY <2>1, MasterNewMsgOK
<1>2. CASE p.kind = "summary"
  <2>1. MasterReceive(s, n, p, garbage, junk) = MasterSummaryReceived(s, n, p, garbage)
    BY <1>2 DEF MasterReceive
  <2> QED BY <1>2, <2>1, MasterSummaryReceivedOK
<1>3. CASE p.kind = "request"
  <2>1. MasterReceive(s, n, p, garbage, junk) = MasterRequestReceived(s, n, p, junk)
    BY <1>3 DEF MasterReceive
  <2> QED BY <2>1, MasterRequestReceivedOK
<1> QED BY <1>1, <1>2, <1>3 DEF Packed

(* All fragments of a task are sent in one call, each from the state the    *)
(* one before has left.                                                     *)
SendsAfter(s, n, out) ==
  out = [k \in 0 .. Fragments |-> IF k = 0 THEN s ELSE MasterSend(out[k - 1], n)]

AllSent(s, n) ==
  LET all[i \in 0 .. Fragments] == IF i = 0 THEN s ELSE MasterSend(all[i - 1], n)
  IN  all[Fragments]

LEMMA SendWalk ==
  ASSUME NEW s, NEW n, MasterOK(s)
  PROVE  \E out : /\ SendsAfter(s, n, out) /\ MasterOK(out[Fragments])
                  /\ AllSent(s, n) = out[Fragments]
<1>1. PICK f : f = Fragments
  OBVIOUS
<1>2. f \in Nat
  BY <1>1, TrdNetAssumption
<1> DEFINE Upto(g, j) ==
             [k \in 0 .. j |-> IF k = 0 THEN s ELSE MasterSend(g[k - 1], n)]
           S == {j \in 0 .. f : \E g : g = Upto(g, j) /\ MasterOK(g[j])}
           out == CHOOSE g : g = Upto(g, f)
<1>3. 0 \in S
  <2>1. PICK g : g = [k \in 0 .. 0 |-> s]
    OBVIOUS
  <2>2. g = Upto(g, 0) /\ MasterOK(g[0])
    BY <2>1
  <2> QED BY <1>2, <2>2
<1>4. ASSUME NEW j \in 1 .. f, j - 1 \in S
      PROVE  j \in S
  <2>1. PICK g : g = Upto(g, j - 1) /\ MasterOK(g[j - 1])
    BY <1>4
  <2>2. PICK h : h = [k \in 0 .. j |-> IF k = j THEN MasterSend(g[j - 1], n) ELSE g[k]]
    OBVIOUS
  <2>3. ASSUME NEW k \in 0 .. j
        PROVE  h[k] = IF k = 0 THEN s ELSE MasterSend(h[k - 1], n)
    <3>1. k # 0 => k - 1 \in 0 .. (j - 1) /\ k - 1 \in 0 .. j /\ k - 1 # j
      OBVIOUS
    <3>2. k # 0 => h[k - 1] = g[k - 1]
      BY <2>2, <3>1
    <3>3. CASE k = j
      BY <2>2, <3>2, <3>3
    <3>4. CASE k # j
      <4>1. k \in 0 .. (j - 1)
        BY <3>4
      <4>2. g[k] = IF k = 0 THEN s ELSE MasterSend(g[k - 1], n)
        BY <2>1, <4>1
      <4> QED BY <2>2, <3>2, <3>4, <4>2
    <3> QED BY <3>3, <3>4
  <2>4. h = Upto(h, j)
    BY <2>2, <2>3
  <2>5. h[j] = MasterSend(g[j - 1], n)
    BY <2>2
  <2>6. MasterOK(h[j])
    BY <2>1, <2>5, MasterSendOK
  <2> QED BY <2>4, <2>6
<1> HIDE DEF S
<1>5. f \in S
  BY <1>2, <1>3, <1>4, Climb
<1>6. PICK g : g = Upto(g, f) /\ MasterOK(g[f])
  BY <1>5 DEF S
<1>7. out = Upto(out, f)
  BY <1>6, Zenon
<1> HIDE DEF out
(* Both satisfy the recursion, and so they agree.                           *)
<1>8. MasterOK(out[f])
  <2> DEFINE W == {k \in 0 .. f : MasterOK(out[k])}
  <2>1. 0 \in W
    <3>1. out[0] = s
      BY <1>2, <1>7
    <3> QED BY <1>2, <3>1
  <2>2. ASSUME NEW k \in 1 .. f, k - 1 \in W
        PROVE  k \in W
    <3>1. k \in 0 .. f /\ k # 0
      BY <1>2
    <3>2. out[k] = MasterSend(out[k - 1], n)
      BY <1>7, <3>1
    <3> QED BY <2>2, <3>1, <3>2, MasterSendOK
  <2> HIDE DEF W
  <2>3. 0 .. f \subseteq W
    BY <1>2, <2>1, <2>2, Climb
  <2> QED BY <1>2, <2>3 DEF W
<1>9. SendsAfter(s, n, out)
  BY <1>1, <1>7 DEF SendsAfter
<1>10. AllSent(s, n) = out[Fragments]
  BY <1>1, Zenon DEF AllSent, out
<1> QED BY <1>1, <1>8, <1>9, <1>10

-----------------------------------------------------------------------------
(* The network.                                                            *)

LEMMA InitIn == ASSUME Init PROVE IndInv
<1>1. TableIn(<<>>, Written([i \in 0 .. (LogSize - 1) |-> NoPacket]))
      /\ TableIn(<<>>, Written([i \in 0 .. (MemSize - 1) |-> NoPacket])) /\ AirIn(<<>>)
  BY NothingIn DEF TableIn, AirIn
<1>2. MoteOK(MoteInit)
  <2>1. PICK d : d = MoteInit
    OBVIOUS
  <2>2. /\ DOMAIN d = MoteFields /\ d.table = <<>> /\ d.air = <<>>
        /\ d.log = [i \in 0 .. (LogSize - 1) |-> NoPacket] /\ d.ptr = 0 /\ d.flash = "INIT"
        /\ d.rx = FALSE /\ d.state = "INIT"
    BY <2>1 DEF MoteInit, MoteFields
  <2>3. DOMAIN d.log = 0 .. (LogSize - 1) /\ d.ptr \in DOMAIN d.log
    BY <2>2, TrdMoteAssumption
  <2> QED BY <1>1, <2>1, <2>2, <2>3 DEF MoteOK
<1>3. MasterOK(MasterInit) /\ MasterOK(MasterAlone)
  <2>1. PICK d, e : d = MasterInit /\ e = MasterAlone
    OBVIOUS
  <2>2. /\ DOMAIN d = MasterFields /\ d.table = <<>> /\ d.air = <<>>
        /\ d.mem = [i \in 0 .. (MemSize - 1) |-> NoPacket] /\ d.ptr = 0
        /\ d.state = "DISCONNECTED"
    BY <2>1 DEF MasterInit, MasterFields
  <2>3. /\ DOMAIN e = MasterFields /\ e.table = d.table /\ e.air = d.air
        /\ e.mem = d.mem /\ e.ptr = d.ptr /\ e.state = "STEADY"
    BY <2>1, <2>2 DEF MasterAlone, MasterFields
  <2>4. DOMAIN d.mem = 0 .. (MemSize - 1) /\ d.ptr \in DOMAIN d.mem
    BY <2>2, MemPlaces
  <2> QED BY <1>1, <2>1, <2>2, <2>3, <2>4 DEF MasterOK
<1>4. PICK f : f = [n \in Node |-> IF n \in Motes THEN MoteInit
                                   ELSE IF Started THEN MasterAlone ELSE MasterInit]
  OBVIOUS
<1>5. node = f
  BY <1>4 DEF Init
<1>6. Motes \subseteq Node /\ Masters \subseteq Node /\ \A n \in Masters : n \notin Motes
  BY TrdNetAssumption DEF Node
<1> QED BY <1>2, <1>3, <1>4, <1>5, <1>6 DEF IndInv

(* One node moves from a good state to a good state.                        *)
LEMMA OneMoves ==
  ASSUME IndInv, NEW n \in Node, NEW s, node' = [node EXCEPT ![n] = s],
         n \in Motes => MoteOK(s), n \in Masters => MasterOK(s)
  PROVE  IndInv'
BY DEF IndInv, Node

LEMMA WhoIsWho ==
  /\ Motes \subseteq Node /\ Masters \subseteq Node
  /\ \A n \in Node : n \in Motes \/ n \in Masters
  /\ \A n \in Masters : n \notin Motes
BY TrdNetAssumption DEF Node

(* A node knows its air, and stays good without what has been resolved.     *)
LEMMA ResolvedOK ==
  ASSUME NEW s, NEW m, s.air # <<>>
  PROVE  /\ MoteOK(s) => MoteOK(Resolved(s, m)) /\ Packed(s.air[1].pkt)
         /\ MasterOK(s) => MasterOK(Resolved(s, m)) /\ Packed(s.air[1].pkt)
<1>1. ASSUME AirIn(s.air)
      PROVE  Packed(s.air[1].pkt)
  <2>1. IsList(s.air) /\ Len(s.air) \in Nat /\ DOMAIN s.air = 1 .. Len(s.air)
    BY <1>1, ListHas DEF AirIn
  <2>2. Len(s.air) # 0
    BY <2>1, EmptySeq DEF IsList
  <2>3. 1 \in DOMAIN s.air
    BY <2>1, <2>2
  <2> QED BY <1>1, <2>3 DEF AirIn, Aired
<1>2. ASSUME MoteOK(s)
      PROVE  MoteOK(Resolved(s, m))
  <2>1. "air" \in DOMAIN s /\ AirIn(s.air)
    BY <1>2 DEF MoteOK, MoteFields
  <2>2. PICK air : AirIn(air) /\ Resolved(s, m) = [s EXCEPT !.air = air]
    BY <2>1, ResolvedAir
  <2>3. PICK d : d = [s EXCEPT !.air = air]
    OBVIOUS
  <2>4. /\ DOMAIN d = MoteFields /\ d.table = s.table /\ d.air = air /\ d.log = s.log
        /\ d.ptr = s.ptr /\ d.flash = s.flash /\ d.loc = s.loc /\ d.rx = s.rx
        /\ d.state = s.state /\ d.buf = s.buf /\ d.last = s.last
    BY <1>2, <2>3 DEF MoteOK, MoteFields
  <2> QED BY <1>2, <2>2, <2>3, <2>4 DEF MoteOK
<1>3. ASSUME MasterOK(s)
      PROVE  MasterOK(Resolved(s, m))
  <2>1. "air" \in DOMAIN s /\ AirIn(s.air)
    BY <1>3 DEF MasterOK, MasterFields
  <2>2. PICK air : AirIn(air) /\ Resolved(s, m) = [s EXCEPT !.air = air]
    BY <2>1, ResolvedAir
  <2>3. PICK d : d = [s EXCEPT !.air = air]
    OBVIOUS
  <2>4. /\ DOMAIN d = MasterFields /\ d.table = s.table /\ d.air = air /\ d.mem = s.mem
        /\ d.ptr = s.ptr /\ d.state = s.state /\ d.pkt = s.pkt
    BY <1>3, <2>3 DEF MasterOK, MasterFields
  <2> QED BY <1>3, <2>2, <2>3, <2>4 DEF MasterOK
<1> QED BY <1>1, <1>2, <1>3 DEF MoteOK, MasterOK

LEMMA ReceiveOK ==
  ASSUME IndInv, NEW n \in Node, NEW m \in Node, Receive(n, m)
  PROVE  IndInv'
<1> USE WhoIsWho
<1>1. PICK s : /\ s \in Heard(m, Packet1(n).pkt)
               /\ node' = [node EXCEPT ![n] = Resolved(@, m), ![m] = s]
  BY DEF Receive
<1>2. PICK p : p = Packet1(n).pkt
  OBVIOUS
<1>3. node[n].air # <<>>
  BY DEF Receive
<1>4. /\ Packed(p)
      /\ n \in Motes => MoteOK(Resolved(node[n], m))
      /\ n \in Masters => MasterOK(Resolved(node[n], m))
  BY <1>2, <1>3, ResolvedOK DEF IndInv, Packet1
<1>5. m \in Motes => MoteOK(s)
  <2> SUFFICES ASSUME m \in Motes
               PROVE  MoteOK(s)
    OBVIOUS
  <2>1. \E w, ok, g : s = MoteReceive(node[m], m, p, w, ok, g)
    <3>1. s \in {MoteReceive(node[m], m, p, w, ok, g) :
                   w \in Works, ok \in Accepts(node[m]), g \in BOOLEAN}
      BY <1>1, <1>2 DEF Heard
    <3> QED BY ONLY <3>1
  <2>2. MoteOK(node[m])
    BY DEF IndInv
  <2> QED BY <1>4, <2>1, <2>2, MoteReceiveOK
<1>6. m \in Masters => MasterOK(s)
  <2> SUFFICES ASSUME m \in Masters
               PROVE  MasterOK(s)
    OBVIOUS
  <2>1. m \notin Motes
    OBVIOUS
  <2>2. \E g, j : s = MasterReceive(node[m], m, p, g, j)
    <3>1. s \in {MasterReceive(node[m], m, p, g, j) : g \in BOOLEAN, j \in JunkAge}
      BY <1>1, <1>2, <2>1 DEF Heard
    <3> QED BY ONLY <3>1
  <2>3. MasterOK(node[m])
    BY DEF IndInv
  <2> QED BY <1>4, <2>2, <2>3, MasterReceiveOK
<1>7. PICK r : r = Resolved(node[n], m)
  OBVIOUS
<1>8. node' = [node EXCEPT ![n] = r, ![m] = s]
  BY <1>1, <1>7
<1>9. /\ DOMAIN node' = Node /\ node'[m] = s /\ (n # m => node'[n] = r)
      /\ \A x \in Node : x # n /\ x # m => node'[x] = node[x]
  BY <1>8 DEF IndInv
<1> QED BY <1>4, <1>5, <1>6, <1>7, <1>9 DEF IndInv

LEMMA MissOK ==
  ASSUME IndInv, NEW n \in Node, NEW m \in Node, Miss(n, m)
  PROVE  IndInv'
<1>1. node[n].air # <<>> /\ node' = [node EXCEPT ![n] = Resolved(node[n], m)]
  BY DEF Miss, Step
<1>2. /\ n \in Motes => MoteOK(Resolved(node[n], m))
      /\ n \in Masters => MasterOK(Resolved(node[n], m))
  BY <1>1, ResolvedOK DEF IndInv
<1> QED BY <1>1, <1>2, OneMoves

LEMMA IntervalOK ==
  ASSUME IndInv, NEW n \in Node, IntervalEnds(n)
  PROVE  IndInv'
<1>1. node' = [node EXCEPT ![n] = TimerUpdated(node[n])]
  BY DEF IntervalEnds, Step
<1>2. /\ n \in Motes => MoteOK(TimerUpdated(node[n]))
      /\ n \in Masters => MasterOK(TimerUpdated(node[n]))
  BY MoteTimers, MasterTimers DEF IndInv
<1> QED BY <1>1, <1>2, OneMoves

(* One step of a mote.                                                      *)
LEMMA MoteStepOK ==
  ASSUME IndInv, NEW n \in Motes,
         InitDone(n) \/ Fired(n) \/ RunReadMemory(n) \/ WriteDone(n) \/ ReadDone(n) \/ Aging(n)
  PROVE  IndInv'
<1>1. n \in Node /\ n \notin Masters /\ MoteOK(node[n])
  BY WhoIsWho DEF IndInv
<1> SUFFICES \E s : MoteOK(s) /\ node' = [node EXCEPT ![n] = s]
  BY <1>1, OneMoves
<1>2. CASE InitDone(n)
  BY <1>1, <1>2, MoteWriteDoneOK DEF InitDone, Step
<1>3. CASE Fired(n)
  BY <1>1, <1>3, MoteTimerFiredOK DEF Fired, Step
<1>4. CASE RunReadMemory(n)
  BY <1>1, <1>4, ReadMemoryOK DEF RunReadMemory, Step
<1>5. CASE WriteDone(n)
  BY <1>1, <1>5, MoteWriteDoneOK DEF WriteDone, Step
<1>6. CASE ReadDone(n)
  BY <1>1, <1>6, MoteReadDoneOK DEF ReadDone, Step
<1>7. CASE Aging(n)
  BY <1>1, <1>7, MoteAgingFiredOK DEF Aging, Step
<1> QED BY <1>2, <1>3, <1>4, <1>5, <1>6, <1>7

(* One step of a master.                                                    *)
LEMMA MasterStepOK ==
  ASSUME IndInv, NEW n \in Masters,
         Disseminate(n) \/ MasterFired(n) \/ InitAlarm(n) \/ RecoverAlarm(n) \/ MasterAging(n)
  PROVE  IndInv'
<1>1. n \in Node /\ n \notin Motes /\ MasterOK(node[n])
  BY WhoIsWho DEF IndInv
<1> SUFFICES \E s : MasterOK(s) /\ node' = [node EXCEPT ![n] = s]
  BY <1>1, OneMoves
<1>2. CASE Disseminate(n)
  <2>1. MasterOK(AllSent(node[n], n))
    BY <1>1, SendWalk
  <2>2. node' = [node EXCEPT ![n] = AllSent(node[n], n)]
    BY <1>2, Zenon DEF Disseminate, AllSent
  <2> QED BY <2>1, <2>2
<1>3. CASE MasterFired(n)
  BY <1>1, <1>3, MasterTimerFiredOK DEF MasterFired, Step
<1>4. CASE InitAlarm(n)
  BY <1>1, <1>4, InitFiredOK DEF InitAlarm, Step
<1>5. CASE RecoverAlarm(n)
  BY <1>1, <1>5, MasterReadOK DEF RecoverAlarm, Step
<1>6. CASE MasterAging(n)
  BY <1>1, <1>6, MasterAgingFiredOK DEF MasterAging, Step
<1> QED BY <1>2, <1>3, <1>4, <1>5, <1>6

LEMMA Inductive ==
  ASSUME IndInv, [Next]_vars
  PROVE  IndInv'
<1>1. CASE UNCHANGED vars
  BY <1>1 DEF vars, IndInv
<1>2. CASE \E n, m \in Node : Receive(n, m) \/ Miss(n, m)
  BY <1>2, ReceiveOK, MissOK
<1>3. CASE \E n \in Node : IntervalEnds(n)
  BY <1>3, IntervalOK
<1>4. CASE \E n \in Motes : \/ InitDone(n) \/ Fired(n) \/ RunReadMemory(n)
                            \/ WriteDone(n) \/ ReadDone(n) \/ Aging(n)
  BY <1>4, MoteStepOK
<1>5. CASE \E n \in Masters : \/ Disseminate(n) \/ MasterFired(n) \/ InitAlarm(n)
                              \/ RecoverAlarm(n) \/ MasterAging(n)
  BY <1>5, MasterStepOK
<1> QED BY <1>1, <1>2, <1>3, <1>4, <1>5 DEF Next

-----------------------------------------------------------------------------
(* What the invariant says, for a reader.                                   *)

(* Every entry of a table points at a place of the node's log that holds a  *)
(* packet, although the log wraps around under the table and rows come and  *)
(* go in between; and so does the place a mote is reading.  A request is    *)
(* answered from that place without another look (trd_nodecache.c:134,      *)
(* TRD_StateM.nc:412, TRD_LoggerRAM.nc:86).                                 *)
PlacesAreWritten ==
  /\ \A n \in Node : \A i \in DOMAIN node[n].table :
       \A k \in DOMAIN node[n].table[i].cache :
         LET place == node[n].table[i].cache[k].memloc
         IN  place \in DOMAIN LogOf(n) /\ LogOf(n)[place].kind = "msg"
  /\ \A n \in Motes : node[n].flash = "READ" => node[n].log[node[n].loc].kind = "msg"

(* What is in the air is one of the three packets of the protocol: nothing  *)
(* but a message is ever read from a log and sent (trd_nodecache.c:134).    *)
AirIsPackets ==
  \A n \in Node : \A i \in DOMAIN node[n].air :
    node[n].air[i].pkt.kind \in {"msg", "summary", "request"}

(* The inductive invariant of dissemination holds in every state.           *)
THEOREM Invariant == Spec => []IndInv
<1>1. Init => IndInv
  BY InitIn
<1>2. IndInv /\ [Next]_vars => IndInv'
  BY Inductive
<1> QED BY <1>1, <1>2, PTL DEF Spec

(* A mote that is to forward a message at once has it in flash_buf, it is   *)
(* the last one received, and no read fills the buffer: summaries, requests *)
(* and timers come between the write and the forwarding, and none of them   *)
(* starts a read (TRD_StateM.nc:267, 424).                                  *)
THEOREM ForwardsLast == Spec => []FastPacketIsLast
<1>1. IndInv => FastPacketIsLast
  BY DEF IndInv, MoteOK, IsMsg, FastPacketIsLast, Is
<1> QED BY <1>1, Invariant, PTL

(* No table entry of any node points at a place that was never written.     *)
THEOREM EntriesAreWritten == Spec => []PlacesAreWritten
<1>1. IndInv => PlacesAreWritten
  <2> SUFFICES ASSUME IndInv
               PROVE  PlacesAreWritten
    OBVIOUS
  <2>1. ASSUME NEW n \in Node, NEW i \in DOMAIN node[n].table,
               NEW k \in DOMAIN node[n].table[i].cache, NEW place,
               place = node[n].table[i].cache[k].memloc
        PROVE  place \in DOMAIN LogOf(n) /\ LogOf(n)[place].kind = "msg"
    <3>1. TableIn(node[n].table, Written(LogOf(n)))
      BY WhoIsWho DEF IndInv, MoteOK, MasterOK, LogOf
    <3>2. place \in Written(LogOf(n))
      BY <2>1, <3>1 DEF TableIn, RowIn, CacheIn, EntIn
    <3> QED BY <3>2 DEF Written, IsMsg
  <2>2. ASSUME NEW n \in Motes, node[n].flash = "READ"
        PROVE  node[n].log[node[n].loc].kind = "msg"
    BY <2>2 DEF IndInv, MoteOK, Written, IsMsg
  <2> QED BY <2>1, <2>2 DEF PlacesAreWritten
<1> QED BY <1>1, Invariant, PTL

(* No node ever sends anything but a message, a summary or a request.       *)
THEOREM SendsPackets == Spec => []AirIsPackets
<1>1. IndInv => AirIsPackets
  BY WhoIsWho DEF IndInv, MoteOK, MasterOK, AirIn, Aired, Packed, AirIsPackets
<1> QED BY <1>1, Invariant, PTL

=============================================================================
