------------------------------ MODULE TrdTable ------------------------------
(***************************************************************************)
(* What a TRD node remembers of the packets it has: for each origin the    *)
(* last few numbers, where in the log each is and how old it is            *)
(* (src/mote/lib/trd/trd_nodecache.c and trd_table.c, compiled into motes  *)
(* and masters).                                                           *)
(*                                                                         *)
(* A node cache is the sequence of its entries, a table the sequence of    *)
(* [origin, cache] records, both in the order of the C arrays.             *)
(***************************************************************************)
EXTENDS TrdSeqno, Sequences, SequencesExt

CONSTANTS
  NodeEntries,   (* TRD_NODE_ENTRIES: origins a table has room for          *)
  CacheEntries,  (* TRD_CACHE_ENTRIES_PER_NODE: packets kept of each        *)
  IgnoreOld,     (* TRD_AGE_IGNORE_OLD: older packets are not delivered to  *)
                 (* a node that has just started                            *)
  NoSummary,     (* TRD_AGE_NO_SUMMARY: older packets are not advertised    *)
  DeleteOld,     (* TRD_AGE_DELETE_OLD: older origins are forgotten         *)
  AgeMax         (* TRD_AGE_MAX                                             *)

ASSUME TrdTableAssumption ==
  /\ NodeEntries \in Nat \ {0} /\ CacheEntries \in 1 .. (TrdWindow - 1)
  /\ {IgnoreOld, NoSummary, DeleteOld, AgeMax} \subseteq Nat
  /\ IgnoreOld <= NoSummary /\ NoSummary <= DeleteOld /\ DeleteOld < AgeMax

Entry(seqno, memloc, age) == [seqno |-> seqno, memloc |-> memloc, age |-> age]

-----------------------------------------------------------------------------
(* Node caches.                                                            *)

IndexOf(c, seqno) == {i \in DOMAIN c : c[i].seqno = seqno}

(* find_oldest_seqno_index: the first entry of the greatest age.  Among     *)
(* entries of one age the code means to take the smallest number, but it    *)
(* compares with oldest_seqno, which is still UNKNOWN and so never greater. *)
(* 0 is TRD_INVALID_INDEX.                                                  *)
OldestIndex(c) ==
  IF \A i \in DOMAIN c : c[i].age = 0 THEN 0
  ELSE CHOOSE i \in DOMAIN c :
         \A j \in DOMAIN c : c[j].age < c[i].age \/ (c[j].age = c[i].age /\ i <= j)

OldestSeqno(c) == IF OldestIndex(c) = 0 THEN TrdUnknown ELSE c[OldestIndex(c)].seqno

(* The youngest entry, of those of one age the one with the newest number.  *)
YoungestIndex(c) ==
  CHOOSE i \in DOMAIN c :
    \A j \in DOMAIN c : \/ c[i].age < c[j].age
                        \/ c[i].age = c[j].age /\ TrdCmp(c[i].seqno, c[j].seqno) >= 0

LastSeqno(c) == IF c = <<>> THEN TrdUnknown ELSE c[YoungestIndex(c)].seqno

(* nodecache_findNewestAge                                                  *)
NewestAge(c) == IF c = <<>> THEN AgeMax + 1 ELSE Min({c[i].age : i \in DOMAIN c})

(* n times nodecache_incrementAge.                                          *)
AgedBy(c, n) ==
  [i \in DOMAIN c |->
     [c[i] EXCEPT !.age = IF @ > 0 /\ @ < AgeMax
                          THEN IF @ + n < AgeMax THEN @ + n ELSE AgeMax
                          ELSE @]]

(* Variant: the full cache is not recognised.                               *)
InsertedGrows(c, e) == Append(c, e)

(* nodecache_insert of a number the cache does not have.                    *)
Inserted(c, e) ==
  IF Len(c) = CacheEntries THEN [c EXCEPT ![OldestIndex(c)] = e] ELSE Append(c, e)

Newest(c) ==
  c[CHOOSE i \in DOMAIN c : \A j \in DOMAIN c : TrdCmp(c[i].seqno, c[j].seqno) >= 0]

(* How often the cache must be aged for its newest packet to be as old as   *)
(* the copy of it, age old, that was heard of: the loop in classifySeqno.   *)
LagOf(newest, age) == IF age - 2 > newest.age THEN age - 2 - newest.age ELSE 0

Class == {"UNKNOWN", "NEXT_NEW", "NEWER", "TOO_NEW", "IN_LAST", "IN_OLD", "TOO_OLD", "NULL"}


(* How seqno stands to the numbers of a cache that has some.                *)
ClassBeside(c, newest, seqno, age) ==
  IF seqno = newest.seqno THEN IF LagOf(newest, age) > 1 THEN "IN_OLD" ELSE "IN_LAST"
  ELSE IF seqno = TrdNext(newest.seqno) THEN "NEXT_NEW"
  ELSE IF TrdCmp(seqno, TrdNext(newest.seqno)) > 0
  THEN IF TrdCmp(seqno, TrdAdd(newest.seqno, CacheEntries - 1)) > 0 THEN "TOO_NEW"
       ELSE "NEWER"
  ELSE IF \A i \in DOMAIN c : TrdCmp(seqno, c[i].seqno) < 0 THEN "TOO_OLD"
  ELSE IF \E i \in DOMAIN c : TrdCmp(seqno, c[i].seqno) = 0 THEN "IN_OLD"
  ELSE "UNKNOWN"

(* nodecache_classifySeqno                                                  *)
ClassOf(c, seqno, age) ==
  IF seqno = TrdUnknown THEN "UNKNOWN"
  ELSE IF seqno = TrdOldest THEN "TOO_OLD"
  ELSE IF c = <<>> THEN "NULL"
  ELSE ClassBeside(c, Newest(c), seqno, age)

(* The cache it leaves behind.                                              *)
AgedBeside(c, newest, seqno, age) ==
  IF seqno = newest.seqno THEN AgedBy(c, LagOf(newest, age)) ELSE c

ClassifiedCache(c, seqno, age) ==
  IF c = <<>> THEN c ELSE AgedBeside(c, Newest(c), seqno, age)

-----------------------------------------------------------------------------
(* Tables.                                                                 *)

Origins(t) == {t[i].origin : i \in DOMAIN t}

RowOf(t, o) == CHOOSE i \in DOMAIN t : t[i].origin = o

CacheOf(t, o) == IF o \in Origins(t) THEN t[RowOf(t, o)].cache ELSE <<>>

TableFull(t) == Len(t) >= NodeEntries

(* remove_node_index: the last row takes the place of the one removed.      *)
WithoutRow(t, i) ==
  SubSeq(IF i = Len(t) THEN t ELSE [t EXCEPT ![i] = t[Len(t)]], 1, Len(t) - 1)

WithoutNode(t, o) == IF o \in Origins(t) THEN WithoutRow(t, RowOf(t, o)) ELSE t

(* trd_table_incrementAge: ages every row, and removes those whose newest   *)
(* packet has become too old.                                               *)
AgedRow(acc) ==
  LET row == [acc.t[acc.i] EXCEPT !.cache = AgedBy(@, 1)]
  IN  IF NewestAge(row.cache) > DeleteOld
      THEN [acc EXCEPT !.t = WithoutRow(@, acc.i)]
      ELSE [t |-> [acc.t EXCEPT ![acc.i] = row], i |-> acc.i + 1]

AgedTable(t) ==
  LET aged[k \in 0 .. Len(t)] == IF k = 0 THEN [t |-> t, i |-> 1] ELSE AgedRow(aged[k - 1])
  IN  aged[Len(t)].t

Has(t, o, seqno) == IndexOf(CacheOf(t, o), seqno) # {}

EntryOf(t, o, seqno) == LET c == CacheOf(t, o) IN c[CHOOSE i \in IndexOf(c, seqno) : TRUE]

(* A packet that is sent again carries the age it has in the table.  getAge *)
(* leaves age as it was, junk, if the packet has left the table.            *)
WithAge(msg, t, junk) ==
  [msg EXCEPT !.age = IF Has(t, msg.origin, msg.seqno)
                      THEN EntryOf(t, msg.origin, msg.seqno).age ELSE junk]

(* trd_table_insert, which the full table refuses.                          *)
CanInsert(t, o, seqno) == (o \in Origins(t) \/ ~TableFull(t)) /\ ~Has(t, o, seqno)

InsertedTable(t, o, e) ==
  IF o \in Origins(t)
  THEN [t EXCEPT ![RowOf(t, o)].cache = Inserted(@, e)]
  ELSE Append(t, [origin |-> o, cache |-> <<e>>])

(* trd_table_classify                                                       *)
Classify(t, o, seqno, age) ==
  IF o \in Origins(t) THEN ClassOf(CacheOf(t, o), seqno, age) ELSE "NULL"

ClassifiedTable(t, o, seqno, age) ==
  IF o \in Origins(t)
  THEN [t EXCEPT ![RowOf(t, o)].cache = ClassifiedCache(@, seqno, age)]
  ELSE t

(* trd_table_summarize: the last packet of each origin.                     *)
Meta(o, seqno, age) == [origin |-> o, seqno |-> seqno, age |-> age]

Advertised(list, row, ignoreOld) ==
  IF row.cache # <<>> /\ (ignoreOld => NewestAge(row.cache) < NoSummary)
  THEN Append(list, Meta(row.origin, LastSeqno(row.cache), NewestAge(row.cache)))
  ELSE list

Summary(t, ignoreOld) ==
  LET list[k \in 0 .. Len(t)] ==
        IF k = 0 THEN <<>> ELSE Advertised(list[k - 1], t[k], ignoreOld)
  IN  list[Len(t)]

(* trd_table_ignoreSummary: every origin the summary lacks is an old one.   *)
(* The row of the table is looked for at its own index in the summary;      *)
(* beyond the end of the summary there is garbage, which matches or not.    *)
IgnoresSummary(t, es, garbage) ==
  \A i \in DOMAIN t :
    \/ es # <<>> /\ IF i <= Len(es) THEN es[i].origin = t[i].origin ELSE garbage
    \/ NewestAge(t[i].cache) >= IgnoreOld
=============================================================================
