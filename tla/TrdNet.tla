------------------------------- MODULE TrdNet -------------------------------
(***************************************************************************)
(* Nodes, packets and the radio of the dissemination protocol.             *)
(*                                                                         *)
(* A node's record has a field air, the packets it is sending, oldest      *)
(* first, each with the neighbours that have still to hear it or miss it.  *)
(* A mote sends one packet at a time; it is told so (sendDone) when every  *)
(* neighbour has.  A master hands its packets to a base station, which     *)
(* keeps MaxQueue of them and loses the rest.                              *)
(***************************************************************************)
EXTENDS TrdTable, FiniteSets

CONSTANTS
  Motes, Masters,
  Links,       (* who hears whom: pairs <<sender, hearer>>                  *)
  MaxQueue,    (* bound: packets waiting at a base station                  *)
  Faulty,      (* radio and log of a mote may refuse or fail                *)
  JunkAge,     (* the ages an uninitialised variable may hold               *)
  Fragments    (* packets to a task: TRD_Fragment splits those too long     *)

Node == Motes \cup Masters

ASSUME TrdNetAssumption ==
  /\ Motes \cap Masters = {} /\ IsFiniteSet(Node)
  /\ Links \subseteq {l \in Node \X Node : l[1] # l[2] /\ <<l[2], l[1]>> \in Links}
  /\ Faulty \in BOOLEAN /\ MaxQueue \in Nat \ {0} /\ JunkAge \subseteq 1 .. AgeMax /\ Fragments \in Nat \ {0}

Hearers(n) == {m \in Node : <<n, m>> \in Links}

(* TRD_Msg, TRD_SummaryMsg and TRD_RequestMsg.  num is num_entries, which   *)
(* is -1 in the summary by which a master asks for all summaries.           *)
NoPacket            == [kind |-> "none"]
TrdMsg(o, seqno, a) == [kind |-> "msg", origin |-> o, seqno |-> seqno, age |-> a]
SummaryMsg(n, num, es) == [kind |-> "summary", sender |-> n, num |-> num, list |-> es]
RequestMsg(n, es)   == [kind |-> "request", sender |-> n, list |-> es]

NoMeta    == <<>>
MetaOf(m) == <<m.origin, m.seqno>>

(* The radio of a mote takes a packet if it is not sending one.  It may     *)
(* refuse all the same if it is Faulty.                                     *)
Accepts(s) == IF Faulty THEN {FALSE, s.air = <<>>} ELSE {s.air = <<>>}

Sent(s, to, p) == [s EXCEPT !.air = Append(@, [pkt |-> p, to |-> to])]

(* Neighbour m has heard, or missed, the packet n is sending.               *)
Resolved(s, m) ==
  LET to == s.air[1].to \ {m}
  IN  [s EXCEPT !.air = IF to = {} THEN Tail(@) ELSE [@ EXCEPT ![1].to = to]]

-----------------------------------------------------------------------------
(* The trickle timer (TRD_TimerM.nc, trd_timer.c): once in every interval   *)
(* it fires, unless it was suppressed.  "pre" is TRD_PRE_PROCESS, which     *)
(* with trickleSuppress is "quiet"; "post" is TRD_POST_PROCESS, until the   *)
(* interval ends.  Interval lengths are left out.                           *)
TimerState == {"pre", "quiet", "post"}

TimerReset(s)     == [s EXCEPT !.timer = "pre"]
TimerProcessed(s) == [s EXCEPT !.timer = "post"]
TimerSuppress(s)  == [s EXCEPT !.timer = IF @ = "pre" THEN "quiet" ELSE @]

(* updateCounters, when the timer does not fire.                            *)
TimerUpdated(s) == IF s.timer = "quiet" THEN TimerProcessed(s) ELSE TimerReset(s)

-----------------------------------------------------------------------------
(* newMsg, the table of a node that has received m and found its class.     *)
Noted(s, m, class) ==
  [s EXCEPT !.table = IF class = "TOO_NEW" THEN WithoutNode(@, m.origin)
                      ELSE ClassifiedTable(@, m.origin, m.seqno, m.age)]

(* The summary of a master that starts has no entries and asks for all.     *)
Asks(p)    == p.num < 0
Entries(p) == IF Asks(p) THEN <<>> ELSE p.list

(* Requests for what a summary has and the node has not: the loop over the  *)
(* entries of summaryReceived, which motes and masters share.  late is      *)
(* should_send_summary_immediately, same is should_suppress.                *)
ComparedTo(acc, e) ==
  LET class == Classify(acc.t, e.origin, e.seqno, e.age)
      last  == LastSeqno(CacheOf(acc.t, e.origin))
      asked(seqno) == IF Len(acc.req) < NodeEntries
                      THEN Append(acc.req, Meta(e.origin, seqno, 0)) ELSE acc.req
  IN  [t    |-> IF class = "TOO_NEW" THEN WithoutNode(acc.t, e.origin)
                ELSE ClassifiedTable(acc.t, e.origin, e.seqno, e.age),
       req  |-> IF class \in {"NEXT_NEW", "NEWER"}
                THEN IF TrdCmp(last, e.seqno) < 0 THEN asked(TrdNext(last)) ELSE acc.req
                ELSE IF class \in {"TOO_NEW", "NULL", "UNKNOWN"}
                THEN asked(TrdOldest) ELSE acc.req,
       late |-> acc.late \/ class \in {"IN_OLD", "TOO_OLD"},
       same |-> acc.same \/ class = "IN_LAST"]

Compared(t, es) ==
  LET acc[k \in 0 .. Len(es)] ==
        IF k = 0 THEN [t |-> t, req |-> <<>>, late |-> FALSE, same |-> FALSE]
        ELSE ComparedTo(acc[k - 1], es[k])
  IN  acc[Len(es)]

(* The list of packets a node has been asked for (trd_metalist.c).          *)
ListInsert(l, x) ==
  IF Len(l) < CacheEntries /\ ~Contains(l, x) THEN Append(l, x) ELSE l

ListDeleteFirst(l) == IF l = <<>> THEN l ELSE Tail(l)

(* Variant: the packet asked for is left out.                               *)
FromNext(t, o, seqno) ==
  LET next == TrdNext(seqno)
  IN  IF Has(t, o, next) THEN <<next>> ELSE <<>>

(* The numbers from seqno on that the node has without a gap.               *)
From(t, o, seqno) ==
  LET at[k \in 0 .. CacheEntries] == IF k = 0 THEN seqno ELSE TrdNext(at[k - 1])
      n == CHOOSE k \in 0 .. CacheEntries :
             /\ \A j \in 0 .. (k - 1) : Has(t, o, at[j])
             /\ k = CacheEntries \/ ~Has(t, o, at[k])
  IN  [k \in 1 .. n |-> at[k - 1]]

(* The loop of requestReceived, which motes and masters share: the first    *)
(* entry that asks for what the node does not know ends it.                 *)
Requested(t, l, es) ==
  LET entry(acc, e) ==
        LET seqno == IF e.seqno = TrdOldest THEN OldestSeqno(CacheOf(t, e.origin))
                     ELSE e.seqno
        IN  IF ~acc.go \/ seqno = TrdUnknown \/ seqno > TrdLast
            THEN [acc EXCEPT !.go = FALSE]
            ELSE [acc EXCEPT !.l = FoldLeft(LAMBDA a, x : ListInsert(a, <<e.origin, x>>), @,
                                            From(t, e.origin, seqno))]
  IN  FoldLeft(entry, [l |-> l, go |-> TRUE], es).l

(* What the node makes of it besides requesting.  The row of the table is   *)
(* looked for in the summary only if the table is the longer one.           *)
IsLate(r, es, garbage) == r.late \/ (Len(r.t) > Len(es) /\ ~IgnoresSummary(r.t, es, garbage))
IsSame(r, p, t, steady) == r.same \/ (p.num = 0 /\ t = <<>> /\ steady)

-----------------------------------------------------------------------------
(* TRD_FragmentM: the packets of a task are put together again.  A task     *)
(* is Fragments successive numbers of an origin, and all tasks have the     *)
(* same size, so that neither tot_fragment nor tot_bytes tells two of them  *)
(* apart.                                                                   *)
IndexIn(seqno) == ((seqno - 1) % Fragments) + 1

(* TRD gives packet m to TRD_Fragment: got is what TRD has delivered of     *)
(* each origin, frag the fragments in m_buf, tasks the tasks delivered.     *)
(* A mote drops what it has when a fragment would not fit (bounded).        *)
Received(s, m, bounded) ==
  LET parts == IF IndexIn(m.seqno) = 1 THEN <<MetaOf(m)>>
               ELSE IF s.frag = <<>> \/ (bounded /\ Len(s.frag) >= Fragments) THEN <<>>
               ELSE Append(s.frag, MetaOf(m))
      last  == parts # <<>> /\ IndexIn(m.seqno) = Fragments
  IN  [s EXCEPT !.got[m.origin] = Append(@, m.seqno),
                !.frag = IF last THEN <<>> ELSE parts,
                !.tasks = IF last THEN @ \cup {parts} ELSE @]
=============================================================================
