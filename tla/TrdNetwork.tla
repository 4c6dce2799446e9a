----------------------------- MODULE TrdNetwork -----------------------------
(***************************************************************************)
(* Masters that disseminate and motes that receive and forward: the motes' *)
(* and masters' ends of TRD joined by a radio that loses packets.          *)
(***************************************************************************)
EXTENDS TrdMote, TrdMaster

CONSTANTS
  MaxSeqno,   (* bound: packets a master disseminates                       *)
  MaxTicks,   (* bound: age units that pass                                 *)
  Started     (* TRUE: the masters have gone through their start alone      *)

VARIABLES
  node,       (* the state of every node                                    *)
  sent        (* history: the newest number each master has disseminated    *)

vars == <<node, sent>>

(* A master that finds no neighbour becomes steady all the same.            *)
MasterAlone ==
  [MasterInit EXCEPT !.state = "STEADY", !.alarms = {}, !.loops = InitLoops + 1, !.ready = TRUE]

Init ==
  /\ node = [n \in Node |-> IF n \in Motes THEN MoteInit
                            ELSE IF Started THEN MasterAlone ELSE MasterInit]
  /\ sent = [o \in Masters |-> 0]

Step(n, s) == node' = [node EXCEPT ![n] = s] /\ UNCHANGED sent

-----------------------------------------------------------------------------
(* The radio.                                                              *)

Packet1(n) == node[n].air[1]

(* What m makes of packet p.                                                *)
Heard(m, p) ==
  IF m \in Motes
  THEN {MoteReceive(node[m], m, p, w, ok, g) :
          w \in Works, ok \in Accepts(node[m]), g \in BOOLEAN}
  ELSE {MasterReceive(node[m], m, p, g, j) : g \in BOOLEAN, j \in JunkAge}

Receive(n, m) ==
  /\ node[n].air # <<>> /\ m \in Packet1(n).to
  /\ \E s \in Heard(m, Packet1(n).pkt) :
       node' = [node EXCEPT ![n] = Resolved(@, m), ![m] = s]
  /\ UNCHANGED sent

Miss(n, m) ==
  /\ node[n].air # <<>> /\ m \in Packet1(n).to
  /\ Step(n, Resolved(node[n], m))

-----------------------------------------------------------------------------
(* The motes.                                                              *)

InitDone(n) == node[n].flash = "INIT" /\ Step(n, MoteInitDone(node[n]))

Fired(n) ==
  /\ node[n].flash # "INIT" /\ node[n].timer = "pre"
  /\ \E ok \in Accepts(node[n]) : Step(n, MoteTimerFired(node[n], n, ok))

IntervalEnds(n) ==
  /\ n \in Motes => node[n].flash # "INIT"
  /\ node[n].timer # "pre" /\ Step(n, TimerUpdated(node[n]))

RunReadMemory(n) == node[n].posted /\ \E w \in Works : Step(n, ReadMemory(node[n], w))

WriteDone(n) == node[n].flash = "WRITE" /\ Step(n, MoteWriteDone(node[n]))

ReadDone(n) ==
  /\ node[n].flash = "READ"
  /\ \E w \in Works, ok \in Accepts(node[n]), junk \in JunkAge :
       Step(n, MoteReadDone(node[n], n, w, ok, junk))

(* The clocks of the nodes run at one rate, their phases differ.  An age    *)
(* unit is 10 s: no packet is under way, and no node has anything to send   *)
(* but its next summary, for so long.                                       *)
MayTick(n) ==
  /\ node[n].ticks < MaxTicks
  /\ \A m \in Node : /\ node[n].ticks <= node[m].ticks /\ node[m].air = <<>>
                     /\ node[m].state # "FAST_PACKET" /\ node[m].rlist = <<>>

Aging(n) == MayTick(n) /\ Step(n, MoteAgingFired(node[n]))

-----------------------------------------------------------------------------
(* The masters.                                                            *)

(* trd_transport_send: all fragments of a task are sent in one call.        *)
Disseminate(n) ==
  /\ node[n].ready /\ sent[n] + Fragments <= MaxSeqno
  /\ LET all[i \in 0 .. Fragments] == IF i = 0 THEN node[n] ELSE MasterSend(all[i - 1], n)
     IN  node' = [node EXCEPT ![n] = all[Fragments]]
  /\ sent' = [sent EXCEPT ![n] = node'[n].seqno]

MasterFired(n) == node[n].timer = "pre" /\ Step(n, MasterTimerFired(node[n], n))

InitAlarm(n) == "init" \in node[n].alarms /\ Step(n, InitFired(node[n]))

RecoverAlarm(n) ==
  "recover" \in node[n].alarms /\ \E j \in JunkAge : Step(n, MasterRead(node[n], n, j))

MasterAging(n) == MayTick(n) /\ Step(n, MasterAgingFired(node[n]))

-----------------------------------------------------------------------------
Next ==
  \/ \E n, m \in Node : Receive(n, m) \/ Miss(n, m)
  \/ \E n \in Node : IntervalEnds(n)
  \/ \E n \in Motes : \/ InitDone(n) \/ Fired(n) \/ RunReadMemory(n)
                      \/ WriteDone(n) \/ ReadDone(n) \/ Aging(n)
  \/ \E n \in Masters : \/ Disseminate(n) \/ MasterFired(n) \/ InitAlarm(n)
                        \/ RecoverAlarm(n) \/ MasterAging(n)

Spec == Init /\ [][Next]_vars

(* What is sent again and again, a packet, a summary to a mote or a mote's  *)
(* request, is heard at last, and by a node that is not sending itself just *)
(* then: trickle draws the time of every summary at random.                 *)
KindOf(p) == IF p.kind = "msg" THEN <<"msg", p.seqno>> ELSE <<p.kind>>

Expected(n, m) ==
  (IF m \in Motes THEN {<<"msg", k>> : k \in 1 .. MaxSeqno} \cup {<<"summary">>} ELSE {})
    \cup (IF n \in Motes THEN {<<"request">>} ELSE {})

Awaits(n, m, kind) ==
  node[n].air # <<>> /\ m \in Packet1(n).to /\ KindOf(Packet1(n).pkt) = kind

Hears(n, m, kind) == Awaits(n, m, kind) /\ node[m].air = <<>> /\ Receive(n, m)

Resolve(n) == \E m \in Node : Receive(n, m) \/ Miss(n, m)
LogBusy(n) == node[n].posted \/ node[n].flash # "IDLE"
LogStep(n) == RunReadMemory(n) \/ InitDone(n) \/ WriteDone(n) \/ ReadDone(n)
TimerFires(n) == IF n \in Motes THEN Fired(n) /\ node[n].air = <<>> ELSE MasterFired(n)
Alarm(n)   == InitAlarm(n) \/ RecoverAlarm(n)

Fairness ==
  /\ \A l \in Links : \A kind \in Expected(l[1], l[2]) :
       []<>Awaits(l[1], l[2], kind) => []<><<Hears(l[1], l[2], kind)>>_vars
  /\ \A n \in Node : /\ []<>(node[n].air = <<>>)
                     /\ []<><<TimerFires(n)>>_vars /\ []<><<IntervalEnds(n)>>_vars
  /\ \A n \in Motes : <>[]LogBusy(n) => []<><<LogStep(n)>>_vars
  /\ \A n \in Masters : <>[](node[n].alarms # {}) => []<><<Alarm(n)>>_vars

FairSpec == Spec /\ Fairness

-----------------------------------------------------------------------------
(* Properties.                                                             *)

TypeOK ==
  LET Age    == 0 .. AgeMax
      Msgs   == [kind : {"msg"}, origin : Masters, seqno : 1 .. MaxSeqno, age : Age]
      Metas  == [origin : Masters, seqno : 1 .. MaxSeqno, age : Age]
      Asked  == [origin : Masters, seqno : 1 .. MaxSeqno \cup {TrdOldest}, age : {0}]
      Held(p) == p = NoPacket \/ p \in Msgs
      PacketOK(p) ==
        \/ p \in Msgs
        \/ p.kind = "summary" /\ p.sender \in Node /\ p.list \in Seq(Metas)
        \/ p.kind = "request" /\ p.sender \in Node /\ p.list \in Seq(Asked)
      TableOK(t, size) ==
        /\ Len(t) <= NodeEntries
        /\ \A i \in DOMAIN t :
             /\ t[i].origin \in Masters /\ Len(t[i].cache) \in 1 .. CacheEntries
             /\ \A j \in DOMAIN t : t[j].origin = t[i].origin => i = j
             /\ \A k \in DOMAIN t[i].cache :
                  t[i].cache[k] \in [seqno : 1 .. MaxSeqno, memloc : 0 .. (size - 1), age : Age]
      NodeOK(s) ==
        /\ s.timer \in TimerState /\ s.rx \in BOOLEAN /\ s.ticks \in 0 .. MaxTicks
        /\ s.rlist \in Seq(Masters \X (1 .. MaxSeqno)) /\ Len(s.rlist) <= CacheEntries
        /\ \A i \in DOMAIN s.air : PacketOK(s.air[i].pkt) /\ s.air[i].to \subseteq Node
        /\ Len(s.frag) < Fragments
  IN  /\ sent \in [Masters -> 0 .. MaxSeqno]
      /\ \A n \in Motes :
           LET s == node[n]
           IN  /\ NodeOK(s) /\ TableOK(s.table, LogSize)
               /\ s.state \in MoteStates /\ (s.rx => s.state \in {"INIT", "INIT_READY", "STEADY"})
               /\ s.flash \in {"INIT", "IDLE", "WRITE", "READ"} /\ Held(s.buf)
               /\ s.ptr \in 0 .. (LogSize - 1) /\ \A i \in DOMAIN s.log : Held(s.log[i])
               /\ Len(s.air) <= 1
      /\ \A n \in Masters :
           LET s == node[n]
           IN  /\ NodeOK(s) /\ TableOK(s.table, MemSize)
               /\ s.state \in MasterStates /\ (s.rx => Starting(s) \/ s.state = "STEADY")
               /\ s.alarms \subseteq {"init", "recover"} /\ s.fast \in -1 .. FastRetx
               /\ s.ptr \in 0 .. (MemSize - 1) /\ Len(s.air) <= MaxQueue

(* A message that a mote is to forward at once (FAST_PACKET) is in          *)
(* flash_buf, is the last one received, and no read is filling the buffer   *)
(* (TRD_StateM.nc:267, 424).                                                *)
FastPacketIsLast ==
  \A n \in Motes : Is(node[n], "FAST_PACKET") =>
    /\ node[n].flash # "READ" /\ node[n].buf.kind = "msg"
    /\ node[n].last = MetaOf(node[n].buf)

LogOf(n) == IF n \in Motes THEN node[n].log ELSE node[n].mem

Holds(n, o, e) ==
  LET p == LogOf(n)[e.memloc] IN p.kind = "msg" /\ MetaOf(p) = <<o, e.seqno>>

(* Every entry of a table points at its packet in the log: what a node      *)
(* answers a request with is what it was asked for (trd_nodecache.c:134).   *)
LogHolds ==
  \A n \in Node, o \in Masters :
    \A e \in Range(CacheOf(node[n].table, o)) : Holds(n, o, e)


(* TRD gives the packets of an origin to the layer above in their order and *)
(* none twice, as TRD_FragmentM.nc:65 has it.                               *)
InOrder ==
  \A n \in Node, o \in Masters :
    \A i \in 2 .. Len(node[n].got[o]) : node[n].got[o][i - 1] < node[n].got[o][i]

(* A task that is delivered is one that was sent: its fragments are those   *)
(* of one task, in order (TRD_FragmentM.nc:96).                             *)
TaskWhole ==
  \A n \in Node : \A task \in node[n].tasks :
    /\ Len(task) = Fragments
    /\ \A i \in DOMAIN task : task[i] = <<task[1][1], task[1][2] + i - 1>>

(* A mote that transmits what others requested has something requested      *)
(* (TRD_StateM.nc:92).                                                      *)
TxHasWork == \A n \in Motes : Is(node[n], "TX") => node[n].rlist # <<>>

Abstract == INSTANCE TrdSpec WITH
  Keep <- CacheEntries, Batch <- Fragments, MaxSent <- MaxSeqno,
  got <- [n \in Node |-> node[n].got]


Seen(n, o) == IF node[n].got[o] = <<>> THEN 0 ELSE Last(node[n].got[o])

(* In the end every mote has been given the newest packet, whatever was     *)
(* lost: advertising, requesting and recovering go on until it has          *)
(* (TRD_StateM.nc:288, 431, 401).                                           *)
Converges == <>[](\A n \in Motes, o \in Masters : Seen(n, o) = sent[o])
=============================================================================
