------------------------------- MODULE Tasks -------------------------------
(***************************************************************************)
(* The task core of a mote: every event and every posted task of the       *)
(* modules that Tasklets and TaskSends describe is an action.  Tasks run to*)
(* completion one after the other (TinyOS); which of those that have been  *)
(* posted is next is left open, and so is what the radio, the ADC and time *)
(* do.  Posting a task that is posted already makes it run twice: whether  *)
(* such a second posting of pop_and_send is left is left open as well.     *)
(***************************************************************************)
EXTENDS TaskSends

CONSTANTS
  Deleted,   (* the ids whose tasks applications delete                     *)
  Fills      (* whether a datum may be the last of a sample, or not be      *)

ASSUME TasksAssumption == Deleted \subseteq Ids /\ Fills \subseteq BOOLEAN

VARIABLE s

Init == s = TaskInit

(***************************************************************************)
(* The installer (TaskInstallerM.nc).                                      *)
(***************************************************************************)
IdleConns == {i \in 1 .. 2 : s.conn[i].st = "idle"}

(* How many elements of the chain can be built: sendSTR needs a connection. *)
Buildable(id) ==
  LET str == {i \in DOMAIN Chain[id] : Chain[id][i] = "str"}
  IN  IF str = {} \/ IdleConns # {} THEN {Len(Chain[id])} ELSE {i - 1 : i \in str}

(* task_new in cell t and build_elements up to element k.                   *)
BuildElements(t, id, k) ==
  LET new == [FreeTask EXCEPT !.busy = TRUE, !.id = id, !.built = k]
  IN  IF "str" \in Range(SubSeq(Chain[id], 1, k))
      THEN [s EXCEPT !.seen = @ \cup {id},
              !.task[t] = [new EXCEPT !.conn = "opening", !.sendbusy = TRUE],
              !.conn[Min(IdleConns)] = [cid |-> id, st |-> "syn"]]
      ELSE [s EXCEPT !.seen = @ \cup {id}, !.task[t] = new]

(* parse_msg, TASK_INSTALL.                                                 *)
Install(id) ==
  LET t == FirstFree(s.task)
      a == FirstFree(s.atask)
  IN  /\ id \notin s.seen
      /\ Scarce \/ (t # 0 /\ a # 0)
      /\ IF t = 0 THEN s' = [ReportId(s, id) EXCEPT !.seen = @ \cup {id}]
         ELSE \E m \in Buildable(id), k \in 0 .. Len(Chain[id]) :
                /\ IF Faulty THEN k <= m ELSE k = m
                /\ LET built == BuildElements(t, id, k)
                   IN  s' = IF k < Len(Chain[id]) \/ a = 0 THEN Kill(built, t)
                            ELSE Schedule([AtaskNew(built, a, t) EXCEPT
                                             !.installed = Append(@, t)], a)

(* Variant: the active tasks the scheduler has are left to run.             *)
DeleteUnscheduled(ids) ==
  LET Listed == {t \in TaskCells : IdOf(s, t) \in ids}
      upto[i \in 0 .. Len(s.installed)] ==
        IF i = 0 THEN s
        ELSE IF s.installed[i] \in Listed THEN TaskDelete(upto[i - 1], s.installed[i])
        ELSE upto[i - 1]
  IN  s' = [upto[Len(s.installed)] EXCEPT !.installed = Only(@, TaskCells \ Listed)]

(* parse_msg, TASK_DELETE: of one id, or of all that a master installed.    *)
Delete(ids) ==
  LET Listed == {t \in TaskCells : IdOf(s, t) \in ids}
      Unscheduled(r, t) == TaskDelete(RemoveTask(r, "q", t), t)
      upto[i \in 0 .. Len(s.installed)] ==
        IF i = 0 THEN s
        ELSE IF s.installed[i] \in Listed THEN Unscheduled(upto[i - 1], s.installed[i])
        ELSE upto[i - 1]
  IN  s' = [upto[Len(s.installed)] EXCEPT !.installed = Only(@, TaskCells \ Listed)]

(* kill_it.                                                                 *)
KillIt == s.kill # 0 /\ s' = [Destroy(s, s.kill) EXCEPT !.kill = 0]

(***************************************************************************)
(* The scheduler's run.                                                    *)
(***************************************************************************)
Run ==
  /\ s.posted
  /\ IF s.q = <<>> THEN s' = [s EXCEPT !.posted = FALSE]
     ELSE LET a      == Head(s.q)
              popped == [s EXCEPT !.q = Tail(@)]
          IN  IF ElementThis(s, a) = "none" THEN s' = Wild(s)
              ELSE \E o \in RunElement(popped, a) :
                     s' \in {[r EXCEPT !.posted = r.q # <<>>] : r \in {Ran(o, a)}}

(***************************************************************************)
(* Issue and Sample.                                                       *)
(***************************************************************************)
(* IssueTimer.fired.                                                        *)
IssueFired ==
  \E due \in SUBSET Range(s.timers) :
    due # {} /\ (Scarce \/ Roomy(s, due)) /\ s' = FireDue(s, due)

(* What get_next_item may do in the state r.                                *)
NextItems(r) ==
  IF r.samp = <<>> THEN {r}
  ELSE {NextItem(r, p, now, ok) :
          p \in Range(r.samp), now \in BOOLEAN, ok \in AdcAccepts(r)}

(* Sample's Timer.fired.                                                    *)
SampleFired == s.stimer /\ s' \in NextItems([s EXCEPT !.stimer = FALSE])

(* ADC.dataReady, of one of the conversions that are under way.             *)
DataReady ==
  \E i \in DOMAIN s.adc :
    s' = [s EXCEPT !.adcBusy = FALSE, !.mdata = s.adc[i], !.handle = @ + 1,
                   !.adc = RemoveAt(@, i)]

(* ADC.error.                                                               *)
AdcError ==
  /\ Faulty
  /\ \E i \in DOMAIN s.adc :
       LET idle == [s EXCEPT !.adcBusy = FALSE, !.adc = RemoveAt(@, i)]
       IN  s' \in NextItems(IF s.pend = 0 THEN idle ELSE Kill(idle, TaskOf(s, s.pend)))

(* Variant: nothing is asked for when the item has been deleted meanwhile.  *)
HandleDataAlone(fulls) ==
  LET c    == FirstFree(s.atask)
      here == [s EXCEPT !.handle = @ - 1, !.mdata = IF s.handle = 1 THEN 0 ELSE @]
  IN  /\ s.handle > 0
      /\ IF s.pend = 0 THEN s' = here
         ELSE \E full \in fulls :
                /\ full => c # 0
                /\ s' \in NextItems(IF full THEN SampleFull(here, s.pend, c) ELSE here)

(* handle_data: full: the data of the item is full now.                     *)
HandleData(fulls) ==
  LET c    == FirstFree(s.atask)
      here == [s EXCEPT !.handle = @ - 1, !.mdata = IF s.handle = 1 THEN 0 ELSE @]
  IN  /\ s.handle > 0
      /\ IF s.pend = 0 THEN s' \in NextItems(here)
         ELSE IF s.pend \in s.full THEN s' = Wild(s)
         ELSE \E full \in fulls :
                /\ full => Scarce \/ c # 0
                /\ s' \in NextItems(IF full THEN SampleFull(here, s.pend, c) ELSE here)

(***************************************************************************)
(* SendSTR and SendPkt, and the transports below them.                     *)
(***************************************************************************)
(* oks: whether the radio may accept the packet, or refuse it.              *)
StrPopAndSend(oks) ==
  /\ s.strpop
  /\ \E ok \in oks, left \in BOOLEAN :
       s' \in {[r EXCEPT !.strpop = left \/ @] :
                 r \in {StrPop([s EXCEPT !.strpop = FALSE], ok)}}

(* The stream transport is done with the packet it was sending.             *)
StreamSent == s.tx # 0 /\ s' = StrSendDone([s EXCEPT !.tx = 0])

(* It has opened a connection, or given up.                                 *)
Opened == \E i \in 1 .. 2, success \in {TRUE, ~Faulty} :
            s.conn[i].st = "syn" /\ s' = StrOpenDone(s, i, success)

(* It has closed one.  A packet that was under way on it is done before,    *)
(* unless its write to the log has taken longer than all of the closing.    *)
Closed == \E i \in 1 .. 2 :
            /\ s.conn[i].st = "fin" /\ ("log" \in Faults \/ s.tx # s.conn[i].cid)
            /\ s' = [s EXCEPT !.conn[i] = IdleConn,
                              !.tx = IF @ = s.conn[i].cid THEN 0 ELSE @]

PktPopAndSend(oks) ==
  /\ s.pktpop
  /\ \E ok \in oks, left \in BOOLEAN, room \in {TRUE, ~Scarce} :
       s' \in {[r EXCEPT !.pktpop = left \/ @] :
                 r \in {PktPop([s EXCEPT !.pktpop = FALSE], ok, room)}}

(* The packet transport is done with a packet.                              *)
PacketSent == \E p \in s.ptx : s' = PktSendDone([s EXCEPT !.ptx = @ \ {p}], p[1])

(* What may happen while kill_it is posted.                                 *)
KillWaits == s.kill = 0 \/ "late" \in Faults

Next ==
  /\ ~s.wild
  /\ \/ \E id \in Ids : Install(id)
     \/ KillWaits /\ \E id \in Deleted : Delete({id})
     \/ KillWaits /\ Deleted # {} /\ Delete(Deleted)
     \/ KillWaits /\ Run
     \/ KillIt \/ IssueFired \/ SampleFired \/ DataReady \/ AdcError
     \/ HandleData(Fills)
     \/ StrPopAndSend(BOOLEAN) \/ StreamSent \/ Opened \/ Closed
     \/ PktPopAndSend(BOOLEAN) \/ PacketSent

Spec == Init /\ [][Next]_s

(* What is posted runs, what was asked of the ADC and of the transports is  *)
(* answered, and the radio accepts a packet that is offered again and again.*)
(* Each is weak fairness, with the condition of the action written out.     *)
Sendable ==
  /\ s.strpop /\ s.sending = 0
  /\ s.retry # 0 => LET t == TaskOf(s, s.retry)
                    IN  s.task[t].conn = "connected" /\ StreamTakes(s, IdOf(s, t))
Waiting == \E a \in Range(s.timers) : ElementThis(s, a) = "wait"

Fairness ==
  /\ []<><<s.posted => Run>>_s
  /\ []<><<Waiting => IssueFired /\ Len(s'.timers) < Len(s.timers)>>_s
  /\ []<><<s.stimer => SampleFired>>_s
  /\ []<><<s.adc # <<>> => DataReady>>_s
  /\ []<><<s.handle > 0 /\ FirstFree(s.atask) # 0 => HandleData(Fills)>>_s
  /\ []<><<Sendable => StrPopAndSend({TRUE})>>_s
  /\ []<><<s.tx # 0 => StreamSent>>_s
  /\ []<><<(\E i \in 1 .. 2 : s.conn[i].st = "syn") => Opened>>_s

FairSpec == Spec /\ Fairness

(***************************************************************************)
(* Properties.                                                             *)
(***************************************************************************)
Lists == {"q", "timers", "samp", "str", "pkt"}
Slots == {"sending", "retry", "pretry"}

TypeOK ==
  /\ \A t \in TaskCells :
       /\ s.task[t].id \in Ids \cup {0} /\ s.task[t].busy \in BOOLEAN
       /\ s.task[t].atasks \in 0 .. NumAtasks
       /\ s.task[t].conn \in {"none", "opening", "connected", "sending"}
  /\ \A a \in AtaskCells : s.atask[a].t \in TaskCells \cup {0}
  /\ \A f \in Lists : Range(s[f]) \subseteq AtaskCells
  /\ \A f \in Slots \cup {"pend", "mdata"} : s[f] \in AtaskCells \cup {0}
  /\ s.count \in 0 .. NumAtasks /\ s.handle \in Nat
  /\ ~s.wild

(* How many times the lists and the tasklets hold an active task.           *)
Holds(a) ==
  LET In(f) == Cardinality({i \in DOMAIN s[f] : s[f][i] = a})
      Flown == Cardinality({i \in DOMAIN s.flight : s.flight[i].a = a})
  IN  In("q") + In("timers") + In("samp") + In("str") + In("pkt") + Flown
        + Cardinality({f \in Slots : s[f] = a})

(* An active task is owned by the scheduler or by one element, never by two *)
(* and never by none, and the task it walks is there and installed          *)
(* (TaskLib.nc:413-422).                                                    *)
HeldOnce ==
  \A a \in AtaskCells :
    IF s.atask[a].busy
    THEN /\ Holds(a) = 1
         /\ s.task[s.atask[a].t].busy
         /\ s.atask[a].t \in Range(s.installed)
    ELSE Holds(a) = 0

(* num_atasks, on which the end of a task and the cloning hang, counts the  *)
(* active tasks a task has, and active_task_count those of all.             *)
AtasksExact ==
  LET Walking(t) == {a \in AtaskCells : s.atask[a].busy /\ s.atask[a].t = t}
  IN  /\ \A t \in TaskCells : s.task[t].busy =>
                                s.task[t].atasks = Cardinality(Walking(t))
      /\ s.count = Cardinality({a \in AtaskCells : s.atask[a].busy})

(* sendDone carries no active task: it is about m_sending_atask as long as  *)
(* the packet that is under way is of its task (SendSTR.nc:232).            *)
SendDoneIsOurs ==
  s.sending # 0 => /\ s.tx = IdOf(s, TaskOf(s, s.sending))
                   /\ s.task[TaskOf(s, s.sending)].conn = "sending"

(* What waits for the stream transport will be sent: pop_and_send is posted *)
(* or a sendDone, which posts it, is to come.                               *)
StreamServed == s.str # <<>> \/ s.retry # 0 => s.strpop \/ s.tx # 0

(* What waits for the ADC will be sampled: a conversion, handle_data or the *)
(* timer is to come; and the ADC is not taken to be busy for ever.  Only an *)
(* ADC.stop that ended a conversion breaks this, until another is accepted. *)
SampleServed ==
  s.cut \/ /\ s.samp # <<>> => s.adc # <<>> \/ s.handle > 0 \/ s.stimer
           /\ s.adcBusy => s.adc # <<>>

(* What waits for the packet transport will be sent.                        *)
PacketServed ==
  s.pkt # <<>> \/ s.pretry # 0 => s.pktpop \/ s.ptx # {}

(* An item that waits for sendDone has a packet under way (SendPkt.nc:285). *)
FlightIsUnderWay ==
  \A c \in Range(s.flight) : \E p \in s.ptx : p[1] = c.tid

(* The datum that handle_data stores is of the conversion that was asked    *)
(* for the item it stores it in (Sample.nc:79).                             *)
DatumIsOwn == s.handle > 0 /\ s.pend # 0 => s.mdata = s.pend

(* A task that streams and that nobody deletes goes on streaming, whatever  *)
(* becomes of the tasks beside it and whenever.                             *)
KeepsStreaming ==
  \A id \in Ids \ Deleted : id \in s.seen ~> s.tx = id
=============================================================================
