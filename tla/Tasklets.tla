------------------------------ MODULE Tasklets ------------------------------
(***************************************************************************)
(* What the scheduler, the installer, the error handler and the tasklets   *)
(* do to the state of the task core: TenetScheduler.nc, TaskInstallerM.nc, *)
(* ErrorHandler.nc (src/mote/lib) and Issue.nc, Sample.nc, SendSTR.nc,     *)
(* SendPkt.nc, DeleteTaskIf.nc, DeleteActiveTaskIf.nc (src/mote/tasklets). *)
(* Beside the cells of TaskCells the state has                             *)
(*   q, posted    the scheduler's m_list, and its run being posted         *)
(*   installed    m_taskList                                               *)
(*   kill         to_kill_task: kill_it is posted iff it is not NULL       *)
(*   timers       Issue: m_timer_list                                      *)
(*   samp, full   Sample: m_list; the items whose data is full             *)
(*   pend         m_pending_item, as the active task it holds              *)
(*   stimer       Sample's timer is running                                *)
(*   adcBusy      m_adc_busy                                               *)
(*   adc          whose conversion the ADC is doing (beyond the code)      *)
(*   cut          ADC.stop has ended a conversion, and the ADC has not     *)
(*                accepted another one since (beyond the code)             *)
(*   handle       how many handle_data are posted                          *)
(*   mdata        whose conversion m_data came from (beyond the code)      *)
(*   str, sending, retry    SendSTR: m_list, m_sending_atask,              *)
(*                m_retry_atask;  strpop: its pop_and_send is posted       *)
(*   pkt, pretry, flight    SendPkt: m_list, m_retry_atask, m_sendinglist; *)
(*                pktpop: its pop_and_send is posted                       *)
(*   be           m_be_state is SEND_SENDING                               *)
(*   sneak, sneakTid        m_sneak_state, m_sneak_tid; report_busy of     *)
(*                the error handler is sneak # "idle"                      *)
(*   conn         the two connections of the stream transport              *)
(*   tx           the id whose packet the stream transport is sending      *)
(*   ptx          <<id, kind>> of what the packet transport is sending     *)
(*   seen         the ids that have been installed or refused              *)
(*   wild         the program has used memory that is not what it takes    *)
(*                it for                                                   *)
(* Time is abstract: a timer that runs may fire, with any of its items due.*)
(***************************************************************************)
EXTENDS TaskCells

CONSTANTS
  CloneLimit,  (* the number of active tasks from which issue stops cloning *)
  NumSlots,    (* sends the packet transport has room for                   *)
  Faults       (* what may go wrong, of FaultKinds                          *)

(* heap: it may be exhausted.  element: one may fail to be built, the ADC   *)
(* may refuse or fail, a connection may fail to open.  stop: ADC.stop ends  *)
(* the conversions that are under way (telosb's HumidityM.nc does, the ADC  *)
(* of the other platforms does not).  log: the write of a packet may take   *)
(* longer than the closing of its connection.  late: other tasks than       *)
(* kill_it may run while it is posted.                                      *)
FaultKinds == {"heap", "element", "stop", "log", "late"}
Scarce     == "heap" \in Faults
Faulty     == "element" \in Faults

ASSUME TaskletsAssumption ==
  /\ CloneLimit \in Nat \ {0} /\ NumSlots \in Nat \ {0}
  /\ Faults \subseteq FaultKinds

IdleConn == [cid |-> 0, st |-> "idle"]

TaskInit ==
  [task |-> [t \in TaskCells |-> FreeTask],
   atask |-> [a \in AtaskCells |-> FreeAtask], count |-> 0,
   q |-> <<>>, posted |-> FALSE, installed |-> <<>>, kill |-> 0,
   timers |-> <<>>, samp |-> <<>>, full |-> {}, pend |-> 0, stimer |-> FALSE,
   adcBusy |-> FALSE, adc |-> <<>>, cut |-> FALSE, handle |-> 0, mdata |-> 0,
   str |-> <<>>, sending |-> 0, retry |-> 0, strpop |-> FALSE,
   pkt |-> <<>>, pretry |-> 0, flight |-> <<>>, pktpop |-> FALSE,
   be |-> FALSE, sneak |-> "idle", sneakTid |-> 0,
   conn |-> [i \in 1 .. 2 |-> IdleConn], tx |-> 0, ptx |-> {},
   seen |-> {}, wild |-> FALSE]

IdOf(s, t)  == s.task[t].id
TaskOf(s, a) == s.atask[a].t

(***************************************************************************)
(* Errors (ErrorHandler.nc).                                               *)
(***************************************************************************)
(* TaskError.report: the report goes out through SneakSend.send.            *)
ReportId(s, id) ==
  IF s.sneak # "idle" THEN s
  ELSE [s EXCEPT !.sneak = "pending", !.sneakTid = id, !.pktpop = TRUE]

Report(s, t) == IF t = 0 THEN s ELSE ReportId(s, IdOf(s, t))

(* TaskError.kill.                                                          *)
Kill(s, t) ==
  IF t = 0 THEN s
  ELSE [Report(s, t) EXCEPT !.kill = IF @ = 0 THEN t ELSE @]

(***************************************************************************)
(* The end of a task.                                                      *)
(***************************************************************************)
(* Send.close of the stream transport, for the connection of task t.        *)
CloseConnection(s, t) ==
  IF s.task[t].conn = "none" THEN s
  ELSE [s EXCEPT !.conn = [i \in 1 .. 2 |->
                             IF s.conn[i].cid = IdOf(s, t)
                             THEN [s.conn[i] EXCEPT !.st = "fin"] ELSE s.conn[i]],
                 !.task[t].conn = "none"]

(* If a is an active task of t, it is deleted and s[f] forgets it.          *)
Dropped(s, f, t) ==
  IF s[f] # 0 /\ TaskOf(s, s[f]) = t
  THEN [AtaskDelete(s, s[f]) EXCEPT ![f] = 0] ELSE s

(* Variant: what is being sent is left.                                     *)
StrSuicideKeepsSending(s, t) ==
  CloseConnection(RemoveTask(Dropped(s, "retry", t), "str", t), t)

(* sendSTR_suicide.                                                         *)
StrSuicide(s, t) ==
  CloseConnection(RemoveTask(Dropped(Dropped(s, "retry", t), "sending", t), "str", t), t)

(* sendPkt_suicide.                                                         *)
PktSuicide(s, t) == RemoveTask(Dropped(s, "pretry", t), "pkt", t)

(* remove_task of Sample.nc: m_pending_item goes with its item.             *)
SampleRemove(s, t) ==
  [RemoveTask(s, "samp", t) EXCEPT
     !.full = {a \in @ : TaskOf(s, a) # t},
     !.pend = IF @ # 0 /\ TaskOf(s, @) = t THEN 0 ELSE @]

(* ADC.stop.                                                                *)
AdcStop(s) ==
  IF "stop" \in Faults /\ s.adc # <<>> THEN [s EXCEPT !.adc = <<>>, !.cut = TRUE] ELSE s

(* The tasks whose elements m_task_count counts.                            *)
Samplers(s) ==
  {t \in TaskCells :
     /\ s.task[t].busy
     /\ \E i \in 1 .. s.task[t].built : Chain[IdOf(s, t)][i] \in {"sample", "repeat"}}

(* sample_suicide: the last one turns the ADC off.                          *)
SampleSuicide(s, t) ==
  IF Samplers(s) \subseteq {t} THEN AdcStop(SampleRemove(s, t)) ELSE SampleRemove(s, t)

(* element_delete: the suicide of an element of the given kind.             *)
Suicide(s, t, kind) ==
  CASE kind \in {"wait", "every"}    -> RemoveTask(s, "timers", t)
    [] kind \in {"sample", "repeat"} -> SampleSuicide(s, t)
    [] kind = "str"                  -> StrSuicide(s, t)
    [] kind \in {"pkt", "be"}        -> PktSuicide(s, t)
    [] OTHER                         -> s

(* task_delete: the elements go, then the task.  A task that is not there   *)
(* has no elements: what it would call is not a function.                   *)
TaskDelete(s, t) ==
  IF t = 0 THEN s
  ELSE IF ~s.task[t].busy THEN Wild(s)
  ELSE LET upto[i \in 0 .. s.task[t].built] ==
             IF i = 0 THEN s ELSE Suicide(upto[i - 1], t, Chain[IdOf(s, t)][i])
       IN  [upto[s.task[t].built] EXCEPT !.task[t].busy = FALSE]

(* TaskDelete.destroy.                                                      *)
Destroy(s, t) ==
  TaskDelete([RemoveTask(s, "q", t) EXCEPT !.installed = Only(@, TaskCells \ {t})], t)

(* A task ends with its active task a: destroy, t = NULL, active_task_delete*)
EndTask(s, a) == AtaskDelete([Destroy(s, TaskOf(s, a)) EXCEPT !.atask[a].t = 0], a)

(***************************************************************************)
(* The scheduler (TenetScheduler.nc).                                      *)
(***************************************************************************)
Schedule(s, a) == [s EXCEPT !.q = Append(@, a), !.posted = TRUE]

(* Variant: the task ends with any of its active tasks.                     *)
ScheduleNextEager(s, a) ==
  LET on == [s EXCEPT !.atask[a].idx = @ + 1]
      t  == TaskOf(s, a)
  IN  IF t = 0 THEN Wild(s)
      ELSE IF on.atask[a].idx <= Len(Chain[IdOf(s, t)]) THEN Schedule(on, a)
      ELSE EndTask(on, a)

(* Schedule.next.                                                           *)
ScheduleNext(s, a) ==
  LET on == [s EXCEPT !.atask[a].idx = @ + 1]
      t  == TaskOf(s, a)
  IN  IF t = 0 THEN Wild(s)
      ELSE IF on.atask[a].idx <= Len(Chain[IdOf(s, t)]) THEN Schedule(on, a)
      ELSE IF s.task[t].atasks = 1 THEN EndTask(on, a)
      ELSE AtaskDelete(on, a)

(***************************************************************************)
(* Issue: wait(x) runs on once, wait(x, repeat) clones itself each time.   *)
(***************************************************************************)
(* The item of a one-shot wait goes after Schedule.next: if that has ended  *)
(* the task, issue_suicide has freed the item and deleted a already.        *)
FireOnce(s, a) ==
  LET next == ScheduleNext(s, a)
  IN  IF a \in Range(next.timers)
      THEN [next EXCEPT !.timers = Only(@, AtaskCells \ {a})] ELSE Wild(next)

(* compare_interval_time, for an item that is due.  c is a free cell or 0.  *)
Fire(s, a, c) ==
  LET t == TaskOf(s, a)
  IN  IF ElementThis(s, a) # "every" THEN FireOnce(s, a)
      ELSE IF s.task[t].sendbusy THEN s
      ELSE IF s.task[t].atasks >= CloneLimit \/ c = 0 THEN Report(s, t)
      ELSE ScheduleNext(AtaskClone(s, c, a), c)

(* set_next_itimer, when the items of due have expired.                     *)
FireDue(s, due) ==
  LET upto[i \in 0 .. Len(s.timers)] ==
        IF i = 0 THEN s
        ELSE IF s.timers[i] \in due /\ ~upto[i - 1].wild
        THEN Fire(upto[i - 1], s.timers[i], FirstFree(upto[i - 1].atask))
        ELSE upto[i - 1]
  IN  upto[Len(s.timers)]

(* There are cells for the clones of the items of due.                      *)
Roomy(s, due) ==
  Cardinality(due) <= Cardinality({c \in AtaskCells : ~s.atask[c].busy})

(* issue_run: the other items are brought up to date, and those that are    *)
(* due are fired.                                                           *)
IssueRun(s, a, due) == FireDue([s EXCEPT !.timers = Append(@, a)], due)

(***************************************************************************)
(* Sample.                                                                 *)
(***************************************************************************)
(* Whether the ADC may accept; it may refuse one conversion during another, *)
(* and any while it warms up after ADC.start.                               *)
AdcAccepts(s) ==
  IF Faulty \/ "stop" \in Faults \/ s.adc # <<>> THEN BOOLEAN ELSE {TRUE}

(* ADC.getData for the item m_pending_item.  ok: the ADC accepts.           *)
GetData(s, ok) ==
  IF ok THEN [s EXCEPT !.adcBusy = TRUE, !.adc = Append(@, s.pend), !.cut = FALSE]
  ELSE [s EXCEPT !.mdata = s.pend, !.handle = @ + 1]

(* get_next_item: p is the item that is due first, and now: it is due.      *)
NextItem(s, p, now, ok) ==
  IF s.samp = <<>> THEN s
  ELSE IF now THEN GetData([s EXCEPT !.pend = p], ok)
  ELSE [s EXCEPT !.pend = p, !.stimer = TRUE]

(* sample_run.                                                              *)
SampleRun(s, a, ok) ==
  LET alone  == SampleRemove(s, TaskOf(s, a))
      pushed == [alone EXCEPT !.samp = Append(@, a), !.stimer = FALSE]
  IN  IF s.adcBusy THEN pushed ELSE GetData([pushed EXCEPT !.pend = a], ok)

(* handle_data, up to get_next_item, when the data of m_pending_item is     *)
(* full: it goes with the active task, of which a clone in cell c stays to  *)
(* sample again if the element repeats.                                     *)
SampleFull(s, a, c) ==
  LET given == [s EXCEPT !.atask[a].data = Load[IdOf(s, TaskOf(s, a))]]
      Swap(b) == IF b = a THEN c ELSE b
      clone == [AtaskClone(s, c, a) EXCEPT
                  !.samp = [i \in DOMAIN @ |-> Swap(@[i])], !.pend = c,
                  !.atask[a].data = Load[IdOf(s, TaskOf(s, a))]]
  IN  IF ElementThis(s, a) # "repeat"
      THEN ScheduleNext([given EXCEPT !.samp = Only(@, AtaskCells \ {a}), !.pend = 0], a)
      ELSE IF c = 0
      THEN ScheduleNext([Report(given, TaskOf(s, a)) EXCEPT !.full = @ \cup {a}], a)
      ELSE ScheduleNext(clone, a)

=============================================================================
