---------------------------- MODULE Tasks_proofs ----------------------------
(***************************************************************************)
(* Proofs about the task core of a mote: for any ids, any chains of        *)
(* elements, any number of cells, any faults unless a theorem's hypotheses *)
(* leave some out.                                                         *)
(***************************************************************************)
EXTENDS Tasks, SequenceTheorems, FiniteSetTheorems, WellFoundedInduction, TLAPS

-----------------------------------------------------------------------------
(* Recursion along a list.                                                 *)

LEMMA Climb ==
  ASSUME NEW n \in Nat, NEW S, 0 \in S, \A k \in 1 .. n : k - 1 \in S => k \in S
  PROVE  0 .. n \subseteq S
<1> DEFINE T == {k \in 0 .. n : k \notin S}
<1> SUFFICES ASSUME T # {}
             PROVE  FALSE
  OBVIOUS
<1>1. PICK k \in T : \A j \in T : <<j, k>> \notin OpToRel(<, Nat)
  <2>1. T \subseteq Nat
    OBVIOUS
  <2> HIDE DEF T
  <2> QED BY <2>1, WFMin, NatLessThanWellFounded, Zenon
<1>2. k \in 1 .. n /\ k \notin S
  OBVIOUS
<1>3. k - 1 \in 0 .. n /\ k - 1 \in Nat /\ k \in Nat /\ k - 1 < k
  BY <1>2
<1>4. k - 1 \in S
  <2> SUFFICES ASSUME k - 1 \in T
               PROVE  FALSE
    BY <1>3
  <2>1. <<k - 1, k>> \in Nat \X Nat /\ <<k - 1, k>>[1] < <<k - 1, k>>[2]
    BY <1>3
  <2> HIDE DEF T
  <2>2. <<k - 1, k>> \in OpToRel(<, Nat)
    BY ONLY <2>1, Zenon DEF OpToRel
  <2> QED BY <1>1, <2>2, Zenon
<1> QED BY <1>2, <1>4

(* A list of members of T keeps to T, and what is empty stays so.           *)
LEMMA OnlyIn ==
  ASSUME NEW T, NEW l \in Seq(T), NEW S
  PROVE  Only(l, S) \in Seq(T) /\ (l = <<>> => Only(l, S) = <<>>)
<1>1. PICK n : n = Len(l)
  OBVIOUS
<1>2. n \in Nat
  BY <1>1
<1> DEFINE At(f, k) == IF k = 0 THEN <<>>
                       ELSE IF l[k] \in S THEN Append(f[k - 1], l[k]) ELSE f[k - 1]
           Upto(f, j) == [k \in 0 .. j |-> At(f, k)]
           R == {j \in 0 .. n : \E f : f = Upto(f, j)}
           out == CHOOSE f : f = Upto(f, n)
<1>3. 0 \in R
  <2>1. PICK f : f = [k \in 0 .. 0 |-> <<>>]
    OBVIOUS
  <2>2. f = Upto(f, 0)
    BY <2>1
  <2> QED BY <1>2, <2>2
<1>4. ASSUME NEW j \in 1 .. n, j - 1 \in R
      PROVE  j \in R
  <2>1. PICK f : f = Upto(f, j - 1)
    BY <1>4
  <2>2. PICK g : g = [k \in 0 .. j |-> At(f, k)]
    OBVIOUS
  <2>3. ASSUME NEW k \in 0 .. j
        PROVE  g[k] = At(g, k)
    <3>1. k # 0 => k - 1 \in 0 .. (j - 1) /\ k - 1 \in 0 .. j
      OBVIOUS
    <3>2. k # 0 => g[k - 1] = f[k - 1]
      BY <2>1, <2>2, <3>1
    <3> QED BY <2>2, <3>2
  <2>4. g = Upto(g, j)
    BY <2>2, <2>3
  <2> HIDE DEF Upto
  <2>5. \E h : h = Upto(h, j)
    BY ONLY <2>4, Zenon
  <2>6. j \in 0 .. n
    BY <1>2
  <2> QED BY ONLY <2>5, <2>6, Zenon
<1> HIDE DEF R
<1>5. n \in R
  <2>1. 0 .. n \subseteq R
    BY ONLY <1>2, <1>3, <1>4, Climb
  <2> QED BY <1>2, <2>1
<1>6. \E f : f = Upto(f, n)
  BY <1>5 DEF R
<1>7. out = Upto(out, n)
  BY <1>6, Zenon
<1> HIDE DEF out
<1>8. Only(l, S) = out[n]
  BY <1>1, Zenon DEF Only, out
<1> DEFINE W == {k \in 0 .. n : out[k] \in Seq(T)}
<1>9. 0 \in W /\ out[0] = <<>>
  BY <1>2, <1>7
<1>10. ASSUME NEW k \in 1 .. n, k - 1 \in W
       PROVE  k \in W
  <2>1. k \in 0 .. n /\ k # 0 /\ l[k] \in T
    BY <1>1
  <2>2. out[k] = At(out, k)
    BY <1>7, <2>1
  <2>3. out[k - 1] \in Seq(T)
    BY <1>10
  <2>4. Append(out[k - 1], l[k]) \in Seq(T)
    BY ONLY <2>1, <2>3, AppendProperties
  <2>5. out[k] \in Seq(T)
    BY ONLY <2>1, <2>2, <2>3, <2>4
  <2> QED BY <2>1, <2>5
<1> HIDE DEF W
<1>11. n \in W
  <2>1. 0 .. n \subseteq W
    BY ONLY <1>2, <1>9, <1>10, Climb
  <2> QED BY <1>2, <2>1
<1>12. l = <<>> => n = 0
  BY <1>1
<1> QED BY <1>8, <1>9, <1>11, <1>12 DEF W

-----------------------------------------------------------------------------
(* The types of the state.                                                  *)

Fields ==
  {"task", "atask", "count", "q", "posted", "installed", "kill", "timers", "samp", "full",
   "pend", "stimer", "adcBusy", "adc", "cut", "handle", "mdata", "str", "sending", "retry",
   "strpop", "pkt", "pretry", "flight", "pktpop", "be", "sneak", "sneakTid", "conn", "tx", "ptx",
   "seen", "wild"}

TaskRec ==
  [busy : BOOLEAN, id : Ids \cup {0}, built : Nat, atasks : Int, sendbusy : BOOLEAN,
   conn : {"none", "opening", "connected", "sending"}, e2busy : BOOLEAN]

(* An active task that has a task has come to an element.                   *)
AtaskOK(v) ==
  /\ DOMAIN v = {"busy", "t", "idx", "data"}
  /\ v.t \in TaskCells \cup {0} /\ v.idx \in Nat
  /\ v.t # 0 => v.idx # 0

(* A task that is there is built of elements of the chain of its id.        *)
TasksOK(task) ==
  /\ task \in [TaskCells -> TaskRec]
  /\ \A t \in TaskCells : task[t].busy =>
       task[t].id \in Ids /\ task[t].built \in 0 .. Len(Chain[task[t].id])

AtasksOK(atask) == DOMAIN atask = AtaskCells /\ \A a \in AtaskCells : AtaskOK(atask[a])

Items == [a : AtaskCells, t : TaskCells, tid : Ids]

Typed(r) ==
  /\ DOMAIN r = Fields
  /\ TasksOK(r.task) /\ AtasksOK(r.atask)
  /\ r.q \in Seq(AtaskCells) /\ r.timers \in Seq(AtaskCells) /\ r.samp \in Seq(AtaskCells)
  /\ r.str \in Seq(AtaskCells) /\ r.pkt \in Seq(AtaskCells)
  /\ r.installed \in Seq(TaskCells) /\ r.kill \in TaskCells \cup {0}
  /\ r.pend \in AtaskCells \cup {0} /\ r.sending \in AtaskCells \cup {0}
  /\ r.retry \in AtaskCells \cup {0} /\ r.pretry \in AtaskCells \cup {0}
  /\ r.flight \in Seq(Items)
  /\ r.adc \in Seq(AtaskCells \cup {0}) /\ r.handle \in Nat

(* From r to d nothing has begun to wait for the ADC, for the stream         *)
(* transport, for the packet transport, and all that was to come for what   *)
(* waits is still to come, but for a conversion that ADC.stop has ended.    *)
SampStill(r, d) ==
  /\ d.adcBusy = r.adcBusy /\ d.handle = r.handle /\ d.stimer = r.stimer
  /\ d.cut \/ d.adc = r.adc
  /\ r.cut => d.cut
  /\ r.samp = <<>> => d.samp = <<>>

StrStill(r, d) ==
  /\ d.tx = r.tx /\ d.sending \in {0, r.sending} /\ d.retry \in {0, r.retry}
  /\ r.str = <<>> => d.str = <<>>
  /\ r.strpop => d.strpop

PktStill(r, d) ==
  /\ d.ptx = r.ptx /\ d.be = r.be /\ d.flight = r.flight /\ d.pretry \in {0, r.pretry}
  /\ r.pkt = <<>> => d.pkt = <<>>
  /\ r.pktpop => d.pktpop

Quiet(r, d) == SampStill(r, d) /\ StrStill(r, d) /\ PktStill(r, d)

Goes(r, d) == Typed(d) /\ Quiet(r, d)

(* d differs from r in the fields F only.                                   *)
Else(d, r, F) == DOMAIN d = Fields /\ \A f \in Fields \ F : d[f] = r[f]

LEMMA Stays ==
  ASSUME NEW r, Typed(r)
  PROVE  Goes(r, r)
BY DEF Goes, Quiet, SampStill, StrStill, PktStill

LEMMA GoesOn ==
  ASSUME NEW r, NEW d, NEW e, Goes(r, d), Goes(d, e)
  PROVE  Goes(r, e)
BY DEF Goes, Quiet, SampStill, StrStill, PktStill

(* What is left to show of a state that differs in some fields.             *)
LEMMA TypeKept ==
  ASSUME NEW r, NEW d, NEW F, Typed(r), Else(d, r, F),
         "task" \in F => TasksOK(d.task), "atask" \in F => AtasksOK(d.atask),
         "q" \in F => d.q \in Seq(AtaskCells), "timers" \in F => d.timers \in Seq(AtaskCells),
         "samp" \in F => d.samp \in Seq(AtaskCells), "str" \in F => d.str \in Seq(AtaskCells),
         "pkt" \in F => d.pkt \in Seq(AtaskCells),
         "installed" \in F => d.installed \in Seq(TaskCells),
         "kill" \in F => d.kill \in TaskCells \cup {0},
         "pend" \in F => d.pend \in AtaskCells \cup {0},
         "sending" \in F => d.sending \in AtaskCells \cup {0},
         "retry" \in F => d.retry \in AtaskCells \cup {0},
         "pretry" \in F => d.pretry \in AtaskCells \cup {0},
         "flight" \in F => d.flight \in Seq(Items),
         "adc" \in F => d.adc \in Seq(AtaskCells \cup {0}), "handle" \in F => d.handle \in Nat
  PROVE  Typed(d)
<1>1. \A f \in Fields : f \in F \/ d[f] = r[f]
  BY DEF Else
<1>2. /\ "task" \in F \/ d.task = r.task
      /\ "atask" \in F \/ d.atask = r.atask
      /\ "q" \in F \/ d.q = r.q
      /\ "timers" \in F \/ d.timers = r.timers
      /\ "samp" \in F \/ d.samp = r.samp
      /\ "str" \in F \/ d.str = r.str
      /\ "pkt" \in F \/ d.pkt = r.pkt
      /\ "installed" \in F \/ d.installed = r.installed
      /\ "kill" \in F \/ d.kill = r.kill
      /\ "pend" \in F \/ d.pend = r.pend
      /\ "sending" \in F \/ d.sending = r.sending
      /\ "retry" \in F \/ d.retry = r.retry
      /\ "pretry" \in F \/ d.pretry = r.pretry
      /\ "flight" \in F \/ d.flight = r.flight
      /\ "adc" \in F \/ d.adc = r.adc
      /\ "handle" \in F \/ d.handle = r.handle
  BY ONLY <1>1 DEF Fields
<1>3. DOMAIN d = Fields /\ TasksOK(d.task) /\ AtasksOK(d.atask)
  BY <1>2, Zenon DEF Typed, Else
<1>4. /\ d.q \in Seq(AtaskCells) /\ d.timers \in Seq(AtaskCells)
      /\ d.samp \in Seq(AtaskCells) /\ d.str \in Seq(AtaskCells)
      /\ d.pkt \in Seq(AtaskCells)
  BY <1>2, Zenon DEF Typed
<1>5. /\ d.installed \in Seq(TaskCells) /\ d.kill \in TaskCells \cup {0}
      /\ d.pend \in AtaskCells \cup {0} /\ d.sending \in AtaskCells \cup {0}
      /\ d.retry \in AtaskCells \cup {0} /\ d.pretry \in AtaskCells \cup {0}
  BY <1>2, Zenon DEF Typed
<1>6. /\ d.flight \in Seq(Items) /\ d.adc \in Seq(AtaskCells \cup {0})
      /\ d.handle \in Nat
  BY <1>2, Zenon DEF Typed
<1> QED BY <1>3, <1>4, <1>5, <1>6, Zenon DEF Typed

(* The fields of which Quiet speaks.                                        *)
Loud == {"adc", "cut", "adcBusy", "handle", "stimer", "tx", "ptx", "be", "flight"}

LEMMA QuietKept ==
  ASSUME NEW r, NEW d, NEW F, Else(d, r, F), F \cap Loud = {},
         "samp" \in F => (r.samp = <<>> => d.samp = <<>>),
         "str" \in F => (r.str = <<>> => d.str = <<>>),
         "pkt" \in F => (r.pkt = <<>> => d.pkt = <<>>),
         "sending" \in F => d.sending \in {0, r.sending},
         "retry" \in F => d.retry \in {0, r.retry},
         "pretry" \in F => d.pretry \in {0, r.pretry},
         "strpop" \in F => (r.strpop => d.strpop), "pktpop" \in F => (r.pktpop => d.pktpop)
  PROVE  Quiet(r, d)
<1>1. \A f \in Fields : f \in F \/ d[f] = r[f]
  BY DEF Else
<1>2. /\ "samp" \in F \/ d.samp = r.samp
      /\ "str" \in F \/ d.str = r.str
      /\ "pkt" \in F \/ d.pkt = r.pkt
      /\ "sending" \in F \/ d.sending = r.sending
      /\ "retry" \in F \/ d.retry = r.retry
      /\ "pretry" \in F \/ d.pretry = r.pretry
      /\ "strpop" \in F \/ d.strpop = r.strpop
      /\ "pktpop" \in F \/ d.pktpop = r.pktpop
      /\ "adc" \in F \/ d.adc = r.adc
      /\ "cut" \in F \/ d.cut = r.cut
      /\ "adcBusy" \in F \/ d.adcBusy = r.adcBusy
      /\ "handle" \in F \/ d.handle = r.handle
      /\ "stimer" \in F \/ d.stimer = r.stimer
      /\ "tx" \in F \/ d.tx = r.tx
      /\ "ptx" \in F \/ d.ptx = r.ptx
      /\ "be" \in F \/ d.be = r.be
      /\ "flight" \in F \/ d.flight = r.flight
  BY ONLY <1>1 DEF Fields
<1>3. /\ d.adc = r.adc /\ d.cut = r.cut /\ d.adcBusy = r.adcBusy /\ d.handle = r.handle
      /\ d.stimer = r.stimer /\ d.tx = r.tx /\ d.ptx = r.ptx /\ d.be = r.be
      /\ d.flight = r.flight
  BY <1>2 DEF Loud
<1> QED BY <1>2, <1>3 DEF Quiet, SampStill, StrStill, PktStill

LEMMA FirstFreeIn ==
  ASSUME NEW n, NEW cells, DOMAIN cells = 1 .. n
  PROVE  FirstFree(cells) \in (1 .. n) \cup {0}
BY DEF FirstFree

-----------------------------------------------------------------------------
(* Cells.                                                                   *)

(* One cell is replaced by another that is of the same task.                *)
LEMMA TaskPut ==
  ASSUME NEW task, NEW t, NEW v, TasksOK(task), v \in TaskRec,
         v.busy => v.id \in Ids /\ v.built \in 0 .. Len(Chain[v.id])
  PROVE  TasksOK([task EXCEPT ![t] = v])
<1>1. PICK new : new = [task EXCEPT ![t] = v]
  OBVIOUS
<1>2. task \in [TaskCells -> TaskRec]
  BY DEF TasksOK
<1>3. new \in [TaskCells -> TaskRec]
  BY ONLY <1>1, <1>2, v \in TaskRec
<1>4. \A u \in TaskCells : new[u] = v \/ new[u] = task[u]
  BY ONLY <1>1, <1>2
<1> HIDE <1>1
<1>5. ASSUME NEW u \in TaskCells, new[u].busy
      PROVE  new[u].id \in Ids /\ new[u].built \in 0 .. Len(Chain[new[u].id])
  BY <1>4, <1>5 DEF TasksOK
<1> QED BY <1>1, <1>3, <1>5 DEF TasksOK

LEMMA TaskFields ==
  ASSUME NEW task, NEW t \in TaskCells, TasksOK(task)
  PROVE  /\ \A n \in Int : TasksOK([task EXCEPT ![t].atasks = n])
         /\ \A b \in BOOLEAN : TasksOK([task EXCEPT ![t].sendbusy = b])
         /\ \A b \in BOOLEAN : TasksOK([task EXCEPT ![t].e2busy = b])
         /\ \A c \in {"none", "opening", "connected", "sending"} :
              TasksOK([task EXCEPT ![t].conn = c])
         /\ TasksOK([task EXCEPT ![t].busy = FALSE])
<1>1. PICK v : v = task[t]
  OBVIOUS
<1>2. v \in TaskRec /\ (v.busy => v.id \in Ids /\ v.built \in 0 .. Len(Chain[v.id]))
  BY <1>1 DEF TasksOK
<1>3. ASSUME NEW n \in Int
      PROVE  TasksOK([task EXCEPT ![t].atasks = n])
  <2>1. PICK w : w = [v EXCEPT !.atasks = n]
    OBVIOUS
  <2>2. w \in TaskRec /\ w.busy = v.busy /\ w.id = v.id /\ w.built = v.built
    BY <1>2, <2>1 DEF TaskRec
  <2>3. TasksOK([task EXCEPT ![t] = w])
    BY <1>2, <2>2, TaskPut
  <2> QED BY <1>1, <2>1, <2>3
<1>4. ASSUME NEW b \in BOOLEAN
      PROVE  TasksOK([task EXCEPT ![t].sendbusy = b])
  <2>1. PICK w : w = [v EXCEPT !.sendbusy = b]
    OBVIOUS
  <2>2. w \in TaskRec /\ w.busy = v.busy /\ w.id = v.id /\ w.built = v.built
    BY <1>2, <2>1 DEF TaskRec
  <2>3. TasksOK([task EXCEPT ![t] = w])
    BY <1>2, <2>2, TaskPut
  <2> QED BY <1>1, <2>1, <2>3
<1>5. ASSUME NEW b \in BOOLEAN
      PROVE  TasksOK([task EXCEPT ![t].e2busy = b])
  <2>1. PICK w : w = [v EXCEPT !.e2busy = b]
    OBVIOUS
  <2>2. w \in TaskRec /\ w.busy = v.busy /\ w.id = v.id /\ w.built = v.built
    BY <1>2, <2>1 DEF TaskRec
  <2>3. TasksOK([task EXCEPT ![t] = w])
    BY <1>2, <2>2, TaskPut
  <2> QED BY <1>1, <2>1, <2>3
<1>6. ASSUME NEW c \in {"none", "opening", "connected", "sending"}
      PROVE  TasksOK([task EXCEPT ![t].conn = c])
  <2>1. PICK w : w = [v EXCEPT !.conn = c]
    OBVIOUS
  <2>2. w \in TaskRec /\ w.busy = v.busy /\ w.id = v.id /\ w.built = v.built
    BY <1>2, <2>1 DEF TaskRec
  <2>3. TasksOK([task EXCEPT ![t] = w])
    BY <1>2, <2>2, TaskPut
  <2> QED BY <1>1, <2>1, <2>3
<1>7. TasksOK([task EXCEPT ![t].busy = FALSE])
  <2>1. PICK w : w = [v EXCEPT !.busy = FALSE]
    OBVIOUS
  <2>2. w \in TaskRec /\ ~w.busy
    BY <1>2, <2>1 DEF TaskRec
  <2>3. TasksOK([task EXCEPT ![t] = w])
    BY <2>2, TaskPut
  <2> QED BY <1>1, <2>1, <2>3
<1> QED BY <1>3, <1>4, <1>5, <1>6, <1>7

LEMMA AtaskPut ==
  ASSUME NEW atask, NEW a, NEW v, AtasksOK(atask), AtaskOK(v)
  PROVE  AtasksOK([atask EXCEPT ![a] = v])
BY DEF AtasksOK

LEMMA AtaskFields ==
  ASSUME NEW atask, NEW a \in AtaskCells, AtasksOK(atask)
  PROVE  /\ \A n : AtasksOK([atask EXCEPT ![a].data = n])
         /\ AtasksOK([atask EXCEPT ![a].idx = @ + 1])
         /\ AtasksOK([atask EXCEPT ![a].t = 0])
         /\ AtasksOK([atask EXCEPT ![a].busy = FALSE, ![a].data = 0])
<1>1. PICK v : v = atask[a]
  OBVIOUS
<1>2. AtaskOK(v)
  BY <1>1 DEF AtasksOK
<1>3. ASSUME NEW n
      PROVE  AtasksOK([atask EXCEPT ![a].data = n])
  <2>1. PICK w : w = [v EXCEPT !.data = n]
    OBVIOUS
  <2>2. AtaskOK(w)
    BY <1>2, <2>1 DEF AtaskOK
  <2>3. AtasksOK([atask EXCEPT ![a] = w])
    BY <2>2, AtaskPut
  <2> QED BY <1>1, <2>1, <2>3
<1>4. AtasksOK([atask EXCEPT ![a].idx = @ + 1])
  <2>1. PICK w : w = [v EXCEPT !.idx = v.idx + 1]
    OBVIOUS
  <2>2. AtaskOK(w)
    BY <1>2, <2>1 DEF AtaskOK
  <2>3. AtasksOK([atask EXCEPT ![a] = w])
    BY <2>2, AtaskPut
  <2> QED BY <1>1, <2>1, <2>3
<1>5. AtasksOK([atask EXCEPT ![a].t = 0])
  <2>1. PICK w : w = [v EXCEPT !.t = 0]
    OBVIOUS
  <2>2. AtaskOK(w)
    BY <1>2, <2>1 DEF AtaskOK
  <2>3. AtasksOK([atask EXCEPT ![a] = w])
    BY <2>2, AtaskPut
  <2> QED BY <1>1, <2>1, <2>3
<1>6. AtasksOK([atask EXCEPT ![a].busy = FALSE, ![a].data = 0])
  <2>1. PICK w : w = [v EXCEPT !.busy = FALSE, !.data = 0]
    OBVIOUS
  <2>2. AtaskOK(w)
    BY <1>2, <2>1 DEF AtaskOK
  <2>3. AtasksOK([atask EXCEPT ![a] = w])
    BY <2>2, AtaskPut
  <2>4. [atask EXCEPT ![a].busy = FALSE, ![a].data = 0] = [atask EXCEPT ![a] = w]
    BY <1>1, <2>1 DEF AtasksOK
  <2> QED BY <2>3, <2>4
<1> QED BY <1>3, <1>4, <1>5, <1>6

(* What an active task, and its task, are.                                  *)
LEMMA CellTypes ==
  ASSUME NEW r, Typed(r)
  PROVE  /\ \A a \in AtaskCells : /\ AtaskOK(r.atask[a])
                                  /\ r.atask[a].t \in TaskCells \cup {0}
         /\ \A t \in TaskCells : r.task[t] \in TaskRec /\ r.task[t].atasks \in Int
         /\ 0 \notin TaskCells /\ 0 \notin AtaskCells
<1>1. (\A a \in AtaskCells : AtaskOK(r.atask[a])) /\ r.task \in [TaskCells -> TaskRec]
  BY DEF Typed, TasksOK, AtasksOK
<1>2. /\ \A v : AtaskOK(v) => v.t \in TaskCells \cup {0}
      /\ \A v \in TaskRec : v.atasks \in Int
  BY DEF TaskRec, AtaskOK
<1>3. 0 \notin TaskCells /\ 0 \notin AtaskCells
  BY DEF TaskCells, AtaskCells
<1> QED BY <1>1, <1>2, <1>3

LEMMA AtaskDeleteGoes ==
  ASSUME NEW r, NEW a \in AtaskCells \cup {0}, Typed(r)
  PROVE  Goes(r, AtaskDelete(r, a))
<1>1. CASE a = 0
  BY <1>1, Stays DEF AtaskDelete
<1>2. CASE a # 0
  <2>1. PICK t : t = r.atask[a].t
    OBVIOUS
  <2>2. PICK d : d = AtaskDelete(r, a)
    OBVIOUS
  <2>3. a \in AtaskCells /\ t \in TaskCells \cup {0} /\ DOMAIN r = Fields
    BY <1>2, <2>1, CellTypes DEF Typed
  <2>4. PICK freed : freed = [r EXCEPT !.atask[a].busy = FALSE, !.atask[a].data = 0,
                                       !.count = @ - 1]
    OBVIOUS
  <2>5. /\ Else(freed, r, {"atask", "count"})
        /\ freed.atask = [r.atask EXCEPT ![a].busy = FALSE, ![a].data = 0]
    BY <2>3, <2>4 DEF Else, Fields
  <2>6. AtasksOK(freed.atask)
    <3>1. AtasksOK(r.atask)
      BY DEF Typed
    <3>2. AtasksOK([r.atask EXCEPT ![a].busy = FALSE, ![a].data = 0])
      BY <2>3, <3>1, AtaskFields, Zenon
    <3> QED BY ONLY <2>5, <3>2, Zenon
  <2>7. CASE t = 0
    <3>1. d = freed
      BY <1>2, <2>1, <2>2, <2>4, <2>7 DEF AtaskDelete
    <3>2. Typed(d)
      BY <2>5, <2>6, <3>1, TypeKept
    <3>3. Quiet(r, d)
      BY <2>5, <3>1, QuietKept DEF Loud
    <3> QED BY <2>2, <3>2, <3>3 DEF Goes
  <2>8. CASE t # 0
    <3>1. d = [freed EXCEPT !.task[t].atasks = @ - 1]
      BY <1>2, <2>1, <2>2, <2>4, <2>8 DEF AtaskDelete
    <3>2. PICK n : n = r.task[t].atasks - 1
      OBVIOUS
    <3>3. n \in Int /\ t \in TaskCells /\ freed.task = r.task
      BY <2>3, <2>5, <2>8, <3>2, CellTypes DEF Else, Fields
    <3>4. /\ Else(d, r, {"atask", "count", "task"}) /\ d.atask = freed.atask
          /\ d.task = [r.task EXCEPT ![t].atasks = n]
      BY <2>5, <3>1, <3>2, <3>3 DEF Else, Fields
    <3>5. TasksOK(d.task)
      <4>1. TasksOK(r.task)
        BY DEF Typed
      <4>2. TasksOK([r.task EXCEPT ![t].atasks = n])
        BY <3>3, <4>1, TaskFields, Zenon
      <4> QED BY ONLY <3>4, <4>2, Zenon
    <3>6. Typed(d)
      BY <2>6, <3>4, <3>5, TypeKept
    <3>7. Quiet(r, d)
      BY <3>4, QuietKept DEF Loud
    <3> QED BY <2>2, <3>6, <3>7 DEF Goes
  <2> QED BY <2>7, <2>8
<1> QED BY <1>1, <1>2

LEMMA AtaskNewGoes ==
  ASSUME NEW r, NEW a \in AtaskCells, NEW t \in TaskCells, Typed(r)
  PROVE  Goes(r, AtaskNew(r, a, t))
<1>1. PICK d : d = AtaskNew(r, a, t)
  OBVIOUS
<1>2. PICK v, n : v = [busy |-> TRUE, t |-> t, idx |-> 1, data |-> 0] /\ n = r.task[t].atasks + 1
  OBVIOUS
<1>3. AtaskOK(v) /\ n \in Int
  BY <1>2, CellTypes DEF AtaskOK
<1>4. /\ Else(d, r, {"atask", "count", "task"}) /\ d.atask = [r.atask EXCEPT ![a] = v]
      /\ d.task = [r.task EXCEPT ![t].atasks = n]
  BY <1>1, <1>2 DEF AtaskNew, Typed, Else, Fields
<1>5. AtasksOK(d.atask) /\ TasksOK(d.task)
  <2>1. AtasksOK(r.atask) /\ TasksOK(r.task)
    BY DEF Typed
  <2>2. AtasksOK([r.atask EXCEPT ![a] = v])
    BY ONLY <1>3, <2>1, AtaskPut
  <2>3. TasksOK([r.task EXCEPT ![t].atasks = n])
    BY <1>3, <2>1, TaskFields, Zenon
  <2> QED BY ONLY <1>4, <2>2, <2>3, Zenon
<1>6. Typed(d)
  BY <1>4, <1>5, TypeKept
<1>7. Quiet(r, d)
  BY <1>4, QuietKept DEF Loud
<1> QED BY <1>1, <1>6, <1>7 DEF Goes

LEMMA AtaskCloneGoes ==
  ASSUME NEW r, NEW a \in AtaskCells, NEW o \in AtaskCells, Typed(r), r.atask[o].t # 0
  PROVE  Goes(r, AtaskClone(r, a, o))
<1>1. PICK d : d = AtaskClone(r, a, o)
  OBVIOUS
<1>2. PICK v, t, n : v = r.atask[o] /\ t = v.t /\ n = r.task[t].atasks + 1
  OBVIOUS
<1>3. AtaskOK(v) /\ n \in Int /\ t \in TaskCells
  <2>1. AtaskOK(v) /\ t \in TaskCells \cup {0} /\ t # 0
    BY <1>2, CellTypes
  <2>2. n \in Int
    BY <1>2, <2>1, CellTypes
  <2> QED BY <2>1, <2>2
<1>4. /\ Else(d, r, {"atask", "count", "task"}) /\ d.atask = [r.atask EXCEPT ![a] = v]
      /\ d.task = [r.task EXCEPT ![t].atasks = n]
  BY <1>1, <1>2 DEF AtaskClone, Typed, Else, Fields
<1>5. AtasksOK(d.atask) /\ TasksOK(d.task)
  <2>1. AtasksOK(r.atask) /\ TasksOK(r.task)
    BY DEF Typed
  <2>2. AtasksOK([r.atask EXCEPT ![a] = v])
    BY ONLY <1>3, <2>1, AtaskPut
  <2>3. TasksOK([r.task EXCEPT ![t].atasks = n])
    BY <1>3, <2>1, TaskFields, Zenon
  <2> QED BY ONLY <1>4, <2>2, <2>3, Zenon
<1>6. Typed(d)
  BY <1>4, <1>5, TypeKept
<1>7. Quiet(r, d)
  BY <1>4, QuietKept DEF Loud
<1> QED BY <1>1, <1>6, <1>7 DEF Goes

(* A report may be made, and a task be marked to be killed.                 *)
LEMMA ReportGoes ==
  ASSUME NEW r, NEW x, Typed(r)
  PROVE  Goes(r, ReportId(r, x)) /\ Goes(r, Report(r, x))
<1>1. ASSUME NEW y
      PROVE  Goes(r, ReportId(r, y))
  <2>1. CASE r.sneak # "idle"
    BY <2>1, Stays DEF ReportId
  <2>2. CASE r.sneak = "idle"
    <3>1. PICK d : d = [r EXCEPT !.sneak = "pending", !.sneakTid = y, !.pktpop = TRUE]
      OBVIOUS
    <3>2. Else(d, r, {"sneak", "sneakTid", "pktpop"}) /\ d.pktpop
      BY <3>1 DEF Typed, Else, Fields
    <3>3. Typed(d)
      BY <3>2, TypeKept
    <3>4. Quiet(r, d)
      BY <3>2, QuietKept DEF Loud
    <3> QED BY <2>2, <3>1, <3>3, <3>4 DEF Goes, ReportId
  <2> QED BY <2>1, <2>2
<1> QED BY <1>1, Stays DEF Report

LEMMA KillGoes ==
  ASSUME NEW r, NEW t \in TaskCells \cup {0}, Typed(r)
  PROVE  Goes(r, Kill(r, t))
<1>1. CASE t = 0
  BY <1>1, Stays DEF Kill
<1>2. CASE t # 0
  <2>1. PICK e : e = Report(r, t)
    OBVIOUS
  <2>2. Goes(r, e) /\ Typed(e)
    BY <2>1, ReportGoes DEF Goes
  <2>3. PICK d : d = [e EXCEPT !.kill = IF @ = 0 THEN t ELSE @]
    OBVIOUS
  <2>4. Else(d, e, {"kill"}) /\ d.kill \in {t, e.kill}
    BY <2>2, <2>3 DEF Typed, Else, Fields
  <2>5. d.kill \in TaskCells \cup {0}
    BY <2>2, <2>4 DEF Typed
  <2>6. Typed(d)
    BY <2>2, <2>4, <2>5, TypeKept
  <2>7. Quiet(e, d)
    BY <2>4, QuietKept DEF Loud
  <2>8. Goes(r, d)
    BY <2>2, <2>6, <2>7, GoesOn DEF Goes
  <2> QED BY <1>2, <2>1, <2>3, <2>8 DEF Kill
<1> QED BY <1>1, <1>2

LEMMA WildGoes ==
  ASSUME NEW r, Typed(r)
  PROVE  Goes(r, Wild(r))
<1>1. PICK d : d = Wild(r)
  OBVIOUS
<1>2. Else(d, r, {"wild"})
  BY <1>1 DEF Wild, Typed, Else, Fields
<1>3. Typed(d)
  BY <1>2, TypeKept
<1>4. Quiet(r, d)
  BY <1>2, QuietKept DEF Loud
<1> QED BY <1>1, <1>3, <1>4 DEF Goes

-----------------------------------------------------------------------------
(* The end of tasks and of active tasks.                                    *)

(* The list f of r is gone through, and d is what is left.                  *)
LEMMA RemoveTaskSteps ==
  ASSUME NEW r, NEW f, NEW t, r[f] \in Seq(AtaskCells)
  PROVE  \E out :
           /\ out[0] = r
           /\ \A k \in 1 .. Len(r[f]) :
                out[k] = IF r[f][k] \in Walks(r, t)
                         THEN AtaskDelete(out[k - 1], r[f][k]) ELSE out[k - 1]
           /\ RemoveTask(r, f, t)
                = [out[Len(r[f])] EXCEPT ![f] = Only(@, AtaskCells \ Walks(r, t))]
<1>1. PICK n \in Nat : n = Len(r[f])
  BY LenProperties
<1>2. n \in Nat
  OBVIOUS
<1> DEFINE At(g, k) == IF k = 0 THEN r
                       ELSE IF r[f][k] \in Walks(r, t)
                       THEN AtaskDelete(g[k - 1], r[f][k]) ELSE g[k - 1]
           Upto(g, j) == [k \in 0 .. j |-> At(g, k)]
           R == {j \in 0 .. n : \E g : g = Upto(g, j)}
           out == CHOOSE g : g = Upto(g, n)
<1>3. 0 \in R
  <2>1. PICK g : g = [k \in 0 .. 0 |-> r]
    OBVIOUS
  <2>2. g = Upto(g, 0)
    BY <2>1
  <2> HIDE DEF Upto
  <2>3. \E h : h = Upto(h, 0)
    BY ONLY <2>2, Zenon
  <2> QED BY <1>2, <2>3
<1>4. ASSUME NEW j \in 1 .. n, j - 1 \in R
      PROVE  j \in R
  <2>1. PICK g : g = Upto(g, j - 1)
    BY <1>4
  <2>2. PICK h : h = [k \in 0 .. j |-> At(g, k)]
    OBVIOUS
  <2>3. ASSUME NEW k \in 0 .. j
        PROVE  h[k] = At(h, k)
    <3>1. k # 0 => k - 1 \in 0 .. (j - 1) /\ k - 1 \in 0 .. j
      OBVIOUS
    <3>2. k # 0 => h[k - 1] = g[k - 1]
      BY <2>1, <2>2, <3>1
    <3> QED BY <2>2, <3>2
  <2>4. h = Upto(h, j)
    BY <2>2, <2>3
  <2> HIDE DEF Upto
  <2>5. \E x : x = Upto(x, j)
    BY ONLY <2>4, Zenon
  <2>6. j \in 0 .. n
    BY <1>2
  <2> QED BY ONLY <2>5, <2>6, Zenon
<1> HIDE DEF R
<1>5. n \in R
  <2>1. 0 .. n \subseteq R
    BY ONLY <1>2, <1>3, <1>4, Climb
  <2> QED BY <1>2, <2>1
<1>6. \E g : g = Upto(g, n)
  BY <1>5 DEF R
<1>7. out = Upto(out, n)
  BY <1>6, Zenon
<1> HIDE DEF out
<1>8. RemoveTask(r, f, t) = [out[n] EXCEPT ![f] = Only(@, AtaskCells \ Walks(r, t))]
  BY <1>1, Zenon DEF RemoveTask, out
<1>9. out[0] = r
  BY <1>2, <1>7
<1>10. ASSUME NEW k \in 1 .. n
       PROVE  out[k] = IF r[f][k] \in Walks(r, t)
                       THEN AtaskDelete(out[k - 1], r[f][k]) ELSE out[k - 1]
  <2>1. k \in 0 .. n /\ k # 0
    OBVIOUS
  <2>2. out[k] = At(out, k)
    BY <1>7, <2>1
  <2> QED BY ONLY <2>1, <2>2
<1> HIDE DEF At, Upto
<1> QED BY <1>1, <1>8, <1>9, <1>10

LEMMA RemoveTaskGoes ==
  ASSUME NEW r, NEW f \in {"q", "timers", "samp", "str", "pkt"}, NEW t, Typed(r)
  PROVE  Goes(r, RemoveTask(r, f, t))
<1>1. r[f] \in Seq(AtaskCells)
  BY DEF Typed
<1>2. PICK n \in Nat : n = Len(r[f])
  BY <1>1
<1>3. PICK out :
        /\ out[0] = r
        /\ \A k \in 1 .. Len(r[f]) :
             out[k] = IF r[f][k] \in Walks(r, t)
                      THEN AtaskDelete(out[k - 1], r[f][k]) ELSE out[k - 1]
        /\ RemoveTask(r, f, t)
             = [out[Len(r[f])] EXCEPT ![f] = Only(@, AtaskCells \ Walks(r, t))]
  BY <1>1, RemoveTaskSteps
<1> DEFINE W == {k \in 0 .. n : Goes(r, out[k])}
<1>4. 0 \in W
  BY <1>2, <1>3, Stays
<1>5. ASSUME NEW k \in 1 .. n, k - 1 \in W
      PROVE  k \in W
  <2>1. k \in 0 .. n /\ Goes(r, out[k - 1]) /\ r[f][k] \in AtaskCells
    BY <1>1, <1>2, <1>5
  <2>2. out[k] = AtaskDelete(out[k - 1], r[f][k]) \/ out[k] = out[k - 1]
    BY <1>2, <1>3
  <2>3. Goes(out[k - 1], AtaskDelete(out[k - 1], r[f][k]))
    BY <2>1, AtaskDeleteGoes DEF Goes
  <2>4. Goes(r, out[k])
    BY ONLY <2>1, <2>2, <2>3, GoesOn
  <2> QED BY <2>1, <2>4
<1> HIDE DEF W
<1>6. n \in W
  <2>1. 0 .. n \subseteq W
    BY ONLY <1>2, <1>4, <1>5, Climb
  <2> QED BY <1>2, <2>1
<1>7. PICK e : e = out[n] /\ Goes(r, e)
  BY <1>6 DEF W
<1>8. PICK d : d = [e EXCEPT ![f] = Only(e[f], AtaskCells \ Walks(r, t))]
  OBVIOUS
<1>9. Typed(e)
  BY <1>7 DEF Goes
<1>10. Else(d, e, {f}) /\ d[f] = Only(e[f], AtaskCells \ Walks(r, t))
  BY <1>8, <1>9 DEF Typed, Else, Fields
<1>11. d[f] \in Seq(AtaskCells) /\ (e[f] = <<>> => d[f] = <<>>)
  <2>1. e[f] \in Seq(AtaskCells)
    BY <1>9 DEF Typed
  <2> QED BY ONLY <1>10, <2>1, OnlyIn
<1>12. Typed(d)
  BY <1>9, <1>10, <1>11, TypeKept
<1>13. Quiet(e, d)
  BY <1>10, <1>11, QuietKept DEF Loud
<1>14. RemoveTask(r, f, t) = d
  BY <1>2, <1>3, <1>7, <1>8
<1> QED BY <1>7, <1>12, <1>13, <1>14, GoesOn DEF Goes

LEMMA CloseGoes ==
  ASSUME NEW r, NEW t \in TaskCells, Typed(r)
  PROVE  Goes(r, CloseConnection(r, t))
<1>1. CASE r.task[t].conn = "none"
  BY <1>1, Stays DEF CloseConnection
<1>2. CASE r.task[t].conn # "none"
  <2>1. PICK d : d = CloseConnection(r, t)
    OBVIOUS
  <2>2. Else(d, r, {"conn", "task"}) /\ d.task = [r.task EXCEPT ![t].conn = "none"]
    BY <1>2, <2>1 DEF CloseConnection, Typed, Else, Fields
  <2>3. TasksOK(d.task)
    <3>1. TasksOK(r.task)
      BY DEF Typed
    <3>2. TasksOK([r.task EXCEPT ![t].conn = "none"])
      BY <3>1, TaskFields, Zenon
    <3> QED BY ONLY <2>2, <3>2, Zenon
  <2>4. Typed(d)
    BY <2>2, <2>3, TypeKept
  <2>5. Quiet(r, d)
    BY <2>2, QuietKept DEF Loud
  <2> QED BY <2>1, <2>4, <2>5 DEF Goes
<1> QED BY <1>1, <1>2

LEMMA DroppedGoes ==
  ASSUME NEW r, NEW f \in {"sending", "retry", "pretry"}, NEW t, Typed(r)
  PROVE  Goes(r, Dropped(r, f, t))
<1>1. CASE ~(r[f] # 0 /\ TaskOf(r, r[f]) = t)
  BY <1>1, Stays DEF Dropped
<1>2. CASE r[f] # 0 /\ TaskOf(r, r[f]) = t
  <2>1. PICK e : e = AtaskDelete(r, r[f])
    OBVIOUS
  <2>2. r[f] \in AtaskCells \cup {0}
    BY DEF Typed
  <2>3. Goes(r, e) /\ Typed(e)
    BY <2>1, <2>2, AtaskDeleteGoes DEF Goes
  <2>4. PICK d : d = [e EXCEPT ![f] = 0]
    OBVIOUS
  <2>5. Else(d, e, {f}) /\ d[f] = 0
    BY <2>3, <2>4 DEF Typed, Else, Fields
  <2>6. Typed(d)
    BY <2>3, <2>5, TypeKept
  <2>7. Quiet(e, d)
    BY <2>5, QuietKept DEF Loud
  <2>8. Dropped(r, f, t) = d
    BY <1>2, <2>1, <2>4 DEF Dropped
  <2> QED BY <2>3, <2>6, <2>7, <2>8, GoesOn DEF Goes
<1> QED BY <1>1, <1>2

(* remove_task of Sample.nc, which is also called with the task of an active*)
(* task that has none.                                                      *)
LEMMA RemovedGoes ==
  ASSUME NEW r, NEW t, Typed(r)
  PROVE  Goes(r, SampleRemove(r, t))
<1>1. PICK a : a = RemoveTask(r, "samp", t)
  OBVIOUS
<1>2. Goes(r, a) /\ Typed(a)
  BY <1>1, RemoveTaskGoes DEF Goes
<1>3. PICK d : d = SampleRemove(r, t)
  OBVIOUS
<1>4. Else(d, a, {"full", "pend"}) /\ d.pend \in {0, a.pend}
  BY <1>1, <1>2, <1>3 DEF SampleRemove, Typed, Else, Fields
<1>5. d.pend \in AtaskCells \cup {0}
  BY <1>2, <1>4 DEF Typed
<1>6. Typed(d)
  BY <1>2, <1>4, <1>5, TypeKept
<1>7. Quiet(a, d)
  BY <1>4, QuietKept DEF Loud
<1> QED BY <1>2, <1>3, <1>6, <1>7, GoesOn DEF Goes

(* ADC.stop ends what is under way.                                         *)
LEMMA AdcStopGoes ==
  ASSUME NEW r, Typed(r)
  PROVE  Goes(r, AdcStop(r)) /\ Else(AdcStop(r), r, {"adc", "cut"})
<1>1. CASE AdcStop(r) = r
  BY <1>1, Stays DEF Else, Typed
<1>2. CASE AdcStop(r) # r
  <2>1. PICK d : d = [r EXCEPT !.adc = <<>>, !.cut = TRUE]
    OBVIOUS
  <2>2. AdcStop(r) = d
    BY <1>2, <2>1 DEF AdcStop
  <2>3. Else(d, r, {"adc", "cut"}) /\ d.adc = <<>> /\ d.cut
    BY <2>1 DEF Typed, Else, Fields
  <2>4. Typed(d)
    <3>1. d.adc \in Seq(AtaskCells \cup {0})
      BY <2>3
    <3>2. "adc" \in {"adc", "cut"}
      OBVIOUS
    <3> QED BY <2>3, <3>1, <3>2, TypeKept
  <2>5. \A f \in Fields : f \in {"adc", "cut"} \/ d[f] = r[f]
    BY <2>3 DEF Else
  <2>6. /\ d.samp = r.samp /\ d.adcBusy = r.adcBusy /\ d.handle = r.handle
        /\ d.stimer = r.stimer
        /\ d.str = r.str /\ d.strpop = r.strpop /\ d.sending = r.sending
        /\ d.retry = r.retry /\ d.tx = r.tx
        /\ d.pkt = r.pkt /\ d.pktpop = r.pktpop /\ d.pretry = r.pretry /\ d.ptx = r.ptx
        /\ d.be = r.be /\ d.flight = r.flight
    BY ONLY <2>5 DEF Fields
  <2>7. Quiet(r, d)
    BY <2>3, <2>6 DEF Quiet, SampStill, StrStill, PktStill
  <2> QED BY <2>2, <2>3, <2>4, <2>7 DEF Goes
<1> QED BY <1>1, <1>2

LEMMA SampleSuicideGoes ==
  ASSUME NEW r, NEW t, Typed(r)
  PROVE  Goes(r, SampleSuicide(r, t))
<1>1. PICK e : e = SampleRemove(r, t)
  OBVIOUS
<1>2. Goes(r, e) /\ Typed(e)
  BY <1>1, RemovedGoes DEF Goes
<1>3. Goes(e, AdcStop(e))
  BY <1>2, AdcStopGoes
<1>4. SampleSuicide(r, t) \in {e, AdcStop(e)}
  BY <1>1 DEF SampleSuicide
<1> QED BY <1>2, <1>3, <1>4, GoesOn

LEMMA SuicideGoes ==
  ASSUME NEW r, NEW t \in TaskCells, NEW kind, Typed(r)
  PROVE  Goes(r, Suicide(r, t, kind))
<1>1. Goes(r, StrSuicide(r, t))
  <2>1. PICK a : a = Dropped(r, "retry", t)
    OBVIOUS
  <2>2. PICK b : b = Dropped(a, "sending", t)
    OBVIOUS
  <2>3. PICK c : c = RemoveTask(b, "str", t)
    OBVIOUS
  <2>4. Goes(r, a) /\ Typed(a)
    BY <2>1, DroppedGoes DEF Goes
  <2>5. Goes(a, b) /\ Typed(b)
    BY <2>2, <2>4, DroppedGoes DEF Goes
  <2>6. Goes(b, c) /\ Typed(c)
    BY <2>3, <2>5, RemoveTaskGoes DEF Goes
  <2>7. Goes(c, CloseConnection(c, t))
    BY <2>6, CloseGoes
  <2> QED BY <2>1, <2>2, <2>3, <2>4, <2>5, <2>6, <2>7, GoesOn DEF StrSuicide
<1>2. Goes(r, PktSuicide(r, t))
  <2>1. PICK a : a = Dropped(r, "pretry", t)
    OBVIOUS
  <2>2. Goes(r, a) /\ Typed(a)
    BY <2>1, DroppedGoes DEF Goes
  <2>3. Goes(a, RemoveTask(a, "pkt", t))
    BY <2>2, RemoveTaskGoes
  <2> QED BY <2>1, <2>2, <2>3, GoesOn DEF PktSuicide
<1>3. Goes(r, SampleSuicide(r, t))
  BY SampleSuicideGoes
<1>4. Goes(r, RemoveTask(r, "timers", t)) /\ Goes(r, r)
  BY RemoveTaskGoes, Stays, ZenonT(30)
<1>5. Suicide(r, t, kind) \in {RemoveTask(r, "timers", t), SampleSuicide(r, t),
                               StrSuicide(r, t), PktSuicide(r, t), r}
  BY ZenonT(30) DEF Suicide
<1> QED BY <1>1, <1>2, <1>3, <1>4, <1>5

(* The elements of a task that is deleted go one after the other.           *)
LEMMA TaskDeleteSteps ==
  ASSUME NEW r, NEW t \in TaskCells, Typed(r), r.task[t].busy
  PROVE  \E out :
           /\ out[0] = r
           /\ \A k \in 1 .. r.task[t].built :
                out[k] = Suicide(out[k - 1], t, Chain[r.task[t].id][k])
           /\ TaskDelete(r, t) = [out[r.task[t].built] EXCEPT !.task[t].busy = FALSE]
<1>1. t \in TaskCells /\ t # 0
  BY CellTypes
<1>2. PICK n \in Nat : n = r.task[t].built
  BY <1>1 DEF Typed, TasksOK, TaskRec
<1> DEFINE At(g, k) == IF k = 0 THEN r
                       ELSE Suicide(g[k - 1], t, Chain[IdOf(r, t)][k])
           Upto(g, j) == [k \in 0 .. j |-> At(g, k)]
           R == {j \in 0 .. n : \E g : g = Upto(g, j)}
           out == CHOOSE g : g = Upto(g, n)
<1>3. 0 \in R
  <2>1. PICK g : g = [k \in 0 .. 0 |-> r]
    OBVIOUS
  <2>2. g = Upto(g, 0)
    BY <2>1
  <2> HIDE DEF Upto
  <2>3. \E h : h = Upto(h, 0)
    BY ONLY <2>2, Zenon
  <2> QED BY <1>2, <2>3
<1>4. ASSUME NEW j \in 1 .. n, j - 1 \in R
      PROVE  j \in R
  <2>1. PICK g : g = Upto(g, j - 1)
    BY <1>4
  <2>2. PICK h : h = [k \in 0 .. j |-> At(g, k)]
    OBVIOUS
  <2>3. ASSUME NEW k \in 0 .. j
        PROVE  h[k] = At(h, k)
    <3>1. k # 0 => k - 1 \in 0 .. (j - 1) /\ k - 1 \in 0 .. j
      OBVIOUS
    <3>2. k # 0 => h[k - 1] = g[k - 1]
      BY <2>1, <2>2, <3>1
    <3> QED BY <2>2, <3>2
  <2>4. h = Upto(h, j)
    BY <2>2, <2>3
  <2> HIDE DEF Upto
  <2>5. \E x : x = Upto(x, j)
    BY ONLY <2>4, Zenon
  <2>6. j \in 0 .. n
    BY <1>2
  <2> QED BY ONLY <2>5, <2>6, Zenon
<1> HIDE DEF R
<1>5. n \in R
  <2>1. 0 .. n \subseteq R
    BY ONLY <1>2, <1>3, <1>4, Climb
  <2> QED BY <1>2, <2>1
<1>6. \E g : g = Upto(g, n)
  BY <1>5 DEF R
<1>7. out = Upto(out, n)
  BY <1>6, Zenon
<1> HIDE DEF out
<1>8. TaskDelete(r, t) = [out[n] EXCEPT !.task[t].busy = FALSE]
  BY <1>1, <1>2, Zenon DEF TaskDelete, out
<1>9. out[0] = r
  BY <1>2, <1>7
<1>10. ASSUME NEW k \in 1 .. n
       PROVE  out[k] = Suicide(out[k - 1], t, Chain[r.task[t].id][k])
  <2>1. k \in 0 .. n /\ k # 0
    OBVIOUS
  <2>2. out[k] = At(out, k)
    BY <1>7, <2>1
  <2> QED BY ONLY <2>1, <2>2 DEF IdOf
<1> HIDE DEF At, Upto
<1> QED BY <1>2, <1>8, <1>9, <1>10

LEMMA TaskDeleteGoes ==
  ASSUME NEW r, NEW t \in TaskCells \cup {0}, Typed(r)
  PROVE  Goes(r, TaskDelete(r, t))
<1> SUFFICES ASSUME t # 0, r.task[t].busy
             PROVE  Goes(r, TaskDelete(r, t))
  BY Stays, WildGoes, Zenon DEF TaskDelete
<1>1. t \in TaskCells
  OBVIOUS
<1>2. PICK n \in Nat : n = r.task[t].built
  BY <1>1 DEF Typed, TasksOK, TaskRec
<1>3. PICK out :
        /\ out[0] = r
        /\ \A k \in 1 .. r.task[t].built :
             out[k] = Suicide(out[k - 1], t, Chain[r.task[t].id][k])
        /\ TaskDelete(r, t) = [out[r.task[t].built] EXCEPT !.task[t].busy = FALSE]
  BY <1>1, TaskDeleteSteps
<1> DEFINE W == {k \in 0 .. n : Goes(r, out[k])}
<1>4. 0 \in W
  BY <1>2, <1>3, Stays
<1>5. ASSUME NEW k \in 1 .. n, k - 1 \in W
      PROVE  k \in W
  <2>1. k \in 0 .. n /\ Goes(r, out[k - 1])
    BY <1>2, <1>5
  <2>2. out[k] = Suicide(out[k - 1], t, Chain[r.task[t].id][k])
    BY <1>2, <1>3
  <2>3. Goes(out[k - 1], Suicide(out[k - 1], t, Chain[r.task[t].id][k]))
    BY <1>1, <2>1, SuicideGoes DEF Goes
  <2>4. Goes(r, out[k])
    BY ONLY <2>1, <2>2, <2>3, GoesOn
  <2> QED BY <2>1, <2>4
<1> HIDE DEF W
<1>6. n \in W
  <2>1. 0 .. n \subseteq W
    BY ONLY <1>2, <1>4, <1>5, Climb
  <2> QED BY <1>2, <2>1
<1>7. PICK e : e = out[n] /\ Goes(r, e)
  BY <1>6 DEF W
<1>8. PICK d : d = [e EXCEPT !.task[t].busy = FALSE]
  OBVIOUS
<1>9. Typed(e)
  BY <1>7 DEF Goes
<1>10. Else(d, e, {"task"}) /\ d.task = [e.task EXCEPT ![t].busy = FALSE]
  BY <1>8, <1>9 DEF Typed, Else, Fields
<1>11. TasksOK(d.task)
  <2>1. TasksOK(e.task)
    BY <1>9 DEF Typed
  <2>2. TasksOK([e.task EXCEPT ![t].busy = FALSE])
    BY <1>1, <2>1, TaskFields, Zenon
  <2> QED BY ONLY <1>10, <2>2, Zenon
<1>12. Typed(d)
  BY <1>9, <1>10, <1>11, TypeKept
<1>13. Quiet(e, d)
  BY <1>10, QuietKept DEF Loud
<1>14. TaskDelete(r, t) = d
  BY <1>2, <1>3, <1>7, <1>8
<1> QED BY <1>7, <1>12, <1>13, <1>14, GoesOn, ZenonT(30) DEF Goes

LEMMA DestroyGoes ==
  ASSUME NEW r, NEW t \in TaskCells \cup {0}, Typed(r)
  PROVE  Goes(r, Destroy(r, t))
<1>1. PICK e : e = RemoveTask(r, "q", t)
  OBVIOUS
<1>2. Goes(r, e) /\ Typed(e)
  BY <1>1, RemoveTaskGoes DEF Goes
<1>3. PICK d : d = [e EXCEPT !.installed = Only(@, TaskCells \ {t})]
  OBVIOUS
<1>4. Else(d, e, {"installed"}) /\ d.installed = Only(e.installed, TaskCells \ {t})
  BY <1>2, <1>3 DEF Typed, Else, Fields
<1>5. d.installed \in Seq(TaskCells)
  <2>1. e.installed \in Seq(TaskCells)
    BY <1>2 DEF Typed
  <2> QED BY ONLY <1>4, <2>1, OnlyIn
<1>6. Typed(d)
  BY <1>2, <1>4, <1>5, TypeKept
<1>7. Quiet(e, d)
  BY <1>4, QuietKept DEF Loud
<1>8. Goes(r, d)
  BY <1>2, <1>6, <1>7, GoesOn DEF Goes
<1>9. Goes(d, TaskDelete(d, t))
  BY <1>6, TaskDeleteGoes
<1>10. Destroy(r, t) = TaskDelete(d, t)
  BY <1>1, <1>3 DEF Destroy
<1> QED BY <1>8, <1>9, <1>10, GoesOn

LEMMA EndTaskGoes ==
  ASSUME NEW r, NEW a \in AtaskCells, Typed(r)
  PROVE  Goes(r, EndTask(r, a))
<1>1. PICK e : e = Destroy(r, TaskOf(r, a))
  OBVIOUS
<1>2. TaskOf(r, a) \in TaskCells \cup {0}
  BY CellTypes DEF TaskOf
<1>3. Goes(r, e) /\ Typed(e)
  BY <1>1, <1>2, DestroyGoes DEF Goes
<1>4. PICK d : d = [e EXCEPT !.atask[a].t = 0]
  OBVIOUS
<1>5. Else(d, e, {"atask"}) /\ d.atask = [e.atask EXCEPT ![a].t = 0]
  BY <1>3, <1>4 DEF Typed, Else, Fields
<1>6. AtasksOK(d.atask)
  <2>1. AtasksOK(e.atask)
    BY <1>3 DEF Typed
  <2>2. AtasksOK([e.atask EXCEPT ![a].t = 0])
    BY <2>1, AtaskFields, Zenon
  <2> QED BY ONLY <1>5, <2>2, Zenon
<1>7. Typed(d)
  BY <1>3, <1>5, <1>6, TypeKept
<1>8. Quiet(e, d)
  BY <1>5, QuietKept DEF Loud
<1>9. Goes(r, d)
  BY <1>3, <1>7, <1>8, GoesOn DEF Goes
<1>10. Goes(d, AtaskDelete(d, a))
  BY <1>7, AtaskDeleteGoes
<1>11. EndTask(r, a) = AtaskDelete(d, a)
  BY <1>1, <1>4 DEF EndTask
<1> QED BY <1>9, <1>10, <1>11, GoesOn

-----------------------------------------------------------------------------
(* The scheduler and Issue.                                                 *)

LEMMA ScheduleGoes ==
  ASSUME NEW r, NEW a \in AtaskCells, Typed(r)
  PROVE  Goes(r, Schedule(r, a))
<1>1. PICK d : d = Schedule(r, a)
  OBVIOUS
<1>2. Else(d, r, {"q", "posted"}) /\ d.q = Append(r.q, a)
  BY <1>1 DEF Schedule, Typed, Else, Fields
<1>3. d.q \in Seq(AtaskCells)
  <2>1. r.q \in Seq(AtaskCells)
    BY DEF Typed
  <2> QED BY ONLY <1>2, <2>1, a \in AtaskCells, AppendProperties
<1>4. Typed(d)
  BY <1>2, <1>3, TypeKept
<1>5. Quiet(r, d)
  BY <1>2, QuietKept DEF Loud
<1> QED BY <1>1, <1>4, <1>5 DEF Goes

LEMMA ScheduleNextGoes ==
  ASSUME NEW r, NEW a \in AtaskCells, Typed(r)
  PROVE  Goes(r, ScheduleNext(r, a))
<1>1. PICK on : on = [r EXCEPT !.atask[a].idx = @ + 1]
  OBVIOUS
<1>2. Else(on, r, {"atask"}) /\ on.atask = [r.atask EXCEPT ![a].idx = @ + 1]
  BY <1>1 DEF Typed, Else, Fields
<1>3. AtasksOK(on.atask)
  <2>1. AtasksOK(r.atask)
    BY DEF Typed
  <2>2. AtasksOK([r.atask EXCEPT ![a].idx = @ + 1])
    BY <2>1, AtaskFields, Zenon
  <2> QED BY ONLY <1>2, <2>2, Zenon
<1>4. Typed(on)
  BY <1>2, <1>3, TypeKept
<1>5. Quiet(r, on)
  BY <1>2, QuietKept DEF Loud
<1>6. Goes(r, on)
  BY <1>4, <1>5 DEF Goes
<1>7. Goes(on, Schedule(on, a)) /\ Goes(on, EndTask(on, a)) /\ Goes(on, AtaskDelete(on, a))
  BY <1>4, ScheduleGoes, EndTaskGoes, AtaskDeleteGoes
<1>8. ScheduleNext(r, a) \in {Wild(r), Schedule(on, a), EndTask(on, a), AtaskDelete(on, a)}
  BY <1>1, ZenonT(30) DEF ScheduleNext
<1> QED BY <1>6, <1>7, <1>8, WildGoes, GoesOn

(* An active task whose element is there has a task that is there.          *)
LEMMA ElementIs ==
  ASSUME NEW r, NEW a \in AtaskCells, Typed(r), ElementThis(r, a) # "none"
  PROVE  LET t == TaskOf(r, a)
         IN  /\ t \in TaskCells /\ r.task[t].busy /\ IdOf(r, t) \in Ids
             /\ r.atask[a].idx \in 1 .. Len(Chain[IdOf(r, t)])
             /\ ElementThis(r, a) = Chain[IdOf(r, t)][r.atask[a].idx]
<1>1. PICK t : t = TaskOf(r, a)
  BY Zenon
<1>2. /\ t # 0 /\ r.task[t].busy /\ ~(r.atask[a].idx > r.task[t].built)
      /\ ElementThis(r, a) = Chain[IdOf(r, t)][r.atask[a].idx]
  BY <1>1 DEF ElementThis, TaskOf, IdOf
<1>3. t \in TaskCells
  BY <1>1, <1>2, CellTypes DEF TaskOf
<1>4. IdOf(r, t) \in Ids /\ r.task[t].built \in 0 .. Len(Chain[IdOf(r, t)])
  BY <1>2, <1>3 DEF Typed, TasksOK, IdOf
<1>5. r.atask[a].idx \in Nat /\ r.atask[a].idx # 0
  BY <1>1, <1>2 DEF Typed, AtasksOK, AtaskOK, TaskOf
<1>6. Chain[IdOf(r, t)] \in Seq(Kinds)
  BY <1>4, TaskCellsAssumption
<1>7. Len(Chain[IdOf(r, t)]) \in Nat
  BY <1>6
<1>8. r.atask[a].idx \in 1 .. Len(Chain[IdOf(r, t)])
  BY <1>2, <1>4, <1>5, <1>7
<1> QED BY <1>1, <1>2, <1>3, <1>4, <1>8, ZenonT(30)

LEMMA FireOnceGoes ==
  ASSUME NEW r, NEW a \in AtaskCells, Typed(r)
  PROVE  Goes(r, FireOnce(r, a))
<1>1. PICK e : e = ScheduleNext(r, a)
  OBVIOUS
<1>2. Goes(r, e) /\ Typed(e)
  BY <1>1, ScheduleNextGoes DEF Goes
<1>3. PICK d : d = [e EXCEPT !.timers = Only(@, AtaskCells \ {a})]
  OBVIOUS
<1>4. Else(d, e, {"timers"}) /\ d.timers = Only(e.timers, AtaskCells \ {a})
  BY <1>2, <1>3 DEF Typed, Else, Fields
<1>5. d.timers \in Seq(AtaskCells)
  <2>1. e.timers \in Seq(AtaskCells)
    BY <1>2 DEF Typed
  <2> QED BY ONLY <1>4, <2>1, OnlyIn
<1>6. Typed(d) /\ Quiet(e, d)
  BY <1>2, <1>4, <1>5, TypeKept, QuietKept DEF Loud
<1>7. Goes(e, Wild(e)) /\ Goes(e, d)
  BY <1>2, <1>6, WildGoes DEF Goes
<1>8. FireOnce(r, a) \in {d, Wild(e)}
  BY <1>1, <1>3 DEF FireOnce
<1> QED BY <1>2, <1>7, <1>8, GoesOn

LEMMA FireGoes ==
  ASSUME NEW r, NEW a \in AtaskCells, NEW c \in AtaskCells \cup {0}, Typed(r)
  PROVE  Goes(r, Fire(r, a, c))
<1>1. Goes(r, FireOnce(r, a))
  BY FireOnceGoes
<1>2. Goes(r, r) /\ Goes(r, Report(r, TaskOf(r, a)))
  BY Stays, ReportGoes
<1>3. ASSUME ElementThis(r, a) = "every", c # 0
      PROVE  Goes(r, ScheduleNext(AtaskClone(r, c, a), c))
  <2>1. r.atask[a].t # 0
    BY <1>3, ElementIs, CellTypes DEF TaskOf
  <2>2. PICK e : e = AtaskClone(r, c, a)
    OBVIOUS
  <2>3. Goes(r, e) /\ Typed(e)
    BY <1>3, <2>1, <2>2, AtaskCloneGoes DEF Goes
  <2>4. Goes(e, ScheduleNext(e, c))
    BY <1>3, <2>3, ScheduleNextGoes
  <2> QED BY <2>2, <2>3, <2>4, GoesOn
<1>4. CASE ElementThis(r, a) # "every"
  BY <1>1, <1>4 DEF Fire
<1>5. CASE ElementThis(r, a) = "every"
  BY <1>2, <1>3, <1>5 DEF Fire
<1> QED BY <1>4, <1>5

(* The items that are due are fired one after the other.                    *)
LEMMA FireDueSteps ==
  ASSUME NEW r, NEW due, r.timers \in Seq(AtaskCells)
  PROVE  \E out :
           /\ out[0] = r
           /\ \A k \in 1 .. Len(r.timers) :
                out[k] = IF r.timers[k] \in due /\ ~out[k - 1].wild
                         THEN Fire(out[k - 1], r.timers[k], FirstFree(out[k - 1].atask))
                         ELSE out[k - 1]
           /\ FireDue(r, due) = out[Len(r.timers)]
<1>1. PICK n \in Nat : n = Len(r.timers)
  BY LenProperties
<1>2. n \in Nat
  OBVIOUS
<1> DEFINE At(g, k) == IF k = 0 THEN r
                       ELSE IF r.timers[k] \in due /\ ~g[k - 1].wild
                       THEN Fire(g[k - 1], r.timers[k], FirstFree(g[k - 1].atask))
                       ELSE g[k - 1]
           Upto(g, j) == [k \in 0 .. j |-> At(g, k)]
           R == {j \in 0 .. n : \E g : g = Upto(g, j)}
           out == CHOOSE g : g = Upto(g, n)
<1>3. 0 \in R
  <2>1. PICK g : g = [k \in 0 .. 0 |-> r]
    OBVIOUS
  <2>2. g = Upto(g, 0)
    BY <2>1
  <2> HIDE DEF Upto
  <2>3. \E h : h = Upto(h, 0)
    BY ONLY <2>2, Zenon
  <2> QED BY <1>2, <2>3
<1>4. ASSUME NEW j \in 1 .. n, j - 1 \in R
      PROVE  j \in R
  <2>1. PICK g : g = Upto(g, j - 1)
    BY <1>4
  <2>2. PICK h : h = [k \in 0 .. j |-> At(g, k)]
    OBVIOUS
  <2>3. ASSUME NEW k \in 0 .. j
        PROVE  h[k] = At(h, k)
    <3>1. k # 0 => k - 1 \in 0 .. (j - 1) /\ k - 1 \in 0 .. j
      OBVIOUS
    <3>2. k # 0 => h[k - 1] = g[k - 1]
      BY <2>1, <2>2, <3>1
    <3> QED BY <2>2, <3>2
  <2>4. h = Upto(h, j)
    BY <2>2, <2>3
  <2> HIDE DEF Upto
  <2>5. \E x : x = Upto(x, j)
    BY ONLY <2>4, Zenon
  <2>6. j \in 0 .. n
    BY <1>2
  <2> QED BY ONLY <2>5, <2>6, Zenon
<1> HIDE DEF R
<1>5. n \in R
  <2>1. 0 .. n \subseteq R
    BY ONLY <1>2, <1>3, <1>4, Climb
  <2> QED BY <1>2, <2>1
<1>6. \E g : g = Upto(g, n)
  BY <1>5 DEF R
<1>7. out = Upto(out, n)
  BY <1>6, Zenon
<1> HIDE DEF out
<1>8. FireDue(r, due) = out[n]
  BY <1>1, Zenon DEF FireDue, out
<1>9. out[0] = r
  BY <1>2, <1>7
<1>10. ASSUME NEW k \in 1 .. n
       PROVE  out[k] = IF r.timers[k] \in due /\ ~out[k - 1].wild
                       THEN Fire(out[k - 1], r.timers[k], FirstFree(out[k - 1].atask))
                       ELSE out[k - 1]
  <2>1. k \in 0 .. n /\ k # 0
    OBVIOUS
  <2>2. out[k] = At(out, k)
    BY <1>7, <2>1
  <2> QED BY ONLY <2>1, <2>2
<1> HIDE DEF At, Upto
<1> QED BY <1>1, <1>8, <1>9, <1>10

LEMMA FireDueGoes ==
  ASSUME NEW r, NEW due, Typed(r)
  PROVE  Goes(r, FireDue(r, due))
<1>1. r.timers \in Seq(AtaskCells)
  BY DEF Typed
<1>2. PICK n \in Nat : n = Len(r.timers)
  BY <1>1
<1>3. PICK out :
        /\ out[0] = r
        /\ \A k \in 1 .. Len(r.timers) :
             out[k] = IF r.timers[k] \in due /\ ~out[k - 1].wild
                      THEN Fire(out[k - 1], r.timers[k], FirstFree(out[k - 1].atask))
                      ELSE out[k - 1]
        /\ FireDue(r, due) = out[Len(r.timers)]
  BY <1>1, FireDueSteps
<1> DEFINE W == {k \in 0 .. n : Goes(r, out[k])}
<1>4. 0 \in W
  BY <1>2, <1>3, Stays
<1>5. ASSUME NEW k \in 1 .. n, k - 1 \in W
      PROVE  k \in W
  <2>1. k \in 0 .. n /\ Goes(r, out[k - 1]) /\ r.timers[k] \in AtaskCells
    BY <1>1, <1>2, <1>5
  <2>2. \/ out[k] = Fire(out[k - 1], r.timers[k], FirstFree(out[k - 1].atask))
        \/ out[k] = out[k - 1]
    BY <1>2, <1>3
  <2>3. Typed(out[k - 1])
    BY <2>1 DEF Goes
  <2>4. FirstFree(out[k - 1].atask) \in AtaskCells \cup {0}
    BY <2>3, FirstFreeIn DEF Typed, AtasksOK, AtaskCells
  <2>5. Goes(out[k - 1], Fire(out[k - 1], r.timers[k], FirstFree(out[k - 1].atask)))
    BY <2>1, <2>3, <2>4, FireGoes
  <2>6. Goes(r, out[k])
    BY ONLY <2>1, <2>2, <2>5, GoesOn
  <2> QED BY <2>1, <2>6
<1> HIDE DEF W
<1>6. n \in W
  <2>1. 0 .. n \subseteq W
    BY ONLY <1>2, <1>4, <1>5, Climb
  <2> QED BY <1>2, <2>1
<1> QED BY <1>2, <1>3, <1>6 DEF W

LEMMA IssueRunGoes ==
  ASSUME NEW r, NEW a \in AtaskCells, NEW due, Typed(r)
  PROVE  Goes(r, IssueRun(r, a, due))
<1>1. PICK d : d = [r EXCEPT !.timers = Append(@, a)]
  OBVIOUS
<1>2. Else(d, r, {"timers"}) /\ d.timers = Append(r.timers, a)
  BY <1>1 DEF Typed, Else, Fields
<1>3. d.timers \in Seq(AtaskCells)
  <2>1. r.timers \in Seq(AtaskCells)
    BY DEF Typed
  <2> QED BY ONLY <1>2, <2>1, a \in AtaskCells, AppendProperties
<1>4. Typed(d)
  BY <1>2, <1>3, TypeKept
<1>5. Quiet(r, d)
  BY <1>2, QuietKept DEF Loud
<1>6. Goes(d, FireDue(d, due))
  BY <1>4, FireDueGoes
<1> QED BY <1>1, <1>4, <1>5, <1>6, GoesOn DEF Goes, IssueRun

-----------------------------------------------------------------------------
(* Sample.                                                                  *)

(* SampleServed of a state r, and its second half, on which the first hangs.*)
Honest(r)  == r.cut \/ (r.adcBusy => r.adc # <<>>)
Sampled(r) ==
  /\ Honest(r)
  /\ r.cut \/ (r.samp # <<>> => r.adc # <<>> \/ r.handle > 0 \/ r.stimer)

(* From r to d Sample has done something and left nothing waiting in vain.  *)
SampDone(r, d) == Typed(d) /\ Sampled(d) /\ StrStill(r, d) /\ PktStill(r, d)

LEMMA SampAfter ==
  ASSUME NEW r, NEW d, NEW e, Goes(r, d), SampDone(d, e)
  PROVE  SampDone(r, e)
BY DEF Goes, Quiet, SampDone, StrStill, PktStill

LEMMA GoesSampled ==
  ASSUME NEW r, NEW d, Goes(r, d)
  PROVE  (Honest(r) => Honest(d)) /\ (Sampled(r) => SampDone(r, d))
BY DEF Goes, Quiet, SampDone, SampStill, Honest, Sampled

(* The fields that only Sample uses.                                        *)
SampFields == {"samp", "full", "pend", "stimer", "adcBusy", "adc", "cut", "handle", "mdata"}

LEMMA OthersStill ==
  ASSUME NEW r, NEW d, Else(d, r, SampFields)
  PROVE  StrStill(r, d) /\ PktStill(r, d)
<1>1. \A f \in Fields \ SampFields : d[f] = r[f]
  BY DEF Else
<1>2. /\ d.str = r.str /\ d.strpop = r.strpop /\ d.sending = r.sending /\ d.retry = r.retry
      /\ d.tx = r.tx
  BY ONLY <1>1 DEF Fields, SampFields
<1>3. /\ d.pkt = r.pkt /\ d.pktpop = r.pktpop /\ d.pretry = r.pretry /\ d.ptx = r.ptx
      /\ d.be = r.be /\ d.flight = r.flight
  BY ONLY <1>1 DEF Fields, SampFields
<1> QED BY <1>2, <1>3 DEF StrStill, PktStill

LEMMA GetDataDone ==
  ASSUME NEW r, NEW ok, Typed(r), Honest(r)
  PROVE  SampDone(r, GetData(r, ok))
<1>1. CASE ok
  <2>1. PICK d : d = GetData(r, ok)
    OBVIOUS
  <2>2. Else(d, r, {"adcBusy", "adc", "cut"}) /\ d.adc = Append(r.adc, r.pend)
    BY <1>1, <2>1 DEF GetData, Typed, Else, Fields
  <2>3. d.adc \in Seq(AtaskCells \cup {0}) /\ d.adc # <<>>
    <3>1. r.adc \in Seq(AtaskCells \cup {0}) /\ r.pend \in AtaskCells \cup {0}
      BY DEF Typed
    <3> QED BY ONLY <2>2, <3>1, AppendProperties
  <2>4. Typed(d)
    BY <2>2, <2>3, TypeKept
  <2>5. StrStill(r, d) /\ PktStill(r, d)
    BY <2>2, OthersStill DEF Else, SampFields
  <2> QED BY <2>1, <2>3, <2>4, <2>5 DEF SampDone, Sampled, Honest
<1>2. CASE ~ok
  <2>1. PICK d : d = GetData(r, ok)
    OBVIOUS
  <2>2. /\ Else(d, r, {"mdata", "handle"}) /\ d.handle = r.handle + 1
        /\ d.adcBusy = r.adcBusy /\ d.adc = r.adc /\ d.cut = r.cut
    BY <1>2, <2>1 DEF GetData, Typed, Else, Fields
  <2>3. d.handle \in Nat /\ d.handle > 0
    BY <2>2 DEF Typed
  <2>4. Typed(d)
    BY <2>2, <2>3, TypeKept
  <2>5. StrStill(r, d) /\ PktStill(r, d)
    BY <2>2, OthersStill DEF Else, SampFields
  <2> QED BY <2>1, <2>2, <2>3, <2>4, <2>5 DEF SampDone, Sampled, Honest
<1> QED BY <1>1, <1>2

LEMMA NextItemDone ==
  ASSUME NEW r, NEW p \in AtaskCells \cup {0}, NEW now, NEW ok, Typed(r), Honest(r)
  PROVE  SampDone(r, NextItem(r, p, now, ok))
<1>1. CASE r.samp = <<>>
  <2>1. SampDone(r, r)
    BY <1>1 DEF SampDone, Sampled, StrStill, PktStill
  <2> QED BY <1>1, <2>1 DEF NextItem
<1>2. PICK e : e = [r EXCEPT !.pend = p]
  OBVIOUS
<1>3. /\ Else(e, r, {"pend"}) /\ e.pend = p /\ e.adc = r.adc /\ e.adcBusy = r.adcBusy
      /\ e.cut = r.cut
  BY <1>2 DEF Typed, Else, Fields
<1>4. Typed(e) /\ Quiet(r, e) /\ Honest(e)
  <2>1. Typed(e)
    BY <1>3, TypeKept
  <2>2. Quiet(r, e)
    BY <1>3, QuietKept DEF Loud
  <2> QED BY <1>3, <2>1, <2>2 DEF Honest
<1>5. CASE r.samp # <<>> /\ now
  <2>1. SampDone(e, GetData(e, ok))
    BY <1>4, GetDataDone
  <2>2. NextItem(r, p, now, ok) = GetData(e, ok)
    BY <1>2, <1>5 DEF NextItem
  <2> QED BY <1>4, <2>1, <2>2, SampAfter DEF Goes
<1>6. CASE r.samp # <<>> /\ ~now
  <2>1. PICK d : d = [e EXCEPT !.stimer = TRUE]
    OBVIOUS
  <2>2. /\ Else(d, e, {"stimer"}) /\ d.stimer
        /\ d.adc = e.adc /\ d.adcBusy = e.adcBusy /\ d.cut = e.cut
    BY <1>4, <2>1 DEF Typed, Else, Fields
  <2>3. Typed(d)
    BY <1>4, <2>2, TypeKept
  <2>4. StrStill(e, d) /\ PktStill(e, d)
    BY <2>2, OthersStill DEF Else, SampFields
  <2>5. SampDone(e, d)
    BY <1>4, <2>2, <2>3, <2>4 DEF SampDone, Sampled, Honest
  <2>6. NextItem(r, p, now, ok) = d
    BY <1>2, <1>6, <2>1 DEF NextItem, Typed, Fields
  <2> QED BY <1>4, <2>5, <2>6, SampAfter DEF Goes
<1> QED BY <1>1, <1>5, <1>6

LEMMA NextItemsDone ==
  ASSUME NEW r, NEW d \in NextItems(r), Typed(r), Honest(r)
  PROVE  SampDone(r, d)
<1>1. CASE r.samp = <<>>
  BY <1>1 DEF NextItems, SampDone, Sampled, StrStill, PktStill
<1>2. CASE r.samp # <<>>
  <2>1. d \in {NextItem(r, p, now, ok) :
                 p \in Range(r.samp), now \in BOOLEAN, ok \in AdcAccepts(r)}
    BY <1>2 DEF NextItems
  <2>2. \E p \in Range(r.samp), now \in BOOLEAN, ok \in AdcAccepts(r) :
          d = NextItem(r, p, now, ok)
    BY ONLY <2>1
  <2>3. Range(r.samp) \subseteq AtaskCells
    BY DEF Typed, Range
  <2> QED BY <2>2, <2>3, NextItemDone
<1> QED BY <1>1, <1>2

LEMMA SampleRunDone ==
  ASSUME NEW r, NEW a \in AtaskCells, NEW ok, Typed(r), Honest(r)
  PROVE  SampDone(r, SampleRun(r, a, ok))
<1>1. PICK e : e = SampleRemove(r, TaskOf(r, a))
  OBVIOUS
<1>2. Goes(r, e) /\ Typed(e) /\ Honest(e) /\ e.adcBusy = r.adcBusy
  <2>1. TaskOf(r, a) \in TaskCells \cup {0}
    BY CellTypes DEF TaskOf
  <2>2. Goes(r, SampleRemove(r, TaskOf(r, a)))
    BY <2>1, RemovedGoes
  <2> QED BY <1>1, <2>2, GoesSampled DEF Goes, Quiet, SampStill
<1>3. PICK d : d = [e EXCEPT !.samp = Append(@, a), !.stimer = FALSE]
  OBVIOUS
<1>4. /\ Else(d, e, {"samp", "stimer"}) /\ d.samp = Append(e.samp, a)
      /\ d.adcBusy = e.adcBusy /\ d.adc = e.adc /\ d.cut = e.cut
  BY <1>2, <1>3 DEF Typed, Else, Fields
<1>5. d.samp \in Seq(AtaskCells)
  <2>1. e.samp \in Seq(AtaskCells)
    BY <1>2 DEF Typed
  <2> QED BY ONLY <1>4, <2>1, a \in AtaskCells, AppendProperties
<1>6. Typed(d)
  BY <1>2, <1>4, <1>5, TypeKept
<1>7. StrStill(e, d) /\ PktStill(e, d)
  BY <1>4, OthersStill DEF Else, SampFields
<1>8. CASE r.adcBusy
  <2>1. SampDone(e, d)
    BY <1>2, <1>4, <1>6, <1>7, <1>8 DEF SampDone, Sampled, Honest
  <2>2. SampleRun(r, a, ok) = d
    BY <1>1, <1>3, <1>8 DEF SampleRun
  <2> QED BY <1>2, <2>1, <2>2, SampAfter
<1>9. CASE ~r.adcBusy
  <2>1. PICK g : g = [d EXCEPT !.pend = a]
    OBVIOUS
  <2>2. /\ Else(g, d, {"pend"}) /\ g.pend = a
        /\ g.adcBusy = d.adcBusy /\ g.adc = d.adc /\ g.cut = d.cut
    BY <1>6, <2>1 DEF Typed, Else, Fields
  <2>3. Typed(g)
    BY <1>6, <2>2, TypeKept
  <2>4. StrStill(d, g) /\ PktStill(d, g) /\ Honest(g)
    BY <1>2, <1>4, <2>2, OthersStill DEF Else, SampFields, Honest
  <2>5. SampDone(g, GetData(g, ok))
    BY <2>3, <2>4, GetDataDone
  <2>6. SampleRun(r, a, ok) = GetData(g, ok)
    BY <1>1, <1>3, <1>9, <2>1 DEF SampleRun
  <2>7. SampDone(e, GetData(g, ok))
    BY <1>7, <2>4, <2>5 DEF SampDone, StrStill, PktStill
  <2> QED BY <1>2, <2>6, <2>7, SampAfter
<1> QED BY <1>8, <1>9

(* The data of a sample is full: its active task runs on.                   *)
LEMMA SampleFullGoes ==
  ASSUME NEW r, NEW a \in AtaskCells, NEW c \in AtaskCells \cup {0}, Typed(r)
  PROVE  Goes(r, SampleFull(r, a, c))
<1>1. PICK x : x = Load[IdOf(r, TaskOf(r, a))]
  OBVIOUS
<1>2. PICK given : given = [r EXCEPT !.atask[a].data = x]
  OBVIOUS
<1>3. /\ Else(given, r, {"atask"}) /\ given.atask = [r.atask EXCEPT ![a].data = x]
  BY <1>2 DEF Typed, Else, Fields
<1>4. Typed(given) /\ Goes(r, given)
  <2>1. AtasksOK(r.atask)
    BY DEF Typed
  <2>2. AtasksOK([r.atask EXCEPT ![a].data = x])
    BY <2>1, AtaskFields, Zenon
  <2>3. AtasksOK(given.atask)
    BY ONLY <1>3, <2>2, Zenon
  <2>4. Typed(given)
    BY <1>3, <2>3, TypeKept
  <2>5. Quiet(r, given)
    BY <1>3, QuietKept DEF Loud
  <2> QED BY <2>4, <2>5 DEF Goes
<1>5. CASE ElementThis(r, a) # "repeat"
  <2>1. PICK d : d = [given EXCEPT !.samp = Only(@, AtaskCells \ {a}), !.pend = 0]
    OBVIOUS
  <2>2. /\ Else(d, given, {"samp", "pend"}) /\ d.samp = Only(given.samp, AtaskCells \ {a})
        /\ d.pend = 0
    BY <1>4, <2>1 DEF Typed, Else, Fields
  <2>3. d.samp \in Seq(AtaskCells) /\ (given.samp = <<>> => d.samp = <<>>)
    <3>1. given.samp \in Seq(AtaskCells)
      BY <1>4 DEF Typed
    <3> QED BY ONLY <2>2, <3>1, OnlyIn
  <2>4. Typed(d)
    BY <1>4, <2>2, <2>3, TypeKept
  <2>5. Quiet(given, d)
    BY <2>2, <2>3, QuietKept DEF Loud
  <2>6. Goes(r, d)
    BY <1>4, <2>4, <2>5, GoesOn DEF Goes
  <2>7. Goes(d, ScheduleNext(d, a))
    BY <2>4, ScheduleNextGoes
  <2>8. SampleFull(r, a, c) = ScheduleNext(d, a)
    BY <1>1, <1>2, <1>5, <2>1 DEF SampleFull
  <2> QED BY <2>6, <2>7, <2>8, GoesOn
<1>6. CASE ElementThis(r, a) = "repeat" /\ c = 0
  <2>1. PICK e : e = Report(given, TaskOf(r, a))
    OBVIOUS
  <2>2. Goes(given, e) /\ Typed(e)
    BY <1>4, <2>1, ReportGoes DEF Goes
  <2>3. PICK d : d = [e EXCEPT !.full = @ \cup {a}]
    OBVIOUS
  <2>4. Else(d, e, {"full"})
    BY <2>2, <2>3 DEF Typed, Else, Fields
  <2>5. Typed(d)
    BY <2>2, <2>4, TypeKept
  <2>6. Quiet(e, d)
    BY <2>4, QuietKept DEF Loud
  <2>7. Goes(given, d)
    BY <2>2, <2>5, <2>6, GoesOn DEF Goes
  <2>8. Goes(d, ScheduleNext(d, a))
    BY <2>5, ScheduleNextGoes
  <2>9. SampleFull(r, a, c) = ScheduleNext(d, a)
    BY <1>1, <1>2, <1>6, <2>1, <2>3 DEF SampleFull
  <2> QED BY <1>4, <2>7, <2>8, <2>9, GoesOn
<1>7. CASE ElementThis(r, a) = "repeat" /\ c # 0
  <2>1. PICK e : e = AtaskClone(r, c, a)
    OBVIOUS
  <2>2. r.atask[a].t # 0
    BY <1>7, ElementIs, CellTypes DEF TaskOf
  <2>3. Goes(r, e) /\ Typed(e)
    BY <1>7, <2>1, <2>2, AtaskCloneGoes DEF Goes
  <2>4. PICK m : m = [i \in DOMAIN e.samp |-> IF e.samp[i] = a THEN c ELSE e.samp[i]]
    OBVIOUS
  <2>5. m \in Seq(AtaskCells) /\ (e.samp = <<>> => m = <<>>)
    <3>1. e.samp \in Seq(AtaskCells) /\ c \in AtaskCells
      BY <1>7, <2>3 DEF Typed
    <3>2. PICK n \in Nat : n = Len(e.samp) /\ DOMAIN e.samp = 1 .. n
      BY <3>1
    <3>3. m \in [1 .. n -> AtaskCells]
      BY <2>4, <3>1, <3>2
    <3>4. m \in Seq(AtaskCells) /\ Len(m) = n
      BY <3>2, <3>3, IsASeq, LenProperties
    <3>5. e.samp = <<>> => n = 0
      BY <3>2
    <3>6. Len(m) = 0 => m = <<>>
      BY <3>4, EmptySeq
    <3> QED BY <3>4, <3>5, <3>6
  <2>6. PICK d : d = [e EXCEPT !.samp = m, !.pend = c, !.atask[a].data = x]
    OBVIOUS
  <2>7. /\ Else(d, e, {"samp", "pend", "atask"}) /\ d.samp = m /\ d.pend = c
        /\ d.atask = [e.atask EXCEPT ![a].data = x]
    BY <2>3, <2>6 DEF Typed, Else, Fields
  <2>8. AtasksOK(d.atask)
    <3>1. AtasksOK(e.atask)
      BY <2>3 DEF Typed
    <3>2. AtasksOK([e.atask EXCEPT ![a].data = x])
      BY <3>1, AtaskFields, Zenon
    <3> QED BY ONLY <2>7, <3>2, Zenon
  <2>9. Typed(d)
    BY <1>7, <2>3, <2>5, <2>7, <2>8, TypeKept
  <2>10. Quiet(e, d)
    BY <2>5, <2>7, QuietKept DEF Loud
  <2>11. Goes(r, d)
    BY <2>3, <2>9, <2>10, GoesOn DEF Goes
  <2>12. Goes(d, ScheduleNext(d, a))
    BY <2>9, ScheduleNextGoes
  <2>13. SampleFull(r, a, c) = ScheduleNext(d, a)
    BY <1>1, <1>7, <2>1, <2>4, <2>6 DEF SampleFull
  <2> QED BY <2>11, <2>12, <2>13, GoesOn
<1> QED BY <1>5, <1>6, <1>7

-----------------------------------------------------------------------------
(* SendSTR.                                                                 *)

(* A task is free, or taken, to send; a cell that is not there is not.      *)
LEMMA TaskBusy ==
  ASSUME NEW task, NEW t \in TaskCells \cup {0}, NEW b \in BOOLEAN, TasksOK(task)
  PROVE  TasksOK([task EXCEPT ![t].sendbusy = b])
<1>1. CASE t \in TaskCells
  BY <1>1, TaskFields, Zenon
<1>2. CASE t \notin TaskCells
  <2>1. task \in [TaskCells -> TaskRec]
    BY DEF TasksOK
  <2>2. [task EXCEPT ![t].sendbusy = b] = task
    BY ONLY <1>2, <2>1
  <2> QED BY <2>2
<1> QED BY <1>1, <1>2

(* StreamServed of a state r, and that a sendDone is owed to what is sent.  *)
Streamed(r) == r.str # <<>> \/ r.retry # 0 => r.strpop \/ r.tx # 0
Owed(r)     == r.sending # 0 => r.tx # 0

(* From r to d SendSTR has done something and left nothing waiting in vain. *)
StrDone(r, d) ==
  /\ Typed(d) /\ SampStill(r, d) /\ PktStill(r, d)
  /\ Owed(d) /\ (d.wild \/ Streamed(d))

(* The same where a sendDone was owed to what was being sent before.        *)
StrTried(r, d) ==
  /\ Typed(d) /\ SampStill(r, d) /\ PktStill(r, d)
  /\ Owed(r) => StrDone(r, d)

StrFields == {"str", "sending", "retry", "strpop", "tx", "conn", "task", "atask", "wild"}

LEMMA StrOthers ==
  ASSUME NEW r, NEW d, Else(d, r, StrFields)
  PROVE  SampStill(r, d) /\ PktStill(r, d)
<1>1. \A f \in Fields \ StrFields : d[f] = r[f]
  BY DEF Else
<1>2. /\ d.adc = r.adc /\ d.cut = r.cut /\ d.adcBusy = r.adcBusy /\ d.handle = r.handle
      /\ d.stimer = r.stimer /\ d.samp = r.samp
  BY ONLY <1>1 DEF Fields, StrFields
<1>3. /\ d.pkt = r.pkt /\ d.pktpop = r.pktpop /\ d.pretry = r.pretry /\ d.ptx = r.ptx
      /\ d.be = r.be /\ d.flight = r.flight
  BY ONLY <1>1 DEF Fields, StrFields
<1> QED BY <1>2, <1>3 DEF SampStill, PktStill

LEMMA StrAfter ==
  ASSUME NEW r, NEW d, NEW e, Goes(r, d), StrDone(d, e)
  PROVE  StrDone(r, e)
BY DEF Goes, Quiet, StrDone, SampStill, PktStill

LEMMA StrQueueTried ==
  ASSUME NEW r, NEW a \in AtaskCells, Typed(r), TaskOf(r, a) \in TaskCells
  PROVE  StrTried(r, StrQueue(r, a))
<1>1. PICK e : e = RemoveTask(r, "str", TaskOf(r, a))
  OBVIOUS
<1>2. Goes(r, e) /\ Typed(e)
  BY <1>1, RemoveTaskGoes DEF Goes
<1>3. PICK d : d = [e EXCEPT !.str = Append(@, a), !.strpop = TRUE,
                             !.task[TaskOf(r, a)].sendbusy = TRUE]
  OBVIOUS
<1>4. /\ Else(d, e, {"str", "strpop", "task"}) /\ d.str = Append(e.str, a) /\ d.strpop
      /\ d.task = [e.task EXCEPT ![TaskOf(r, a)].sendbusy = TRUE]
      /\ d.sending = e.sending /\ d.tx = e.tx
  BY <1>2, <1>3 DEF Typed, Else, Fields
<1>5. d.str \in Seq(AtaskCells)
  <2>1. e.str \in Seq(AtaskCells)
    BY <1>2 DEF Typed
  <2> QED BY ONLY <1>4, <2>1, a \in AtaskCells, AppendProperties
<1>6. TasksOK(d.task)
  <2>1. TasksOK(e.task)
    BY <1>2 DEF Typed
  <2>2. TasksOK([e.task EXCEPT ![TaskOf(r, a)].sendbusy = TRUE])
    BY <2>1, TaskBusy, Zenon
  <2> QED BY ONLY <1>4, <2>2, Zenon
<1>7. Typed(d)
  BY <1>2, <1>4, <1>5, <1>6, TypeKept
<1>8. SampStill(e, d) /\ PktStill(e, d)
  BY <1>4, StrOthers DEF Else, StrFields
<1>9. Owed(r) => Owed(d)
  BY <1>2, <1>4 DEF Owed, Goes, Quiet, StrStill
<1>10. Owed(r) => StrDone(e, d)
  BY <1>4, <1>7, <1>8, <1>9 DEF StrDone, Streamed
<1>11. StrQueue(r, a) = d
  BY <1>1, <1>3 DEF StrQueue
<1>12. Typed(d) /\ SampStill(r, d) /\ PktStill(r, d)
  BY <1>2, <1>7, <1>8 DEF Goes, Quiet, SampStill, PktStill
<1> QED BY <1>2, <1>10, <1>11, <1>12, StrAfter DEF StrTried

LEMMA StrTransmitDone ==
  ASSUME NEW r, NEW a \in AtaskCells, NEW ok, Typed(r), r.sending = 0
  PROVE  StrDone(r, StrTransmit(r, a, ok))
<1>1. PICK t, id : t = TaskOf(r, a) /\ id = IdOf(r, t)
  OBVIOUS
<1>2. CASE ElementThis(r, a) # "str"
  <2>1. PICK d : d = Wild(r)
    OBVIOUS
  <2>2. Goes(r, d)
    BY <2>1, WildGoes
  <2>3. d.wild
    BY <2>1 DEF Wild, Typed, Fields
  <2>4. StrTransmit(r, a, ok) = d
    BY <1>2, <2>1 DEF StrTransmit
  <2> QED BY <2>2, <2>3, <2>4 DEF Goes, Quiet, StrStill, StrDone, Owed
<1>3. CASE ElementThis(r, a) = "str" /\ ok /\ r.task[t].conn = "connected" /\ StreamTakes(r, id)
  <2>1. PICK d : d = [r EXCEPT !.sending = a, !.task[t].conn = "sending", !.tx = id]
    OBVIOUS
  <2>2. /\ Else(d, r, {"sending", "task", "tx"}) /\ d.sending = a /\ d.tx = id
        /\ d.task = [r.task EXCEPT ![t].conn = "sending"]
    BY <2>1 DEF Typed, Else, Fields
  <2>3. t \in TaskCells /\ id \in Ids
    BY <1>1, <1>3, ElementIs
  <2>4. TasksOK(d.task)
    <3>1. TasksOK(r.task)
      BY DEF Typed
    <3>2. TasksOK([r.task EXCEPT ![t].conn = "sending"])
      BY <2>3, <3>1, TaskFields, Zenon
    <3> QED BY ONLY <2>2, <3>2, Zenon
  <2>5. Typed(d)
    BY <2>2, <2>4, TypeKept
  <2>6. SampStill(r, d) /\ PktStill(r, d)
    BY <2>2, StrOthers DEF Else, StrFields
  <2>7. d.tx # 0
    BY <2>2, <2>3, TaskCellsAssumption
  <2>8. StrTransmit(r, a, ok) = d
    BY <1>1, <1>3, <2>1 DEF StrTransmit
  <2> QED BY <2>5, <2>6, <2>7, <2>8 DEF StrDone, Owed, Streamed
<1>4. CASE ElementThis(r, a) = "str" /\ ~(ok /\ r.task[t].conn = "connected" /\ StreamTakes(r, id))
  <2>1. PICK d : d = [r EXCEPT !.retry = a, !.strpop = TRUE]
    OBVIOUS
  <2>2. /\ Else(d, r, {"retry", "strpop"}) /\ d.retry = a /\ d.strpop /\ d.sending = r.sending
    BY <2>1 DEF Typed, Else, Fields
  <2>3. Typed(d)
    BY <2>2, TypeKept
  <2>4. SampStill(r, d) /\ PktStill(r, d)
    BY <2>2, StrOthers DEF Else, StrFields
  <2>5. StrTransmit(r, a, ok) = d
    BY <1>1, <1>4, <2>1 DEF StrTransmit
  <2> QED BY <2>2, <2>3, <2>4, <2>5 DEF StrDone, Owed, Streamed
<1> QED BY <1>2, <1>3, <1>4

(* pop_and_send is not posted any longer in r, which may wait for it.       *)
LEMMA StrPopTried ==
  ASSUME NEW r, NEW ok, Typed(r)
  PROVE  StrTried(r, StrPop(r, ok))
<1>1. SampStill(r, r) /\ PktStill(r, r)
  BY DEF SampStill, PktStill
<1>2. CASE r.sending # 0
  BY <1>1, <1>2 DEF StrPop, StrTried, StrDone, Streamed, Owed
<1>3. CASE r.sending = 0 /\ r.retry # 0
  <2>1. PICK d : d = [r EXCEPT !.retry = 0]
    OBVIOUS
  <2>2. Else(d, r, {"retry"}) /\ d.retry = 0 /\ d.sending = 0
    BY <1>3, <2>1 DEF Typed, Else, Fields
  <2>3. Typed(d)
    BY <2>2, TypeKept
  <2>4. Quiet(r, d)
    BY <2>2, QuietKept DEF Loud
  <2>5. r.retry \in AtaskCells
    BY <1>3 DEF Typed
  <2>6. StrDone(d, StrTransmit(d, r.retry, ok))
    BY <2>2, <2>3, <2>5, StrTransmitDone
  <2>7. StrPop(r, ok) = StrTransmit(d, r.retry, ok)
    BY <1>3, <2>1 DEF StrPop
  <2> QED BY <2>3, <2>4, <2>6, <2>7, StrAfter DEF Goes, StrTried, StrDone
<1>4. CASE r.sending = 0 /\ r.retry = 0 /\ r.str = <<>>
  BY <1>1, <1>4 DEF StrPop, StrTried, StrDone, Streamed, Owed
<1>5. CASE r.sending = 0 /\ r.retry = 0 /\ r.str # <<>>
  <2>1. PICK a : a = Head(r.str)
    OBVIOUS
  <2>2. PICK popped : popped = [r EXCEPT !.str = Tail(@)]
    OBVIOUS
  <2>3. /\ Else(popped, r, {"str"}) /\ popped.str = Tail(r.str)
        /\ popped.atask = r.atask /\ popped.task = r.task /\ popped.sending = 0
    BY <1>5, <2>2 DEF Typed, Else, Fields
  <2>4. a \in AtaskCells /\ Tail(r.str) \in Seq(AtaskCells)
    <3>1. r.str \in Seq(AtaskCells)
      BY DEF Typed
    <3> QED BY ONLY <1>5, <2>1, <3>1
  <2>5. Typed(popped)
    BY <2>3, <2>4, TypeKept
  <2>6. Quiet(r, popped)
    BY <1>5, <2>3, QuietKept DEF Loud
  <2>7. CASE Serializes(r.atask[a].data)
    <3>1. PICK d, x : x = Unpacked(r.atask[a].data) /\ d = [popped EXCEPT !.atask[a].data = x]
      OBVIOUS
    <3>2. /\ Else(d, popped, {"atask"}) /\ d.atask = [popped.atask EXCEPT ![a].data = x]
          /\ d.sending = 0
      BY <2>3, <2>5, <3>1 DEF Typed, Else, Fields
    <3>3. AtasksOK(d.atask)
      <4>1. AtasksOK(popped.atask)
        BY <2>5 DEF Typed
      <4>2. AtasksOK([popped.atask EXCEPT ![a].data = x])
        BY <2>4, <4>1, AtaskFields, Zenon
      <4> QED BY ONLY <3>2, <4>2, Zenon
    <3>4. Typed(d)
      BY <2>5, <3>2, <3>3, TypeKept
    <3>5. Quiet(popped, d)
      BY <3>2, QuietKept DEF Loud
    <3>6. Goes(r, d)
      BY <2>5, <2>6, <3>4, <3>5, GoesOn DEF Goes
    <3>7. StrDone(d, StrTransmit(d, a, ok))
      BY <2>4, <3>2, <3>4, StrTransmitDone
    <3>8. [popped EXCEPT !.atask[a].data = Unpacked(@)] = d
      BY <2>3, <2>4, <2>5, <3>1 DEF Typed, AtasksOK, AtaskOK, Fields
    <3>9. StrPop(r, ok) = StrTransmit(d, a, ok)
      BY <1>5, <2>1, <2>2, <2>7, <3>8 DEF StrPop
    <3> QED BY <3>6, <3>7, <3>9, StrAfter DEF StrTried, StrDone
  <2>8. CASE ~Serializes(r.atask[a].data)
    <3>1. PICK e : e = [popped EXCEPT !.task[TaskOf(r, a)].sendbusy = FALSE]
      OBVIOUS
    <3>2. /\ Else(e, popped, {"task"})
          /\ e.task = [popped.task EXCEPT ![TaskOf(r, a)].sendbusy = FALSE]
      BY <2>5, <3>1 DEF Typed, Else, Fields
    <3>3. TasksOK(e.task)
      <4>1. TasksOK(popped.task) /\ TaskOf(r, a) \in TaskCells \cup {0}
        BY <2>4, <2>5, CellTypes DEF Typed, TaskOf
      <4>2. TasksOK([popped.task EXCEPT ![TaskOf(r, a)].sendbusy = FALSE])
        BY <4>1, TaskBusy, Zenon
      <4> QED BY ONLY <3>2, <4>2, Zenon
    <3>4. Typed(e)
      BY <2>5, <3>2, <3>3, TypeKept
    <3>5. Quiet(popped, e)
      BY <3>2, QuietKept DEF Loud
    <3>6. PICK f : f = ScheduleNext(e, a)
      OBVIOUS
    <3>7. Goes(e, f) /\ Typed(f)
      BY <2>4, <3>4, <3>6, ScheduleNextGoes DEF Goes
    <3>8. Goes(r, f)
      BY <2>5, <2>6, <3>4, <3>5, <3>7, GoesOn DEF Goes
    <3>9. PICK d : d = [f EXCEPT !.strpop = TRUE]
      OBVIOUS
    <3>10. Else(d, f, {"strpop"}) /\ d.strpop /\ d.sending = f.sending /\ d.tx = f.tx
      BY <3>7, <3>9 DEF Typed, Else, Fields
    <3>11. Typed(d)
      BY <3>7, <3>10, TypeKept
    <3>12. SampStill(f, d) /\ PktStill(f, d)
      BY <3>10, StrOthers DEF Else, StrFields
    <3>13. d.sending = 0
      BY <1>5, <3>8, <3>10 DEF Goes, Quiet, StrStill
    <3>14. StrDone(f, d)
      BY <3>10, <3>11, <3>12, <3>13 DEF StrDone, Owed, Streamed
    <3>15. StrPop(r, ok) = d
      BY <1>5, <2>1, <2>2, <2>8, <3>1, <3>6, <3>9 DEF StrPop
    <3> QED BY <3>8, <3>14, <3>15, StrAfter DEF StrTried, StrDone
  <2> QED BY <2>7, <2>8
<1> QED BY <1>2, <1>3, <1>4, <1>5

LEMMA StrSendDoneKeeps ==
  ASSUME NEW r, Typed(r)
  PROVE  StrDone(r, StrSendDone(r))
<1>1. PICK a, t : a = r.sending /\ t = TaskOf(r, a)
  OBVIOUS
<1>2. CASE a = 0
  <2>1. PICK d : d = [r EXCEPT !.strpop = TRUE]
    OBVIOUS
  <2>2. Else(d, r, {"strpop"}) /\ d.strpop /\ d.sending = 0
    BY <1>1, <1>2, <2>1 DEF Typed, Else, Fields
  <2>3. Typed(d)
    BY <2>2, TypeKept
  <2>4. SampStill(r, d) /\ PktStill(r, d)
    BY <2>2, StrOthers DEF Else, StrFields
  <2>5. StrSendDone(r) = d
    BY <1>1, <1>2, <2>1 DEF StrSendDone
  <2> QED BY <2>2, <2>3, <2>4, <2>5 DEF StrDone, Owed, Streamed
<1>3. CASE a # 0
  <2>1. a \in AtaskCells /\ t \in TaskCells \cup {0}
    BY <1>1, <1>3, CellTypes DEF Typed, TaskOf
  <2>2. PICK done : done = IF t = 0 THEN r
                           ELSE [r EXCEPT !.task[t].sendbusy = FALSE,
                                   !.task[t].conn = IF ElementThis(r, a) = "str" /\ @ = "sending"
                                                    THEN "connected" ELSE @]
    OBVIOUS
  <2>3. Goes(r, done)
    <3>1. CASE t = 0
      BY <2>2, <3>1, Stays
    <3>2. CASE t # 0
      <4>1. PICK c : c = IF ElementThis(r, a) = "str" /\ r.task[t].conn = "sending"
                         THEN "connected" ELSE r.task[t].conn
        OBVIOUS
      <4>2. t \in TaskCells
        BY <2>1, <3>2
      <4>3. c \in {"none", "opening", "connected", "sending"} /\ r.task \in [TaskCells -> TaskRec]
        BY <4>1, <4>2 DEF Typed, TasksOK, TaskRec
      <4>4. PICK task : task = [r.task EXCEPT ![t].sendbusy = FALSE]
        OBVIOUS
      <4>5. TasksOK(task)
        BY <2>1, <4>4, TaskBusy DEF Typed
      <4>6. TasksOK([task EXCEPT ![t].conn = c])
        BY <4>2, <4>3, <4>5, TaskFields, Zenon
      <4>7. Else(done, r, {"task"}) /\ done.task = [task EXCEPT ![t].conn = c]
        BY <2>2, <3>2, <4>1, <4>2, <4>3, <4>4 DEF Typed, Else, Fields, TaskRec
      <4>8. TasksOK(done.task)
        BY ONLY <4>6, <4>7, Zenon
      <4>9. Typed(done)
        BY <4>7, <4>8, TypeKept
      <4>10. Quiet(r, done)
        BY <4>7, QuietKept DEF Loud
      <4> QED BY <4>9, <4>10 DEF Goes
    <3> QED BY <3>1, <3>2
  <2>4. PICK f : f = ScheduleNext(done, a)
    OBVIOUS
  <2>5. Goes(r, f) /\ Typed(f)
    BY <2>1, <2>3, <2>4, ScheduleNextGoes, GoesOn DEF Goes
  <2>6. PICK d : d = [f EXCEPT !.sending = 0, !.strpop = TRUE]
    OBVIOUS
  <2>7. Else(d, f, {"sending", "strpop"}) /\ d.strpop /\ d.sending = 0
    BY <2>5, <2>6 DEF Typed, Else, Fields
  <2>8. Typed(d)
    BY <2>5, <2>7, TypeKept
  <2>9. SampStill(f, d) /\ PktStill(f, d)
    BY <2>7, StrOthers DEF Else, StrFields
  <2>10. StrDone(f, d)
    BY <2>7, <2>8, <2>9 DEF StrDone, Owed, Streamed
  <2>11. StrSendDone(r) = d
    BY <1>1, <1>3, <2>2, <2>4, <2>6 DEF StrSendDone
  <2> QED BY <2>5, <2>10, <2>11, StrAfter
<1> QED BY <1>2, <1>3

LEMMA StrOpenDoneTried ==
  ASSUME NEW r, NEW i \in 1 .. 2, NEW success, Typed(r)
  PROVE  StrTried(r, StrOpenDone(r, i, success))
<1>1. PICK d : d = StrOpenDone(r, i, success)
  OBVIOUS
<1> DEFINE Mine(t) == success /\ r.task[t].busy /\ r.task[t].conn = "opening"
                        /\ IdOf(r, t) = r.conn[i].cid
           New(t) == IF Mine(t) THEN [r.task[t] EXCEPT !.conn = "connected", !.sendbusy = FALSE]
                     ELSE r.task[t]
<1>2. d.task = [t \in TaskCells |-> New(t)]
  BY <1>1 DEF StrOpenDone, Typed, Fields
<1>3. /\ Else(d, r, {"conn", "task", "strpop"}) /\ d.strpop
      /\ d.sending = r.sending /\ d.tx = r.tx
  BY <1>1 DEF StrOpenDone, Typed, Else, Fields
<1>4. ASSUME NEW t \in TaskCells
      PROVE  /\ New(t) \in TaskRec
             /\ New(t).busy => New(t).id \in Ids /\ New(t).built \in 0 .. Len(Chain[New(t).id])
  <2>1. PICK v : v = r.task[t]
    OBVIOUS
  <2>2. v \in TaskRec /\ (v.busy => v.id \in Ids /\ v.built \in 0 .. Len(Chain[v.id]))
    BY <2>1 DEF Typed, TasksOK
  <2>3. PICK w : w = [v EXCEPT !.conn = "connected", !.sendbusy = FALSE]
    OBVIOUS
  <2>4. w \in TaskRec /\ w.busy = v.busy /\ w.id = v.id /\ w.built = v.built
    BY <2>2, <2>3 DEF TaskRec
  <2>5. New(t) = v \/ New(t) = w
    BY <2>1, <2>3
  <2> QED BY <2>2, <2>4, <2>5
<1> HIDE DEF New
<1>5. TasksOK(d.task)
  BY <1>2, <1>4 DEF TasksOK
<1>6. Typed(d)
  BY <1>3, <1>5, TypeKept
<1>7. SampStill(r, d) /\ PktStill(r, d)
  BY <1>3, StrOthers DEF Else, StrFields
<1> QED BY <1>1, <1>3, <1>6, <1>7 DEF StrTried, StrDone, Owed, Streamed

-----------------------------------------------------------------------------
(* SendPkt.                                                                 *)

(* PacketServed of a state r.                                               *)
Packed(r) == r.pkt # <<>> \/ r.pretry # 0 => r.pktpop \/ r.ptx # {}

(* Some task sends without end-to-end acknowledgment.                       *)
BestEffort == \E id \in Ids : "be" \in Range(Chain[id])

(* From r to d SendPkt has done something, and left nothing waiting in vain *)
(* unless m_be_state is SEND_SENDING.                                       *)
PktDone(r, d) ==
  /\ Typed(d) /\ SampStill(r, d) /\ StrStill(r, d)
  /\ d.wild \/ d.be \/ Packed(d)
  /\ d.be => r.be \/ BestEffort

PktFields ==
  {"pkt", "pretry", "flight", "pktpop", "be", "sneak", "sneakTid", "ptx", "task", "atask",
   "wild"}

LEMMA PktOthers ==
  ASSUME NEW r, NEW d, Else(d, r, PktFields)
  PROVE  SampStill(r, d) /\ StrStill(r, d)
<1>1. \A f \in Fields \ PktFields : d[f] = r[f]
  BY DEF Else
<1>2. /\ d.adc = r.adc /\ d.cut = r.cut /\ d.adcBusy = r.adcBusy /\ d.handle = r.handle
      /\ d.stimer = r.stimer /\ d.samp = r.samp
  BY ONLY <1>1 DEF Fields, PktFields
<1>3. /\ d.str = r.str /\ d.strpop = r.strpop /\ d.sending = r.sending /\ d.retry = r.retry
      /\ d.tx = r.tx
  BY ONLY <1>1 DEF Fields, PktFields
<1> QED BY <1>2, <1>3 DEF SampStill, StrStill

LEMMA PktAfter ==
  ASSUME NEW r, NEW d, NEW e, Goes(r, d), PktDone(d, e)
  PROVE  PktDone(r, e)
BY DEF Goes, Quiet, PktDone, SampStill, StrStill, PktStill

LEMMA PktQueueDone ==
  ASSUME NEW r, NEW a \in AtaskCells, Typed(r), r.be => BestEffort,
         TaskOf(r, a) \in TaskCells
  PROVE  PktDone(r, PktQueue(r, a))
<1>1. PICK e : e = RemoveTask(r, "pkt", TaskOf(r, a))
  OBVIOUS
<1>2. Goes(r, e) /\ Typed(e)
  BY <1>1, RemoveTaskGoes DEF Goes
<1>3. PICK d : d = [e EXCEPT !.pkt = Append(@, a), !.pktpop = TRUE,
                             !.task[TaskOf(r, a)].sendbusy = TRUE]
  OBVIOUS
<1>4. /\ Else(d, e, {"pkt", "pktpop", "task"}) /\ d.pkt = Append(e.pkt, a) /\ d.pktpop
      /\ d.task = [e.task EXCEPT ![TaskOf(r, a)].sendbusy = TRUE] /\ d.be = e.be
  BY <1>2, <1>3 DEF Typed, Else, Fields
<1>5. d.pkt \in Seq(AtaskCells)
  <2>1. e.pkt \in Seq(AtaskCells)
    BY <1>2 DEF Typed
  <2> QED BY ONLY <1>4, <2>1, a \in AtaskCells, AppendProperties
<1>6. TasksOK(d.task)
  <2>1. TasksOK(e.task)
    BY <1>2 DEF Typed
  <2>2. TasksOK([e.task EXCEPT ![TaskOf(r, a)].sendbusy = TRUE])
    BY <2>1, TaskBusy, Zenon
  <2> QED BY ONLY <1>4, <2>2, Zenon
<1>7. Typed(d)
  BY <1>2, <1>4, <1>5, <1>6, TypeKept
<1>8. SampStill(e, d) /\ StrStill(e, d)
  BY <1>4, PktOthers DEF Else, PktFields
<1>9. PktDone(e, d)
  BY <1>4, <1>7, <1>8 DEF PktDone, Packed
<1>10. PktQueue(r, a) = d
  BY <1>1, <1>3 DEF PktQueue
<1> QED BY <1>2, <1>9, <1>10, PktAfter

LEMMA PktTransmitDone ==
  ASSUME NEW r, NEW a \in AtaskCells, NEW ok, NEW room, Typed(r)
  PROVE  PktDone(r, PktTransmit(r, a, ok, room))
<1>1. PICK t, id : t = TaskOf(r, a) /\ id = IdOf(r, t)
  OBVIOUS
<1>2. PICK e2e, kind : e2e = (ElementThis(r, a) = "pkt") /\ kind = IF e2e THEN "ack" ELSE "be"
  OBVIOUS
<1>3. CASE ElementThis(r, a) \notin {"pkt", "be"}
  <2>1. PICK d : d = Wild(r)
    OBVIOUS
  <2>2. Goes(r, d)
    BY <2>1, WildGoes
  <2>3. d.wild
    BY <2>1 DEF Wild, Typed, Fields
  <2>4. PktTransmit(r, a, ok, room) = d
    BY <1>3, <2>1 DEF PktTransmit
  <2> QED BY <2>2, <2>3, <2>4 DEF Goes, Quiet, PktStill, PktDone
<1>4. CASE ElementThis(r, a) \in {"pkt", "be"} /\ ~(ok /\ PacketTakes(r, id, kind))
  <2>1. PICK d : d = [r EXCEPT !.pretry = a, !.pktpop = TRUE]
    OBVIOUS
  <2>2. /\ Else(d, r, {"pretry", "pktpop"}) /\ d.pretry = a /\ d.pktpop /\ d.be = r.be
    BY <2>1 DEF Typed, Else, Fields
  <2>3. Typed(d)
    BY <2>2, TypeKept
  <2>4. SampStill(r, d) /\ StrStill(r, d)
    BY <2>2, PktOthers DEF Else, PktFields
  <2>5. PktTransmit(r, a, ok, room) = d
    BY <1>1, <1>2, <1>4, <2>1 DEF PktTransmit
  <2> QED BY <2>2, <2>3, <2>4, <2>5 DEF PktDone, Packed
<1>5. CASE ElementThis(r, a) \in {"pkt", "be"} /\ ok /\ PacketTakes(r, id, kind)
  <2>1. /\ t \in TaskCells /\ id \in Ids
        /\ ElementThis(r, a) = "be" => BestEffort
    <3>1. /\ t \in TaskCells /\ id \in Ids
          /\ r.atask[a].idx \in 1 .. Len(Chain[id])
          /\ ElementThis(r, a) = Chain[id][r.atask[a].idx]
      BY <1>1, <1>5, ElementIs
    <3>2. Chain[id] \in Seq(Kinds)
      BY <3>1, TaskCellsAssumption
    <3>3. ElementThis(r, a) \in Range(Chain[id])
      BY <3>1, <3>2 DEF Range
    <3> QED BY <3>1, <3>3 DEF BestEffort
  <2>2. PICK sent : sent = [r EXCEPT !.ptx = @ \cup {<<id, kind>>}, !.pktpop = TRUE,
                              !.task[t].e2busy = e2e \/ @, !.be = ~e2e \/ @]
    OBVIOUS
  <2>3. PICK b \in BOOLEAN : b = (e2e \/ r.task[t].e2busy)
    OBVIOUS
  <2>4. /\ Else(sent, r, {"ptx", "pktpop", "task", "be"}) /\ sent.pktpop
        /\ sent.task = [r.task EXCEPT ![t].e2busy = b]
        /\ sent.be = (~e2e \/ r.be)
    <3>1. DOMAIN r = Fields /\ r.task \in [TaskCells -> TaskRec]
      BY DEF Typed, TasksOK
    <3>2. sent.task = [r.task EXCEPT ![t].e2busy = e2e \/ @]
      BY ONLY <2>2, <3>1 DEF Fields
    <3>3. [r.task EXCEPT ![t].e2busy = e2e \/ @] = [r.task EXCEPT ![t].e2busy = b]
      BY ONLY <2>3
    <3> QED BY <2>2, <3>1, <3>2, <3>3 DEF Else, Fields
  <2>5. TasksOK(sent.task)
    <3>1. TasksOK(r.task)
      BY DEF Typed
    <3>2. TasksOK([r.task EXCEPT ![t].e2busy = b])
      BY <2>1, <3>1, TaskFields, Zenon
    <3> QED BY ONLY <2>4, <3>2, Zenon
  <2>6. Typed(sent)
    BY <2>4, <2>5, TypeKept
  <2>7. SampStill(r, sent) /\ StrStill(r, sent)
    BY <2>4, PktOthers DEF Else, PktFields
  <2>8. sent.be => r.be \/ BestEffort
    BY <1>2, <1>5, <2>1, <2>4
  <2>9. PktDone(r, sent)
    BY <2>4, <2>6, <2>7, <2>8 DEF PktDone, Packed
  <2>10. CASE room
    <3>1. PICK d, c : /\ c = [a |-> a, t |-> t, tid |-> id]
                      /\ d = [sent EXCEPT !.flight = Append(@, c)]
      OBVIOUS
    <3>2. /\ Else(d, sent, {"flight"}) /\ d.flight = Append(sent.flight, c)
          /\ d.pktpop = sent.pktpop /\ d.be = sent.be
      BY <2>6, <3>1 DEF Typed, Else, Fields
    <3>3. d.flight \in Seq(Items)
      <4>1. sent.flight \in Seq(Items) /\ c \in Items
        BY <2>1, <2>6, <3>1 DEF Typed, Items
      <4> QED BY ONLY <3>2, <4>1, AppendProperties
    <3>4. Typed(d)
      BY <2>6, <3>2, <3>3, TypeKept
    <3>5. Else(d, r, PktFields)
      BY <2>4, <3>2 DEF Else, PktFields
    <3>6. SampStill(r, d) /\ StrStill(r, d)
      BY <3>5, PktOthers
    <3>7. PktTransmit(r, a, ok, room) = d
      BY <1>1, <1>2, <1>5, <2>2, <2>10, <3>1 DEF PktTransmit
    <3> QED BY <2>4, <2>8, <3>2, <3>4, <3>6, <3>7 DEF PktDone, Packed
  <2>11. CASE ~room
    <3>1. PICK e : e = Kill(sent, t)
      OBVIOUS
    <3>2. Goes(sent, e) /\ Typed(e)
      BY <2>1, <2>6, <3>1, KillGoes DEF Goes
    <3>3. PICK f : f = [e EXCEPT !.task[t].sendbusy = FALSE]
      OBVIOUS
    <3>4. Else(f, e, {"task"}) /\ f.task = [e.task EXCEPT ![t].sendbusy = FALSE]
      BY <3>2, <3>3 DEF Typed, Else, Fields
    <3>5. TasksOK(f.task)
      <4>1. TasksOK(e.task)
        BY <3>2 DEF Typed
      <4>2. TasksOK([e.task EXCEPT ![t].sendbusy = FALSE])
        BY <2>1, <4>1, TaskBusy, Zenon
      <4> QED BY ONLY <3>4, <4>2, Zenon
    <3>6. Typed(f)
      BY <3>2, <3>4, <3>5, TypeKept
    <3>7. Quiet(e, f)
      BY <3>4, QuietKept DEF Loud
    <3>8. PICK d : d = AtaskDelete(f, a)
      OBVIOUS
    <3>9. Goes(f, d)
      BY <3>6, <3>8, AtaskDeleteGoes
    <3>10. Goes(sent, d)
      BY <3>2, <3>6, <3>7, <3>9, GoesOn, ZenonT(30) DEF Goes
    <3>11. d.pktpop /\ d.be = sent.be
      BY <2>4, <3>10, ZenonT(30) DEF Goes, Quiet, PktStill
    <3>12. PktTransmit(r, a, ok, room) = d
      BY <1>1, <1>2, <1>5, <2>2, <2>11, <3>1, <3>3, <3>8 DEF PktTransmit
    <3>13. SampStill(r, d) /\ StrStill(r, d)
      BY <2>7, <3>10 DEF Goes, Quiet, SampStill, StrStill
    <3> QED BY <2>8, <3>10, <3>11, <3>12, <3>13 DEF PktDone, Packed, Goes
  <2> QED BY <2>10, <2>11
<1> QED BY <1>3, <1>4, <1>5

(* pop_and_send is not posted any longer in r, which may wait for it.       *)
LEMMA PktPopDone ==
  ASSUME NEW r, NEW ok, NEW room, Typed(r)
  PROVE  PktDone(r, PktPop(r, ok, room))
<1>1. SampStill(r, r) /\ StrStill(r, r)
  BY DEF SampStill, StrStill
<1>2. CASE r.sneak = "pending" /\ ok /\ PacketTakes(r, r.sneakTid, "ack")
  <2>1. PICK p : p = <<r.sneakTid, "ack">>
    OBVIOUS
  <2>2. PICK d : d = [r EXCEPT !.sneak = "sending", !.ptx = @ \cup {p}]
    OBVIOUS
  <2>3. Else(d, r, {"sneak", "ptx"}) /\ d.ptx = r.ptx \cup {p} /\ d.be = r.be
    BY <2>2 DEF Typed, Else, Fields
  <2>4. Typed(d)
    BY <2>3, TypeKept
  <2>5. SampStill(r, d) /\ StrStill(r, d)
    BY <2>3, PktOthers DEF Else, PktFields
  <2>6. d.ptx # {}
    BY <2>3
  <2>7. PktPop(r, ok, room) = d
    BY <1>2, <2>1, <2>2 DEF PktPop
  <2> QED BY <2>3, <2>4, <2>5, <2>6, <2>7 DEF PktDone, Packed
<1>3. CASE r.sneak = "pending" /\ ~(ok /\ PacketTakes(r, r.sneakTid, "ack"))
  <2>1. PICK d : d = [r EXCEPT !.pktpop = TRUE]
    OBVIOUS
  <2>2. Else(d, r, {"pktpop"}) /\ d.pktpop /\ d.be = r.be
    BY <2>1 DEF Typed, Else, Fields
  <2>3. Typed(d)
    BY <2>2, TypeKept
  <2>4. SampStill(r, d) /\ StrStill(r, d)
    BY <2>2, PktOthers DEF Else, PktFields
  <2>5. PktPop(r, ok, room) = d
    BY <1>3, <2>1 DEF PktPop
  <2> QED BY <2>2, <2>3, <2>4, <2>5 DEF PktDone, Packed
<1>4. CASE r.sneak # "pending" /\ r.be
  BY <1>1, <1>4 DEF PktPop, PktDone
<1>5. CASE r.sneak # "pending" /\ ~r.be /\ r.pretry # 0
  <2>1. PICK d : d = [r EXCEPT !.pretry = 0]
    OBVIOUS
  <2>2. Else(d, r, {"pretry"}) /\ d.pretry = 0
    BY <1>5, <2>1 DEF Typed, Else, Fields
  <2>3. Typed(d)
    BY <2>2, TypeKept
  <2>4. Quiet(r, d)
    BY <2>2, QuietKept DEF Loud
  <2>5. r.pretry \in AtaskCells
    BY <1>5 DEF Typed
  <2>6. PktDone(d, PktTransmit(d, r.pretry, ok, room))
    BY <2>3, <2>5, PktTransmitDone
  <2>7. PktPop(r, ok, room) = PktTransmit(d, r.pretry, ok, room)
    BY <1>5, <2>1 DEF PktPop
  <2> QED BY <2>3, <2>4, <2>6, <2>7, PktAfter DEF Goes
<1>6. CASE r.sneak # "pending" /\ ~r.be /\ r.pretry = 0 /\ r.pkt = <<>>
  BY <1>1, <1>6 DEF PktPop, PktDone, Packed
<1>7. CASE r.sneak # "pending" /\ ~r.be /\ r.pretry = 0 /\ r.pkt # <<>>
  <2>1. PICK a : a = Head(r.pkt)
    OBVIOUS
  <2>2. PICK popped : popped = [r EXCEPT !.pkt = Tail(@)]
    OBVIOUS
  <2>3. /\ Else(popped, r, {"pkt"}) /\ popped.pkt = Tail(r.pkt)
        /\ popped.atask = r.atask /\ popped.task = r.task /\ popped.be = r.be
    BY <1>7, <2>2 DEF Typed, Else, Fields
  <2>4. a \in AtaskCells /\ Tail(r.pkt) \in Seq(AtaskCells)
    <3>1. r.pkt \in Seq(AtaskCells)
      BY DEF Typed
    <3> QED BY ONLY <1>7, <2>1, <3>1
  <2>5. Typed(popped)
    BY <2>3, <2>4, TypeKept
  <2>6. Quiet(r, popped)
    BY <1>7, <2>3, QuietKept DEF Loud
  <2>7. CASE ElementThis(r, a) = "pkt" /\ r.task[TaskOf(r, a)].e2busy
    <3>1. PICK d : d = [popped EXCEPT !.pkt = Append(@, a), !.pktpop = TRUE]
      OBVIOUS
    <3>2. /\ Else(d, popped, {"pkt", "pktpop"}) /\ d.pkt = Append(popped.pkt, a) /\ d.pktpop
          /\ d.be = popped.be
      BY <2>5, <3>1 DEF Typed, Else, Fields
    <3>3. d.pkt \in Seq(AtaskCells)
      <4>1. popped.pkt \in Seq(AtaskCells)
        BY <2>5 DEF Typed
      <4> QED BY ONLY <2>4, <3>2, <4>1, AppendProperties
    <3>4. Typed(d)
      BY <2>5, <3>2, <3>3, TypeKept
    <3>5. SampStill(popped, d) /\ StrStill(popped, d)
      BY <3>2, PktOthers DEF Else, PktFields
    <3>6. PktDone(popped, d)
      BY <3>2, <3>4, <3>5 DEF PktDone, Packed
    <3>7. PktPop(r, ok, room) = d
      BY <1>7, <2>1, <2>2, <2>7, <3>1 DEF PktPop
    <3> QED BY <2>5, <2>6, <3>6, <3>7, PktAfter DEF Goes
  <2>8. CASE ~(ElementThis(r, a) = "pkt" /\ r.task[TaskOf(r, a)].e2busy)
             /\ Serializes(r.atask[a].data)
    <3>1. PICK d, x : x = Unpacked(r.atask[a].data) /\ d = [popped EXCEPT !.atask[a].data = x]
      OBVIOUS
    <3>2. /\ Else(d, popped, {"atask"}) /\ d.atask = [popped.atask EXCEPT ![a].data = x]
      BY <2>3, <2>5, <3>1 DEF Typed, Else, Fields
    <3>3. AtasksOK(d.atask)
      <4>1. AtasksOK(popped.atask)
        BY <2>5 DEF Typed
      <4>2. AtasksOK([popped.atask EXCEPT ![a].data = x])
        BY <2>4, <4>1, AtaskFields, Zenon
      <4> QED BY ONLY <3>2, <4>2, Zenon
    <3>4. Typed(d)
      BY <2>5, <3>2, <3>3, TypeKept
    <3>5. Quiet(popped, d)
      BY <3>2, QuietKept DEF Loud
    <3>6. Goes(r, d)
      BY <2>5, <2>6, <3>4, <3>5, GoesOn DEF Goes
    <3>7. PktDone(d, PktTransmit(d, a, ok, room))
      BY <2>4, <3>4, PktTransmitDone
    <3>8. [popped EXCEPT !.atask[a].data = Unpacked(@)] = d
      BY <2>3, <2>4, <2>5, <3>1 DEF Typed, AtasksOK, AtaskOK, Fields
    <3>9. PktPop(r, ok, room) = PktTransmit(d, a, ok, room)
      BY <1>7, <2>1, <2>2, <2>8, <3>8 DEF PktPop
    <3> QED BY <3>6, <3>7, <3>9, PktAfter
  <2>9. CASE ~(ElementThis(r, a) = "pkt" /\ r.task[TaskOf(r, a)].e2busy)
             /\ ~Serializes(r.atask[a].data)
    <3>1. PICK e : e = [popped EXCEPT !.task[TaskOf(r, a)].sendbusy = FALSE]
      OBVIOUS
    <3>2. /\ Else(e, popped, {"task"})
          /\ e.task = [popped.task EXCEPT ![TaskOf(r, a)].sendbusy = FALSE]
      BY <2>5, <3>1 DEF Typed, Else, Fields
    <3>3. TasksOK(e.task)
      <4>1. TasksOK(popped.task) /\ TaskOf(r, a) \in TaskCells \cup {0}
        BY <2>4, <2>5, CellTypes DEF Typed, TaskOf
      <4>2. TasksOK([popped.task EXCEPT ![TaskOf(r, a)].sendbusy = FALSE])
        BY <4>1, TaskBusy, Zenon
      <4> QED BY ONLY <3>2, <4>2, Zenon
    <3>4. Typed(e)
      BY <2>5, <3>2, <3>3, TypeKept
    <3>5. Quiet(popped, e)
      BY <3>2, QuietKept DEF Loud
    <3>6. PICK f : f = ScheduleNext(e, a)
      OBVIOUS
    <3>7. Goes(e, f) /\ Typed(f)
      BY <2>4, <3>4, <3>6, ScheduleNextGoes DEF Goes
    <3>8. Goes(r, f)
      BY <2>5, <2>6, <3>4, <3>5, <3>7, GoesOn DEF Goes
    <3>9. PICK d : d = [f EXCEPT !.pktpop = TRUE]
      OBVIOUS
    <3>10. Else(d, f, {"pktpop"}) /\ d.pktpop /\ d.be = f.be
      BY <3>7, <3>9 DEF Typed, Else, Fields
    <3>11. Typed(d)
      BY <3>7, <3>10, TypeKept
    <3>12. SampStill(f, d) /\ StrStill(f, d)
      BY <3>10, PktOthers DEF Else, PktFields
    <3>13. PktDone(f, d)
      BY <3>10, <3>11, <3>12 DEF PktDone, Packed
    <3>14. PktPop(r, ok, room) = d
      BY <1>7, <2>1, <2>2, <2>9, <3>1, <3>6, <3>9 DEF PktPop
    <3> QED BY <3>8, <3>13, <3>14, PktAfter
  <2> QED BY <2>7, <2>8, <2>9
<1> QED BY <1>2, <1>3, <1>4, <1>5, <1>6, <1>7

(* What one sendDone brings about before pop_and_send is posted: active     *)
(* tasks may wait for it, and m_be_state may have become idle.              *)
Answers(r, d) ==
  /\ Typed(d) /\ SampStill(r, d) /\ StrStill(r, d)
  /\ d.be => r.be

LEMMA AnswersNone ==
  ASSUME NEW r, Typed(r)
  PROVE  Answers(r, r)
BY DEF Answers, SampStill, StrStill

LEMMA AnswersOn ==
  ASSUME NEW r, NEW d, NEW e, Answers(r, d), Answers(d, e)
  PROVE  Answers(r, e)
BY DEF Answers, SampStill, StrStill

LEMMA GoesAnswers ==
  ASSUME NEW r, NEW d, Goes(r, d)
  PROVE  Answers(r, d)
BY DEF Answers, Goes, Quiet, PktStill

LEMMA ItemDoneAnswers ==
  ASSUME NEW r, NEW c \in Items, Typed(r)
  PROVE  Answers(r, ItemDone(r, c))
<1>1. c.a \in AtaskCells /\ c.t \in TaskCells
  BY DEF Items
<1>2. PICK freed : freed = IF r.task[c.t].id # 0 /\ "pkt" \in Range(Chain[IdOf(r, c.t)])
                           THEN [r EXCEPT !.task[c.t].e2busy = FALSE]
                           ELSE [r EXCEPT !.be = FALSE]
  OBVIOUS
<1>3. Answers(r, freed)
  <2>1. CASE freed = [r EXCEPT !.task[c.t].e2busy = FALSE]
    <3>1. Else(freed, r, {"task"}) /\ freed.task = [r.task EXCEPT ![c.t].e2busy = FALSE]
      BY <2>1 DEF Typed, Else, Fields
    <3>2. TasksOK(freed.task)
      <4>1. TasksOK(r.task)
        BY DEF Typed
      <4>2. TasksOK([r.task EXCEPT ![c.t].e2busy = FALSE])
        BY <1>1, <4>1, TaskFields, Zenon
      <4> QED BY ONLY <3>1, <4>2, Zenon
    <3>3. Typed(freed)
      BY <3>1, <3>2, TypeKept
    <3>4. Quiet(r, freed)
      BY <3>1, QuietKept DEF Loud
    <3> QED BY <3>3, <3>4, GoesAnswers DEF Goes
  <2>2. CASE freed = [r EXCEPT !.be = FALSE]
    <3>1. Else(freed, r, {"be"}) /\ ~freed.be
      BY <2>2 DEF Typed, Else, Fields
    <3>2. Typed(freed)
      BY <3>1, TypeKept
    <3>3. SampStill(r, freed) /\ StrStill(r, freed)
      BY <3>1, PktOthers DEF Else, PktFields
    <3> QED BY <3>1, <3>2, <3>3 DEF Answers
  <2> QED BY <1>2, <2>1, <2>2
<1>4. Typed(freed)
  BY <1>3 DEF Answers
<1>5. PICK t : t = TaskOf(r, c.a)
  OBVIOUS
<1>6. CASE r.atask[c.a].data # 0
  <2>1. PICK d : d = [freed EXCEPT !.pkt = Append(@, c.a)]
    OBVIOUS
  <2>2. Else(d, freed, {"pkt"}) /\ d.pkt = Append(freed.pkt, c.a) /\ d.be = freed.be
    BY <1>4, <2>1 DEF Typed, Else, Fields
  <2>3. d.pkt \in Seq(AtaskCells)
    <3>1. freed.pkt \in Seq(AtaskCells)
      BY <1>4 DEF Typed
    <3> QED BY ONLY <1>1, <2>2, <3>1, AppendProperties
  <2>4. Typed(d)
    BY <1>4, <2>2, <2>3, TypeKept
  <2>5. SampStill(freed, d) /\ StrStill(freed, d)
    BY <2>2, PktOthers DEF Else, PktFields
  <2>6. Answers(freed, d)
    BY <2>2, <2>4, <2>5 DEF Answers
  <2>7. ItemDone(r, c) = d
    BY <1>2, <1>6, <2>1 DEF ItemDone
  <2> QED BY <1>3, <2>6, <2>7, AnswersOn
<1>7. CASE r.atask[c.a].data = 0 /\ t = 0
  <2>1. ItemDone(r, c) = Wild(freed)
    BY <1>2, <1>5, <1>7 DEF ItemDone
  <2> QED BY <1>3, <1>4, <2>1, WildGoes, GoesAnswers, AnswersOn
<1>8. CASE r.atask[c.a].data = 0 /\ t # 0
  <2>1. PICK e : e = [freed EXCEPT !.task[t].sendbusy = FALSE]
    OBVIOUS
  <2>2. Else(e, freed, {"task"}) /\ e.task = [freed.task EXCEPT ![t].sendbusy = FALSE]
    BY <1>4, <2>1 DEF Typed, Else, Fields
  <2>3. TasksOK(e.task)
    <3>1. TasksOK(freed.task) /\ t \in TaskCells \cup {0}
      BY <1>1, <1>4, <1>5, CellTypes DEF Typed, TaskOf
    <3>2. TasksOK([freed.task EXCEPT ![t].sendbusy = FALSE])
      BY <3>1, TaskBusy, Zenon
    <3> QED BY ONLY <2>2, <3>2, Zenon
  <2>4. Typed(e)
    BY <1>4, <2>2, <2>3, TypeKept
  <2>5. Quiet(freed, e)
    BY <2>2, QuietKept DEF Loud
  <2>6. Goes(e, ScheduleNext(e, c.a))
    BY <1>1, <2>4, ScheduleNextGoes
  <2>7. Goes(freed, ScheduleNext(e, c.a))
    BY <2>4, <2>5, <2>6, GoesOn DEF Goes
  <2>8. ItemDone(r, c) = ScheduleNext(e, c.a)
    BY <1>2, <1>5, <1>8, <2>1 DEF ItemDone
  <2> QED BY <1>3, <2>7, <2>8, GoesAnswers, AnswersOn
<1> QED BY <1>6, <1>7, <1>8

LEMMA ItemsDoneAnswers ==
  ASSUME NEW r, NEW tid, Typed(r)
  PROVE  Answers(r, ItemsDone(r, tid))
<1>1. r.flight \in Seq(Items)
  BY DEF Typed
<1>2. PICK n \in Nat : n = Len(r.flight)
  BY <1>1
<1> DEFINE At(g, k) == IF k = 0 THEN r
                       ELSE IF r.flight[k].tid = tid
                       THEN ItemDone(g[k - 1], r.flight[k]) ELSE g[k - 1]
           Upto(g, j) == [k \in 0 .. j |-> At(g, k)]
           R == {j \in 0 .. n : \E g : g = Upto(g, j)}
           out == CHOOSE g : g = Upto(g, n)
<1>3. 0 \in R
  <2>1. PICK g : g = [k \in 0 .. 0 |-> r]
    OBVIOUS
  <2>2. g = Upto(g, 0)
    BY <2>1
  <2> HIDE DEF Upto
  <2>3. \E h : h = Upto(h, 0)
    BY ONLY <2>2, Zenon
  <2> QED BY <1>2, <2>3
<1>4. ASSUME NEW j \in 1 .. n, j - 1 \in R
      PROVE  j \in R
  <2>1. PICK g : g = Upto(g, j - 1)
    BY <1>4
  <2>2. PICK h : h = [k \in 0 .. j |-> At(g, k)]
    OBVIOUS
  <2>3. ASSUME NEW k \in 0 .. j
        PROVE  h[k] = At(h, k)
    <3>1. k # 0 => k - 1 \in 0 .. (j - 1) /\ k - 1 \in 0 .. j
      OBVIOUS
    <3>2. k # 0 => h[k - 1] = g[k - 1]
      BY <2>1, <2>2, <3>1
    <3> QED BY <2>2, <3>2
  <2>4. h = Upto(h, j)
    BY <2>2, <2>3
  <2> HIDE DEF Upto
  <2>5. \E x : x = Upto(x, j)
    BY ONLY <2>4, Zenon
  <2>6. j \in 0 .. n
    BY <1>2
  <2> QED BY ONLY <2>5, <2>6, Zenon
<1> HIDE DEF R
<1>5. n \in R
  <2>1. 0 .. n \subseteq R
    BY ONLY <1>2, <1>3, <1>4, Climb
  <2> QED BY <1>2, <2>1
<1>6. \E g : g = Upto(g, n)
  BY <1>5 DEF R
<1>7. out = Upto(out, n)
  BY <1>6, Zenon
<1> HIDE DEF out
<1>8. ItemsDone(r, tid) = [out[n] EXCEPT !.flight = Only(@, {c \in Range(@) : c.tid # tid})]
  BY <1>2, Zenon DEF ItemsDone, out
<1> DEFINE W == {k \in 0 .. n : Answers(r, out[k])}
<1>9. 0 \in W
  <2>1. out[0] = r
    BY <1>2, <1>7
  <2> QED BY <1>2, <2>1, AnswersNone
<1>10. ASSUME NEW k \in 1 .. n, k - 1 \in W
       PROVE  k \in W
  <2>1. k \in 0 .. n /\ k # 0 /\ Answers(r, out[k - 1])
    BY <1>2, <1>10
  <2>2. out[k] = At(out, k)
    BY <1>7, <2>1
  <2>3. r.flight[k] \in Items
    BY <1>1, <1>2
  <2>4. Answers(out[k - 1], ItemDone(out[k - 1], r.flight[k]))
    BY <2>1, <2>3, ItemDoneAnswers DEF Answers
  <2>5. Answers(r, out[k])
    BY ONLY <2>1, <2>2, <2>4, AnswersOn
  <2> QED BY <2>1, <2>5
<1> HIDE DEF W
<1>11. n \in W
  <2>1. 0 .. n \subseteq W
    BY ONLY <1>2, <1>9, <1>10, Climb
  <2> QED BY <1>2, <2>1
<1>12. PICK e : e = out[n] /\ Answers(r, e)
  BY <1>11 DEF W
<1>13. PICK S : S = {c \in Range(e.flight) : c.tid # tid}
  OBVIOUS
<1>14. PICK d : d = [e EXCEPT !.flight = Only(e.flight, S)]
  OBVIOUS
<1>15. Typed(e)
  BY <1>12 DEF Answers
<1>16. Else(d, e, {"flight"}) /\ d.flight = Only(e.flight, S) /\ d.be = e.be
  BY <1>14, <1>15 DEF Typed, Else, Fields
<1>17. d.flight \in Seq(Items)
  <2>1. e.flight \in Seq(Items)
    BY <1>15 DEF Typed
  <2> QED BY ONLY <1>16, <2>1, OnlyIn
<1>18. Typed(d)
  BY <1>15, <1>16, <1>17, TypeKept
<1>19. SampStill(e, d) /\ StrStill(e, d)
  BY <1>16, PktOthers DEF Else, PktFields
<1>20. Answers(e, d)
  BY <1>16, <1>18, <1>19 DEF Answers
<1>21. ItemsDone(r, tid) = d
  BY <1>8, <1>12, <1>13, <1>14
<1> QED BY <1>12, <1>20, <1>21, AnswersOn

LEMMA PktSendDoneKeeps ==
  ASSUME NEW r, NEW tid, Typed(r), r.be => BestEffort
  PROVE  PktDone(r, PktSendDone(r, tid))
<1>1. CASE r.sneak = "sending"
  <2>1. PICK d : d = [r EXCEPT !.sneak = "idle", !.pktpop = TRUE]
    OBVIOUS
  <2>2. Else(d, r, {"sneak", "pktpop"}) /\ d.pktpop /\ d.be = r.be
    BY <2>1 DEF Typed, Else, Fields
  <2>3. Typed(d)
    BY <2>2, TypeKept
  <2>4. SampStill(r, d) /\ StrStill(r, d)
    BY <2>2, PktOthers DEF Else, PktFields
  <2>5. PktSendDone(r, tid) = d
    BY <1>1, <2>1 DEF PktSendDone
  <2> QED BY <2>2, <2>3, <2>4, <2>5 DEF PktDone, Packed
<1>2. CASE r.sneak # "sending"
  <2>1. PICK e : e = ItemsDone(r, tid)
    OBVIOUS
  <2>2. Answers(r, e) /\ Typed(e)
    BY <2>1, ItemsDoneAnswers DEF Answers
  <2>3. PICK d : d = [e EXCEPT !.pktpop = TRUE]
    OBVIOUS
  <2>4. Else(d, e, {"pktpop"}) /\ d.pktpop /\ d.be = e.be
    BY <2>2, <2>3 DEF Typed, Else, Fields
  <2>5. Typed(d)
    BY <2>2, <2>4, TypeKept
  <2>6. SampStill(e, d) /\ StrStill(e, d)
    BY <2>4, PktOthers DEF Else, PktFields
  <2>7. Answers(r, d)
    BY <2>2, <2>4, <2>5, <2>6, AnswersOn DEF Answers
  <2>8. PktSendDone(r, tid) = d
    BY <1>2, <2>1, <2>3 DEF PktSendDone
  <2> QED BY <2>4, <2>7, <2>8 DEF PktDone, Packed, Answers
<1> QED BY <1>1, <1>2

-----------------------------------------------------------------------------
(* What holds of every state.                                               *)

(* The state r of a program that has used no memory wrongly.                *)
Sound(r) ==
  /\ Typed(r) /\ Sampled(r)
  /\ "log" \notin Faults => Owed(r) /\ Streamed(r)
  /\ r.be \/ Packed(r)
  /\ r.be => BestEffort

(* The state r of any.                                                      *)
Good(r) ==
  /\ Typed(r) /\ Sampled(r)
  /\ "log" \notin Faults => Owed(r) /\ (r.wild \/ Streamed(r))
  /\ r.wild \/ r.be \/ Packed(r)
  /\ r.be => BestEffort

LEMMA GoesGood ==
  ASSUME NEW r, NEW d, Sound(r), Goes(r, d)
  PROVE  Sound(d)
BY DEF Sound, Goes, Quiet, SampStill, StrStill, PktStill, Sampled, Honest, Owed, Streamed,
       Packed

LEMMA SampGood ==
  ASSUME NEW r, NEW d, Sound(r), SampDone(r, d)
  PROVE  Sound(d)
BY DEF Sound, SampDone, StrStill, PktStill, Owed, Streamed, Packed

LEMMA StrGood ==
  ASSUME NEW r, NEW d, Sound(r), StrTried(r, d)
  PROVE  Good(d)
BY DEF Sound, Good, StrTried, StrDone, SampStill, PktStill, Sampled, Honest, Packed

LEMMA PktGood ==
  ASSUME NEW r, NEW d, Sound(r), PktDone(r, d)
  PROVE  Good(d)
BY DEF Sound, Good, PktDone, SampStill, StrStill, Sampled, Honest, Owed, Streamed

LEMMA SoundIsGood ==
  ASSUME NEW r, Sound(r)
  PROVE  Good(r)
BY DEF Sound, Good

(* What is posted beside does no harm.                                      *)
LEMMA PostedGood ==
  ASSUME NEW r, Good(r), NEW b
  PROVE  /\ Good([r EXCEPT !.posted = b])
         /\ Good([r EXCEPT !.strpop = b \/ @])
         /\ Good([r EXCEPT !.pktpop = b \/ @])
<1>1. ASSUME NEW d, NEW F, F \in {{"posted"}, {"strpop"}, {"pktpop"}}, Else(d, r, F),
             r.strpop => d.strpop, r.pktpop => d.pktpop
      PROVE  Good(d)
  <2>1. Typed(d)
    BY <1>1, TypeKept DEF Good
  <2>2. Quiet(r, d)
    BY <1>1, QuietKept DEF Loud
  <2>3. d.wild = r.wild
    BY <1>1 DEF Else, Fields
  <2> QED BY <2>1, <2>2, <2>3 DEF Good, Quiet, SampStill, StrStill, PktStill, Sampled,
                                  Honest, Owed, Streamed, Packed
<1>2. Good([r EXCEPT !.posted = b])
  <2>1. PICK d : d = [r EXCEPT !.posted = b]
    OBVIOUS
  <2>2. Else(d, r, {"posted"}) /\ d.strpop = r.strpop /\ d.pktpop = r.pktpop
    BY <2>1 DEF Good, Typed, Else, Fields
  <2> QED BY <1>1, <2>1, <2>2
<1>3. Good([r EXCEPT !.strpop = b \/ @])
  <2>1. PICK d : d = [r EXCEPT !.strpop = b \/ @]
    OBVIOUS
  <2>2. Else(d, r, {"strpop"}) /\ d.strpop = (b \/ r.strpop) /\ d.pktpop = r.pktpop
    BY <2>1 DEF Good, Typed, Else, Fields
  <2> QED BY <1>1, <2>1, <2>2
<1>4. Good([r EXCEPT !.pktpop = b \/ @])
  <2>1. PICK d : d = [r EXCEPT !.pktpop = b \/ @]
    OBVIOUS
  <2>2. Else(d, r, {"pktpop"}) /\ d.pktpop = (b \/ r.pktpop) /\ d.strpop = r.strpop
    BY <2>1 DEF Good, Typed, Else, Fields
  <2> QED BY <1>1, <2>1, <2>2
<1> QED BY <1>2, <1>3, <1>4

(* The scheduler has run an element.                                        *)
LEMMA RunGood ==
  ASSUME NEW r, NEW a \in AtaskCells, NEW o \in RunElement(r, a), Sound(r),
         ElementThis(r, a) # "none"
  PROVE  Good(Ran(o, a))
<1>1. PICK t, kind : t = TaskOf(r, a) /\ kind = ElementThis(r, a)
  OBVIOUS
<1>2. Typed(r) /\ t \in TaskCells
  BY <1>1, ElementIs DEF Sound
<1>3. ASSUME NEW d, NEW act \in {"next", "terminate", "tkill"}, Goes(r, d),
             o = Outcome(d, act)
      PROVE  Good(Ran(o, a))
  <2>1. o.s = d /\ o.action = act
    BY <1>3 DEF Outcome
  <2>2. /\ Goes(d, ScheduleNext(d, a)) /\ Goes(d, AtaskDelete(d, a))
        /\ Goes(d, EndTask(d, a))
    BY <1>3, ScheduleNextGoes, AtaskDeleteGoes, EndTaskGoes DEF Goes
  <2>3. Ran(o, a) \in {ScheduleNext(d, a), AtaskDelete(d, a), EndTask(d, a)}
    BY <1>3, <2>1 DEF Ran
  <2>4. Goes(r, Ran(o, a))
    BY <1>3, <2>2, <2>3, GoesOn
  <2> QED BY <2>4, GoesGood, SoundIsGood
<1>4. ASSUME NEW d, Good(d), o = Outcome(d, "stop")
      PROVE  Good(Ran(o, a))
  BY <1>4 DEF Outcome, Ran
<1>5. Goes(r, Kill(r, t)) /\ Goes(r, Report(r, t)) /\ Goes(r, r)
  BY <1>2, KillGoes, ReportGoes, Stays
<1>6. CASE o \in {Killed(r, a), Outcome(r, "next"), Outcome(r, "terminate"), Outcome(r, "tkill"),
                  Outcome(Report(r, t), "next")}
  BY <1>1, <1>3, <1>5, <1>6 DEF Killed
<1>7. CASE kind \in {"wait", "every"} /\ \E due : o = Outcome(IssueRun(r, a, due), "stop")
  <2>1. PICK due : o = Outcome(IssueRun(r, a, due), "stop")
    BY <1>7
  <2>2. Good(IssueRun(r, a, due))
    BY <1>2, IssueRunGoes, GoesGood, SoundIsGood
  <2> QED BY <1>4, <2>1, <2>2
<1>8. CASE kind \in {"sample", "repeat"} /\ \E ok : o = Outcome(SampleRun(r, a, ok), "stop")
  <2>1. PICK ok : o = Outcome(SampleRun(r, a, ok), "stop")
    BY <1>8
  <2>2. Good(SampleRun(r, a, ok))
    BY <1>2, SampleRunDone, SampGood, SoundIsGood DEF Sound, Sampled
  <2> QED BY <1>4, <2>1, <2>2
<1>9. CASE \E x : o = Outcome([r EXCEPT !.atask[a].data = x], "next")
  <2>1. PICK x : o = Outcome([r EXCEPT !.atask[a].data = x], "next")
    BY <1>9
  <2>2. PICK d : d = [r EXCEPT !.atask[a].data = x]
    OBVIOUS
  <2>3. /\ Else(d, r, {"atask"}) /\ d.atask = [r.atask EXCEPT ![a].data = x]
    BY <1>2, <2>2 DEF Typed, Else, Fields
  <2>4. AtasksOK(d.atask)
    <3>1. AtasksOK(r.atask)
      BY <1>2 DEF Typed
    <3>2. AtasksOK([r.atask EXCEPT ![a].data = x])
      BY <3>1, AtaskFields, Zenon
    <3> QED BY ONLY <2>3, <3>2, Zenon
  <2>5. Typed(d)
    BY <1>2, <2>3, <2>4, TypeKept
  <2>6. Quiet(r, d)
    BY <2>3, QuietKept DEF Loud
  <2> QED BY <1>3, <2>1, <2>2, <2>5, <2>6 DEF Goes
<1>10. CASE o \in {Outcome(StrQueue(r, a), "stop"), Outcome(PktQueue(r, a), "stop")}
  <2>1. Good(StrQueue(r, a))
    BY <1>1, <1>2, StrQueueTried, StrGood
  <2>2. Good(PktQueue(r, a))
    BY <1>1, <1>2, PktQueueDone, PktGood DEF Sound
  <2> QED BY <1>4, <1>10, <2>1, <2>2
<1>11. \/ o \in {Killed(r, a), Outcome(r, "next"), Outcome(r, "terminate"), Outcome(r, "tkill"),
                 Outcome(Report(r, t), "next")}
       \/ kind \in {"wait", "every"} /\ \E due : o = Outcome(IssueRun(r, a, due), "stop")
       \/ kind \in {"sample", "repeat"} /\ \E ok : o = Outcome(SampleRun(r, a, ok), "stop")
       \/ \E x : o = Outcome([r EXCEPT !.atask[a].data = x], "next")
       \/ o \in {Outcome(StrQueue(r, a), "stop"), Outcome(PktQueue(r, a), "stop")}
  <2>1. CASE kind \in {"wait", "every"}
    <3>1. o \in {Outcome(IssueRun(r, a, due), "stop") :
                   due \in {d \in SUBSET Range(r.timers) : Scarce \/ Roomy(r, d)}}
            \/ o = Killed(r, a)
      BY <1>1, <2>1 DEF RunElement
    <3> QED BY ONLY <2>1, <3>1
  <2>2. CASE kind \in {"sample", "repeat"}
    <3>1. o \in {Outcome(SampleRun(r, a, ok), "stop") : ok \in AdcAccepts(r)}
            \/ o = Outcome(Report(r, t), "next")
      BY <1>1, <2>2 DEF RunElement
    <3> QED BY ONLY <2>2, <3>1
  <2>3. CASE kind = "count"
    <3>1. o \in {Outcome([r EXCEPT !.atask[a].data = Load[IdOf(r, t)]], "next")}
      BY <1>1, <2>3 DEF RunElement
    <3> QED BY ONLY <3>1
  <2>4. CASE kind \notin {"wait", "every", "sample", "repeat", "count"}
    <3>1. o \in {Killed(r, a), Outcome(r, "next"), Outcome(r, "terminate"), Outcome(r, "tkill"),
                 Outcome(StrQueue(r, a), "stop"), Outcome(PktQueue(r, a), "stop")}
      BY <1>1, <2>4 DEF RunElement
    <3> QED BY ONLY <3>1
  <2> QED BY <2>1, <2>2, <2>3, <2>4
<1> QED BY <1>6, <1>7, <1>8, <1>9, <1>10, <1>11

-----------------------------------------------------------------------------
(* The actions.                                                             *)

LEMMA InstallGood ==
  ASSUME NEW id \in Ids, Sound(s), Install(id)
  PROVE  Good(s')
<1>1. PICK t, a : t = FirstFree(s.task) /\ a = FirstFree(s.atask)
  OBVIOUS
<1>2. Typed(s)
  BY DEF Sound
<1>3. t \in TaskCells \cup {0} /\ a \in AtaskCells \cup {0}
  BY <1>1, <1>2, FirstFreeIn DEF Typed, TasksOK, AtasksOK, TaskCells, AtaskCells
<1>4. CASE t = 0
  <2>1. s' = [ReportId(s, id) EXCEPT !.seen = @ \cup {id}]
    BY <1>1, <1>4 DEF Install
  <2>2. PICK e : e = ReportId(s, id)
    OBVIOUS
  <2>3. Goes(s, e) /\ Typed(e)
    BY <1>2, <2>2, ReportGoes DEF Goes
  <2>4. PICK d : d = [e EXCEPT !.seen = @ \cup {id}]
    OBVIOUS
  <2>5. Else(d, e, {"seen"})
    BY <2>3, <2>4 DEF Typed, Else, Fields
  <2>6. Typed(d)
    BY <2>3, <2>5, TypeKept
  <2>7. Quiet(e, d)
    BY <2>5, QuietKept DEF Loud
  <2>8. Goes(s, d)
    BY <2>3, <2>6, <2>7, GoesOn DEF Goes
  <2> QED BY <2>1, <2>2, <2>4, <2>8, GoesGood, SoundIsGood
<1>5. CASE t # 0
  <2>1. PICK k \in 0 .. Len(Chain[id]) :
          LET built == BuildElements(t, id, k)
          IN  s' = IF k < Len(Chain[id]) \/ a = 0 THEN Kill(built, t)
                   ELSE Schedule([AtaskNew(built, a, t) EXCEPT !.installed = Append(@, t)], a)
    BY <1>1, <1>5 DEF Install
  <2>2. PICK b : b = BuildElements(t, id, k)
    OBVIOUS
  <2>3. Goes(s, b) /\ Typed(b)
    <3>1. PICK new : new = [FreeTask EXCEPT !.busy = TRUE, !.id = id, !.built = k]
      OBVIOUS
    <3>2. Chain[id] \in Seq(Kinds)
      BY TaskCellsAssumption
    <3>3. k \in Nat
      BY <3>2
    <3>4. new \in TaskRec /\ new.busy /\ new.id = id /\ new.built = k
      <4>1. new = [busy |-> TRUE, id |-> id, built |-> k, atasks |-> 0,
                   sendbusy |-> FALSE, conn |-> "none", e2busy |-> FALSE]
        BY ONLY <3>1 DEF FreeTask
      <4>2. id \in Ids /\ k \in Nat
        BY <3>3
      <4> QED BY ONLY <4>1, <4>2 DEF TaskRec
    <3>5. CASE "str" \in Range(SubSeq(Chain[id], 1, k))
      <4>1. PICK v : v = [new EXCEPT !.conn = "opening", !.sendbusy = TRUE]
        OBVIOUS
      <4>2. v \in TaskRec /\ v.busy /\ v.id = id /\ v.built = k
        BY <3>4, <4>1 DEF TaskRec
      <4>3. b = [s EXCEPT !.seen = @ \cup {id}, !.task[t] = v,
                   !.conn[Min(IdleConns)] = [cid |-> id, st |-> "syn"]]
        BY <2>2, <3>1, <3>5, <4>1 DEF BuildElements
      <4>4. Else(b, s, {"seen", "task", "conn"}) /\ b.task = [s.task EXCEPT ![t] = v]
        BY <1>2, <4>3 DEF Typed, Else, Fields
      <4>5. TasksOK(b.task)
        <5>1. TasksOK(s.task)
          BY <1>2 DEF Typed
        <5>2. TasksOK([s.task EXCEPT ![t] = v])
          BY <4>2, <5>1, TaskPut
        <5> QED BY ONLY <4>4, <5>2, Zenon
      <4>6. Typed(b)
        BY <1>2, <4>4, <4>5, TypeKept
      <4>7. Quiet(s, b)
        BY <4>4, QuietKept DEF Loud
      <4> QED BY <4>6, <4>7 DEF Goes
    <3>6. CASE "str" \notin Range(SubSeq(Chain[id], 1, k))
      <4>1. b = [s EXCEPT !.seen = @ \cup {id}, !.task[t] = new]
        BY <2>2, <3>1, <3>6 DEF BuildElements
      <4>2. Else(b, s, {"seen", "task"}) /\ b.task = [s.task EXCEPT ![t] = new]
        BY <1>2, <4>1 DEF Typed, Else, Fields
      <4>3. TasksOK(b.task)
        <5>1. TasksOK(s.task)
          BY <1>2 DEF Typed
        <5>2. TasksOK([s.task EXCEPT ![t] = new])
          BY <3>4, <5>1, TaskPut
        <5> QED BY ONLY <4>2, <5>2, Zenon
      <4>4. Typed(b)
        BY <1>2, <4>2, <4>3, TypeKept
      <4>5. Quiet(s, b)
        BY <4>2, QuietKept DEF Loud
      <4> QED BY <4>4, <4>5 DEF Goes
    <3> QED BY <3>5, <3>6
  <2>4. t \in TaskCells
    BY <1>3, <1>5
  <2>5. CASE k < Len(Chain[id]) \/ a = 0
    <3>1. s' = Kill(b, t)
      BY <2>1, <2>2, <2>5
    <3> QED BY <2>3, <2>4, <3>1, KillGoes, GoesOn, GoesGood, SoundIsGood
  <2>6. CASE ~(k < Len(Chain[id]) \/ a = 0)
    <3>1. a \in AtaskCells
      BY <1>3, <2>6
    <3>2. PICK e : e = AtaskNew(b, a, t)
      OBVIOUS
    <3>3. Goes(b, e) /\ Typed(e)
      BY <2>3, <2>4, <3>1, <3>2, AtaskNewGoes DEF Goes
    <3>4. PICK d : d = [e EXCEPT !.installed = Append(@, t)]
      OBVIOUS
    <3>5. Else(d, e, {"installed"}) /\ d.installed = Append(e.installed, t)
      BY <3>3, <3>4 DEF Typed, Else, Fields
    <3>6. d.installed \in Seq(TaskCells)
      <4>1. e.installed \in Seq(TaskCells)
        BY <3>3 DEF Typed
      <4> QED BY ONLY <2>4, <3>5, <4>1, AppendProperties
    <3>7. Typed(d)
      BY <3>3, <3>5, <3>6, TypeKept
    <3>8. Quiet(e, d)
      BY <3>5, QuietKept DEF Loud
    <3>9. Goes(d, Schedule(d, a))
      BY <3>1, <3>7, ScheduleGoes
    <3>10. Goes(s, Schedule(d, a))
      BY <2>3, <3>3, <3>7, <3>8, <3>9, GoesOn DEF Goes
    <3>11. s' = Schedule(d, a)
      BY <2>1, <2>2, <2>6, <3>2, <3>4
    <3> QED BY <3>10, <3>11, GoesGood, SoundIsGood
  <2> QED BY <2>5, <2>6
<1> QED BY <1>4, <1>5

(* The states that Delete goes through, of l being those it deletes.        *)
Deletes(out, l) ==
  /\ out[0] = s
  /\ \A k \in 1 .. Len(s.installed) :
       out[k] = IF s.installed[k] \in l
                THEN TaskDelete(RemoveTask(out[k - 1], "q", s.installed[k]), s.installed[k])
                ELSE out[k - 1]
  /\ s' = [out[Len(s.installed)] EXCEPT !.installed = Only(@, TaskCells \ l)]

LEMMA DeleteSteps ==
  ASSUME NEW ids, s.installed \in Seq(TaskCells), Delete(ids)
  PROVE  \E out : Deletes(out, {t \in TaskCells : IdOf(s, t) \in ids})
<1>1. s.installed \in Seq(TaskCells)
  OBVIOUS
<1>2. PICK n \in Nat : n = Len(s.installed)
  BY <1>1
<1> DEFINE Listed == {t \in TaskCells : IdOf(s, t) \in ids}
           Unscheduled(x, t) == TaskDelete(RemoveTask(x, "q", t), t)
<1> DEFINE At(g, k) == IF k = 0 THEN s
                       ELSE IF s.installed[k] \in Listed
                       THEN Unscheduled(g[k - 1], s.installed[k]) ELSE g[k - 1]
           Upto(g, j) == [k \in 0 .. j |-> At(g, k)]
           R == {j \in 0 .. n : \E g : g = Upto(g, j)}
           out == CHOOSE g : g = Upto(g, n)
<1>3. 0 \in R
  <2>1. PICK g : g = [k \in 0 .. 0 |-> s]
    OBVIOUS
  <2>2. g = Upto(g, 0)
    BY <2>1
  <2> HIDE DEF Upto
  <2>3. \E h : h = Upto(h, 0)
    BY ONLY <2>2, Zenon
  <2> QED BY <1>2, <2>3
<1>4. ASSUME NEW j \in 1 .. n, j - 1 \in R
      PROVE  j \in R
  <2>1. PICK g : g = Upto(g, j - 1)
    BY <1>4
  <2>2. PICK h : h = [k \in 0 .. j |-> At(g, k)]
    OBVIOUS
  <2>3. ASSUME NEW k \in 0 .. j
        PROVE  h[k] = At(h, k)
    <3>1. k # 0 => k - 1 \in 0 .. (j - 1) /\ k - 1 \in 0 .. j
      OBVIOUS
    <3>2. k # 0 => h[k - 1] = g[k - 1]
      BY <2>1, <2>2, <3>1
    <3> QED BY <2>2, <3>2
  <2>4. h = Upto(h, j)
    BY <2>2, <2>3
  <2> HIDE DEF Upto
  <2>5. \E x : x = Upto(x, j)
    BY ONLY <2>4, Zenon
  <2>6. j \in 0 .. n
    BY <1>2
  <2> QED BY ONLY <2>5, <2>6, Zenon
<1> HIDE DEF R
<1>5. n \in R
  <2>1. 0 .. n \subseteq R
    BY ONLY <1>2, <1>3, <1>4, Climb
  <2> QED BY <1>2, <2>1
<1>6. \E g : g = Upto(g, n)
  BY <1>5 DEF R
<1>7. out = Upto(out, n)
  BY <1>6, Zenon
<1> HIDE DEF out
<1>8. s' = [out[n] EXCEPT !.installed = Only(@, TaskCells \ Listed)]
  BY <1>2, Zenon DEF Delete, out
<1>9. out[0] = s
  BY <1>2, <1>7
<1>10. ASSUME NEW k \in 1 .. n
       PROVE  out[k] = At(out, k)
  <2>1. k \in 0 .. n
    BY <1>2
  <2> QED BY <1>7, <2>1
<1>11. \A k \in 1 .. n : out[k] = IF s.installed[k] \in Listed
                                THEN Unscheduled(out[k - 1], s.installed[k]) ELSE out[k - 1]
  BY <1>10
<1>12. Deletes(out, Listed)
  BY <1>2, <1>8, <1>9, <1>11 DEF Deletes
<1> QED BY ONLY <1>12, Zenon

LEMMA DeleteGoes ==
  ASSUME NEW ids, Typed(s), Delete(ids)
  PROVE  Goes(s, s')
<1>1. s.installed \in Seq(TaskCells)
  BY DEF Typed
<1>2. PICK n \in Nat : n = Len(s.installed)
  BY <1>1
<1>3. PICK l : l = {t \in TaskCells : IdOf(s, t) \in ids}
  OBVIOUS
<1>4. PICK out : Deletes(out, l)
  BY ONLY <1>1, <1>3, DeleteSteps, Delete(ids)
<1> DEFINE W == {k \in 0 .. n : Goes(s, out[k])}
<1>5. 0 \in W
  BY <1>2, <1>4, Stays DEF Deletes
<1>6. ASSUME NEW k \in 1 .. n, k - 1 \in W
      PROVE  k \in W
  <2>1. k \in 0 .. n /\ Goes(s, out[k - 1]) /\ s.installed[k] \in TaskCells
    BY <1>1, <1>2, <1>6
  <2>2. PICK e : e = RemoveTask(out[k - 1], "q", s.installed[k])
    OBVIOUS
  <2>3. out[k] = TaskDelete(e, s.installed[k]) \/ out[k] = out[k - 1]
    BY <1>2, <1>4, <2>2 DEF Deletes
  <2>4. Goes(out[k - 1], e) /\ Typed(e)
    BY <2>1, <2>2, RemoveTaskGoes DEF Goes
  <2>5. Goes(e, TaskDelete(e, s.installed[k]))
    BY <2>1, <2>4, TaskDeleteGoes
  <2>6. Goes(s, out[k])
    BY ONLY <2>1, <2>3, <2>4, <2>5, GoesOn
  <2> QED BY <2>1, <2>6
<1> HIDE DEF W
<1>7. n \in W
  <2>1. 0 .. n \subseteq W
    BY ONLY <1>2, <1>5, <1>6, Climb
  <2> QED BY <1>2, <2>1
<1>8. PICK e : e = out[n] /\ Goes(s, e)
  BY <1>7 DEF W
<1>9. PICK d : d = [e EXCEPT !.installed = Only(e.installed, TaskCells \ l)]
  OBVIOUS
<1>10. Typed(e)
  BY <1>8 DEF Goes
<1>11. Else(d, e, {"installed"}) /\ d.installed = Only(e.installed, TaskCells \ l)
  BY <1>9, <1>10 DEF Typed, Else, Fields
<1>12. d.installed \in Seq(TaskCells)
  <2>1. e.installed \in Seq(TaskCells)
    BY <1>10 DEF Typed
  <2> QED BY ONLY <1>11, <2>1, OnlyIn
<1>13. Typed(d)
  BY <1>10, <1>11, <1>12, TypeKept
<1>14. Quiet(e, d)
  BY <1>11, QuietKept DEF Loud
<1>15. s' = d
  BY <1>2, <1>4, <1>8, <1>9 DEF Deletes
<1> QED BY <1>8, <1>13, <1>14, <1>15, GoesOn DEF Goes

LEMMA RunsGood ==
  ASSUME Sound(s), Run
  PROVE  Good(s')
<1>1. Typed(s)
  BY DEF Sound
<1>2. CASE s.q = <<>>
  <2>1. s' = [s EXCEPT !.posted = FALSE]
    BY <1>2, Zenon DEF Run
  <2>2. Good(s)
    BY SoundIsGood
  <2> QED BY ONLY <2>1, <2>2, PostedGood, Zenon
<1>3. CASE s.q # <<>> /\ ElementThis(s, Head(s.q)) = "none"
  BY <1>1, <1>3, WildGoes, GoesGood, SoundIsGood DEF Run
<1>4. CASE s.q # <<>> /\ ElementThis(s, Head(s.q)) # "none"
  <2>1. PICK a : a = Head(s.q)
    OBVIOUS
  <2>2. PICK popped : popped = [s EXCEPT !.q = Tail(@)]
    OBVIOUS
  <2>3. /\ Else(popped, s, {"q"}) /\ popped.q = Tail(s.q)
        /\ popped.atask = s.atask /\ popped.task = s.task
    BY <1>1, <2>2 DEF Typed, Else, Fields
  <2>4. a \in AtaskCells /\ Tail(s.q) \in Seq(AtaskCells)
    <3>1. s.q \in Seq(AtaskCells)
      BY <1>1 DEF Typed
    <3> QED BY ONLY <1>4, <2>1, <3>1
  <2>5. Typed(popped)
    BY <1>1, <2>3, <2>4, TypeKept, Zenon
  <2>6. Quiet(s, popped)
    BY <2>3, QuietKept, ZenonT(30) DEF Loud
  <2>7. Sound(popped)
    BY <2>5, <2>6, GoesGood, ZenonT(30) DEF Goes
  <2>8. ElementThis(popped, a) # "none"
    BY <1>4, <2>1, <2>3, Zenon DEF ElementThis
  <2>9. PICK o \in RunElement(popped, a) :
          s' \in {[x EXCEPT !.posted = x.q # <<>>] : x \in {Ran(o, a)}}
    BY <1>4, <2>1, <2>2 DEF Run
  <2>10. Good(Ran(o, a))
    BY <2>4, <2>7, <2>8, RunGood
  <2>11. PICK x : x = Ran(o, a) /\ s' = [x EXCEPT !.posted = x.q # <<>>]
    BY ONLY <2>9
  <2> QED BY <2>10, <2>11, PostedGood
<1> QED BY <1>2, <1>3, <1>4

LEMMA KillItGood ==
  ASSUME Sound(s), KillIt
  PROVE  Good(s')
<1>1. PICK e : e = Destroy(s, s.kill)
  OBVIOUS
<1>2. Goes(s, e) /\ Typed(e)
  BY <1>1, DestroyGoes DEF Sound, Typed, Goes
<1>3. PICK d : d = [e EXCEPT !.kill = 0]
  OBVIOUS
<1>4. Else(d, e, {"kill"}) /\ d.kill = 0
  BY <1>2, <1>3 DEF Typed, Else, Fields
<1>5. Typed(d)
  BY <1>2, <1>4, TypeKept
<1>6. Quiet(e, d)
  BY <1>4, QuietKept DEF Loud
<1>7. Goes(s, d) /\ s' = d
  BY <1>1, <1>2, <1>3, <1>5, <1>6, GoesOn DEF Goes, KillIt
<1> QED BY <1>7, GoesGood, SoundIsGood

(* Sample goes on in a state r in which it was done with what it did.       *)
LEMMA NextItemsGood ==
  ASSUME NEW r, NEW d \in NextItems(r), Sound(s), Typed(r), Honest(r),
         StrStill(s, r), PktStill(s, r)
  PROVE  Good(d)
<1>1. SampDone(r, d)
  BY NextItemsDone
<1>2. SampDone(s, d)
  BY <1>1 DEF SampDone, StrStill, PktStill
<1> QED BY <1>2, SampGood, SoundIsGood

LEMMA SampleFiredGood ==
  ASSUME Sound(s), SampleFired
  PROVE  Good(s')
<1>1. PICK r : r = [s EXCEPT !.stimer = FALSE]
  OBVIOUS
<1>2. Else(r, s, {"stimer"}) /\ r.adc = s.adc /\ r.adcBusy = s.adcBusy /\ r.cut = s.cut
  BY <1>1 DEF Sound, Typed, Else, Fields
<1>3. Typed(r)
  BY <1>2, TypeKept DEF Sound
<1>4. StrStill(s, r) /\ PktStill(s, r) /\ Honest(r)
  BY <1>2, OthersStill DEF Else, SampFields, Sound, Sampled, Honest
<1>5. s' \in NextItems(r)
  BY <1>1 DEF SampleFired
<1> QED BY <1>3, <1>4, <1>5, NextItemsGood

(* A conversion is taken off the list of those that are under way.          *)
LEMMA AdcRemoved ==
  ASSUME NEW T, NEW l \in Seq(T), NEW i \in DOMAIN l
  PROVE  RemoveAt(l, i) \in Seq(T)
<1>1. i \in 1 .. Len(l) /\ Len(l) \in Nat
  OBVIOUS
<1>2. SubSeq(l, 1, i - 1) \in Seq(T) /\ SubSeq(l, i + 1, Len(l)) \in Seq(T)
  BY <1>1, SubSeqProperties
<1> QED BY <1>2, ConcatProperties DEF RemoveAt

LEMMA DataReadyGood ==
  ASSUME Sound(s), DataReady
  PROVE  Good(s')
<1>1. PICK i \in DOMAIN s.adc :
        s' = [s EXCEPT !.adcBusy = FALSE, !.mdata = s.adc[i], !.handle = @ + 1,
                       !.adc = RemoveAt(@, i)]
  BY DEF DataReady
<1>2. PICK d : d = s'
  OBVIOUS
<1>3. /\ Else(d, s, {"adcBusy", "mdata", "handle", "adc"}) /\ d.adc = RemoveAt(s.adc, i)
      /\ d.handle = s.handle + 1 /\ ~d.adcBusy
  BY <1>1, <1>2 DEF Sound, Typed, Else, Fields
<1>4. d.adc \in Seq(AtaskCells \cup {0}) /\ d.handle \in Nat /\ d.handle > 0
  <2>1. s.adc \in Seq(AtaskCells \cup {0}) /\ s.handle \in Nat
    BY DEF Sound, Typed
  <2> QED BY <1>3, <2>1, AdcRemoved
<1>5. Typed(d)
  BY <1>3, <1>4, TypeKept DEF Sound
<1>6. StrStill(s, d) /\ PktStill(s, d)
  BY <1>3, OthersStill DEF Else, SampFields
<1>7. SampDone(s, d)
  BY <1>3, <1>4, <1>5, <1>6 DEF SampDone, Sampled, Honest
<1> QED BY <1>2, <1>7, SampGood, SoundIsGood

LEMMA AdcErrorGood ==
  ASSUME Sound(s), AdcError
  PROVE  Good(s')
<1>1. PICK i \in DOMAIN s.adc :
        LET idle == [s EXCEPT !.adcBusy = FALSE, !.adc = RemoveAt(@, i)]
        IN  s' \in NextItems(IF s.pend = 0 THEN idle ELSE Kill(idle, TaskOf(s, s.pend)))
  BY DEF AdcError
<1>2. PICK idle : idle = [s EXCEPT !.adcBusy = FALSE, !.adc = RemoveAt(@, i)]
  OBVIOUS
<1>3. Else(idle, s, {"adcBusy", "adc"}) /\ idle.adc = RemoveAt(s.adc, i) /\ ~idle.adcBusy
  BY <1>2 DEF Sound, Typed, Else, Fields
<1>4. idle.adc \in Seq(AtaskCells \cup {0})
  <2>1. s.adc \in Seq(AtaskCells \cup {0})
    BY DEF Sound, Typed
  <2> QED BY <1>3, <2>1, AdcRemoved
<1>5. Typed(idle)
  BY <1>3, <1>4, TypeKept DEF Sound
<1>6. StrStill(s, idle) /\ PktStill(s, idle)
  BY <1>3, OthersStill DEF Else, SampFields
<1>7. PICK r : r = IF s.pend = 0 THEN idle ELSE Kill(idle, TaskOf(s, s.pend))
  OBVIOUS
<1>8. Goes(idle, r)
  <2>1. s.pend # 0 => TaskOf(s, s.pend) \in TaskCells \cup {0}
    BY CellTypes DEF Sound, Typed, TaskOf
  <2> QED BY <1>5, <1>7, <2>1, KillGoes, Stays
<1>9. Typed(r) /\ Honest(r) /\ StrStill(s, r) /\ PktStill(s, r)
  BY <1>3, <1>6, <1>8 DEF Goes, Quiet, SampStill, StrStill, PktStill, Honest
<1> QED BY <1>1, <1>2, <1>7, <1>9, NextItemsGood

LEMMA HandleDataGood ==
  ASSUME NEW fulls, Sound(s), HandleData(fulls)
  PROVE  Good(s')
<1>1. PICK c : c = FirstFree(s.atask)
  OBVIOUS
<1>2. PICK here : here = [s EXCEPT !.handle = @ - 1, !.mdata = IF s.handle = 1 THEN 0 ELSE @]
  OBVIOUS
<1>3. s.handle > 0 /\ s.handle \in Nat /\ Typed(s)
  BY DEF HandleData, Sound, Typed
<1>4. /\ Else(here, s, {"handle", "mdata"}) /\ here.handle = s.handle - 1
      /\ here.adc = s.adc /\ here.adcBusy = s.adcBusy /\ here.cut = s.cut
  BY <1>2, <1>3 DEF Typed, Else, Fields
<1>5. here.handle \in Nat
  BY <1>3, <1>4
<1>6. Typed(here)
  BY <1>3, <1>4, <1>5, TypeKept
<1>7. StrStill(s, here) /\ PktStill(s, here) /\ Honest(here)
  BY <1>4, OthersStill DEF Else, SampFields, Sound, Sampled, Honest
<1>8. c \in AtaskCells \cup {0}
  BY <1>1, <1>3, FirstFreeIn DEF Typed, AtasksOK, AtaskCells
<1>9. CASE s' \in NextItems(here)
  BY <1>6, <1>7, <1>9, NextItemsGood
<1>10. CASE s' = Wild(s)
  BY <1>3, <1>10, WildGoes, GoesGood, SoundIsGood
<1>11. CASE s.pend # 0 /\ s' \in NextItems(SampleFull(here, s.pend, c))
  <2>1. PICK r : r = SampleFull(here, s.pend, c)
    OBVIOUS
  <2>2. s.pend \in AtaskCells
    BY <1>3, <1>11 DEF Typed
  <2>3. Goes(here, r)
    BY <1>6, <1>8, <2>1, <2>2, SampleFullGoes
  <2>4. Typed(r) /\ Honest(r) /\ StrStill(s, r) /\ PktStill(s, r)
    BY <1>7, <2>3 DEF Goes, Quiet, SampStill, StrStill, PktStill, Honest
  <2> QED BY <1>11, <2>1, <2>4, NextItemsGood
<1> QED BY <1>1, <1>2, <1>9, <1>10, <1>11 DEF HandleData

LEMMA StrPopAndSendGood ==
  ASSUME NEW oks, Sound(s), StrPopAndSend(oks)
  PROVE  Good(s')
<1>1. PICK ok \in oks, left \in BOOLEAN :
        s' \in {[x EXCEPT !.strpop = left \/ @] :
                  x \in {StrPop([s EXCEPT !.strpop = FALSE], ok)}}
  BY DEF StrPopAndSend
<1>2. PICK r : r = [s EXCEPT !.strpop = FALSE]
  OBVIOUS
<1>3. PICK x : x = StrPop(r, ok) /\ s' = [x EXCEPT !.strpop = left \/ @]
  BY ONLY <1>1, <1>2
<1>4. Else(r, s, {"strpop"}) /\ r.sending = s.sending /\ r.tx = s.tx
  BY <1>2 DEF Sound, Typed, Else, Fields
<1>5. Typed(r)
  BY <1>4, TypeKept DEF Sound
<1>6. SampStill(s, r) /\ PktStill(s, r)
  BY <1>4, StrOthers DEF Else, StrFields
<1>7. StrTried(r, x)
  BY <1>3, <1>5, StrPopTried
<1>8. StrTried(s, x)
  BY <1>4, <1>6, <1>7 DEF StrTried, StrDone, SampStill, PktStill, Owed
<1> QED BY <1>3, <1>8, StrGood, PostedGood

LEMMA StreamSentGood ==
  ASSUME Sound(s), StreamSent
  PROVE  Good(s')
<1>1. PICK r : r = [s EXCEPT !.tx = 0]
  OBVIOUS
<1>2. Else(r, s, {"tx"})
  BY <1>1 DEF Sound, Typed, Else, Fields
<1>3. Typed(r)
  BY <1>2, TypeKept DEF Sound
<1>4. SampStill(s, r) /\ PktStill(s, r)
  BY <1>2, StrOthers DEF Else, StrFields
<1>5. StrDone(r, s')
  BY <1>1, <1>3, StrSendDoneKeeps DEF StreamSent
<1>6. StrTried(s, s')
  BY <1>4, <1>5 DEF StrTried, StrDone, SampStill, PktStill
<1> QED BY <1>6, StrGood

LEMMA OpenedGood ==
  ASSUME Sound(s), Opened
  PROVE  Good(s')
BY StrOpenDoneTried, StrGood DEF Opened, Sound

LEMMA ClosedGood ==
  ASSUME Sound(s), Closed
  PROVE  Good(s')
<1>1. PICK i \in 1 .. 2 :
        /\ "log" \in Faults \/ s.tx # s.conn[i].cid
        /\ s' = [s EXCEPT !.conn[i] = IdleConn, !.tx = IF @ = s.conn[i].cid THEN 0 ELSE @]
  BY DEF Closed
<1>2. PICK d : d = s'
  OBVIOUS
<1>3. /\ Else(d, s, {"conn", "tx"}) /\ ("log" \notin Faults => d.tx = s.tx)
      /\ d.str = s.str /\ d.retry = s.retry /\ d.strpop = s.strpop /\ d.sending = s.sending
  BY <1>1, <1>2 DEF Sound, Typed, Else, Fields
<1>4. Typed(d)
  BY <1>3, TypeKept DEF Sound
<1>5. SampStill(s, d) /\ PktStill(s, d)
  BY <1>3, StrOthers DEF Else, StrFields
<1>6. Sound(d)
  BY <1>3, <1>4, <1>5 DEF Sound, SampStill, PktStill, Sampled, Honest, Owed, Streamed, Packed
<1> QED BY <1>2, <1>6, SoundIsGood

LEMMA PktPopAndSendGood ==
  ASSUME NEW oks, Sound(s), PktPopAndSend(oks)
  PROVE  Good(s')
<1>1. PICK ok \in oks, left \in BOOLEAN, room \in {TRUE, ~Scarce} :
        s' \in {[x EXCEPT !.pktpop = left \/ @] :
                  x \in {PktPop([s EXCEPT !.pktpop = FALSE], ok, room)}}
  BY DEF PktPopAndSend
<1>2. PICK r : r = [s EXCEPT !.pktpop = FALSE]
  OBVIOUS
<1>3. PICK x : x = PktPop(r, ok, room) /\ s' = [x EXCEPT !.pktpop = left \/ @]
  BY ONLY <1>1, <1>2
<1>4. Else(r, s, {"pktpop"}) /\ r.be = s.be
  BY <1>2 DEF Sound, Typed, Else, Fields
<1>5. Typed(r)
  BY <1>4, TypeKept DEF Sound
<1>6. SampStill(s, r) /\ StrStill(s, r)
  BY <1>4, PktOthers DEF Else, PktFields
<1>7. PktDone(r, x)
  BY <1>3, <1>5, PktPopDone
<1>8. PktDone(s, x)
  BY <1>4, <1>6, <1>7 DEF PktDone, SampStill, StrStill
<1> QED BY <1>3, <1>8, PktGood, PostedGood

LEMMA PacketSentGood ==
  ASSUME Sound(s), PacketSent
  PROVE  Good(s')
<1>1. PICK p \in s.ptx : s' = PktSendDone([s EXCEPT !.ptx = @ \ {p}], p[1])
  BY DEF PacketSent
<1>2. PICK r : r = [s EXCEPT !.ptx = @ \ {p}]
  OBVIOUS
<1>3. Else(r, s, {"ptx"}) /\ r.be = s.be
  BY <1>2 DEF Sound, Typed, Else, Fields
<1>4. Typed(r)
  BY <1>3, TypeKept DEF Sound
<1>5. SampStill(s, r) /\ StrStill(s, r)
  BY <1>3, PktOthers DEF Else, PktFields
<1>6. PktDone(r, s')
  BY <1>1, <1>2, <1>3, <1>4, PktSendDoneKeeps DEF Sound
<1>7. PktDone(s, s')
  BY <1>3, <1>5, <1>6 DEF PktDone, SampStill, StrStill
<1> QED BY <1>7, PktGood

LEMMA InitGood == Init => Good(s)
<1> SUFFICES ASSUME Init
             PROVE  Good(s)
  OBVIOUS
<1>1. PICK r : r = TaskInit
  OBVIOUS
<1>2. /\ DOMAIN r = Fields
      /\ r.task = [t \in TaskCells |-> FreeTask] /\ r.atask = [a \in AtaskCells |-> FreeAtask]
      /\ r.q = <<>> /\ r.installed = <<>> /\ r.kill = 0
      /\ r.timers = <<>> /\ r.samp = <<>> /\ r.pend = 0 /\ ~r.adcBusy /\ r.adc = <<>>
      /\ r.handle = 0 /\ r.str = <<>> /\ r.sending = 0 /\ r.retry = 0
      /\ r.pkt = <<>> /\ r.pretry = 0 /\ r.flight = <<>> /\ ~r.be
  BY <1>1 DEF TaskInit, Fields
<1>3. TasksOK(r.task)
  <2>1. FreeTask \in TaskRec /\ ~FreeTask.busy
    BY DEF FreeTask, TaskRec
  <2> QED BY <1>2, <2>1 DEF TasksOK
<1>4. AtasksOK(r.atask)
  <2>1. AtaskOK(FreeAtask)
    BY DEF FreeAtask, AtaskOK
  <2> QED BY <1>2, <2>1 DEF AtasksOK
<1>5. Typed(r)
  <2>1. \A T : <<>> \in Seq(T)
    OBVIOUS
  <2> QED BY <1>2, <1>3, <1>4, <2>1 DEF Typed
<1>6. Sound(r)
  BY <1>2, <1>5 DEF Sound, Sampled, Honest, Owed, Streamed, Packed
<1> QED BY <1>1, <1>6, SoundIsGood DEF Init

LEMMA NextGood == Good(s) /\ [Next]_s => Good(s')
<1> SUFFICES ASSUME Good(s), [Next]_s
             PROVE  Good(s')
  OBVIOUS
<1>1. CASE s' = s
  BY <1>1
<1>2. CASE Next
  <2>1. Sound(s)
    BY <1>2 DEF Next, Good, Sound
  <2>2. Typed(s)
    BY <2>1 DEF Sound
  <2>3. ASSUME NEW ids, Delete(ids)
        PROVE  Good(s')
    BY <2>1, <2>2, <2>3, DeleteGoes, GoesGood, SoundIsGood
  <2>4. CASE \E id \in Ids : Install(id)
    BY <2>1, <2>4, InstallGood
  <2>5. CASE (\E id \in Deleted : Delete({id})) \/ Delete(Deleted)
    BY <2>3, <2>5
  <2>6. CASE Run \/ KillIt
    BY <2>1, <2>6, RunsGood, KillItGood
  <2>7. CASE IssueFired
    BY <2>1, <2>2, <2>7, FireDueGoes, GoesGood, SoundIsGood DEF IssueFired
  <2>8. CASE SampleFired \/ DataReady \/ AdcError \/ HandleData(Fills)
    BY <2>1, <2>8, SampleFiredGood, DataReadyGood, AdcErrorGood, HandleDataGood
  <2>9. CASE StrPopAndSend(BOOLEAN) \/ StreamSent \/ Opened \/ Closed
    BY <2>1, <2>9, StrPopAndSendGood, StreamSentGood, OpenedGood, ClosedGood
  <2>10. CASE PktPopAndSend(BOOLEAN) \/ PacketSent
    BY <2>1, <2>10, PktPopAndSendGood, PacketSentGood
  <2> QED BY <1>2, <2>4, <2>5, <2>6, <2>7, <2>8, <2>9, <2>10 DEF Next
<1> QED BY <1>1, <1>2

-----------------------------------------------------------------------------
(* The inductive invariant, whatever faults there are and even once memory  *)
(* has been used wrongly.                                                   *)
THEOREM Invariant == Spec => []Good(s)
<1>1. Init => Good(s)
  BY InitGood
<1>2. Good(s) /\ [Next]_s => Good(s)'
  BY NextGood
<1> QED BY <1>1, <1>2, PTL DEF Spec

(* Every pointer the tasklets and the lists of the task core hold points at *)
(* a cell of its kind, and a task that is there is built of elements of its *)
(* own chain (TaskLib.nc, TaskInstallerM.nc), whatever faults there are and *)
(* even once memory has been used wrongly.                                  *)
THEOREM CellsAreTyped == Spec => []Typed(s)
<1>1. Good(s) => Typed(s)
  BY DEF Good
<1> QED BY <1>1, Invariant, PTL

(* What waits for the ADC will be sampled, and the ADC is never taken to be *)
(* busy when nothing is asked of it (Sample.nc:79-160): a lack of memory, a *)
(* refusal and an error of the ADC included, and every deletion but one that*)
(* ends a conversion: where the last sampling task goes and ADC.stop forgets*)
(* what is under way (Sample.nc:112, HumidityM.nc:127), nothing is said     *)
(* until the ADC accepts another.                                           *)
THEOREM SamplesAreServed == Spec => []SampleServed
<1>1. Good(s) => SampleServed
  BY DEF Good, Sampled, Honest, SampleServed
<1> QED BY <1>1, Invariant, PTL

(* What waits for the stream transport will be sent (SendSTR.nc:232), for   *)
(* any tasks that are deleted or killed at any time, as long as no write of *)
(* a packet outlasts the closing of its connection.                         *)
THEOREM StreamsAreServed ==
  ASSUME "log" \notin Faults
  PROVE  Spec => [](s.wild \/ StreamServed)
<1>1. Good(s) => s.wild \/ StreamServed
  BY DEF Good, Streamed, StreamServed
<1> QED BY <1>1, Invariant, PTL

(* What waits for the packet transport will be sent, where no task sends    *)
(* with best effort: no step of SendPkt forgets to post pop_and_send        *)
(* (SendPkt.nc:338).                                                        *)
THEOREM PacketsAreServed ==
  ASSUME \A id \in Ids : "be" \notin Range(Chain[id])
  PROVE  Spec => [](s.wild \/ PacketServed)
<1>1. Good(s) => s.wild \/ PacketServed
  BY DEF Good, BestEffort, Packed, PacketServed
<1> QED BY <1>1, Invariant, PTL

(* Where tasks do, m_be_state being SEND_SENDING is all that can keep what  *)
(* waits from being sent (SendPkt.nc:338).                                  *)
THEOREM OnlyBestEffortBlocks == Spec => [](s.wild \/ s.be \/ PacketServed)
<1>1. Good(s) => s.wild \/ s.be \/ PacketServed
  BY DEF Good, Packed, PacketServed
<1> QED BY <1>1, Invariant, PTL

-----------------------------------------------------------------------------
(***************************************************************************)
(* Who owns an active task.  Between two events each active task that is   *)
(* busy is in one of the places where the scheduler or an element keeps    *)
(* it, and its task is there, with an element that clears that place when  *)
(* it ends (Own, Inst).  A handler takes one active task in hand: y in     *)
(* what follows, in no place, until it is passed on or deleted.  Elements  *)
(* of SendPkt, which keep active tasks in two more places, are left out    *)
(* (NoPackets).                                                            *)
(***************************************************************************)

(* What is on a list that was thinned out.                                  *)
LEMMA OnlyThose ==
  ASSUME NEW T, NEW l \in Seq(T), NEW S
  PROVE  /\ Range(Only(l, S)) = Range(l) \cap S
         /\ IsInjective(l) => IsInjective(Only(l, S))
<1>1. PICK n : n = Len(l)
  OBVIOUS
<1>2. n \in Nat
  BY <1>1
<1> DEFINE At(f, k) == IF k = 0 THEN <<>>
                       ELSE IF l[k] \in S THEN Append(f[k - 1], l[k]) ELSE f[k - 1]
           Upto(f, j) == [k \in 0 .. j |-> At(f, k)]
           R == {j \in 0 .. n : \E f : f = Upto(f, j)}
           out == CHOOSE f : f = Upto(f, n)
<1>3. 0 \in R
  <2>1. PICK f : f = [k \in 0 .. 0 |-> <<>>]
    OBVIOUS
  <2>2. f = Upto(f, 0)
    BY <2>1
  <2> QED BY <1>2, <2>2
<1>4. ASSUME NEW j \in 1 .. n, j - 1 \in R
      PROVE  j \in R
  <2>1. PICK f : f = Upto(f, j - 1)
    BY <1>4
  <2>2. PICK g : g = [k \in 0 .. j |-> At(f, k)]
    OBVIOUS
  <2>3. ASSUME NEW k \in 0 .. j
        PROVE  g[k] = At(g, k)
    <3>1. k # 0 => k - 1 \in 0 .. (j - 1) /\ k - 1 \in 0 .. j
      OBVIOUS
    <3>2. k # 0 => g[k - 1] = f[k - 1]
      BY <2>1, <2>2, <3>1
    <3> QED BY <2>2, <3>2
  <2>4. g = Upto(g, j)
    BY <2>2, <2>3
  <2> HIDE DEF Upto
  <2>5. \E h : h = Upto(h, j)
    BY ONLY <2>4, Zenon
  <2>6. j \in 0 .. n
    BY <1>2
  <2> QED BY ONLY <2>5, <2>6, Zenon
<1> HIDE DEF R
<1>5. n \in R
  <2>1. 0 .. n \subseteq R
    BY ONLY <1>2, <1>3, <1>4, Climb
  <2> QED BY <1>2, <2>1
<1>6. \E f : f = Upto(f, n)
  BY <1>5 DEF R
<1>7. out = Upto(out, n)
  BY <1>6, Zenon
<1> HIDE DEF out
<1>8. Only(l, S) = out[n]
  BY <1>1, Zenon DEF Only, out
<1> DEFINE Mid(k) == /\ out[k] \in Seq(T)
                     /\ \A x : x \in Range(out[k]) <=> x \in S /\ \E i \in 1 .. k : l[i] = x
                     /\ IsInjective(l) => IsInjective(out[k])
           W == {k \in 0 .. n : Mid(k)}
<1>9. 0 \in W
  <2>1. 0 \in 0 .. n /\ out[0] = <<>>
    BY <1>2, <1>7
  <2>2. <<>> \in Seq(T) /\ Range(<<>>) = {} /\ IsInjective(<<>>)
    BY DEF Range, IsInjective
  <2>3. \A i \in 1 .. 0 : FALSE
    OBVIOUS
  <2> QED BY <2>1, <2>2, <2>3
<1>10. ASSUME NEW k \in 1 .. n, k - 1 \in W
       PROVE  k \in W
  <2>1. k \in 0 .. n /\ k # 0 /\ l[k] \in T
    BY <1>1
  <2>2. out[k] = At(out, k)
    BY <1>7, <2>1
  <2>3. Mid(k - 1)
    BY <1>10
  <2>4. PICK e : e = out[k - 1]
    OBVIOUS
  <2>5. 1 .. k = 1 .. (k - 1) \cup {k}
    OBVIOUS
  <2>6. CASE l[k] \notin S
    BY <2>1, <2>2, <2>3, <2>5, <2>6
  <2>7. CASE l[k] \in S
    <3>1. out[k] = Append(e, l[k]) /\ e \in Seq(T)
      BY <2>1, <2>2, <2>3, <2>4, <2>7
    <3>2. PICK o : o = out[k]
      OBVIOUS
    <3>3. /\ o \in Seq(T) /\ Len(o) = Len(e) + 1 /\ Len(e) \in Nat
          /\ \A i \in 1 .. Len(e) : o[i] = e[i]
          /\ o[Len(e) + 1] = l[k]
          /\ DOMAIN o = 1 .. Len(o) /\ DOMAIN e = 1 .. Len(e)
      BY ONLY <2>1, <3>1, <3>2, AppendProperties, LenProperties
    <3>4. \A x : x \in Range(o) <=> x \in Range(e) \/ x = l[k]
      BY <3>3 DEF Range
    <3>5. ASSUME IsInjective(l)
          PROVE  IsInjective(o)
      <4>1. l[k] \notin Range(e)
        <5>1. \A i \in 1 .. (k - 1) : l[i] # l[k]
          <6>1. \A i \in 1 .. (k - 1) : i \in DOMAIN l /\ k \in DOMAIN l /\ i # k
            BY <1>1, <1>2
          <6> QED BY <3>5, <6>1 DEF IsInjective
        <5> QED BY <2>3, <2>4, <5>1
      <4>2. IsInjective(e)
        BY <2>3, <2>4, <3>5
      <4>3. \A i \in DOMAIN e : o[i] # l[k]
        BY <3>3, <4>1 DEF Range
      <4>4. \A i \in DOMAIN o : i \in DOMAIN e \/ i = Len(e) + 1
        BY <3>3
      <4> QED BY <3>3, <4>2, <4>3, <4>4 DEF IsInjective
    <3>6. \A x : x \in Range(o) <=> x \in S /\ \E i \in 1 .. k : l[i] = x
      BY <2>3, <2>4, <2>5, <2>7, <3>4
    <3>7. Mid(k)
      BY <3>2, <3>3, <3>5, <3>6
    <3> QED BY <2>1, <3>7
  <2> QED BY <2>6, <2>7
<1> HIDE DEF W
<1>11. n \in W
  <2>1. 0 .. n \subseteq W
    BY ONLY <1>2, <1>9, <1>10, Climb
  <2> QED BY <1>2, <2>1
<1>12. Mid(n)
  BY <1>11 DEF W
<1>13. \A x : x \in Range(l) <=> \E i \in 1 .. n : l[i] = x
  BY <1>1 DEF Range
<1> QED BY <1>8, <1>12, <1>13

-----------------------------------------------------------------------------
(* Where an active task may be.                                             *)
Queues == {"q", "timers", "samp", "str"}
Places == Queues \cup {"sending", "retry"}
Put(r, p) == IF p \in Queues THEN Range(r[p]) ELSE {r[p]} \ {0}

(* The elements by which it gets there.                                     *)
Uses(p) ==
  CASE p = "timers" -> {"wait", "every"}
    [] p = "samp"   -> {"sample", "repeat"}
    [] OTHER        -> {"str"}

BusyCells(r) == {a \in AtaskCells : r.atask[a].busy}
Walking(r, t) == {a \in BusyCells(r) : r.atask[a].t = t}

(* No active task is in two places, or twice in one.                        *)
Apart(r) ==
  /\ \A f \in Queues : IsInjective(r[f])
  /\ \A p \in Places, o \in Places : p # o => Put(r, p) \cap Put(r, o) = {}

(* The task t is there, and the end of it clears the place p.               *)
Clears(r, t, p) ==
  /\ t \in TaskCells /\ r.task[t].busy
  /\ p # "q" => \E i \in 1 .. r.task[t].built : Chain[r.task[t].id][i] \in Uses(p)

(* What is in a place walks a task that is there.  The scheduler is about to*)
(* decide on y, which is in none.                                           *)
Tended(r, y) ==
  /\ \A p \in Places : \A a \in Put(r, p) :
       a # y /\ r.atask[a].busy /\ Clears(r, r.atask[a].t, p)
  /\ \A a \in BusyCells(r) : a = y \/ \E p \in Places : a \in Put(r, p)

(* num_atasks.                                                              *)
Exact(r) == \A t \in TaskCells : r.task[t].busy =>
              r.task[t].atasks = Cardinality(Walking(r, t))

(* active_task_count.                                                       *)
Tally(r) == r.count = Cardinality(BusyCells(r))

(* What waits for SendPkt, and for a cell: nothing.                         *)
Plain(r) == r.full = {} /\ r.pkt = <<>> /\ r.pretry = 0 /\ r.flight = <<>>

Own(r, y) == Apart(r) /\ Tended(r, y) /\ Exact(r) /\ Plain(r)

PendOK(r) == r.pend # 0 => r.pend \in Range(r.samp)

(* What is said of the connections of tasks: an id is of one task and of    *)
(* one connection, and the connection of a task that has one is not closed. *)
Conns(r) ==
  /\ \A t, u \in TaskCells : r.task[t].busy /\ r.task[u].busy /\ r.task[t].id = r.task[u].id
                               => t = u
  /\ \A t \in TaskCells : r.task[t].busy => r.task[t].id \in r.seen
  /\ \A i \in 1 .. 2 : r.conn[i].cid \in r.seen \cup {0}
  /\ \A t \in TaskCells, i \in 1 .. 2 :
       r.task[t].busy /\ r.task[t].conn # "none" /\ r.conn[i].cid = r.task[t].id
         => r.conn[i].st # "fin"

(* From r to d only what belongs to the task t has been taken away.         *)
TaskKept(r, d, u) ==
  /\ d.task[u].busy = r.task[u].busy /\ d.task[u].id = r.task[u].id
  /\ d.task[u].built = r.task[u].built
AtaskKept(r, d, a) == d.atask[a].t = r.atask[a].t /\ d.atask[a].idx = r.atask[a].idx

Cut(r, d, t) ==
  /\ \A p \in Places : Put(d, p) \subseteq Put(r, p) /\ Put(r, p) \ Put(d, p) \subseteq Walks(r, t)
  /\ \A a \in AtaskCells : AtaskKept(r, d, a)
  /\ \A a \in AtaskCells : d.atask[a].busy => r.atask[a].busy
  /\ \A a \in AtaskCells : r.atask[a].busy /\ ~d.atask[a].busy =>
                             \E p \in Places : a \in Put(r, p)
  /\ \A u \in TaskCells : TaskKept(r, d, u)
  /\ \A u \in TaskCells : u # t => d.task[u].conn = r.task[u].conn
  /\ d.installed = r.installed /\ d.wild = r.wild /\ d.seen = r.seen /\ d.tx = r.tx
  /\ Tally(r) => Tally(d)
  /\ Conns(r) => Conns(d)

(* Cells are finitely many.                                                 *)
LEMMA CellsFinite ==
  /\ IsFiniteSet(AtaskCells)
  /\ \A r : IsFiniteSet(BusyCells(r)) /\ \A t : IsFiniteSet(Walking(r, t))
  /\ \A r : Cardinality(BusyCells(r)) \in Nat /\ \A t : Cardinality(Walking(r, t)) \in Nat
<1>1. IsFiniteSet(AtaskCells)
  BY FS_Interval, TaskCellsAssumption DEF AtaskCells
<1>2. ASSUME NEW r
      PROVE  IsFiniteSet(BusyCells(r)) /\ \A t : IsFiniteSet(Walking(r, t))
  <2>1. BusyCells(r) \subseteq AtaskCells
    BY DEF BusyCells
  <2>2. \A t : Walking(r, t) \subseteq AtaskCells
    BY <2>1 DEF Walking
  <2> QED BY <1>1, <2>1, <2>2, FS_Subset
<1> QED BY <1>1, <1>2, FS_CardinalityType

(* What is free, and what is counted, when an active task is deleted.       *)
Freed(r, d, S) ==
  /\ Else(d, r, {"atask", "count", "task"})
  /\ \A a \in AtaskCells : AtaskKept(r, d, a) /\ (d.atask[a].busy <=> r.atask[a].busy /\ a \notin S)
  /\ \A u \in TaskCells : TaskKept(r, d, u) /\ d.task[u].conn = r.task[u].conn

(* What atask_delete does, for any active task.                             *)
LEMMA DeleteIs ==
  ASSUME NEW r, NEW a \in AtaskCells, Typed(r)
  PROVE  LET d == AtaskDelete(r, a)
             t == r.atask[a].t
         IN  /\ Freed(r, d, {a})
             /\ d.count = r.count - 1
             /\ \A u \in TaskCells : d.task[u].atasks = IF u = t THEN r.task[u].atasks - 1
                                                        ELSE r.task[u].atasks
<1>1. PICK t, n : t = r.atask[a].t /\ n = r.count - 1
  OBVIOUS
<1>2. PICK freed : freed = [r EXCEPT !.atask[a].busy = FALSE, !.atask[a].data = 0,
                                     !.count = @ - 1]
  OBVIOUS
<1>3. PICK d : d = AtaskDelete(r, a)
  OBVIOUS
<1>4. /\ a # 0 /\ DOMAIN r = Fields /\ t \in TaskCells \cup {0}
      /\ DOMAIN r.atask = AtaskCells
      /\ \A b \in AtaskCells : AtaskOK(r.atask[b])
      /\ r.task \in [TaskCells -> TaskRec]
  BY <1>1, CellTypes DEF Typed, AtasksOK, TasksOK
<1>5. /\ Else(freed, r, {"atask", "count"}) /\ freed.task = r.task /\ freed.count = n
      /\ freed.atask = [r.atask EXCEPT ![a].busy = FALSE, ![a].data = 0]
  BY <1>1, <1>2, <1>4 DEF Else, Fields
<1>6. /\ Else(d, r, {"atask", "count", "task"}) /\ d.count = n
      /\ d.atask = freed.atask
      /\ d.task = IF t = 0 THEN r.task ELSE [r.task EXCEPT ![t].atasks = @ - 1]
  <2>1. CASE t = 0
    BY <1>1, <1>2, <1>3, <1>4, <1>5, <2>1 DEF AtaskDelete, Else
  <2>2. CASE t # 0
    <3>1. d = [freed EXCEPT !.task[t].atasks = @ - 1]
      BY <1>1, <1>2, <1>3, <1>4, <2>2 DEF AtaskDelete
    <3> QED BY <1>5, <2>2, <3>1 DEF Else, Fields
  <2> QED BY <2>1, <2>2
<1>7. \A b \in AtaskCells : d.atask[b] = IF b = a THEN [r.atask[a] EXCEPT !.busy = FALSE, !.data = 0]
                                         ELSE r.atask[b]
  BY <1>4, <1>5, <1>6
<1>8. \A b \in AtaskCells : AtaskKept(r, d, b)
                              /\ (d.atask[b].busy <=> r.atask[b].busy /\ b \notin {a})
  <2>1. PICK v : v = [r.atask[a] EXCEPT !.busy = FALSE, !.data = 0]
    OBVIOUS
  <2>2. AtaskOK(r.atask[a])
    BY <1>4
  <2>3. v.t = r.atask[a].t /\ v.idx = r.atask[a].idx /\ v.busy = FALSE
    BY <2>1, <2>2 DEF AtaskOK
  <2> QED BY <1>7, <2>1, <2>3 DEF AtaskKept
<1>9. ASSUME NEW u \in TaskCells
      PROVE  /\ TaskKept(r, d, u) /\ d.task[u].conn = r.task[u].conn
             /\ d.task[u].atasks = IF u = t THEN r.task[u].atasks - 1 ELSE r.task[u].atasks
  <2>1. PICK v : v = r.task[u]
    OBVIOUS
  <2>2. v \in TaskRec
    BY <1>4, <2>1
  <2>3. CASE u # t
    <3>1. d.task[u] = r.task[u]
      BY <1>4, <1>6, <2>3
    <3> QED BY <2>3, <3>1 DEF TaskKept
  <2>4. CASE u = t
    <3>1. u # 0
      BY CellTypes
    <3>2. d.task[u] = [v EXCEPT !.atasks = v.atasks - 1]
      BY <1>4, <1>6, <2>1, <2>4, <3>1
    <3> QED BY <2>1, <2>2, <2>4, <3>2 DEF TaskKept, TaskRec
  <2> QED BY <2>3, <2>4
<1> QED BY <1>1, <1>3, <1>6, <1>8, <1>9 DEF Freed

(* The counts after a busy active task was deleted.                         *)
LEMMA DeleteCounts ==
  ASSUME NEW r, NEW a \in BusyCells(r), Typed(r)
  PROVE  LET d == AtaskDelete(r, a)
         IN  (Tally(r) => Tally(d)) /\ (Exact(r) => Exact(d))
<1>1. a \in AtaskCells /\ r.atask[a].busy
  BY DEF BusyCells
<1>2. PICK d : d = AtaskDelete(r, a)
  OBVIOUS
<1>3. PICK t : t = r.atask[a].t
  OBVIOUS
<1>4. /\ Freed(r, d, {a}) /\ d.count = r.count - 1
      /\ \A u \in TaskCells : d.task[u].atasks = IF u = t THEN r.task[u].atasks - 1
                                                 ELSE r.task[u].atasks
  BY <1>1, <1>2, <1>3, DeleteIs
<1>5. BusyCells(d) = BusyCells(r) \ {a}
  BY <1>4 DEF BusyCells, Freed
<1>6. Tally(r) => Tally(d)
  <2>1. Cardinality(BusyCells(d)) = Cardinality(BusyCells(r)) - 1
    BY <1>5, CellsFinite, FS_RemoveElement
  <2> QED BY <1>4, <2>1 DEF Tally
<1>7. ASSUME Exact(r), NEW u \in TaskCells, d.task[u].busy
      PROVE  d.task[u].atasks = Cardinality(Walking(d, u))
  <2>1. r.task[u].atasks = Cardinality(Walking(r, u))
    BY <1>4, <1>7 DEF Exact, Freed, TaskKept
  <2>2. \A b \in AtaskCells : d.atask[b].t = r.atask[b].t
    BY <1>4 DEF Freed, AtaskKept
  <2>3. CASE u # t
    <3>1. Walking(d, u) = Walking(r, u)
      BY <1>3, <1>5, <2>2, <2>3 DEF Walking, BusyCells
    <3> QED BY <1>4, <2>1, <2>3, <3>1
  <2>4. CASE u = t
    <3>1. Walking(d, u) = Walking(r, u) \ {a} /\ a \in Walking(r, u)
      BY <1>3, <1>5, <2>2, <2>4 DEF Walking, BusyCells
    <3>2. Cardinality(Walking(d, u)) = Cardinality(Walking(r, u)) - 1
      BY <3>1, CellsFinite, FS_RemoveElement
    <3> QED BY <1>4, <2>1, <2>4, <3>2
  <2> QED BY <2>3, <2>4
<1> QED BY <1>2, <1>6, <1>7 DEF Exact

(* What holds of r when it is d that the cells of S are freed in.           *)
Gone(r, d, S) ==
  /\ \A a \in AtaskCells : AtaskKept(r, d, a) /\ (d.atask[a].busy <=> r.atask[a].busy /\ a \notin S)
  /\ \A u \in TaskCells : TaskKept(r, d, u) /\ d.task[u].conn = r.task[u].conn
  /\ Tally(r) => Tally(d)
  /\ Exact(r) => Exact(d)

(* atask_delete of one that is busy takes it and nothing else.              *)
LEMMA GoneDelete ==
  ASSUME NEW r, NEW a \in BusyCells(r), Typed(r)
  PROVE  LET d == AtaskDelete(r, a)
         IN  Gone(r, d, {a}) /\ Else(d, r, {"atask", "count", "task"}) /\ Typed(d)
<1>1. a \in AtaskCells
  BY DEF BusyCells
<1>2. PICK d : d = AtaskDelete(r, a)
  OBVIOUS
<1>3. Typed(d)
  BY <1>1, <1>2, AtaskDeleteGoes DEF Goes
<1>4. Freed(r, d, {a})
  BY <1>1, <1>2, DeleteIs
<1>5. (Tally(r) => Tally(d)) /\ (Exact(r) => Exact(d))
  BY <1>2, DeleteCounts
<1> QED BY <1>2, <1>3, <1>4, <1>5 DEF Gone, Freed

(* Taking nothing, and taking in two steps.                                 *)
LEMMA GoneNone ==
  ASSUME NEW r
  PROVE  Gone(r, r, {})
BY DEF Gone, AtaskKept, TaskKept

LEMMA GoneMore ==
  ASSUME NEW r, NEW d, NEW e, NEW S, NEW T, Gone(r, d, S), Gone(d, e, T)
  PROVE  Gone(r, e, S \cup T)
<1>1. \A a \in AtaskCells : AtaskKept(r, e, a)
                              /\ (e.atask[a].busy <=> r.atask[a].busy /\ a \notin S \cup T)
  BY DEF Gone, AtaskKept
<1>2. \A u \in TaskCells : TaskKept(r, e, u) /\ e.task[u].conn = r.task[u].conn
  BY DEF Gone, TaskKept
<1>3. (Tally(r) => Tally(e)) /\ (Exact(r) => Exact(e))
  BY DEF Gone
<1> QED BY <1>1, <1>2, <1>3 DEF Gone

(* A state that differs in fields of which Gone does not speak.             *)
LEMMA GoneElse ==
  ASSUME NEW r, NEW d, NEW e, NEW S, Gone(r, d, S), e.atask = d.atask, e.task = d.task,
         e.count = d.count
  PROVE  Gone(r, e, S)
<1>1. BusyCells(e) = BusyCells(d) /\ \A t : Walking(e, t) = Walking(d, t)
  BY DEF BusyCells, Walking
<1>2. (Tally(d) => Tally(e)) /\ (Exact(d) => Exact(e))
  BY <1>1 DEF Tally, Exact
<1> QED BY <1>2 DEF Gone, AtaskKept, TaskKept

(* What two steps leave alone.                                              *)
LEMMA ElseOn ==
  ASSUME NEW r, NEW d, NEW e, NEW F, Else(d, r, F), Else(e, d, F)
  PROVE  Else(e, r, F)
BY DEF Else

(* Removing a task from a list deletes what it has there.                   *)
LEMMA RemoveTaskIs ==
  ASSUME NEW r, NEW f \in Queues, NEW t, Typed(r), IsInjective(r[f]),
         \A a \in Range(r[f]) : r.atask[a].busy
  PROVE  LET d == RemoveTask(r, f, t)
         IN  /\ Typed(d)
             /\ Else(d, r, {"atask", "count", "task", f})
             /\ Range(d[f]) = Range(r[f]) \ Walks(r, t) /\ IsInjective(d[f])
             /\ Gone(r, d, Range(r[f]) \cap Walks(r, t))
<1>1. r[f] \in Seq(AtaskCells) /\ f \in Fields /\ f \notin {"atask", "count", "task"}
      /\ f \in {"q", "timers", "samp", "str", "pkt"}
  BY DEF Typed, Queues, Fields
<1>2. PICK n \in Nat : n = Len(r[f])
  BY <1>1, LenProperties
<1>3. PICK l : l = r[f]
  OBVIOUS
<1>4. PICK out : /\ out[0] = r
                 /\ \A k \in 1 .. n : out[k] = IF l[k] \in Walks(r, t)
                                               THEN AtaskDelete(out[k - 1], l[k]) ELSE out[k - 1]
                 /\ RemoveTask(r, f, t) = [out[n] EXCEPT ![f] = Only(@, AtaskCells \ Walks(r, t))]
  <2>1. \E out : /\ out[0] = r
                 /\ \A k \in 1 .. Len(r[f]) :
                      out[k] = IF r[f][k] \in Walks(r, t)
                               THEN AtaskDelete(out[k - 1], r[f][k]) ELSE out[k - 1]
                 /\ RemoveTask(r, f, t)
                      = [out[Len(r[f])] EXCEPT ![f] = Only(@, AtaskCells \ Walks(r, t))]
    BY ONLY <1>1, RemoveTaskSteps
  <2> QED BY ONLY <1>2, <1>3, <2>1
<1>5. \A i \in 1 .. n : l[i] \in AtaskCells /\ r.atask[l[i]].busy /\ l[i] \in Range(l)
  <2>1. DOMAIN l = 1 .. n
    BY <1>1, <1>2, <1>3
  <2>2. \A i \in 1 .. n : l[i] \in AtaskCells /\ l[i] \in Range(l)
    BY <1>1, <1>3, <2>1 DEF Range
  <2> QED BY <1>3, <2>2
<1> DEFINE Seen(k) == {l[i] : i \in 1 .. k} \cap Walks(r, t)
           Mid(k) == /\ Typed(out[k]) /\ Else(out[k], r, {"atask", "count", "task"})
                     /\ Gone(r, out[k], Seen(k))
           W == {k \in 0 .. n : Mid(k)}
<1>6. 0 \in W
  <2>1. Seen(0) = {}
    OBVIOUS
  <2>2. Else(r, r, {"atask", "count", "task"})
    BY DEF Else, Typed
  <2>3. Gone(r, r, Seen(0))
    BY <2>1, GoneNone
  <2> HIDE DEF Seen
  <2> QED BY <1>2, <1>4, <2>2, <2>3
<1>7. ASSUME NEW k \in 1 .. n, k - 1 \in W
      PROVE  k \in W
  <2>1. k \in 0 .. n /\ k - 1 \in Nat
    BY <1>2
  <2>2. Mid(k - 1)
    BY <1>7
  <2>3. Seen(k) = Seen(k - 1) \cup ({l[k]} \cap Walks(r, t))
    <3>1. 1 .. k = 1 .. (k - 1) \cup {k}
      OBVIOUS
    <3> QED BY <3>1
  <2>4. CASE l[k] \notin Walks(r, t)
    <3>1. Seen(k) = Seen(k - 1)
      BY <2>3, <2>4
    <3>2. out[k] = out[k - 1]
      BY <1>4, <2>4
    <3> QED BY <2>1, <2>2, <3>1, <3>2
  <2>5. CASE l[k] \in Walks(r, t)
    <3>1. PICK e, a : e = out[k - 1] /\ a = l[k]
      OBVIOUS
    <3>2. a \notin Seen(k - 1)
      <4>1. \A i \in 1 .. (k - 1) : i \in DOMAIN l /\ k \in DOMAIN l /\ i # k
        BY <1>1, <1>2, <1>3
      <4>2. \A i \in 1 .. (k - 1) : l[i] # a
        BY <1>3, <3>1, <4>1 DEF IsInjective
      <4> QED BY <4>2
    <3>3. a \in AtaskCells /\ r.atask[a].busy
      BY <1>5, <3>1
    <3>4. a \in BusyCells(e)
      BY <2>2, <3>1, <3>2, <3>3 DEF Gone, BusyCells
    <3>5. PICK d : d = AtaskDelete(e, a)
      OBVIOUS
    <3>6. Gone(e, d, {a}) /\ Else(d, e, {"atask", "count", "task"}) /\ Typed(d)
      BY <2>2, <3>1, <3>4, <3>5, GoneDelete
    <3>7. out[k] = d
      BY <1>4, <2>5, <3>1, <3>5
    <3>8. Seen(k) = Seen(k - 1) \cup {a}
      BY <2>3, <2>5, <3>1
    <3> HIDE DEF Seen
    <3>9. Gone(r, d, Seen(k))
      BY <2>2, <3>1, <3>6, <3>8, GoneMore
    <3>10. Else(d, r, {"atask", "count", "task"})
      BY <2>2, <3>1, <3>6, ElseOn
    <3> QED BY <2>1, <3>6, <3>7, <3>9, <3>10
  <2> QED BY <2>4, <2>5
<1> HIDE DEF W
<1>8. n \in W
  <2>1. 0 .. n \subseteq W
    BY ONLY <1>2, <1>6, <1>7, Climb
  <2> QED BY <1>2, <2>1
<1>9. Mid(n)
  BY <1>8 DEF W
<1>10. Seen(n) = Range(l) \cap Walks(r, t)
  <2>1. DOMAIN l = 1 .. n
    BY <1>1, <1>2, <1>3
  <2> QED BY <2>1 DEF Range
<1>11. PICK e : e = out[n]
  OBVIOUS
<1> HIDE DEF Seen
<1>12. /\ Typed(e) /\ Else(e, r, {"atask", "count", "task"})
       /\ Gone(r, e, Range(l) \cap Walks(r, t))
  BY <1>9, <1>10, <1>11
<1>13. PICK d : d = [e EXCEPT ![f] = Only(e[f], AtaskCells \ Walks(r, t))]
  OBVIOUS
<1>14. e[f] = l /\ l \in Seq(AtaskCells)
  BY <1>1, <1>3, <1>12 DEF Else
<1>15. /\ Else(d, e, {f}) /\ d[f] = Only(l, AtaskCells \ Walks(r, t))
       /\ d.atask = e.atask /\ d.task = e.task /\ d.count = e.count
  BY <1>1, <1>12, <1>13, <1>14 DEF Else, Typed, Fields
<1>16. Range(d[f]) = Range(l) \ Walks(r, t) /\ IsInjective(d[f])
  <2>1. Range(l) \subseteq AtaskCells
    BY <1>14 DEF Range
  <2> QED BY <1>3, <1>14, <1>15, <2>1, OnlyThose
<1>17. Else(d, r, {"atask", "count", "task", f})
  BY <1>12, <1>15 DEF Else
<1>18. Gone(r, d, Range(l) \cap Walks(r, t))
  BY <1>12, <1>15, GoneElse
<1>19. RemoveTask(r, f, t) = d
  BY <1>4, <1>11, <1>13, <1>14
<1>20. Typed(d)
  BY <1>1, <1>19, RemoveTaskGoes DEF Goes
<1> QED BY <1>3, <1>16, <1>17, <1>18, <1>19, <1>20

(* What is in a place is an active task.                                    *)
LEMMA PutCells ==
  ASSUME NEW r, Typed(r)
  PROVE  \A p \in Places : Put(r, p) \subseteq AtaskCells
<1>1. /\ r.q \in Seq(AtaskCells) /\ r.timers \in Seq(AtaskCells) /\ r.samp \in Seq(AtaskCells)
      /\ r.str \in Seq(AtaskCells)
      /\ r.sending \in AtaskCells \cup {0} /\ r.retry \in AtaskCells \cup {0}
  BY DEF Typed
<1>2. \A l \in Seq(AtaskCells) : Range(l) \subseteq AtaskCells
  BY DEF Range
<1> QED BY <1>1, <1>2 DEF Put, Places, Queues

(* What is in a place that has not changed.                                 *)
LEMMA PutSame ==
  ASSUME NEW r, NEW d, NEW F, Else(d, r, F)
  PROVE  \A p \in Places \ F : Put(d, p) = Put(r, p) /\ d[p] = r[p]
BY DEF Else, Put, Places, Queues, Fields

(* Closing connections of tasks keeps Conns.                                *)
LEMMA ConnsKept ==
  ASSUME NEW r, NEW d, d.seen = r.seen, d.conn = r.conn,
         \A u \in TaskCells : TaskKept(r, d, u) /\ d.task[u].conn \in {r.task[u].conn, "none"}
  PROVE  Conns(r) => Conns(d)
BY DEF Conns, TaskKept

(* What is t's has been taken from one place.                               *)
LEMMA CutBy ==
  ASSUME NEW r, NEW y, NEW d, NEW t, NEW f \in Places, Typed(r), Own(r, y),
         Else(d, r, {"atask", "count", "task", f}),
         Put(d, f) = Put(r, f) \ Walks(r, t), f \in Queues => IsInjective(d[f]),
         Gone(r, d, Put(r, f) \cap Walks(r, t))
  PROVE  Own(d, y) /\ Cut(r, d, t)
<1> DEFINE S == Put(r, f) \cap Walks(r, t)
<1>1. \A p \in Places : p # f => Put(d, p) = Put(r, p) /\ d[p] = r[p]
  <2>1. \A p \in Places : p \notin {"atask", "count", "task"}
    BY DEF Places, Queues
  <2> QED BY <2>1, PutSame
<1>2. \A p \in Places : Put(d, p) = Put(r, p) \ S
  <2>1. \A p \in Places : p # f => Put(r, p) \cap Put(r, f) = {}
    BY DEF Own, Apart
  <2>2. Put(d, f) = Put(r, f) \ S
    OBVIOUS
  <2> QED BY <1>1, <2>1, <2>2
<1>3. /\ \A a \in AtaskCells : AtaskKept(r, d, a) /\ (d.atask[a].busy <=> r.atask[a].busy /\ a \notin S)
      /\ \A u \in TaskCells : TaskKept(r, d, u) /\ d.task[u].conn = r.task[u].conn
      /\ Tally(r) => Tally(d)
      /\ Exact(r) => Exact(d)
  BY DEF Gone
<1>4. S \subseteq Walks(r, t) /\ S \subseteq Put(r, f)
  OBVIOUS
<1> HIDE DEF S
<1>5. /\ d.installed = r.installed /\ d.wild = r.wild /\ d.seen = r.seen /\ d.tx = r.tx
      /\ d.conn = r.conn /\ d.full = r.full /\ d.pkt = r.pkt /\ d.pretry = r.pretry
      /\ d.flight = r.flight
  BY DEF Else, Fields, Places, Queues
<1>6. Cut(r, d, t)
  <2>1. Conns(r) => Conns(d)
    BY <1>3, <1>5, ConnsKept
  <2>2. \A p \in Places : /\ Put(d, p) \subseteq Put(r, p)
                          /\ Put(r, p) \ Put(d, p) \subseteq Walks(r, t)
    BY <1>2, <1>4
  <2>3. \A a \in AtaskCells : r.atask[a].busy /\ ~d.atask[a].busy =>
                                \E p \in Places : a \in Put(r, p)
    BY <1>3, <1>4
  <2> QED BY <1>3, <1>5, <2>1, <2>2, <2>3 DEF Cut
<1>7. Apart(d)
  <2>1. \A p \in Places, o \in Places : p # o => Put(d, p) \cap Put(d, o) = {}
    BY <1>2 DEF Own, Apart
  <2>2. \A p \in Queues : IsInjective(d[p])
    <3>1. \A p \in Queues : p \in Places /\ IsInjective(r[p])
      BY DEF Own, Apart, Places
    <3> QED BY <1>1, <3>1
  <2> QED BY <2>1, <2>2 DEF Apart
<1>8. Tended(d, y)
  <2>1. ASSUME NEW p \in Places, NEW a \in Put(d, p)
        PROVE  a # y /\ d.atask[a].busy /\ Clears(d, d.atask[a].t, p)
    <3>1. a \in Put(r, p) /\ a \notin S
      BY <1>2, <2>1
    <3>2. a \in AtaskCells
      BY <3>1, PutCells
    <3>3. a # y /\ r.atask[a].busy /\ Clears(r, r.atask[a].t, p)
      BY <3>1 DEF Own, Tended
    <3>4. d.atask[a].t = r.atask[a].t /\ d.atask[a].busy
      BY <1>3, <3>1, <3>2, <3>3 DEF AtaskKept
    <3>5. \A u \in TaskCells : TaskKept(r, d, u)
      BY <1>3
    <3> QED BY <3>3, <3>4, <3>5 DEF Clears, TaskKept
  <2>2. ASSUME NEW a \in BusyCells(d), a # y
        PROVE  \E p \in Places : a \in Put(d, p)
    <3>1. a \in BusyCells(r) /\ a \notin S
      BY <1>3, <2>2 DEF BusyCells
    <3>2. PICK p \in Places : a \in Put(r, p)
      BY <2>2, <3>1 DEF Own, Tended
    <3> QED BY <1>2, <3>1, <3>2
  <2> QED BY <2>1, <2>2 DEF Tended
<1>9. Exact(d) /\ Plain(d)
  BY <1>3, <1>5 DEF Own, Plain
<1> QED BY <1>6, <1>7, <1>8, <1>9 DEF Own

(* Cutting in two steps, and cutting nothing.                               *)
LEMMA CutOn ==
  ASSUME NEW r, NEW d, NEW e, NEW t, Cut(r, d, t), Cut(d, e, t)
  PROVE  Cut(r, e, t)
<1>1. \A a \in AtaskCells : AtaskKept(r, e, a)
  BY DEF Cut, AtaskKept
<1>2. \A u \in TaskCells : TaskKept(r, e, u)
  BY DEF Cut, TaskKept
<1>3. \A u \in TaskCells : u # t => e.task[u].conn = r.task[u].conn
  BY DEF Cut
<1>4. /\ e.installed = r.installed /\ e.wild = r.wild /\ e.seen = r.seen /\ e.tx = r.tx
      /\ (Tally(r) => Tally(e)) /\ (Conns(r) => Conns(e))
  BY DEF Cut
<1>5. Walks(d, t) = Walks(r, t)
  BY DEF Cut, AtaskKept, Walks
<1>6. \A p \in Places : Put(e, p) \subseteq Put(r, p) /\ Put(r, p) \ Put(e, p) \subseteq Walks(r, t)
  BY <1>5 DEF Cut
<1>7. \A a \in AtaskCells : e.atask[a].busy => r.atask[a].busy
  BY DEF Cut
<1>8. \A a \in AtaskCells : r.atask[a].busy /\ ~e.atask[a].busy =>
                              \E p \in Places : a \in Put(r, p)
  BY <1>6 DEF Cut
<1> QED BY <1>1, <1>2, <1>3, <1>4, <1>6, <1>7, <1>8 DEF Cut

LEMMA CutNone ==
  ASSUME NEW r, NEW t
  PROVE  Cut(r, r, t)
BY DEF Cut, AtaskKept, TaskKept

(* Clearing a list, and one of the slots of SendSTR, cuts the task.         *)
LEMMA CutRemove ==
  ASSUME NEW r, NEW y, NEW f \in Queues, NEW t, Typed(r), Own(r, y)
  PROVE  LET d == RemoveTask(r, f, t)
         IN  /\ Typed(d) /\ Own(d, y) /\ Cut(r, d, t) /\ Put(d, f) \cap Walks(r, t) = {}
             /\ Else(d, r, {"atask", "count", "task", f})
<1>1. PICK d : d = RemoveTask(r, f, t)
  OBVIOUS
<1>2. f \in Places /\ Put(r, f) = Range(r[f]) /\ Put(d, f) = Range(d[f])
  BY DEF Put, Places
<1>3. IsInjective(r[f]) /\ \A a \in Range(r[f]) : r.atask[a].busy
  BY <1>2 DEF Own, Apart, Tended
<1>4. /\ Typed(d) /\ Else(d, r, {"atask", "count", "task", f})
      /\ Range(d[f]) = Range(r[f]) \ Walks(r, t) /\ IsInjective(d[f])
      /\ Gone(r, d, Range(r[f]) \cap Walks(r, t))
  BY ONLY <1>1, <1>3, RemoveTaskIs, Typed(r), f \in Queues
<1>5. Own(d, y) /\ Cut(r, d, t)
  BY <1>2, <1>4, CutBy
<1> QED BY <1>1, <1>2, <1>4, <1>5

LEMMA CutDropped ==
  ASSUME NEW r, NEW y, NEW f \in {"sending", "retry"}, NEW t, Typed(r), Own(r, y)
  PROVE  LET d == Dropped(r, f, t)
         IN  /\ Typed(d) /\ Own(d, y) /\ Cut(r, d, t) /\ Put(d, f) \cap Walks(r, t) = {}
             /\ Else(d, r, {"atask", "count", "task", f})
<1>1. PICK d : d = Dropped(r, f, t)
  OBVIOUS
<1>2. Typed(d)
  BY <1>1, DroppedGoes DEF Goes
<1>3. f \in Places /\ f \notin Queues /\ r[f] \in AtaskCells \cup {0}
  BY DEF Typed, Places, Queues
<1>4. CASE ~(r[f] # 0 /\ TaskOf(r, r[f]) = t)
  <2>1. d = r
    BY <1>1, <1>4 DEF Dropped
  <2>2. Put(r, f) \cap Walks(r, t) = {}
    BY <1>3, <1>4 DEF Put, Walks, TaskOf
  <2>3. Else(r, r, {"atask", "count", "task", f})
    BY DEF Else, Typed
  <2> QED BY <1>1, <1>2, <2>1, <2>2, <2>3, CutNone
<1>5. CASE r[f] # 0 /\ TaskOf(r, r[f]) = t
  <2>1. PICK a, e : a = r[f] /\ e = AtaskDelete(r, a)
    OBVIOUS
  <2>2. Put(r, f) = {a} /\ a \in AtaskCells /\ a \in Walks(r, t)
    BY <1>3, <1>5, <2>1 DEF Put, Walks, TaskOf
  <2>3. a \in BusyCells(r)
    BY <1>3, <2>2 DEF Own, Tended, BusyCells
  <2>4. Gone(r, e, {a}) /\ Else(e, r, {"atask", "count", "task"}) /\ Typed(e)
    BY <2>1, <2>3, GoneDelete
  <2>5. d = [e EXCEPT ![f] = 0]
    BY <1>1, <1>5, <2>1 DEF Dropped
  <2>6. /\ d[f] = 0 /\ d.atask = e.atask /\ d.task = e.task /\ d.count = e.count
        /\ Else(d, e, {f})
    BY <2>4, <2>5 DEF Else, Fields
  <2>7. Else(d, r, {"atask", "count", "task", f})
    BY <2>4, <2>6 DEF Else
  <2>8. Gone(r, d, {a})
    BY <2>4, <2>6, GoneElse
  <2>9. Put(d, f) = {}
    BY <1>3, <2>6 DEF Put
  <2>10. Put(d, f) = Put(r, f) \ Walks(r, t) /\ Put(r, f) \cap Walks(r, t) = {a}
    BY <2>2, <2>9
  <2>11. Own(d, y) /\ Cut(r, d, t)
    BY <1>3, <2>7, <2>8, <2>10, CutBy
  <2> QED BY <1>1, <1>2, <2>7, <2>9, <2>11
<1> QED BY <1>4, <1>5

(* The fields of which Own speaks, task apart.                              *)
OwnFields == Places \cup {"atask", "full", "pkt", "pretry", "flight"}

(* Own is about what OwnFields says.                                        *)
LEMMA OwnStill ==
  ASSUME NEW r, NEW y, NEW d, NEW F, Own(r, y), Else(d, r, F), F \cap OwnFields = {},
         \A u \in TaskCells : TaskKept(r, d, u) /\ d.task[u].atasks = r.task[u].atasks
  PROVE  Own(d, y)
<1>1. /\ \A p \in Places : d[p] = r[p] /\ Put(d, p) = Put(r, p)
      /\ d.atask = r.atask /\ d.full = r.full /\ d.pkt = r.pkt /\ d.pretry = r.pretry
      /\ d.flight = r.flight
  BY DEF Else, OwnFields, Put, Places, Queues, Fields
<1>2. Apart(d)
  BY <1>1 DEF Own, Apart, Places
<1>3. BusyCells(d) = BusyCells(r) /\ \A t : Walking(d, t) = Walking(r, t)
  BY <1>1 DEF BusyCells, Walking
<1>4. Exact(d) /\ Plain(d)
  BY <1>1, <1>3 DEF Own, Exact, Plain, TaskKept
<1>5. Tended(d, y)
  <2>1. \A t, p : Clears(r, t, p) => Clears(d, t, p)
    BY DEF Clears, TaskKept
  <2>2. \A p \in Places : \A a \in Put(d, p) :
          a # y /\ d.atask[a].busy /\ Clears(d, d.atask[a].t, p)
    BY <1>1, <2>1 DEF Own, Tended
  <2>3. \A a \in BusyCells(d) : a = y \/ \E p \in Places : a \in Put(d, p)
    BY <1>1, <1>3 DEF Own, Tended
  <2> QED BY <2>2, <2>3 DEF Tended
<1> QED BY <1>2, <1>4, <1>5 DEF Own

(* Nothing that Cut speaks of but a connection of t.                        *)
LEMMA CutStill ==
  ASSUME NEW r, NEW d, NEW t, NEW F, Else(d, r, F),
         F \cap (Places \cup {"atask", "count", "installed", "wild", "seen", "tx"}) = {},
         \A u \in TaskCells : TaskKept(r, d, u) /\ (u # t => d.task[u].conn = r.task[u].conn),
         Conns(r) => Conns(d)
  PROVE  Cut(r, d, t)
<1>1. /\ \A p \in Places : Put(d, p) = Put(r, p)
      /\ d.atask = r.atask /\ d.count = r.count /\ d.installed = r.installed
      /\ d.wild = r.wild /\ d.seen = r.seen /\ d.tx = r.tx
  BY DEF Else, Put, Places, Queues, Fields
<1>2. Tally(r) => Tally(d)
  BY <1>1 DEF Tally, BusyCells
<1> QED BY <1>1, <1>2 DEF Cut, AtaskKept

(* So does closing its connection.                                          *)
LEMMA CutClose ==
  ASSUME NEW r, NEW y, NEW t \in TaskCells, Typed(r), Own(r, y), r.task[t].busy
  PROVE  LET d == CloseConnection(r, t)
         IN  Typed(d) /\ Own(d, y) /\ Cut(r, d, t) /\ Else(d, r, {"conn", "task"})
<1>1. PICK d : d = CloseConnection(r, t)
  OBVIOUS
<1>2. Typed(d)
  BY <1>1, CloseGoes DEF Goes
<1>3. CASE r.task[t].conn = "none"
  <2>1. d = r
    BY <1>1, <1>3 DEF CloseConnection
  <2>2. Else(r, r, {"conn", "task"})
    BY DEF Else, Typed
  <2> QED BY <1>1, <1>2, <2>1, <2>2, CutNone
<1>4. CASE r.task[t].conn # "none"
  <2>1. /\ Else(d, r, {"conn", "task"}) /\ d.task = [r.task EXCEPT ![t].conn = "none"]
        /\ d.conn = [i \in 1 .. 2 |-> IF r.conn[i].cid = IdOf(r, t)
                                      THEN [r.conn[i] EXCEPT !.st = "fin"] ELSE r.conn[i]]
    BY <1>1, <1>4 DEF CloseConnection, Typed, Else, Fields
  <2>2. r.task \in [TaskCells -> TaskRec]
    BY DEF Typed, TasksOK
  <2>3. ASSUME NEW u \in TaskCells
        PROVE  /\ TaskKept(r, d, u) /\ d.task[u].atasks = r.task[u].atasks
               /\ d.task[u].conn = IF u = t THEN "none" ELSE r.task[u].conn
    <3>1. CASE u # t
      <4>1. d.task[u] = r.task[u]
        BY <2>1, <2>2, <3>1
      <4> QED BY <3>1, <4>1 DEF TaskKept
    <3>2. CASE u = t
      <4>1. PICK v : v = r.task[u]
        OBVIOUS
      <4>2. d.task[u] = [v EXCEPT !.conn = "none"] /\ v \in TaskRec
        BY <2>1, <2>2, <3>2, <4>1
      <4> QED BY <3>2, <4>1, <4>2 DEF TaskKept, TaskRec
    <3> QED BY <3>1, <3>2
  <2>4. Own(d, y)
    <3>1. {"conn", "task"} \cap OwnFields = {}
      BY DEF OwnFields, Places, Queues
    <3> QED BY ONLY <2>1, <2>3, <3>1, OwnStill, Own(r, y)
  <2>5. \A i \in 1 .. 2 : /\ d.conn[i].cid = r.conn[i].cid
                          /\ d.conn[i].st = "fin" => \/ r.conn[i].st = "fin"
                                                     \/ r.conn[i].cid = r.task[t].id
    BY <2>1 DEF IdOf
  <2>6. Conns(r) => Conns(d)
    <3> SUFFICES ASSUME Conns(r)
                 PROVE  Conns(d)
      OBVIOUS
    <3>1. d.seen = r.seen
      BY <2>1 DEF Else, Fields
    <3>2. \A u \in TaskCells : TaskKept(r, d, u)
      BY <2>3
    <3>3. ASSUME NEW u \in TaskCells, NEW i \in 1 .. 2, d.task[u].busy, d.task[u].conn # "none",
                 d.conn[i].cid = d.task[u].id, d.conn[i].st = "fin"
          PROVE  FALSE
      <4>1. u # t /\ r.task[u].conn # "none" /\ r.task[u].busy /\ r.conn[i].cid = r.task[u].id
        BY <2>3, <2>5, <3>2, <3>3 DEF TaskKept
      <4>2. r.conn[i].cid = r.task[t].id
        BY <2>5, <3>3, <4>1 DEF Conns
      <4> QED BY <4>1, <4>2 DEF Conns
    <3>4. \A v, u \in TaskCells : d.task[v].busy /\ d.task[u].busy /\ d.task[v].id = d.task[u].id
                                    => v = u
      BY <3>2 DEF Conns, TaskKept
    <3>5. \A u \in TaskCells : d.task[u].busy => d.task[u].id \in d.seen
      BY <3>1, <3>2 DEF Conns, TaskKept
    <3>6. \A i \in 1 .. 2 : d.conn[i].cid \in d.seen \cup {0}
      BY <2>5, <3>1 DEF Conns
    <3> QED BY <3>3, <3>4, <3>5, <3>6 DEF Conns
  <2>7. Cut(r, d, t)
    <3>1. {"conn", "task"}
            \cap (Places \cup {"atask", "count", "installed", "wild", "seen", "tx"}) = {}
      BY DEF Places, Queues
    <3>2. \A u \in TaskCells : TaskKept(r, d, u) /\ (u # t => d.task[u].conn = r.task[u].conn)
      BY <2>3
    <3> QED BY ONLY <2>1, <2>6, <3>1, <3>2, CutStill
  <2> QED BY <1>1, <1>2, <2>1, <2>4, <2>7
<1> QED BY <1>3, <1>4

(* The places that the end of an element clears.                            *)
Cleared(d, t, kind) ==
  \A p \in Places : p # "q" /\ kind \in Uses(p) => Put(d, p) \cap Walks(d, t) = {}

(* What was cleared stays so.                                               *)
LEMMA CutClears ==
  ASSUME NEW r, NEW d, NEW t, Cut(r, d, t)
  PROVE  /\ Walks(d, t) = Walks(r, t)
         /\ \A kind : Cleared(r, t, kind) => Cleared(d, t, kind)
         /\ \A p \in Places : Put(r, p) \cap Walks(r, t) = {} => Put(d, p) \cap Walks(d, t) = {}
<1>1. Walks(d, t) = Walks(r, t)
  BY DEF Cut, AtaskKept, Walks
<1>2. \A p \in Places : Put(d, p) \subseteq Put(r, p)
  BY DEF Cut
<1> QED BY <1>1, <1>2 DEF Cleared

(* What was pending is, if it is of nobody but t.                           *)
LEMMA PendCut ==
  ASSUME NEW r, NEW d, NEW t, Cut(r, d, t), d.pend = r.pend \/ d.pend = 0,
         PendOK(r), d.pend # 0 => d.pend \notin Walks(r, t)
  PROVE  PendOK(d)
BY DEF Cut, PendOK, Put, Places, Queues

(* And so does what Sample does when it ends (Sample.nc:283).               *)
LEMMA CutSample ==
  ASSUME NEW r, NEW y, NEW t, Typed(r), Own(r, y)
  PROVE  LET d == SampleRemove(r, t)
         IN  /\ Typed(d) /\ Own(d, y) /\ Cut(r, d, t)
             /\ Put(d, "samp") \cap Walks(d, t) = {}
             /\ PendOK(r) => PendOK(d)
             /\ Else(d, r, {"atask", "count", "task", "samp", "full", "pend"})
<1>1. PICK e : e = RemoveTask(r, "samp", t)
  OBVIOUS
<1>2. "samp" \in Queues /\ "samp" \in Places
  BY DEF Queues, Places
<1>3. /\ Typed(e) /\ Own(e, y) /\ Cut(r, e, t) /\ Put(e, "samp") \cap Walks(r, t) = {}
      /\ Else(e, r, {"atask", "count", "task", "samp"})
  BY <1>1, <1>2, CutRemove
<1>4. PICK d : d = SampleRemove(r, t)
  OBVIOUS
<1>5. Typed(d)
  BY <1>4, RemovedGoes DEF Goes
<1>6. /\ Else(d, e, {"full", "pend"}) /\ d.full = {a \in e.full : TaskOf(r, a) # t}
      /\ d.pend = IF e.pend # 0 /\ TaskOf(r, e.pend) = t THEN 0 ELSE e.pend
  BY <1>1, <1>3, <1>4 DEF SampleRemove, Typed, Else, Fields
<1>7. d.full = {} /\ e.full = {}
  BY <1>3, <1>6 DEF Own, Plain
<1>8. Else(d, e, {"pend"})
  BY <1>6, <1>7 DEF Else, Fields
<1>9. d.task = e.task
  BY <1>8 DEF Else, Fields
<1>10. Own(d, y)
  <2>1. {"pend"} \cap OwnFields = {}
    BY DEF OwnFields, Places, Queues
  <2>2. \A u \in TaskCells : TaskKept(e, d, u) /\ d.task[u].atasks = e.task[u].atasks
    BY <1>9 DEF TaskKept
  <2> QED BY ONLY <1>3, <1>8, <2>1, <2>2, OwnStill
<1>11. Cut(e, d, t)
  <2>1. {"pend"} \cap (Places \cup {"atask", "count", "installed", "wild", "seen", "tx"}) = {}
    BY DEF Places, Queues
  <2>2. \A u \in TaskCells : TaskKept(e, d, u) /\ (u # t => d.task[u].conn = e.task[u].conn)
    BY <1>9 DEF TaskKept
  <2>3. d.seen = e.seen /\ d.conn = e.conn
    BY <1>8 DEF Else, Fields
  <2>4. \A u \in TaskCells : TaskKept(e, d, u) /\ d.task[u].conn \in {e.task[u].conn, "none"}
    BY <1>9 DEF TaskKept
  <2>5. Conns(e) => Conns(d)
    BY <2>3, <2>4, ConnsKept
  <2> QED BY ONLY <1>8, <2>1, <2>2, <2>5, CutStill
<1>12. Cut(r, d, t)
  BY <1>3, <1>11, CutOn
<1>13. Put(d, "samp") \cap Walks(d, t) = {}
  <2>1. Put(e, "samp") \cap Walks(e, t) = {}
    BY <1>3, CutClears
  <2> QED BY <1>2, <1>11, <2>1, CutClears
<1>14. PendOK(r) => PendOK(d)
  <2>1. e.pend = r.pend
    BY <1>3 DEF Else, Fields
  <2>2. d.pend # 0 => d.pend \notin Walks(r, t)
    BY <1>6, <2>1 DEF Walks, TaskOf
  <2> QED BY <1>6, <1>12, <2>1, <2>2, PendCut
<1>15. Else(d, r, {"atask", "count", "task", "samp", "full", "pend"})
  BY <1>3, <1>6 DEF Else
<1> QED BY <1>4, <1>5, <1>10, <1>12, <1>13, <1>14, <1>15

(* The datum that is to come is for what waits for the ADC.                 *)
LEMMA PendSame ==
  ASSUME NEW r, NEW d, d.pend = r.pend, d.samp = r.samp, PendOK(r)
  PROVE  PendOK(d)
BY DEF PendOK

(* ADC.stop takes no active task from where it is.                          *)
LEMMA CutSampleSuicide ==
  ASSUME NEW r, NEW y, NEW t, Typed(r), Own(r, y)
  PROVE  LET d == SampleSuicide(r, t)
         IN  /\ Typed(d) /\ Own(d, y) /\ Cut(r, d, t)
             /\ Put(d, "samp") \cap Walks(d, t) = {}
             /\ PendOK(r) => PendOK(d)
<1>1. PICK e : e = SampleRemove(r, t)
  OBVIOUS
<1>2. /\ Typed(e) /\ Own(e, y) /\ Cut(r, e, t) /\ Put(e, "samp") \cap Walks(e, t) = {}
      /\ PendOK(r) => PendOK(e)
  BY <1>1, CutSample
<1>3. PICK d : d = SampleSuicide(r, t)
  OBVIOUS
<1>4. CASE d = e
  BY <1>2, <1>3, <1>4
<1>5. CASE d = AdcStop(e)
  <2>1. Typed(d) /\ Else(d, e, {"adc", "cut"})
    BY <1>2, <1>5, AdcStopGoes DEF Goes
  <2>2. /\ d.task = e.task /\ d.seen = e.seen /\ d.conn = e.conn
        /\ d.pend = e.pend /\ d.samp = e.samp
    BY <2>1 DEF Else, Fields
  <2>3. Own(d, y)
    <3>1. {"adc", "cut"} \cap OwnFields = {}
      BY DEF OwnFields, Places, Queues
    <3>2. \A u \in TaskCells : TaskKept(e, d, u) /\ d.task[u].atasks = e.task[u].atasks
      BY <2>2 DEF TaskKept
    <3> QED BY ONLY <1>2, <2>1, <3>1, <3>2, OwnStill
  <2>4. Cut(e, d, t)
    <3>1. {"adc", "cut"} \cap (Places \cup {"atask", "count", "installed", "wild", "seen", "tx"})
            = {}
      BY DEF Places, Queues
    <3>2. \A u \in TaskCells : TaskKept(e, d, u) /\ d.task[u].conn \in {e.task[u].conn, "none"}
      BY <2>2 DEF TaskKept
    <3>3. \A u \in TaskCells : TaskKept(e, d, u) /\ (u # t => d.task[u].conn = e.task[u].conn)
      BY <2>2 DEF TaskKept
    <3>4. Conns(e) => Conns(d)
      BY <2>2, <3>2, ConnsKept
    <3> QED BY ONLY <2>1, <3>1, <3>3, <3>4, CutStill
  <2>5. Cut(r, d, t)
    BY <1>2, <2>4, CutOn
  <2>6. "samp" \in Places
    BY DEF Places, Queues
  <2>7. Put(d, "samp") \cap Walks(d, t) = {}
    BY <1>2, <2>4, <2>6, CutClears
  <2>8. PendOK(r) => PendOK(d)
    BY <1>2, <2>2, PendSame
  <2> QED BY <1>3, <2>1, <2>3, <2>5, <2>7, <2>8
<1> QED BY <1>1, <1>3, <1>4, <1>5 DEF SampleSuicide

(* The elements that the theorems are about: all but those of SendPkt.      *)
NoPackets == \A id \in Ids : Range(Chain[id]) \cap {"pkt", "be"} = {}

(* The end of an element cuts its task, and clears what it uses.            *)
LEMMA CutSuicide ==
  ASSUME NEW r, NEW y, NEW t \in TaskCells, NEW kind \in Kinds \ {"pkt", "be"},
         Typed(r), Own(r, y), r.task[t].busy
  PROVE  LET d == Suicide(r, t, kind)
         IN  /\ Typed(d) /\ Own(d, y) /\ Cut(r, d, t) /\ Cleared(d, t, kind)
             /\ PendOK(r) => PendOK(d)
<1>1. PICK d : d = Suicide(r, t, kind)
  OBVIOUS
<1>2. CASE kind \in {"wait", "every"}
  <2>1. d = RemoveTask(r, "timers", t) /\ "timers" \in Queues
    BY <1>1, <1>2 DEF Suicide, Queues
  <2>2. /\ Typed(d) /\ Own(d, y) /\ Cut(r, d, t) /\ Put(d, "timers") \cap Walks(r, t) = {}
        /\ Else(d, r, {"atask", "count", "task", "timers"})
    BY <2>1, CutRemove
  <2>3. \A p \in Places : p # "q" /\ kind \in Uses(p) => p = "timers"
    BY <1>2 DEF Uses, Places, Queues
  <2>4. Cleared(d, t, kind)
    BY <2>2, <2>3, CutClears DEF Cleared
  <2>5. d.pend = r.pend /\ d.samp = r.samp
    BY <2>2 DEF Else, Fields
  <2> QED BY <1>1, <2>2, <2>4, <2>5, PendSame
<1>3. CASE kind \in {"sample", "repeat"}
  <2>1. d = SampleSuicide(r, t)
    BY <1>1, <1>3 DEF Suicide
  <2>2. /\ Typed(d) /\ Own(d, y) /\ Cut(r, d, t) /\ Put(d, "samp") \cap Walks(d, t) = {}
        /\ PendOK(r) => PendOK(d)
    BY <2>1, CutSampleSuicide
  <2>3. \A p \in Places : p # "q" /\ kind \in Uses(p) => p = "samp"
    BY <1>3 DEF Uses, Places, Queues
  <2> QED BY <1>1, <2>2, <2>3 DEF Cleared
<1>4. CASE kind = "str"
  <2>1. PICK a : a = Dropped(r, "retry", t)
    OBVIOUS
  <2>2. PICK b : b = Dropped(a, "sending", t)
    OBVIOUS
  <2>3. PICK c : c = RemoveTask(b, "str", t)
    OBVIOUS
  <2>4. d = CloseConnection(c, t)
    BY <1>1, <1>4, <2>1, <2>2, <2>3 DEF Suicide, StrSuicide
  <2>5. /\ Typed(a) /\ Own(a, y) /\ Cut(r, a, t) /\ Put(a, "retry") \cap Walks(r, t) = {}
        /\ Else(a, r, {"atask", "count", "task", "retry"})
    BY <2>1, CutDropped
  <2>6. /\ Typed(b) /\ Own(b, y) /\ Cut(a, b, t) /\ Put(b, "sending") \cap Walks(a, t) = {}
        /\ Else(b, a, {"atask", "count", "task", "sending"})
    BY <2>2, <2>5, CutDropped
  <2>7. /\ Typed(c) /\ Own(c, y) /\ Cut(b, c, t) /\ Put(c, "str") \cap Walks(b, t) = {}
        /\ Else(c, b, {"atask", "count", "task", "str"})
    BY <2>3, <2>6, CutRemove DEF Queues
  <2>8. Cut(r, c, t)
    BY <2>5, <2>6, <2>7, CutOn
  <2>9. c.task[t].busy
    BY <2>8 DEF Cut, TaskKept
  <2>10. Typed(d) /\ Own(d, y) /\ Cut(c, d, t) /\ Else(d, c, {"conn", "task"})
    BY <2>4, <2>7, <2>9, CutClose
  <2>11. Cut(r, d, t)
    BY <2>8, <2>10, CutOn
  <2>12. Walks(a, t) = Walks(r, t) /\ Walks(b, t) = Walks(r, t) /\ Walks(d, t) = Walks(r, t)
    BY <2>5, <2>6, <2>11, CutClears
  <2>13. /\ Put(d, "retry") \cap Walks(d, t) = {}
         /\ Put(d, "sending") \cap Walks(d, t) = {}
         /\ Put(d, "str") \cap Walks(d, t) = {}
    <3>1. {"retry", "sending", "str"} \subseteq Places
      BY DEF Places, Queues
    <3>2. \A p \in Places : Put(d, p) \subseteq Put(c, p) /\ Put(c, p) \subseteq Put(b, p)
                            /\ Put(b, p) \subseteq Put(a, p)
      BY <2>6, <2>7, <2>10 DEF Cut
    <3> QED BY <2>5, <2>6, <2>7, <2>12, <3>1, <3>2
  <2>14. \A p \in Places : p # "q" /\ kind \in Uses(p) => p \in {"retry", "sending", "str"}
    BY <1>4 DEF Uses, Places, Queues
  <2>15. Cleared(d, t, kind)
    BY <2>13, <2>14 DEF Cleared
  <2>16. d.pend = r.pend /\ d.samp = r.samp
    <3>1. a.pend = r.pend /\ a.samp = r.samp
      BY <2>5 DEF Else, Fields
    <3>2. b.pend = a.pend /\ b.samp = a.samp
      BY <2>6 DEF Else, Fields
    <3>3. c.pend = b.pend /\ c.samp = b.samp
      BY <2>7 DEF Else, Fields
    <3>4. d.pend = c.pend /\ d.samp = c.samp
      BY <2>10 DEF Else, Fields
    <3> QED BY <3>1, <3>2, <3>3, <3>4
  <2> QED BY <1>1, <2>10, <2>11, <2>15, <2>16, PendSame
<1>5. CASE kind \notin {"wait", "every", "sample", "repeat", "str"}
  <2>1. d = r
    BY <1>1, <1>5 DEF Suicide
  <2>2. \A p \in Places : p # "q" => kind \notin Uses(p)
    BY <1>5 DEF Uses, Places, Queues
  <2>3. Cleared(d, t, kind)
    BY <2>2 DEF Cleared
  <2> QED BY <1>1, <2>1, <2>3, CutNone
<1> QED BY <1>2, <1>3, <1>4, <1>5

(* From r to d the task t has ended, and all that was its own with it.      *)
Ended(r, d, t) ==
  /\ \A p \in Places : /\ Put(d, p) \subseteq Put(r, p)
                       /\ Put(r, p) \ Put(d, p) \subseteq Walks(r, t)
                       /\ Put(d, p) \cap Walks(r, t) = {}
  /\ \A a \in AtaskCells : AtaskKept(r, d, a)
  /\ \A a \in AtaskCells : d.atask[a].busy => r.atask[a].busy
  /\ \A a \in AtaskCells : r.atask[a].busy /\ ~d.atask[a].busy =>
                             \E p \in Places : a \in Put(r, p)
  /\ \A u \in TaskCells : u # t => TaskKept(r, d, u) /\ d.task[u].conn = r.task[u].conn
  /\ ~d.task[t].busy
  /\ d.wild = r.wild /\ d.seen = r.seen /\ d.tx = r.tx
  /\ Tally(r) => Tally(d)
  /\ Conns(r) => Conns(d)
  /\ PendOK(r) => PendOK(d)

(* A task that was cut and then ended has ended.                            *)
LEMMA EndCut ==
  ASSUME NEW r, NEW e, NEW d, NEW t, Cut(r, e, t), Ended(e, d, t), PendOK(r) => PendOK(e)
  PROVE  Ended(r, d, t)
<1>1. Walks(e, t) = Walks(r, t)
  BY CutClears
<1>2. \A p \in Places : /\ Put(d, p) \subseteq Put(r, p)
                        /\ Put(r, p) \ Put(d, p) \subseteq Walks(r, t)
                        /\ Put(d, p) \cap Walks(r, t) = {}
  BY <1>1 DEF Cut, Ended
<1>3. \A a \in AtaskCells : AtaskKept(r, d, a)
  BY DEF Cut, Ended, AtaskKept
<1>4. \A a \in AtaskCells : d.atask[a].busy => r.atask[a].busy
  BY DEF Cut, Ended
<1>5. \A a \in AtaskCells : r.atask[a].busy /\ ~d.atask[a].busy =>
                              \E p \in Places : a \in Put(r, p)
  <2>1. \A p \in Places : Put(e, p) \subseteq Put(r, p)
    BY DEF Cut
  <2> QED BY <2>1 DEF Cut, Ended
<1>6. \A u \in TaskCells : u # t => TaskKept(r, d, u) /\ d.task[u].conn = r.task[u].conn
  BY DEF Cut, Ended, TaskKept
<1>7. /\ ~d.task[t].busy
      /\ d.wild = r.wild /\ d.seen = r.seen /\ d.tx = r.tx
      /\ Tally(r) => Tally(d)
      /\ Conns(r) => Conns(d)
      /\ PendOK(r) => PendOK(d)
  BY DEF Cut, Ended
<1> QED BY <1>2, <1>3, <1>4, <1>5, <1>6, <1>7 DEF Ended

(* task_delete and destroy end a task and disturb no other.                 *)
LEMMA TaskDeleteOwn ==
  ASSUME NoPackets, NEW r, NEW y, NEW t \in TaskCells, Typed(r), Own(r, y), r.task[t].busy,
         Put(r, "q") \cap Walks(r, t) = {}
  PROVE  LET d == TaskDelete(r, t)
         IN  Typed(d) /\ Own(d, y) /\ Ended(r, d, t) /\ d.installed = r.installed
<1>1. PICK n, id : n = r.task[t].built /\ id = r.task[t].id
  OBVIOUS
<1>2. id \in Ids /\ n \in 0 .. Len(Chain[id]) /\ Chain[id] \in Seq(Kinds)
  BY <1>1, TaskCellsAssumption DEF Typed, TasksOK
<1>3. n \in Nat
  BY <1>2
<1>4. \A i \in 1 .. n : Chain[id][i] \in Kinds \ {"pkt", "be"}
  <2>1. \A i \in 1 .. n : i \in DOMAIN Chain[id] /\ Chain[id][i] \in Kinds
    BY <1>2
  <2>2. \A i \in 1 .. n : Chain[id][i] \in Range(Chain[id])
    BY <2>1 DEF Range
  <2> QED BY <1>2, <2>1, <2>2 DEF NoPackets
<1>5. PICK out : /\ out[0] = r
                 /\ \A k \in 1 .. n : out[k] = Suicide(out[k - 1], t, Chain[id][k])
                 /\ TaskDelete(r, t) = [out[n] EXCEPT !.task[t].busy = FALSE]
  BY <1>1, TaskDeleteSteps
<1> DEFINE Mid(k) == /\ Typed(out[k]) /\ Own(out[k], y) /\ Cut(r, out[k], t)
                     /\ PendOK(r) => PendOK(out[k])
                     /\ \A i \in 1 .. k : Cleared(out[k], t, Chain[id][i])
           W == {k \in 0 .. n : Mid(k)}
<1>6. 0 \in W
  BY <1>3, <1>5, CutNone
<1>7. ASSUME NEW k \in 1 .. n, k - 1 \in W
      PROVE  k \in W
  <2>1. Mid(k - 1) /\ k \in 0 .. n
    BY <1>3, <1>7
  <2>2. PICK e, f, kind : e = out[k - 1] /\ f = out[k] /\ kind = Chain[id][k]
    OBVIOUS
  <2>3. Typed(e) /\ Own(e, y) /\ Cut(r, e, t) /\ e.task[t].busy
    BY <2>1, <2>2 DEF Cut, TaskKept
  <2>4. f = Suicide(e, t, kind) /\ kind \in Kinds \ {"pkt", "be"}
    BY <1>4, <1>5, <2>2
  <2>5. /\ Typed(f) /\ Own(f, y) /\ Cut(e, f, t) /\ Cleared(f, t, kind)
        /\ PendOK(e) => PendOK(f)
    BY <2>3, <2>4, CutSuicide
  <2>6. Cut(r, f, t)
    BY <2>3, <2>5, CutOn
  <2>7. \A i \in 1 .. (k - 1) : Cleared(f, t, Chain[id][i])
    BY <2>1, <2>2, <2>5, CutClears
  <2>8. \A i \in 1 .. k : i \in 1 .. (k - 1) \/ i = k
    OBVIOUS
  <2>9. \A i \in 1 .. k : Cleared(f, t, Chain[id][i])
    BY <2>2, <2>5, <2>7, <2>8
  <2>10. PendOK(r) => PendOK(f)
    BY <2>1, <2>2, <2>5
  <2> QED BY <2>1, <2>2, <2>5, <2>6, <2>9, <2>10
<1> HIDE DEF W
<1>8. n \in W
  <2>1. 0 .. n \subseteq W
    BY ONLY <1>3, <1>6, <1>7, Climb
  <2> QED BY <1>3, <2>1
<1>9. PICK e : /\ e = out[n] /\ Typed(e) /\ Own(e, y) /\ Cut(r, e, t)
               /\ PendOK(r) => PendOK(e)
               /\ \A i \in 1 .. n : Cleared(e, t, Chain[id][i])
  BY <1>8 DEF W
<1>10. PICK d : d = TaskDelete(r, t)
  OBVIOUS
<1>11. /\ Else(d, e, {"task"}) /\ d.task = [e.task EXCEPT ![t].busy = FALSE]
       /\ e.task \in [TaskCells -> TaskRec]
  BY <1>5, <1>9, <1>10, Zenon DEF Typed, TasksOK, Else, Fields
<1>12. Typed(d)
  BY <1>10, TaskDeleteGoes DEF Goes
<1>13. /\ \A p \in Places : Put(d, p) = Put(e, p) /\ d[p] = e[p]
       /\ d.atask = e.atask /\ d.installed = e.installed /\ d.wild = e.wild
       /\ d.seen = e.seen /\ d.tx = e.tx /\ d.conn = e.conn /\ d.full = e.full
       /\ d.pkt = e.pkt /\ d.pretry = e.pretry /\ d.flight = e.flight
       /\ d.count = e.count /\ d.pend = e.pend /\ d.samp = e.samp
  <2>1. "task" \notin Places
    BY DEF Places, Queues
  <2>2. \A p \in Places : Put(d, p) = Put(e, p) /\ d[p] = e[p]
    BY <1>11, <2>1, PutSame
  <2>3. \A f \in Fields : f # "task" => d[f] = e[f]
    BY <1>11 DEF Else
  <2> QED BY <2>2, <2>3 DEF Fields
<1>14. ~d.task[t].busy /\ \A u \in TaskCells : u # t => d.task[u] = e.task[u]
  BY <1>11 DEF TaskRec
<1>15. \A p \in Places : Put(e, p) \cap Walks(e, t) = {}
  <2> SUFFICES ASSUME NEW p \in Places, NEW a \in Put(e, p), a \in Walks(e, t)
               PROVE  FALSE
    OBVIOUS
  <2>1. p # "q"
    <3>1. Put(e, "q") \cap Walks(e, t) = {}
      BY <1>9, CutClears DEF Places, Queues
    <3> QED BY <3>1
  <2>2. Clears(e, t, p)
    BY <1>9 DEF Own, Tended, Walks
  <2>3. e.task[t].built = n /\ e.task[t].id = id
    BY <1>1, <1>9, Zenon DEF Cut, TaskKept
  <2>4. PICK i \in 1 .. n : Chain[id][i] \in Uses(p)
    BY <2>1, <2>2, <2>3 DEF Clears
  <2> QED BY <1>9, <2>1, <2>4 DEF Cleared
<1>16. \A a \in AtaskCells : AtaskKept(e, d, a)
  BY <1>13 DEF AtaskKept
<1>17. BusyCells(d) = BusyCells(e) /\ \A u : Walking(d, u) = Walking(e, u)
  BY <1>13 DEF BusyCells, Walking
<1>18. Conns(e) => Conns(d)
  <2> SUFFICES ASSUME Conns(e)
               PROVE  Conns(d)
    OBVIOUS
  <2>1. \A u \in TaskCells : d.task[u].busy => u # t /\ d.task[u] = e.task[u]
    BY <1>14
  <2> QED BY <1>13, <2>1 DEF Conns
<1>19. Ended(e, d, t)
  <2>1. \A p \in Places : /\ Put(d, p) \subseteq Put(e, p)
                          /\ Put(e, p) \ Put(d, p) \subseteq Walks(e, t)
                          /\ Put(d, p) \cap Walks(e, t) = {}
    BY <1>13, <1>15
  <2>2. \A u \in TaskCells : u # t => TaskKept(e, d, u) /\ d.task[u].conn = e.task[u].conn
    BY <1>14 DEF TaskKept
  <2>3. (Tally(e) => Tally(d)) /\ (PendOK(e) => PendOK(d))
    BY <1>13, <1>17 DEF Tally, PendOK
  <2> QED BY <1>13, <1>14, <1>16, <1>18, <2>1, <2>2, <2>3 DEF Ended
<1>20. Ended(r, d, t)
  BY <1>9, <1>19, EndCut
<1>21. Own(d, y)
  <2>1. Apart(d) /\ Plain(d)
    BY <1>9, <1>13 DEF Own, Apart, Plain, Places
  <2>2. Exact(d)
    BY <1>9, <1>14, <1>17 DEF Own, Exact
  <2>3. ASSUME NEW p \in Places, NEW a \in Put(d, p)
        PROVE  a # y /\ d.atask[a].busy /\ Clears(d, d.atask[a].t, p)
    <3>1. a \in Put(e, p) /\ a \notin Walks(e, t) /\ a \in AtaskCells
      BY <1>9, <1>13, <1>15, PutCells
    <3>2. a # y /\ e.atask[a].busy /\ Clears(e, e.atask[a].t, p)
      BY <1>9, <3>1 DEF Own, Tended
    <3>3. e.atask[a].t # t
      BY <3>1 DEF Walks
    <3> QED BY <1>13, <1>14, <3>2, <3>3 DEF Clears
  <2>4. \A a \in BusyCells(d) : a = y \/ \E p \in Places : a \in Put(d, p)
    BY <1>9, <1>13, <1>17 DEF Own, Tended
  <2> QED BY <2>1, <2>2, <2>3, <2>4 DEF Own, Tended
<1> QED BY <1>9, <1>10, <1>12, <1>13, <1>20, <1>21 DEF Cut

(* The tasks that are listed as installed are there, once, and whatever     *)
(* walks walks one of them.                                                 *)
Inst(r, y) ==
  /\ IsInjective(r.installed)
  /\ \A t \in Range(r.installed) : r.task[t].busy
  /\ \A a \in BusyCells(r) : a # y => r.atask[a].t \in Range(r.installed)

(* t has ended, the others are installed as before.                         *)
LEMMA InstEnded ==
  ASSUME NEW r, NEW y, NEW d, NEW t, Typed(r), Own(r, y), Inst(r, y), Ended(r, d, t), Own(d, y),
         Range(d.installed) = Range(r.installed) \ {t}, IsInjective(d.installed)
  PROVE  Inst(d, y)
<1>1. Range(r.installed) \subseteq TaskCells
  <2>1. r.installed \in Seq(TaskCells)
    BY DEF Typed
  <2> QED BY <2>1 DEF Range
<1>2. \A u \in Range(d.installed) : d.task[u].busy
  BY <1>1 DEF Inst, Ended, TaskKept
<1>3. ASSUME NEW a \in BusyCells(d), a # y
      PROVE  d.atask[a].t \in Range(d.installed)
  <2>1. a \in BusyCells(r) /\ a \in AtaskCells /\ d.atask[a].t = r.atask[a].t
    BY DEF Ended, BusyCells, AtaskKept
  <2>2. PICK p \in Places : a \in Put(d, p)
    BY <1>3 DEF Own, Tended
  <2>3. a \notin Walks(r, t)
    BY <2>2 DEF Ended
  <2> QED BY <1>3, <2>1, <2>3 DEF Inst, Walks
<1> QED BY <1>2, <1>3 DEF Inst

LEMMA DestroyOwn ==
  ASSUME NoPackets, NEW r, NEW y, NEW t \in TaskCells, Typed(r), Own(r, y), Inst(r, y),
         r.task[t].busy
  PROVE  LET d == Destroy(r, t)
         IN  Typed(d) /\ Own(d, y) /\ Inst(d, y) /\ Ended(r, d, t)
<1>1. PICK e : e = RemoveTask(r, "q", t)
  OBVIOUS
<1>2. /\ Typed(e) /\ Own(e, y) /\ Cut(r, e, t) /\ Put(e, "q") \cap Walks(r, t) = {}
      /\ Else(e, r, {"atask", "count", "task", "q"})
  BY <1>1, CutRemove DEF Queues
<1>3. PICK f : f = [e EXCEPT !.installed = Only(@, TaskCells \ {t})]
  OBVIOUS
<1>4. PICK d : d = Destroy(r, t)
  OBVIOUS
<1>5. d = TaskDelete(f, t)
  BY <1>1, <1>3, <1>4 DEF Destroy
<1>6. Else(f, e, {"installed"}) /\ f.installed = Only(e.installed, TaskCells \ {t})
  BY <1>2, <1>3 DEF Typed, Else, Fields
<1>7. e.installed \in Seq(TaskCells) /\ e.installed = r.installed
  BY <1>2 DEF Typed, Cut
<1>8. /\ Range(f.installed) = Range(r.installed) \ {t} /\ IsInjective(f.installed)
      /\ f.installed \in Seq(TaskCells)
  <2>1. IsInjective(r.installed)
    BY DEF Inst
  <2>2. Range(r.installed) \subseteq TaskCells
    BY <1>7 DEF Range
  <2>3. Range(f.installed) = Range(r.installed) \cap (TaskCells \ {t}) /\ IsInjective(f.installed)
    BY <1>6, <1>7, <2>1, OnlyThose
  <2>4. f.installed \in Seq(TaskCells)
    BY <1>6, <1>7, OnlyIn
  <2> QED BY <2>2, <2>3, <2>4
<1>9. Typed(f)
  BY <1>2, <1>6, <1>8, TypeKept
<1>10. /\ \A p \in Places : Put(f, p) = Put(e, p)
       /\ f.task = e.task /\ f.atask = e.atask /\ f.count = e.count /\ f.wild = e.wild
       /\ f.seen = e.seen /\ f.tx = e.tx /\ f.conn = e.conn /\ f.pend = e.pend
       /\ f.samp = e.samp
  <2>1. \A g \in Fields : g # "installed" => f[g] = e[g]
    BY <1>6 DEF Else
  <2>2. \A p \in Places : p \notin {"installed"}
    BY DEF Places, Queues
  <2>3. \A p \in Places : Put(f, p) = Put(e, p)
    BY <1>6, <2>2, PutSame
  <2> QED BY <2>1, <2>3 DEF Fields
<1>11. Own(f, y)
  <2>1. {"installed"} \cap OwnFields = {}
    BY DEF OwnFields, Places, Queues
  <2>2. \A u \in TaskCells : TaskKept(e, f, u) /\ f.task[u].atasks = e.task[u].atasks
    BY <1>10 DEF TaskKept
  <2> QED BY <1>2, <1>6, <2>1, <2>2, OwnStill
<1>12. f.task[t].busy
  BY <1>2, <1>10 DEF Cut, TaskKept
<1>13. Put(f, "q") \cap Walks(f, t) = {}
  <2>1. Walks(f, t) = Walks(e, t) /\ Walks(e, t) = Walks(r, t)
    BY <1>2, <1>10, CutClears DEF Walks
  <2> QED BY <1>2, <1>10, <2>1 DEF Places, Queues
<1>14. Typed(d) /\ Own(d, y) /\ Ended(f, d, t) /\ d.installed = f.installed
  BY <1>5, <1>9, <1>11, <1>12, <1>13, TaskDeleteOwn
<1>15. Ended(e, d, t)
  <2>1. Walks(f, t) = Walks(e, t)
    BY <1>10 DEF Walks
  <2>2. (Tally(e) => Tally(f)) /\ (PendOK(e) => PendOK(f))
    BY <1>10 DEF Tally, BusyCells, PendOK
  <2>3. Conns(e) => Conns(f)
    BY <1>10 DEF Conns
  <2>4. \A a \in AtaskCells : AtaskKept(e, d, a)
    BY <1>10, <1>14 DEF Ended, AtaskKept
  <2>5. \A u \in TaskCells : u # t => TaskKept(e, d, u) /\ d.task[u].conn = e.task[u].conn
    BY <1>10, <1>14 DEF Ended, TaskKept
  <2>6. \A p \in Places : /\ Put(d, p) \subseteq Put(e, p)
                          /\ Put(e, p) \ Put(d, p) \subseteq Walks(e, t)
                          /\ Put(d, p) \cap Walks(e, t) = {}
    BY <1>10, <1>14, <2>1 DEF Ended
  <2>7. /\ \A a \in AtaskCells : d.atask[a].busy => e.atask[a].busy
        /\ \A a \in AtaskCells : e.atask[a].busy /\ ~d.atask[a].busy =>
                                   \E p \in Places : a \in Put(e, p)
    BY <1>10, <1>14 DEF Ended
  <2> QED BY <1>10, <1>14, <2>2, <2>3, <2>4, <2>5, <2>6, <2>7 DEF Ended
<1>16. Ended(r, d, t)
  <2>1. PendOK(r) => PendOK(e)
    <3>1. e.pend = r.pend /\ e.samp = r.samp
      BY <1>2 DEF Else, Fields
    <3> QED BY <3>1, PendSame
  <2> QED BY <1>2, <1>15, <2>1, EndCut
<1>17. Inst(d, y)
  BY <1>8, <1>14, <1>16, InstEnded
<1> QED BY <1>4, <1>14, <1>16, <1>17

(* From r to d the active task a, or a task that it ended, has changed.     *)
Moved(r, d, a) ==
  /\ \A b \in AtaskCells : b # a => AtaskKept(r, d, b)
  /\ \A u \in TaskCells : d.task[u].busy => /\ TaskKept(r, d, u)
                                            /\ d.task[u].conn = r.task[u].conn
  /\ d.wild = r.wild /\ d.seen = r.seen /\ d.tx = r.tx
  /\ Conns(r) => Conns(d)
  /\ PendOK(r) => PendOK(d)

(* Moving in no step, and in two.                                           *)
LEMMA MovedNone ==
  ASSUME NEW r, NEW a
  PROVE  Moved(r, r, a)
BY DEF Moved, AtaskKept, TaskKept

LEMMA MovedOn ==
  ASSUME NEW r, NEW d, NEW e, NEW a, Moved(r, d, a), Moved(d, e, a)
  PROVE  Moved(r, e, a)
<1>1. \A b \in AtaskCells : b # a => AtaskKept(r, e, b)
  BY DEF Moved, AtaskKept
<1>2. \A u \in TaskCells : e.task[u].busy => /\ TaskKept(r, e, u)
                                             /\ e.task[u].conn = r.task[u].conn
  BY DEF Moved, TaskKept
<1> QED BY <1>1, <1>2 DEF Moved

(* The end of a task moves no active task.                                  *)
LEMMA EndedMoves ==
  ASSUME NEW r, NEW d, NEW t, NEW a, Ended(r, d, t)
  PROVE  Moved(r, d, a)
BY DEF Ended, Moved

(* A loose active task is dropped.                                          *)
LEMMA LooseDropped ==
  ASSUME NEW r, NEW d, NEW a \in AtaskCells, Typed(r), Own(r, a), Inst(r, a),
         Else(d, r, {"atask", "count", "task"}),
         \A b \in AtaskCells : b # a => AtaskKept(r, d, b) /\ (d.atask[b].busy <=> r.atask[b].busy),
         ~d.atask[a].busy,
         \A u \in TaskCells : TaskKept(r, d, u) /\ d.task[u].conn = r.task[u].conn,
         Exact(d)
  PROVE  /\ Own(d, 0) /\ Inst(d, 0) /\ Moved(r, d, a)
         /\ \A p \in Places : Put(d, p) = Put(r, p)
<1>1. \A p \in Places : Put(d, p) = Put(r, p) /\ d[p] = r[p]
  <2>1. \A p \in Places : p \notin {"atask", "count", "task"}
    BY DEF Places, Queues
  <2> QED BY <2>1, PutSame
<1>2. \A f \in Fields : f \notin {"atask", "count", "task"} => d[f] = r[f]
  BY DEF Else
<1>3. /\ d.installed = r.installed /\ d.wild = r.wild /\ d.seen = r.seen /\ d.tx = r.tx
      /\ d.conn = r.conn /\ d.full = r.full /\ d.pkt = r.pkt /\ d.pretry = r.pretry
      /\ d.flight = r.flight /\ d.pend = r.pend /\ d.samp = r.samp
  BY <1>2 DEF Fields
<1>4. BusyCells(d) = BusyCells(r) \ {a}
  BY DEF BusyCells
<1>5. Apart(d) /\ Plain(d)
  BY <1>1, <1>3 DEF Own, Apart, Plain, Places
<1>6. ASSUME NEW p \in Places, NEW b \in Put(d, p)
      PROVE  b # 0 /\ d.atask[b].busy /\ Clears(d, d.atask[b].t, p)
  <2>1. b \in Put(r, p) /\ b \in AtaskCells
    BY <1>1, PutCells
  <2>2. b # a /\ r.atask[b].busy /\ Clears(r, r.atask[b].t, p)
    BY <2>1 DEF Own, Tended
  <2>3. d.atask[b].busy /\ d.atask[b].t = r.atask[b].t
    BY <2>1, <2>2 DEF AtaskKept
  <2>4. b # 0
    BY <2>1, CellTypes
  <2> QED BY <2>2, <2>3, <2>4 DEF Clears, TaskKept
<1>7. \A b \in BusyCells(d) : \E p \in Places : b \in Put(d, p)
  BY <1>1, <1>4 DEF Own, Tended
<1>8. Own(d, 0)
  BY <1>5, <1>6, <1>7 DEF Own, Tended
<1>9. Inst(d, 0)
  <2>1. Range(r.installed) \subseteq TaskCells
    <3>1. r.installed \in Seq(TaskCells)
      BY DEF Typed
    <3> QED BY <3>1 DEF Range
  <2>2. \A t \in Range(d.installed) : d.task[t].busy
    BY <1>3, <2>1 DEF Inst, TaskKept
  <2>3. \A b \in BusyCells(d) : d.atask[b].t \in Range(d.installed)
    <3>1. \A b \in BusyCells(d) : b \in BusyCells(r) /\ b # a /\ b \in AtaskCells
      BY <1>4 DEF BusyCells
    <3> QED BY <1>3, <3>1 DEF Inst, AtaskKept
  <2> QED BY <1>3, <2>2, <2>3 DEF Inst
<1>10. Moved(r, d, a)
  <2>1. Conns(r) => Conns(d)
    BY <1>3, ConnsKept
  <2>2. PendOK(r) => PendOK(d)
    BY <1>3 DEF PendOK
  <2> QED BY <1>3, <2>1, <2>2 DEF Moved
<1> QED BY <1>1, <1>8, <1>9, <1>10

(* active_task_delete of an active task that nobody else has.               *)
LEMMA DeleteOwn ==
  ASSUME NEW r, NEW a \in BusyCells(r), Typed(r), Own(r, a), Inst(r, a)
  PROVE  LET d == AtaskDelete(r, a)
         IN  /\ Typed(d) /\ Own(d, 0) /\ Inst(d, 0) /\ Moved(r, d, a)
             /\ \A p \in Places : Put(d, p) = Put(r, p)
             /\ Tally(r) => Tally(d)
<1>1. PICK d : d = AtaskDelete(r, a)
  OBVIOUS
<1>2. a \in AtaskCells
  BY DEF BusyCells
<1>3. Gone(r, d, {a}) /\ Else(d, r, {"atask", "count", "task"}) /\ Typed(d)
  BY <1>1, GoneDelete
<1>4. /\ \A b \in AtaskCells : b # a => AtaskKept(r, d, b) /\ (d.atask[b].busy <=> r.atask[b].busy)
      /\ ~d.atask[a].busy
      /\ \A u \in TaskCells : TaskKept(r, d, u) /\ d.task[u].conn = r.task[u].conn
      /\ Exact(d) /\ (Tally(r) => Tally(d))
  BY <1>2, <1>3 DEF Gone, Own
<1>6. /\ Own(d, 0) /\ Inst(d, 0) /\ Moved(r, d, a)
      /\ \A p \in Places : Put(d, p) = Put(r, p)
  BY <1>2, <1>3, <1>4, LooseDropped
<1> QED BY <1>1, <1>3, <1>4, <1>6

(* What has been taken from its place was t's.                              *)
Takes(r, d, t) ==
  \A p \in Places : Put(d, p) \subseteq Put(r, p) /\ Put(r, p) \ Put(d, p) \subseteq Walks(r, t)

(* The task of a ends with it: nobody else has a, or a place has it.        *)
LEMMA EndTaskOwn ==
  ASSUME NoPackets, NEW r, NEW a \in BusyCells(r), Typed(r), TaskOf(r, a) \in TaskCells,
         r.task[TaskOf(r, a)].busy,
         \/ Own(r, a) /\ Inst(r, a)
         \/ Own(r, 0) /\ Inst(r, 0) /\ \E p \in Places : a \in Put(r, p)
  PROVE  LET d == EndTask(r, a)
         IN  /\ Typed(d) /\ Own(d, 0) /\ Inst(d, 0) /\ Moved(r, d, a)
             /\ Takes(r, d, TaskOf(r, a))
             /\ \A p \in Places : Put(d, p) \cap Walks(r, TaskOf(r, a)) = {}
             /\ Own(r, a) /\ Tally(r) => Tally(d)
<1>1. a \in AtaskCells /\ a # 0 /\ r.atask[a].busy
  BY CellTypes DEF BusyCells
<1>2. PICK t : t = TaskOf(r, a)
  OBVIOUS
<1>3. t \in TaskCells /\ t # 0 /\ r.task[t].busy /\ r.atask[a].t = t /\ a \in Walks(r, t)
  BY <1>1, <1>2, CellTypes DEF TaskOf, Walks
<1>4. PICK e : e = Destroy(r, t)
  OBVIOUS
<1>5. Typed(e) /\ Ended(r, e, t) /\ Own(e, a) /\ Inst(e, a)
  <2>1. CASE Own(r, a) /\ Inst(r, a)
    BY <1>3, <1>4, <2>1, DestroyOwn
  <2>2. CASE Own(r, 0) /\ Inst(r, 0)
    <3>1. Typed(e) /\ Own(e, 0) /\ Inst(e, 0) /\ Ended(r, e, t)
      BY <1>3, <1>4, <2>2, DestroyOwn
    <3>2. \A p \in Places : a \notin Put(e, p)
      BY <1>3, <3>1 DEF Ended
    <3>3. Tended(e, a)
      <4>1. Tended(e, 0)
        BY <3>1 DEF Own
      <4>2. 0 \notin BusyCells(e)
        BY CellTypes, <3>1 DEF BusyCells
      <4>3. \A b \in BusyCells(e) : \E p \in Places : b \in Put(e, p)
        BY <4>1, <4>2 DEF Tended
      <4> QED BY <3>2, <4>1, <4>3 DEF Tended
    <3>4. Inst(e, a)
      <4>1. 0 \notin BusyCells(e)
        BY CellTypes, <3>1 DEF BusyCells
      <4> QED BY <3>1, <4>1 DEF Inst
    <3> QED BY <3>1, <3>3, <3>4 DEF Own
  <2> QED BY <2>1, <2>2
<1>6. PICK f : f = [e EXCEPT !.atask[a].t = 0]
  OBVIOUS
<1>7. PICK d : d = EndTask(r, a)
  OBVIOUS
<1>8. d = AtaskDelete(f, a)
  BY <1>2, <1>4, <1>6, <1>7 DEF EndTask
<1>9. /\ Else(f, e, {"atask"}) /\ f.atask = [e.atask EXCEPT ![a].t = 0]
      /\ DOMAIN e.atask = AtaskCells /\ AtaskOK(e.atask[a])
  BY <1>1, <1>5, <1>6 DEF Typed, AtasksOK, Else, Fields
<1>10. Typed(f) /\ Typed(d)
  <2>1. AtasksOK([e.atask EXCEPT ![a].t = 0])
    BY <1>1, <1>5, AtaskFields, Zenon DEF Typed
  <2>2. AtasksOK(f.atask)
    BY ONLY <1>9, <2>1, Zenon
  <2>3. Typed(f)
    BY <1>5, <1>9, <2>2, TypeKept
  <2> QED BY <1>1, <1>8, <2>3, AtaskDeleteGoes DEF Goes
<1>11. /\ \A b \in AtaskCells : b # a => f.atask[b] = e.atask[b]
       /\ f.atask[a].t = 0 /\ (f.atask[a].busy <=> e.atask[a].busy)
       /\ f.task = e.task /\ f.count = e.count
  <2>1. f.atask[a] = [e.atask[a] EXCEPT !.t = 0]
    BY <1>1, <1>9
  <2>2. f.atask[a].t = 0 /\ f.atask[a].busy = e.atask[a].busy
    BY <1>9, <2>1 DEF AtaskOK
  <2>3. f.task = e.task /\ f.count = e.count
    BY <1>9 DEF Else, Fields
  <2> QED BY <1>1, <1>9, <2>2, <2>3
<1>12. /\ Freed(f, d, {a}) /\ d.count = f.count - 1
       /\ \A u \in TaskCells : d.task[u].atasks = f.task[u].atasks
  <2>1. \A u \in TaskCells : u # 0
    BY CellTypes
  <2> QED BY <1>1, <1>8, <1>10, <1>11, <2>1, DeleteIs
<1>13. /\ \A b \in AtaskCells : b # a => AtaskKept(e, d, b) /\ (d.atask[b].busy <=> e.atask[b].busy)
       /\ ~d.atask[a].busy
       /\ \A u \in TaskCells : TaskKept(e, d, u) /\ d.task[u].conn = e.task[u].conn
                                 /\ d.task[u].atasks = e.task[u].atasks
  BY <1>1, <1>11, <1>12 DEF Freed, AtaskKept, TaskKept
<1>14. Else(d, e, {"atask", "count", "task"})
  BY <1>9, <1>12 DEF Freed, Else
<1>15. Exact(d)
  <2>1. ASSUME NEW u \in TaskCells, d.task[u].busy
        PROVE  Walking(d, u) = Walking(e, u)
    <3>1. u # t
      BY <1>5, <1>13, <2>1 DEF Ended, TaskKept
    <3>2. a \notin Walking(e, u)
      BY <1>1, <1>3, <1>5, <3>1 DEF Ended, AtaskKept, Walking
    <3>3. BusyCells(d) = BusyCells(e) \ {a}
      BY <1>13 DEF BusyCells
    <3>4. \A b \in AtaskCells : b # a => d.atask[b].t = e.atask[b].t
      BY <1>13 DEF AtaskKept
    <3> QED BY <3>2, <3>3, <3>4 DEF Walking, BusyCells
  <2> QED BY <1>5, <1>13, <2>1 DEF Own, Exact, TaskKept
<1>16. /\ Own(d, 0) /\ Inst(d, 0) /\ Moved(e, d, a)
       /\ \A p \in Places : Put(d, p) = Put(e, p)
  BY <1>1, <1>5, <1>13, <1>14, <1>15, LooseDropped
<1>17. Moved(r, d, a)
  BY <1>5, <1>16, EndedMoves, MovedOn
<1>18. Takes(r, d, t) /\ \A p \in Places : Put(d, p) \cap Walks(r, t) = {}
  BY <1>5, <1>16 DEF Takes, Ended
<1>19. Own(r, a) /\ Tally(r) => Tally(d)
  <2> SUFFICES ASSUME Own(r, a), Tally(r)
               PROVE  Tally(d)
    OBVIOUS
  <2>1. \A p \in Places : a \notin Put(r, p)
    BY DEF Own, Tended
  <2>2. e.atask[a].busy
    BY <1>1, <1>5, <2>1 DEF Ended
  <2>3. Tally(e)
    BY <1>5 DEF Ended
  <2>4. BusyCells(d) = BusyCells(e) \ {a} /\ a \in BusyCells(e)
    BY <1>1, <1>13, <2>2 DEF BusyCells
  <2>5. Cardinality(BusyCells(d)) = Cardinality(BusyCells(e)) - 1
    BY <2>4, CellsFinite, FS_RemoveElement
  <2> QED BY <1>11, <1>12, <2>3, <2>5 DEF Tally
<1> QED BY <1>2, <1>7, <1>10, <1>16, <1>17, <1>18, <1>19

(* The fields that say nothing about where an active task is.               *)
Aside == {"posted", "kill", "stimer", "adcBusy", "adc", "cut", "handle", "mdata", "strpop",
          "pktpop", "be", "sneak", "sneakTid", "ptx"}

Walker(r, a) ==
  /\ a \in BusyCells(r) /\ r.atask[a].t \in TaskCells
  /\ r.task[r.atask[a].t].busy /\ r.atask[a].t \in Range(r.installed)

(* What is the same when only places and fields aside differ.               *)
LEMMA OnlyPlaces ==
  ASSUME NEW r, NEW d, NEW p, p \in Places \/ p = "posted", Else(d, r, {p} \cup Aside)
  PROVE  /\ \A o \in Places : o # p => Put(d, o) = Put(r, o) /\ d[o] = r[o]
         /\ d.atask = r.atask /\ d.task = r.task /\ d.count = r.count
         /\ d.installed = r.installed /\ d.wild = r.wild /\ d.seen = r.seen /\ d.tx = r.tx
         /\ d.conn = r.conn /\ d.full = r.full /\ d.pkt = r.pkt /\ d.pretry = r.pretry
         /\ d.flight = r.flight /\ d.pend = r.pend
         /\ BusyCells(d) = BusyCells(r) /\ \A t : Walking(d, t) = Walking(r, t)
         /\ Tally(r) <=> Tally(d)
         /\ Exact(r) <=> Exact(d)
         /\ Plain(r) <=> Plain(d)
         /\ Conns(r) <=> Conns(d)
         /\ \A y : Inst(r, y) <=> Inst(d, y)
         /\ p # "samp" => Moved(r, d, 0)
<1>1. \A f \in Fields : f # p /\ f \notin Aside => d[f] = r[f]
  BY DEF Else
<1>2. /\ d.atask = r.atask /\ d.task = r.task /\ d.count = r.count
      /\ d.installed = r.installed /\ d.wild = r.wild /\ d.seen = r.seen /\ d.tx = r.tx
      /\ d.conn = r.conn /\ d.full = r.full /\ d.pkt = r.pkt /\ d.pretry = r.pretry
      /\ d.flight = r.flight /\ d.pend = r.pend
  BY <1>1 DEF Fields, Aside, Places, Queues
<1>3. \A o \in Places : o # p => Put(d, o) = Put(r, o) /\ d[o] = r[o]
  <2>1. \A o \in Places : o \notin Aside
    BY DEF Places, Queues, Aside
  <2> QED BY <2>1, PutSame
<1>4. BusyCells(d) = BusyCells(r) /\ \A t : Walking(d, t) = Walking(r, t)
  BY <1>2 DEF BusyCells, Walking
<1>5. (Tally(r) <=> Tally(d)) /\ (Exact(r) <=> Exact(d)) /\ (Plain(r) <=> Plain(d))
  BY <1>2, <1>4 DEF Tally, Exact, Plain
<1>6. Conns(r) <=> Conns(d)
  BY <1>2 DEF Conns
<1>7. \A y : Inst(r, y) <=> Inst(d, y)
  BY <1>2, <1>4 DEF Inst
<1>8. p # "samp" => Moved(r, d, 0)
  <2>1. p # "samp" => d.samp = r.samp
    BY <1>1 DEF Fields, Aside
  <2>2. p # "samp" => (PendOK(r) => PendOK(d))
    BY <1>2, <2>1 DEF PendOK
  <2> QED BY <1>2, <1>6, <2>2 DEF Moved, AtaskKept, TaskKept
<1> QED BY <1>2, <1>3, <1>4, <1>5, <1>6, <1>7, <1>8

(* Fields aside say nothing of where active tasks are.                      *)
LEMMA AsideOwn ==
  ASSUME NEW r, NEW d, Else(d, r, Aside)
  PROVE  /\ \A y : (Own(r, y) => Own(d, y)) /\ (Inst(r, y) => Inst(d, y))
         /\ Moved(r, d, 0) /\ (Tally(r) => Tally(d))
         /\ \A p \in Places : Put(d, p) = Put(r, p) /\ d[p] = r[p]
         /\ \A a : Walker(r, a) => Walker(d, a)
<1>1. Else(d, r, {"posted"} \cup Aside)
  BY DEF Else
<1>2. \A p \in Places : p # "posted"
  BY DEF Places, Queues
<1>3. /\ \A o \in Places : Put(d, o) = Put(r, o) /\ d[o] = r[o]
      /\ d.atask = r.atask /\ d.task = r.task /\ d.installed = r.installed
      /\ BusyCells(d) = BusyCells(r)
      /\ Tally(r) <=> Tally(d)
      /\ Exact(r) <=> Exact(d)
      /\ Plain(r) <=> Plain(d)
      /\ \A y : Inst(r, y) <=> Inst(d, y)
      /\ Moved(r, d, 0)
  BY <1>1, <1>2, OnlyPlaces
<1>4. Apart(r) => Apart(d)
  BY <1>3 DEF Apart, Places
<1>5. \A y : Tended(r, y) => Tended(d, y)
  BY <1>3 DEF Tended, Clears
<1>6. \A a : Walker(r, a) => Walker(d, a)
  BY <1>3 DEF Walker
<1> QED BY <1>3, <1>4, <1>5, <1>6 DEF Own

(* An active task that was in a place is loose.                             *)
LEMMA Lose ==
  ASSUME NEW r, NEW d, NEW p \in Places, NEW a \in Put(r, p), Typed(r), Own(r, 0), Inst(r, 0),
         Else(d, r, {p} \cup Aside), Put(d, p) = Put(r, p) \ {a},
         p \in Queues => IsInjective(d[p])
  PROVE  /\ Own(d, a) /\ Inst(d, a) /\ Walker(d, a) /\ a \in AtaskCells
         /\ Clears(d, d.atask[a].t, p)
         /\ \A o \in Places : Put(d, o) = Put(r, o) \ {a}
<1>1. /\ \A o \in Places : o # p => Put(d, o) = Put(r, o) /\ d[o] = r[o]
      /\ d.atask = r.atask /\ d.task = r.task /\ d.installed = r.installed
      /\ BusyCells(d) = BusyCells(r)
      /\ Exact(r) <=> Exact(d)
      /\ Plain(r) <=> Plain(d)
      /\ \A y : Inst(r, y) <=> Inst(d, y)
  BY OnlyPlaces
<1>2. a \in AtaskCells /\ a # 0
  BY PutCells, CellTypes
<1>3. \A o \in Places : Put(d, o) = Put(r, o) \ {a}
  <2>1. \A o \in Places : o # p => a \notin Put(r, o)
    BY DEF Own, Apart
  <2> QED BY <1>1, <2>1
<1>4. Apart(d)
  <2>1. \A f \in Queues : IsInjective(d[f])
    BY <1>1 DEF Own, Apart, Places
  <2>2. \A q \in Places, o \in Places : q # o => Put(d, q) \cap Put(d, o) = {}
    BY <1>3 DEF Own, Apart
  <2> QED BY <2>1, <2>2 DEF Apart
<1>5. \A t, o : Clears(r, t, o) => Clears(d, t, o)
  BY <1>1 DEF Clears
<1>6. Tended(d, a)
  <2>1. \A o \in Places : \A b \in Put(d, o) :
          b # a /\ d.atask[b].busy /\ Clears(d, d.atask[b].t, o)
    BY <1>1, <1>3, <1>5 DEF Own, Tended
  <2>2. 0 \notin BusyCells(r)
    BY CellTypes DEF BusyCells
  <2>3. \A b \in BusyCells(d) : b = a \/ \E o \in Places : b \in Put(d, o)
    BY <1>1, <1>3, <2>2 DEF Own, Tended
  <2> QED BY <2>1, <2>3 DEF Tended
<1>7. Inst(d, a)
  <2>1. \A b \in BusyCells(r) : b # 0
    BY CellTypes DEF BusyCells
  <2>2. \A b \in BusyCells(r) : r.atask[b].t \in Range(r.installed)
    BY <2>1 DEF Inst
  <2>3. \A t \in Range(r.installed) : r.task[t].busy
    BY DEF Inst
  <2>4. IsInjective(r.installed)
    BY DEF Inst
  <2> QED BY <1>1, <2>2, <2>3, <2>4 DEF Inst
<1>8. r.atask[a].busy /\ Clears(r, r.atask[a].t, p)
  BY DEF Own, Tended
<1>9. Walker(d, a)
  <2>1. a \in BusyCells(r)
    BY <1>2, <1>8 DEF BusyCells
  <2>2. r.atask[a].t \in Range(r.installed)
    BY <1>2, <2>1 DEF Inst
  <2> QED BY <1>1, <1>8, <2>1, <2>2 DEF Walker, Clears
<1>10. Own(d, a)
  BY <1>1, <1>4, <1>6 DEF Own
<1>11. Clears(d, d.atask[a].t, p)
  BY <1>1, <1>5, <1>8
<1> QED BY <1>2, <1>3, <1>7, <1>9, <1>10, <1>11

(* A loose active task is put in a place.                                   *)
LEMMA Place ==
  ASSUME NEW r, NEW d, NEW p \in Places, NEW a, Typed(r), Own(r, a), Inst(r, a), Walker(r, a),
         Clears(r, r.atask[a].t, p),
         Else(d, r, {p} \cup Aside), Put(d, p) = Put(r, p) \cup {a},
         p \in Queues => IsInjective(d[p])
  PROVE  /\ Own(d, 0) /\ Inst(d, 0)
         /\ \A o \in Places : Put(r, o) \subseteq Put(d, o) /\ Put(d, o) \subseteq Put(r, o) \cup {a}
<1>1. /\ \A o \in Places : o # p => Put(d, o) = Put(r, o) /\ d[o] = r[o]
      /\ d.atask = r.atask /\ d.task = r.task /\ d.installed = r.installed
      /\ BusyCells(d) = BusyCells(r)
      /\ Exact(r) <=> Exact(d)
      /\ Plain(r) <=> Plain(d)
      /\ \A y : Inst(r, y) <=> Inst(d, y)
  BY OnlyPlaces
<1>2. a \in AtaskCells /\ a # 0 /\ r.atask[a].busy /\ a \in BusyCells(r)
  BY CellTypes DEF Walker, BusyCells
<1>3. \A o \in Places : Put(r, o) \subseteq Put(d, o) /\ Put(d, o) \subseteq Put(r, o) \cup {a}
  BY <1>1
<1>4. \A o \in Places : a \notin Put(r, o)
  BY DEF Own, Tended
<1>5. Apart(d)
  <2>1. \A f \in Queues : IsInjective(d[f])
    BY <1>1 DEF Own, Apart, Places
  <2>2. \A q \in Places, o \in Places : q # o => Put(d, q) \cap Put(d, o) = {}
    BY <1>1, <1>4 DEF Own, Apart
  <2> QED BY <2>1, <2>2 DEF Apart
<1>6. \A t, o : Clears(r, t, o) => Clears(d, t, o)
  BY <1>1 DEF Clears
<1>7. Tended(d, 0)
  <2>1. ASSUME NEW o \in Places, NEW b \in Put(d, o)
        PROVE  b # 0 /\ d.atask[b].busy /\ Clears(d, d.atask[b].t, o)
    <3>1. CASE b \in Put(r, o)
      <4>1. b # 0
        BY <3>1, PutCells, CellTypes
      <4> QED BY <1>1, <1>6, <3>1, <4>1 DEF Own, Tended
    <3>2. CASE b \notin Put(r, o)
      <4>1. b = a /\ o = p
        BY <1>1, <2>1, <3>2
      <4> QED BY <1>1, <1>2, <1>6, <4>1
    <3> QED BY <3>1, <3>2
  <2>2. \A b \in BusyCells(d) : \E o \in Places : b \in Put(d, o)
    BY <1>1, <1>3 DEF Own, Tended
  <2> QED BY <2>1, <2>2 DEF Tended
<1>8. Inst(d, 0)
  <2>1. \A b \in BusyCells(r) : r.atask[b].t \in Range(r.installed)
    BY DEF Inst, Walker
  <2> QED BY <1>1, <2>1 DEF Inst
<1>9. Own(d, 0)
  BY <1>1, <1>5, <1>7 DEF Own
<1> QED BY <1>3, <1>8, <1>9

(* Who moves none moves none but a.                                         *)
LEMMA MovedAny ==
  ASSUME NEW r, NEW d, NEW a, Moved(r, d, 0)
  PROVE  Moved(r, d, a)
<1>1. 0 \notin AtaskCells
  BY DEF AtaskCells
<1> QED BY <1>1 DEF Moved

(* What is the same when active tasks go on, and tasks change state, in     *)
(* their cells.                                                             *)
LEMMA CellsSame ==
  ASSUME NEW r, NEW d, NEW F, Typed(r), F \subseteq {"atask", "task"} \cup Aside, Else(d, r, F),
         \A b \in AtaskCells : d.atask[b].t = r.atask[b].t
                                 /\ (d.atask[b].busy <=> r.atask[b].busy),
         \A u \in TaskCells : TaskKept(r, d, u) /\ d.task[u].atasks = r.task[u].atasks
  PROVE  /\ \A y : (Own(r, y) => Own(d, y)) /\ (Inst(r, y) => Inst(d, y))
         /\ \A a : Walker(r, a) => Walker(d, a)
         /\ \A p \in Places : Put(d, p) = Put(r, p) /\ d[p] = r[p]
         /\ Tally(r) => Tally(d)
         /\ PendOK(r) => PendOK(d)
         /\ \A t \in TaskCells, p \in Places : Clears(r, t, p) => Clears(d, t, p)
         /\ d.installed = r.installed /\ d.wild = r.wild /\ d.seen = r.seen /\ d.tx = r.tx
         /\ d.conn = r.conn /\ d.pend = r.pend
<1>1. \A f \in Fields : f \notin {"atask", "task"} \cup Aside => d[f] = r[f]
  BY DEF Else
<1>2. /\ d.count = r.count
      /\ d.installed = r.installed /\ d.wild = r.wild /\ d.seen = r.seen /\ d.tx = r.tx
      /\ d.conn = r.conn /\ d.full = r.full /\ d.pkt = r.pkt /\ d.pretry = r.pretry
      /\ d.flight = r.flight /\ d.pend = r.pend /\ d.samp = r.samp
  BY <1>1 DEF Fields, Aside
<1>3. \A p \in Places : Put(d, p) = Put(r, p) /\ d[p] = r[p]
  <2>1. \A p \in Places : p \notin F
    BY DEF Places, Queues, Aside
  <2> QED BY <2>1, PutSame
<1>4. BusyCells(d) = BusyCells(r) /\ \A t : Walking(d, t) = Walking(r, t)
  <2>1. BusyCells(d) = BusyCells(r)
    BY DEF BusyCells
  <2>2. BusyCells(r) \subseteq AtaskCells
    BY DEF BusyCells
  <2> QED BY <2>1, <2>2 DEF Walking
<1>5. Tally(r) => Tally(d)
  BY <1>2, <1>4 DEF Tally
<1>6. Exact(r) => Exact(d)
  BY <1>4 DEF Exact, TaskKept
<1>7. Plain(r) => Plain(d)
  BY <1>2 DEF Plain
<1>8. \A t \in TaskCells, p \in Places : Clears(r, t, p) => Clears(d, t, p)
  BY DEF Clears, TaskKept
<1>9. \A y : Inst(r, y) => Inst(d, y)
  <2>1. Range(r.installed) \subseteq TaskCells
    BY DEF Typed, Range
  <2>2. \A t \in Range(r.installed) : r.task[t].busy => d.task[t].busy
    BY <2>1 DEF TaskKept
  <2>3. \A a \in BusyCells(r) : d.atask[a].t = r.atask[a].t
    BY DEF BusyCells
  <2> QED BY <1>2, <1>4, <2>2, <2>3 DEF Inst
<1>10. \A y : Own(r, y) => Own(d, y)
  <2>1. Apart(r) => Apart(d)
    BY <1>3 DEF Apart, Places
  <2>2. ASSUME NEW y, Tended(r, y)
        PROVE  Tended(d, y)
    <3>1. ASSUME NEW p \in Places, NEW a \in Put(d, p)
          PROVE  a # y /\ d.atask[a].busy /\ Clears(d, d.atask[a].t, p)
      <4>1. a \in Put(r, p) /\ a \in AtaskCells
        BY <1>3, <3>1, PutCells
      <4>2. a # y /\ r.atask[a].busy /\ Clears(r, r.atask[a].t, p)
        BY <2>2, <4>1 DEF Tended
      <4>3. r.atask[a].t \in TaskCells
        BY <4>2 DEF Clears
      <4> QED BY <1>8, <4>1, <4>2, <4>3
    <3>2. \A a \in BusyCells(d) : a = y \/ \E p \in Places : a \in Put(d, p)
      BY <1>3, <1>4, <2>2 DEF Tended
    <3> QED BY <3>1, <3>2 DEF Tended
  <2> QED BY <1>6, <1>7, <2>1, <2>2 DEF Own
<1>11. \A a : Walker(r, a) => Walker(d, a)
  BY <1>2, <1>4 DEF Walker, BusyCells, TaskKept
<1>12. PendOK(r) => PendOK(d)
  BY <1>2 DEF PendOK
<1> QED BY <1>2, <1>3, <1>5, <1>8, <1>9, <1>10, <1>11, <1>12

(* Appending to a list.                                                     *)
LEMMA AppendPut ==
  ASSUME NEW T, NEW l \in Seq(T), NEW a \in T, a \notin Range(l), IsInjective(l)
  PROVE  IsInjective(Append(l, a)) /\ Range(Append(l, a)) = Range(l) \cup {a}
<1> DEFINE m == Append(l, a)
<1>1. /\ Len(m) = Len(l) + 1 /\ Len(l) \in Nat /\ DOMAIN l = 1 .. Len(l)
      /\ DOMAIN m = 1 .. Len(m) /\ m[Len(l) + 1] = a
      /\ \A i \in 1 .. Len(l) : m[i] = l[i]
  BY AppendProperties, LenProperties
<1>2. \A i \in 1 .. Len(m) : i \in 1 .. Len(l) \/ i = Len(l) + 1
  BY <1>1
<1>3. \A i \in 1 .. Len(l) : i \in 1 .. Len(m)
  BY <1>1
<1>4. Range(m) = Range(l) \cup {a}
  BY <1>1, <1>2, <1>3 DEF Range
<1>5. IsInjective(m)
  <2>1. \A i, j \in 1 .. Len(l) : l[i] = l[j] => i = j
    BY <1>1 DEF IsInjective
  <2>2. \A i \in 1 .. Len(l) : l[i] # a
    BY <1>1 DEF Range
  <2> QED BY <1>1, <1>2, <2>1, <2>2 DEF IsInjective
<1> QED BY <1>4, <1>5

(* From r, where nobody else has a, to d the active task a has gone on, or  *)
(* come to its end.                                                         *)
Passed(r, d, a) ==
  /\ Typed(d) /\ Own(d, 0) /\ Inst(d, 0) /\ Moved(r, d, a)
  /\ \A p \in Places : p # "q" => Put(d, p) = Put(r, p)
  /\ Put(r, "q") \subseteq Put(d, "q") /\ Put(d, "q") \subseteq Put(r, "q") \cup {a}

(* task_schedule of an active task that nobody else has.                    *)
LEMMA ScheduleOwn ==
  ASSUME NEW r, NEW a, Typed(r), Own(r, a), Inst(r, a), Walker(r, a)
  PROVE  LET d == Schedule(r, a) IN Passed(r, d, a) /\ (Tally(r) => Tally(d))
<1> DEFINE d == Schedule(r, a)
<1>1. a \in AtaskCells /\ r.q \in Seq(AtaskCells) /\ DOMAIN r = Fields
  BY DEF Walker, BusyCells, Typed
<1>2. Typed(d)
  BY <1>1, ScheduleGoes DEF Goes
<1>3. d.q = Append(r.q, a) /\ Else(d, r, {"q", "posted"})
  BY <1>1 DEF Schedule, Else, Fields
<1>4. Else(d, r, {"q"} \cup Aside)
  BY <1>3 DEF Else, Aside
<1>5. "q" \in Places /\ Put(r, "q") = Range(r.q) /\ Put(d, "q") = Range(d.q) /\ "q" \in Queues
  BY DEF Put, Places, Queues
<1>6. a \notin Range(r.q) /\ IsInjective(r.q)
  BY <1>5 DEF Own, Tended, Apart
<1>7. IsInjective(d.q) /\ Put(d, "q") = Put(r, "q") \cup {a}
  BY <1>1, <1>3, <1>5, <1>6, AppendPut
<1>8. Clears(r, r.atask[a].t, "q")
  BY DEF Walker, Clears
<1>9. Own(d, 0) /\ Inst(d, 0)
      /\ \A o \in Places : Put(r, o) \subseteq Put(d, o) /\ Put(d, o) \subseteq Put(r, o) \cup {a}
  BY <1>4, <1>5, <1>7, <1>8, Place
<1>10. /\ Moved(r, d, a) /\ (Tally(r) => Tally(d))
       /\ \A o \in Places : o # "q" => Put(d, o) = Put(r, o)
  BY <1>4, <1>5, OnlyPlaces, MovedAny
<1> QED BY <1>2, <1>5, <1>9, <1>10 DEF Passed

(* The only one of its task.                                                *)
LEMMA Single ==
  ASSUME NEW r, NEW a, Typed(r), Exact(r), Walker(r, a), r.task[r.atask[a].t].atasks = 1
  PROVE  Walking(r, r.atask[a].t) = {a}
<1> DEFINE t == r.atask[a].t
           S == Walking(r, t)
<1>1. a \in S /\ t \in TaskCells /\ r.task[t].busy
  BY DEF Walker, Walking
<1>2. IsFiniteSet(S)
  <2>1. IsFiniteSet(AtaskCells) /\ S \subseteq AtaskCells
    BY FS_Interval, TaskCellsAssumption DEF AtaskCells, Walking, BusyCells
  <2> QED BY <2>1, FS_Subset
<1>3. Cardinality(S) = 1
  BY <1>1 DEF Exact
<1>4. IsFiniteSet(S \ {a}) /\ Cardinality(S \ {a}) = 0
  BY ONLY <1>1, <1>2, <1>3, FS_RemoveElement
<1>5. S \ {a} = {}
  BY ONLY <1>4, FS_EmptySet
<1> QED BY <1>1, <1>5

(* Schedule.next of an active task that nobody else has.                    *)
LEMMA ScheduleNextOwn ==
  ASSUME NoPackets, NEW r, NEW a, Typed(r), Own(r, a), Inst(r, a), Walker(r, a)
  PROVE  LET d == ScheduleNext(r, a) IN Passed(r, d, a) /\ (Tally(r) => Tally(d))
<1> DEFINE d  == ScheduleNext(r, a)
           t  == TaskOf(r, a)
           on == [r EXCEPT !.atask[a].idx = @ + 1]
<1>1. /\ a \in AtaskCells /\ DOMAIN r = Fields /\ t \in TaskCells /\ r.task[t].busy
      /\ t # 0
  BY CellTypes DEF Walker, BusyCells, Typed, TaskOf
<1>2. Typed(on) /\ Else(on, r, {"atask"})
  <2>1. /\ Else(on, r, {"atask"})
        /\ on.atask = [r.atask EXCEPT ![a].idx = @ + 1]
    BY <1>1 DEF Else, Fields, Typed, AtasksOK
  <2>2. AtasksOK(on.atask)
    <3>1. AtasksOK(r.atask)
      BY DEF Typed
    <3>2. AtasksOK([r.atask EXCEPT ![a].idx = @ + 1])
      BY <1>1, <3>1, AtaskFields
    <3> QED BY <2>1, <3>2
  <2> QED BY <2>1, <2>2, TypeKept
<1>3. /\ \A b \in AtaskCells : on.atask[b].t = r.atask[b].t
                                 /\ (on.atask[b].busy <=> r.atask[b].busy)
      /\ \A b \in AtaskCells : b # a => AtaskKept(r, on, b)
      /\ on.task = r.task
  <2>1. on.task = r.task /\ on.atask = [r.atask EXCEPT ![a].idx = @ + 1]
    BY <1>1 DEF Fields
  <2>2. DOMAIN r.atask = AtaskCells /\ DOMAIN r.atask[a] = {"busy", "t", "idx", "data"}
    BY <1>1 DEF Typed, AtasksOK, AtaskOK
  <2> QED BY <2>1, <2>2 DEF AtaskKept
<1>4. \A u \in TaskCells : TaskKept(r, on, u) /\ on.task[u].atasks = r.task[u].atasks
  BY <1>3 DEF TaskKept
<1>5. /\ Own(on, a) /\ Inst(on, a) /\ Walker(on, a)
      /\ \A p \in Places : Put(on, p) = Put(r, p)
      /\ Tally(r) => Tally(on)
      /\ PendOK(r) => PendOK(on)
      /\ on.wild = r.wild /\ on.seen = r.seen /\ on.tx = r.tx /\ on.conn = r.conn
  <2>1. {"atask"} \subseteq {"atask", "task"} \cup Aside
    OBVIOUS
  <2>2. Typed(r) /\ Else(on, r, {"atask"})
    BY <1>2
  <2> HIDE DEF on
  <2>3. /\ \A y : (Own(r, y) => Own(on, y)) /\ (Inst(r, y) => Inst(on, y))
        /\ \A b : Walker(r, b) => Walker(on, b)
        /\ \A p \in Places : Put(on, p) = Put(r, p)
        /\ Tally(r) => Tally(on)
        /\ PendOK(r) => PendOK(on)
        /\ on.wild = r.wild /\ on.seen = r.seen /\ on.tx = r.tx /\ on.conn = r.conn
    BY ONLY <1>3, <1>4, <2>1, <2>2, CellsSame
  <2> QED BY <2>3
<1>6. Moved(r, on, a)
  BY <1>3, <1>5 DEF Moved, Conns, TaskKept
<1>7. \A e : Passed(on, e, a) => Passed(r, e, a)
  <2>1. "q" \in Places
    BY DEF Places, Queues
  <2> QED BY <1>5, <1>6, <2>1, MovedOn DEF Passed
<1>8. CASE on.atask[a].idx <= Len(Chain[IdOf(r, t)])
  <2>1. d = Schedule(on, a)
    BY <1>1, <1>8 DEF ScheduleNext
  <2>2. Passed(on, d, a) /\ (Tally(on) => Tally(d))
    BY <1>2, <1>5, <2>1, ScheduleOwn
  <2> QED BY <1>5, <1>7, <2>2
<1>9. CASE ~(on.atask[a].idx <= Len(Chain[IdOf(r, t)])) /\ r.task[t].atasks = 1
  <2>1. d = EndTask(on, a)
    BY <1>1, <1>9 DEF ScheduleNext
  <2>2. TaskOf(on, a) = t /\ a \in BusyCells(on) /\ on.task[t].busy /\ t = on.atask[a].t
    BY <1>1, <1>3, <1>5 DEF TaskOf, Walker
  <2>3. /\ Typed(d) /\ Own(d, 0) /\ Inst(d, 0) /\ Moved(on, d, a)
        /\ Takes(on, d, t)
        /\ Own(on, a) /\ Tally(on) => Tally(d)
    BY <1>1, <1>2, <1>5, <2>1, <2>2, EndTaskOwn
  <2>4. Walking(on, t) = {a}
    <3>1. Exact(on) /\ on.task[on.atask[a].t].atasks = 1
      BY <1>3, <1>5, <1>9, <2>2 DEF Own
    <3>2. Walking(on, on.atask[a].t) = {a}
      BY <1>2, <1>5, <3>1, Single
    <3> QED BY <2>2, <3>2
  <2>5. \A p \in Places : Put(d, p) = Put(on, p)
    <3>1. \A p \in Places : \A b \in Put(on, p) : b # a /\ b \in BusyCells(on)
      BY <1>2, <1>5, PutCells DEF Own, Tended, BusyCells
    <3>2. \A p \in Places : Put(on, p) \cap Walks(on, t) = {}
      BY <2>4, <3>1 DEF Walks, Walking
    <3> QED BY <2>3, <3>2 DEF Takes
  <2>6. Passed(on, d, a)
    <3>1. "q" \in Places
      BY DEF Places, Queues
    <3> QED BY <2>3, <2>5, <3>1 DEF Passed
  <2> QED BY <1>5, <1>7, <2>3, <2>6
<1>10. CASE ~(on.atask[a].idx <= Len(Chain[IdOf(r, t)])) /\ r.task[t].atasks # 1
  <2>1. d = AtaskDelete(on, a)
    BY <1>1, <1>10 DEF ScheduleNext
  <2>2. a \in BusyCells(on)
    BY <1>5 DEF Walker
  <2>3. Passed(on, d, a) /\ (Tally(on) => Tally(d))
    <3>1. "q" \in Places
      BY DEF Places, Queues
    <3> QED BY <1>2, <1>5, <2>1, <2>2, <3>1, DeleteOwn DEF Passed
  <2> QED BY <1>5, <1>7, <2>3
<1> QED BY <1>8, <1>9, <1>10

(* SendDoneIsOurs of a state r.                                             *)
Ours(r) == r.sending # 0 => /\ r.tx = IdOf(r, TaskOf(r, r.sending))
                            /\ r.task[TaskOf(r, r.sending)].conn = "sending"

(* What SendSTR has has come to an element of it.                           *)
StrPlaces == {"str", "sending", "retry"}
IsAimed(r, a) ==
  LET id == r.task[r.atask[a].t].id
  IN  r.atask[a].idx <= Len(Chain[id]) /\ Chain[id][r.atask[a].idx] = "str"
Aimed(r) == \A p \in StrPlaces : \A a \in Put(r, p) : IsAimed(r, a)

(* What held of r besides Own and Inst holds of d.                          *)
Most(r, d) ==
  /\ d.wild = r.wild
  /\ Conns(r) => Conns(d)
  /\ PendOK(r) => PendOK(d)
  /\ Ours(r) => Ours(d)
  /\ Aimed(r) => Aimed(d)

Went(r, d) == Most(r, d) /\ (Tally(r) => Tally(d))

(* Going on in no step, and in two.                                         *)
LEMMA WentNone ==
  ASSUME NEW r
  PROVE  Went(r, r)
BY DEF Went, Most

LEMMA WentOn ==
  ASSUME NEW r, NEW d, NEW e, Went(r, d), Went(d, e)
  PROVE  Went(r, e)
BY DEF Went, Most

(* Only what SendSTR does not have has changed.                             *)
LEMMA MovedMost ==
  ASSUME NEW r, NEW d, NEW a, NEW y, Typed(r), Typed(d), Own(d, y), Moved(r, d, a),
         \A p \in StrPlaces : Put(d, p) \subseteq Put(r, p) \ {a}
  PROVE  Most(r, d)
<1>1. ASSUME NEW p \in StrPlaces, NEW b \in Put(d, p)
      PROVE  /\ b \in Put(r, p) /\ d.atask[b].t = r.atask[b].t /\ d.atask[b].idx = r.atask[b].idx
             /\ d.task[d.atask[b].t].id = r.task[r.atask[b].t].id
             /\ d.task[d.atask[b].t].conn = r.task[r.atask[b].t].conn
  <2>1. p \in Places
    BY DEF StrPlaces, Places, Queues
  <2>2. b \in Put(r, p) /\ b # a /\ b \in AtaskCells
    BY <1>1, <2>1, PutCells
  <2>3. d.atask[b].t = r.atask[b].t /\ d.atask[b].idx = r.atask[b].idx
    BY <2>2 DEF Moved, AtaskKept
  <2>4. d.atask[b].t \in TaskCells /\ d.task[d.atask[b].t].busy
    BY <1>1, <2>1 DEF Own, Tended, Clears
  <2>5. /\ d.task[d.atask[b].t].id = r.task[d.atask[b].t].id
        /\ d.task[d.atask[b].t].conn = r.task[d.atask[b].t].conn
    BY <2>4 DEF Moved, TaskKept
  <2> QED BY <2>2, <2>3, <2>5
<1>2. Aimed(r) => Aimed(d)
  BY <1>1 DEF Aimed, IsAimed
<1>3. ASSUME Ours(r), d.sending # 0
      PROVE  /\ d.tx = IdOf(d, TaskOf(d, d.sending))
             /\ d.task[TaskOf(d, d.sending)].conn = "sending"
  <2>1. "sending" \in StrPlaces /\ d.sending \in Put(d, "sending")
        /\ Put(r, "sending") \subseteq {r.sending} /\ 0 \notin Put(r, "sending")
    BY <1>3 DEF StrPlaces, Put, Queues
  <2>2. d.sending = r.sending /\ r.sending # 0
    BY <1>1, <2>1
  <2> QED BY <1>1, <1>3, <2>1, <2>2 DEF Ours, Moved, IdOf, TaskOf
<1>4. Ours(r) => Ours(d)
  BY <1>3 DEF Ours
<1> QED BY <1>2, <1>4 DEF Most, Moved

(* What has only been moved, or passed on, has gone on.                     *)
LEMMA MovedWent ==
  ASSUME NEW r, NEW d, NEW a, NEW y, Typed(r), Typed(d), Own(d, y), Moved(r, d, a),
         \A p \in StrPlaces : Put(d, p) \subseteq Put(r, p) \ {a},
         Tally(r) => Tally(d)
  PROVE  Went(r, d)
BY MovedMost DEF Went

LEMMA PassedWent ==
  ASSUME NEW r, NEW d, NEW a, Typed(r), Own(r, a), Passed(r, d, a), Tally(r) => Tally(d)
  PROVE  Went(r, d)
<1>1. \A p \in StrPlaces : Put(d, p) \subseteq Put(r, p) \ {a}
  <2>1. \A p \in StrPlaces : p \in Places /\ p # "q"
    BY DEF StrPlaces, Places, Queues
  <2>2. \A p \in Places : a \notin Put(r, p)
    BY DEF Own, Tended
  <2> QED BY <2>1, <2>2 DEF Passed
<1> QED BY <1>1, MovedWent DEF Passed

(* What changes in no place of SendSTR changes nothing else.                *)
LEMMA StillWent ==
  ASSUME NEW r, NEW d, NEW y, Typed(r), Typed(d), Own(d, y), Moved(r, d, 0),
         \A p \in StrPlaces : Put(d, p) \subseteq Put(r, p),
         Tally(r) => Tally(d)
  PROVE  Went(r, d)
<1>1. \A p \in StrPlaces : 0 \notin Put(r, p)
  <2>1. StrPlaces \subseteq Places
    BY DEF StrPlaces, Places, Queues
  <2> QED BY <2>1, PutCells, CellTypes
<1> QED BY <1>1, MovedWent

(* An active task of a place goes on.                                       *)
LEMMA LoseWent ==
  ASSUME NEW r, NEW d, NEW p \in Places \ {"samp"}, NEW y, Typed(r), Typed(d), Own(d, y),
         Else(d, r, {p} \cup Aside), Put(d, p) \subseteq Put(r, p)
  PROVE  Went(r, d)
<1>1. /\ \A o \in Places : o # p => Put(d, o) = Put(r, o)
      /\ Moved(r, d, 0) /\ (Tally(r) => Tally(d))
  BY OnlyPlaces
<1>2. \A o \in StrPlaces : Put(d, o) \subseteq Put(r, o)
  <2>1. StrPlaces \subseteq Places
    BY DEF StrPlaces, Places, Queues
  <2> QED BY <1>1, <2>1
<1> QED BY <1>1, <1>2, StillWent

(* A cell that was free is an active task of t now.                         *)
LEMMA NewCell ==
  ASSUME NEW r, NEW d, NEW c \in AtaskCells, NEW t \in TaskCells, Typed(r), Own(r, 0), Inst(r, 0),
         ~r.atask[c].busy, r.task[t].busy,
         Else(d, r, {"atask", "count", "task"}),
         \A b \in AtaskCells : b # c => AtaskKept(r, d, b) /\ (d.atask[b].busy <=> r.atask[b].busy),
         d.atask[c].busy, d.atask[c].t = t,
         \A u \in TaskCells : TaskKept(r, d, u) /\ d.task[u].conn = r.task[u].conn,
         \A u \in TaskCells : d.task[u].atasks = IF u = t THEN r.task[u].atasks + 1
                                                 ELSE r.task[u].atasks,
         d.count = r.count + 1
  PROVE  /\ Own(d, c) /\ Inst(d, c) /\ Moved(r, d, c) /\ (Tally(r) => Tally(d))
         /\ \A p \in Places : Put(d, p) = Put(r, p)
         /\ c \in BusyCells(d) /\ d.task[t].busy /\ d.installed = r.installed
<1>1. \A p \in Places : Put(d, p) = Put(r, p) /\ d[p] = r[p]
  <2>1. \A p \in Places : p \notin {"atask", "count", "task"}
    BY DEF Places, Queues
  <2> QED BY <2>1, PutSame
<1>2. \A f \in Fields : f \notin {"atask", "count", "task"} => d[f] = r[f]
  BY DEF Else
<1>3. /\ d.installed = r.installed /\ d.wild = r.wild /\ d.seen = r.seen /\ d.tx = r.tx
      /\ d.conn = r.conn /\ d.full = r.full /\ d.pkt = r.pkt /\ d.pretry = r.pretry
      /\ d.flight = r.flight /\ d.pend = r.pend /\ d.samp = r.samp
  BY <1>2 DEF Fields
<1>4. BusyCells(d) = BusyCells(r) \cup {c} /\ c \notin BusyCells(r)
      /\ BusyCells(r) \subseteq AtaskCells
  BY DEF BusyCells
<1>5. Apart(d) /\ Plain(d)
  BY <1>1, <1>3 DEF Own, Apart, Plain, Places
<1>6. ASSUME NEW p \in Places, NEW b \in Put(d, p)
      PROVE  b # c /\ d.atask[b].busy /\ Clears(d, d.atask[b].t, p)
  <2>1. b \in Put(r, p) /\ b \in AtaskCells
    BY <1>1, PutCells
  <2>2. r.atask[b].busy /\ Clears(r, r.atask[b].t, p)
    BY <2>1 DEF Own, Tended
  <2>3. b # c /\ d.atask[b].busy /\ d.atask[b].t = r.atask[b].t
    BY <2>1, <2>2 DEF AtaskKept
  <2> QED BY <2>2, <2>3 DEF Clears, TaskKept
<1>7. \A b \in BusyCells(d) : b = c \/ \E p \in Places : b \in Put(d, p)
  <2>1. \A b \in BusyCells(r) : b # 0
    BY CellTypes DEF BusyCells
  <2>2. \A b \in BusyCells(r) : b = 0 \/ \E p \in Places : b \in Put(r, p)
    BY DEF Own, Tended
  <2> QED BY <1>1, <1>4, <2>1, <2>2
<1>8. Exact(d)
  <2>1. ASSUME NEW u \in TaskCells
        PROVE  Walking(d, u) = IF u = t THEN Walking(r, u) \cup {c} ELSE Walking(r, u)
    BY <1>4 DEF Walking, AtaskKept
  <2>2. ASSUME NEW u \in TaskCells, d.task[u].busy
        PROVE  d.task[u].atasks = Cardinality(Walking(d, u))
    <3>1. r.task[u].atasks = Cardinality(Walking(r, u))
      BY <2>2 DEF Own, Exact, TaskKept
    <3>2. IsFiniteSet(Walking(r, u)) /\ c \notin Walking(r, u)
      <4>1. IsFiniteSet(Walking(r, u))
        BY CellsFinite
      <4>2. c \notin Walking(r, u)
        BY <1>4 DEF Walking
      <4> QED BY <4>1, <4>2
    <3>3. Cardinality(Walking(r, u) \cup {c}) = Cardinality(Walking(r, u)) + 1
      BY ONLY <3>2, FS_AddElement
    <3> QED BY <2>1, <3>1, <3>3
  <2> QED BY <2>2 DEF Exact
<1>9. Tally(r) => Tally(d)
  <2>1. IsFiniteSet(BusyCells(r))
    BY CellsFinite
  <2>2. Cardinality(BusyCells(d)) = Cardinality(BusyCells(r)) + 1
    BY ONLY <1>4, <2>1, FS_AddElement
  <2> QED BY <2>2 DEF Tally
<1>10. Own(d, c)
  BY <1>5, <1>6, <1>7, <1>8 DEF Own, Tended
<1>11. Inst(d, c)
  <2>1. Range(r.installed) \subseteq TaskCells
    <3>1. r.installed \in Seq(TaskCells)
      BY DEF Typed
    <3> QED BY <3>1 DEF Range
  <2>2. \A u \in Range(d.installed) : d.task[u].busy
    BY <1>3, <2>1 DEF Inst, TaskKept
  <2>3. \A b \in BusyCells(d) : b # c => d.atask[b].t \in Range(d.installed)
    <3>1. \A b \in BusyCells(r) : b # 0 /\ b \in AtaskCells
      BY CellTypes DEF BusyCells
    <3> QED BY <1>3, <1>4, <3>1 DEF Inst, AtaskKept
  <2> QED BY <1>3, <2>2, <2>3 DEF Inst
<1>12. Moved(r, d, c)
  <2>1. Conns(r) => Conns(d)
    BY <1>3, ConnsKept
  <2>2. PendOK(r) => PendOK(d)
    BY <1>3 DEF PendOK
  <2> QED BY <1>3, <2>1, <2>2 DEF Moved
<1>13. d.task[t].busy
  BY DEF TaskKept
<1> QED BY <1>1, <1>3, <1>4, <1>9, <1>10, <1>11, <1>12, <1>13

(* active_task_clone of an active task that has a task.                     *)
LEMMA CloneOwn ==
  ASSUME NEW r, NEW c \in AtaskCells, NEW a, Typed(r), Own(r, 0), Inst(r, 0), Walker(r, a),
         ~r.atask[c].busy
  PROVE  LET d == AtaskClone(r, c, a)
         IN  /\ Typed(d) /\ Own(d, c) /\ Inst(d, c) /\ Walker(d, c)
             /\ Moved(r, d, c) /\ (Tally(r) => Tally(d))
             /\ \A p \in Places : Put(d, p) = Put(r, p)
             /\ d.atask[c].t = r.atask[a].t
             /\ Else(d, r, {"atask", "count", "task"})
             /\ \A b \in AtaskCells : b # c => d.atask[b] = r.atask[b]
<1>1. PICK d : d = AtaskClone(r, c, a)
  OBVIOUS
<1>2. PICK t : t = r.atask[a].t
  OBVIOUS
<1>3. /\ a \in AtaskCells /\ r.atask[a].busy /\ t \in TaskCells /\ t # 0 /\ r.task[t].busy
      /\ t \in Range(r.installed)
  BY <1>2, CellTypes DEF Walker, BusyCells
<1>4. Typed(d)
  BY <1>1, <1>2, <1>3, AtaskCloneGoes DEF Goes
<1>5. /\ DOMAIN r = Fields /\ DOMAIN r.atask = AtaskCells /\ DOMAIN r.task = TaskCells
      /\ DOMAIN r.task[t] = {"busy", "id", "built", "atasks", "sendbusy", "conn", "e2busy"}
  <2>1. DOMAIN r = Fields /\ DOMAIN r.atask = AtaskCells /\ r.task \in [TaskCells -> TaskRec]
    BY DEF Typed, AtasksOK, TasksOK
  <2> QED BY <1>3, <2>1 DEF TaskRec
<1>6. /\ Else(d, r, {"atask", "count", "task"})
      /\ d.atask = [r.atask EXCEPT ![c] = r.atask[a]]
      /\ d.task = [r.task EXCEPT ![t].atasks = r.task[t].atasks + 1]
      /\ d.count = r.count + 1
  BY <1>1, <1>2, <1>5 DEF AtaskClone, Else, Fields
<1>7. /\ \A b \in AtaskCells : b # c => d.atask[b] = r.atask[b]
      /\ d.atask[c] = r.atask[a]
  BY <1>5, <1>6
<1>8. \A u \in TaskCells : TaskKept(r, d, u) /\ d.task[u].conn = r.task[u].conn
                             /\ d.task[u].atasks = IF u = t THEN r.task[u].atasks + 1
                                                   ELSE r.task[u].atasks
  BY <1>5, <1>6 DEF TaskKept
<1>9. \A b \in AtaskCells : b # c => AtaskKept(r, d, b) /\ (d.atask[b].busy <=> r.atask[b].busy)
  BY <1>7 DEF AtaskKept
<1>10. d.atask[c].busy /\ d.atask[c].t = t
  BY <1>2, <1>3, <1>7
<1>11. /\ Own(d, c) /\ Inst(d, c) /\ Moved(r, d, c) /\ (Tally(r) => Tally(d))
       /\ \A p \in Places : Put(d, p) = Put(r, p)
       /\ c \in BusyCells(d) /\ d.task[t].busy /\ d.installed = r.installed
  <2>1. /\ \A u \in TaskCells : TaskKept(r, d, u) /\ d.task[u].conn = r.task[u].conn
        /\ \A u \in TaskCells : d.task[u].atasks = IF u = t THEN r.task[u].atasks + 1
                                                   ELSE r.task[u].atasks
    BY <1>8
  <2>2. c \in AtaskCells /\ Typed(r) /\ Own(r, 0) /\ Inst(r, 0) /\ ~r.atask[c].busy
    OBVIOUS
  <2>3. t \in TaskCells /\ r.task[t].busy /\ d.count = r.count + 1
        /\ Else(d, r, {"atask", "count", "task"})
    BY <1>3, <1>6
  <2> QED BY ONLY <1>9, <1>10, <2>1, <2>2, <2>3, NewCell
<1>12. Walker(d, c)
  BY <1>3, <1>10, <1>11 DEF Walker
<1> QED BY <1>1, <1>2, <1>4, <1>6, <1>7, <1>10, <1>11, <1>12

(* The first free cell is a free cell.                                      *)
LEMMA FirstFreeIs ==
  ASSUME NEW n, NEW cells, DOMAIN cells = 1 .. n, FirstFree(cells) # 0
  PROVE  FirstFree(cells) \in 1 .. n /\ ~cells[FirstFree(cells)].busy
<1> DEFINE free == {c \in DOMAIN cells : ~cells[c].busy}
<1>1. free # {} /\ FirstFree(cells) = CHOOSE c \in free : \A d \in free : c <= d
  BY DEF FirstFree
<1>2. free \subseteq Nat /\ \A c \in free : c \in 1 .. n /\ ~cells[c].busy
  OBVIOUS
<1> HIDE DEF free
<1>3. PICK c \in free : \A d \in free : <<d, c>> \notin OpToRel(<, Nat)
  BY <1>1, <1>2, WFMin, NatLessThanWellFounded, Zenon
<1>4. \A d \in free : c <= d
  <2>1. ASSUME NEW d \in free, d < c
        PROVE  FALSE
    <3>1. <<d, c>> \in Nat \X Nat /\ <<d, c>>[1] < <<d, c>>[2]
      BY <1>2, <2>1
    <3>2. <<d, c>> \in OpToRel(<, Nat)
      BY ONLY <3>1, Zenon DEF OpToRel
    <3> QED BY <1>3, <3>2, Zenon
  <2> QED BY <1>2, <2>1
<1>5. FirstFree(cells) \in free
  BY ONLY <1>1, <1>4, Zenon
<1> QED BY <1>2, <1>5

(* From r to d nobody has come to be without an owner.                      *)
Onward(r, d) == Typed(d) /\ Own(d, 0) /\ Inst(d, 0) /\ Went(r, d)

(* Reporting an error moves nothing.                                        *)
LEMMA ReportOwn ==
  ASSUME NEW r, NEW y, NEW t, Typed(r), Own(r, y), Inst(r, y)
  PROVE  LET d == Report(r, t)
         IN  /\ Typed(d) /\ Own(d, y) /\ Inst(d, y) /\ Went(r, d)
             /\ \A p \in Places : Put(d, p) = Put(r, p) /\ d[p] = r[p]
             /\ \A a : Walker(r, a) => Walker(d, a)
             /\ Else(d, r, Aside)
<1>1. PICK d : d = Report(r, t)
  OBVIOUS
<1>2. Typed(d)
  BY <1>1, ReportGoes DEF Goes
<1>3. Else(d, r, Aside)
  <2>1. DOMAIN r = Fields
    BY DEF Typed
  <2> QED BY <1>1, <2>1 DEF Report, ReportId, Else, Fields, Aside
<1>4. /\ Own(d, y) /\ Inst(d, y) /\ Moved(r, d, 0) /\ (Tally(r) => Tally(d))
      /\ \A p \in Places : Put(d, p) = Put(r, p) /\ d[p] = r[p]
      /\ \A a : Walker(r, a) => Walker(d, a)
  BY <1>3, AsideOwn
<1>5. \A p \in StrPlaces : Put(d, p) \subseteq Put(r, p)
  <2>1. StrPlaces \subseteq Places
    BY DEF StrPlaces, Places, Queues
  <2> QED BY <1>4, <2>1
<1>6. Went(r, d)
  BY <1>2, <1>4, <1>5, StillWent
<1> QED BY <1>1, <1>2, <1>3, <1>4, <1>6

(* What is taken off a list leaves the others there.                        *)
LEMMA Without ==
  ASSUME NEW l \in Seq(AtaskCells), NEW a
  PROVE  LET m == Only(l, AtaskCells \ {a})
         IN  /\ Range(m) = Range(l) \ {a} /\ (IsInjective(l) => IsInjective(m))
             /\ m \in Seq(AtaskCells)
<1>1. Range(l) \subseteq AtaskCells
  BY DEF Range
<1> QED BY <1>1, OnlyThose, OnlyIn

(* The item of a timer may go before or after what the scheduler does.      *)
LEMMA QueueApart ==
  ASSUME NEW r, DOMAIN r = Fields, NEW x, NEW q, NEW m
  PROVE  [[r EXCEPT !.atask = x, !.q = q, !.posted = TRUE] EXCEPT !.timers = m]
           = [[r EXCEPT !.timers = m] EXCEPT !.atask = x, !.q = q, !.posted = TRUE]
BY DEF Fields

LEMMA FreeApart ==
  ASSUME NEW r, DOMAIN r = Fields, NEW x, NEW n, NEW u, NEW m
  PROVE  [[r EXCEPT !.atask = x, !.count = n, !.task = u] EXCEPT !.timers = m]
           = [[r EXCEPT !.timers = m] EXCEPT !.atask = x, !.count = n, !.task = u]
BY DEF Fields

CellFreed(atask, a)  == [atask EXCEPT ![a].busy = FALSE, ![a].data = 0]
OneLess(task, t)    == [task EXCEPT ![t].atasks = @ - 1]

LEMMA FreedIs ==
  ASSUME NEW r, DOMAIN r = Fields, NEW a, a # 0, NEW t, t # 0, r.atask[a].t = t
  PROVE  AtaskDelete(r, a) = [r EXCEPT !.atask = CellFreed(r.atask, a), !.count = r.count - 1,
                                       !.task = OneLess(r.task, t)]
<1>1. PICK y, k, u : y = CellFreed(r.atask, a) /\ k = r.count - 1 /\ u = OneLess(r.task, t)
  OBVIOUS
<1>2. PICK f : f = [r EXCEPT !.atask[a].busy = FALSE, !.atask[a].data = 0, !.count = @ - 1]
  OBVIOUS
<1>3. f = [r EXCEPT !.atask = y, !.count = k]
  <2>1. PICK z, g : z = [r.atask EXCEPT ![a].busy = FALSE] /\ g = [r EXCEPT !.atask = z]
    OBVIOUS
  <2>2. g.atask = z /\ g.count = r.count
    BY ONLY <2>1, DOMAIN r = Fields DEF Fields
  <2>3. y = [z EXCEPT ![a].data = 0]
    BY ONLY <1>1, <2>1 DEF CellFreed
  <2>4. f = [[g EXCEPT !.atask[a].data = 0] EXCEPT !.count = @ - 1]
    BY ONLY <1>2, <2>1
  <2>5. [g EXCEPT !.atask[a].data = 0] = [g EXCEPT !.atask = y]
    BY ONLY <2>2, <2>3
  <2>6. [g EXCEPT !.atask = y].count = r.count
    BY ONLY <2>1, DOMAIN r = Fields DEF Fields
  <2>7. f = [[g EXCEPT !.atask = y] EXCEPT !.count = k]
    BY ONLY <1>1, <2>4, <2>5, <2>6
  <2> QED BY ONLY <2>1, <2>7, DOMAIN r = Fields DEF Fields
<1>4. f.task = r.task
  BY ONLY <1>3, DOMAIN r = Fields DEF Fields
<1>5. AtaskDelete(r, a) = [f EXCEPT !.task[t].atasks = @ - 1]
  BY <1>2 DEF AtaskDelete
<1>6. AtaskDelete(r, a) = [f EXCEPT !.task = u]
  BY ONLY <1>1, <1>4, <1>5 DEF OneLess
<1> QED BY ONLY <1>1, <1>3, <1>6

LEMMA TwiceIs ==
  ASSUME NEW r, DOMAIN r = Fields, NEW x, NEW y, NEW n, NEW u
  PROVE  [[r EXCEPT !.atask = x] EXCEPT !.atask = y, !.count = n, !.task = u]
           = [r EXCEPT !.atask = y, !.count = n, !.task = u]
BY DEF Fields

(* A one-shot wait hands its active task on as if its item had gone before, *)
(* unless that ends the task: issue_suicide has then freed the item.        *)
LEMMA FireOnceIs ==
  ASSUME NoPackets, NEW r, NEW a \in Put(r, "timers"), Typed(r), Own(r, 0), Inst(r, 0),
         Walker(r, a), NEW b, b = [r EXCEPT !.timers = Only(@, AtaskCells \ {a})]
  PROVE  \/ Typed(FireOnce(r, a)) /\ FireOnce(r, a).wild
         \/ FireOnce(r, a) = ScheduleNext(b, a)
<1>1. PICK t, m, x, n, q : /\ t = r.atask[a].t /\ m = Only(r.timers, AtaskCells \ {a})
                           /\ x = [r.atask EXCEPT ![a].idx = @ + 1]
                           /\ n = Len(Chain[r.task[t].id]) /\ q = Append(r.q, a)
  OBVIOUS
<1>2. PICK d, e, D : d = ScheduleNext(r, a) /\ e = ScheduleNext(b, a) /\ D = FireOnce(r, a)
  OBVIOUS
<1>3. PICK on, bon : on = [r EXCEPT !.atask = x] /\ bon = [b EXCEPT !.atask = x]
  OBVIOUS
<1>4. /\ DOMAIN r = Fields /\ "timers" \in Places /\ a \in Range(r.timers)
      /\ a \in AtaskCells /\ a # 0 /\ r.atask[a].busy
      /\ t \in TaskCells /\ t # 0 /\ r.task[t].busy
  BY <1>1, CellTypes DEF Typed, Places, Queues, Put, Walker, BusyCells
<1>5. b = [r EXCEPT !.timers = m]
  BY <1>1
<1>6. /\ DOMAIN b = Fields /\ b.atask = r.atask /\ b.task = r.task /\ b.q = r.q
      /\ b.count = r.count
  BY ONLY <1>4, <1>5 DEF Fields
<1>7. /\ DOMAIN on = Fields /\ on.atask = x /\ on.task = r.task /\ on.q = r.q
      /\ on.count = r.count /\ on.timers = r.timers /\ Else(on, r, {"atask"})
  BY ONLY <1>3, <1>4 DEF Fields, Else
<1>8. /\ DOMAIN bon = Fields /\ bon.atask = x /\ bon.task = r.task /\ bon.q = r.q
      /\ bon.count = r.count
  BY ONLY <1>3, <1>6 DEF Fields
<1>9. /\ AtasksOK(x) /\ x[a].t = t
      /\ \A c \in AtaskCells : x[c].t = r.atask[c].t /\ (x[c].busy <=> r.atask[c].busy)
  <2>1. AtasksOK(r.atask)
    BY DEF Typed
  <2>2. DOMAIN r.atask = AtaskCells /\ DOMAIN r.atask[a] = {"busy", "t", "idx", "data"}
    BY <1>4, <2>1 DEF AtasksOK, AtaskOK
  <2> QED BY <1>1, <1>4, <2>1, <2>2, AtaskFields
<1>10. /\ a \in Range(d.timers) => D = [d EXCEPT !.timers = Only(d.timers, AtaskCells \ {a})]
       /\ a \notin Range(d.timers) => D = Wild(d)
  BY <1>2 DEF FireOnce
<1>11. /\ x[a].idx <= n => d = Schedule(on, a) /\ e = Schedule(bon, a)
       /\ ~(x[a].idx <= n) /\ r.task[t].atasks = 1 => d = EndTask(on, a)
       /\ ~(x[a].idx <= n) /\ r.task[t].atasks # 1
            => d = AtaskDelete(on, a) /\ e = AtaskDelete(bon, a)
  <2>1. on = [r EXCEPT !.atask[a].idx = @ + 1] /\ bon = [b EXCEPT !.atask[a].idx = @ + 1]
    BY ONLY <1>1, <1>3, <1>6
  <2>2. /\ TaskOf(r, a) = t /\ IdOf(r, t) = r.task[t].id
        /\ TaskOf(b, a) = t /\ IdOf(b, t) = r.task[t].id
    BY ONLY <1>1, <1>6 DEF TaskOf, IdOf
  <2>3. d = IF on.atask[a].idx <= n THEN Schedule(on, a)
            ELSE IF r.task[t].atasks = 1 THEN EndTask(on, a) ELSE AtaskDelete(on, a)
    BY ONLY <1>1, <1>2, <1>4, <2>1, <2>2 DEF ScheduleNext
  <2>4. e = IF bon.atask[a].idx <= n THEN Schedule(bon, a)
            ELSE IF b.task[t].atasks = 1 THEN EndTask(bon, a) ELSE AtaskDelete(bon, a)
    BY ONLY <1>1, <1>2, <1>4, <2>1, <2>2 DEF ScheduleNext
  <2> QED BY ONLY <1>6, <1>7, <1>8, <2>3, <2>4
<1>12. CASE x[a].idx <= n
  <2>1. /\ d = [r EXCEPT !.atask = x, !.q = q, !.posted = TRUE]
        /\ e = [b EXCEPT !.atask = x, !.q = q, !.posted = TRUE]
    BY <1>1, <1>3, <1>7, <1>8, <1>11, <1>12 DEF Schedule
  <2>2. d.timers = r.timers
    BY ONLY <1>4, <2>1 DEF Fields
  <2>3. D = [d EXCEPT !.timers = m]
    BY <1>1, <1>4, <1>10, <2>2
  <2>4. D = e
    BY ONLY <1>4, <1>5, <2>1, <2>3, QueueApart
  <2> QED BY <1>2, <2>4
<1>13. CASE ~(x[a].idx <= n) /\ r.task[t].atasks = 1
  <2>1. \A c \in TaskCells : TaskKept(r, on, c) /\ on.task[c].atasks = r.task[c].atasks
    BY <1>7 DEF TaskKept
  <2>2. /\ Own(on, 0) /\ Inst(on, 0) /\ Walker(on, a) /\ Put(on, "timers") = Put(r, "timers")
    <3>1. {"atask"} \subseteq {"atask", "task"} \cup Aside
      OBVIOUS
    <3> QED BY <1>4, <1>7, <1>9, <2>1, <3>1, CellsSame
  <2>3. Typed(on)
    BY <1>7, <1>9, TypeKept
  <2>4. TaskOf(on, a) = t /\ a \in BusyCells(on) /\ on.task[t].busy
    BY <1>4, <1>7, <1>9, <2>2 DEF TaskOf, Walker
  <2>5. Typed(d) /\ Put(d, "timers") \cap Walks(on, t) = {}
    <3>1. \E p \in Places : a \in Put(on, p)
      BY <1>4, <2>2
    <3> QED BY <1>4, <1>11, <1>13, <2>2, <2>3, <2>4, <3>1, EndTaskOwn
  <2>6. a \notin Range(d.timers)
    BY <1>4, <1>7, <1>9, <2>5 DEF Walks, Put, Queues
  <2>7. D = Wild(d)
    BY <1>10, <2>6
  <2>8. Else(D, d, {"wild"}) /\ D.wild
    BY ONLY <2>5, <2>7 DEF Typed, Wild, Else, Fields
  <2>9. Typed(D)
    BY <2>5, <2>8, TypeKept
  <2> QED BY <1>2, <2>8, <2>9
<1>14. CASE ~(x[a].idx <= n) /\ r.task[t].atasks # 1
  <2>1. PICK y, k, u : y = CellFreed(x, a) /\ k = r.count - 1 /\ u = OneLess(r.task, t)
    OBVIOUS
  <2>2. /\ d = [r EXCEPT !.atask = y, !.count = k, !.task = u]
        /\ e = [b EXCEPT !.atask = y, !.count = k, !.task = u]
    <3>1. ASSUME NEW z, DOMAIN z = Fields, z.atask = x, z.task = r.task, z.count = r.count
          PROVE  AtaskDelete(z, a) = [z EXCEPT !.atask = y, !.count = k, !.task = u]
      <4>1. y = CellFreed(z.atask, a) /\ k = z.count - 1 /\ u = OneLess(z.task, t)
            /\ z.atask[a].t = t
        BY ONLY <1>9, <2>1, <3>1
      <4>2. a # 0 /\ t # 0 /\ DOMAIN z = Fields
        BY ONLY <1>4, <3>1
      <4>3. AtaskDelete(z, a) = [z EXCEPT !.atask = CellFreed(z.atask, a), !.count = z.count - 1,
                                          !.task = OneLess(z.task, t)]
        BY ONLY <4>1, <4>2, FreedIs
      <4> QED BY ONLY <4>1, <4>3
    <3>2. /\ d = [[r EXCEPT !.atask = x] EXCEPT !.atask = y, !.count = k, !.task = u]
          /\ e = [[b EXCEPT !.atask = x] EXCEPT !.atask = y, !.count = k, !.task = u]
      <4>1. /\ d = [on EXCEPT !.atask = y, !.count = k, !.task = u]
            /\ e = [bon EXCEPT !.atask = y, !.count = k, !.task = u]
        BY <1>7, <1>8, <1>11, <1>14, <3>1
      <4> QED BY ONLY <1>3, <4>1
    <3> QED BY ONLY <1>4, <1>6, <3>2, TwiceIs
  <2>3. d.timers = r.timers
    BY ONLY <1>4, <2>2 DEF Fields
  <2>4. D = [d EXCEPT !.timers = m]
    BY <1>1, <1>4, <1>10, <2>3
  <2>5. D = e
    BY ONLY <1>4, <1>5, <2>2, <2>4, FreeApart
  <2> QED BY <1>2, <2>5
<1> QED BY <1>12, <1>13, <1>14

(* A timer that fires hands its active task on.                             *)
LEMMA FireOwn ==
  ASSUME NoPackets, NEW r, NEW a \in Put(r, "timers"), Typed(r), Own(r, 0), Inst(r, 0)
  PROVE  LET d == Fire(r, a, FirstFree(r.atask))
         IN  \/ Typed(d) /\ d.wild
             \/ Onward(r, d) /\ Put(r, "timers") \ {a} \subseteq Put(d, "timers")
<1> DEFINE t == TaskOf(r, a)
           c == FirstFree(r.atask)
           D == Fire(r, a, c)
<1>1. PICK b : b = [r EXCEPT !.timers = Only(@, AtaskCells \ {a})]
  OBVIOUS
<1>2. "timers" \in Places \ {"samp", "q"} /\ "timers" \in Queues /\ "timers" \notin StrPlaces
  BY DEF Places, Queues, StrPlaces
<1>3. a \in AtaskCells /\ r.timers \in Seq(AtaskCells) /\ DOMAIN r = Fields
  BY <1>2, PutCells DEF Typed
<1>4. /\ Else(b, r, {"timers"}) /\ b.timers = Only(r.timers, AtaskCells \ {a})
      /\ Else(b, r, {"timers"} \cup Aside)
  BY <1>1, <1>3 DEF Else, Fields
<1>5. /\ b.timers \in Seq(AtaskCells) /\ IsInjective(b.timers)
      /\ Put(b, "timers") = Put(r, "timers") \ {a}
  <2>1. IsInjective(r.timers)
    BY <1>2 DEF Own, Apart
  <2>2. /\ Range(b.timers) = Range(r.timers) \ {a} /\ IsInjective(b.timers)
        /\ b.timers \in Seq(AtaskCells)
    BY <1>3, <1>4, <2>1, Without
  <2> QED BY <1>2, <2>2 DEF Put
<1>6. Typed(b)
  BY <1>4, <1>5, TypeKept
<1>7. /\ Own(b, a) /\ Inst(b, a) /\ Walker(b, a)
  BY <1>2, <1>4, <1>5, Lose
<1>8. Went(r, b)
  BY <1>2, <1>4, <1>5, <1>6, <1>7, LoseWent
<1>9. LET d == ScheduleNext(b, a)
      IN  Onward(r, d) /\ Put(r, "timers") \ {a} \subseteq Put(d, "timers")
  <2>1. PICK d : d = ScheduleNext(b, a)
    OBVIOUS
  <2>2. Passed(b, d, a) /\ (Tally(b) => Tally(d))
    BY <1>6, <1>7, <2>1, ScheduleNextOwn
  <2>3. Went(b, d)
    BY <1>6, <1>7, <2>2, PassedWent
  <2>4. Went(r, d)
    BY <1>8, <2>3, WentOn
  <2>5. Put(d, "timers") = Put(r, "timers") \ {a}
    BY <1>2, <1>5, <2>2 DEF Passed
  <2> QED BY <2>1, <2>2, <2>4, <2>5 DEF Passed, Onward
<1>10. Onward(r, r)
  BY WentNone DEF Onward
<1>11. LET d == Report(r, t)
       IN  Onward(r, d) /\ Put(r, "timers") \ {a} \subseteq Put(d, "timers")
  BY <1>2, ReportOwn DEF Onward
<1>12. Walker(r, a)
  <2>1. r.atask[a].busy /\ Clears(r, r.atask[a].t, "timers")
    BY <1>2 DEF Own, Tended
  <2>2. a \in BusyCells(r) /\ a # 0
    BY <1>3, <2>1, CellTypes DEF BusyCells
  <2> QED BY <2>1, <2>2 DEF Walker, Clears, Inst
<1>13. ASSUME c # 0
       PROVE  LET d == ScheduleNext(AtaskClone(r, c, a), c)
              IN  Onward(r, d) /\ Put(r, "timers") \ {a} \subseteq Put(d, "timers")
  <2>1. c \in AtaskCells /\ ~r.atask[c].busy
    <3>1. DOMAIN r.atask = 1 .. NumAtasks
      BY DEF Typed, AtasksOK, AtaskCells
    <3> QED BY <1>13, <3>1, FirstFreeIs DEF AtaskCells
  <2> HIDE DEF c
  <2>2. PICK e : e = AtaskClone(r, c, a)
    OBVIOUS
  <2>3. /\ Typed(e) /\ Own(e, c) /\ Inst(e, c) /\ Walker(e, c)
        /\ Moved(r, e, c) /\ (Tally(r) => Tally(e))
        /\ \A p \in Places : Put(e, p) = Put(r, p)
    BY <1>12, <2>1, <2>2, CloneOwn
  <2>4. PICK d : d = ScheduleNext(e, c)
    OBVIOUS
  <2>5. Passed(e, d, c) /\ (Tally(e) => Tally(d))
    BY <2>3, <2>4, ScheduleNextOwn
  <2>6. Went(e, d)
    BY <2>3, <2>5, PassedWent
  <2>7. Went(r, e)
    <3>1. \A p \in StrPlaces : Put(e, p) \subseteq Put(r, p) \ {c}
      <4>1. StrPlaces \subseteq Places
        BY DEF StrPlaces, Places, Queues
      <4>2. \A p \in Places : c \notin Put(e, p)
        BY <2>3 DEF Own, Tended
      <4> QED BY <2>3, <4>1, <4>2
    <3> QED BY <2>3, <3>1, MovedWent
  <2>8. Went(r, d)
    BY <2>6, <2>7, WentOn
  <2>9. Put(d, "timers") = Put(r, "timers")
    BY <1>2, <2>3, <2>5 DEF Passed
  <2> QED BY <2>2, <2>4, <2>5, <2>8, <2>9 DEF Passed, Onward
<1>14. \/ Typed(D) /\ D.wild
       \/ D = ScheduleNext(b, a)
       \/ D = r
       \/ D = Report(r, t)
       \/ c # 0 /\ D = ScheduleNext(AtaskClone(r, c, a), c)
  <2>1. \/ Typed(FireOnce(r, a)) /\ FireOnce(r, a).wild
        \/ FireOnce(r, a) = ScheduleNext(b, a)
    BY <1>1, <1>12, FireOnceIs
  <2>2. \/ D \in {FireOnce(r, a), r, Report(r, t)}
        \/ c # 0 /\ D = ScheduleNext(AtaskClone(r, c, a), c)
    BY DEF Fire
  <2> QED BY ONLY <2>1, <2>2
<1> QED BY <1>9, <1>10, <1>11, <1>13, <1>14

(* set_next_itimer.                                                         *)
LEMMA FireDueOwn ==
  ASSUME NoPackets, NEW r, NEW due, Typed(r), Own(r, 0), Inst(r, 0)
  PROVE  LET d == FireDue(r, due) IN (Typed(d) /\ d.wild) \/ Onward(r, d)
<1>1. r.timers \in Seq(AtaskCells) /\ IsInjective(r.timers) /\ Put(r, "timers") = Range(r.timers)
  BY DEF Typed, Own, Apart, Queues, Put
<1>2. PICK n \in Nat : n = Len(r.timers)
  BY <1>1, LenProperties
<1>3. DOMAIN r.timers = 1 .. n
  BY <1>1, <1>2, LenProperties
<1>4. PICK out : /\ out[0] = r
                 /\ \A k \in 1 .. n :
                      out[k] = IF r.timers[k] \in due /\ ~out[k - 1].wild
                               THEN Fire(out[k - 1], r.timers[k], FirstFree(out[k - 1].atask))
                               ELSE out[k - 1]
                 /\ FireDue(r, due) = out[n]
  BY <1>1, <1>2, FireDueSteps
<1> DEFINE Mid(k) == \/ Typed(out[k]) /\ out[k].wild
                     \/ /\ Onward(r, out[k])
                        /\ \A i \in k + 1 .. n : r.timers[i] \in Put(out[k], "timers")
           W == {k \in 0 .. n : Mid(k)}
<1>5. 0 \in W
  <2>1. \A i \in 1 .. n : r.timers[i] \in Put(r, "timers")
    BY <1>1, <1>3 DEF Range
  <2> QED BY <1>4, <2>1, WentNone DEF Onward
<1>6. ASSUME NEW k \in 1 .. n, k - 1 \in W
      PROVE  k \in W
  <2>1. PICK a, e, d : a = r.timers[k] /\ e = out[k - 1] /\ d = out[k]
    OBVIOUS
  <2>2. d = IF a \in due /\ ~e.wild THEN Fire(e, a, FirstFree(e.atask)) ELSE e
    BY <1>4, <2>1
  <2>3. CASE Typed(e) /\ e.wild
    <3>1. Typed(out[k]) /\ out[k].wild
      BY ONLY <2>1, <2>2, <2>3
    <3> QED BY <3>1
  <2>4. CASE ~(Typed(e) /\ e.wild)
    <3>1. /\ Onward(r, e) /\ a \in Put(e, "timers")
          /\ \A i \in k + 1 .. n : r.timers[i] \in Put(e, "timers")
      <4>1. k - 1 + 1 = k /\ k \in k .. n /\ k + 1 .. n \subseteq k .. n
        OBVIOUS
      <4> QED BY <1>6, <2>1, <2>4, <4>1
    <3>2. \A i \in k + 1 .. n : r.timers[i] # a
      BY <1>1, <1>3, <2>1 DEF IsInjective
    <3>3. \/ Typed(d) /\ d.wild
          \/ Onward(e, d) /\ Put(e, "timers") \ {a} \subseteq Put(d, "timers")
      <4>1. Typed(e) /\ Own(e, 0) /\ Inst(e, 0)
        BY <3>1 DEF Onward
      <4>2. CASE d = Fire(e, a, FirstFree(e.atask))
        BY <3>1, <4>1, <4>2, FireOwn
      <4>3. CASE d = e
        BY <4>1, <4>3, WentNone DEF Onward
      <4> QED BY <2>2, <4>2, <4>3
    <3>4. CASE Typed(d) /\ d.wild
      BY <2>1, <3>4
    <3>5. CASE Onward(e, d) /\ Put(e, "timers") \ {a} \subseteq Put(d, "timers")
      <4>1. Onward(r, d)
        BY <3>1, <3>5, WentOn DEF Onward
      <4>2. \A i \in k + 1 .. n : r.timers[i] \in Put(d, "timers")
        BY <3>1, <3>2, <3>5
      <4> QED BY <2>1, <4>1, <4>2
    <3> QED BY <3>3, <3>4, <3>5
  <2> QED BY <2>3, <2>4
<1> HIDE DEF W
<1>7. n \in W
  <2>1. 0 .. n \subseteq W
    BY ONLY <1>2, <1>5, <1>6, Climb
  <2> QED BY <1>2, <2>1
<1> QED BY <1>4, <1>7 DEF W

(* A loose active task of r is put in a place of Issue.                     *)
LEMMA IssueRunOwn ==
  ASSUME NoPackets, NEW r, NEW a, NEW due, Typed(r), Own(r, a), Inst(r, a), Walker(r, a),
         Clears(r, r.atask[a].t, "timers")
  PROVE  LET d == IssueRun(r, a, due) IN (Typed(d) /\ d.wild) \/ Onward(r, d)
<1>1. PICK e : e = [r EXCEPT !.timers = Append(@, a)]
  OBVIOUS
<1>2. "timers" \in Places \ {"samp"} /\ "timers" \in Queues /\ "timers" \notin StrPlaces
      /\ StrPlaces \subseteq Places
  BY DEF Places, Queues, StrPlaces
<1>3. a \in AtaskCells /\ r.timers \in Seq(AtaskCells) /\ DOMAIN r = Fields
  BY DEF Walker, BusyCells, Typed
<1>4. /\ Else(e, r, {"timers"}) /\ e.timers = Append(r.timers, a)
      /\ Else(e, r, {"timers"} \cup Aside)
  BY <1>1, <1>3 DEF Else, Fields
<1>5. Typed(e)
  <2>1. e.timers \in Seq(AtaskCells)
    BY <1>3, <1>4
  <2> QED BY <1>4, <2>1, TypeKept
<1>6. IsInjective(e.timers) /\ Put(e, "timers") = Put(r, "timers") \cup {a}
  <2>1. a \notin Range(r.timers) /\ IsInjective(r.timers)
    <3>1. a \notin Put(r, "timers")
      BY <1>2 DEF Own, Tended
    <3> QED BY <1>2, <3>1 DEF Put, Own, Apart
  <2>2. IsInjective(e.timers) /\ Range(e.timers) = Range(r.timers) \cup {a}
    BY <1>3, <1>4, <2>1, AppendPut
  <2> QED BY <1>2, <2>2 DEF Put
<1>7. Own(e, 0) /\ Inst(e, 0)
  BY <1>2, <1>4, <1>6, Place
<1>8. /\ \A o \in Places : o # "timers" => Put(e, o) = Put(r, o)
      /\ Moved(r, e, 0) /\ (Tally(r) => Tally(e))
  BY <1>2, <1>4, OnlyPlaces
<1>9. Went(r, e)
  <2>1. \A p \in StrPlaces : Put(e, p) \subseteq Put(r, p)
    BY <1>2, <1>8
  <2> QED BY <1>5, <1>7, <1>8, <2>1, StillWent
<1>10. PICK d : d = FireDue(e, due)
  OBVIOUS
<1>11. (Typed(d) /\ d.wild) \/ Onward(e, d)
  BY <1>5, <1>7, <1>10, FireDueOwn
<1>12. d = IssueRun(r, a, due)
  BY <1>1, <1>10 DEF IssueRun
<1> QED BY <1>9, <1>11, <1>12, WentOn DEF Onward

(* What is pending is chosen, of what waits for a sample.                   *)
LEMMA PendOwn ==
  ASSUME NEW r, NEW d, NEW y, Typed(r), Own(r, y), Inst(r, y), Else(d, r, {"pend"} \cup Aside),
         d.pend \in Put(r, "samp") \cup {0}, d.adc \in Seq(AtaskCells \cup {0}), d.handle \in Nat,
         d.kill \in TaskCells \cup {0}
  PROVE  /\ Typed(d) /\ Own(d, y) /\ Inst(d, y) /\ Went(r, d) /\ PendOK(d)
         /\ \A p \in Places : Put(d, p) = Put(r, p) /\ d[p] = r[p]
         /\ \A a : Walker(r, a) => Walker(d, a)
<1>1. \A p \in Places : p \notin {"pend"} \cup Aside
  BY DEF Places, Queues, Aside
<1>2. \A p \in Places : Put(d, p) = Put(r, p) /\ d[p] = r[p]
  BY <1>1, PutSame
<1>3. \A f \in Fields : f # "pend" /\ f \notin Aside => d[f] = r[f]
  BY DEF Else
<1>4. /\ d.installed = r.installed /\ d.wild = r.wild /\ d.seen = r.seen /\ d.tx = r.tx
      /\ d.conn = r.conn /\ d.samp = r.samp /\ d.atask = r.atask /\ d.task = r.task
      /\ d.count = r.count
  BY <1>3 DEF Fields, Aside
<1>5. Typed(d)
  <2>1. d.pend \in AtaskCells \cup {0}
    <3>1. "samp" \in Places
      BY DEF Places, Queues
    <3> QED BY <3>1, PutCells
  <2>2. Aside \cap {"task", "atask", "q", "timers", "samp", "str", "pkt", "installed", "pend",
                    "sending", "retry", "pretry", "flight"} = {}
    BY DEF Aside
  <2> QED BY <2>1, <2>2, TypeKept
<1>6. Own(d, y)
  <2>1. ({"pend"} \cup Aside) \cap OwnFields = {}
    BY DEF OwnFields, Aside, Places, Queues
  <2>2. \A u \in TaskCells : TaskKept(r, d, u) /\ d.task[u].atasks = r.task[u].atasks
    BY <1>4 DEF TaskKept
  <2> QED BY <2>1, <2>2, OwnStill
<1>7. Inst(d, y)
  BY <1>4 DEF Inst, BusyCells
<1>8. PendOK(d)
  BY <1>4 DEF PendOK, Put, Queues
<1>9. Moved(r, d, 0)
  BY <1>4, <1>8 DEF Moved, AtaskKept, TaskKept, Conns
<1>10. Tally(r) => Tally(d)
  BY <1>4 DEF Tally, BusyCells
<1>11. Went(r, d)
  <2>1. \A p \in StrPlaces : Put(d, p) \subseteq Put(r, p)
    <3>1. StrPlaces \subseteq Places
      BY DEF StrPlaces, Places, Queues
    <3> QED BY <1>2, <3>1
  <2> QED BY <1>5, <1>6, <1>9, <1>10, <2>1, StillWent
<1>12. \A a : Walker(r, a) => Walker(d, a)
  BY <1>4 DEF Walker, BusyCells
<1> QED BY <1>2, <1>5, <1>6, <1>7, <1>8, <1>11, <1>12

(* ADC.getData for the item p.                                              *)
LEMMA GetDataOwn ==
  ASSUME NEW r, NEW p \in Put(r, "samp"), NEW ok, Typed(r), Own(r, 0), Inst(r, 0)
  PROVE  Onward(r, GetData([r EXCEPT !.pend = p], ok))
<1>1. PICK d : d = GetData([r EXCEPT !.pend = p], ok)
  OBVIOUS
<1>2. /\ DOMAIN r = Fields /\ r.adc \in Seq(AtaskCells \cup {0}) /\ r.handle \in Nat
      /\ r.kill \in TaskCells \cup {0} /\ p \in AtaskCells
  <2>1. "samp" \in Places
    BY DEF Places, Queues
  <2> QED BY <2>1, PutCells DEF Typed
<1>3. /\ Else(d, r, {"pend"} \cup Aside) /\ d.pend = p
      /\ d.adc \in {Append(r.adc, p), r.adc} /\ d.handle \in {r.handle, r.handle + 1}
      /\ d.kill = r.kill
  BY <1>1, <1>2 DEF GetData, Else, Fields, Aside
<1>4. d.adc \in Seq(AtaskCells \cup {0}) /\ d.handle \in Nat
  <2>1. Append(r.adc, p) \in Seq(AtaskCells \cup {0})
    BY <1>2, AppendProperties
  <2>2. d.adc = Append(r.adc, p) \/ d.adc = r.adc
    BY <1>3
  <2>3. d.handle \in Nat
    BY <1>2, <1>3
  <2>4. d.adc \in Seq(AtaskCells \cup {0})
    BY ONLY <1>2, <2>1, <2>2, Zenon
  <2> QED BY <2>3, <2>4
<1> QED BY <1>1, <1>2, <1>3, <1>4, PendOwn, Zenon DEF Onward

(* get_next_item.                                                           *)
LEMMA NextItemsOwn ==
  ASSUME NEW r, NEW d \in NextItems(r), Typed(r), Own(r, 0), Inst(r, 0)
  PROVE  Onward(r, d)
<1>1. CASE d = r
  BY <1>1, WentNone DEF Onward
<1>2. CASE d # r
  <2>1. PICK p \in Range(r.samp), now \in BOOLEAN, ok \in AdcAccepts(r) :
          d = NextItem(r, p, now, ok)
    BY <1>2 DEF NextItems
  <2>2. p \in Put(r, "samp") /\ r.samp # <<>>
    BY <1>2, <2>1 DEF Put, Queues, NextItem
  <2>3. CASE now
    BY <2>1, <2>2, <2>3, GetDataOwn DEF NextItem
  <2>4. CASE ~now
    <3>1. d = [r EXCEPT !.pend = p, !.stimer = TRUE]
      BY <2>1, <2>2, <2>4 DEF NextItem
    <3>2. /\ DOMAIN r = Fields /\ r.adc \in Seq(AtaskCells \cup {0}) /\ r.handle \in Nat
          /\ r.kill \in TaskCells \cup {0}
      BY DEF Typed
    <3>3. /\ Else(d, r, {"pend"} \cup Aside) /\ d.pend = p /\ d.adc = r.adc
          /\ d.handle = r.handle /\ d.kill = r.kill
      BY <3>1, <3>2 DEF Else, Fields, Aside
    <3> QED BY <2>2, <3>2, <3>3, PendOwn DEF Onward
  <2> QED BY <2>3, <2>4
<1> QED BY <1>1, <1>2

(* remove_task lets the connections be.                                     *)
LEMMA RemoveConn ==
  ASSUME NEW r, NEW y, NEW f \in Queues, NEW t, Typed(r), Own(r, y)
  PROVE  \A u \in TaskCells : RemoveTask(r, f, t).task[u].conn = r.task[u].conn
<1>1. f \in Places /\ Put(r, f) = Range(r[f])
  BY DEF Places, Put
<1>2. IsInjective(r[f]) /\ \A a \in Range(r[f]) : r.atask[a].busy
  BY <1>1 DEF Own, Apart, Tended
<1>3. PICK d : d = RemoveTask(r, f, t)
  OBVIOUS
<1>4. Gone(r, d, Range(r[f]) \cap Walks(r, t))
  BY <1>2, <1>3, RemoveTaskIs
<1> QED BY <1>3, <1>4 DEF Gone

(* A loose active task, when others of its task are deleted.                *)
LEMMA CutLoose ==
  ASSUME NEW r, NEW a, NEW t, NEW d, Typed(r), Own(r, a), Inst(r, a), Walker(r, a),
         Cut(r, d, t), Typed(d), Own(d, a),
         \A u \in TaskCells : d.task[u].conn = r.task[u].conn, PendOK(r) => PendOK(d)
  PROVE  /\ Inst(d, a) /\ Walker(d, a) /\ Went(r, d) /\ d.atask[a].t = r.atask[a].t
         /\ \A u, p : Clears(r, u, p) => Clears(d, u, p)
<1>1. /\ a \in AtaskCells /\ r.atask[a].busy /\ r.atask[a].t \in TaskCells
      /\ r.task[r.atask[a].t].busy /\ r.atask[a].t \in Range(r.installed)
  BY DEF Walker, BusyCells
<1>2. /\ \A b \in AtaskCells : AtaskKept(r, d, b) /\ (d.atask[b].busy => r.atask[b].busy)
      /\ \A u \in TaskCells : TaskKept(r, d, u)
      /\ d.installed = r.installed
  BY DEF Cut
<1>3. d.atask[a].busy
  <2>1. \A p \in Places : a \notin Put(r, p)
    BY DEF Own, Tended
  <2> QED BY <1>1, <2>1 DEF Cut
<1>4. Walker(d, a)
  BY <1>1, <1>2, <1>3 DEF Walker, BusyCells, AtaskKept, TaskKept
<1>5. Inst(d, a)
  <2>1. Range(r.installed) \subseteq TaskCells
    <3>1. r.installed \in Seq(TaskCells)
      BY DEF Typed
    <3> QED BY <3>1 DEF Range
  <2>2. \A u \in Range(d.installed) : d.task[u].busy
    BY <1>2, <2>1 DEF Inst, TaskKept
  <2>3. \A b \in BusyCells(d) : b \in BusyCells(r) /\ d.atask[b].t = r.atask[b].t
    BY <1>2 DEF BusyCells, AtaskKept
  <2> QED BY <1>2, <2>2, <2>3 DEF Inst
<1>6. Moved(r, d, 0)
  BY <1>2 DEF Moved, Cut
<1>7. Went(r, d)
  <2>1. \A p \in StrPlaces : Put(d, p) \subseteq Put(r, p)
    BY DEF StrPlaces, Places, Queues, Cut
  <2>2. Tally(r) => Tally(d)
    BY DEF Cut
  <2> QED BY <1>6, <2>1, <2>2, StillWent
<1>8. \A u, p : Clears(r, u, p) => Clears(d, u, p)
  BY <1>2 DEF Clears, TaskKept
<1>9. d.atask[a].t = r.atask[a].t
  BY <1>1, <1>2 DEF AtaskKept
<1> QED BY <1>4, <1>5, <1>7, <1>8, <1>9

(* sample_run.                                                              *)
LEMMA SampleRunOwn ==
  ASSUME NEW r, NEW a, NEW ok, Typed(r), Own(r, a), Inst(r, a), Walker(r, a),
         Clears(r, r.atask[a].t, "samp")
  PROVE  Onward(r, SampleRun(r, a, ok))
<1>1. PICK t, alone : t = TaskOf(r, a) /\ alone = SampleRemove(r, t)
  OBVIOUS
<1>2. PICK e : e = [alone EXCEPT !.samp = Append(@, a), !.stimer = FALSE]
  OBVIOUS
<1>3. /\ "samp" \in Places /\ "samp" \in Queues /\ "samp" \notin StrPlaces
      /\ StrPlaces \subseteq Places
  BY DEF Places, Queues, StrPlaces
<1>4. /\ Typed(alone) /\ Own(alone, a) /\ Cut(r, alone, t)
      /\ PendOK(r) => PendOK(alone)
      /\ Else(alone, r, {"atask", "count", "task", "samp", "full", "pend"})
  BY <1>1, CutSample
<1>5. \A u \in TaskCells : alone.task[u].conn = r.task[u].conn
  <2>1. PICK x : x = RemoveTask(r, "samp", t)
    OBVIOUS
  <2>2. \A u \in TaskCells : x.task[u].conn = r.task[u].conn
    BY <1>3, <2>1, RemoveConn
  <2>3. DOMAIN x = Fields
    BY <2>1, RemoveTaskGoes DEF Goes, Typed
  <2>4. alone.task = x.task
    BY <1>1, <2>1, <2>3 DEF SampleRemove, Fields
  <2> QED BY <2>2, <2>4
<1>6. /\ Inst(alone, a) /\ Walker(alone, a) /\ Went(r, alone)
      /\ Clears(alone, alone.atask[a].t, "samp")
  BY <1>4, <1>5, CutLoose
<1>7. a \in AtaskCells /\ alone.samp \in Seq(AtaskCells) /\ DOMAIN alone = Fields
  BY <1>4 DEF Walker, BusyCells, Typed
<1>8. /\ Else(e, alone, {"samp", "stimer"}) /\ e.samp = Append(alone.samp, a)
      /\ Else(e, alone, {"samp"} \cup Aside)
  BY <1>2, <1>7 DEF Else, Fields, Aside
<1>9. Typed(e)
  <2>1. e.samp \in Seq(AtaskCells)
    BY <1>7, <1>8
  <2> QED BY <1>4, <1>8, <2>1, TypeKept
<1>10. IsInjective(e.samp) /\ Put(e, "samp") = Put(alone, "samp") \cup {a}
  <2>1. a \notin Range(alone.samp) /\ IsInjective(alone.samp)
    <3>1. a \notin Put(alone, "samp")
      BY <1>3, <1>4 DEF Own, Tended
    <3> QED BY <1>3, <1>4, <3>1 DEF Put, Own, Apart
  <2>2. IsInjective(e.samp) /\ Range(e.samp) = Range(alone.samp) \cup {a}
    BY <1>7, <1>8, <2>1, AppendPut
  <2> QED BY <1>3, <2>2 DEF Put
<1>11. Own(e, 0) /\ Inst(e, 0)
  BY <1>3, <1>4, <1>6, <1>8, <1>10, Place
<1>12. Went(alone, e)
  <2>1. /\ \A o \in Places : o # "samp" => Put(e, o) = Put(alone, o)
        /\ e.atask = alone.atask /\ e.task = alone.task /\ e.pend = alone.pend
        /\ e.wild = alone.wild /\ e.seen = alone.seen /\ e.tx = alone.tx
        /\ Tally(alone) => Tally(e)
        /\ Conns(alone) => Conns(e)
    BY <1>3, <1>8, OnlyPlaces
  <2>2. PendOK(alone) => PendOK(e)
    BY <1>3, <1>10, <2>1 DEF PendOK, Put
  <2>3. Moved(alone, e, 0)
    BY <2>1, <2>2 DEF Moved, AtaskKept, TaskKept
  <2>4. \A p \in StrPlaces : Put(e, p) \subseteq Put(alone, p)
    BY <1>3, <2>1
  <2> QED BY <1>4, <1>9, <1>11, <2>1, <2>3, <2>4, StillWent
<1>13. Went(r, e)
  BY <1>6, <1>12, WentOn
<1>14. Onward(r, e)
  BY <1>9, <1>11, <1>13 DEF Onward
<1>15. Onward(r, GetData([e EXCEPT !.pend = a], ok))
  <2>1. Onward(e, GetData([e EXCEPT !.pend = a], ok))
    BY <1>9, <1>10, <1>11, GetDataOwn
  <2> QED BY <1>13, <2>1, WentOn DEF Onward
<1> QED BY <1>1, <1>2, <1>14, <1>15 DEF SampleRun

(* What lies aside has changed.                                             *)
LEMMA AsideOnward ==
  ASSUME NEW r, NEW d, NEW y, Typed(r), Typed(d), Own(r, y), Inst(r, y), Else(d, r, Aside)
  PROVE  /\ Own(d, y) /\ Inst(d, y) /\ Went(r, d)
         /\ \A p \in Places : Put(d, p) = Put(r, p) /\ d[p] = r[p]
         /\ \A a : Walker(r, a) => Walker(d, a)
<1>1. /\ Own(d, y) /\ Inst(d, y) /\ Moved(r, d, 0) /\ (Tally(r) => Tally(d))
      /\ \A p \in Places : Put(d, p) = Put(r, p) /\ d[p] = r[p]
      /\ \A a : Walker(r, a) => Walker(d, a)
  BY AsideOwn
<1>2. \A p \in StrPlaces : Put(d, p) \subseteq Put(r, p)
  <2>1. StrPlaces \subseteq Places
    BY DEF StrPlaces, Places, Queues
  <2> QED BY <1>1, <2>1
<1> QED BY <1>1, <1>2, StillWent

(* So has what active tasks carry, or whether a task is free to send.       *)
LEMMA CellsOnward ==
  ASSUME NEW r, NEW d, NEW F, NEW y, Typed(r), Typed(d), Own(r, y), Inst(r, y),
         F \subseteq {"atask", "task"} \cup Aside, Else(d, r, F),
         \A b \in AtaskCells : AtaskKept(r, d, b) /\ (d.atask[b].busy <=> r.atask[b].busy),
         \A u \in TaskCells : TaskKept(r, d, u) /\ d.task[u].atasks = r.task[u].atasks
                                /\ d.task[u].conn = r.task[u].conn
  PROVE  /\ Own(d, y) /\ Inst(d, y) /\ Went(r, d)
         /\ \A p \in Places : Put(d, p) = Put(r, p) /\ d[p] = r[p]
         /\ \A a : Walker(r, a) => Walker(d, a)
         /\ d.pend = r.pend
<1>1. /\ \A b \in AtaskCells : d.atask[b].t = r.atask[b].t
                                 /\ (d.atask[b].busy <=> r.atask[b].busy)
      /\ \A u \in TaskCells : TaskKept(r, d, u) /\ d.task[u].atasks = r.task[u].atasks
  BY DEF AtaskKept
<1>2. /\ Own(d, y) /\ Inst(d, y)
      /\ \A a : Walker(r, a) => Walker(d, a)
      /\ \A p \in Places : Put(d, p) = Put(r, p) /\ d[p] = r[p]
      /\ Tally(r) => Tally(d)
      /\ PendOK(r) => PendOK(d)
      /\ d.wild = r.wild /\ d.seen = r.seen /\ d.tx = r.tx /\ d.conn = r.conn
      /\ d.pend = r.pend
  BY <1>1, CellsSame
<1>3. Conns(r) => Conns(d)
  BY <1>2, ConnsKept
<1>4. Moved(r, d, 0)
  BY <1>2, <1>3 DEF Moved
<1>5. \A p \in StrPlaces : Put(d, p) \subseteq Put(r, p)
  <2>1. StrPlaces \subseteq Places
    BY DEF StrPlaces, Places, Queues
  <2> QED BY <1>2, <2>1
<1> QED BY <1>2, <1>4, <1>5, StillWent

(* An active task carries something else.                                   *)
LEMMA DataOwn ==
  ASSUME NEW r, NEW a \in AtaskCells, NEW x, NEW y, Typed(r), Own(r, y), Inst(r, y)
  PROVE  LET d == [r EXCEPT !.atask[a].data = x]
         IN  /\ Typed(d) /\ Own(d, y) /\ Inst(d, y) /\ Went(r, d)
             /\ \A p \in Places : Put(d, p) = Put(r, p) /\ d[p] = r[p]
             /\ \A b : Walker(r, b) => Walker(d, b)
             /\ d.pend = r.pend
             /\ \A b \in AtaskCells : AtaskKept(r, d, b)
             /\ Else(d, r, {"atask"})
<1>1. PICK d : d = [r EXCEPT !.atask[a].data = x]
  OBVIOUS
<1>2. Else(d, r, {"atask"}) /\ d.atask = [r.atask EXCEPT ![a].data = x]
  BY <1>1 DEF Typed, Else, Fields
<1>3. Typed(d)
  <2>1. AtasksOK(r.atask)
    BY DEF Typed
  <2>2. AtasksOK([r.atask EXCEPT ![a].data = x])
    BY <2>1, AtaskFields, Zenon
  <2>3. AtasksOK(d.atask)
    BY ONLY <1>2, <2>2, Zenon
  <2> QED BY <1>2, <2>3, TypeKept
<1>4. \A b \in AtaskCells : AtaskKept(r, d, b) /\ (d.atask[b].busy <=> r.atask[b].busy)
  <2>1. DOMAIN r.atask = AtaskCells /\ DOMAIN r.atask[a] = {"busy", "t", "idx", "data"}
    BY DEF Typed, AtasksOK, AtaskOK
  <2> QED BY <1>2, <2>1 DEF AtaskKept
<1>5. d.task = r.task
  BY <1>2 DEF Else, Fields
<1>6. \A u \in TaskCells : TaskKept(r, d, u) /\ d.task[u].atasks = r.task[u].atasks
                             /\ d.task[u].conn = r.task[u].conn
  BY <1>5 DEF TaskKept
<1>7. {"atask"} \subseteq {"atask", "task"} \cup Aside
  OBVIOUS
<1>8. /\ Own(d, y) /\ Inst(d, y) /\ Went(r, d)
      /\ \A p \in Places : Put(d, p) = Put(r, p) /\ d[p] = r[p]
      /\ \A b : Walker(r, b) => Walker(d, b)
      /\ d.pend = r.pend
  BY <1>2, <1>3, <1>4, <1>6, <1>7, CellsOnward
<1> QED BY <1>1, <1>2, <1>3, <1>4, <1>8

(* A task is free, or taken, to send.                                       *)
WithBusy(r, t, x) == [r EXCEPT !.task[t].sendbusy = x]

BusyKept(r, d, y) ==
  /\ Typed(d) /\ Own(d, y) /\ Inst(d, y) /\ Went(r, d)
  /\ \A p \in Places : Put(d, p) = Put(r, p) /\ d[p] = r[p]
  /\ \A b : Walker(r, b) => Walker(d, b)
  /\ Else(d, r, {"task"})
  /\ \A u \in TaskCells : TaskKept(r, d, u) /\ d.task[u].conn = r.task[u].conn

(* The flags of an element are not about where active tasks are.            *)
LEMMA BusyOwn ==
  ASSUME NEW r, NEW d, NEW t \in TaskCells, NEW x \in BOOLEAN, NEW y, Typed(r), Own(r, y),
         Inst(r, y), d = WithBusy(r, t, x)
  PROVE  BusyKept(r, d, y)
<1>2. Else(d, r, {"task"}) /\ d.task = [r.task EXCEPT ![t].sendbusy = x]
  BY DEF WithBusy, Typed, Else, Fields
<1>3. Typed(d)
  <2>1. TasksOK(r.task)
    BY DEF Typed
  <2>2. TasksOK([r.task EXCEPT ![t].sendbusy = x])
    BY <2>1, TaskFields, Zenon
  <2>3. TasksOK(d.task)
    BY ONLY <1>2, <2>2, Zenon
  <2> QED BY <1>2, <2>3, TypeKept
<1>4. d.atask = r.atask
  BY <1>2 DEF Else, Fields
<1>5. \A u \in TaskCells : TaskKept(r, d, u) /\ d.task[u].atasks = r.task[u].atasks
                             /\ d.task[u].conn = r.task[u].conn
  <2>1. r.task \in [TaskCells -> TaskRec]
    BY DEF Typed, TasksOK
  <2> QED BY <1>2, <2>1 DEF TaskKept, TaskRec
<1>6. \A b \in AtaskCells : AtaskKept(r, d, b) /\ (d.atask[b].busy <=> r.atask[b].busy)
  BY <1>4 DEF AtaskKept
<1>7. {"task"} \subseteq {"atask", "task"} \cup Aside
  OBVIOUS
<1>8. /\ Own(d, y) /\ Inst(d, y) /\ Went(r, d)
      /\ \A p \in Places : Put(d, p) = Put(r, p) /\ d[p] = r[p]
      /\ \A b : Walker(r, b) => Walker(d, b)
  BY ONLY <1>2, <1>3, <1>5, <1>6, <1>7, Typed(r), Own(r, y), Inst(r, y), CellsOnward
<1> QED BY <1>2, <1>3, <1>5, <1>8 DEF BusyKept

(* The list of Sample has changed while nothing was pending.                *)
LEMMA SampWent ==
  ASSUME NEW r, NEW d, NEW y, Typed(r), Typed(d), Own(d, y), Else(d, r, {"samp"}), r.pend = 0
  PROVE  Went(r, d)
<1>1. "samp" \in Places /\ "samp" \notin StrPlaces /\ StrPlaces \subseteq Places
  BY DEF Places, Queues, StrPlaces
<1>2. Else(d, r, {"samp"} \cup Aside)
  BY DEF Else
<1>3. /\ \A o \in Places : o # "samp" => Put(d, o) = Put(r, o)
      /\ d.atask = r.atask /\ d.task = r.task /\ d.pend = r.pend
      /\ d.wild = r.wild /\ d.seen = r.seen /\ d.tx = r.tx
      /\ Tally(r) => Tally(d)
      /\ Conns(r) => Conns(d)
  BY <1>1, <1>2, OnlyPlaces
<1>4. Moved(r, d, 0)
  BY <1>3 DEF Moved, AtaskKept, TaskKept, PendOK
<1>5. \A p \in StrPlaces : Put(d, p) \subseteq Put(r, p)
  BY <1>1, <1>3
<1> QED BY <1>3, <1>4, <1>5, StillWent

(* A loose clone takes the place of the active task it is a clone of.       *)
LEMMA SwapOwn ==
  ASSUME NEW r, NEW d, NEW c, NEW p \in Places, NEW a \in Put(r, p), Typed(r), Own(r, c),
         Inst(r, c), Walker(r, c), r.atask[c].t = r.atask[a].t, Else(d, r, {p}),
         Put(d, p) = (Put(r, p) \ {a}) \cup {c}, p \in Queues => IsInjective(d[p])
  PROVE  /\ Own(d, a) /\ Inst(d, a) /\ Walker(d, a)
         /\ \A o \in Places : o # p => Put(d, o) = Put(r, o)
<1>1. Else(d, r, {p} \cup Aside)
  BY DEF Else
<1>2. /\ \A o \in Places : o # p => Put(d, o) = Put(r, o) /\ d[o] = r[o]
      /\ d.atask = r.atask /\ d.task = r.task /\ d.installed = r.installed
      /\ BusyCells(d) = BusyCells(r)
      /\ Exact(r) <=> Exact(d)
      /\ Plain(r) <=> Plain(d)
  BY <1>1, OnlyPlaces
<1>3. /\ a \in AtaskCells /\ c \in AtaskCells /\ c # a /\ r.atask[c].busy /\ r.atask[a].busy
      /\ Clears(r, r.atask[a].t, p)
      /\ r.atask[c].t \in TaskCells /\ r.task[r.atask[c].t].busy
      /\ r.atask[c].t \in Range(r.installed)
  BY PutCells DEF Own, Tended, Walker, BusyCells
<1>4. /\ \A o \in Places : c \notin Put(r, o)
      /\ \A o \in Places : o # p => a \notin Put(r, o)
  BY DEF Own, Tended, Apart
<1>5. Apart(d)
  <2>1. \A f \in Queues : IsInjective(d[f])
    BY <1>2 DEF Own, Apart, Places
  <2>2. \A q \in Places, o \in Places : q # o => Put(d, q) \cap Put(d, o) = {}
    <3>1. \A q \in Places, o \in Places : q # o => Put(r, q) \cap Put(r, o) = {}
      BY DEF Own, Apart
    <3> QED BY <1>2, <1>4, <3>1
  <2> QED BY <2>1, <2>2 DEF Apart
<1>6. \A t, o : Clears(r, t, o) => Clears(d, t, o)
  BY <1>2 DEF Clears
<1>7. ASSUME NEW o \in Places, NEW b \in Put(d, o)
      PROVE  b # a /\ d.atask[b].busy /\ Clears(d, d.atask[b].t, o)
  <2>1. CASE b \in Put(r, o)
    <3>1. b # a
      BY <1>2, <1>3, <1>4, <1>7, <2>1
    <3>2. r.atask[b].busy /\ Clears(r, r.atask[b].t, o)
      BY <2>1 DEF Own, Tended
    <3> QED BY <1>2, <1>6, <3>1, <3>2
  <2>2. CASE b \notin Put(r, o)
    <3>1. b = c /\ o = p
      BY <1>2, <1>7, <2>2
    <3> QED BY <1>2, <1>3, <1>6, <3>1
  <2> QED BY <2>1, <2>2
<1>8. \A b \in BusyCells(d) : b = a \/ \E o \in Places : b \in Put(d, o)
  <2>1. \A b \in BusyCells(r) : b = c \/ \E o \in Places : b \in Put(r, o)
    BY DEF Own, Tended
  <2>2. \A o \in Places : Put(r, o) \ {a} \subseteq Put(d, o)
    BY <1>2
  <2>3. c \in Put(d, p)
    OBVIOUS
  <2> QED BY <1>2, <2>1, <2>2, <2>3
<1>9. Own(d, a)
  BY <1>2, <1>5, <1>7, <1>8 DEF Own, Tended
<1>10. Inst(d, a)
  BY <1>2, <1>3 DEF Inst
<1>11. Walker(d, a)
  BY <1>2, <1>3 DEF Walker, BusyCells
<1> QED BY <1>2, <1>9, <1>10, <1>11

(* One of a list is replaced.                                               *)
LEMMA Swapped ==
  ASSUME NEW l \in Seq(AtaskCells), NEW a \in Range(l), NEW c \in AtaskCells, c \notin Range(l),
         IsInjective(l)
  PROVE  LET m == [i \in DOMAIN l |-> IF l[i] = a THEN c ELSE l[i]]
         IN  /\ m \in Seq(AtaskCells) /\ IsInjective(m) /\ Range(m) = (Range(l) \ {a}) \cup {c}
<1>1. PICK m : m = [i \in DOMAIN l |-> IF l[i] = a THEN c ELSE l[i]]
  OBVIOUS
<1>2. PICK n \in Nat : n = Len(l) /\ DOMAIN l = 1 .. n
  OBVIOUS
<1>3. \A i \in 1 .. n : l[i] \in AtaskCells
  BY <1>2
<1>4. /\ DOMAIN m = 1 .. n
      /\ \A i \in 1 .. n : m[i] = IF l[i] = a THEN c ELSE l[i]
  BY ONLY <1>1, <1>2
<1>5. m \in Seq(AtaskCells)
  <2>1. m = [i \in 1 .. n |-> m[i]]
    BY <1>1, <1>2
  <2>2. \A i \in 1 .. n : m[i] \in AtaskCells
    BY <1>3, <1>4
  <2> QED BY ONLY <2>1, <2>2, n \in Nat, IsASeq
<1>6. \A i \in 1 .. n : l[i] # c
  BY <1>2 DEF Range
<1>7. IsInjective(m)
  <2>1. \A i, j \in 1 .. n : l[i] = l[j] => i = j
    BY <1>2 DEF IsInjective
  <2> QED BY ONLY <1>4, <1>6, <2>1 DEF IsInjective
<1>8. Range(m) = (Range(l) \ {a}) \cup {c}
  <2>1. PICK k \in 1 .. n : l[k] = a
    BY <1>2 DEF Range
  <2>2. Range(m) = {m[i] : i \in 1 .. n} /\ Range(l) = {l[i] : i \in 1 .. n}
    BY <1>2, <1>4 DEF Range
  <2>3. c \in Range(m)
    BY <1>4, <2>1, <2>2
  <2>4. ASSUME NEW x \in Range(m)
        PROVE  x \in (Range(l) \ {a}) \cup {c}
    BY <1>4, <2>2
  <2>5. ASSUME NEW x \in Range(l), x # a
        PROVE  x \in Range(m)
    BY <1>4, <2>2, <2>5
  <2> QED BY <2>3, <2>4, <2>5
<1> QED BY <1>1, <1>5, <1>7, <1>8

(* What is in a place walks a task that is installed.                       *)
LEMMA PlacedWalks ==
  ASSUME NEW r, NEW p \in Places, NEW a \in Put(r, p), Typed(r), Own(r, 0), Inst(r, 0)
  PROVE  Walker(r, a) /\ a \in AtaskCells /\ a # 0
<1>1. r.atask[a].busy /\ Clears(r, r.atask[a].t, p)
  BY DEF Own, Tended
<1>2. a \in BusyCells(r) /\ a # 0 /\ a \in AtaskCells
  BY <1>1, PutCells, CellTypes DEF BusyCells
<1> QED BY <1>1, <1>2 DEF Walker, Clears, Inst

(* Nothing is pending any longer.                                           *)
LEMMA PendNone ==
  ASSUME NEW r, NEW d, NEW y, NEW x, Typed(r), Own(r, y), Inst(r, y), d = [r EXCEPT !.pend = x],
         x \in Put(r, "samp") \cup {0}
  PROVE  /\ Typed(d) /\ Own(d, y) /\ Inst(d, y) /\ Went(r, d) /\ d.pend = x
         /\ \A p \in Places : Put(d, p) = Put(r, p) /\ d[p] = r[p]
         /\ \A a : Walker(r, a) => Walker(d, a)
         /\ Else(d, r, {"pend"})
<1>1. /\ DOMAIN r = Fields /\ r.adc \in Seq(AtaskCells \cup {0}) /\ r.handle \in Nat
      /\ r.kill \in TaskCells \cup {0}
  BY DEF Typed
<1>2. /\ Else(d, r, {"pend"}) /\ Else(d, r, {"pend"} \cup Aside) /\ d.pend = x
      /\ d.adc = r.adc /\ d.handle = r.handle /\ d.kill = r.kill
  BY <1>1 DEF Else, Fields
<1> QED BY <1>1, <1>2, PendOwn

(* handle_data, when the data of the pending item a is full, and there is   *)
(* a cell for a clone of it.                                                *)
LEMMA SampleFullOwn ==
  ASSUME NoPackets, NEW r, NEW a \in Put(r, "samp"), NEW c \in AtaskCells, Typed(r), Own(r, 0),
         Inst(r, 0), ~r.atask[c].busy
  PROVE  Onward(r, SampleFull(r, a, c))
<1>1. "samp" \in Places /\ "samp" \in Queues /\ c # 0
  BY CellTypes DEF Places, Queues
<1>2. Walker(r, a) /\ a \in AtaskCells
  BY <1>1, PlacedWalks
<1>3. PICK x : x = Load[IdOf(r, TaskOf(r, a))]
  OBVIOUS
<1>4. CASE ElementThis(r, a) # "repeat"
  <2>1. PICK given : given = [r EXCEPT !.atask[a].data = x]
    OBVIOUS
  <2>2. /\ Typed(given) /\ Own(given, 0) /\ Inst(given, 0) /\ Went(r, given)
        /\ Put(given, "samp") = Put(r, "samp")
    BY <1>1, <1>2, <2>1, DataOwn
  <2>3. PICK g : g = [given EXCEPT !.pend = 0]
    OBVIOUS
  <2>4. /\ Typed(g) /\ Own(g, 0) /\ Inst(g, 0) /\ Went(given, g) /\ g.pend = 0
        /\ Put(g, "samp") = Put(r, "samp") /\ Else(g, given, {"pend"})
    BY <1>1, <2>2, <2>3, PendNone
  <2>5. PICK e : e = [given EXCEPT !.samp = Only(@, AtaskCells \ {a}), !.pend = 0]
    OBVIOUS
  <2>6. Else(e, g, {"samp"}) /\ e.samp = Only(g.samp, AtaskCells \ {a})
        /\ Else(e, g, {"samp"} \cup Aside)
    <3>1. DOMAIN given = Fields
      BY <2>2 DEF Typed
    <3> QED BY <2>3, <2>5, <3>1 DEF Else, Fields
  <2>7. g.samp \in Seq(AtaskCells) /\ IsInjective(g.samp)
    BY <1>1, <2>4 DEF Typed, Own, Apart
  <2>8. /\ Range(e.samp) = Range(g.samp) \ {a} /\ IsInjective(e.samp)
        /\ e.samp \in Seq(AtaskCells)
    BY <2>6, <2>7, Without
  <2>9. Put(e, "samp") = Put(g, "samp") \ {a} /\ a \in Put(g, "samp")
    BY <1>1, <2>4, <2>8 DEF Put
  <2>10. Typed(e)
    BY <2>4, <2>6, <2>8, TypeKept
  <2>11. Own(e, a) /\ Inst(e, a) /\ Walker(e, a)
    BY <1>1, <2>4, <2>6, <2>8, <2>9, Lose
  <2>12. Went(g, e)
    BY <2>4, <2>6, <2>10, <2>11, SampWent
  <2>13. PICK d : d = ScheduleNext(e, a)
    OBVIOUS
  <2>14. Passed(e, d, a) /\ (Tally(e) => Tally(d))
    BY <2>10, <2>11, <2>13, ScheduleNextOwn
  <2>15. Went(e, d)
    BY <2>10, <2>11, <2>14, PassedWent
  <2>16. Went(r, d)
    BY <2>2, <2>4, <2>12, <2>15, WentOn
  <2>17. SampleFull(r, a, c) = d
    BY <1>3, <1>4, <2>1, <2>5, <2>13 DEF SampleFull
  <2> QED BY <2>14, <2>16, <2>17 DEF Onward, Passed
<1>5. CASE ElementThis(r, a) = "repeat"
  <2>1. PICK k : k = AtaskClone(r, c, a)
    OBVIOUS
  <2>2. /\ Typed(k) /\ Own(k, c) /\ Inst(k, c) /\ Walker(k, c)
        /\ Moved(r, k, c) /\ (Tally(r) => Tally(k))
        /\ \A p \in Places : Put(k, p) = Put(r, p)
        /\ k.atask[c].t = r.atask[a].t
        /\ \A b \in AtaskCells : b # c => k.atask[b] = r.atask[b]
    BY <1>2, <2>1, CloneOwn
  <2>3. Went(r, k)
    <3>1. \A p \in StrPlaces : Put(k, p) \subseteq Put(r, p) \ {c}
      <4>1. StrPlaces \subseteq Places
        BY DEF StrPlaces, Places, Queues
      <4>2. \A p \in Places : c \notin Put(k, p)
        BY <2>2 DEF Own, Tended
      <4> QED BY <2>2, <4>1, <4>2
    <3> QED BY <2>2, <3>1, MovedWent
  <2>4. PICK g : g = [k EXCEPT !.pend = 0]
    OBVIOUS
  <2>5. /\ Typed(g) /\ Own(g, c) /\ Inst(g, c) /\ Went(k, g) /\ g.pend = 0 /\ Walker(g, c)
        /\ Put(g, "samp") = Put(r, "samp") /\ Else(g, k, {"pend"})
    BY <1>1, <2>2, <2>4, PendNone
  <2>6. g.samp \in Seq(AtaskCells) /\ IsInjective(g.samp) /\ Put(g, "samp") = Range(g.samp)
        /\ c \notin Range(g.samp) /\ g.samp = k.samp
    <3>1. c \notin Put(g, "samp")
      BY <1>1, <2>5 DEF Own, Tended
    <3>2. Put(g, "samp") = Range(g.samp)
      BY <1>1 DEF Put
    <3>3. g.samp = k.samp
      BY <2>5 DEF Else, Fields
    <3> QED BY <1>1, <2>5, <3>1, <3>2, <3>3 DEF Typed, Own, Apart
  <2>7. PICK m : m = [i \in DOMAIN g.samp |-> IF g.samp[i] = a THEN c ELSE g.samp[i]]
    OBVIOUS
  <2>8. m \in Seq(AtaskCells) /\ IsInjective(m) /\ Range(m) = (Range(g.samp) \ {a}) \cup {c}
    BY <2>5, <2>6, <2>7, Swapped
  <2>9. PICK h : h = [g EXCEPT !.samp = m]
    OBVIOUS
  <2>10. Else(h, g, {"samp"}) /\ h.samp = m
    BY <2>5, <2>9 DEF Typed, Else, Fields
  <2>11. Put(h, "samp") = (Put(g, "samp") \ {a}) \cup {c}
    BY <1>1, <2>6, <2>8, <2>10 DEF Put
  <2>12. Typed(h)
    BY <2>5, <2>8, <2>10, TypeKept
  <2>13. g.atask[c].t = g.atask[a].t /\ a \in Put(g, "samp")
    <3>1. a # c
      BY <1>1, <2>5 DEF Own, Tended
    <3>2. g.atask = k.atask
      BY <2>5 DEF Else, Fields
    <3> QED BY <1>2, <2>2, <2>5, <3>1, <3>2
  <2>14. Own(h, a) /\ Inst(h, a) /\ Walker(h, a)
    BY <1>1, <2>5, <2>8, <2>10, <2>11, <2>13, SwapOwn
  <2>15. Went(g, h)
    BY <2>5, <2>10, <2>12, <2>14, SampWent
  <2>16. PICK i : i = [h EXCEPT !.pend = c]
    OBVIOUS
  <2>17. /\ Typed(i) /\ Own(i, a) /\ Inst(i, a) /\ Went(h, i) /\ Walker(i, a)
         /\ Else(i, h, {"pend"}) /\ i.pend = c
    BY <2>11, <2>12, <2>14, <2>16, PendNone
  <2>18. PICK e : e = [i EXCEPT !.atask[a].data = x]
    OBVIOUS
  <2>19. /\ Typed(e) /\ Own(e, a) /\ Inst(e, a) /\ Went(i, e) /\ Walker(e, a)
    BY <1>2, <2>17, <2>18, DataOwn
  <2>20. PICK d : d = ScheduleNext(e, a)
    OBVIOUS
  <2>21. Passed(e, d, a) /\ (Tally(e) => Tally(d))
    BY <2>19, <2>20, ScheduleNextOwn
  <2>22. Went(e, d)
    BY <2>19, <2>21, PassedWent
  <2>23. Went(r, d)
    BY <2>3, <2>5, <2>15, <2>17, <2>19, <2>22, WentOn
  <2>24. e = [k EXCEPT !.samp = m, !.pend = c, !.atask[a].data = x]
    BY <2>2, <2>4, <2>9, <2>16, <2>18 DEF Typed, Fields
  <2>25. SampleFull(r, a, c) = d
    BY <1>1, <1>3, <1>5, <2>1, <2>6, <2>7, <2>20, <2>24 DEF SampleFull
  <2> QED BY <2>21, <2>23, <2>25 DEF Onward, Passed
<1> QED BY <1>4, <1>5

-----------------------------------------------------------------------------
(* The actions of Issue and of Sample, of the packet transport, and what    *)
(* they leave.                                                              *)

(* What is true of the state r unless it is wild.                           *)
Held(r) == Typed(r) /\ Own(r, 0) /\ Inst(r, 0) /\ PendOK(r)

(* Steps that go on compose, and keep what is held.                         *)
LEMMA OnwardOn ==
  ASSUME NEW r, NEW d, NEW e, Onward(r, d), Onward(d, e)
  PROVE  Onward(r, e)
BY WentOn DEF Onward

(* Fields aside may change at will.                                         *)
LEMMA AsideGoes ==
  ASSUME NEW r, NEW d, Held(r), Typed(d), Else(d, r, Aside)
  PROVE  Onward(r, d)
BY AsideOnward DEF Onward, Held

(* What goes on holds.                                                      *)
LEMMA OnwardHeld ==
  ASSUME NEW r, NEW d, Held(r), Onward(r, d)
  PROVE  Held(d)
BY DEF Held, Onward, Went, Most

(* Each of these actions goes on.                                           *)
LEMMA IssueFiredOwn ==
  ASSUME NoPackets, Held(s), IssueFired
  PROVE  s'.wild \/ Onward(s, s')
BY FireDueOwn DEF IssueFired, Held

LEMMA SampleFiredOwn ==
  ASSUME Held(s), SampleFired
  PROVE  Onward(s, s')
<1>1. PICK r : r = [s EXCEPT !.stimer = FALSE]
  OBVIOUS
<1>2. Else(r, s, {"stimer"}) /\ Else(r, s, Aside)
  BY <1>1 DEF Held, Typed, Else, Fields, Aside
<1>3. Typed(r)
  BY <1>2, TypeKept DEF Held
<1>4. Onward(s, r)
  BY <1>2, <1>3, AsideGoes
<1>5. Onward(r, s')
  BY <1>1, <1>3, <1>4, NextItemsOwn DEF SampleFired, Onward
<1> QED BY <1>4, <1>5, OnwardOn

LEMMA DataReadyOwn ==
  ASSUME Held(s), DataReady
  PROVE  Onward(s, s')
<1>1. PICK i \in DOMAIN s.adc :
        s' = [s EXCEPT !.adcBusy = FALSE, !.mdata = s.adc[i], !.handle = @ + 1,
                       !.adc = RemoveAt(@, i)]
  BY DEF DataReady
<1>2. PICK d : d = s'
  OBVIOUS
<1>3. /\ Else(d, s, {"adcBusy", "mdata", "handle", "adc"}) /\ Else(d, s, Aside)
      /\ d.handle = s.handle + 1 /\ d.adc = RemoveAt(s.adc, i)
  BY <1>1, <1>2 DEF Held, Typed, Else, Fields, Aside
<1>4. s.adc \in Seq(AtaskCells \cup {0}) /\ s.handle \in Nat
  BY DEF Held, Typed
<1>5. d.adc \in Seq(AtaskCells \cup {0}) /\ d.handle \in Nat
  BY <1>3, <1>4, AdcRemoved
<1>6. Typed(d)
  BY <1>3, <1>5, TypeKept DEF Held
<1> QED BY <1>2, <1>3, <1>6, AsideGoes

LEMMA KillOwn ==
  ASSUME NEW r, NEW t \in TaskCells \cup {0}, Held(r)
  PROVE  Onward(r, Kill(r, t)) /\ Else(Kill(r, t), r, Aside)
<1>1. PICK d : d = Kill(r, t)
  OBVIOUS
<1>2. Typed(d)
  BY <1>1, KillGoes DEF Goes, Held
<1>3. Else(d, r, Aside)
  <2>1. DOMAIN r = Fields
    BY DEF Held, Typed
  <2>2. Else(Report(r, t), r, Aside)
    BY ReportOwn DEF Held
  <2>3. CASE t = 0
    BY <1>1, <2>1, <2>3 DEF Kill, Else
  <2>4. CASE t # 0
    <3>1. PICK x : x = Report(r, t)
      OBVIOUS
    <3>2. d = [x EXCEPT !.kill = IF @ = 0 THEN t ELSE @]
      BY <1>1, <2>4, <3>1 DEF Kill
    <3> QED BY <2>2, <3>1, <3>2 DEF Else, Fields, Aside
  <2> QED BY <2>3, <2>4
<1> QED BY <1>1, <1>2, <1>3, AsideGoes

LEMMA AdcErrorOwn ==
  ASSUME Held(s), AdcError
  PROVE  Onward(s, s')
<1>1. PICK i \in DOMAIN s.adc :
        LET idle == [s EXCEPT !.adcBusy = FALSE, !.adc = RemoveAt(@, i)]
        IN  s' \in NextItems(IF s.pend = 0 THEN idle ELSE Kill(idle, TaskOf(s, s.pend)))
  BY DEF AdcError
<1>2. PICK idle : idle = [s EXCEPT !.adcBusy = FALSE, !.adc = RemoveAt(@, i)]
  OBVIOUS
<1>3. /\ Else(idle, s, {"adcBusy", "adc"}) /\ Else(idle, s, Aside)
      /\ idle.adc = RemoveAt(s.adc, i)
  BY <1>2 DEF Held, Typed, Else, Fields, Aside
<1>4. idle.adc \in Seq(AtaskCells \cup {0})
  BY <1>3, AdcRemoved DEF Held, Typed
<1>5. Typed(idle)
  BY <1>3, <1>4, TypeKept DEF Held
<1>6. Onward(s, idle) /\ Held(idle)
  BY <1>3, <1>5, AsideGoes, OnwardHeld
<1>7. PICK r : r = IF s.pend = 0 THEN idle ELSE Kill(idle, TaskOf(s, s.pend))
  OBVIOUS
<1>8. Onward(s, r)
  <2>1. s.pend # 0 => TaskOf(s, s.pend) \in TaskCells \cup {0}
    BY CellTypes DEF Held, Typed, TaskOf
  <2> QED BY <1>6, <1>7, <2>1, KillOwn, OnwardOn
<1>9. Onward(r, s')
  <2>1. s' \in NextItems(r)
    BY <1>1, <1>2, <1>7
  <2> QED BY <1>8, <2>1, NextItemsOwn DEF Onward
<1> QED BY <1>8, <1>9, OnwardOn

LEMMA HandleDataOwn ==
  ASSUME NoPackets, ~Scarce, NEW fulls, Held(s), HandleData(fulls)
  PROVE  Onward(s, s')
<1>1. PICK c : c = FirstFree(s.atask)
  OBVIOUS
<1>2. PICK here : here = [s EXCEPT !.handle = @ - 1, !.mdata = IF s.handle = 1 THEN 0 ELSE @]
  OBVIOUS
<1>3. s.handle > 0 /\ s.handle \in Nat /\ Typed(s)
  BY DEF HandleData, Held, Typed
<1>4. /\ Else(here, s, {"handle", "mdata"}) /\ Else(here, s, Aside)
      /\ here.handle = s.handle - 1 /\ here.atask = s.atask /\ here.samp = s.samp
  BY <1>2, <1>3 DEF Typed, Else, Fields, Aside
<1>5. Typed(here)
  <2>1. here.handle \in Nat
    BY <1>3, <1>4
  <2> QED BY <1>3, <1>4, <2>1, TypeKept
<1>6. Onward(s, here)
  BY <1>4, <1>5, AsideGoes
<1>7. CASE s' \in NextItems(here)
  BY <1>6, <1>7, NextItemsOwn, OnwardOn DEF Onward
<1>8. CASE s.pend # 0 /\ c # 0 /\ s' \in NextItems(SampleFull(here, s.pend, c))
  <2>1. PICK r : r = SampleFull(here, s.pend, c)
    OBVIOUS
  <2>2. s.pend \in Put(here, "samp")
    BY <1>4, <1>8 DEF Held, PendOK, Put, Queues
  <2>3. c \in AtaskCells /\ ~here.atask[c].busy
    <3>1. DOMAIN s.atask = 1 .. NumAtasks
      BY <1>3 DEF Typed, AtasksOK, AtaskCells
    <3> QED BY <1>1, <1>4, <1>8, <3>1, FirstFreeIs DEF AtaskCells
  <2>4. Onward(here, r)
    BY <1>6, <2>1, <2>2, <2>3, SampleFullOwn DEF Onward
  <2>5. Onward(r, s')
    BY <1>8, <2>1, <2>4, NextItemsOwn DEF Onward
  <2> QED BY <1>6, <2>4, <2>5, OnwardOn
<1>9. s.full = {}
  BY DEF Held, Own, Plain
<1> QED BY <1>1, <1>2, <1>7, <1>8, <1>9 DEF HandleData

-----------------------------------------------------------------------------
(* SendSTR.                                                                 *)

(* An active task that has come to an element of SendSTR waits for it.      *)
LEMMA PlaceWent ==
  ASSUME NEW r, NEW d, NEW p \in {"str", "retry"}, NEW a \in AtaskCells, Typed(r), Typed(d),
         Own(d, 0), Else(d, r, {p} \cup Aside), Put(d, p) = Put(r, p) \cup {a}, IsAimed(r, a)
  PROVE  Went(r, d)
<1>1. p \in Places \ {"samp"} /\ p \in StrPlaces /\ p # "sending" /\ StrPlaces \subseteq Places
      /\ "sending" \in Places /\ p # "posted"
  BY DEF Places, Queues, StrPlaces
<1>2. /\ \A o \in Places : o # p => Put(d, o) = Put(r, o) /\ d[o] = r[o]
      /\ d.atask = r.atask /\ d.task = r.task /\ d.wild = r.wild /\ d.tx = r.tx
      /\ Tally(r) => Tally(d)
      /\ Conns(r) => Conns(d)
      /\ Moved(r, d, 0)
  BY <1>1, OnlyPlaces
<1>3. PendOK(r) => PendOK(d)
  BY <1>2 DEF Moved
<1>4. Ours(r) => Ours(d)
  <2>1. d["sending"] = r["sending"]
    BY <1>1, <1>2
  <2> QED BY <1>2, <2>1 DEF Ours, IdOf, TaskOf
<1>5. Aimed(r) => Aimed(d)
  <2>1. \A b : IsAimed(r, b) => IsAimed(d, b)
    BY <1>2 DEF IsAimed
  <2>2. \A o \in StrPlaces : \A b \in Put(d, o) : b \in Put(r, o) \/ b = a
    BY <1>1, <1>2
  <2> QED BY <2>1, <2>2 DEF Aimed
<1> QED BY <1>2, <1>3, <1>4, <1>5 DEF Went, Most

(* sendSTR_run with data.                                                   *)
LEMMA StrQueueOwn ==
  ASSUME NEW r, NEW a, Typed(r), Own(r, a), Inst(r, a), Walker(r, a),
         Clears(r, r.atask[a].t, "str"), IsAimed(r, a)
  PROVE  Onward(r, StrQueue(r, a))
<1>1. PICK t, x : t = TaskOf(r, a) /\ x = RemoveTask(r, "str", t)
  OBVIOUS
<1>2. "str" \in Places /\ "str" \in Queues
  BY DEF Places, Queues
<1>3. /\ a \in AtaskCells /\ t \in TaskCells /\ t = r.atask[a].t
  BY <1>1 DEF Walker, BusyCells, TaskOf
<1>4. /\ Typed(x) /\ Own(x, a) /\ Cut(r, x, t)
      /\ Else(x, r, {"atask", "count", "task", "str"})
  BY <1>1, <1>2, CutRemove
<1>5. \A u \in TaskCells : x.task[u].conn = r.task[u].conn
  BY <1>1, <1>2, RemoveConn
<1>6. PendOK(r) => PendOK(x)
  BY <1>4, PendSame DEF Else, Fields
<1>7. /\ Inst(x, a) /\ Walker(x, a) /\ Went(r, x) /\ x.atask[a].t = r.atask[a].t
      /\ Clears(x, x.atask[a].t, "str")
  BY <1>4, <1>5, <1>6, CutLoose
<1>8. IsAimed(x, a)
  <2>1. x.atask[a].idx = r.atask[a].idx /\ x.atask[a].t = t /\ x.task[t].id = r.task[t].id
    BY <1>3, <1>4 DEF Cut, AtaskKept, TaskKept
  <2> QED BY <1>3, <2>1 DEF IsAimed
<1>9. PICK e : e = [x EXCEPT !.task[t].sendbusy = TRUE]
  OBVIOUS
<1>10. /\ Typed(e) /\ Own(e, a) /\ Inst(e, a) /\ Went(x, e) /\ Walker(e, a)
       /\ \A p \in Places : Put(e, p) = Put(x, p) /\ e[p] = x[p]
       /\ Else(e, x, {"task"})
       /\ \A u \in TaskCells : TaskKept(x, e, u)
  <2>1. PICK b \in BOOLEAN : b = TRUE
    OBVIOUS
  <2>2. e = WithBusy(x, t, b)
    BY <1>9, <2>1 DEF WithBusy
  <2>3. BusyKept(x, e, a)
    BY ONLY <1>3, <1>4, <1>7, <2>2, BusyOwn, Zenon
  <2> QED BY <1>7, <2>3 DEF BusyKept
<1>11. e.atask = x.atask
  BY <1>10 DEF Else, Fields
<1>12. Clears(e, e.atask[a].t, "str") /\ IsAimed(e, a)
  BY <1>3, <1>7, <1>8, <1>10, <1>11, Zenon DEF Clears, IsAimed, TaskKept
<1>13. PICK d : d = [x EXCEPT !.str = Append(@, a), !.strpop = TRUE, !.task[t].sendbusy = TRUE]
  OBVIOUS
<1>14. /\ Else(d, e, {"str", "strpop"}) /\ d.str = Append(e.str, a)
       /\ Else(d, e, {"str"} \cup Aside)
  <2>1. DOMAIN x = Fields
    BY <1>4 DEF Typed
  <2> QED BY <1>9, <1>13, <2>1 DEF Else, Fields, Aside
<1>15. e.str \in Seq(AtaskCells)
  BY <1>10 DEF Typed
<1>16. Typed(d)
  <2>1. d.str \in Seq(AtaskCells)
    BY <1>3, <1>14, <1>15
  <2> QED BY <1>10, <1>14, <2>1, TypeKept
<1>17. IsInjective(d.str) /\ Put(d, "str") = Put(e, "str") \cup {a}
  <2>1. a \notin Range(e.str) /\ IsInjective(e.str)
    <3>1. a \notin Put(e, "str")
      BY <1>2, <1>10 DEF Own, Tended
    <3> QED BY <1>2, <1>10, <3>1 DEF Put, Own, Apart
  <2>2. IsInjective(d.str) /\ Range(d.str) = Range(e.str) \cup {a}
    BY <1>3, <1>14, <1>15, <2>1, AppendPut
  <2> QED BY <1>2, <2>2 DEF Put
<1>18. Own(d, 0) /\ Inst(d, 0)
  BY <1>2, <1>10, <1>12, <1>14, <1>17, Place
<1>19. Went(e, d)
  BY <1>3, <1>10, <1>12, <1>14, <1>16, <1>17, <1>18, PlaceWent
<1>20. Went(r, d)
  BY <1>7, <1>10, <1>19, WentOn
<1>21. StrQueue(r, a) = d
  BY <1>1, <1>13 DEF StrQueue
<1> QED BY <1>16, <1>18, <1>20, <1>21 DEF Onward

-----------------------------------------------------------------------------
(* What the state of the connections says nothing of.                       *)
Linked == {"task", "tx", "conn"} \cup Aside

LinkKept(r, d, y) ==
  /\ Own(d, y) /\ Inst(d, y)
  /\ \A p \in Places : Put(d, p) = Put(r, p) /\ d[p] = r[p]
  /\ \A b : Walker(r, b) => Walker(d, b)
  /\ \A t \in TaskCells, p \in Places : Clears(r, t, p) => Clears(d, t, p)
  /\ d.atask = r.atask /\ d.seen = r.seen /\ d.wild = r.wild
  /\ \A b : r.atask[b].t \in TaskCells /\ IsAimed(r, b) => IsAimed(d, b)
  /\ Tally(r) => Tally(d)
  /\ PendOK(r) => PendOK(d)
  /\ Aimed(r) => Aimed(d)

(* The connections are not about where active tasks are.                    *)
LEMMA LinkOwn ==
  ASSUME NEW r, NEW d, NEW y, Typed(r), Own(r, y), Inst(r, y), Else(d, r, Linked),
         \A u \in TaskCells : TaskKept(r, d, u) /\ d.task[u].atasks = r.task[u].atasks
  PROVE  LinkKept(r, d, y)
<1>1. /\ \A p \in Places : Put(d, p) = Put(r, p) /\ d[p] = r[p]
      /\ d.atask = r.atask /\ d.seen = r.seen /\ d.wild = r.wild /\ d.count = r.count
      /\ d.installed = r.installed /\ d.pend = r.pend /\ d.samp = r.samp
  BY DEF Else, Linked, Aside, Put, Places, Queues, Fields
<1>2. Own(d, y)
  <2>1. Linked \cap OwnFields = {}
    BY DEF Linked, Aside, OwnFields, Places, Queues
  <2> QED BY <2>1, OwnStill
<1>3. BusyCells(d) = BusyCells(r)
  BY <1>1 DEF BusyCells
<1>4. Inst(d, y)
  <2>1. Range(r.installed) \subseteq TaskCells
    BY DEF Typed, Range
  <2> QED BY <1>1, <1>3, <2>1 DEF Inst, TaskKept
<1>5. \A b : Walker(r, b) => Walker(d, b)
  BY <1>1, <1>3 DEF Walker, TaskKept
<1>6. \A t \in TaskCells, p \in Places : Clears(r, t, p) => Clears(d, t, p)
  BY DEF Clears, TaskKept
<1>7. \A b : r.atask[b].t \in TaskCells /\ IsAimed(r, b) => IsAimed(d, b)
  BY <1>1 DEF IsAimed, TaskKept
<1>8. (Tally(r) => Tally(d)) /\ (PendOK(r) => PendOK(d))
  BY <1>1, <1>3 DEF Tally, PendOK
<1>9. Aimed(r) => Aimed(d)
  <2>1. \A p \in StrPlaces : p \in Places
    BY DEF StrPlaces, Places, Queues
  <2>2. \A p \in StrPlaces : \A b \in Put(r, p) : r.atask[b].t \in TaskCells
    BY <2>1 DEF Own, Tended, Clears
  <2> QED BY <1>1, <1>7, <2>1, <2>2 DEF Aimed
<1> QED BY <1>1, <1>2, <1>4, <1>5, <1>6, <1>7, <1>8, <1>9 DEF LinkKept

(* The end of pop_and_send for the active task it has taken.                *)
LEMMA StrTransmitOwn ==
  ASSUME NEW r, NEW a, NEW ok, Typed(r), Own(r, a), Inst(r, a), Walker(r, a), r.sending = 0,
         r.retry = 0
  PROVE  StrTransmit(r, a, ok).wild \/ Onward(r, StrTransmit(r, a, ok))
<1>1. PICK t, id : t = TaskOf(r, a) /\ id = IdOf(r, t)
  OBVIOUS
<1>2. a \in AtaskCells /\ t \in TaskCells /\ r.task[t].busy /\ t = r.atask[a].t /\ a # 0
  BY <1>1, CellTypes DEF Walker, BusyCells, TaskOf
<1>3. CASE ElementThis(r, a) # "str"
  <2>1. StrTransmit(r, a, ok) = Wild(r)
    BY <1>3 DEF StrTransmit
  <2>2. Wild(r).wild
    BY DEF Wild, Typed, Fields
  <2> QED BY <2>1, <2>2
<1>4. ASSUME ElementThis(r, a) = "str"
      PROVE  /\ IsAimed(r, a)
             /\ \A p \in StrPlaces : Clears(r, r.atask[a].t, p)
             /\ StrTransmit(r, a, ok) \in
                  {[r EXCEPT !.sending = a, !.task[t].conn = "sending", !.tx = id],
                   [r EXCEPT !.retry = a, !.strpop = TRUE]}
             /\ ~(ok /\ r.task[t].conn = "connected" /\ StreamTakes(r, id)) =>
                  StrTransmit(r, a, ok) = [r EXCEPT !.retry = a, !.strpop = TRUE]
  <2>1. IsAimed(r, a)
    <3>1. ElementThis(r, a) # "none"
      BY <1>4
    <3>2. /\ IdOf(r, TaskOf(r, a)) \in Ids
          /\ r.atask[a].idx \in 1 .. Len(Chain[IdOf(r, TaskOf(r, a))])
          /\ ElementThis(r, a) = Chain[IdOf(r, TaskOf(r, a))][r.atask[a].idx]
      BY ONLY <1>2, <3>1, Typed(r), ElementIs, Zenon
    <3>3. Chain[IdOf(r, TaskOf(r, a))] \in Seq(Kinds)
      BY <3>2, TaskCellsAssumption
    <3>4. r.atask[a].idx <= Len(Chain[IdOf(r, TaskOf(r, a))])
      BY <3>2, <3>3
    <3> QED BY <1>4, <3>2, <3>4 DEF IsAimed, IdOf, TaskOf
  <2>2. r.atask[a].idx \in 1 .. r.task[t].built /\ Chain[r.task[t].id][r.atask[a].idx] = "str"
    <3>1. ~(r.atask[a].idx > r.task[t].built) /\ Chain[r.task[t].id][r.atask[a].idx] = "str"
      BY <1>2, <1>4 DEF ElementThis
    <3>2. r.atask[a].idx \in Nat \ {0} /\ r.task[t].built \in Nat
      <4>1. 0 \notin TaskCells
        BY CellTypes
      <4> QED BY <1>2, <4>1 DEF Typed, AtasksOK, AtaskOK, TasksOK, TaskRec
    <3> QED BY <3>1, <3>2
  <2>3. \A p \in StrPlaces : Clears(r, t, p)
    <3>1. \A p \in StrPlaces : "str" \in Uses(p)
      BY DEF StrPlaces, Uses
    <3> QED BY <1>2, <2>2, <3>1 DEF Clears
  <2> QED BY <1>1, <1>2, <1>4, <2>1, <2>3 DEF StrTransmit
<1>5. CASE ElementThis(r, a) = "str" /\ ok /\ r.task[t].conn = "connected" /\ StreamTakes(r, id)
  <2>1. PICK d : d = [r EXCEPT !.sending = a, !.task[t].conn = "sending", !.tx = id]
    OBVIOUS
  <2>2. PICK m : m = [r EXCEPT !.task[t].conn = "sending", !.tx = id]
    OBVIOUS
  <2>3. /\ Else(m, r, {"task", "tx"}) /\ m.tx = id
        /\ m.task = [r.task EXCEPT ![t].conn = "sending"]
        /\ Else(d, m, {"sending"}) /\ d.sending = a
    BY <2>1, <2>2 DEF Typed, Else, Fields
  <2>4. TasksOK(m.task)
    <3>1. TasksOK(r.task)
      BY DEF Typed
    <3>2. TasksOK([r.task EXCEPT ![t].conn = "sending"])
      BY <1>2, <3>1, TaskFields, Zenon
    <3> QED BY ONLY <2>3, <3>2, Zenon
  <2>5. Typed(m) /\ Typed(d)
    <3>1. Typed(m)
      BY <2>3, <2>4, TypeKept
    <3> QED BY <1>2, <2>3, <3>1, TypeKept
  <2>6. /\ \A u \in TaskCells : TaskKept(r, m, u) /\ m.task[u].atasks = r.task[u].atasks
        /\ \A u \in TaskCells : u # t => m.task[u].conn = r.task[u].conn
        /\ m.task[t].conn = "sending" /\ m.task[t].id = id
    <3>1. r.task \in [TaskCells -> TaskRec]
      BY DEF Typed, TasksOK
    <3> QED BY <1>1, <1>2, <2>3, <3>1 DEF TaskKept, TaskRec, IdOf
  <2>7. LinkKept(r, m, a)
    <3>1. Else(m, r, Linked)
      BY <2>3 DEF Else, Linked
    <3> QED BY <2>6, <3>1, LinkOwn
  <2>8. Conns(r) => Conns(m)
    <3>1. m.conn = r.conn /\ m.seen = r.seen
      BY <2>3 DEF Else, Fields
    <3>2. \A u \in TaskCells : m.task[u].conn # "none" => r.task[u].conn # "none"
      BY <1>5, <2>6
    <3> QED BY <2>6, <3>1, <3>2 DEF Conns, TaskKept
  <2>9. /\ Own(m, a) /\ Inst(m, a) /\ Walker(m, a) /\ Clears(m, m.atask[a].t, "sending")
        /\ IsAimed(m, a) /\ m.atask = r.atask /\ m.sending = 0
    <3>1. "sending" \in StrPlaces /\ "sending" \in Places
      BY DEF StrPlaces, Places
    <3> QED BY <1>2, <1>4, <1>5, <2>7, <3>1 DEF LinkKept
  <2>10. /\ Put(d, "sending") = Put(m, "sending") \cup {a} /\ "sending" \in Places \ Queues
         /\ Else(d, m, {"sending"} \cup Aside)
    BY <1>2, <2>3, <2>9 DEF Put, Queues, Places, Else
  <2>11. Own(d, 0) /\ Inst(d, 0)
    BY <2>5, <2>9, <2>10, Place
  <2>12. /\ \A o \in Places : o # "sending" => Put(d, o) = Put(m, o)
         /\ d.atask = m.atask /\ d.task = m.task /\ d.wild = m.wild /\ d.tx = m.tx
         /\ (Tally(m) => Tally(d)) /\ (Conns(m) => Conns(d)) /\ Moved(m, d, 0)
    BY <2>10, OnlyPlaces
  <2>13. Aimed(m) => Aimed(d)
    <3>1. \A b : IsAimed(m, b) => IsAimed(d, b)
      BY <2>12 DEF IsAimed
    <3>2. \A o \in StrPlaces : o \in Places
      BY DEF StrPlaces, Places, Queues
    <3>3. \A o \in StrPlaces : \A b \in Put(d, o) : b \in Put(m, o) \/ b = a
      BY <2>10, <2>12, <3>2
    <3> QED BY <2>9, <3>1, <3>3 DEF Aimed
  <2>14. Ours(d)
    BY <1>2, <2>3, <2>6, <2>9, <2>12 DEF Ours, IdOf, TaskOf
  <2>15. Went(r, d)
    BY <2>7, <2>8, <2>12, <2>13, <2>14 DEF Went, Most, Moved, LinkKept
  <2>16. StrTransmit(r, a, ok) = d
    BY <1>1, <1>5, <2>1 DEF StrTransmit
  <2> QED BY <2>5, <2>11, <2>15, <2>16 DEF Onward
<1>6. CASE ElementThis(r, a) = "str"
           /\ ~(ok /\ r.task[t].conn = "connected" /\ StreamTakes(r, id))
  <2>1. PICK d : d = [r EXCEPT !.retry = a, !.strpop = TRUE]
    OBVIOUS
  <2>2. /\ Else(d, r, {"retry", "strpop"}) /\ d.retry = a
        /\ Else(d, r, {"retry"} \cup Aside)
    BY <2>1 DEF Typed, Else, Fields, Aside
  <2>3. Typed(d)
    BY <1>2, <2>2, TypeKept
  <2>4. /\ Put(d, "retry") = Put(r, "retry") \cup {a} /\ "retry" \in Places \ Queues
        /\ "retry" \in StrPlaces
    BY <1>2, <2>2 DEF Put, Queues, Places, StrPlaces
  <2>5. Own(d, 0) /\ Inst(d, 0)
    <3>1. Clears(r, r.atask[a].t, "retry")
      BY <1>4, <1>6, <2>4
    <3> QED BY <2>2, <2>4, <3>1, Place
  <2>6. Went(r, d)
    <3>1. IsAimed(r, a) /\ "retry" \in {"str", "retry"}
      BY <1>4, <1>6
    <3> QED BY <1>2, <2>2, <2>3, <2>4, <2>5, <3>1, PlaceWent
  <2>7. StrTransmit(r, a, ok) = d
    BY <1>4, <1>6, <2>1
  <2> QED BY <2>3, <2>5, <2>6, <2>7 DEF Onward
<1> QED BY <1>3, <1>5, <1>6

-----------------------------------------------------------------------------
(* Taking the first of a list.                                              *)
LEMMA HeadTail ==
  ASSUME NEW T, NEW l \in Seq(T), l # <<>>, IsInjective(l)
  PROVE  /\ Head(l) \in T /\ Tail(l) \in Seq(T) /\ Head(l) \in Range(l)
         /\ IsInjective(Tail(l)) /\ Range(Tail(l)) = Range(l) \ {Head(l)}
<1>1. PICK n \in Nat : n = Len(l)
  BY LenProperties
<1>2. /\ n > 0 /\ Head(l) = l[1] /\ Tail(l) \in Seq(T) /\ Len(Tail(l)) = n - 1
      /\ \A i \in 1 .. (n - 1) : Tail(l)[i] = l[i + 1]
      /\ DOMAIN l = 1 .. n /\ DOMAIN Tail(l) = 1 .. (n - 1) /\ Head(l) \in T
  BY <1>1, HeadTailProperties, EmptySeq, LenProperties
<1>3. \A i \in 1 .. n, j \in 1 .. n : i # j => l[i] # l[j]
  BY <1>2 DEF IsInjective
<1>4. IsInjective(Tail(l))
  <2>1. ASSUME NEW i \in 1 .. (n - 1), NEW j \in 1 .. (n - 1), Tail(l)[i] = Tail(l)[j]
        PROVE  i = j
    <3>1. i + 1 \in 1 .. n /\ j + 1 \in 1 .. n /\ (i # j => i + 1 # j + 1)
      BY <1>2
    <3> QED BY <1>2, <1>3, <2>1, <3>1
  <2> QED BY <1>2, <2>1 DEF IsInjective
<1>5. \A x : x \in Range(Tail(l)) <=> \E i \in 1 .. (n - 1) : l[i + 1] = x
  BY <1>2 DEF Range
<1>6. \A x : x \in Range(l) <=> \E i \in 1 .. n : l[i] = x
  BY <1>2 DEF Range
<1>7. ASSUME NEW x \in Range(Tail(l))
      PROVE  x \in Range(l) /\ x # l[1]
  <2>1. PICK i \in 1 .. (n - 1) : l[i + 1] = x
    BY <1>5, <1>7
  <2>2. i + 1 \in 1 .. n /\ i + 1 # 1 /\ 1 \in 1 .. n
    BY <1>2
  <2> QED BY <1>3, <1>6, <2>1, <2>2
<1>8. ASSUME NEW x \in Range(l), x # l[1]
      PROVE  x \in Range(Tail(l))
  <2>1. PICK i \in 1 .. n : l[i] = x
    BY <1>6
  <2>2. i - 1 \in 1 .. (n - 1) /\ (i - 1) + 1 = i
    BY <1>2, <1>8, <2>1
  <2> QED BY <1>5, <2>1, <2>2
<1>9. Head(l) \in Range(l)
  <2>1. 1 \in 1 .. n
    BY <1>2
  <2> QED BY <1>2, <1>6, <2>1
<1> QED BY <1>2, <1>4, <1>7, <1>8, <1>9

(* The first of a queue is taken.                                           *)
LEMMA PopOwn ==
  ASSUME NEW r, NEW d, NEW f \in {"q", "str"}, NEW a, Typed(r), Own(r, 0), Inst(r, 0),
         r[f] # <<>>, Else(d, r, {f}), d[f] = Tail(r[f]), a = Head(r[f])
  PROVE  /\ Typed(d) /\ Own(d, a) /\ Inst(d, a) /\ Walker(d, a) /\ a \in AtaskCells
         /\ Went(r, d) /\ Clears(d, d.atask[a].t, f)
         /\ a \in Put(r, f) /\ d.atask = r.atask /\ d.task = r.task
<1>1. f \in Queues /\ f \in Places \ {"samp"} /\ f \in Fields
  BY DEF Queues, Places, Fields
<1>2. r[f] \in Seq(AtaskCells)
  BY DEF Typed
<1>3. IsInjective(r[f])
  BY <1>1 DEF Own, Apart
<1>4. /\ a \in AtaskCells /\ d[f] \in Seq(AtaskCells) /\ a \in Range(r[f])
      /\ IsInjective(d[f]) /\ Range(d[f]) = Range(r[f]) \ {a}
  BY <1>2, <1>3, HeadTail
<1>5. a \in Put(r, f) /\ Put(d, f) = Put(r, f) \ {a}
  BY <1>1, <1>4 DEF Put
<1>6. Typed(d)
  <2>1. CASE f = "q"
    BY <1>4, <2>1, TypeKept
  <2>2. CASE f = "str"
    BY <1>4, <2>2, TypeKept
  <2> QED BY <2>1, <2>2
<1>7. Else(d, r, {f} \cup Aside)
  BY DEF Else
<1>8. /\ Own(d, a) /\ Inst(d, a) /\ Walker(d, a) /\ Clears(d, d.atask[a].t, f)
  BY <1>1, <1>4, <1>5, <1>7, Lose
<1>9. Went(r, d)
  BY <1>1, <1>5, <1>6, <1>7, <1>8, LoseWent
<1>10. d.atask = r.atask /\ d.task = r.task
  BY <1>1, <1>7, OnlyPlaces
<1> QED BY <1>4, <1>5, <1>6, <1>8, <1>9, <1>10

(* pop_and_send.                                                            *)
LEMMA StrPopOwn ==
  ASSUME NoPackets, NEW r, NEW ok, Typed(r), Own(r, 0), Inst(r, 0)
  PROVE  StrPop(r, ok).wild \/ Onward(r, StrPop(r, ok))
<1>1. PICK d : d = StrPop(r, ok)
  OBVIOUS
<1>2. Onward(r, r)
  BY WentNone DEF Onward
<1>3. CASE d = r
  BY <1>1, <1>2, <1>3
<1>4. ASSUME NEW m, NEW a, Typed(m), Own(m, a), Inst(m, a), Walker(m, a), m.sending = 0,
             m.retry = 0, Went(r, m), d = StrTransmit(m, a, ok)
      PROVE  d.wild \/ Onward(r, d)
  <2>1. d.wild \/ Onward(m, d)
    BY ONLY <1>4, StrTransmitOwn, Zenon
  <2> QED BY <1>4, <2>1, WentOn DEF Onward
<1>5. CASE r.sending = 0 /\ r.retry # 0
  <2>1. PICK a, m : a = r.retry /\ m = [r EXCEPT !.retry = 0]
    OBVIOUS
  <2>2. Else(m, r, {"retry"}) /\ m.retry = 0 /\ m.sending = 0
        /\ Else(m, r, {"retry"} \cup Aside)
    BY <1>5, <2>1 DEF Typed, Else, Fields
  <2>3. "retry" \in Places \ {"samp"} /\ "retry" \notin Queues /\ a \in Put(r, "retry")
        /\ Put(m, "retry") = Put(r, "retry") \ {a}
    BY <1>5, <2>1, <2>2 DEF Places, Queues, Put
  <2>4. Typed(m)
    BY <2>2, TypeKept
  <2>5. Own(m, a) /\ Inst(m, a) /\ Walker(m, a)
    BY <2>2, <2>3, Lose
  <2>6. Went(r, m)
    BY <2>2, <2>3, <2>4, <2>5, LoseWent
  <2>7. d = StrTransmit(m, a, ok)
    BY <1>1, <1>5, <2>1 DEF StrPop
  <2> QED BY <1>1, <1>4, <2>2, <2>4, <2>5, <2>6, <2>7
<1>6. ASSUME r.sending = 0, r.retry = 0, r.str # <<>>
      PROVE  d.wild \/ Onward(r, d)
  <2>1. PICK a, p : a = Head(r.str) /\ p = [r EXCEPT !.str = Tail(@)]
    OBVIOUS
  <2>2. Else(p, r, {"str"}) /\ p.str = Tail(r.str) /\ p.sending = 0 /\ p.retry = 0
    BY <1>6, <2>1 DEF Typed, Else, Fields
  <2>3. /\ Typed(p) /\ Own(p, a) /\ Inst(p, a) /\ Walker(p, a) /\ a \in AtaskCells
        /\ Went(r, p) /\ p.atask = r.atask
    <3>1. "str" \in {"q", "str"} /\ r["str"] # <<>> /\ p["str"] = Tail(r["str"])
          /\ a = Head(r["str"])
      BY <1>6, <2>1, <2>2
    <3> QED BY <2>2, <3>1, PopOwn
  <2>4. CASE Serializes(r.atask[a].data)
    <3>1. PICK m, x : m = [p EXCEPT !.atask[a].data = x] /\ x = Unpacked(p.atask[a].data)
      OBVIOUS
    <3>2. /\ Typed(m) /\ Own(m, a) /\ Inst(m, a) /\ Went(p, m) /\ Walker(m, a)
          /\ Else(m, p, {"atask"})
      BY <2>3, <3>1, DataOwn
    <3>3. m.sending = 0 /\ m.retry = 0
      BY <2>2, <3>2 DEF Else, Fields
    <3>4. Went(r, m)
      BY <2>3, <3>2, WentOn
    <3>5. m = [p EXCEPT !.atask[a].data = Unpacked(@)]
      <4>1. DOMAIN p = Fields /\ DOMAIN p.atask = AtaskCells
            /\ DOMAIN p.atask[a] = {"busy", "t", "idx", "data"}
        BY <2>3 DEF Typed, AtasksOK, AtaskOK
      <4> QED BY <3>1, <4>1, <2>3 DEF Fields
    <3>6. d = StrTransmit(m, a, ok)
      BY <1>1, <1>6, <2>1, <2>4, <3>5 DEF StrPop
    <3> QED BY <1>4, <3>2, <3>3, <3>4, <3>6
  <2>5. CASE ~Serializes(r.atask[a].data)
    <3>1. PICK t, m, x : /\ t = TaskOf(r, a) /\ m = [p EXCEPT !.task[t].sendbusy = FALSE]
                         /\ x = ScheduleNext(m, a)
      OBVIOUS
    <3>2. t \in TaskCells
      BY <2>3, <3>1 DEF Walker, TaskOf
    <3>3. BusyKept(p, m, a)
      <4>1. m = WithBusy(p, t, FALSE)
        BY <3>1 DEF WithBusy
      <4>2. FALSE \in BOOLEAN
        OBVIOUS
      <4> QED BY ONLY <2>3, <3>2, <4>1, <4>2, BusyOwn
    <3>4. Typed(m) /\ Own(m, a) /\ Inst(m, a) /\ Went(p, m) /\ Walker(m, a)
      BY <2>3, <3>3 DEF BusyKept
    <3>5. Passed(m, x, a) /\ (Tally(m) => Tally(x))
      BY <3>1, <3>4, ScheduleNextOwn
    <3>6. Went(m, x) /\ Typed(x) /\ Own(x, 0) /\ Inst(x, 0)
      BY <3>4, <3>5, PassedWent DEF Passed
    <3>7. PICK e : e = [x EXCEPT !.strpop = TRUE]
      OBVIOUS
    <3>8. Else(e, x, {"strpop"}) /\ Else(e, x, Aside)
      BY <3>6, <3>7 DEF Typed, Else, Fields, Aside
    <3>9. Typed(e)
      BY <3>6, <3>8, TypeKept
    <3>10. Own(e, 0) /\ Inst(e, 0) /\ Went(x, e)
      BY <3>6, <3>8, <3>9, AsideOnward
    <3>11. Went(r, e)
      BY <2>3, <3>4, <3>6, <3>10, WentOn
    <3>12. d = e
      BY <1>1, <1>6, <2>1, <2>5, <3>1, <3>7 DEF StrPop
    <3> QED BY <3>9, <3>10, <3>11, <3>12 DEF Onward
  <2> QED BY <2>4, <2>5
<1>7. r.sending # 0 \/ (r.sending = 0 /\ r.retry = 0 /\ r.str = <<>>) => d = r
  BY <1>1 DEF StrPop
<1> QED BY <1>1, <1>3, <1>5, <1>6, <1>7

-----------------------------------------------------------------------------
(* What SendSTR keeps in m_sending_atask is of no concern to who deletes    *)
(* an active task, or schedules it.                                         *)
LEMMA DeleteBeside ==
  ASSUME NEW r, NEW m, NEW a \in AtaskCells, Typed(r), Typed(m), Else(m, r, {"sending"})
  PROVE  Else(AtaskDelete(m, a), AtaskDelete(r, a), {"sending"})
<1>1. PICK t : t = r.atask[a].t
  OBVIOUS
<1>2. PICK d, e : d = AtaskDelete(r, a) /\ e = AtaskDelete(m, a)
  OBVIOUS
<1>3. /\ m.atask = r.atask /\ m.task = r.task /\ m.count = r.count /\ a # 0
      /\ DOMAIN r = Fields /\ DOMAIN m = Fields
  BY CellTypes DEF Else, Fields, Typed
<1>4. CASE t = 0
  <2>1. /\ d = [r EXCEPT !.atask[a].busy = FALSE, !.atask[a].data = 0, !.count = @ - 1]
        /\ e = [m EXCEPT !.atask[a].busy = FALSE, !.atask[a].data = 0, !.count = @ - 1]
    BY <1>1, <1>2, <1>3, <1>4 DEF AtaskDelete
  <2>2. d.atask = e.atask /\ d.count = e.count
    BY <1>3, <2>1 DEF Fields
  <2>3. /\ DOMAIN d = Fields /\ DOMAIN e = Fields
        /\ \A f \in Fields \ {"atask", "count"} : d[f] = r[f] /\ e[f] = m[f]
    BY <1>3, <2>1
  <2> QED BY <1>2, <2>2, <2>3 DEF Else
<1>5. CASE t # 0
  <2>1. PICK x, z :
          /\ x = [r EXCEPT !.atask[a].busy = FALSE, !.atask[a].data = 0, !.count = @ - 1]
          /\ z = [m EXCEPT !.atask[a].busy = FALSE, !.atask[a].data = 0, !.count = @ - 1]
    OBVIOUS
  <2>2. x.atask = z.atask /\ x.count = z.count /\ x.task = z.task
    BY <1>3, <2>1 DEF Fields
  <2>3. /\ DOMAIN x = Fields /\ DOMAIN z = Fields
        /\ \A f \in Fields \ {"atask", "count"} : x[f] = r[f] /\ z[f] = m[f]
    BY <1>3, <2>1
  <2>4. d = [x EXCEPT !.task[t].atasks = @ - 1] /\ e = [z EXCEPT !.task[t].atasks = @ - 1]
    BY <1>1, <1>2, <1>3, <1>5, <2>1 DEF AtaskDelete
  <2>5. d.atask = e.atask /\ d.count = e.count /\ d.task = e.task
    BY <2>2, <2>3, <2>4 DEF Fields
  <2>6. /\ DOMAIN d = Fields /\ DOMAIN e = Fields
        /\ \A f \in Fields \ {"task"} : d[f] = x[f] /\ e[f] = z[f]
    BY <2>3, <2>4
  <2> QED BY <1>2, <2>3, <2>5, <2>6 DEF Else
<1> QED BY <1>4, <1>5

(* The last element of a chain is neither SendSTR nor a one-shot wait: these*)
(* let go of an active task after Schedule.next, and the last one ends it.  *)
LastLetsGo == \A id \in Ids : \A i \in 1 .. Len(Chain[id]) :
                Chain[id][i] \in {"str", "wait"} => i # Len(Chain[id])

(* A chain has one SendSTR at most: the element has one connection, and the *)
(* connection is that of the task.                                          *)
OneStr == \A id \in Ids : \A i, j \in 1 .. Len(Chain[id]) :
            Chain[id][i] = "str" /\ Chain[id][j] = "str" => i = j

(* From r to d a step has kept what SendSTR and the counts rest on.         *)
Stepped(r, d) ==
  /\ Typed(d) /\ Own(d, 0) /\ Inst(d, 0) /\ d.wild = r.wild
  /\ PendOK(r) => PendOK(d)
  /\ OneStr /\ Conns(r) => Conns(d)
  /\ OneStr /\ Conns(r) /\ Ours(r) => Ours(d)
  /\ Aimed(r) => Aimed(d)
  /\ LastLetsGo /\ Aimed(r) /\ Tally(r) => Tally(d)

(* To go on is to step.                                                     *)
LEMMA OnwardStepped ==
  ASSUME NEW r, NEW d, Onward(r, d)
  PROVE  Stepped(r, d)
BY DEF Onward, Stepped, Went, Most

(* The state S_SENDING is left, and what sends no longer counts as sending. *)
LEMMA DoneOwn ==
  ASSUME NEW r, NEW d, NEW a, NEW t, NEW c, Typed(r), Own(r, 0), Inst(r, 0), r.sending = a, a # 0,
         t = TaskOf(r, a), c \in {"none", "opening", "connected", "sending"},
         c = "none" <=> r.task[t].conn = "none",
         Else(d, r, {"task", "tx"}),
         d.task = [r.task EXCEPT ![t].sendbusy = FALSE, ![t].conn = c]
  PROVE  /\ Typed(d) /\ LinkKept(r, d, 0) /\ (Conns(r) => Conns(d))
         /\ a \in AtaskCells /\ t \in TaskCells /\ r.task[t].busy /\ Walker(r, a)
         /\ d.task[t].id = r.task[t].id
<1>1. a \in Put(r, "sending") /\ "sending" \in Places
  BY DEF Put, Queues, Places
<1>2. Walker(r, a) /\ a \in AtaskCells /\ t \in TaskCells /\ r.task[t].busy
  BY <1>1, PlacedWalks DEF Walker, TaskOf
<1>3. TasksOK(d.task)
  <2>1. PICK task : task = [r.task EXCEPT ![t].sendbusy = FALSE]
    OBVIOUS
  <2>2. r.task \in [TaskCells -> TaskRec]
    BY DEF Typed, TasksOK
  <2>3. TasksOK(task)
    BY <1>2, <2>1, TaskBusy DEF Typed
  <2>4. TasksOK([task EXCEPT ![t].conn = c])
    BY <1>2, <2>3, TaskFields, Zenon
  <2>5. d.task = [task EXCEPT ![t].conn = c]
    BY <1>2, <2>1, <2>2 DEF TaskRec
  <2> QED BY ONLY <2>4, <2>5, Zenon
<1>4. Typed(d)
  BY <1>3, TypeKept
<1>5. /\ \A u \in TaskCells : TaskKept(r, d, u) /\ d.task[u].atasks = r.task[u].atasks
      /\ \A u \in TaskCells : d.task[u].conn # "none" => r.task[u].conn # "none"
  <2>1. r.task \in [TaskCells -> TaskRec]
    BY DEF Typed, TasksOK
  <2> QED BY <1>2, <2>1 DEF TaskKept, TaskRec
<1>6. LinkKept(r, d, 0)
  <2>1. Else(d, r, Linked)
    BY DEF Else, Linked
  <2> QED BY <1>5, <2>1, LinkOwn
<1>7. Conns(r) => Conns(d)
  <2>1. d.conn = r.conn /\ d.seen = r.seen
    BY DEF Else, Fields
  <2>2. \A u \in TaskCells : /\ d.task[u].busy = r.task[u].busy /\ d.task[u].id = r.task[u].id
                             /\ d.task[u].conn # "none" => r.task[u].conn # "none"
    BY <1>5 DEF TaskKept
  <2> QED BY ONLY <2>1, <2>2 DEF Conns
<1> QED BY <1>2, <1>4, <1>5, <1>6, <1>7 DEF TaskKept

(* The walk of an active task goes one element on.                          *)
LEMMA OnOwn ==
  ASSUME NEW r, NEW a \in AtaskCells, NEW y, Typed(r), Own(r, y), Inst(r, y)
  PROVE  LET on == [r EXCEPT !.atask[a].idx = @ + 1]
         IN  /\ Typed(on) /\ Own(on, y) /\ Inst(on, y) /\ Else(on, r, {"atask"})
             /\ \A p \in Places : Put(on, p) = Put(r, p)
             /\ Moved(r, on, a) /\ (Tally(r) => Tally(on))
             /\ on.task = r.task /\ on.atask[a].t = r.atask[a].t
             /\ on.atask = [r.atask EXCEPT ![a].idx = @ + 1]
             /\ on.atask[a].idx = r.atask[a].idx + 1
             /\ (on.atask[a].busy <=> r.atask[a].busy)
<1>1. PICK on : on = [r EXCEPT !.atask[a].idx = @ + 1]
  OBVIOUS
<1>2. /\ Else(on, r, {"atask"}) /\ on.atask = [r.atask EXCEPT ![a].idx = @ + 1]
      /\ on.task = r.task
  BY <1>1 DEF Else, Fields, Typed
<1>3. AtasksOK(on.atask)
  <2>1. AtasksOK(r.atask)
    BY DEF Typed
  <2>2. AtasksOK([r.atask EXCEPT ![a].idx = @ + 1])
    BY <2>1, AtaskFields
  <2> QED BY <1>2, <2>2
<1>4. Typed(on)
  BY <1>2, <1>3, TypeKept
<1>5. /\ \A b \in AtaskCells : on.atask[b].t = r.atask[b].t
                                 /\ (on.atask[b].busy <=> r.atask[b].busy)
      /\ \A b \in AtaskCells : b # a => AtaskKept(r, on, b)
      /\ on.atask[a].idx = r.atask[a].idx + 1
  <2>1. DOMAIN r.atask = AtaskCells /\ DOMAIN r.atask[a] = {"busy", "t", "idx", "data"}
    BY DEF Typed, AtasksOK, AtaskOK
  <2> QED BY <1>2, <2>1 DEF AtaskKept
<1>6. \A u \in TaskCells : TaskKept(r, on, u) /\ on.task[u].atasks = r.task[u].atasks
  BY <1>2 DEF TaskKept
<1>7. /\ Own(on, y) /\ Inst(on, y)
      /\ \A p \in Places : Put(on, p) = Put(r, p)
      /\ Tally(r) => Tally(on)
      /\ PendOK(r) => PendOK(on)
      /\ on.wild = r.wild /\ on.seen = r.seen /\ on.tx = r.tx /\ on.conn = r.conn
  <2>1. {"atask"} \subseteq {"atask", "task"} \cup Aside
    OBVIOUS
  <2>2. Else(on, r, {"atask"})
    BY <1>2
  <2>3. /\ \A z : (Own(r, z) => Own(on, z)) /\ (Inst(r, z) => Inst(on, z))
        /\ \A p \in Places : Put(on, p) = Put(r, p)
        /\ Tally(r) => Tally(on)
        /\ PendOK(r) => PendOK(on)
        /\ on.wild = r.wild /\ on.seen = r.seen /\ on.tx = r.tx /\ on.conn = r.conn
    BY ONLY <1>5, <1>6, <2>1, <2>2, Typed(r), CellsSame
  <2> QED BY <2>3
<1>8. Moved(r, on, a)
  BY <1>2, <1>5, <1>7 DEF Moved, Conns, TaskKept
<1> QED BY <1>1, <1>2, <1>4, <1>5, <1>7, <1>8

-----------------------------------------------------------------------------
(* sendDone when the walk is not the last of its task, or goes on: it is as *)
(* if the active task had been let go first.                                *)
LEMMA DoneOn ==
  ASSUME NoPackets, NEW r, NEW a, NEW e, Typed(r), Own(r, 0), Inst(r, 0), r.sending = a,
         a \in AtaskCells, a # 0, Walker(r, a),
         \/ r.atask[a].idx + 1 <= Len(Chain[IdOf(r, TaskOf(r, a))])
         \/ r.task[TaskOf(r, a)].atasks # 1,
         e = [ScheduleNext(r, a) EXCEPT !.sending = 0, !.strpop = TRUE]
  PROVE  Onward(r, e)
<1>1. PICK t, m : t = TaskOf(r, a) /\ m = [r EXCEPT !.sending = 0]
  OBVIOUS
<1>2. /\ Else(m, r, {"sending"}) /\ m.sending = 0 /\ Else(m, r, {"sending"} \cup Aside)
      /\ m.atask = r.atask /\ m.task = r.task
      /\ t \in TaskCells /\ t # 0 /\ t = r.atask[a].t
  BY <1>1, CellTypes DEF Typed, Else, Fields, Walker, TaskOf
<1>3. Typed(m)
  BY <1>2, TypeKept
<1>4. /\ "sending" \in Places \ {"samp"} /\ "sending" \notin Queues
      /\ a \in Put(r, "sending") /\ Put(m, "sending") = Put(r, "sending") \ {a}
  BY <1>2 DEF Places, Queues, Put
<1>5. Own(m, a) /\ Inst(m, a) /\ Walker(m, a)
  BY <1>2, <1>4, Lose
<1>6. Went(r, m)
  BY <1>2, <1>3, <1>4, <1>5, LoseWent
<1>7. PICK x, y : x = ScheduleNext(r, a) /\ y = ScheduleNext(m, a)
  OBVIOUS
<1>8. Passed(m, y, a) /\ (Tally(m) => Tally(y))
  BY <1>3, <1>5, <1>7, ScheduleNextOwn
<1>9. Went(m, y) /\ Typed(y) /\ Own(y, 0) /\ Inst(y, 0)
  BY <1>3, <1>5, <1>8, PassedWent DEF Passed
<1>10. Else(y, x, {"sending"})
  <2>1. PICK o, n : o = [r EXCEPT !.atask[a].idx = @ + 1] /\ n = [m EXCEPT !.atask[a].idx = @ + 1]
    OBVIOUS
  <2>2. /\ Typed(o) /\ Else(o, r, {"atask"}) /\ o.atask = [r.atask EXCEPT ![a].idx = @ + 1]
        /\ o.atask[a].idx = r.atask[a].idx + 1
    BY <2>1, OnOwn, Zenon
  <2>3. /\ Typed(n) /\ Else(n, m, {"atask"}) /\ n.atask = [m.atask EXCEPT ![a].idx = @ + 1]
        /\ n.atask[a].idx = r.atask[a].idx + 1
    <3>1. /\ Typed(n) /\ Else(n, m, {"atask"}) /\ n.atask = [m.atask EXCEPT ![a].idx = @ + 1]
          /\ n.atask[a].idx = m.atask[a].idx + 1
      <4>1. Own(m, a) /\ Inst(m, a) /\ a \in AtaskCells
        BY <1>5
      <4> QED BY ONLY <1>3, <2>1, <4>1, OnOwn
    <3> QED BY <1>2, <3>1
  <2>4. Else(n, o, {"sending"}) /\ n.q = o.q
    <3>1. n.atask = o.atask
      BY <1>2, <2>2, <2>3
    <3> QED BY <1>2, <2>2, <2>3, <3>1 DEF Else, Fields
  <2>5. TaskOf(m, a) = t /\ IdOf(m, t) = IdOf(r, t)
    BY <1>1, <1>2 DEF TaskOf, IdOf
  <2>6. CASE r.atask[a].idx + 1 <= Len(Chain[IdOf(r, t)])
    <3>1. x = Schedule(o, a)
      BY <1>1, <1>2, <1>7, <2>1, <2>2, <2>6 DEF ScheduleNext
    <3>2. y = Schedule(n, a)
      BY <1>2, <1>7, <2>1, <2>3, <2>5, <2>6 DEF ScheduleNext
    <3>3. DOMAIN o = Fields /\ DOMAIN n = Fields
      BY <2>2, <2>3 DEF Typed
    <3>4. /\ x.q = y.q /\ x.posted = y.posted /\ DOMAIN x = Fields /\ DOMAIN y = Fields
          /\ \A f \in Fields \ {"q", "posted"} : x[f] = o[f] /\ y[f] = n[f]
      BY <2>4, <3>1, <3>2, <3>3 DEF Schedule, Fields
    <3> QED BY <2>4, <3>4 DEF Else
  <2>7. CASE ~(r.atask[a].idx + 1 <= Len(Chain[IdOf(r, t)]))
    <3>1. x = AtaskDelete(o, a)
      BY <1>1, <1>2, <1>7, <2>1, <2>2, <2>7 DEF ScheduleNext
    <3>2. y = AtaskDelete(n, a)
      BY <1>1, <1>2, <1>7, <2>1, <2>3, <2>5, <2>7 DEF ScheduleNext
    <3> QED BY <2>2, <2>3, <2>4, <3>1, <3>2, DeleteBeside
  <2> QED BY <2>6, <2>7
<1>11. Else(e, y, {"strpop"}) /\ Else(e, y, Aside)
  <2>1. DOMAIN x = Fields
    <3>1. a \in AtaskCells \cup {0}
      OBVIOUS
    <3>2. Goes(r, x)
      BY <1>7, <3>1, ScheduleNextGoes
    <3> QED BY <3>2 DEF Goes, Typed
  <2>2. e = [x EXCEPT !.sending = 0, !.strpop = TRUE]
    BY <1>7
  <2>3. e.sending = 0 /\ Else(e, x, {"sending", "strpop"})
    BY <2>1, <2>2 DEF Else, Fields
  <2>4. y.sending = 0
    <3>1. Put(y, "sending") = {} /\ y.sending \in AtaskCells \cup {0}
      BY <1>4, <1>8, <1>9, <1>2 DEF Passed, Put, Queues, Typed
    <3> QED BY <1>4, <3>1 DEF Put
  <2>5. Else(e, y, {"strpop"})
    BY <1>10, <2>3, <2>4 DEF Else
  <2> QED BY <2>5 DEF Else, Aside
<1>12. Typed(e)
  BY <1>9, <1>11, TypeKept
<1>13. Own(e, 0) /\ Inst(e, 0) /\ Went(y, e)
  BY <1>9, <1>11, <1>12, AsideOnward
<1> QED BY <1>6, <1>9, <1>12, <1>13, WentOn DEF Onward

(* sendDone when the task ends: SendSTR still has the active task, which    *)
(* the end of the task deletes, and is then deleted a second time.          *)
LEMMA DoneEnds ==
  ASSUME NoPackets, NEW r, NEW a, NEW e, Typed(r), Own(r, 0), Inst(r, 0), r.sending = a,
         a \in AtaskCells, a # 0, Walker(r, a),
         ~(r.atask[a].idx + 1 <= Len(Chain[IdOf(r, TaskOf(r, a))])),
         r.task[TaskOf(r, a)].atasks = 1,
         e = [ScheduleNext(r, a) EXCEPT !.sending = 0, !.strpop = TRUE]
  PROVE  /\ Typed(e) /\ Own(e, 0) /\ Inst(e, 0) /\ Most(r, e)
         /\ LastLetsGo => ~Aimed(r)
<1>1. PICK t, on : t = TaskOf(r, a) /\ on = [r EXCEPT !.atask[a].idx = @ + 1]
  OBVIOUS
<1>2. t \in TaskCells /\ t # 0 /\ t = r.atask[a].t /\ r.task[t].busy /\ r.atask[a].busy
  BY <1>1, CellTypes DEF Walker, TaskOf, BusyCells
<1>3. /\ Typed(on) /\ Own(on, 0) /\ Inst(on, 0)
      /\ \A p \in Places : Put(on, p) = Put(r, p)
      /\ Moved(r, on, a) /\ on.task = r.task /\ on.atask[a].t = t
      /\ on.atask[a].idx = r.atask[a].idx + 1 /\ on.atask[a].busy
  <2>1. /\ Typed(on) /\ Own(on, 0) /\ Inst(on, 0)
        /\ \A p \in Places : Put(on, p) = Put(r, p)
        /\ Moved(r, on, a) /\ on.task = r.task /\ on.atask[a].t = r.atask[a].t
        /\ on.atask[a].idx = r.atask[a].idx + 1 /\ (on.atask[a].busy <=> r.atask[a].busy)
    <3>1. a \in AtaskCells
      OBVIOUS
    <3> QED BY ONLY <1>1, <3>1, Typed(r), Own(r, 0), Inst(r, 0), OnOwn
  <2> QED BY <1>2, <2>1
<1>4. a \in Put(r, "sending") /\ "sending" \in Places /\ "sending" \in StrPlaces
  BY DEF Put, Places, Queues, StrPlaces
<1>5. PICK x : x = EndTask(on, a)
  OBVIOUS
<1>6. TaskOf(on, a) = t
  BY <1>3 DEF TaskOf
<1>7. /\ Typed(x) /\ Own(x, 0) /\ Inst(x, 0) /\ Moved(on, x, a) /\ Takes(on, x, t)
      /\ \A p \in Places : Put(x, p) \cap Walks(on, t) = {}
  <2>1. a \in BusyCells(on) /\ TaskOf(on, a) \in TaskCells /\ on.task[TaskOf(on, a)].busy
    BY <1>2, <1>3, <1>6 DEF BusyCells
  <2>2. \E p \in Places : a \in Put(on, p)
    BY <1>3, <1>4
  <2>3. /\ Typed(x) /\ Own(x, 0) /\ Inst(x, 0) /\ Moved(on, x, a)
        /\ Takes(on, x, TaskOf(on, a))
        /\ \A p \in Places : Put(x, p) \cap Walks(on, TaskOf(on, a)) = {}
    BY ONLY <1>3, <1>5, <2>1, <2>2, NoPackets, EndTaskOwn
  <2> QED BY <1>6, <2>3
<1>8. a \in Walks(on, t)
  BY <1>3 DEF Walks
<1>9. \A p \in Places : Put(x, p) \subseteq Put(r, p) \ {a}
  BY <1>3, <1>7, <1>8 DEF Takes
<1>10. x.sending = 0
  <2>1. Put(r, "sending") = {a} /\ Put(x, "sending") = {x.sending} \ {0}
    BY <1>4 DEF Put, Queues
  <2> QED BY <1>4, <1>9, <2>1
<1>11. Most(r, x)
  <2>1. Moved(r, x, a)
    BY <1>3, <1>7, MovedOn
  <2>2. \A p \in StrPlaces : Put(x, p) \subseteq Put(r, p) \ {a}
    BY <1>9 DEF StrPlaces, Places, Queues
  <2> QED BY <1>7, <2>1, <2>2, MovedMost
<1>12. ScheduleNext(r, a) = x
  BY <1>1, <1>2, <1>3, <1>5 DEF ScheduleNext
<1>13. Else(e, x, {"strpop"}) /\ Else(e, x, Aside)
  <2>1. DOMAIN x = Fields
    BY <1>7 DEF Typed
  <2>2. e = [x EXCEPT !.sending = 0, !.strpop = TRUE]
    BY <1>12
  <2> QED BY <1>10, <2>1, <2>2 DEF Else, Fields, Aside
<1>14. Typed(e)
  BY <1>7, <1>13, TypeKept
<1>15. Own(e, 0) /\ Inst(e, 0) /\ Went(x, e)
  BY <1>7, <1>13, <1>14, AsideOnward
<1>16. Most(r, e)
  BY <1>11, <1>15 DEF Went, Most
<1>17. LastLetsGo => ~Aimed(r)
  <2> SUFFICES ASSUME LastLetsGo, Aimed(r)
               PROVE  FALSE
    OBVIOUS
  <2>1. PICK id, i : id = r.task[t].id /\ i = r.atask[a].idx
    OBVIOUS
  <2>2. i <= Len(Chain[id]) /\ Chain[id][i] = "str"
    BY <1>2, <1>4, <2>1 DEF Aimed, IsAimed
  <2>3. id \in Ids /\ i \in Nat \ {0}
    BY <1>2, <2>1 DEF Typed, TasksOK, AtasksOK, AtaskOK
  <2>4. Chain[id] \in Seq(Kinds) /\ Len(Chain[id]) \in Nat
    BY <2>3, TaskCellsAssumption
  <2>5. i = Len(Chain[id])
    BY <1>1, <2>1, <2>2, <2>3, <2>4 DEF IdOf
  <2> QED BY <2>2, <2>3, <2>4, <2>5 DEF LastLetsGo
<1> QED BY <1>7, <1>14, <1>15, <1>16, <1>17

(* Send.sendDone of the stream transport.                                   *)
LEMMA StreamSentOwn ==
  ASSUME NoPackets, Held(s), StreamSent
  PROVE  Stepped(s, s')
<1>1. PICK a, w : a = s.sending /\ w = [s EXCEPT !.tx = 0]
  OBVIOUS
<1>2. s' = StrSendDone(w)
  BY <1>1 DEF StreamSent
<1>3. Typed(s) /\ Own(s, 0) /\ Inst(s, 0)
  BY DEF Held
<1>4. /\ Else(w, s, {"tx"}) /\ w.sending = a /\ w.atask = s.atask /\ w.task = s.task
      /\ DOMAIN w = Fields
  BY <1>1, <1>3 DEF Typed, Else, Fields
<1>5. PICK d : d = s'
  OBVIOUS
<1>6. CASE a = 0
  <2>1. d = [w EXCEPT !.strpop = TRUE]
    BY <1>2, <1>4, <1>5, <1>6 DEF StrSendDone
  <2>2. Else(d, s, {"tx", "strpop"}) /\ Else(d, s, Linked) /\ d.sending = 0
        /\ d.task = s.task /\ d.conn = s.conn /\ d.seen = s.seen
    BY <1>1, <1>3, <1>4, <1>6, <2>1 DEF Typed, Else, Fields, Linked, Aside
  <2>3. Typed(d)
    BY <1>3, <2>2, TypeKept
  <2>4. LinkKept(s, d, 0)
    BY <1>3, <2>2, LinkOwn DEF TaskKept
  <2>5. Conns(s) => Conns(d)
    BY <2>2 DEF Conns
  <2>6. Most(s, d)
    BY <2>2, <2>4, <2>5 DEF Most, LinkKept, Ours
  <2> QED BY <1>5, <2>3, <2>4, <2>6 DEF Stepped, LinkKept, Most
<1>7. CASE a # 0
  <2>1. PICK t, done, c :
          /\ t = TaskOf(s, a)
          /\ c = IF ElementThis(w, a) = "str" /\ s.task[t].conn = "sending"
                 THEN "connected" ELSE s.task[t].conn
          /\ done = [w EXCEPT !.task[t].sendbusy = FALSE,
                      !.task[t].conn = IF ElementThis(w, a) = "str" /\ @ = "sending"
                                       THEN "connected" ELSE @]
    OBVIOUS
  <2>2. s.sending = a /\ a \in AtaskCells /\ t \in TaskCells /\ t # 0
    <3>1. a \in Put(s, "sending") /\ "sending" \in Places
      BY <1>1, <1>7 DEF Put, Places, Queues
    <3>2. Walker(s, a) /\ a \in AtaskCells
      BY <1>3, <3>1, PlacedWalks
    <3>3. 0 \notin TaskCells
      BY DEF TaskCells
    <3>4. t \in TaskCells
      BY <2>1, <3>2 DEF Walker, TaskOf
    <3> QED BY <1>1, <3>2, <3>3, <3>4
  <2>3. c \in {"none", "opening", "connected", "sending"} /\ (c = "none" <=> s.task[t].conn = "none")
    BY <1>3, <2>1, <2>2 DEF Typed, TasksOK, TaskRec
  <2>4. /\ Else(done, s, {"task", "tx"})
        /\ done.task = [s.task EXCEPT ![t].sendbusy = FALSE, ![t].conn = c]
        /\ done.sending = a
    <3>1. s.task \in [TaskCells -> TaskRec]
      BY <1>3 DEF Typed, TasksOK
    <3> QED BY <1>4, <2>1, <2>2, <3>1 DEF Else, Fields, TaskRec
  <2>5. /\ Typed(done) /\ LinkKept(s, done, 0) /\ (Conns(s) => Conns(done))
        /\ Walker(s, a)
    <3>1. a # 0 /\ t = TaskOf(s, a)
      BY <1>7, <2>1
    <3> QED BY ONLY <1>3, <2>2, <2>3, <2>4, <3>1, DoneOwn
  <2>6. /\ Own(done, 0) /\ Inst(done, 0) /\ Walker(done, a) /\ done.wild = s.wild
        /\ (Tally(s) => Tally(done)) /\ (Aimed(s) => Aimed(done))
        /\ (PendOK(s) => PendOK(done))
    BY <2>5 DEF LinkKept
  <2>7. d = [ScheduleNext(done, a) EXCEPT !.sending = 0, !.strpop = TRUE]
    <3>1. TaskOf(w, a) = t
      BY <1>4, <2>1 DEF TaskOf
    <3> QED BY <1>2, <1>4, <1>5, <1>7, <2>1, <2>2, <3>1 DEF StrSendDone
  <2>8. /\ Typed(d) /\ Own(d, 0) /\ Inst(d, 0) /\ Most(done, d)
        /\ LastLetsGo /\ Aimed(done) /\ Tally(done) => Tally(d)
    <3>1. CASE \/ done.atask[a].idx + 1 <= Len(Chain[IdOf(done, TaskOf(done, a))])
               \/ done.task[TaskOf(done, a)].atasks # 1
      <4>1. Onward(done, d)
        BY ONLY <1>7, <2>2, <2>4, <2>5, <2>6, <2>7, <3>1, NoPackets, DoneOn
      <4> QED BY <4>1 DEF Onward, Went
    <3>2. CASE ~(\/ done.atask[a].idx + 1 <= Len(Chain[IdOf(done, TaskOf(done, a))])
                 \/ done.task[TaskOf(done, a)].atasks # 1)
      <4>1. /\ Typed(d) /\ Own(d, 0) /\ Inst(d, 0) /\ Most(done, d)
            /\ LastLetsGo => ~Aimed(done)
        BY ONLY <1>7, <2>2, <2>4, <2>5, <2>6, <2>7, <3>2, NoPackets, DoneEnds
      <4> QED BY <4>1
    <3> QED BY <3>1, <3>2
  <2>9. d.sending = 0
    <3>1. DOMAIN d = Fields
      BY <2>8 DEF Typed
    <3>2. "sending" \in DOMAIN ScheduleNext(done, a)
      BY <2>7, <3>1 DEF Fields
    <3> QED BY <2>7, <3>2
  <2>10. Most(s, d)
    BY <2>5, <2>6, <2>8, <2>9 DEF Most, Ours
  <2> QED BY <1>5, <2>6, <2>8, <2>10 DEF Stepped, Most
<1> QED BY <1>6, <1>7

-----------------------------------------------------------------------------
(* pop_and_send, whatever the transport answers.                            *)
LEMMA StrPopAndSendOwn ==
  ASSUME NoPackets, NEW oks, Held(s), StrPopAndSend(oks)
  PROVE  s'.wild \/ Onward(s, s')
<1>1. PICK ok \in oks, left \in BOOLEAN :
        s' \in {[x EXCEPT !.strpop = left \/ @] :
                  x \in {StrPop([s EXCEPT !.strpop = FALSE], ok)}}
  BY DEF StrPopAndSend
<1>2. PICK r : r = [s EXCEPT !.strpop = FALSE]
  OBVIOUS
<1>3. PICK x : x = StrPop(r, ok) /\ s' = [x EXCEPT !.strpop = left \/ @]
  BY ONLY <1>1, <1>2
<1>4. Else(r, s, {"strpop"}) /\ Else(r, s, Aside)
  BY <1>2 DEF Held, Typed, Else, Fields, Aside
<1>5. Typed(r)
  BY <1>4, TypeKept DEF Held
<1>6. Onward(s, r)
  BY <1>4, <1>5, AsideGoes
<1>7. x.wild \/ Onward(r, x)
  BY <1>3, <1>6, StrPopOwn DEF Onward
<1>8. Typed(x)
  BY <1>3, <1>5, StrPopTried DEF StrTried
<1>9. PICK d : d = s'
  OBVIOUS
<1>10. Else(d, x, {"strpop"}) /\ Else(d, x, Aside) /\ d.wild = x.wild
  BY <1>3, <1>8, <1>9 DEF Typed, Else, Fields, Aside
<1>11. Typed(d)
  BY <1>8, <1>10, TypeKept
<1>12. CASE x.wild
  BY <1>9, <1>10, <1>12
<1>13. CASE Onward(r, x)
  <2>1. Onward(s, x)
    BY <1>6, <1>13, OnwardOn
  <2>2. Held(x)
    BY <2>1, OnwardHeld
  <2>3. Onward(x, d)
    BY <1>10, <1>11, <2>2, AsideGoes
  <2> QED BY <1>9, <2>1, <2>3, OnwardOn
<1> QED BY <1>7, <1>12, <1>13

(* openDone: what the connections are said to be holds on.                  *)
LEMMA OpenedOwn ==
  ASSUME Held(s), Opened
  PROVE  Onward(s, s')
<1>1. PICK i \in 1 .. 2, success \in {TRUE, ~Faulty} :
        s.conn[i].st = "syn" /\ s' = StrOpenDone(s, i, success)
  BY DEF Opened
<1>2. PICK d : d = s'
  OBVIOUS
<1>3. Typed(s) /\ Own(s, 0) /\ Inst(s, 0) /\ DOMAIN s = Fields
  BY DEF Held, Typed
<1> DEFINE Mine(t) == success /\ s.task[t].busy /\ s.task[t].conn = "opening"
                        /\ IdOf(s, t) = s.conn[i].cid
           New(t) == IF Mine(t) THEN [s.task[t] EXCEPT !.conn = "connected", !.sendbusy = FALSE]
                     ELSE s.task[t]
<1> DEFINE Link == IF success THEN [s.conn[i] EXCEPT !.st = "active"] ELSE IdleConn
           Tasks == [t \in TaskCells |-> New(t)]
<1>11. PICK c, task : c = Link /\ task = Tasks
  OBVIOUS
<1>12. d = [s EXCEPT !.conn[i] = c, !.task = task, !.strpop = TRUE]
  BY <1>1, <1>2, <1>11 DEF StrOpenDone
<1>4. /\ d.task = task /\ d.conn = [s.conn EXCEPT ![i] = c]
      /\ Else(d, s, {"conn", "task", "strpop"})
  BY ONLY <1>12, <1>3 DEF Else, Fields
<1>5. Typed(d)
  BY <1>1, <1>2, <1>3, StrOpenDoneTried DEF StrTried
<1>6. ASSUME NEW u \in TaskCells
      PROVE  /\ TaskKept(s, d, u) /\ d.task[u].atasks = s.task[u].atasks
             /\ s.task[u].conn # "opening" => d.task[u].conn = s.task[u].conn
             /\ d.task[u].conn # "none" => s.task[u].conn # "none"
  <2>1. PICK v : v = s.task[u]
    OBVIOUS
  <2>2. v \in TaskRec
    BY <1>3, <2>1 DEF Typed, TasksOK
  <2>3. PICK w : w = [v EXCEPT !.conn = "connected", !.sendbusy = FALSE]
    OBVIOUS
  <2>4. /\ w.busy = v.busy /\ w.id = v.id /\ w.built = v.built /\ w.atasks = v.atasks
    BY <2>2, <2>3 DEF TaskRec
  <2>5. d.task[u] = v \/ (d.task[u] = w /\ v.conn = "opening")
    BY <1>4, <1>11, <2>1, <2>3
  <2> QED BY <2>1, <2>4, <2>5 DEF TaskKept
<1>7. LinkKept(s, d, 0)
  <2>1. Else(d, s, Linked)
    BY <1>4 DEF Else, Linked, Aside
  <2> QED BY <1>3, <1>6, <2>1, LinkOwn
<1>8. \A j \in 1 .. 2 : /\ d.conn[j].cid \in {s.conn[j].cid, 0}
                        /\ d.conn[j] = s.conn[j] \/ d.conn[j].st # "fin"
  <2>1. ASSUME NEW j \in 1 .. 2, d.conn[j] # s.conn[j]
        PROVE  d.conn[j].cid \in {s.conn[j].cid, 0} /\ d.conn[j].st # "fin"
    <3>1. j = i /\ d.conn[j] = IF success THEN [s.conn[j] EXCEPT !.st = "active"] ELSE IdleConn
      <4>1. j = i /\ d.conn[j] = c
        BY ONLY <1>4, <2>1
      <4> QED BY <1>11, <4>1
    <3>2. PICK v : v = [s.conn[j] EXCEPT !.st = "active"]
      OBVIOUS
    <3>3. v.cid = s.conn[j].cid /\ v.st \in {"active", s.conn[j].st}
      BY <3>2
    <3>4. s.conn[j].st # "fin"
      BY <1>1, <3>1
    <3>5. IdleConn.cid = 0 /\ IdleConn.st = "idle"
      BY DEF IdleConn
    <3> QED BY <3>1, <3>2, <3>3, <3>4, <3>5
  <2> QED BY <2>1
<1>9. Conns(s) => Conns(d)
  <2> SUFFICES ASSUME Conns(s)
               PROVE  Conns(d)
    OBVIOUS
  <2>1. d.seen = s.seen
    BY <1>4 DEF Else, Fields
  <2>2. \A t \in TaskCells : s.task[t].busy => s.task[t].id # 0
    BY <1>3, TaskCellsAssumption DEF Typed, TasksOK
  <2>3. \A t \in TaskCells : /\ d.task[t].busy = s.task[t].busy /\ d.task[t].id = s.task[t].id
                             /\ d.task[t].conn # "none" => s.task[t].conn # "none"
    BY <1>6 DEF TaskKept
  <2>4. /\ \A t, u \in TaskCells : d.task[t].busy /\ d.task[u].busy /\ d.task[t].id = d.task[u].id
                                     => t = u
        /\ \A t \in TaskCells : d.task[t].busy => d.task[t].id \in d.seen
    BY <2>1, <2>3 DEF Conns
  <2>5. \A j \in 1 .. 2 : d.conn[j].cid \in d.seen \cup {0}
    BY <1>8, <2>1 DEF Conns
  <2>6. \A t \in TaskCells, j \in 1 .. 2 :
          d.task[t].busy /\ d.task[t].conn # "none" /\ d.conn[j].cid = d.task[t].id
            => d.conn[j].st # "fin"
    BY <1>8, <2>2, <2>3 DEF Conns
  <2> QED BY <2>4, <2>5, <2>6 DEF Conns
<1>10. Ours(s) => Ours(d)
  <2> SUFFICES ASSUME Ours(s), d.sending # 0
               PROVE  /\ d.tx = IdOf(d, TaskOf(d, d.sending))
                      /\ d.task[TaskOf(d, d.sending)].conn = "sending"
    BY DEF Ours
  <2>1. d.sending = s.sending /\ d.tx = s.tx /\ d.atask = s.atask
    BY <1>4 DEF Else, Fields
  <2>2. TaskOf(s, s.sending) \in TaskCells
    <3>1. s.sending \in Put(s, "sending") /\ "sending" \in Places
      BY <2>1 DEF Put, Places, Queues
    <3> QED BY <1>3, <3>1, PlacedWalks DEF Walker, TaskOf
  <2>3. s.tx = IdOf(s, TaskOf(s, s.sending)) /\ s.task[TaskOf(s, s.sending)].conn = "sending"
    BY <2>1 DEF Ours
  <2>4. TaskOf(d, d.sending) = TaskOf(s, s.sending)
    BY <2>1 DEF TaskOf
  <2>5. PICK t \in TaskCells : t = TaskOf(s, s.sending)
    BY <2>2
  <2>6. d.task[t].conn = "sending" /\ d.task[t].id = s.task[t].id
    BY <1>6, <2>3, <2>5 DEF TaskKept
  <2> QED BY <2>1, <2>3, <2>4, <2>5, <2>6 DEF IdOf
<1> QED BY <1>2, <1>5, <1>7, <1>9, <1>10 DEF Onward, Went, Most, LinkKept

-----------------------------------------------------------------------------
(* A connection has been closed: it is of no task that sends.               *)
LEMMA ClosedOwn ==
  ASSUME Held(s), Closed
  PROVE  Stepped(s, s')
<1>1. PICK i \in 1 .. 2 :
        /\ s.conn[i].st = "fin"
        /\ s' = [s EXCEPT !.conn[i] = IdleConn, !.tx = IF @ = s.conn[i].cid THEN 0 ELSE @]
  BY DEF Closed
<1>2. PICK d : d = s'
  OBVIOUS
<1>3. Typed(s) /\ Own(s, 0) /\ Inst(s, 0) /\ DOMAIN s = Fields
  BY DEF Held, Typed
<1>4. /\ Else(d, s, {"conn", "tx"}) /\ d.conn = [s.conn EXCEPT ![i] = IdleConn]
      /\ d.tx = IF s.tx = s.conn[i].cid THEN 0 ELSE s.tx
  BY <1>1, <1>2, <1>3 DEF Else, Fields
<1>5. Typed(d)
  BY <1>3, <1>4, TypeKept
<1>6. d.task = s.task /\ d.atask = s.atask /\ d.sending = s.sending /\ d.seen = s.seen
  BY <1>4 DEF Else, Fields
<1>7. LinkKept(s, d, 0)
  <2>1. Else(d, s, Linked)
    BY <1>4 DEF Else, Linked
  <2> QED BY <1>3, <1>6, <2>1, LinkOwn DEF TaskKept
<1>8. \A j \in 1 .. 2 : d.conn[j] = s.conn[j] \/ (d.conn[j].cid = 0 /\ d.conn[j].st = "idle")
  <2>1. IdleConn.cid = 0 /\ IdleConn.st = "idle"
    BY DEF IdleConn
  <2>2. \A j \in 1 .. 2 : d.conn[j] = s.conn[j] \/ d.conn[j] = IdleConn
    BY <1>4
  <2> QED BY <2>1, <2>2
<1>9. Conns(s) => Conns(d)
  BY <1>6, <1>8 DEF Conns
<1>10. ASSUME Conns(s), Ours(s), s.sending # 0
       PROVE  d.tx = s.tx
  <2>1. PICK t : t = TaskOf(s, s.sending)
    OBVIOUS
  <2>2. t \in TaskCells /\ s.task[t].busy
    <3>1. s.sending \in Put(s, "sending") /\ "sending" \in Places
      BY <1>10 DEF Put, Places, Queues
    <3> QED BY <1>3, <2>1, <3>1, PlacedWalks DEF Walker, TaskOf
  <2>3. s.tx = s.task[t].id /\ s.task[t].conn = "sending"
    BY <1>10, <2>1 DEF Ours, IdOf
  <2>4. s.conn[i].cid # s.task[t].id
    BY <1>1, <1>10, <2>2, <2>3 DEF Conns
  <2> QED BY <1>4, <2>3, <2>4
<1>11. Conns(s) /\ Ours(s) => Ours(d)
  BY <1>6, <1>10 DEF Ours, IdOf, TaskOf
<1> QED BY <1>2, <1>5, <1>7, <1>9, <1>11 DEF Stepped, LinkKept

(* SendPkt has nothing to send but error reports.                           *)
LEMMA PktPopAndSendOwn ==
  ASSUME NEW oks, Held(s), PktPopAndSend(oks)
  PROVE  Onward(s, s')
<1>1. PICK ok \in oks, left \in BOOLEAN, room \in {TRUE, ~Scarce} :
        s' \in {[x EXCEPT !.pktpop = left \/ @] :
                  x \in {PktPop([s EXCEPT !.pktpop = FALSE], ok, room)}}
  BY DEF PktPopAndSend
<1>2. PICK r : r = [s EXCEPT !.pktpop = FALSE]
  OBVIOUS
<1>3. PICK x : x = PktPop(r, ok, room) /\ s' = [x EXCEPT !.pktpop = left \/ @]
  BY ONLY <1>1, <1>2
<1>4. /\ Else(r, s, {"sneak", "ptx", "pktpop"}) /\ DOMAIN r = Fields
      /\ r.pkt = <<>> /\ r.pretry = 0
  BY <1>2 DEF Held, Own, Plain, Typed, Else, Fields
<1>5. \/ x = r
      \/ x = [r EXCEPT !.sneak = "sending", !.ptx = @ \cup {<<r.sneakTid, "ack">>}]
      \/ x = [r EXCEPT !.pktpop = TRUE]
  BY <1>3, <1>4 DEF PktPop
<1>6. Else(x, s, {"sneak", "ptx", "pktpop"})
  <2>1. CASE x = r
    BY <1>4, <2>1
  <2>2. CASE x = [r EXCEPT !.sneak = "sending", !.ptx = @ \cup {<<r.sneakTid, "ack">>}]
    BY <1>4, <2>2 DEF Else, Fields
  <2>3. CASE x = [r EXCEPT !.pktpop = TRUE]
    BY <1>4, <2>3 DEF Else, Fields
  <2> QED BY <1>5, <2>1, <2>2, <2>3
<1>7. PICK d : d = s'
  OBVIOUS
<1>8. Else(d, s, {"sneak", "ptx", "pktpop"})
  <2>1. d = [x EXCEPT !.pktpop = left \/ @]
    BY <1>3, <1>7
  <2> QED BY <1>6, <2>1 DEF Else, Fields
<1>9. Typed(d)
  BY <1>8, TypeKept DEF Held
<1>10. Else(d, s, Aside)
  BY <1>8 DEF Else, Aside
<1> QED BY <1>7, <1>9, <1>10, AsideGoes

(* No packet is sent, where no element sends any.                           *)
LEMMA PacketSentOwn ==
  ASSUME Held(s), PacketSent
  PROVE  Onward(s, s')
<1>1. PICK p \in s.ptx : s' = PktSendDone([s EXCEPT !.ptx = @ \ {p}], p[1])
  BY DEF PacketSent
<1>2. PICK r : r = [s EXCEPT !.ptx = @ \ {p}]
  OBVIOUS
<1>3. /\ Else(r, s, {"ptx"}) /\ DOMAIN r = Fields /\ r.flight = <<>>
      /\ r.kill = s.kill /\ r.adc = s.adc /\ r.handle = s.handle
  BY <1>2 DEF Held, Own, Plain, Typed, Else, Fields
<1>4. Typed(r)
  BY <1>3, TypeKept DEF Held
<1>5. PICK d : d = s'
  OBVIOUS
<1>6. ItemsDone(r, p[1]) = r
  <2> DEFINE At(g, k) == IF k = 0 THEN r
                         ELSE IF r.flight[k].tid = p[1]
                         THEN ItemDone(g[k - 1], r.flight[k]) ELSE g[k - 1]
             Upto(g) == [k \in 0 .. 0 |-> At(g, k)]
             out == CHOOSE g : g = Upto(g)
  <2>1. PICK g : g = [k \in 0 .. 0 |-> r]
    OBVIOUS
  <2>2. g = Upto(g)
    BY <2>1
  <2>3. out = Upto(out)
    <3> HIDE DEF Upto
    <3> QED BY ONLY <2>2, Zenon
  <2>4. Len(r.flight) = 0
    BY <1>3
  <2> HIDE DEF out
  <2>5. ItemsDone(r, p[1]) = [out[0] EXCEPT !.flight = Only(@, {c \in Range(@) : c.tid # p[1]})]
    BY <2>4, Zenon DEF ItemsDone, out
  <2>6. out[0] = r
    BY <2>3
  <2>7. \A S : Only(r.flight, S) = <<>>
    <3>1. r.flight \in Seq(Items)
      BY <1>4 DEF Typed
    <3> QED BY <1>3, <3>1, OnlyIn
  <2>8. PICK S : S = {c \in Range(r.flight) : c.tid # p[1]}
    OBVIOUS
  <2>9. ItemsDone(r, p[1]) = [r EXCEPT !.flight = <<>>]
    BY <2>5, <2>6, <2>7, <2>8
  <2>10. PICK e : e = [r EXCEPT !.flight = <<>>]
    OBVIOUS
  <2>11. DOMAIN e = DOMAIN r /\ \A f \in DOMAIN r : e[f] = r[f]
    BY <1>3, <2>10
  <2>12. r = [f \in Fields |-> r[f]] /\ e = [f \in Fields |-> e[f]]
    BY <1>2, <1>3, <2>10, <2>11
  <2> QED BY <1>3, <2>9, <2>10, <2>11, <2>12
<1>7. d \in {[r EXCEPT !.sneak = "idle", !.pktpop = TRUE], [r EXCEPT !.pktpop = TRUE]}
  BY <1>1, <1>2, <1>5, <1>6 DEF PktSendDone
<1>8. Else(d, s, {"sneak", "ptx", "pktpop"})
  BY <1>3, <1>7 DEF Else, Fields
<1>9. Typed(d)
  BY <1>8, TypeKept DEF Held
<1>10. Else(d, s, Aside)
  BY <1>8 DEF Else, Aside
<1> QED BY <1>5, <1>9, <1>10, AsideGoes

(* kill_it, unless the task has ended meanwhile.                            *)
LEMMA KillItOwn ==
  ASSUME NoPackets, Held(s), KillIt
  PROVE  s'.wild \/ Onward(s, s')
<1>1. PICK t, x : t = s.kill /\ x = Destroy(s, t)
  OBVIOUS
<1>2. Typed(s) /\ Own(s, 0) /\ Inst(s, 0) /\ DOMAIN s = Fields /\ t \in TaskCells /\ t # 0
  BY <1>1 DEF Held, Typed, KillIt
<1>3. PICK d : d = s'
  OBVIOUS
<1>4. d = [x EXCEPT !.kill = 0]
  BY <1>1, <1>3 DEF KillIt
<1>5. CASE s.task[t].busy
  <2>1. Typed(x) /\ Own(x, 0) /\ Inst(x, 0) /\ Ended(s, x, t)
    BY <1>1, <1>2, <1>5, DestroyOwn
  <2>2. Went(s, x)
    <3>1. \A p \in StrPlaces : Put(x, p) \subseteq Put(s, p)
      BY <2>1 DEF Ended, StrPlaces, Places, Queues
    <3>2. Moved(s, x, 0) /\ (Tally(s) => Tally(x))
      BY <2>1, EndedMoves DEF Ended
    <3> QED BY <1>2, <2>1, <3>1, <3>2, StillWent
  <2>3. Else(d, x, {"kill"}) /\ Else(d, x, Aside) /\ d.kill = 0
    BY <1>4, <2>1 DEF Typed, Else, Fields, Aside
  <2>4. Typed(d)
    BY <2>1, <2>3, TypeKept
  <2>5. Own(d, 0) /\ Inst(d, 0) /\ Went(x, d)
    BY <2>1, <2>3, <2>4, AsideOnward
  <2> QED BY <1>3, <2>2, <2>4, <2>5, WentOn DEF Onward
<1>6. CASE ~s.task[t].busy
  <2>1. PICK y, z : y = RemoveTask(s, "q", t)
                    /\ z = [y EXCEPT !.installed = Only(@, TaskCells \ {t})]
    OBVIOUS
  <2>2. Typed(y) /\ Cut(s, y, t)
    <3>1. "q" \in Queues
      BY DEF Queues
    <3> QED BY <1>2, <2>1, <3>1, CutRemove
  <2>3. z.task = y.task /\ DOMAIN z = Fields
    BY <2>1, <2>2 DEF Typed, Fields
  <2>4. ~z.task[t].busy
    BY <1>2, <1>6, <2>2, <2>3 DEF Cut, TaskKept
  <2>5. x = Wild(z)
    BY <1>1, <1>2, <2>1, <2>4, Zenon DEF Destroy, TaskDelete
  <2>6. d.wild
    BY <1>4, <2>3, <2>5 DEF Wild, Fields
  <2> QED BY <1>3, <2>6
<1> QED BY <1>5, <1>6

-----------------------------------------------------------------------------
(* The scheduler.                                                           *)

(* An active task that has come to an element clears what the element uses. *)
LEMMA ElementUses ==
  ASSUME NEW r, NEW a, Typed(r), Walker(r, a), ElementThis(r, a) # "none"
  PROVE  /\ \A p : ElementThis(r, a) \in Uses(p) => Clears(r, r.atask[a].t, p)
         /\ ElementThis(r, a) = "str" => IsAimed(r, a)
         /\ NoPackets => ElementThis(r, a) \notin {"pkt", "be"}
<1>1. PICK t, id, i, kind : /\ t = r.atask[a].t /\ id = r.task[t].id /\ i = r.atask[a].idx
                            /\ kind = ElementThis(r, a)
  OBVIOUS
<1>2. a \in AtaskCells /\ t \in TaskCells /\ r.task[t].busy
  BY <1>1 DEF Walker, BusyCells
<1>3. /\ id \in Ids /\ i \in 1 .. Len(Chain[id]) /\ kind = Chain[id][i]
  <2>1. /\ IdOf(r, TaskOf(r, a)) \in Ids
        /\ r.atask[a].idx \in 1 .. Len(Chain[IdOf(r, TaskOf(r, a))])
        /\ ElementThis(r, a) = Chain[IdOf(r, TaskOf(r, a))][r.atask[a].idx]
    <3>1. ElementThis(r, a) # "none"
      OBVIOUS
    <3> QED BY ONLY <1>2, <3>1, Typed(r), ElementIs, Zenon
  <2> QED BY <1>1, <2>1 DEF IdOf, TaskOf
<1>4. i \in 1 .. r.task[t].built
  <2>1. ~(i > r.task[t].built)
    BY <1>1, <1>2 DEF ElementThis
  <2>2. r.task[t].built \in Nat
    BY <1>2 DEF Typed, TasksOK, TaskRec
  <2> QED BY <1>3, <2>1, <2>2
<1>5. Chain[id] \in Seq(Kinds) /\ Len(Chain[id]) \in Nat
  BY <1>3, TaskCellsAssumption
<1>6. \A p : kind \in Uses(p) => Clears(r, t, p)
  BY <1>1, <1>2, <1>3, <1>4, Zenon DEF Clears
<1>7. kind = "str" => IsAimed(r, a)
  BY <1>1, <1>3, <1>5 DEF IsAimed
<1>8. NoPackets => kind \notin {"pkt", "be"}
  <2>1. kind \in Range(Chain[id])
    BY <1>3, <1>5 DEF Range
  <2> QED BY <1>3, <2>1 DEF NoPackets
<1> QED BY <1>1, <1>6, <1>7, <1>8

(* TaskError.kill.                                                          *)
LEMMA KillBeside ==
  ASSUME NEW r, NEW y, NEW t \in TaskCells \cup {0}, Typed(r), Own(r, y), Inst(r, y)
  PROVE  LET d == Kill(r, t)
         IN  /\ Typed(d) /\ Own(d, y) /\ Inst(d, y) /\ Went(r, d) /\ Else(d, r, Aside)
             /\ \A a : Walker(r, a) => Walker(d, a)
<1>1. PICK d : d = Kill(r, t)
  OBVIOUS
<1>2. Typed(d)
  BY <1>1, KillGoes DEF Goes
<1>3. Else(d, r, Aside)
  <2>1. DOMAIN r = Fields
    BY DEF Typed
  <2>2. Else(Report(r, t), r, Aside)
    BY ReportOwn
  <2>3. CASE t = 0
    BY <1>1, <2>1, <2>3 DEF Kill, Else
  <2>4. CASE t # 0
    <3>1. PICK x : x = Report(r, t)
      OBVIOUS
    <3>2. d = [x EXCEPT !.kill = IF @ = 0 THEN t ELSE @]
      BY <1>1, <2>4, <3>1 DEF Kill
    <3> QED BY <2>2, <3>1, <3>2 DEF Else, Fields, Aside
  <2> QED BY <2>3, <2>4
<1>4. Own(d, y) /\ Inst(d, y) /\ Went(r, d) /\ \A a : Walker(r, a) => Walker(d, a)
  BY <1>2, <1>3, AsideOnward
<1> QED BY <1>1, <1>2, <1>3, <1>4

(* What the scheduler does with an active task that an element let go.      *)
LEMMA LetGo ==
  ASSUME NoPackets, NEW r, NEW d, NEW a, Typed(d), Own(d, a), Inst(d, a), Walker(d, a),
         Went(r, d)
  PROVE  Onward(r, ScheduleNext(d, a)) /\ Onward(r, AtaskDelete(d, a))
         /\ Onward(r, EndTask(d, a))
<1>1. \A p \in StrPlaces : p \in Places /\ a \notin Put(d, p)
  BY DEF StrPlaces, Places, Queues, Own, Tended
<1>2. a \in BusyCells(d) /\ TaskOf(d, a) \in TaskCells /\ d.task[TaskOf(d, a)].busy
  BY DEF Walker, TaskOf
<1>3. Onward(r, ScheduleNext(d, a))
  <2>1. PICK e : e = ScheduleNext(d, a)
    OBVIOUS
  <2>2. Passed(d, e, a) /\ (Tally(d) => Tally(e))
    BY <2>1, ScheduleNextOwn
  <2>3. Went(d, e)
    BY <2>2, PassedWent
  <2> QED BY <2>1, <2>2, <2>3, WentOn DEF Onward, Passed
<1>4. Onward(r, AtaskDelete(d, a))
  <2>1. PICK e : e = AtaskDelete(d, a)
    OBVIOUS
  <2>2. /\ Typed(e) /\ Own(e, 0) /\ Inst(e, 0) /\ Moved(d, e, a)
        /\ \A p \in Places : Put(e, p) = Put(d, p)
        /\ Tally(d) => Tally(e)
    BY <1>2, <2>1, DeleteOwn
  <2>3. Went(d, e)
    <3>1. \A p \in StrPlaces : Put(e, p) \subseteq Put(d, p) \ {a}
      BY <1>1, <2>2
    <3> QED BY <2>2, <3>1, MovedWent
  <2> QED BY <2>1, <2>2, <2>3, WentOn DEF Onward
<1>5. Onward(r, EndTask(d, a))
  <2>1. PICK e : e = EndTask(d, a)
    OBVIOUS
  <2>2. /\ Typed(e) /\ Own(e, 0) /\ Inst(e, 0) /\ Moved(d, e, a)
        /\ Takes(d, e, TaskOf(d, a))
        /\ Tally(d) => Tally(e)
    <3>1. /\ Typed(e) /\ Own(e, 0) /\ Inst(e, 0) /\ Moved(d, e, a)
          /\ Takes(d, e, TaskOf(d, a))
          /\ Own(d, a) /\ Tally(d) => Tally(e)
      BY ONLY <1>2, <2>1, NoPackets, Typed(d), Own(d, a), Inst(d, a), EndTaskOwn
    <3> QED BY <3>1
  <2>3. Went(d, e)
    <3>1. \A p \in StrPlaces : Put(e, p) \subseteq Put(d, p) \ {a}
      BY <1>1, <2>2 DEF Takes
    <3> QED BY <2>2, <3>1, MovedWent
  <2> QED BY <2>1, <2>2, <2>3, WentOn DEF Onward
<1> QED BY <1>3, <1>4, <1>5

(* What the element does that run_task calls, and run_task itself.          *)
LEMMA RanOwn ==
  ASSUME NoPackets, NEW r, NEW a, NEW o \in RunElement(r, a), Typed(r), Own(r, a), Inst(r, a),
         Walker(r, a), ElementThis(r, a) # "none"
  PROVE  LET x == Ran(o, a) IN (Typed(x) /\ x.wild) \/ Onward(r, x)
<1>1. PICK t, kind : t = TaskOf(r, a) /\ kind = ElementThis(r, a)
  OBVIOUS
<1>2. a \in AtaskCells /\ t \in TaskCells
  BY <1>1 DEF Walker, BusyCells, TaskOf
<1>3. ASSUME NEW d, NEW act \in {"next", "terminate", "tkill"}, Typed(d), Own(d, a), Inst(d, a),
             Walker(d, a), Went(r, d), o = Outcome(d, act)
      PROVE  Onward(r, Ran(o, a))
  <2>1. o.s = d /\ o.action = act
    BY <1>3 DEF Outcome
  <2>2. Onward(r, ScheduleNext(d, a)) /\ Onward(r, AtaskDelete(d, a)) /\ Onward(r, EndTask(d, a))
    BY ONLY <1>3, NoPackets, LetGo
  <2>3. Ran(o, a) \in {ScheduleNext(d, a), AtaskDelete(d, a), EndTask(d, a)}
    BY <1>3, <2>1 DEF Ran
  <2> QED BY <2>2, <2>3
<1>4. ASSUME NEW d, Onward(r, d), o = Outcome(d, "stop")
      PROVE  Onward(r, Ran(o, a))
  BY <1>4 DEF Outcome, Ran
<1>5. Went(r, r)
  BY WentNone
<1>6. CASE o \in {Killed(r, a), Outcome(r, "next"), Outcome(r, "terminate"), Outcome(r, "tkill"),
                  Outcome(Report(r, t), "next")}
  <2>1. CASE o \in {Outcome(r, "next"), Outcome(r, "terminate"), Outcome(r, "tkill")}
    BY <1>3, <1>5, <2>1
  <2>2. CASE o = Killed(r, a)
    <3>1. PICK d : d = Kill(r, t)
      OBVIOUS
    <3>2. Typed(d) /\ Own(d, a) /\ Inst(d, a) /\ Went(r, d) /\ Walker(d, a)
      BY <1>2, <3>1, KillBeside
    <3>3. o = Outcome(d, "terminate")
      BY <1>1, <2>2, <3>1 DEF Killed
    <3> QED BY <1>3, <3>2, <3>3
  <2>3. CASE o = Outcome(Report(r, t), "next")
    <3>1. PICK d : d = Report(r, t)
      OBVIOUS
    <3>2. Typed(d) /\ Own(d, a) /\ Inst(d, a) /\ Went(r, d) /\ Walker(d, a)
      BY <3>1, ReportOwn
    <3> QED BY <1>3, <2>3, <3>1, <3>2
  <2> QED BY <1>6, <2>1, <2>2, <2>3
<1>7. CASE kind \in {"wait", "every"} /\ \E due : o = Outcome(IssueRun(r, a, due), "stop")
  <2>1. PICK due : o = Outcome(IssueRun(r, a, due), "stop")
    BY <1>7
  <2>2. Clears(r, r.atask[a].t, "timers")
    BY <1>1, <1>7, ElementUses DEF Uses
  <2>3. PICK d : d = IssueRun(r, a, due)
    OBVIOUS
  <2>4. (Typed(d) /\ d.wild) \/ Onward(r, d)
    BY <2>2, <2>3, IssueRunOwn
  <2>5. Ran(o, a) = d
    BY <2>1, <2>3 DEF Outcome, Ran
  <2> QED BY <2>4, <2>5
<1>8. CASE kind \in {"sample", "repeat"} /\ \E ok : o = Outcome(SampleRun(r, a, ok), "stop")
  <2>1. PICK ok : o = Outcome(SampleRun(r, a, ok), "stop")
    BY <1>8
  <2>2. Clears(r, r.atask[a].t, "samp")
    BY <1>1, <1>8, ElementUses DEF Uses
  <2>3. Onward(r, SampleRun(r, a, ok))
    BY <2>2, SampleRunOwn
  <2> QED BY <1>4, <2>1, <2>3
<1>9. CASE \E x : o = Outcome([r EXCEPT !.atask[a].data = x], "next")
  <2>1. PICK x : o = Outcome([r EXCEPT !.atask[a].data = x], "next")
    BY <1>9
  <2>2. PICK d : d = [r EXCEPT !.atask[a].data = x]
    OBVIOUS
  <2>3. Typed(d) /\ Own(d, a) /\ Inst(d, a) /\ Went(r, d) /\ Walker(d, a)
    BY <1>2, <2>2, DataOwn
  <2> QED BY <1>3, <2>1, <2>2, <2>3
<1>10. CASE kind = "str" /\ o = Outcome(StrQueue(r, a), "stop")
  <2>1. Clears(r, r.atask[a].t, "str") /\ IsAimed(r, a)
    BY <1>1, <1>10, ElementUses DEF Uses
  <2>2. Onward(r, StrQueue(r, a))
    BY <2>1, StrQueueOwn
  <2> QED BY <1>4, <1>10, <2>2
<1>11. kind \notin {"pkt", "be"}
  BY <1>1, ElementUses
<1>12. \/ o \in {Killed(r, a), Outcome(r, "next"), Outcome(r, "terminate"), Outcome(r, "tkill"),
                 Outcome(Report(r, t), "next")}
       \/ kind \in {"wait", "every"} /\ \E due : o = Outcome(IssueRun(r, a, due), "stop")
       \/ kind \in {"sample", "repeat"} /\ \E ok : o = Outcome(SampleRun(r, a, ok), "stop")
       \/ \E x : o = Outcome([r EXCEPT !.atask[a].data = x], "next")
       \/ kind = "str" /\ o = Outcome(StrQueue(r, a), "stop")
  <2>1. CASE kind \in {"wait", "every"}
    <3>1. o \in {Outcome(IssueRun(r, a, due), "stop") :
                   due \in {d \in SUBSET Range(r.timers) : Scarce \/ Roomy(r, d)}}
            \/ o = Killed(r, a)
      BY <1>1, <2>1 DEF RunElement
    <3> QED BY ONLY <2>1, <3>1
  <2>2. CASE kind \in {"sample", "repeat"}
    <3>1. o \in {Outcome(SampleRun(r, a, ok), "stop") : ok \in AdcAccepts(r)}
            \/ o = Outcome(Report(r, t), "next")
      BY <1>1, <2>2 DEF RunElement
    <3> QED BY ONLY <2>2, <3>1
  <2>3. CASE kind = "count"
    <3>1. o \in {Outcome([r EXCEPT !.atask[a].data = Load[IdOf(r, t)]], "next")}
      BY <1>1, <2>3 DEF RunElement
    <3> QED BY ONLY <3>1
  <2>4. CASE kind = "str"
    <3>1. o \in {Outcome(r, "next"), Outcome(StrQueue(r, a), "stop")}
      BY <1>1, <2>4 DEF RunElement
    <3> QED BY ONLY <2>4, <3>1
  <2>5. CASE kind \notin {"wait", "every", "sample", "repeat", "count", "str"}
    <3>1. o \in {Killed(r, a), Outcome(r, "next"), Outcome(r, "terminate"), Outcome(r, "tkill")}
      BY <1>1, <1>11, <2>5 DEF RunElement
    <3> QED BY ONLY <3>1
  <2> QED BY <2>1, <2>2, <2>3, <2>4, <2>5
<1> QED BY <1>6, <1>7, <1>8, <1>9, <1>10, <1>12

LEMMA RunOwn ==
  ASSUME NoPackets, Held(s), Run
  PROVE  s'.wild \/ Onward(s, s')
<1>1. Typed(s) /\ Own(s, 0) /\ Inst(s, 0)
  BY DEF Held
<1>2. PICK e : e = s'
  OBVIOUS
<1>3. ASSUME NEW x, NEW b, Typed(x), Own(x, 0), Inst(x, 0), e = [x EXCEPT !.posted = b]
      PROVE  Onward(x, e)
  <2>1. Else(e, x, {"posted"}) /\ Else(e, x, Aside)
    BY <1>3 DEF Typed, Else, Fields, Aside
  <2>2. Typed(e)
    BY <1>3, <2>1, TypeKept
  <2> QED BY <1>3, <2>1, <2>2, AsideOnward DEF Onward
<1>4. CASE s.q = <<>>
  <2>1. e = [s EXCEPT !.posted = FALSE]
    BY <1>2, <1>4, Zenon DEF Run
  <2> QED BY <1>1, <1>2, <1>3, <2>1
<1>5. CASE s.q # <<>> /\ ElementThis(s, Head(s.q)) = "none"
  <2>1. e = Wild(s)
    BY <1>2, <1>5 DEF Run
  <2>2. e.wild
    BY <1>1, <2>1 DEF Wild, Typed, Fields
  <2> QED BY <1>2, <2>2
<1>6. CASE s.q # <<>> /\ ElementThis(s, Head(s.q)) # "none"
  <2>1. PICK a, popped : a = Head(s.q) /\ popped = [s EXCEPT !.q = Tail(@)]
    OBVIOUS
  <2>2. Else(popped, s, {"q"}) /\ popped.q = Tail(s.q)
    BY <1>1, <2>1 DEF Typed, Else, Fields
  <2>3. /\ Typed(popped) /\ Own(popped, a) /\ Inst(popped, a) /\ Walker(popped, a)
        /\ Went(s, popped) /\ popped.atask = s.atask /\ popped.task = s.task
    <3>1. "q" \in {"q", "str"} /\ s["q"] # <<>> /\ popped["q"] = Tail(s["q"])
          /\ a = Head(s["q"])
      BY <1>6, <2>1, <2>2
    <3> QED BY <1>1, <2>2, <3>1, PopOwn
  <2>4. ElementThis(popped, a) # "none"
    BY <1>6, <2>1, <2>3, Zenon DEF ElementThis
  <2>5. PICK o \in RunElement(popped, a) :
          s' \in {[x EXCEPT !.posted = x.q # <<>>] : x \in {Ran(o, a)}}
    BY <1>6, <2>1 DEF Run
  <2>6. PICK x, b : x = Ran(o, a) /\ b = (x.q # <<>>) /\ s' = [x EXCEPT !.posted = x.q # <<>>]
    BY ONLY <2>5
  <2>7. (Typed(x) /\ x.wild) \/ Onward(popped, x)
    BY <2>3, <2>4, <2>6, RanOwn
  <2>8. CASE Typed(x) /\ x.wild
    <3>1. e = [x EXCEPT !.posted = b]
      BY <1>2, <2>6
    <3>2. e.wild
      BY <2>8, <3>1 DEF Typed, Fields
    <3> QED BY <1>2, <3>2
  <2>9. CASE Onward(popped, x)
    <3>1. Onward(x, e)
      BY <1>2, <1>3, <2>6, <2>9 DEF Onward
    <3> QED BY <1>2, <2>3, <2>9, <3>1, WentOn DEF Onward
  <2> QED BY <2>7, <2>8, <2>9
<1> QED BY <1>4, <1>5, <1>6

(* What is there when a task v of the id has been built in cell t, and has  *)
(* opened a connection if it has a SendSTR.                                 *)
Built(r, d, t, v, id) ==
  /\ Else(d, r, {"seen", "task", "conn"})
  /\ d.task = [r.task EXCEPT ![t] = v]
  /\ d.seen = r.seen \cup {id}
  /\ v.busy /\ v.id = id /\ v.atasks = 0
Linking(r, d, v, id) ==
  \/ d.conn = r.conn /\ v.conn = "none"
  \/ \E i \in 1 .. 2 : d.conn = [r.conn EXCEPT ![i] = [cid |-> id, st |-> "syn"]]

(* Nobody walks a task in a cell that is free.                              *)
LEMMA BuiltOwn ==
  ASSUME NEW r, NEW d, NEW t \in TaskCells, NEW v, NEW id \in Ids, Typed(r), Own(r, 0),
         Inst(r, 0), Typed(d), ~r.task[t].busy, id \notin r.seen, Built(r, d, t, v, id)
  PROVE  /\ Own(d, 0) /\ Inst(d, 0) /\ d.wild = r.wild /\ Walking(d, t) = {}
         /\ d.task[t].busy /\ d.task[t].atasks = 0 /\ t \notin Range(d.installed)
         /\ PendOK(r) => PendOK(d)
         /\ Linking(r, d, v, id) /\ Conns(r) => Conns(d)
         /\ Ours(r) => Ours(d)
         /\ Aimed(r) => Aimed(d)
         /\ Tally(r) => Tally(d)
<1>1. \A p \in Places : Put(d, p) = Put(r, p) /\ d[p] = r[p]
  <2>1. \A p \in Places : p \notin {"seen", "task", "conn"}
    BY DEF Places, Queues
  <2> QED BY <2>1, PutSame DEF Built
<1>2. \A f \in Fields : f \notin {"seen", "task", "conn"} => d[f] = r[f]
  BY DEF Else, Built
<1>3. /\ d.installed = r.installed /\ d.wild = r.wild /\ d.tx = r.tx /\ d.atask = r.atask
      /\ d.full = r.full /\ d.pkt = r.pkt /\ d.pretry = r.pretry /\ d.count = r.count
      /\ d.flight = r.flight /\ d.pend = r.pend /\ d.samp = r.samp
  BY <1>2 DEF Fields
<1>4. \A u \in TaskCells : u # t => d.task[u] = r.task[u]
  BY DEF Built
<1>5. d.task[t] = v
  <2>1. DOMAIN r.task = TaskCells
    BY DEF Typed, TasksOK
  <2> QED BY <2>1 DEF Built
<1>6. BusyCells(d) = BusyCells(r) /\ \A u : Walking(d, u) = Walking(r, u)
  BY <1>3 DEF BusyCells, Walking
<1>7. \A p \in Places : \A b \in Put(r, p) :
        /\ b # 0 /\ r.atask[b].busy /\ Clears(r, r.atask[b].t, p)
        /\ r.atask[b].t \in TaskCells /\ r.atask[b].t # t
  BY DEF Own, Tended, Clears
<1>8. \A b \in BusyCells(r) : \E p \in Places : b \in Put(r, p)
  <2>1. \A b \in BusyCells(r) : b # 0
    BY CellTypes DEF BusyCells
  <2> QED BY <2>1 DEF Own, Tended
<1>9. Walking(r, t) = {}
  BY <1>7, <1>8 DEF Walking
<1>10. Apart(d) /\ Plain(d)
  BY <1>1, <1>3 DEF Own, Apart, Plain, Places
<1>11. Tended(d, 0)
  <2>1. ASSUME NEW p \in Places, NEW b \in Put(d, p)
        PROVE  b # 0 /\ d.atask[b].busy /\ Clears(d, d.atask[b].t, p)
    <3>1. b # 0 /\ r.atask[b].busy /\ Clears(r, r.atask[b].t, p) /\ r.atask[b].t # t
      BY <1>1, <1>7
    <3> QED BY <1>3, <1>4, <3>1 DEF Clears
  <2> QED BY <1>1, <1>6, <1>8, <2>1 DEF Tended
<1>12. Exact(d)
  <2>1. ASSUME NEW u \in TaskCells, d.task[u].busy
        PROVE  d.task[u].atasks = Cardinality(Walking(d, u))
    <3>1. CASE u = t
      <4>1. Walking(d, u) = {}
        BY <1>6, <1>9, <3>1
      <4>2. d.task[u].atasks = 0
        BY <1>5, <3>1 DEF Built
      <4>3. Cardinality({}) = 0
        BY FS_EmptySet
      <4> QED BY ONLY <4>1, <4>2, <4>3
    <3>2. CASE u # t
      <4>1. d.task[u] = r.task[u]
        BY <1>4, <3>2
      <4>2. r.task[u].atasks = Cardinality(Walking(r, u))
        BY <2>1, <4>1 DEF Own, Exact
      <4> QED BY <1>6, <4>1, <4>2
    <3> QED BY <3>1, <3>2
  <2> QED BY <2>1 DEF Exact
<1>13. Own(d, 0)
  BY <1>10, <1>11, <1>12 DEF Own
<1>14. t \notin Range(r.installed)
  BY DEF Inst
<1>15. Inst(d, 0)
  <2>1. \A u \in Range(r.installed) : u \in TaskCells /\ d.task[u].busy
    <3>1. \A u \in Range(r.installed) : u \in TaskCells /\ u # t /\ r.task[u].busy
      <4>1. r.installed \in Seq(TaskCells)
        BY DEF Typed
      <4>2. Range(r.installed) \subseteq TaskCells
        BY <4>1 DEF Range
      <4> QED BY <1>14, <4>2 DEF Inst
    <3> QED BY <1>4, <3>1
  <2> QED BY <1>3, <1>6, <2>1 DEF Inst
<1>16. PendOK(r) => PendOK(d)
  BY <1>3, PendSame
<1>17. ASSUME Linking(r, d, v, id), Conns(r)
       PROVE  Conns(d)
  <2>1. d.seen = r.seen \cup {id} /\ v.busy /\ v.id = id
    BY DEF Built
  <2>2. \A u \in TaskCells : u # t /\ d.task[u].busy =>
          r.task[u].busy /\ d.task[u].id = r.task[u].id /\ r.task[u].id \in r.seen
                         /\ r.task[u].id # id
    BY <1>4, <1>17 DEF Conns
  <2>3. \A i \in 1 .. 2 : r.conn[i].cid \in r.seen \cup {0} /\ r.conn[i].cid # id
    <3>1. id # 0
      BY TaskCellsAssumption
    <3> QED BY <1>17, <3>1 DEF Conns
  <2>4. \A i \in 1 .. 2 : d.conn[i] = r.conn[i] \/ (d.conn[i].cid = id /\ d.conn[i].st = "syn")
    <3>1. CASE d.conn = r.conn
      BY <3>1
    <3>2. CASE \E i \in 1 .. 2 : d.conn = [r.conn EXCEPT ![i] = [cid |-> id, st |-> "syn"]]
      <4>1. PICK i \in 1 .. 2 : d.conn = [r.conn EXCEPT ![i] = [cid |-> id, st |-> "syn"]]
        BY <3>2
      <4>2. DOMAIN r.conn = 1 .. 2 \/ d.conn[i] = r.conn[i] \/ d.conn[i].cid = id
        BY <4>1
      <4> QED BY <4>1, <4>2
    <3> QED BY <1>17, <3>1, <3>2 DEF Linking
  <2>5. \A u, w \in TaskCells : d.task[u].busy /\ d.task[w].busy /\ d.task[u].id = d.task[w].id
                                  => u = w
    <3>1. \A u, w \in TaskCells : r.task[u].busy /\ r.task[w].busy
                                    /\ r.task[u].id = r.task[w].id => u = w
      BY <1>17 DEF Conns
    <3>2. d.task[t].id = id
      BY <1>5, <2>1
    <3> QED BY <2>2, <3>1, <3>2
  <2>6. \A u \in TaskCells : d.task[u].busy => d.task[u].id \in d.seen
    BY <1>5, <2>1, <2>2
  <2>7. \A i \in 1 .. 2 : d.conn[i].cid \in d.seen \cup {0}
    BY <2>1, <2>3, <2>4
  <2>8. ASSUME NEW u \in TaskCells, NEW i \in 1 .. 2, d.task[u].busy, d.task[u].conn # "none",
               d.conn[i].cid = d.task[u].id
        PROVE  d.conn[i].st # "fin"
    <3>1. CASE d.conn[i].cid = id /\ d.conn[i].st = "syn"
      BY <3>1
    <3>2. CASE d.conn[i] = r.conn[i]
      <4>1. d.task[u].id # id
        BY <2>3, <2>8, <3>2
      <4>2. u # t
        BY <1>5, <2>1, <4>1
      <4>3. d.task[u] = r.task[u]
        BY <1>4, <4>2
      <4> QED BY <1>17, <2>8, <3>2, <4>3 DEF Conns
    <3> QED BY <2>4, <3>1, <3>2
  <2> QED BY <2>5, <2>6, <2>7, <2>8 DEF Conns
<1>18. Ours(r) => Ours(d)
  <2>1. d.sending = r.sending
    BY <1>1 DEF Places
  <2>2. r.sending # 0 => r.sending \in Put(r, "sending") /\ "sending" \in Places
    BY DEF Put, Places, Queues
  <2>3. r.sending # 0 => TaskOf(r, r.sending) \in TaskCells /\ TaskOf(r, r.sending) # t
    BY <1>7, <2>2 DEF TaskOf
  <2>4. r.sending # 0 => /\ TaskOf(d, d.sending) = TaskOf(r, r.sending)
                         /\ d.task[TaskOf(r, r.sending)] = r.task[TaskOf(r, r.sending)]
    BY <1>3, <1>4, <2>1, <2>3 DEF TaskOf
  <2> QED BY <1>3, <2>1, <2>4 DEF Ours, IdOf
<1>19. Aimed(r) => Aimed(d)
  <2>1. \A p \in StrPlaces : p \in Places
    BY DEF StrPlaces, Places, Queues
  <2>2. ASSUME Aimed(r), NEW p \in StrPlaces, NEW b \in Put(d, p)
        PROVE  IsAimed(d, b)
    <3>1. b \in Put(r, p) /\ IsAimed(r, b)
      BY <1>1, <2>1, <2>2 DEF Aimed
    <3>2. r.atask[b].t \in TaskCells /\ r.atask[b].t # t
      BY <1>7, <2>1, <3>1
    <3> QED BY <1>3, <1>4, <3>1, <3>2 DEF IsAimed
  <2> QED BY <2>2 DEF Aimed
<1>20. Tally(r) => Tally(d)
  BY <1>3, <1>6 DEF Tally
<1> QED BY <1>3, <1>5, <1>6, <1>9, <1>13, <1>14, <1>15, <1>16, <1>17, <1>18, <1>19, <1>20 DEF Built

(* The first walk of a task that has been built: it is nowhere as yet.      *)
LEMMA FirstWalk ==
  ASSUME NEW r, NEW a \in AtaskCells, NEW t \in TaskCells, NEW e, NEW d, Typed(r), Own(r, 0),
         Inst(r, 0), ~r.atask[a].busy, r.task[t].busy, t \notin Range(r.installed),
         e = AtaskNew(r, a, t), d = [e EXCEPT !.installed = Append(@, t)]
  PROVE  Typed(d) /\ Own(d, a) /\ Inst(d, a) /\ Walker(d, a) /\ Went(r, d)
<1>1. Typed(e)
  BY AtaskNewGoes DEF Goes
<1>2. DOMAIN r = Fields /\ DOMAIN r.atask = AtaskCells /\ DOMAIN r.task = TaskCells
  BY DEF Typed, TasksOK, AtasksOK
<1>3. e = [r EXCEPT !.atask[a] = [busy |-> TRUE, t |-> t, idx |-> 1, data |-> 0],
                    !.task[t].atasks = @ + 1, !.count = @ + 1]
  BY DEF AtaskNew
<1>4. /\ Else(e, r, {"atask", "count", "task"}) /\ e.count = r.count + 1
      /\ e.atask = [r.atask EXCEPT ![a] = [busy |-> TRUE, t |-> t, idx |-> 1, data |-> 0]]
      /\ e.task = [r.task EXCEPT ![t].atasks = @ + 1]
  BY <1>2, <1>3 DEF Else, Fields
<1>5. /\ \A b \in AtaskCells : b # a => e.atask[b] = r.atask[b]
      /\ e.atask[a].busy /\ e.atask[a].t = t
  BY <1>2, <1>4
<1>6. \A b \in AtaskCells : b # a => AtaskKept(r, e, b) /\ (e.atask[b].busy <=> r.atask[b].busy)
  BY <1>5 DEF AtaskKept
<1>7. \A u \in TaskCells : TaskKept(r, e, u) /\ e.task[u].conn = r.task[u].conn
  <2>1. \A u \in TaskCells : r.task[u] \in TaskRec
    BY DEF Typed, TasksOK
  <2> QED BY <1>2, <1>4, <2>1 DEF TaskKept, TaskRec
<1>8. \A u \in TaskCells : e.task[u].atasks = IF u = t THEN r.task[u].atasks + 1
                                              ELSE r.task[u].atasks
  <2>1. \A u \in TaskCells : r.task[u] \in TaskRec
    BY DEF Typed, TasksOK
  <2> QED BY <1>2, <1>4, <2>1 DEF TaskRec
<1>9. /\ Own(e, a) /\ Inst(e, a) /\ Moved(r, e, a) /\ (Tally(r) => Tally(e))
      /\ \A p \in Places : Put(e, p) = Put(r, p)
      /\ a \in BusyCells(e) /\ e.task[t].busy /\ e.installed = r.installed
  <2>1. a \in AtaskCells /\ Typed(r) /\ Own(r, 0) /\ Inst(r, 0) /\ ~r.atask[a].busy
        /\ t \in TaskCells /\ r.task[t].busy
    OBVIOUS
  <2>2. Else(e, r, {"atask", "count", "task"}) /\ e.count = r.count + 1
    BY <1>4
  <2> QED BY ONLY <1>5, <1>6, <1>7, <1>8, <2>1, <2>2, NewCell
<1>10. Else(d, e, {"installed"}) /\ d.installed = Append(e.installed, t)
  BY <1>1 DEF Typed, Else, Fields
<1>11. e.installed \in Seq(TaskCells)
  BY <1>1 DEF Typed
<1>12. /\ d.installed \in Seq(TaskCells) /\ IsInjective(d.installed)
       /\ Range(d.installed) = Range(e.installed) \cup {t}
  <2>1. IsInjective(e.installed) /\ t \notin Range(e.installed)
    BY <1>9 DEF Inst
  <2>2. d.installed \in Seq(TaskCells)
    BY ONLY <1>10, <1>11, AppendProperties, t \in TaskCells
  <2> QED BY <1>10, <1>11, <2>1, <2>2, AppendPut
<1>13. Typed(d)
  BY <1>1, <1>10, <1>12, TypeKept
<1>14. \A f \in Fields : f # "installed" => d[f] = e[f]
  BY <1>10 DEF Else
<1>15. d.atask = e.atask /\ d.task = e.task /\ d.count = e.count /\ d.pend = e.pend
       /\ d.samp = e.samp /\ d.seen = e.seen /\ d.conn = e.conn /\ d.wild = e.wild /\ d.tx = e.tx
  BY <1>14 DEF Fields
<1>16. \A p \in Places : Put(d, p) = Put(e, p)
  <2>1. \A p \in Places : p \notin {"installed"}
    BY DEF Places, Queues
  <2> QED BY <1>10, <2>1, PutSame
<1>17. Own(d, a)
  <2>1. {"installed"} \cap OwnFields = {}
    BY DEF OwnFields, Places, Queues
  <2>2. \A u \in TaskCells : TaskKept(e, d, u) /\ d.task[u].atasks = e.task[u].atasks
    BY <1>15 DEF TaskKept
  <2>3. Own(e, a)
    BY <1>9
  <2> QED BY ONLY <1>10, <2>1, <2>2, <2>3, OwnStill
<1>18. BusyCells(d) = BusyCells(e)
  BY <1>15 DEF BusyCells
<1>19. Inst(d, a)
  BY <1>9, <1>12, <1>15, <1>18 DEF Inst
<1>20. Walker(d, a)
  BY <1>5, <1>9, <1>12, <1>15, <1>18 DEF Walker
<1>21. Conns(e) => Conns(d)
  <2>1. \A u \in TaskCells : TaskKept(e, d, u) /\ d.task[u].conn \in {e.task[u].conn, "none"}
    BY <1>15 DEF TaskKept
  <2> QED BY ONLY <1>15, <2>1, ConnsKept
<1>22. Moved(e, d, a)
  <2>1. PendOK(e) => PendOK(d)
    BY ONLY <1>15, PendSame
  <2> QED BY <1>15, <1>21, <2>1 DEF Moved, AtaskKept, TaskKept
<1>23. Moved(r, d, a)
  BY <1>9, <1>22, MovedOn
<1>24. \A p \in StrPlaces : Put(d, p) \subseteq Put(r, p) \ {a}
  <2>1. \A p \in StrPlaces : p \in Places
    BY DEF StrPlaces, Places, Queues
  <2>2. \A p \in Places : a \notin Put(r, p)
    BY DEF Own, Tended
  <2> QED BY <1>9, <1>16, <2>1, <2>2
<1>25. Tally(r) => Tally(d)
  BY <1>9, <1>15, <1>18 DEF Tally
<1>26. Went(r, d)
  BY <1>13, <1>17, <1>23, <1>24, <1>25, MovedWent
<1> QED BY <1>13, <1>17, <1>19, <1>20, <1>26

(* Elements up to the k'th are built only if a SendSTR among them gets a    *)
(* connection that is idle.                                                 *)
LEMMA IdleIsThere ==
  ASSUME OneStr, NEW id \in Ids, NEW m \in Buildable(id), NEW k \in 0 .. Len(Chain[id]),
         IF Faulty THEN k <= m ELSE k = m, "str" \in Range(SubSeq(Chain[id], 1, k))
  PROVE  Min(IdleConns) \in 1 .. 2
<1>1. Chain[id] \in Seq(Kinds)
  BY TaskCellsAssumption
<1>2. PICK l, n : l = Chain[id] /\ n = Len(l)
  OBVIOUS
<1>3. l \in Seq(Kinds) /\ n \in Nat /\ DOMAIN l = 1 .. n /\ k \in 0 .. n
  BY <1>1, <1>2
<1>4. PICK i \in 1 .. k : l[i] = "str"
  <2>1. \A j \in 1 .. k : SubSeq(l, 1, k)[j] = l[j]
    BY <1>2, <1>3
  <2>2. DOMAIN SubSeq(l, 1, k) = 1 .. k
    BY <1>2, <1>3
  <2> QED BY <1>2, <2>1, <2>2 DEF Range
<1>5. k <= m \/ m \notin Int
  <2>1. k \in Int
    OBVIOUS
  <2> QED BY <2>1
<1>6. IdleConns # {}
  <2>1. SUFFICES ASSUME IdleConns = {}
                 PROVE  FALSE
    OBVIOUS
  <2>2. i \in {j \in DOMAIN l : l[j] = "str"}
    BY <1>3, <1>4
  <2>3. m \in {j - 1 : j \in {x \in DOMAIN l : l[x] = "str"}}
    BY <1>2, <2>1, <2>2 DEF Buildable
  <2>4. PICK j \in 1 .. n : l[j] = "str" /\ m = j - 1
    BY <1>3, <2>3
  <2>5. j = i
    BY <1>2, <1>3, <1>4, <2>4 DEF OneStr
  <2> QED BY <1>3, <1>4, <1>5, <2>4, <2>5
<1>7. IdleConns \subseteq 1 .. 2
  BY DEF IdleConns
<1>8. \E x \in IdleConns : \A y \in IdleConns : x <= y
  <2>1. CASE 1 \in IdleConns
    <3>1. \A y \in IdleConns : 1 <= y
      BY <1>7
    <3> QED BY <2>1, <3>1
  <2>2. CASE 1 \notin IdleConns
    <3>1. \A y \in IdleConns : y = 2
      BY <1>7, <2>2
    <3>2. PICK y \in IdleConns : y = 2
      BY <1>6, <3>1
    <3> QED BY <3>1, <3>2
  <2> QED BY <2>1, <2>2
<1>9. Min(IdleConns) \in IdleConns
  BY <1>8 DEF Min
<1> QED BY <1>7, <1>9

(* What has been built is a task with its connection.                       *)
LEMMA ElementsBuilt ==
  ASSUME NEW t \in TaskCells, NEW id \in Ids, NEW k \in 0 .. Len(Chain[id]), Typed(s)
  PROVE  LET b == BuildElements(t, id, k)
         IN  /\ Typed(b)
             /\ \E v : /\ Built(s, b, t, v, id)
                       /\ \/ "str" \notin Range(SubSeq(Chain[id], 1, k))
                          \/ Min(IdleConns) \in 1 .. 2
                          => Linking(s, b, v, id)
<1>1. PICK b : b = BuildElements(t, id, k)
  OBVIOUS
<1>2. PICK new : new = [FreeTask EXCEPT !.busy = TRUE, !.id = id, !.built = k]
  OBVIOUS
<1>3. Chain[id] \in Seq(Kinds)
  BY TaskCellsAssumption
<1>4. k \in Nat
  BY <1>3
<1>5. new \in TaskRec /\ new.busy /\ new.id = id /\ new.atasks = 0 /\ new.conn = "none"
      /\ new.built = k
  <2>1. new = [busy |-> TRUE, id |-> id, built |-> k, atasks |-> 0,
               sendbusy |-> FALSE, conn |-> "none", e2busy |-> FALSE]
    BY ONLY <1>2 DEF FreeTask
  <2> QED BY ONLY <2>1, <1>4, id \in Ids DEF TaskRec
<1>6. TasksOK(s.task) /\ DOMAIN s = Fields
  BY DEF Typed
<1>7. CASE "str" \in Range(SubSeq(Chain[id], 1, k))
  <2>1. PICK v : v = [new EXCEPT !.conn = "opening", !.sendbusy = TRUE]
    OBVIOUS
  <2>2. v \in TaskRec /\ v.busy /\ v.id = id /\ v.atasks = 0 /\ v.built = k
    BY ONLY <1>5, <2>1 DEF TaskRec
  <2>3. PICK i : i = Min(IdleConns)
    OBVIOUS
  <2>4. b = [s EXCEPT !.seen = @ \cup {id}, !.task[t] = v,
               !.conn[i] = [cid |-> id, st |-> "syn"]]
    BY <1>1, <1>2, <1>7, <2>1, <2>3 DEF BuildElements
  <2>5. /\ Else(b, s, {"seen", "task", "conn"}) /\ b.task = [s.task EXCEPT ![t] = v]
        /\ b.seen = s.seen \cup {id}
        /\ b.conn = [s.conn EXCEPT ![i] = [cid |-> id, st |-> "syn"]]
    BY <1>6, <2>4 DEF Else, Fields
  <2>6. TasksOK(b.task)
    <3>1. TasksOK([s.task EXCEPT ![t] = v])
      BY <1>6, <2>2, TaskPut
    <3> QED BY ONLY <2>5, <3>1, Zenon
  <2>7. Typed(b)
    BY <2>5, <2>6, TypeKept
  <2>8. Built(s, b, t, v, id)
    BY <2>2, <2>5, Zenon DEF Built
  <2>9. i \in 1 .. 2 => Linking(s, b, v, id)
    BY ONLY <2>5 DEF Linking
  <2> QED BY <1>1, <1>7, <2>3, <2>7, <2>8, <2>9
<1>8. CASE "str" \notin Range(SubSeq(Chain[id], 1, k))
  <2>1. b = [s EXCEPT !.seen = @ \cup {id}, !.task[t] = new]
    BY <1>1, <1>2, <1>8 DEF BuildElements
  <2>2. /\ Else(b, s, {"seen", "task", "conn"}) /\ b.task = [s.task EXCEPT ![t] = new]
        /\ b.seen = s.seen \cup {id} /\ b.conn = s.conn
    BY <1>6, <2>1 DEF Else, Fields
  <2>3. Else(b, s, {"seen", "task"})
    BY <1>6, <2>1 DEF Else, Fields
  <2>4. TasksOK(b.task)
    <3>1. TasksOK([s.task EXCEPT ![t] = new])
      BY <1>5, <1>6, TaskPut
    <3> QED BY ONLY <2>2, <3>1, Zenon
  <2>5. Typed(b)
    BY <2>3, <2>4, TypeKept
  <2>6. Built(s, b, t, new, id)
    BY <1>5, <2>2, Zenon DEF Built
  <2>7. Linking(s, b, new, id)
    BY <1>5, <2>2 DEF Linking
  <2> QED BY <1>1, <1>8, <2>5, <2>6, <2>7
<1> QED BY <1>7, <1>8

(* A task that is installed starts with one active task, or not at all.     *)
LEMMA InstallOwn ==
  ASSUME ~Scarce, NEW id \in Ids, Held(s), Install(id)
  PROVE  Stepped(s, s')
<1>1. PICK t, a : t = FirstFree(s.task) /\ a = FirstFree(s.atask)
  OBVIOUS
<1>2. Typed(s) /\ Own(s, 0) /\ Inst(s, 0)
  BY DEF Held
<1>3. id \notin s.seen /\ t # 0 /\ a # 0
  BY <1>1 DEF Install
<1>4. t \in TaskCells /\ ~s.task[t].busy
  <2>1. DOMAIN s.task = 1 .. NumTasks
    BY <1>2 DEF Typed, TasksOK, TaskCells
  <2> QED BY <1>1, <1>3, <2>1, FirstFreeIs DEF TaskCells
<1>5. a \in AtaskCells /\ ~s.atask[a].busy
  <2>1. DOMAIN s.atask = 1 .. NumAtasks
    BY <1>2 DEF Typed, AtasksOK, AtaskCells
  <2> QED BY <1>1, <1>3, <2>1, FirstFreeIs DEF AtaskCells
<1>6. PICK m \in Buildable(id), k \in 0 .. Len(Chain[id]) :
        /\ IF Faulty THEN k <= m ELSE k = m
        /\ LET built == BuildElements(t, id, k)
           IN  s' = IF k < Len(Chain[id]) \/ a = 0 THEN Kill(built, t)
                    ELSE Schedule([AtaskNew(built, a, t) EXCEPT !.installed = Append(@, t)], a)
  BY <1>1, <1>3 DEF Install
<1>7. PICK b : b = BuildElements(t, id, k)
  OBVIOUS
<1>8. PICK v : /\ Built(s, b, t, v, id)
               /\ \/ "str" \notin Range(SubSeq(Chain[id], 1, k))
                  \/ Min(IdleConns) \in 1 .. 2
                  => Linking(s, b, v, id)
  BY <1>2, <1>4, <1>7, ElementsBuilt
<1>9. Typed(b)
  BY <1>2, <1>4, <1>7, ElementsBuilt
<1>10. OneStr => Linking(s, b, v, id)
  BY <1>6, <1>8, IdleIsThere
<1>11. /\ Own(b, 0) /\ Inst(b, 0) /\ b.wild = s.wild
       /\ b.task[t].busy /\ t \notin Range(b.installed)
       /\ PendOK(s) => PendOK(b)
       /\ Linking(s, b, v, id) /\ Conns(s) => Conns(b)
       /\ Ours(s) => Ours(b)
       /\ Aimed(s) => Aimed(b)
       /\ Tally(s) => Tally(b)
  BY ONLY <1>2, <1>3, <1>4, <1>8, <1>9, BuiltOwn, id \in Ids
<1>12. Onward(b, s')
  <2>1. CASE k < Len(Chain[id]) \/ a = 0
    <3>1. s' = Kill(b, t)
      BY <1>6, <1>7, <2>1
    <3>2. t \in TaskCells \cup {0}
      BY <1>4
    <3> QED BY ONLY <1>9, <1>11, <3>1, <3>2, KillBeside DEF Onward
  <2>2. CASE ~(k < Len(Chain[id]) \/ a = 0)
    <3>1. PICK e, d : e = AtaskNew(b, a, t) /\ d = [e EXCEPT !.installed = Append(@, t)]
      OBVIOUS
    <3>2. s' = Schedule(d, a)
      BY <1>6, <1>7, <2>2, <3>1
    <3>3. ~b.atask[a].busy
      <4>1. \A f \in Fields \ {"seen", "task", "conn"} : b[f] = s[f]
        BY <1>8 DEF Built, Else
      <4>2. b.atask = s.atask
        BY <4>1 DEF Fields
      <4> QED BY <1>5, <4>2
    <3>4. Typed(d) /\ Own(d, a) /\ Inst(d, a) /\ Walker(d, a) /\ Went(b, d)
      BY ONLY <1>4, <1>5, <1>9, <1>11, <3>1, <3>3, FirstWalk
    <3>5. Passed(d, s', a) /\ (Tally(d) => Tally(s'))
      BY ONLY <3>2, <3>4, ScheduleOwn
    <3>6. Went(d, s')
      BY ONLY <3>4, <3>5, PassedWent
    <3>7. Went(b, s')
      BY ONLY <3>4, <3>6, WentOn
    <3> QED BY ONLY <3>5, <3>7 DEF Onward, Passed
  <2> QED BY <2>1, <2>2
<1> QED BY <1>10, <1>11, <1>12 DEF Stepped, Onward, Went, Most

(* The first k of the installed tasks have been gone through, and those of  *)
(* them that are in l deleted; the list is as it was.                       *)
Through(r, e, l, k) ==
  /\ Typed(e) /\ Own(e, 0) /\ Went(r, e)
  /\ e.installed = r.installed
  /\ \A j \in 1 .. Len(r.installed) :
       e.task[r.installed[j]].busy <=> (j > k \/ r.installed[j] \notin l)
  /\ \A a \in BusyCells(e) : e.atask[a].t \in Range(r.installed)

(* The loop that deletes tasks, from one installed task to the next.        *)
LEMMA ThroughNone ==
  ASSUME NEW r, NEW l, Typed(r), Own(r, 0), Inst(r, 0)
  PROVE  Through(r, r, l, 0)
<1>1. \A j \in 1 .. Len(r.installed) : r.installed[j] \in Range(r.installed) /\ j > 0
  <2>1. r.installed \in Seq(TaskCells)
    BY DEF Typed
  <2> QED BY <2>1 DEF Range
<1>2. \A a \in BusyCells(r) : a # 0
  BY CellTypes DEF BusyCells
<1> QED BY <1>1, <1>2, WentNone DEF Through, Inst

LEMMA ThroughKept ==
  ASSUME NEW r, NEW e, NEW l, NEW k \in 1 .. Len(r.installed), r.installed \in Seq(TaskCells),
         Through(r, e, l, k - 1), r.installed[k] \notin l
  PROVE  Through(r, e, l, k)
<1>1. \A j \in 1 .. Len(r.installed) : j > k - 1 <=> j > k \/ j = k
  BY LenProperties
<1> QED BY <1>1 DEF Through

LEMMA ThroughDeleted ==
  ASSUME NoPackets, NEW r, NEW e, NEW d, NEW l, NEW t, NEW k \in 1 .. Len(r.installed),
         r.installed \in Seq(TaskCells), IsInjective(r.installed), t = r.installed[k],
         Through(r, e, l, k - 1), t \in l, d = TaskDelete(RemoveTask(e, "q", t), t)
  PROVE  Through(r, d, l, k)
<1>1. PICK n \in Nat : n = Len(r.installed)
  BY LenProperties
<1>2. k \in 1 .. n /\ DOMAIN r.installed = 1 .. n
  BY <1>1
<1>3. t \in TaskCells
  BY <1>1, <1>2
<1>4. Typed(e) /\ Own(e, 0) /\ Went(r, e) /\ e.installed = r.installed
  BY DEF Through
<1>5. e.task[t].busy
  BY <1>2 DEF Through
<1>6. PICK x : x = RemoveTask(e, "q", t)
  OBVIOUS
<1>7. "q" \in Queues /\ "q" \in Places
  BY DEF Queues, Places
<1>8. /\ Typed(x) /\ Own(x, 0) /\ Cut(e, x, t) /\ Put(x, "q") \cap Walks(e, t) = {}
      /\ Else(x, e, {"atask", "count", "task", "q"})
  BY ONLY <1>4, <1>6, <1>7, CutRemove
<1>9. Walks(x, t) = Walks(e, t)
  BY ONLY <1>8, CutClears
<1>10. x.task[t].busy
  BY <1>3, <1>5, <1>8 DEF Cut, TaskKept
<1>11. d = TaskDelete(x, t) /\ Put(x, "q") \cap Walks(x, t) = {}
  BY <1>6, <1>8, <1>9
<1>12. Typed(d) /\ Own(d, 0) /\ Ended(x, d, t) /\ d.installed = x.installed
  BY ONLY <1>3, <1>8, <1>10, <1>11, TaskDeleteOwn, NoPackets
<1>13. x.installed = e.installed /\ x.pend = e.pend /\ x.samp = e.samp
  BY ONLY <1>8 DEF Else, Fields
<1>14. PendOK(e) => PendOK(x)
  BY ONLY <1>13, PendSame
<1>15. Ended(e, d, t)
  BY ONLY <1>8, <1>12, <1>14, EndCut
<1>16. Went(e, d)
  <2>1. Moved(e, d, 0) /\ (Tally(e) => Tally(d))
    BY ONLY <1>15, EndedMoves DEF Ended
  <2>2. \A p \in StrPlaces : Put(d, p) \subseteq Put(e, p)
    BY ONLY <1>15 DEF Ended, StrPlaces, Places, Queues
  <2> QED BY ONLY <1>4, <1>12, <2>1, <2>2, StillWent
<1>17. Went(r, d)
  BY ONLY <1>4, <1>16, WentOn
<1>18. ASSUME NEW j \in 1 .. n
       PROVE  d.task[r.installed[j]].busy <=> (j > k \/ r.installed[j] \notin l)
  <2>1. r.installed[j] \in TaskCells
    BY <1>1
  <2>2. e.task[r.installed[j]].busy <=> (j > k - 1 \/ r.installed[j] \notin l)
    BY <1>1 DEF Through
  <2>3. CASE j = k
    <3>1. ~d.task[t].busy
      BY <1>15 DEF Ended
    <3> QED BY <2>3, <3>1
  <2>4. CASE j # k
    <3>1. r.installed[j] # t
      BY <1>2, <2>4 DEF IsInjective
    <3>2. d.task[r.installed[j]].busy = e.task[r.installed[j]].busy
      BY <1>15, <2>1, <3>1 DEF Ended, TaskKept
    <3>3. j > k - 1 <=> j > k
      BY <1>2, <2>4
    <3> QED BY <2>2, <3>2, <3>3
  <2> QED BY <2>3, <2>4
<1>19. ASSUME NEW a \in BusyCells(d)
       PROVE  d.atask[a].t \in Range(r.installed)
  <2>1. a \in AtaskCells /\ d.atask[a].busy
    BY DEF BusyCells
  <2>2. e.atask[a].busy /\ d.atask[a].t = e.atask[a].t
    BY <1>15, <2>1 DEF Ended, AtaskKept
  <2> QED BY <2>1, <2>2 DEF Through, BusyCells
<1>20. d.installed = r.installed
  BY <1>4, <1>12, <1>13
<1> QED BY <1>1, <1>12, <1>17, <1>18, <1>19, <1>20 DEF Through

(* The deletion of any tasks.                                               *)
LEMMA DeleteTasksOwn ==
  ASSUME NoPackets, NEW ids, Held(s), Delete(ids)
  PROVE  Onward(s, s')
<1>1. Typed(s) /\ Own(s, 0) /\ Inst(s, 0) /\ s.installed \in Seq(TaskCells)
      /\ IsInjective(s.installed)
  BY DEF Held, Typed, Inst
<1>2. PICK n \in Nat : n = Len(s.installed)
  BY <1>1, LenProperties
<1>3. PICK l : l = {t \in TaskCells : IdOf(s, t) \in ids}
  OBVIOUS
<1>4. PICK out : Deletes(out, l)
  <2>1. s.installed \in Seq(TaskCells)
    BY <1>1
  <2> QED BY ONLY <1>3, <2>1, DeleteSteps, Delete(ids)
<1> DEFINE W == {k \in 0 .. n : Through(s, out[k], l, k)}
<1>5. 0 \in W
  BY <1>1, <1>2, <1>4, ThroughNone DEF Deletes
<1>6. ASSUME NEW k \in 1 .. n, k - 1 \in W
      PROVE  k \in W
  <2>1. k \in 0 .. n /\ Through(s, out[k - 1], l, k - 1) /\ k \in 1 .. Len(s.installed)
    BY <1>2, <1>6
  <2>2. CASE s.installed[k] \notin l
    <3>1. out[k] = out[k - 1]
      BY <1>4, <2>1, <2>2 DEF Deletes
    <3>2. Through(s, out[k], l, k)
      BY ONLY <1>1, <2>1, <2>2, <3>1, ThroughKept
    <3> QED BY <2>1, <3>2
  <2>3. CASE s.installed[k] \in l
    <3>1. out[k] = TaskDelete(RemoveTask(out[k - 1], "q", s.installed[k]), s.installed[k])
      BY <1>4, <2>1, <2>3 DEF Deletes
    <3>2. Through(s, out[k], l, k)
      BY ONLY <1>1, <2>1, <2>3, <3>1, ThroughDeleted, NoPackets
    <3> QED BY <2>1, <3>2
  <2> QED BY <2>2, <2>3
<1> HIDE DEF W
<1>7. n \in W
  <2>1. 0 .. n \subseteq W
    BY ONLY <1>2, <1>5, <1>6, Climb
  <2> QED BY <1>2, <2>1
<1>8. PICK e : e = out[n] /\ Through(s, e, l, n)
  BY <1>7 DEF W
<1>9. Typed(e) /\ Own(e, 0) /\ Went(s, e) /\ e.installed = s.installed
  BY <1>8 DEF Through
<1>10. PICK d : d = [e EXCEPT !.installed = Only(e.installed, TaskCells \ l)]
  OBVIOUS
<1>11. s' = d
  BY <1>2, <1>4, <1>8, <1>10 DEF Deletes
<1>12. Else(d, e, {"installed"}) /\ d.installed = Only(s.installed, TaskCells \ l)
  BY <1>9, <1>10 DEF Typed, Else, Fields
<1>13. d.installed \in Seq(TaskCells)
  BY ONLY <1>1, <1>12, OnlyIn
<1>14. Range(d.installed) = Range(s.installed) \ l /\ IsInjective(d.installed)
  <2>1. /\ Range(d.installed) = Range(s.installed) \cap (TaskCells \ l)
        /\ IsInjective(d.installed)
    BY ONLY <1>1, <1>12, OnlyThose
  <2>2. Range(s.installed) \subseteq TaskCells
    BY ONLY <1>1 DEF Range
  <2> QED BY <2>1, <2>2
<1>15. Typed(d)
  BY ONLY <1>9, <1>12, <1>13, TypeKept
<1>16. \A f \in Fields : f # "installed" => d[f] = e[f]
  BY ONLY <1>12 DEF Else
<1>17. d.atask = e.atask /\ d.task = e.task /\ d.count = e.count /\ d.pend = e.pend
       /\ d.samp = e.samp /\ d.seen = e.seen /\ d.conn = e.conn /\ d.wild = e.wild /\ d.tx = e.tx
  BY ONLY <1>16 DEF Fields
<1>18. \A p \in Places : Put(d, p) = Put(e, p)
  <2>1. \A p \in Places : p \notin {"installed"}
    BY DEF Places, Queues
  <2> QED BY ONLY <1>12, <2>1, PutSame
<1>19. \A u \in TaskCells : TaskKept(e, d, u) /\ d.task[u].atasks = e.task[u].atasks
                              /\ d.task[u].conn = e.task[u].conn
  BY ONLY <1>17 DEF TaskKept
<1>20. Own(d, 0)
  <2>1. {"installed"} \cap OwnFields = {}
    BY DEF OwnFields, Places, Queues
  <2> QED BY ONLY <1>9, <1>12, <1>19, <2>1, OwnStill
<1>21. BusyCells(d) = BusyCells(e)
  BY ONLY <1>17 DEF BusyCells
<1>22. \A u \in Range(s.installed) : e.task[u].busy <=> u \notin l
  <2>1. \A j \in 1 .. n : e.task[s.installed[j]].busy <=> s.installed[j] \notin l
    BY <1>2, <1>8 DEF Through
  <2>2. DOMAIN s.installed = 1 .. n
    BY <1>1, <1>2
  <2> QED BY ONLY <2>1, <2>2 DEF Range
<1>23. ASSUME NEW a \in BusyCells(e)
       PROVE  e.atask[a].t \in Range(d.installed)
  <2>1. e.atask[a].t \in Range(s.installed)
    BY <1>8 DEF Through
  <2>2. a # 0 /\ e.atask[a].busy
    BY <1>9, CellTypes DEF BusyCells
  <2>3. \E p \in Places : a \in Put(e, p)
    BY <1>9, <2>2 DEF Own, Tended
  <2>4. e.task[e.atask[a].t].busy
    BY <1>9, <2>3 DEF Own, Tended, Clears
  <2> QED BY <1>14, <1>22, <2>1, <2>4
<1>24. Inst(d, 0)
  <2>1. \A u \in Range(d.installed) : d.task[u].busy
    BY <1>14, <1>17, <1>22
  <2> QED BY <1>14, <1>17, <1>21, <1>23, <2>1 DEF Inst
<1>25. Went(e, d)
  <2>1. \A u \in TaskCells : TaskKept(e, d, u) /\ d.task[u].conn \in {e.task[u].conn, "none"}
    BY <1>19
  <2>2. Conns(e) => Conns(d)
    BY ONLY <1>17, <2>1, ConnsKept
  <2>3. PendOK(e) => PendOK(d)
    BY ONLY <1>17, PendSame
  <2>4. Moved(e, d, 0)
    BY ONLY <1>17, <1>19, <2>2, <2>3 DEF Moved, AtaskKept
  <2>5. \A p \in StrPlaces : Put(d, p) \subseteq Put(e, p)
    BY ONLY <1>18 DEF StrPlaces, Places, Queues
  <2>6. Tally(e) => Tally(d)
    BY ONLY <1>17, <1>21 DEF Tally
  <2> QED BY ONLY <1>9, <1>15, <1>20, <2>4, <2>5, <2>6, StillWent
<1>26. Went(s, d)
  BY ONLY <1>9, <1>25, WentOn
<1> QED BY <1>11, <1>15, <1>20, <1>24, <1>26 DEF Onward

(* At the start nothing is held.                                            *)
LEMMA InitOwn ==
  ASSUME Init
  PROVE  Held(s) /\ Conns(s) /\ Ours(s) /\ Aimed(s) /\ Tally(s)
<1>1. PICK r : r = TaskInit
  OBVIOUS
<1>2. /\ r.task = [t \in TaskCells |-> FreeTask] /\ r.atask = [a \in AtaskCells |-> FreeAtask]
      /\ r.count = 0 /\ r.q = <<>> /\ r.installed = <<>>
      /\ r.timers = <<>> /\ r.samp = <<>> /\ r.full = {} /\ r.pend = 0
      /\ r.str = <<>> /\ r.sending = 0 /\ r.retry = 0
      /\ r.pkt = <<>> /\ r.pretry = 0 /\ r.flight = <<>>
      /\ r.conn = [i \in 1 .. 2 |-> IdleConn]
  BY <1>1 DEF TaskInit
<1>3. /\ \A t \in TaskCells : ~r.task[t].busy /\ r.task[t].conn = "none"
      /\ \A a \in AtaskCells : ~r.atask[a].busy
      /\ \A i \in 1 .. 2 : r.conn[i].cid = 0
  BY <1>2 DEF FreeTask, FreeAtask, IdleConn
<1>4. \A p \in Places : Put(r, p) = {}
  <2>1. Range(<<>>) = {}
    BY DEF Range
  <2> QED BY <1>2, <2>1 DEF Put, Places, Queues
<1>5. BusyCells(r) = {}
  BY <1>3 DEF BusyCells
<1>6. IsInjective(<<>>) /\ Range(<<>>) = {}
  BY DEF IsInjective, Range
<1>7. Apart(r) /\ Tended(r, 0) /\ Exact(r) /\ Plain(r)
  <2>1. Apart(r)
    BY <1>2, <1>4, <1>6 DEF Apart, Queues
  <2>2. Tended(r, 0)
    BY <1>4, <1>5 DEF Tended
  <2> QED BY <1>2, <1>3, <2>1, <2>2 DEF Exact, Plain
<1>8. Inst(r, 0)
  BY <1>2, <1>5, <1>6 DEF Inst
<1>9. Typed(s)
  BY InitGood DEF Good
<1>10. Tally(r)
  BY <1>2, <1>5, FS_EmptySet DEF Tally
<1>11. Conns(r)
  BY <1>3 DEF Conns
<1>12. Ours(r) /\ PendOK(r)
  BY <1>2 DEF Ours, PendOK
<1>13. Aimed(r)
  BY <1>4 DEF Aimed, StrPlaces, Places, Queues
<1> QED BY <1>1, <1>7, <1>8, <1>9, <1>10, <1>11, <1>12, <1>13 DEF Init, Held, Own

(* Every action steps, and every step keeps the three invariants.           *)
LEMMA NextOwn ==
  ASSUME NoPackets, "heap" \notin Faults, Held(s), Next
  PROVE  s'.wild \/ Stepped(s, s')
<1>1. ~Scarce
  BY DEF Scarce
<1>2. CASE \E id \in Ids : Install(id)
  BY <1>1, <1>2, InstallOwn
<1>3. ASSUME NEW ids, Delete(ids)
      PROVE  Onward(s, s')
  BY <1>3, DeleteTasksOwn
<1>4. CASE (\E id \in Deleted : Delete({id})) \/ Delete(Deleted)
  BY <1>3, <1>4, OnwardStepped
<1>5. CASE Run \/ KillIt
  BY <1>5, RunOwn, KillItOwn, OnwardStepped
<1>6. CASE IssueFired \/ SampleFired \/ DataReady \/ AdcError \/ HandleData(Fills)
  BY <1>1, <1>6, IssueFiredOwn, SampleFiredOwn, DataReadyOwn, AdcErrorOwn, HandleDataOwn,
     OnwardStepped
<1>7. CASE StrPopAndSend(BOOLEAN) \/ Opened
  BY <1>7, StrPopAndSendOwn, OpenedOwn, OnwardStepped
<1>8. CASE StreamSent \/ Closed
  BY <1>8, StreamSentOwn, ClosedOwn
<1>9. CASE PktPopAndSend(BOOLEAN) \/ PacketSent
  BY <1>9, PktPopAndSendOwn, PacketSentOwn, OnwardStepped
<1> QED BY <1>2, <1>4, <1>5, <1>6, <1>7, <1>8, <1>9 DEF Next

(* The inductive invariants of ownership, of what SendSTR takes a sendDone  *)
(* to be about, and of the counts.                                          *)
Owned == s.wild \/ Held(s)
Aware == s.wild \/ (Held(s) /\ Conns(s) /\ Ours(s))
Counted == s.wild \/ (Held(s) /\ Aimed(s) /\ Tally(s))

LEMMA OwnedNext ==
  ASSUME NoPackets, "heap" \notin Faults, [Next]_s
  PROVE  /\ Owned => Owned'
         /\ OneStr /\ Aware => Aware'
         /\ LastLetsGo /\ Counted => Counted'
<1>1. CASE s' = s
  BY <1>1 DEF Owned, Aware, Counted
<1>2. CASE Next
  <2>1. ~s.wild
    BY <1>2 DEF Next
  <2>2. ASSUME Held(s)
        PROVE  s'.wild \/ Stepped(s, s')
    BY <1>2, <2>2, NextOwn
  <2>3. Held(s) => Owned'
    BY <2>2 DEF Stepped, Held, Owned
  <2>4. OneStr /\ Aware => Aware'
    BY <2>1, <2>2 DEF Stepped, Held, Aware
  <2>5. LastLetsGo /\ Counted => Counted'
    BY <2>1, <2>2 DEF Stepped, Held, Counted
  <2> QED BY <2>1, <2>3, <2>4, <2>5 DEF Owned
<1> QED BY <1>1, <1>2

(* A list without repetitions holds a cell once if it holds it at all.      *)
LEMMA OnceOn ==
  ASSUME NEW l \in Seq(AtaskCells), NEW a, IsInjective(l)
  PROVE  Cardinality({i \in DOMAIN l : l[i] = a}) = IF a \in Range(l) THEN 1 ELSE 0
<1>1. CASE a \in Range(l)
  <2>1. PICK j \in DOMAIN l : l[j] = a
    BY <1>1 DEF Range
  <2>2. {i \in DOMAIN l : l[i] = a} = {j}
    BY <2>1 DEF IsInjective
  <2>3. Cardinality({j}) = 1
    BY FS_Singleton
  <2> QED BY ONLY <1>1, <2>2, <2>3
<1>2. CASE a \notin Range(l)
  <2>1. {i \in DOMAIN l : l[i] = a} = {}
    BY <1>2 DEF Range
  <2>2. Cardinality({}) = 0
    BY FS_EmptySet
  <2> QED BY ONLY <1>2, <2>1, <2>2
<1> QED BY <1>1, <1>2

(* What Holds adds up.                                                      *)
Count(a, p) == IF a \in Put(s, p) THEN 1 ELSE 0

(* HeldOnce is about the places.                                            *)
LEMMA HoldsIs ==
  ASSUME NEW a \in AtaskCells, Held(s)
  PROVE  Holds(a) = Count(a, "q") + Count(a, "timers") + Count(a, "samp") + Count(a, "str")
                      + Count(a, "sending") + Count(a, "retry")
<1> DEFINE In(f) == Cardinality({i \in DOMAIN s[f] : s[f][i] = a})
           Flown == Cardinality({i \in DOMAIN s.flight : s.flight[i].a = a})
           Slot  == Cardinality({f \in Slots : s[f] = a})
<1>1. a # 0
  BY CellTypes DEF Held
<1>2. Holds(a) = In("q") + In("timers") + In("samp") + In("str") + In("pkt") + Flown + Slot
  BY DEF Holds
<1>3. ASSUME NEW f \in Queues
      PROVE  In(f) = Count(a, f)
  <2>1. s[f] \in Seq(AtaskCells)
    BY <1>3 DEF Held, Typed, Queues
  <2>2. IsInjective(s[f])
    BY <1>3 DEF Held, Own, Apart
  <2>3. Put(s, f) = Range(s[f])
    BY <1>3 DEF Put
  <2> QED BY <2>1, <2>2, <2>3, OnceOn DEF Count
<1>4. In("pkt") = 0 /\ Flown = 0
  <2>1. s.pkt = <<>> /\ s.flight = <<>>
    BY DEF Held, Own, Plain
  <2>2. {i \in DOMAIN s.pkt : s.pkt[i] = a} = {}
        /\ {i \in DOMAIN s.flight : s.flight[i].a = a} = {}
    BY <2>1
  <2> QED BY <2>2, FS_EmptySet
<1>5. Slot = Count(a, "sending") + Count(a, "retry")
  <2>1. s.pretry # a
    BY <1>1 DEF Held, Own, Plain
  <2>2. {f \in Slots : s[f] = a} = {f \in {"sending", "retry"} : s[f] = a}
    BY <2>1 DEF Slots
  <2>3. /\ a \in Put(s, "sending") <=> s["sending"] = a
        /\ a \in Put(s, "retry") <=> s["retry"] = a
    BY <1>1 DEF Put, Queues
  <2>4. ~(a \in Put(s, "sending") /\ a \in Put(s, "retry"))
    BY DEF Held, Own, Apart, Places
  <2>5. CASE s["sending"] = a
    <3>1. {f \in {"sending", "retry"} : s[f] = a} = {"sending"}
      BY <2>3, <2>4, <2>5
    <3>2. Cardinality({"sending"}) = 1
      BY FS_Singleton
    <3> QED BY <2>2, <2>3, <2>4, <2>5, <3>1, <3>2 DEF Count
  <2>6. CASE s["retry"] = a
    <3>1. {f \in {"sending", "retry"} : s[f] = a} = {"retry"}
      BY <2>3, <2>4, <2>6
    <3>2. Cardinality({"retry"}) = 1
      BY FS_Singleton
    <3> QED BY <2>2, <2>3, <2>4, <2>6, <3>1, <3>2 DEF Count
  <2>7. CASE s["sending"] # a /\ s["retry"] # a
    <3>1. {f \in {"sending", "retry"} : s[f] = a} = {}
      BY <2>7
    <3> QED BY <2>2, <2>3, <2>7, <3>1, FS_EmptySet DEF Count
  <2> QED BY <2>5, <2>6, <2>7
<1> HIDE DEF In, Flown, Slot
<1>6. /\ "q" \in Queues /\ "timers" \in Queues /\ "samp" \in Queues /\ "str" \in Queues
      /\ \A p : Count(a, p) \in {0, 1}
  BY DEF Queues, Count
<1> QED BY <1>2, <1>3, <1>4, <1>5, <1>6

LEMMA HeldIsOnce ==
  ASSUME Held(s)
  PROVE  HeldOnce
<1>1. SUFFICES ASSUME NEW a \in AtaskCells
               PROVE  IF s.atask[a].busy
                      THEN /\ Holds(a) = 1
                           /\ s.task[s.atask[a].t].busy
                           /\ s.atask[a].t \in Range(s.installed)
                      ELSE Holds(a) = 0
  BY DEF HeldOnce
<1>2. Typed(s) /\ Own(s, 0) /\ Inst(s, 0) /\ a # 0
  BY CellTypes DEF Held
<1>3. Holds(a) = Count(a, "q") + Count(a, "timers") + Count(a, "samp") + Count(a, "str")
                   + Count(a, "sending") + Count(a, "retry")
  BY HoldsIs
<1>4. CASE s.atask[a].busy
  <2>1. a \in BusyCells(s)
    BY <1>4 DEF BusyCells
  <2>2. PICK p \in Places : a \in Put(s, p)
    BY <1>2, <2>1 DEF Own, Tended
  <2>3. \A o \in Places : Count(a, o) = IF o = p THEN 1 ELSE 0
    BY <1>2, <2>2 DEF Own, Apart, Count
  <2>4. Holds(a) = 1
    BY <1>3, <2>3 DEF Places, Queues
  <2>5. s.task[s.atask[a].t].busy
    BY <1>2, <2>2 DEF Own, Tended, Clears
  <2>6. s.atask[a].t \in Range(s.installed)
    BY <1>2, <2>1 DEF Inst
  <2> QED BY <1>4, <2>4, <2>5, <2>6
<1>5. CASE ~s.atask[a].busy
  <2>1. \A p \in Places : Count(a, p) = 0
    BY <1>2, <1>5 DEF Own, Tended, Count
  <2> QED BY <1>3, <1>5, <2>1 DEF Places, Queues
<1> QED BY <1>4, <1>5

LEMMA CountsAreExact ==
  ASSUME Exact(s), Tally(s)
  PROVE  AtasksExact
<1>1. \A t : {a \in AtaskCells : s.atask[a].busy /\ s.atask[a].t = t} = Walking(s, t)
  BY DEF Walking, BusyCells
<1>2. {a \in AtaskCells : s.atask[a].busy} = BusyCells(s)
  BY DEF BusyCells
<1> QED BY <1>1, <1>2 DEF AtasksExact, Exact, Tally

(* An active task is owned by the scheduler or by one element, never by two *)
(* and never by none, and the task it walks is there and installed          *)
(* (TaskLib.nc:413-422), where no task sends with the packet transport and  *)
(* memory does not run out: whoever is deleted, killed or refused meanwhile.*)
THEOREM ActiveTasksAreOwned ==
  ASSUME NoPackets, "heap" \notin Faults
  PROVE  Spec => [](s.wild \/ HeldOnce)
<1>1. Init => Owned
  BY InitOwn DEF Owned
<1>2. Owned /\ [Next]_s => Owned'
  BY OwnedNext
<1>3. Owned => s.wild \/ HeldOnce
  BY HeldIsOnce DEF Owned
<1> QED BY <1>1, <1>2, <1>3, PTL DEF Spec

(* A sendDone of the stream transport is about the packet that SendSTR has  *)
(* under way (SendSTR.nc:232), though it carries no active task: a task has *)
(* the transport send for it only while its own connection is open.         *)
THEOREM SendDoneIsItsOwn ==
  ASSUME NoPackets, "heap" \notin Faults, OneStr
  PROVE  Spec => [](s.wild \/ SendDoneIsOurs)
<1>1. Init => Aware
  BY InitOwn DEF Aware
<1>2. Aware /\ [Next]_s => Aware'
  BY OwnedNext
<1>3. Aware => s.wild \/ SendDoneIsOurs
  BY DEF Aware, Ours, SendDoneIsOurs
<1> QED BY <1>1, <1>2, <1>3, PTL DEF Spec

(* num_atasks of a task is the number of the active tasks that walk it, for *)
(* chains that end with SendSTR too (TaskLib.nc:413-422).                   *)
THEOREM NumAtasksIsExact ==
  ASSUME NoPackets, "heap" \notin Faults
  PROVE  Spec => [](s.wild \/ Exact(s))
<1>1. Init => Owned
  BY InitOwn DEF Owned
<1>2. Owned /\ [Next]_s => Owned'
  BY OwnedNext
<1>3. Owned => s.wild \/ Exact(s)
  BY DEF Owned, Held, Own
<1> QED BY <1>1, <1>2, <1>3, PTL DEF Spec

(* num_atasks and active_task_count are those of the active tasks there are *)
(* (TaskLib.nc:413-422), where no chain ends with SendSTR, which counts the *)
(* last active task down twice, or with a one-shot wait, which deletes it   *)
(* twice (Issue.nc:233-237).                                                *)
THEOREM CountsAreKept ==
  ASSUME NoPackets, "heap" \notin Faults, LastLetsGo
  PROVE  Spec => [](s.wild \/ AtasksExact)
<1>1. Init => Counted
  BY InitOwn DEF Counted
<1>2. Counted /\ [Next]_s => Counted'
  BY OwnedNext
<1>3. Counted => s.wild \/ AtasksExact
  BY CountsAreExact DEF Counted, Held, Own
<1> QED BY <1>1, <1>2, <1>3, PTL DEF Spec
=============================================================================
