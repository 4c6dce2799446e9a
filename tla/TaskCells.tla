----------------------------- MODULE TaskCells -----------------------------
(***************************************************************************)
(* Tasks, active tasks and the lists that hold them                        *)
(* (src/mote/lib/TaskLib.nc, tenet_task.h).  A task is a chain of tasklets *)
(* an application installed; an active task is one walk along the chain.   *)
(* Both live in cells of the heap, and a pointer is the number of a cell,  *)
(* 0 for NULL.  A cell that was freed keeps what it held until it is used  *)
(* again, and the first free cell is used first (MemoryM.nc), so that a    *)
(* pointer that has become stale reads what the program would read.        *)
(*                                                                         *)
(* The state of the mote's task core is a record; this module uses         *)
(*   task    task cell -> [busy, id, built, atasks, sendbusy, conn, e2busy]*)
(*           built: how many elements have been constructed; conn: state   *)
(*           of its sendSTR element; e2busy: busy of its sendPkt element   *)
(*   atask   active task cell -> [busy, t, idx, data]                      *)
(*   count   active_task_count                                             *)
(***************************************************************************)
EXTENDS Integers, SequencesExt

CONSTANTS
  Ids,         (* the ids of the tasks applications install                 *)
  Chain,       (* id -> the kinds of its elements                           *)
  Load,        (* id -> packets its data fills, Huge if it fits none        *)
  NumTasks, NumAtasks, (* cells for tasks and for active tasks              *)
  Huge         (* data of which not even one attribute fits a packet        *)

(* The kinds of elements: issue once and repeatedly, sample once and        *)
(* repeatedly, an element that only adds data, the three ways of sending    *)
(* (stream, packet with and without end-to-end acknowledgment), deletion of *)
(* the task and of the active task, and whatever only computes.             *)
Kinds == {"wait", "every", "sample", "repeat", "count", "str", "pkt", "be",
          "delif", "actif", "next"}

ASSUME TaskCellsAssumption ==
  /\ 0 \notin Ids
  /\ Chain \in [Ids -> Seq(Kinds)]
  /\ Huge \in Nat \ {0}
  /\ Load \in [Ids -> 1 .. Huge]
  /\ NumTasks \in Nat /\ NumAtasks \in Nat

TaskCells  == 1 .. NumTasks
AtaskCells == 1 .. NumAtasks

FreeTask  == [busy |-> FALSE, id |-> 0, built |-> 0, atasks |-> 0,
              sendbusy |-> FALSE, conn |-> "none", e2busy |-> FALSE]
FreeAtask == [busy |-> FALSE, t |-> 0, idx |-> 0, data |-> 0]

FirstFree(cells) ==
  LET free == {c \in DOMAIN cells : ~cells[c].busy}
  IN  IF free = {} THEN 0 ELSE CHOOSE c \in free : \A d \in free : c <= d

(* element_this: the kind of the element an active task has come to.        *)
ElementThis(s, a) ==
  LET t == s.atask[a].t
  IN  IF t = 0 THEN "none"
      ELSE IF ~s.task[t].busy \/ s.atask[a].idx > s.task[t].built THEN "none"
      ELSE Chain[s.task[t].id][s.atask[a].idx]

(* Nothing in memory can be relied on after this.                           *)
Wild(s) == [s EXCEPT !.wild = TRUE]

(* active_task_new in cell a, which is free: the walk starts at the first.  *)
AtaskNew(s, a, t) ==
  [s EXCEPT !.atask[a] = [busy |-> TRUE, t |-> t, idx |-> 1, data |-> 0],
            !.task[t].atasks = @ + 1, !.count = @ + 1]

(* active_task_clone of o, into cell a, which is free.                      *)
AtaskClone(s, a, o) ==
  [s EXCEPT !.atask[a] = s.atask[o], !.task[s.atask[o].t].atasks = @ + 1,
            !.count = @ + 1]

(* Variant: the task does not learn that it has one fewer.                  *)
AtaskDeleteUncounted(s, a) ==
  IF a = 0 THEN s
  ELSE [s EXCEPT !.atask[a].busy = FALSE, !.atask[a].data = 0, !.count = @ - 1]

(* active_task_delete.                                                      *)
AtaskDelete(s, a) ==
  IF a = 0 THEN s
  ELSE LET t     == s.atask[a].t
           freed == [s EXCEPT !.atask[a].busy = FALSE, !.atask[a].data = 0,
                              !.count = @ - 1]
       IN  IF t = 0 THEN freed ELSE [freed EXCEPT !.task[t].atasks = @ - 1]

(* The list l with only the members of S left on it.                        *)
Only(l, S) ==
  LET upto[i \in 0 .. Len(l)] ==
        IF i = 0 THEN <<>>
        ELSE IF l[i] \in S THEN Append(upto[i - 1], l[i]) ELSE upto[i - 1]
  IN  upto[Len(l)]

(* The active tasks of t.                                                   *)
Walks(s, t) == {a \in AtaskCells : s.atask[a].t = t}

(* remove_task: the active tasks of t on the list s[f] are deleted, and     *)
(* leave it.                                                                *)
RemoveTask(s, f, t) ==
  LET upto[i \in 0 .. Len(s[f])] ==
        IF i = 0 THEN s
        ELSE IF s[f][i] \in Walks(s, t) THEN AtaskDelete(upto[i - 1], s[f][i]) ELSE upto[i - 1]
  IN  [upto[Len(s[f])] EXCEPT ![f] = Only(@, AtaskCells \ Walks(s, t))]

(* data_serialize: whether there is a packet, and what is left.             *)
Serializes(d) == d # 0 /\ d # Huge
Unpacked(d)   == IF Serializes(d) THEN d - 1 ELSE d
=============================================================================
