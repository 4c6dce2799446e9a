------------------------------- MODULE MCPacket -------------------------------
(* One or two tids, for which the mote sends reliably or not.              *)
EXTENDS PacketTransport, TLC

CONSTANTS t1, t2

(* A state some steps into a behaviour: the mote runs the task of every    *)
(* tid and nothing is under way.  The client has left; the deletions it    *)
(* had the master send were lost.                                          *)
InstalledInit ==
  /\ air = {} /\ m_ptrcs = <<>> /\ streams = {} /\ got = {}
  /\ pc = [t \in Tid |-> NewPtr]
  /\ tids = [t \in Tid |-> "gone"]
  /\ told = [t \in Tid |-> {"RETURN", "ACK"}]
  /\ PtrMoteInitWith([t \in Tid |-> {"task"}], FirstSeqno)

(* The start, of a mote that has used its numbers up for earlier tasks: it *)
(* acknowledges the tasks it is sent and answers none.                     *)
SilentInit ==
  /\ air = {} /\ PtrMasterInit
  /\ PtrMoteInitWith([t \in Tid |-> {}], MaxPtrSeqno + 1)

AnswerSpec ==
  /\ InstalledInit \/ SilentInit
  /\ [][Next]_vars /\ MasterFairness /\ MoteFairness
=============================================================================
