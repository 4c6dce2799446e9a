------------------------------- MODULE MCTrd -------------------------------
(* One master m and one or two motes, in a line m - a - b or all in reach  *)
(* of each other.                                                          *)
EXTENDS TrdNetwork

CONSTANTS m, a, b

MCLinks == {<<m, a>>, <<a, m>>, <<a, b>>, <<b, a>>} \cap (Node \X Node)
MCMesh  == {l \in Node \X Node : l[1] # l[2]}

(* A state far into a behaviour: packet 1 is everywhere, and then mote b    *)
(* restarts.                                                               *)
Packet == TrdMsg(m, 1, 1)
Row    == [origin |-> m, cache |-> <<Entry(1, 0, 1)>>]

Settled(n) ==
  IF n = m THEN [MasterAlone EXCEPT !.seqno = 1, !.table = <<Row>>, !.mem[0] = Packet,
                                    !.ptr = 1 % MemSize, !.pkt = Packet]
  ELSE IF n = a THEN [MoteInit EXCEPT !.state = "STEADY", !.flash = "IDLE",
                        !.table = <<Row>>, !.log[0] = Packet, !.ptr = 1 % LogSize,
                        !.got[m] = <<1>>]
  ELSE MoteInit

RestartInit == node = [n \in Node |-> Settled(n)] /\ sent = [o \in Masters |-> 1]

RestartSpec == RestartInit /\ [][Next]_vars

(* Bound: the master only sends packets; a mote advertises them to b.       *)
QuietMaster == \A i \in DOMAIN node[m].air : node[m].air[i].pkt.kind # "summary"
=============================================================================
