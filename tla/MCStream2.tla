------------------------------ MODULE MCStream2 ------------------------------
(* Two streams, of one tid (two motes run the task) or of two.             *)
EXTENDS StreamTransport, TLC

CONSTANTS s1, s2, t1, t2

OneTid  == [s \in {s1, s2} |-> t1]

(* The two motes are interchangeable.                                      *)
Streams == Permutations({s1, s2})

(* A state some steps into a behaviour: s2 and then s1 have connected, and *)
(* s1, whose only packet arrived in order, has been quiet until its alarm. *)
QuietInit ==
  /\ net = {} /\ m_strcs = <<s1, s2>>
  /\ cs = [s \in Stream |->
             IF s = s1 THEN [NewConnection EXCEPT !.nextExpected = 2, !.lastRecv = 1,
                                                  !.alarm = "due"]
             ELSE [NewConnection EXCEPT !.alarm = "armed"]]
  /\ tids = [t \in Tid |-> "task"]
  /\ others = [t \in Tid |-> {}]
  /\ delivered = [s \in Stream |-> IF s = s1 THEN <<1>> ELSE <<>>]
  /\ givenUp = [s \in Stream |-> {}]
  /\ conn = [s \in Stream |->
               [Reset EXCEPT !.state = "ACTIVE", !.lastSent = IF s = s1 THEN 1 ELSE 0]]
  /\ sent = [s \in Stream |-> IF s = s1 THEN 1 ELSE 0]

(* The master's loop polls for ever, time passes and motes' posted sends   *)
(* and the routing layer's sendDone happen.                                *)
QuietFairness ==
  /\ WF_vars(MasterStep(Poll))
  /\ \A s \in Stream :
       /\ WF_vars(MasterStep(Expire(s)))
       /\ WF_vars(SenderStep(\E m \in Seqno : Retransmit(s, m)))

QuietSpec == QuietInit /\ [][Next]_vars /\ QuietFairness
=============================================================================
