---------------------------- MODULE MCFlowEngine ----------------------------
(* A small flow: a parallel node starts a consumer, then a sequential node  *)
(* runs a step whose event the consumer waits for.  The consumer is also a  *)
(* flow of its own that loops, and the flow to which a failed step leads.   *)
EXTENDS FlowEngine

CONSTANTS par, seq, cons, step, ready

MCNodes == {par, seq, cons, step}
None == [n \in MCNodes |-> NoNode]
Silent == [n \in MCNodes |-> NoEvent]
MCSuccess == [None EXCEPT ![par] = seq, ![cons] = cons]
MCFailure == [None EXCEPT ![seq] = cons]
MCChildren == [n \in MCNodes |-> CASE n = par -> <<cons>>
                                   [] n = seq -> <<step>>
                                   [] OTHER -> << >>]
MCSubEvent == [Silent EXCEPT ![cons] = ready]
MCSuccessEvent == [Silent EXCEPT ![step] = ready]
MCFlows == <<par, cons>>
=============================================================================
