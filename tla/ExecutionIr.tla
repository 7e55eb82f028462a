---------------------------- MODULE ExecutionIr ----------------------------
(***************************************************************************)
(* The execution IR (execution_ir.py) as a value: the nodes of a graph,    *)
(* and what validation accepts.  An id is the sequence of the words that   *)
(* the code joins with "_".  Filters, guards, bindings, the arguments of   *)
(* actions and the correlation mode are left out: no code reads them.      *)
(***************************************************************************)
EXTENDS Integers, Sequences, SequencesExt

CONSTANTS
  Namespaced   \* the event names that match [a-z0-9_.-]+

Transition(on, to) == [on |-> on, to |-> to]
EventOption(event, to, priority) ==
  [kind |-> "EVENT", event |-> event, to |-> to, priority |-> priority]
TimeoutOption(ms, to, priority) ==
  [kind |-> "TIMEOUT", ms |-> ms, to |-> to, priority |-> priority]

WaitEventNode(id, on, transitions) ==
  [kind |-> "WAIT_EVENT", id |-> id, on |-> on, transitions |-> transitions]
ActionNode(id, action, transitions) ==
  [kind |-> "ACTION", id |-> id, action |-> action, transitions |-> transitions]
EmitNode(id, event, transitions) ==
  [kind |-> "EMIT", id |-> id, event |-> event, transitions |-> transitions]
WaitMultiNode(id, options) == [kind |-> "WAIT_MULTI", id |-> id, options |-> options]
ParallelNode(id, branches, join) ==
  [kind |-> "PARALLEL", id |-> id, branches |-> branches, join |-> join]
EndNode(id) == [kind |-> "END", id |-> id]

Graph(entry, entryNodes, nodes) ==
  [accepted |-> TRUE, entry |-> entry, entryNodes |-> entryNodes, nodes |-> nodes]
\* What a ValueError leaves of a graph.
Rejected == [Graph(<< >>, << >>, << >>) EXCEPT !.accepted = FALSE]

\* An empty list of entry nodes counts as none, and then entry is the only one.
Entries(graph) == IF graph.entryNodes = << >> THEN <<graph.entry>> ELSE graph.entryNodes

Ids(graph) == {node.id : node \in Range(graph.nodes)}
NodeOf(graph, id) == CHOOSE node \in Range(graph.nodes) : node.id = id

\* The nodes that a node refers to.
Targets(node) ==
  CASE node.kind \in {"WAIT_EVENT", "ACTION", "EMIT"} -> {t.to : t \in Range(node.transitions)}
    [] node.kind = "PARALLEL"   -> Range(node.branches) \cup {node.join}
    [] node.kind = "WAIT_MULTI" -> {o.to : o \in Range(node.options)}
    [] node.kind = "END"        -> {}

\* The field types of the models: what is a list there is a sequence here.
IsList(s) == Len(s) \in Nat /\ s = [i \in 1 .. Len(s) |-> s[i]]
TypedNode(node) ==
  CASE node.kind = "WAIT_EVENT" -> IsList(node.on) /\ IsList(node.transitions)
    [] node.kind \in {"ACTION", "EMIT"} -> IsList(node.transitions)
    [] node.kind = "PARALLEL"   -> IsList(node.branches)
    [] node.kind = "WAIT_MULTI" ->
         /\ IsList(node.options)
         /\ \A i \in DOMAIN node.options :
              node.options[i].kind \in {"EVENT", "TIMEOUT"} /\ node.options[i].priority \in Int
    [] OTHER -> node.kind = "END"
TypedGraph(graph) ==
  /\ IsList(graph.entryNodes) /\ IsList(graph.nodes)
  /\ \A i \in DOMAIN graph.nodes : TypedNode(graph.nodes[i])

-----------------------------------------------------------------------------
(* The validators.                                                         *)

\* MultiOption.validate_kind_fields, and the bound of its field ms
ValidOption(o) ==
  \/ o.kind = "EVENT" /\ o.event \in Namespaced
  \/ o.kind = "TIMEOUT" /\ o.ms > 0

ValidNode(node) ==
  CASE node.kind = "WAIT_EVENT" -> Range(node.on) \subseteq Namespaced
    [] node.kind = "EMIT"       -> node.event \in Namespaced
    [] node.kind = "WAIT_MULTI" -> node.options # << >> /\ \A o \in Range(node.options) : ValidOption(o)
    [] OTHER -> TRUE

\* Mutant: duplicates are only looked for among nodes of the same kind.
IdsUniquePerKind(graph) ==
  \A i, j \in DOMAIN graph.nodes :
    graph.nodes[i].id = graph.nodes[j].id /\ graph.nodes[i].kind = graph.nodes[j].kind => i = j
IdsUnique(graph) ==
  \A i, j \in DOMAIN graph.nodes : graph.nodes[i].id = graph.nodes[j].id => i = j

\* Mutant: the targets of a WAIT_MULTI node are not looked up.
TargetsExistForTransitions(graph) ==
  \A node \in Range(graph.nodes) : node.kind = "WAIT_MULTI" \/ Targets(node) \subseteq Ids(graph)
TargetsExist(graph) == \A node \in Range(graph.nodes) : Targets(node) \subseteq Ids(graph)

\* Graph.validate_graph
ValidGraph(graph) ==
  /\ \A node \in Range(graph.nodes) : ValidNode(node)
  /\ IdsUnique(graph)
  /\ {graph.entry} \cup Range(Entries(graph)) \subseteq Ids(graph)
  /\ TargetsExist(graph)

\* validate_execution_ir
ValidateExecutionIr(graph) == IF ValidGraph(graph) THEN graph ELSE Rejected

-----------------------------------------------------------------------------
\* The nodes to which a run that starts at an id can come.
Reach(graph, id) ==
  LET step[k \in 0 .. Len(graph.nodes)] ==
        IF k = 0 THEN {id}
        ELSE LET before == step[k - 1]
             IN before \cup UNION {Targets(NodeOf(graph, i)) : i \in before}
  IN step[Len(graph.nodes)]
=============================================================================
