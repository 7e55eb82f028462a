\* Two flows that share nodes, one event published from outside.
SPECIFICATION FairSpec
CONSTANTS
  par = par
  seq = seq
  cons = cons
  step = step
  ready = ready
  Nodes <- MCNodes
  NoNode = NoNode
  Success <- MCSuccess
  Failure <- MCFailure
  Children <- MCChildren
  Parallel = {par}
  Events = {ready}
  NoEvent = NoEvent
  SubEvent <- MCSubEvent
  PreEvent <- Silent
  SuccessEvent <- MCSuccessEvent
  FailureEvent <- Silent
  Threads = {t1, t2, t3}
  Flows <- MCFlows
  MaxPublish = 1
INVARIANTS TypeOK OneExecutionPerNode PassesBackedByEvents
PROPERTIES WaiterIsWoken NodesAreReleased
CHECK_DEADLOCK FALSE
