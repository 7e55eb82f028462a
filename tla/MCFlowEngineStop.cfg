\* The application calls stop while flows run or have just been started.
SPECIFICATION FairSpec
CONSTANTS
  par = par
  seq = seq
  cons = cons
  step = step
  ready = ready
  Nodes <- MCNodes
  NoNode = NoNode
  Success <- MCSuccess
  Failure <- MCFailure
  Children <- MCChildren
  Parallel = {par}
  Events = {ready}
  NoEvent = NoEvent
  SubEvent <- MCSubEvent
  PreEvent <- Silent
  SuccessEvent <- MCSuccessEvent
  FailureEvent <- Silent
  Threads = {t1, t2, t3}
  Flows <- MCFlows
  MaxPublish = 1
PROPERTY StoppedStays
CHECK_DEADLOCK FALSE
