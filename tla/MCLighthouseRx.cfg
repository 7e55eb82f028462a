\* All kinds of packets, and time: buffers expire, and outlive the tick counter.
SPECIFICATION FairSpec
CONSTANTS
  Msgs <- MCMsgs
  RxMax = 1
  Timeout = 0
  TicksPeriod = 4
  IrqPorts = {TRUE, FALSE}
  Endpoints = {TRUE, FALSE}
  Slots = {s1, s2, s3}
  NoSlot = NoSlot
  MaxAge = 2
  MaxDups = 0
  FifoMax = 2
INVARIANTS TypeOK FullMeansWhole JoinsFreshBuffer NoPacketVanishes
PROPERTY ReceiverCatchesUp
\* An exception may end the run loop.
CHECK_DEADLOCK FALSE
