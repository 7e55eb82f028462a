\* Two peers with the same message id, a restart, repeated packets.  A loop that no
\* exception ends can do all that the other one can.
SPECIFICATION Spec
CONSTANTS
  Msgs <- PeerMsgs
  RxMax = 1
  Timeout = 0
  TicksPeriod = 4
  IrqPorts = {TRUE, FALSE}
  Endpoints = {TRUE}
  Slots = {s1, s2, s3}
  NoSlot = NoSlot
  MaxAge = 0
  MaxDups = 1
  FifoMax = 1
INVARIANTS PayloadsSound AtMostOnce
\* An exception may end the run loop.
CHECK_DEADLOCK FALSE
