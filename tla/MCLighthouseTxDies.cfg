\* The callback pre-empts main, and an exception in the pump may end the run loop.
SPECIFICATION FairSpec
CONSTANTS
  QueueMax = 1
  FragPayload = 2
  MaxTotal = 3
  IdMod = 3
  Lengths = {3}
  IrqPorts = {TRUE}
  RunLoop = TRUE
  MaxFrames <- MoreFrames
  MaxDirect <- MCDirect
  MaxFails = 1
PROPERTY QueueDrains
